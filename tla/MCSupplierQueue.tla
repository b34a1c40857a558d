---------------------------- MODULE MCSupplierQueue ----------------------------
(* SupplierQueue on a small instance: three packets of two backups. *)
EXTENDS SupplierQueue, TLC

CONSTANTS p1, p2, p3

MCPacket   == {p1, p2, p3}
MCBackups  == {{p1, p2}, {p3}}

\* p1 is asked for again, at any moment.
MCCalls == [p \in Packet |-> IF p = p1 THEN 2 ELSE 1]
=============================================================================
