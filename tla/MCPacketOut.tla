------------------------------ MODULE MCPacketOut ------------------------------
(* PacketOut on a small instance: a wide Data packet that has a response        *)
(* timeout, a Retrieve that has none, and an Ack, which waits for nothing.      *)
EXTENDS PacketOut, TLC

CONSTANTS d1, r1, a1, tcp, udp, k1, k2

MCOut     == {d1, r1, a1}
MCKind    == [o \in MCOut |-> IF o = r1 THEN "Retrieve" ELSE IF o = a1 THEN "Ack" ELSE "Data"]
MCTimeout == [o \in MCOut |-> IF o = d1 THEN 15 ELSE 0]
MCWide    == {d1}

MCContact == {tcp, udp}
MCCaller  == {k1, k2}
=============================================================================
