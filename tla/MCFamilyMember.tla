---------------------------- MODULE MCFamilyMember ----------------------------
(* Two nodes that the customer may hire for two positions, and one DHT node     *)
(* that keeps the record and is none of them.                                   *)
EXTENDS FamilyMember

MCOwnHolder == [s \in Supplier |-> Nobody]
=============================================================================
