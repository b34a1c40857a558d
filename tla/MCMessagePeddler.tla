--------------------------- MODULE MCMessagePeddler ---------------------------
(* Two groups on one broker, one of them with two queue ids; two members, one *)
(* of which has a new identity to rotate to.                                  *)
EXTENDS MessagePeddler, TLC

CONSTANTS a1, a2, b1, c1, c2, c3, p1

MCGroup == a1 :> "a" @@ a2 :> "a" @@ b1 :> "b"
MCNewId == c1 :> c1 @@ c2 :> c3 @@ c3 :> c3
=============================================================================
