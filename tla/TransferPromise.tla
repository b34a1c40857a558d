---------------------------- MODULE TransferPromise ----------------------------
(***************************************************************************)
(* What io_throttle promises to those who ask it to move a file: each call *)
(* is answered once, at once when it is refused or later when the transfer *)
(* it opened is over, and a packetID has one open transfer at a time.      *)
(* SupplierQueue and RequestQueue are checked against it.                  *)
(***************************************************************************)
EXTENDS Naturals

CONSTANTS
  Packet,    \* the packetIDs that may be transferred
  MaxCalls   \* bound: calls per packetID

VARIABLES
  open,      \* packetIDs whose transfer was accepted and is not over
  calls,     \* calls made for p
  reports    \* callbacks given for p

vars == <<open, calls, reports>>

Init ==
  /\ open = {}
  /\ calls = [p \in Packet |-> 0]
  /\ reports = [p \in Packet |-> 0]

Call(p) == calls[p] < MaxCalls[p] /\ calls' = [calls EXCEPT ![p] = @ + 1]
Report(p) == reports' = [reports EXCEPT ![p] = @ + 1]

Refuse(p) == Call(p) /\ Report(p) /\ UNCHANGED open
Accept(p) == Call(p) /\ p \notin open /\ open' = open \cup {p} /\ UNCHANGED reports
Settle(p) == Report(p) /\ p \in open /\ open' = open \ {p} /\ UNCHANGED calls

Next == \E p \in Packet : Refuse(p) \/ Accept(p) \/ Settle(p)

Spec     == Init /\ [][Next]_vars
FairSpec == Spec /\ \A p \in Packet : WF_vars(Settle(p))

=============================================================================
