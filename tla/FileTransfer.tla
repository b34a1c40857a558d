---------------------------- MODULE FileTransfer ----------------------------
(***************************************************************************)
(* What the transfer of a file promises, whatever the network does: the    *)
(* receiver writes the blocks of the file in their order and each of them  *)
(* once, and neither side says "finished" before all of them are written.  *)
(* Either side may fail at any time: a file that is finished and not yet   *)
(* closed fails when its session is shut down.  A file that was cancelled  *)
(* is finished when its last blocks are acked.                             *)
(***************************************************************************)
EXTENDS Naturals, Sequences

CONSTANT Size    \* the blocks of the file

VARIABLES
    written,     \* the blocks the receiver has written
    sender,      \* OutboxFile.status
    receiver     \* InboxFile.status

FirstBlocks(n) == [i \in 1..n |-> i]
File == FirstBlocks(Size)

Init == written = <<>> /\ sender = "open" /\ receiver = "open"

Write == \E n \in Len(written)..Size : written' = FirstBlocks(n)

\* A side goes on, fails, or finishes with the whole file written
Outcome(status, status_) ==
    \/ status_ \in {status, "failed"}
    \/ status_ = "finished" /\ written' = File

Next == Write /\ Outcome(sender, sender') /\ Outcome(receiver, receiver')

Spec == Init /\ [][Next]_<<written, sender, receiver>>
=============================================================================
