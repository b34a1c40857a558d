-------------------------- MODULE UDPStream_proofs --------------------------
(***************************************************************************)
(* What is proved of the two streams of a file, for every size of the file *)
(* and of the buffers and for any number of acks on the way.               *)
(*                                                                         *)
(* The argument relates the two ends by the blocks that are "known" to be  *)
(* acked: those the sender waits for no more and those the acks on the way *)
(* name.  The steps of the sender never add to them.  The receiver adds    *)
(* what it holds; once it has ended it adds nothing, so a block it did not *)
(* hold then is never acked and the sender cannot say "finished".          *)
(***************************************************************************)
EXTENDS UDPStream, FiniteSetTheorems, TLAPS

Statuses == {"open", "finished", "failed"}
OutType ==
    [state : Open \cup {"COMPLETION", "CLOSED"}, eof : BOOLEAN, blocks : SUBSET (1..Size),
     pushed : 0..Size, delivered : 0..Size, status : Statuses, timeout : BOOLEAN,
     cancelled : BOOLEAN, asked : {"pending", "yes"}, reports : Nat,
     later : SUBSET {"resume", "close"}]
Live == {"NONE", "RECEIVING"}
InpType ==
    [state : Live \cup {"COMPLETION", "CLOSED"}, eof : BOOLEAN, blocks : SUBSET (1..Size),
     current : 0..Size, toAck : SUBSET (1..Size), status : Statuses, timeout : BOOLEAN,
     asked : {"no", "pending", "yes"}, reports : Nat, later : SUBSET {"close"}]
AckType == [ids : SUBSET (1..Size), eof : BOOLEAN, pause : BOOLEAN, closed : BOOLEAN]

\* What a registration and the end of a stream leave in its file
FileInv(file, working) ==
    /\ Unregistered(file)
    /\ file.state \notin working => file.status # "open"
    /\ file.state \in working /\ file.asked # "yes" => file.status = "open"
    /\ "close" \in file.later => file.asked = "yes" /\ file.state = "COMPLETION"

\* The bytes delivered are those of the blocks pushed and not waited for
Counted(o) ==
    IF o.state \in Open
    THEN o.blocks \subseteq 1..o.pushed /\ Cardinality(o.blocks) + o.delivered = o.pushed
    ELSE o.blocks = {} /\ o.pushed = 0
SendInv(o) == o \in OutType /\ Counted(o) /\ FileInv(o, Open)

Held(i) == {b \in 1..Size : b <= i.current \/ b \in i.blocks}
ReceiveInv(i) ==
    /\ i \in InpType /\ FileInv(i, Live)
    /\ i.asked = "no" <=> i.state = "NONE"
    /\ i.state \in Live => i.toAck \subseteq Held(i) /\ i.current + 1 \notin i.blocks
    /\ i.eof \/ i.status = "finished" => i.current = Size

\* The blocks the sender waits for no more, and those of the acks on the way
Acked(o) == IF o.state \in Open THEN (1..o.pushed) \ o.blocks ELSE {}
Named(set) == UNION {m.ids : m \in set}
Known == Acked(out) \cup Named(acks)

\* The two ends together
Together ==
    /\ inp.state \in Live => Known \subseteq Held(inp)
    /\ inp.state \notin Live => inp.current = Size \/ \E b \in 1..Size : b \notin Known
    /\ out.status = "finished" => inp.current = Size

IInv ==
    /\ SendInv(out) /\ ReceiveInv(inp)
    /\ acks \subseteq AckType /\ data \subseteq 1..Size
    /\ written = Transfer!FirstBlocks(inp.current)
    /\ Together

-----------------------------------------------------------------------------
(* The sender *)

\* doPushBlocks() counts every block it adds
LEMMA PushKeeps ==
    ASSUME NEW o, SendInv(o), o.state \in Open, NEW c \in o.pushed..Size
    PROVE  /\ SendInv(Push(o, c))
           /\ Push(o, c).state = o.state /\ Push(o, c).status = o.status
           /\ Acked(Push(o, c)) \subseteq Acked(o)
<1> DEFINE added == o.pushed + 1 .. c
           p == Push(o, c)
<1>1. /\ o \in OutType /\ o.pushed \in 0..Size /\ o.blocks \subseteq 1..o.pushed
      /\ Cardinality(o.blocks) + o.delivered = o.pushed /\ o.delivered \in 0..Size
      /\ Size \in Nat
  BY StreamAssumption DEF SendInv, Counted, OutType
<1>2. IsFiniteSet(o.blocks)
  <2>1. 1 \in Int /\ o.pushed \in Int
    BY <1>1
  <2> QED
    BY <1>1, <2>1, FS_Interval, FS_Subset
<1>3. IsFiniteSet(added) /\ Cardinality(added) = c - o.pushed
  <2>1. o.pushed + 1 \in Int /\ c \in Int /\ c >= o.pushed
    BY <1>1
  <2>2. /\ IsFiniteSet(added)
        /\ Cardinality(added) = IF o.pushed + 1 > c THEN 0 ELSE c - (o.pushed + 1) + 1
    BY <2>1, FS_Interval
  <2> HIDE DEF added, p
  <2> QED
    BY <1>1, <2>1, <2>2
<1>4. o.blocks \cap added = {}
  BY <1>1
<1>5. Cardinality(o.blocks \cup added) = Cardinality(o.blocks) + (c - o.pushed)
  <2>1. Cardinality(o.blocks \cap added) = 0
    BY <1>4, FS_EmptySet
  <2>2. Cardinality(o.blocks \cup added)
          = Cardinality(o.blocks) + Cardinality(added) - Cardinality(o.blocks \cap added)
    BY <1>2, <1>3, FS_Union
  <2>3. Cardinality(o.blocks) \in Nat
    BY <1>2, FS_CardinalityType
  <2> QED
    BY <1>1, <1>3, <2>1, <2>2, <2>3
<1>6. o.blocks \cup added \in SUBSET (1..Size) /\ c \in 0..Size
  BY <1>1
<1>7. p = [o EXCEPT !.blocks = o.blocks \cup added, !.pushed = c]
  BY DEF Push
<1> HIDE DEF p, added
<1>8. /\ p \in OutType /\ p.blocks = o.blocks \cup added /\ p.pushed = c
      /\ p.state = o.state /\ p.status = o.status /\ p.delivered = o.delivered
      /\ p.asked = o.asked /\ p.reports = o.reports /\ p.later = o.later
  BY <1>1, <1>6, <1>7 DEF OutType
<1>9. p.blocks \subseteq 1..p.pushed
  BY <1>1, <1>8 DEF added
<1>10. Cardinality(p.blocks) + p.delivered = p.pushed
  BY <1>1, <1>2, <1>5, <1>8, FS_CardinalityType
<1>11. FileInv(p, Open)
  BY <1>8 DEF SendInv, FileInv, Unregistered
<1>12. Acked(p) \subseteq Acked(o)
  BY <1>1, <1>8 DEF Acked, added
<1>13. SendInv(p)
  BY <1>8, <1>9, <1>10, <1>11 DEF SendInv, Counted
<1> QED
  BY <1>8, <1>12, <1>13 DEF p

\* What an open stream changes besides its blocks and its end
LEMMA FlagsKeep ==
    ASSUME NEW o, SendInv(o), o.state \in Open,
           NEW p \in OutType, p.state \in Open,
           p.blocks = o.blocks, p.pushed = o.pushed, p.delivered = o.delivered,
           p.status = o.status, p.asked = o.asked, p.reports = o.reports,
           "close" \in p.later => "close" \in o.later
    PROVE  SendInv(p) /\ Acked(p) = Acked(o)
<1>1. Counted(p) /\ Acked(p) = Acked(o)
  BY DEF SendInv, Counted, Acked
<1>2. FileInv(p, Open)
  BY DEF SendInv, FileInv, Unregistered, Open
<1> QED
  BY <1>1, <1>2 DEF SendInv

\* on_ack_received() counts every block it pops
Popped(o, hits) ==
    [o EXCEPT !.blocks = @ \ hits, !.delivered = @ + Cardinality(hits)]
LEMMA PopKeeps ==
    ASSUME NEW o, SendInv(o), o.state \in Open, NEW hits \in SUBSET o.blocks
    PROVE  /\ SendInv(Popped(o, hits)) /\ Popped(o, hits).state = o.state
           /\ Popped(o, hits).status = o.status /\ Popped(o, hits).pushed = o.pushed
           /\ Acked(Popped(o, hits)) \subseteq Acked(o) \cup hits
<1> DEFINE p == Popped(o, hits)
<1>1. /\ o \in OutType /\ o.pushed \in 0..Size /\ o.blocks \subseteq 1..o.pushed
      /\ Cardinality(o.blocks) + o.delivered = o.pushed /\ o.delivered \in 0..Size
      /\ Size \in Nat
  BY StreamAssumption DEF SendInv, Counted, OutType
<1>2. IsFiniteSet(o.blocks)
  <2>1. 1 \in Int /\ o.pushed \in Int
    BY <1>1
  <2> QED
    BY <1>1, <2>1, FS_Interval, FS_Subset
<1>3. /\ Cardinality(o.blocks \ hits) = Cardinality(o.blocks) - Cardinality(hits)
      /\ Cardinality(o.blocks \ hits) \in Nat /\ Cardinality(hits) \in Nat
      /\ Cardinality(o.blocks) \in Nat
  <2>1. IsFiniteSet(hits) /\ IsFiniteSet(o.blocks \ hits) /\ o.blocks \cap hits = hits
    BY <1>2, FS_Subset, FS_Difference
  <2>2. Cardinality(o.blocks \ hits) = Cardinality(o.blocks) - Cardinality(o.blocks \cap hits)
    BY <1>2, FS_Difference
  <2> QED
    BY <1>2, <2>1, <2>2, FS_CardinalityType
<1>4. o.blocks \ hits \in SUBSET (1..Size) /\ o.delivered + Cardinality(hits) \in 0..Size
  BY <1>1, <1>3
<1>5. p = [o EXCEPT !.blocks = o.blocks \ hits, !.delivered = o.delivered + Cardinality(hits)]
  BY DEF Popped
<1> HIDE DEF p
<1>6. /\ p \in OutType /\ p.blocks = o.blocks \ hits /\ p.pushed = o.pushed
      /\ p.delivered = o.delivered + Cardinality(hits)
      /\ p.state = o.state /\ p.status = o.status
      /\ p.asked = o.asked /\ p.reports = o.reports /\ p.later = o.later
  BY <1>1, <1>4, <1>5 DEF OutType
<1>7. Cardinality(p.blocks) + p.delivered = p.pushed
  BY <1>1, <1>3, <1>6
<1>8. FileInv(p, Open)
  BY <1>6 DEF SendInv, FileInv, Unregistered
<1>9. SendInv(p)
  BY <1>1, <1>6, <1>7, <1>8 DEF SendInv, Counted
<1> QED
  BY <1>6, <1>9 DEF Acked, p

\* All bytes are delivered only when every block of the file was acked
LEMMA DoneIsAcked ==
    ASSUME NEW o, SendInv(o), o.state \in Open, IsDone(o)
    PROVE  1..Size \subseteq Acked(o)
<1>1. /\ o.pushed \in 0..Size /\ o.blocks \subseteq 1..o.pushed
      /\ Cardinality(o.blocks) + o.delivered = o.pushed /\ o.delivered = Size
      /\ Size \in Nat
  BY StreamAssumption DEF SendInv, Counted, OutType, IsDone
<1>2. IsFiniteSet(o.blocks)
  <2>1. 1 \in Int /\ o.pushed \in Int
    BY <1>1
  <2> QED
    BY <1>1, <2>1, FS_Interval, FS_Subset
<1>3. Cardinality(o.blocks) \in Nat
  BY <1>2, FS_CardinalityType
<1>4. Cardinality(o.blocks) = 0 /\ o.pushed = Size
  BY <1>1, <1>3
<1>5. o.blocks = {}
  BY <1>2, <1>4, FS_EmptySet
<1> QED
  BY <1>4, <1>5 DEF Acked

\* on_ack_received() up to the event
LEMMA TakenKeeps ==
    ASSUME NEW o, SendInv(o), o.state \in Open, NEW m \in AckType, NEW p \in Taken(o, m)
    PROVE  /\ SendInv(p) /\ p.state = o.state /\ p.status = o.status
           /\ Acked(p) \subseteq Acked(o) \cup m.ids
<1> DEFINE hits == m.ids \cap o.blocks
           rest == Popped(o, hits)
           more == hits # {} /\ ~IsDone(rest) /\ ~rest.cancelled
           ends == m.eof \/ m.closed \/ (hits # {} /\ ~more)
<1>1. PICK c \in IF more THEN Reaches(rest, FirstAcked(o)) ELSE {o.pushed} :
        p = [Push(rest, c) EXCEPT !.eof = @ \/ ends]
  BY DEF Taken, Popped
<1>2. /\ SendInv(rest) /\ rest.state = o.state /\ rest.status = o.status
      /\ rest.pushed = o.pushed
      /\ Acked(rest) \subseteq Acked(o) \cup hits
  BY PopKeeps
<1>3. o.pushed \in 0..Size /\ Size \in Nat
  BY StreamAssumption DEF SendInv, OutType
<1>4. c \in rest.pushed..Size
  <2>1. c \in Reaches(rest, FirstAcked(o)) \/ c = o.pushed
    OBVIOUS
  <2> HIDE DEF rest
  <2>2. Reaches(rest, FirstAcked(o)) \subseteq rest.pushed..Size
    BY DEF Reaches
  <2> QED
    BY <1>2, <1>3, <2>1, <2>2
<1> HIDE DEF rest, ends, more
<1>5. /\ SendInv(Push(rest, c)) /\ Push(rest, c).state = rest.state
      /\ Push(rest, c).status = rest.status /\ Acked(Push(rest, c)) \subseteq Acked(rest)
  BY <1>2, <1>4, PushKeeps
<1>6. Push(rest, c) \in OutType /\ ends \in BOOLEAN
  BY <1>5 DEF SendInv, ends, AckType
<1>7. /\ p \in OutType /\ p.state = Push(rest, c).state /\ p.status = Push(rest, c).status
      /\ p.blocks = Push(rest, c).blocks /\ p.pushed = Push(rest, c).pushed
      /\ p.delivered = Push(rest, c).delivered /\ p.asked = Push(rest, c).asked
      /\ p.reports = Push(rest, c).reports /\ p.later = Push(rest, c).later
  BY <1>1, <1>6 DEF OutType
<1>8. SendInv(p) /\ Acked(p) = Acked(Push(rest, c))
  BY <1>2, <1>5, <1>7, FlagsKeep
<1> QED
  BY <1>2, <1>5, <1>7, <1>8

\* doReportSendDone(), doReportSendTimeout() and doCloseStream()
LEMMA SendEndsKeeps ==
    ASSUME NEW o, SendInv(o), o.state \in Open, NEW status \in {"finished", "failed"}
    PROVE  /\ SendInv(SendEnds(o, status)) /\ SendEnds(o, status).status = status
           /\ Acked(SendEnds(o, status)) = {}
<1> DEFINE e == [o EXCEPT !.state = "COMPLETION", !.status = status, !.blocks = {},
                          !.pushed = 0, !.delivered = 0, !.eof = FALSE]
           f == [e EXCEPT !.later = @ \cup {"close"}, !.reports = @ + 1]
<1>1. o \in OutType /\ o.reports = 0 /\ Size \in Nat /\ "close" \notin o.later
      /\ o.later \subseteq {"resume", "close"}
  BY StreamAssumption DEF SendInv, FileInv, Unregistered, OutType, Open
<1>2. /\ e \in OutType /\ e.state = "COMPLETION" /\ e.status = status /\ e.blocks = {}
      /\ e.pushed = 0 /\ e.asked = o.asked /\ e.reports = 0 /\ e.later = o.later
  <2>1. /\ "COMPLETION" \in Open \cup {"COMPLETION", "CLOSED"} /\ status \in Statuses
        /\ {} \in SUBSET (1..Size) /\ 0 \in 0..Size /\ FALSE \in BOOLEAN
    BY <1>1 DEF Statuses
  <2> HIDE DEF f
  <2> QED
    BY <1>1, <2>1 DEF OutType
<1>3. /\ f \in OutType /\ f.state = "COMPLETION" /\ f.status = status /\ f.blocks = {}
      /\ f.pushed = 0 /\ f.asked = o.asked /\ f.reports = 1
  <2> HIDE DEF e
  <2>1. e.later \cup {"close"} \in SUBSET {"resume", "close"} /\ e.reports + 1 \in Nat
    BY <1>1, <1>2
  <2>2. e.reports + 1 = 1
    BY <1>2
  <2> QED
    BY <1>2, <2>1, <2>2 DEF OutType
<1> HIDE DEF e
<1> HIDE DEF f
<1>4. o.asked \in {"pending", "yes"}
  BY <1>1 DEF OutType
<1>5. SendEnds(o, status) = IF o.asked = "pending" THEN e ELSE f
  BY <1>2 DEF SendEnds, Reported, e, f
<1>6. (SendInv(e) /\ Acked(e) = {}) \/ o.asked # "pending"
  BY <1>1, <1>2 DEF SendInv, Counted, FileInv, Unregistered, Acked, Open
<1>7. (SendInv(f) /\ Acked(f) = {}) \/ o.asked = "pending"
  BY <1>3, <1>4 DEF SendInv, Counted, FileInv, Unregistered, Acked, Open
<1> QED
  BY <1>2, <1>3, <1>5, <1>6, <1>7

SenderNext ==
    \/ ProcessFile \/ SendIterate \/ AckReceived
    \/ SendResumes \/ Cancel \/ SendRegistered \/ SendCloses

\* What a step of the sender may do to what the receiver relies on
SenderMoved ==
    /\ SendInv(out') /\ UNCHANGED <<inp, written>>
    /\ acks' \subseteq acks /\ data' \subseteq 1..Size
    /\ Acked(out') \subseteq Known
    /\ \/ out'.status \in {out.status, "failed"}
       \/ out'.status = "finished" /\ 1..Size \subseteq Known

LEMMA ResendSends ==
    ASSUME NEW o, SendInv(o), data \subseteq 1..Size, ResendBlocks(o)
    PROVE  out' = o /\ data' \subseteq 1..Size
BY DEF ResendBlocks, SendInv, OutType

LEMMA GiveUpEnds ==
    ASSUME NEW o, SendInv(o), o.state \in Open, GiveUp(o)
    PROVE  SendInv(out') /\ out'.status = "failed" /\ Acked(out') = {} /\ data' = data
<1> DEFINE q == [o EXCEPT !.timeout = TRUE]
<1>1. /\ q \in OutType /\ q.state = o.state /\ q.blocks = o.blocks /\ q.pushed = o.pushed
      /\ q.delivered = o.delivered /\ q.status = o.status /\ q.asked = o.asked
      /\ q.reports = o.reports /\ q.later = o.later
  BY DEF SendInv, OutType
<1>2. out' = SendEnds(q, "failed") /\ data' = data
  BY DEF GiveUp
<1> HIDE DEF q
<1>3. SendInv(q)
  BY <1>1, FlagsKeep
<1> QED
  BY <1>1, <1>2, <1>3, SendEndsKeeps

LEMMA ProcessFileMoves ==
    ASSUME SendInv(out), data \subseteq 1..Size, ProcessFile
    PROVE  SenderMoved
<1>1. /\ out.state \in Open /\ UNCHANGED <<inp, written, acks>>
      /\ \E c \in Reaches(out, FirstAcked(out)) :
            IF out.state = "PAUSE" THEN out' = Push(out, c) /\ UNCHANGED data
            ELSE ResendBlocks([Push(out, c) EXCEPT !.state = "SENDING"])
  BY DEF ProcessFile
<1>2. PICK c \in Reaches(out, FirstAcked(out)) :
            IF out.state = "PAUSE" THEN out' = Push(out, c) /\ UNCHANGED data
            ELSE ResendBlocks([Push(out, c) EXCEPT !.state = "SENDING"])
  BY <1>1
<1> DEFINE p == Push(out, c)
           q == [p EXCEPT !.state = "SENDING"]
<1>3. /\ SendInv(p) /\ p.state \in Open /\ p.status = out.status
      /\ Acked(p) \subseteq Acked(out)
  <2>1. c \in out.pushed..Size
    BY <1>2 DEF Reaches
  <2> QED
    BY <1>1, <2>1, PushKeeps
<1> HIDE DEF p
<1>4. /\ q \in OutType /\ q.state = "SENDING" /\ q.blocks = p.blocks /\ q.pushed = p.pushed
      /\ q.delivered = p.delivered /\ q.status = p.status /\ q.asked = p.asked
      /\ q.reports = p.reports /\ q.later = p.later
  BY <1>3 DEF SendInv, OutType, Open
<1>5. (out' = p /\ data' = data) \/ ResendBlocks(q)
  BY <1>2 DEF p
<1> HIDE DEF q
<1>6. SendInv(q) /\ Acked(q) = Acked(p)
  BY <1>3, <1>4, FlagsKeep DEF Open
<1>7. (out' = p \/ out' = q) /\ data' \subseteq 1..Size
  BY <1>5, <1>6, ResendSends
<1> QED
  BY <1>1, <1>3, <1>4, <1>6, <1>7 DEF SenderMoved, Known

LEMMA SendIterateMoves ==
    ASSUME SendInv(out), data \subseteq 1..Size, SendIterate
    PROVE  SenderMoved
<1>1. /\ out.state \in Open /\ UNCHANGED <<inp, written, acks>>
      /\ ResendBlocks(out) \/ GiveUp(out)
  BY DEF SendIterate, Open
<1>2. CASE ResendBlocks(out)
  <2>1. out' = out /\ data' \subseteq 1..Size
    BY <1>2, ResendSends
  <2> QED
    BY <1>1, <2>1 DEF SenderMoved, Known
<1>3. CASE GiveUp(out)
  <2>1. SendInv(out') /\ out'.status = "failed" /\ Acked(out') = {} /\ data' = data
    BY <1>1, <1>3, GiveUpEnds
  <2> QED
    BY <1>1, <2>1 DEF SenderMoved
<1> QED
  BY <1>1, <1>2, <1>3

LEMMA SendResumesMoves ==
    ASSUME SendInv(out), data \subseteq 1..Size, SendResumes
    PROVE  SenderMoved
<1> DEFINE o == [out EXCEPT !.later = @ \ {"resume"}]
           q == [o EXCEPT !.state = "SENDING"]
<1>1. /\ UNCHANGED <<inp, written, acks>>
      /\ \/ out.state = "PAUSE" /\ (ResendBlocks(q) \/ GiveUp(q))
         \/ out' = o /\ data' = data
  BY DEF SendResumes
<1>2. /\ o \in OutType /\ o.state = out.state /\ o.blocks = out.blocks /\ o.pushed = out.pushed
      /\ o.delivered = out.delivered /\ o.status = out.status /\ o.asked = out.asked
      /\ o.reports = out.reports /\ o.later \subseteq out.later
  BY DEF SendInv, OutType
<1> HIDE DEF o
<1>3. /\ q \in OutType /\ q.state = "SENDING" /\ q.blocks = o.blocks /\ q.pushed = o.pushed
      /\ q.delivered = o.delivered /\ q.status = o.status /\ q.asked = o.asked
      /\ q.reports = o.reports /\ q.later = o.later
  BY <1>2 DEF OutType, Open
<1> HIDE DEF q
<1>4. SendInv(o) /\ Acked(o) = Acked(out)
  BY <1>2 DEF SendInv, Counted, FileInv, Unregistered, Acked
<1>5. CASE out' = o /\ data' = data
  BY <1>1, <1>2, <1>4, <1>5 DEF SenderMoved, Known
<1>6. CASE out.state = "PAUSE" /\ (ResendBlocks(q) \/ GiveUp(q))
  <2>1. SendInv(q) /\ Acked(q) = Acked(o) /\ q.status = out.status /\ q.state \in Open
    BY <1>2, <1>3, <1>4, <1>6, FlagsKeep DEF Open
  <2>2. CASE ResendBlocks(q)
    <3>1. out' = q /\ data' \subseteq 1..Size
      BY <2>1, <2>2, ResendSends
    <3> QED
      BY <1>1, <1>4, <2>1, <3>1 DEF SenderMoved, Known
  <2>3. CASE GiveUp(q)
    <3>1. SendInv(out') /\ out'.status = "failed" /\ Acked(out') = {} /\ data' = data
      BY <2>1, <2>3, GiveUpEnds
    <3> QED
      BY <1>1, <3>1 DEF SenderMoved
  <2> QED
    BY <1>6, <2>2, <2>3
<1> QED
  BY <1>1, <1>5, <1>6

LEMMA AckReceivedMoves ==
    ASSUME SendInv(out), data \subseteq 1..Size, acks \subseteq AckType, AckReceived
    PROVE  SenderMoved
<1>1. PICK m \in acks :
        /\ acks' = acks \ {m}
        /\ IF out.state \notin {"SENDING", "PAUSE"} THEN UNCHANGED <<out, data>>
           ELSE \E o \in Taken(out, m) :
              \/ /\ o.eof
                 /\ out' = SendEnds(o, IF IsDone(o) THEN "finished" ELSE "failed")
                 /\ UNCHANGED data
              \/ /\ ~o.eof /\ ~m.pause /\ o.state = "SENDING"
                 /\ ResendBlocks(o)
              \/ /\ ~o.eof /\ m.pause /\ o.state = "SENDING"
                 /\ ResendBlocks([o EXCEPT !.state = "PAUSE", !.later = @ \cup {"resume"}])
                 /\ o.pushed = out.pushed => UNCHANGED data
              \/ /\ ~o.eof /\ o.state = "PAUSE"
                 /\ out' = o /\ UNCHANGED data
  BY DEF AckReceived
<1>2. UNCHANGED <<inp, written>> /\ acks' \subseteq acks /\ m \in AckType
      /\ m.ids \subseteq Named(acks)
  BY <1>1 DEF AckReceived, Named
<1>3. CASE out.state \notin {"SENDING", "PAUSE"}
  BY <1>1, <1>2, <1>3 DEF SenderMoved, Known
<1>4. CASE out.state \in {"SENDING", "PAUSE"}
  <2>1. PICK o \in Taken(out, m) :
              \/ /\ out' = SendEnds(o, IF IsDone(o) THEN "finished" ELSE "failed")
                 /\ UNCHANGED data
              \/ ResendBlocks(o)
              \/ ResendBlocks([o EXCEPT !.state = "PAUSE", !.later = @ \cup {"resume"}])
              \/ out' = o /\ UNCHANGED data
    BY <1>1, <1>4
  <2>2. out.state \in Open
    BY <1>4 DEF Open
  <2>3. /\ SendInv(o) /\ o.state \in Open /\ o.status = out.status
        /\ Acked(o) \subseteq Known
    BY <1>2, <2>2, TakenKeeps DEF Known
  <2>4. CASE /\ out' = SendEnds(o, IF IsDone(o) THEN "finished" ELSE "failed")
             /\ UNCHANGED data
    <3>1. CASE IsDone(o)
      <4>1. out' = SendEnds(o, "finished")
        BY <2>4, <3>1
      <4>2. 1..Size \subseteq Known
        BY <2>3, <3>1, DoneIsAcked
      <4> QED
        BY <1>2, <2>3, <2>4, <4>1, <4>2, SendEndsKeeps DEF SenderMoved
    <3>2. CASE ~IsDone(o)
      <4>1. out' = SendEnds(o, "failed")
        BY <2>4, <3>2
      <4> QED
        BY <1>2, <2>3, <2>4, <4>1, SendEndsKeeps DEF SenderMoved
    <3> QED
      BY <3>1, <3>2
  <2>5. CASE ResendBlocks(o)
    <3>1. out' = o /\ data' \subseteq 1..Size
      BY <2>3, <2>5, ResendSends
    <3> QED
      BY <1>2, <2>3, <3>1 DEF SenderMoved
  <2>6. CASE ResendBlocks([o EXCEPT !.state = "PAUSE", !.later = @ \cup {"resume"}])
    <3> DEFINE q == [o EXCEPT !.state = "PAUSE", !.later = @ \cup {"resume"}]
    <3>1. /\ q \in OutType /\ q.state = "PAUSE" /\ q.blocks = o.blocks
          /\ q.pushed = o.pushed /\ q.delivered = o.delivered /\ q.status = o.status
          /\ q.asked = o.asked /\ q.reports = o.reports
          /\ q.later = o.later \cup {"resume"}
      BY <2>3 DEF SendInv, OutType, Open
    <3>2. ResendBlocks(q)
      BY <2>6
    <3> HIDE DEF q
    <3>3. SendInv(q) /\ Acked(q) = Acked(o)
      BY <2>3, <3>1, FlagsKeep DEF Open
    <3>4. out' = q /\ data' \subseteq 1..Size
      BY <3>2, <3>3, ResendSends
    <3> QED
      BY <1>2, <2>3, <3>1, <3>3, <3>4 DEF SenderMoved
  <2>7. CASE out' = o /\ UNCHANGED data
    BY <1>2, <2>3, <2>7 DEF SenderMoved
  <2> QED
    BY <2>1, <2>4, <2>5, <2>6, <2>7
<1> QED
  BY <1>3, <1>4

LEMMA CancelMoves ==
    ASSUME SendInv(out), data \subseteq 1..Size, Cancel
    PROVE  SenderMoved
<1>1. /\ out.asked = "yes" /\ out.state \in Open /\ UNCHANGED <<inp, written, data, acks>>
      /\ out' = [out EXCEPT !.cancelled = TRUE, !.status = "failed"]
  BY DEF Cancel
<1>2. /\ out' \in OutType /\ out'.state = out.state /\ out'.blocks = out.blocks
      /\ out'.pushed = out.pushed /\ out'.delivered = out.delivered
      /\ out'.status = "failed" /\ out'.asked = out.asked
      /\ out'.reports = out.reports /\ out'.later = out.later
  BY <1>1 DEF SendInv, OutType, Statuses
<1>3. Counted(out') /\ Acked(out') = Acked(out)
  BY <1>2 DEF SendInv, Counted, Acked
<1>4. FileInv(out', Open)
  BY <1>1, <1>2 DEF SendInv, FileInv, Unregistered, Open
<1> QED
  BY <1>1, <1>2, <1>3, <1>4 DEF SenderMoved, SendInv, Known

\* on_outbox_file_registered()
LEMMA SendRegisteredMoves ==
    ASSUME SendInv(out), data \subseteq 1..Size, SendRegistered
    PROVE  SenderMoved
<1> DEFINE e == [out EXCEPT !.asked = "yes"]
           f == [e EXCEPT !.later = @ \cup {"close"}, !.reports = @ + 1]
<1>1. /\ out.asked = "pending" /\ UNCHANGED <<inp, written, data, acks>>
      /\ out' = IF out.status = "open" THEN e ELSE f
  BY DEF SendRegistered, Registered, Reported
<1>2. /\ out.reports = 0 /\ "close" \notin out.later /\ out \in OutType
      /\ out.state # "CLOSED" /\ (out.state \in Open <=> out.status = "open")
      /\ out.later \subseteq {"resume", "close"}
  BY <1>1 DEF SendInv, FileInv, Unregistered, OutType
<1>3. /\ e \in OutType /\ e.state = out.state /\ e.status = out.status
      /\ e.blocks = out.blocks /\ e.pushed = out.pushed /\ e.delivered = out.delivered
      /\ e.asked = "yes" /\ e.reports = 0 /\ e.later = out.later
  BY <1>2 DEF OutType
<1> HIDE DEF e
<1>4. /\ f \in OutType /\ f.state = out.state /\ f.status = out.status
      /\ f.blocks = out.blocks /\ f.pushed = out.pushed /\ f.delivered = out.delivered
      /\ f.asked = "yes" /\ f.reports = 1
  <2>1. e.later \cup {"close"} \in SUBSET {"resume", "close"} /\ e.reports + 1 = 1
    BY <1>2, <1>3
  <2>2. e.reports + 1 \in Nat
    BY <2>1
  <2> QED
    BY <1>3, <2>1, <2>2 DEF OutType
<1> HIDE DEF f
<1>5. CASE out.status = "open"
  <2>1. FileInv(e, Open) /\ Counted(e) /\ Acked(e) = Acked(out)
    BY <1>2, <1>3, <1>5 DEF SendInv, Counted, FileInv, Unregistered, Acked, Open
  <2> QED
    BY <1>1, <1>3, <1>5, <2>1 DEF SenderMoved, SendInv, Known
<1>6. CASE out.status # "open"
  <2>1. out.state = "COMPLETION"
    BY <1>2, <1>6 DEF OutType
  <2>2. FileInv(f, Open) /\ Counted(f) /\ Acked(f) = Acked(out)
    BY <1>2, <1>4, <1>6, <2>1 DEF SendInv, Counted, FileInv, Unregistered, Acked, Open
  <2> QED
    BY <1>1, <1>4, <1>6, <2>2 DEF SenderMoved, SendInv, Known
<1> QED
  BY <1>5, <1>6

LEMMA SendClosesMoves ==
    ASSUME SendInv(out), data \subseteq 1..Size, SendCloses
    PROVE  SenderMoved
<1>1. /\ "close" \in out.later /\ out' = Closed(out) /\ UNCHANGED <<inp, written, data, acks>>
  BY DEF SendCloses
<1>2. /\ out.state = "COMPLETION" /\ out.asked = "yes" /\ out.reports = 1
      /\ out.status # "open" /\ out.pushed = 0 /\ out.blocks = {} /\ out \in OutType
  BY <1>1 DEF SendInv, FileInv, Unregistered, Counted, Open
<1>3. /\ out' \in OutType /\ out'.state = "CLOSED" /\ out'.status = out.status
      /\ out'.blocks = {} /\ out'.pushed = 0 /\ out'.asked = "yes"
      /\ out'.reports = 1 /\ out'.later = {}
  BY <1>1, <1>2 DEF Closed, OutType
<1>4. FileInv(out', Open) /\ Counted(out') /\ Acked(out') = {}
  BY <1>2, <1>3 DEF Counted, FileInv, Unregistered, Acked, Open
<1> QED
  BY <1>1, <1>3, <1>4 DEF SenderMoved, SendInv

LEMMA SenderStep ==
    ASSUME SendInv(out), data \subseteq 1..Size, acks \subseteq AckType, SenderNext
    PROVE  SenderMoved
BY ProcessFileMoves, SendIterateMoves, AckReceivedMoves, SendResumesMoves, CancelMoves,
   SendRegisteredMoves, SendClosesMoves DEF SenderNext

-----------------------------------------------------------------------------
(* The receiver *)

\* The blocks written next complete the first blocks of the file
LEMMA WrittenOn ==
    ASSUME NEW a \in Nat, NEW n \in Nat, a <= n
    PROVE  Transfer!FirstBlocks(a) \o [k \in 1..n - a |-> a + k] = Transfer!FirstBlocks(n)
<1> DEFINE s == [i \in 1..a |-> i]
           t == [k \in 1..n - a |-> a + k]
<1>1. s \in Seq(Int) /\ Len(s) = a
  OBVIOUS
<1>2. t \in Seq(Int) /\ Len(t) = n - a
  <2>1. n - a \in Nat
    OBVIOUS
  <2> QED
    BY <2>1
<1>3. \A i \in 1..n : (s \o t)[i] = i
  BY <1>1, <1>2
<1>4. s \o t \in Seq(Int) /\ Len(s \o t) = n
  BY <1>1, <1>2
<1>5. s \o t = [i \in 1..n |-> i]
  BY <1>3, <1>4
<1> QED
  BY <1>5 DEF Transfer!FirstBlocks

\* on_block_received() before the event
LEMMA KeptKeeps ==
    ASSUME NEW i, ReceiveInv(i), NEW b \in 1..Size, NEW n \in i.current..Size,
           Follows(i, b, n)
    PROVE  /\ ReceiveInv(Kept(i, b, n)) /\ Kept(i, b, n).state = i.state
           /\ Kept(i, b, n).status = i.status /\ Kept(i, b, n).current = n
           /\ Held(i) \subseteq Held(Kept(i, b, n))
<1> DEFINE k == Kept(i, b, n)
<1>1. /\ i \in InpType /\ i.current \in 0..Size /\ Size \in Nat /\ i.blocks \subseteq 1..Size
      /\ i.toAck \subseteq 1..Size /\ n \in 0..Size /\ i.eof \in BOOLEAN
  BY StreamAssumption DEF ReceiveInv, InpType
<1>2. /\ Stored(i, b) \in SUBSET (1..Size) /\ i.blocks \subseteq Stored(i, b)
      /\ Stored(i, b) \subseteq i.blocks \cup {b}
      /\ b \in Stored(i, b) \/ b < i.current
  BY <1>1 DEF Stored
<1>3. /\ k \in InpType /\ k.current = n /\ k.blocks = Stored(i, b) \ (i.current + 1 .. n)
      /\ k.toAck = i.toAck \cup {b} /\ k.eof = (i.eof \/ n = Size)
      /\ k.state = i.state /\ k.status = i.status /\ k.asked = i.asked
      /\ k.reports = i.reports /\ k.later = i.later
  <2>1. /\ Stored(i, b) \ (i.current + 1 .. n) \in SUBSET (1..Size)
        /\ i.toAck \cup {b} \in SUBSET (1..Size) /\ (i.eof \/ n = Size) \in BOOLEAN
    BY <1>1, <1>2
  <2>2. k = [i EXCEPT !.current = n, !.blocks = Stored(i, b) \ (i.current + 1 .. n),
                      !.toAck = i.toAck \cup {b}, !.eof = (i.eof \/ n = Size)]
    BY DEF Kept
  <2> HIDE DEF k
  <2> QED
    BY <1>1, <2>1, <2>2 DEF InpType
<1> HIDE DEF k
<1>4. Held(i) \subseteq Held(k) /\ b \in Held(k)
  BY <1>1, <1>2, <1>3 DEF Held
<1>5. k.state \in Live => k.toAck \subseteq Held(k)
  BY <1>3, <1>4 DEF ReceiveInv
<1>6. k.state \in Live => k.current + 1 \notin k.blocks
  <2>1. CASE b = i.current + 1
    BY <1>3, <2>1 DEF Follows
  <2>2. CASE b # i.current + 1
    BY <1>2, <1>3, <2>2 DEF Follows, ReceiveInv
  <2> QED
    BY <2>1, <2>2
<1>7. k.eof \/ k.status = "finished" => k.current = Size
  BY <1>1, <1>3 DEF ReceiveInv
<1>8. FileInv(k, Live) /\ (k.asked = "no" <=> k.state = "NONE")
  BY <1>3 DEF ReceiveInv, FileInv, Unregistered
<1>9. ReceiveInv(k)
  BY <1>3, <1>5, <1>6, <1>7, <1>8 DEF ReceiveInv
<1> QED
  BY <1>3, <1>4, <1>9 DEF k

\* What a step of the receiver may do to what the sender relies on
ReceiverMoved ==
    /\ ReceiveInv(inp') /\ UNCHANGED out
    /\ data' \subseteq 1..Size /\ acks' \subseteq AckType
    /\ inp'.current \in inp.current..Size
    /\ written' = Transfer!FirstBlocks(inp'.current)
    /\ inp'.status \in {inp.status, "failed"} \/ (inp'.status = "finished" /\ inp'.current = Size)
    /\ inp.state \notin Live => inp'.state \notin Live
    /\ inp'.state \in Live =>
          Held(inp) \subseteq Held(inp') /\ Named(acks') \subseteq Named(acks) \cup Held(inp')
    /\ inp'.state \notin Live =>
          inp'.current = Size \/ Named(acks') \subseteq Named(acks)

\* _send_ack() names only blocks that the receiver holds
LEMMA AckNames ==
    ASSUME NEW i, ReceiveInv(i), i.state \in Live, acks \subseteq AckType, NEW pause \in BOOLEAN,
           acks' \in {acks, acks \cup {Ack(i.toAck, i.eof, pause)}}
    PROVE  acks' \subseteq AckType /\ Named(acks') \subseteq Named(acks) \cup Held(i)
<1> DEFINE m == Ack(i.toAck, i.eof, pause)
<1>1. m \in AckType /\ m.ids = i.toAck /\ i.toAck \subseteq Held(i)
  BY DEF ReceiveInv, InpType, Ack, AckType
<1> HIDE DEF m
<1>2. acks' = acks \/ acks' = acks \cup {m}
  BY DEF m
<1> QED
  BY <1>1, <1>2 DEF Named

LEMMA SendAckKeeps ==
    ASSUME NEW i, ReceiveInv(i), i.state \in Live, acks \subseteq AckType,
           NEW pauses \in SUBSET BOOLEAN, SendAck(i, pauses)
    PROVE  /\ ReceiveInv(inp') /\ inp'.state = i.state /\ inp'.status = i.status
           /\ inp'.current = i.current /\ Held(inp') = Held(i)
           /\ acks' \subseteq AckType /\ Named(acks') \subseteq Named(acks) \cup Held(i)
<1>1. /\ inp' = [i EXCEPT !.toAck = {}]
      /\ \E pause \in BOOLEAN : acks' \in {acks, acks \cup {Ack(i.toAck, i.eof, pause)}}
  BY DEF SendAck
<1>2. acks' \subseteq AckType /\ Named(acks') \subseteq Named(acks) \cup Held(i)
  BY <1>1, AckNames
<1>3. /\ inp' \in InpType /\ inp'.state = i.state /\ inp'.status = i.status
      /\ inp'.current = i.current /\ inp'.blocks = i.blocks /\ inp'.toAck = {}
      /\ inp'.eof = i.eof /\ inp'.asked = i.asked /\ inp'.reports = i.reports
      /\ inp'.later = i.later
  BY <1>1 DEF ReceiveInv, InpType
<1>4. ReceiveInv(inp') /\ Held(inp') = Held(i)
  BY <1>3 DEF ReceiveInv, FileInv, Unregistered, Held
<1> QED
  BY <1>2, <1>3, <1>4

\* doReportReceiveDone(), doReportReceiveTimeout() and doCloseStream()
LEMMA ReceiveEndsKeeps ==
    ASSUME NEW i, ReceiveInv(i), i.state = "RECEIVING", NEW status \in {"finished", "failed"},
           status = "finished" => i.current = Size
    PROVE  /\ ReceiveInv(ReceiveEnds(i, status))
           /\ ReceiveEnds(i, status).state = "COMPLETION"
           /\ ReceiveEnds(i, status).status = status
           /\ ReceiveEnds(i, status).current = i.current
<1> DEFINE e == [i EXCEPT !.state = "COMPLETION", !.status = status,
                          !.blocks = {}, !.toAck = {}, !.eof = FALSE]
           f == [e EXCEPT !.later = @ \cup {"close"}, !.reports = @ + 1]
<1>1. /\ i \in InpType /\ i.reports = 0 /\ Size \in Nat /\ i.later = {}
      /\ i.asked \in {"pending", "yes"}
  BY StreamAssumption DEF ReceiveInv, FileInv, Unregistered, InpType, Live
<1>2. /\ e \in InpType /\ e.state = "COMPLETION" /\ e.status = status /\ e.blocks = {}
      /\ e.toAck = {} /\ e.eof = FALSE /\ e.current = i.current
      /\ e.asked = i.asked /\ e.reports = 0 /\ e.later = i.later
  <2>1. /\ "COMPLETION" \in Live \cup {"COMPLETION", "CLOSED"} /\ status \in Statuses
        /\ {} \in SUBSET (1..Size) /\ FALSE \in BOOLEAN
    BY <1>1 DEF Statuses
  <2> HIDE DEF f
  <2> QED
    BY <1>1, <2>1 DEF InpType
<1>3. /\ f \in InpType /\ f.state = "COMPLETION" /\ f.status = status /\ f.blocks = {}
      /\ f.toAck = {} /\ f.eof = FALSE /\ f.current = i.current
      /\ f.asked = i.asked /\ f.reports = 1
  <2> HIDE DEF e
  <2>1. e.later \cup {"close"} \in SUBSET {"close"} /\ e.reports + 1 = 1
    BY <1>1, <1>2
  <2>2. e.reports + 1 \in Nat
    BY <2>1
  <2> QED
    BY <1>2, <2>1, <2>2 DEF InpType
<1> HIDE DEF e
<1> HIDE DEF f
<1>4. ReceiveEnds(i, status) = IF i.asked = "pending" THEN e ELSE f
  BY <1>2 DEF ReceiveEnds, Reported, e, f
<1>5. ReceiveInv(e) \/ i.asked # "pending"
  BY <1>1, <1>2 DEF ReceiveInv, FileInv, Unregistered, Live
<1>6. ReceiveInv(f) \/ i.asked = "pending"
  BY <1>1, <1>3 DEF ReceiveInv, FileInv, Unregistered, Live
<1> QED
  BY <1>2, <1>3, <1>4, <1>5, <1>6

ReceiverNext ==
    \/ \E b \in data : BlockReceived(b)
    \/ ReceiveIterate \/ ReceiveRegistered \/ ReceiveCloses

ReceiverPre ==
    /\ ReceiveInv(inp) /\ data \subseteq 1..Size /\ acks \subseteq AckType
    /\ written = Transfer!FirstBlocks(inp.current)

LEMMA BlockReceivedMoves ==
    ASSUME ReceiverPre, NEW b \in data, BlockReceived(b)
    PROVE  ReceiverMoved
<1>1. /\ b \in 1..Size /\ data' \subseteq 1..Size /\ UNCHANGED out
      /\ inp.current \in 0..Size /\ Size \in Nat /\ inp \in InpType /\ ReceiveInv(inp)
  BY StreamAssumption DEF ReceiverPre, BlockReceived, ReceiveInv, InpType
<1>2. CASE inp.state = "CLOSED"
  <2>1. acks' \in {acks, acks \cup {ZeroAck}} /\ UNCHANGED <<inp, written>>
    BY <1>2 DEF BlockReceived
  <2>2. ZeroAck \in AckType /\ ZeroAck.ids = {}
    BY DEF ZeroAck, AckType
  <2>3. acks' \subseteq AckType /\ Named(acks') \subseteq Named(acks)
    BY <2>1, <2>2 DEF ReceiverPre, Named
  <2> QED
    BY <1>1, <1>2, <2>1, <2>3 DEF ReceiverPre, ReceiverMoved, Live
<1>3. CASE inp.state # "CLOSED"
  <2>1. PICK n \in inp.current..Size :
          /\ Follows(inp, b, n)
          /\ written' = written \o [k \in 1..n - inp.current |-> inp.current + k]
          /\ LET i == Kept(inp, b, n) IN
                \/ /\ inp.state = "NONE"
                   /\ SendAck([i EXCEPT !.state = "RECEIVING", !.asked = "pending"], {FALSE})
                \/ /\ inp.state = "RECEIVING" /\ ~i.eof
                   /\ \/ SendAck(i, BOOLEAN)
                      \/ Cardinality(i.toAck) < Group /\ inp' = i /\ UNCHANGED acks
                \/ /\ inp.state = "RECEIVING" /\ i.eof
                   /\ inp' = ReceiveEnds(i, "finished")
                   /\ \E pause, lost \in BOOLEAN :
                         acks' = IF lost THEN acks
                                 ELSE acks \cup {Ack(i.toAck, i.eof, pause)}
                   /\ Cardinality(acks') <= MaxAcks
                \/ /\ inp.state = "COMPLETION"
                   /\ inp' = [i EXCEPT !.toAck = {}, !.eof = FALSE] /\ UNCHANGED acks
    BY <1>3 DEF BlockReceived
  <2>2. written' = Transfer!FirstBlocks(n)
    <3>1. inp.current \in Nat /\ n \in Nat /\ inp.current <= n
      BY <1>1
    <3>2. written' = Transfer!FirstBlocks(inp.current)
                        \o [k \in 1..n - inp.current |-> inp.current + k]
      <4>1. written = Transfer!FirstBlocks(inp.current)
        BY DEF ReceiverPre
      <4> QED
        BY <2>1, <4>1
    <3> QED
      BY <3>1, <3>2, WrittenOn
  <2> DEFINE i == Kept(inp, b, n)
  <2>3. /\ ReceiveInv(i) /\ i.state = inp.state /\ i.status = inp.status
        /\ i.current = n /\ Held(inp) \subseteq Held(i) /\ i \in InpType
    BY <1>1, <2>1, KeptKeeps DEF ReceiveInv
  <2>4. \/ /\ inp.state = "NONE"
           /\ SendAck([i EXCEPT !.state = "RECEIVING", !.asked = "pending"], {FALSE})
        \/ inp.state = "RECEIVING" /\ SendAck(i, BOOLEAN)
        \/ inp.state = "RECEIVING" /\ inp' = i /\ UNCHANGED acks
        \/ /\ inp.state = "RECEIVING" /\ i.eof
           /\ inp' = ReceiveEnds(i, "finished")
           /\ \E pause \in BOOLEAN :
                 acks' \in {acks, acks \cup {Ack(i.toAck, i.eof, pause)}}
        \/ /\ inp.state = "COMPLETION"
           /\ inp' = [i EXCEPT !.toAck = {}, !.eof = FALSE] /\ UNCHANGED acks
    BY <2>1
  <2> HIDE DEF i
  <2>5. CASE /\ inp.state = "NONE"
             /\ SendAck([i EXCEPT !.state = "RECEIVING", !.asked = "pending"], {FALSE})
    <3> DEFINE j == [i EXCEPT !.state = "RECEIVING", !.asked = "pending"]
    <3>1. /\ j \in InpType /\ j.state = "RECEIVING" /\ j.asked = "pending"
          /\ j.status = i.status /\ j.current = n /\ j.blocks = i.blocks
          /\ j.toAck = i.toAck /\ j.eof = i.eof /\ j.reports = i.reports /\ j.later = i.later
      BY <2>3 DEF InpType, Live
    <3>2. SendAck(j, {FALSE}) /\ {FALSE} \in SUBSET BOOLEAN
      BY <2>5
    <3> HIDE DEF j
    <3>3. ReceiveInv(j) /\ Held(j) = Held(i)
      BY <2>3, <2>5, <3>1 DEF ReceiveInv, FileInv, Unregistered, Held, Live
    <3>4. /\ ReceiveInv(inp') /\ inp'.state = j.state /\ inp'.status = j.status
          /\ inp'.current = j.current /\ Held(inp') = Held(j)
          /\ acks' \subseteq AckType /\ Named(acks') \subseteq Named(acks) \cup Held(j)
      BY <3>1, <3>2, <3>3, SendAckKeeps DEF ReceiverPre, Live
    <3> QED
      BY <1>1, <2>2, <2>3, <2>5, <3>1, <3>3, <3>4 DEF ReceiverMoved, Live
  <2>6. CASE inp.state = "RECEIVING" /\ SendAck(i, BOOLEAN)
    <3>1. /\ ReceiveInv(inp') /\ inp'.state = i.state /\ inp'.status = i.status
          /\ inp'.current = i.current /\ Held(inp') = Held(i)
          /\ acks' \subseteq AckType /\ Named(acks') \subseteq Named(acks) \cup Held(i)
      BY <2>3, <2>6, SendAckKeeps DEF ReceiverPre, Live
    <3> QED
      BY <1>1, <2>2, <2>3, <2>6, <3>1 DEF ReceiverMoved, Live
  <2>7. CASE inp.state = "RECEIVING" /\ inp' = i /\ UNCHANGED acks
    BY <1>1, <2>2, <2>3, <2>7 DEF ReceiverPre, ReceiverMoved, Live
  <2>8. CASE /\ inp.state = "RECEIVING" /\ i.eof
             /\ inp' = ReceiveEnds(i, "finished")
             /\ \E pause \in BOOLEAN :
                   acks' \in {acks, acks \cup {Ack(i.toAck, i.eof, pause)}}
    <3>1. i.current = Size
      BY <2>3, <2>8 DEF ReceiveInv
    <3>2. /\ ReceiveInv(inp') /\ inp'.state = "COMPLETION" /\ inp'.status = "finished"
          /\ inp'.current = Size
      BY <2>3, <2>8, <3>1, ReceiveEndsKeeps
    <3>3. acks' \subseteq AckType
      BY <2>3, <2>8, AckNames DEF ReceiverPre, Live
    <3> QED
      BY <1>1, <2>2, <2>3, <2>8, <3>1, <3>2, <3>3 DEF ReceiverMoved, Live
  <2>9. CASE /\ inp.state = "COMPLETION"
             /\ inp' = [i EXCEPT !.toAck = {}, !.eof = FALSE] /\ UNCHANGED acks
    <3>1. /\ inp' \in InpType /\ inp'.state = "COMPLETION" /\ inp'.toAck = {}
          /\ inp'.eof = FALSE /\ inp'.status = i.status /\ inp'.current = n
          /\ inp'.blocks = i.blocks /\ inp'.asked = i.asked
          /\ inp'.reports = i.reports /\ inp'.later = i.later
      BY <2>3, <2>9 DEF InpType
    <3>2. ReceiveInv(inp')
      BY <2>3, <2>9, <3>1 DEF ReceiveInv, FileInv, Unregistered, Live
    <3> QED
      BY <1>1, <2>2, <2>3, <2>9, <3>1, <3>2 DEF ReceiverPre, ReceiverMoved, Live
  <2> QED
    BY <2>4, <2>5, <2>6, <2>7, <2>8, <2>9
<1> QED
  BY <1>2, <1>3

LEMMA ReceiveIterateMoves ==
    ASSUME ReceiverPre, ReceiveIterate
    PROVE  ReceiverMoved
<1> DEFINE i == [inp EXCEPT !.timeout = TRUE]
<1>1. /\ inp.state = "RECEIVING" /\ UNCHANGED <<out, written, data>> /\ ReceiveInv(inp)
      /\ \/ SendAck(inp, BOOLEAN)
         \/ inp' = ReceiveEnds(i, "failed") /\ UNCHANGED acks
  BY DEF ReceiveIterate, ReceiverPre
<1>2. inp.current \in inp.current..Size
  BY <1>1, StreamAssumption DEF ReceiveInv, InpType
<1>3. /\ i \in InpType /\ i.state = inp.state /\ i.status = inp.status
      /\ i.current = inp.current /\ i.blocks = inp.blocks /\ i.toAck = inp.toAck
      /\ i.eof = inp.eof /\ i.asked = inp.asked /\ i.reports = inp.reports
      /\ i.later = inp.later
  BY <1>1 DEF ReceiveInv, InpType
<1> HIDE DEF i
<1>4. ReceiveInv(i)
  BY <1>1, <1>3 DEF ReceiveInv, FileInv, Unregistered, Held
<1>5. CASE SendAck(inp, BOOLEAN)
  <2>1. /\ ReceiveInv(inp') /\ inp'.state = inp.state /\ inp'.status = inp.status
        /\ inp'.current = inp.current /\ Held(inp') = Held(inp)
        /\ acks' \subseteq AckType /\ Named(acks') \subseteq Named(acks) \cup Held(inp)
    BY <1>1, <1>5, SendAckKeeps DEF ReceiverPre, Live
  <2> QED
    BY <1>1, <1>2, <2>1 DEF ReceiverPre, ReceiverMoved, Live
<1>6. CASE inp' = ReceiveEnds(i, "failed") /\ UNCHANGED acks
  <2>1. /\ ReceiveInv(inp') /\ inp'.state = "COMPLETION" /\ inp'.status = "failed"
        /\ inp'.current = inp.current
    BY <1>1, <1>3, <1>4, <1>6, ReceiveEndsKeeps
  <2> QED
    BY <1>1, <1>2, <1>6, <2>1 DEF ReceiverPre, ReceiverMoved, Live
<1> QED
  BY <1>1, <1>5, <1>6

\* on_inbox_file_registered()
LEMMA ReceiveRegisteredMoves ==
    ASSUME ReceiverPre, ReceiveRegistered
    PROVE  ReceiverMoved
<1> DEFINE e == [inp EXCEPT !.asked = "yes"]
           f == [e EXCEPT !.later = @ \cup {"close"}, !.reports = @ + 1]
<1>1. /\ inp.asked = "pending" /\ UNCHANGED <<out, written, data, acks>>
      /\ inp' = IF inp.status = "open" THEN e ELSE f
  BY DEF ReceiveRegistered, Registered, Reported
<1>2. /\ inp.reports = 0 /\ inp.later = {} /\ inp \in InpType
      /\ inp.state \notin {"NONE", "CLOSED"} /\ (inp.state \in Live <=> inp.status = "open")
      /\ ReceiveInv(inp)
  BY <1>1 DEF ReceiverPre, ReceiveInv, FileInv, Unregistered, InpType, Live
<1>3. inp.current \in inp.current..Size
  BY <1>2, StreamAssumption DEF InpType
<1>4. /\ e \in InpType /\ e.state = inp.state /\ e.status = inp.status
      /\ e.current = inp.current /\ e.blocks = inp.blocks /\ e.toAck = inp.toAck
      /\ e.eof = inp.eof /\ e.asked = "yes" /\ e.reports = 0 /\ e.later = {}
  BY <1>2 DEF InpType
<1> HIDE DEF e
<1>5. /\ f \in InpType /\ f.state = inp.state /\ f.status = inp.status
      /\ f.current = inp.current /\ f.blocks = inp.blocks /\ f.toAck = inp.toAck
      /\ f.eof = inp.eof /\ f.asked = "yes" /\ f.reports = 1
  <2>1. e.later \cup {"close"} \in SUBSET {"close"} /\ e.reports + 1 = 1
    BY <1>4
  <2>2. e.reports + 1 \in Nat
    BY <2>1
  <2> QED
    BY <1>4, <2>1, <2>2 DEF InpType
<1> HIDE DEF f
<1>6. CASE inp.status = "open"
  <2>1. ReceiveInv(e) /\ Held(e) = Held(inp)
    BY <1>2, <1>4, <1>6 DEF ReceiveInv, FileInv, Unregistered, Held, Live
  <2> QED
    BY <1>1, <1>3, <1>4, <1>6, <2>1 DEF ReceiverPre, ReceiverMoved
<1>7. CASE inp.status # "open"
  <2>1. inp.state = "COMPLETION"
    BY <1>2, <1>7 DEF InpType
  <2>2. ReceiveInv(f) /\ Held(f) = Held(inp)
    BY <1>2, <1>5, <1>7, <2>1 DEF ReceiveInv, FileInv, Unregistered, Held, Live
  <2> QED
    BY <1>1, <1>3, <1>5, <1>7, <2>2 DEF ReceiverPre, ReceiverMoved
<1> QED
  BY <1>6, <1>7

LEMMA ReceiveClosesMoves ==
    ASSUME ReceiverPre, ReceiveCloses
    PROVE  ReceiverMoved
<1>1. /\ "close" \in inp.later /\ inp' = Closed(inp) /\ UNCHANGED <<out, written, data, acks>>
  BY DEF ReceiveCloses
<1>2. /\ inp.state = "COMPLETION" /\ inp.asked = "yes" /\ inp.reports = 1
      /\ inp.status # "open" /\ inp \in InpType /\ ReceiveInv(inp)
  BY <1>1 DEF ReceiverPre, ReceiveInv, FileInv, Unregistered, Live
<1>3. inp.current \in inp.current..Size
  BY <1>2, StreamAssumption DEF InpType
<1>4. /\ inp' \in InpType /\ inp'.state = "CLOSED" /\ inp'.status = inp.status
      /\ inp'.current = inp.current /\ inp'.blocks = {} /\ inp'.toAck = inp.toAck
      /\ inp'.eof = inp.eof /\ inp'.asked = "yes" /\ inp'.reports = 1 /\ inp'.later = {}
  BY <1>1, <1>2 DEF Closed, InpType
<1>5. ReceiveInv(inp')
  BY <1>2, <1>4 DEF ReceiveInv, FileInv, Unregistered, Live
<1> QED
  BY <1>1, <1>2, <1>3, <1>4, <1>5 DEF ReceiverPre, ReceiverMoved, Live

LEMMA ReceiverStep ==
    ASSUME ReceiverPre, ReceiverNext
    PROVE  ReceiverMoved
BY BlockReceivedMoves, ReceiveIterateMoves, ReceiveRegisteredMoves, ReceiveClosesMoves
   DEF ReceiverNext

-----------------------------------------------------------------------------
(* The two ends together *)

LEMMA InitIInv == Init => IInv
<1> SUFFICES ASSUME Init PROVE IInv
  OBVIOUS
<1> USE StreamAssumption
<1>1. out \in OutType /\ Counted(out) /\ FileInv(out, Open) /\ Acked(out) = {}
  <2>1. out \in OutType
    BY DEF Init, OutType, Open, Statuses
  <2>2. Cardinality({}) = 0
    BY FS_EmptySet
  <2> QED
    BY <2>1, <2>2 DEF Init, Counted, FileInv, Unregistered, Acked, Open
<1>2. ReceiveInv(inp)
  BY DEF Init, ReceiveInv, InpType, FileInv, Unregistered, Live, Statuses, Held
<1>3. written = Transfer!FirstBlocks(inp.current)
  BY DEF Init, Transfer!FirstBlocks
<1>4. Together
  BY <1>1 DEF Init, Together, Known, Named, Live
<1> QED
  BY <1>1, <1>2, <1>3, <1>4 DEF IInv, SendInv, Init

\* A step of the sender adds nothing to what is known to be acked
LEMMA SenderKeeps ==
    ASSUME IInv, SenderNext
    PROVE  IInv'
<1>1. SenderMoved
  BY SenderStep DEF IInv
<1>2. Known' \subseteq Known
  BY <1>1 DEF SenderMoved, Known, Named
<1>3. out'.status = "finished" => inp.current = Size
  <2>1. CASE out'.status = out.status
    BY <2>1 DEF IInv, Together
  <2>2. CASE 1..Size \subseteq Known
    <3>1. CASE inp.state \notin Live
      BY <2>2, <3>1 DEF IInv, Together
    <3>2. CASE inp.state \in Live
      <4>1. 1..Size \subseteq Held(inp)
        BY <2>2, <3>2 DEF IInv, Together
      <4>2. inp.current + 1 \notin inp.blocks /\ inp.current \in 0..Size /\ Size \in Nat
        BY <3>2, StreamAssumption DEF IInv, ReceiveInv, InpType
      <4>3. ASSUME inp.current # Size PROVE FALSE
        <5>1. inp.current + 1 \in 1..Size
          BY <4>2, <4>3
        <5>2. inp.current + 1 \in Held(inp)
          BY <4>1, <5>1
        <5> QED
          BY <4>2, <5>2 DEF Held
      <4> QED
        BY <4>3
    <3> QED
      BY <3>1, <3>2
  <2> QED
    BY <1>1, <2>1, <2>2 DEF SenderMoved
<1>4. Together'
  BY <1>1, <1>2, <1>3 DEF IInv, Together, SenderMoved, Held
<1> QED
  BY <1>1, <1>4 DEF IInv, SenderMoved

\* The receiver names in its acks what it holds, and nothing new once it has ended
LEMMA ReceiverKeeps ==
    ASSUME IInv, ReceiverNext
    PROVE  IInv'
<1>1. ReceiverMoved
  BY ReceiverStep DEF IInv, ReceiverPre
<1>2. /\ inp.current \in 0..Size /\ inp'.current \in inp.current..Size /\ Size \in Nat
      /\ out' = out /\ Acked(out') = Acked(out)
  BY <1>1, StreamAssumption DEF IInv, ReceiveInv, InpType, ReceiverMoved
<1>3. inp'.state \in Live => Known' \subseteq Held(inp')
  BY <1>1, <1>2 DEF IInv, Together, ReceiverMoved, Known
<1>4. inp'.state \notin Live => inp'.current = Size \/ \E b \in 1..Size : b \notin Known'
  <2> SUFFICES ASSUME inp'.state \notin Live, inp'.current # Size
               PROVE  \E b \in 1..Size : b \notin Known'
    OBVIOUS
  <2>1. Known' \subseteq Known
    BY <1>1, <1>2 DEF ReceiverMoved, Known
  <2>2. inp.current # Size
    BY <1>2
  <2>3. CASE inp.state \notin Live
    BY <2>1, <2>2, <2>3 DEF IInv, Together
  <2>4. CASE inp.state \in Live
    <3>1. inp.current + 1 \in 1..Size
      BY <1>2, <2>2
    <3>2. inp.current + 1 \notin Held(inp)
      BY <1>2, <2>4 DEF IInv, ReceiveInv, Held
    <3> QED
      BY <2>1, <2>4, <3>1, <3>2 DEF IInv, Together
  <2> QED
    BY <2>3, <2>4
<1>5. out'.status = "finished" => inp'.current = Size
  BY <1>2 DEF IInv, Together
<1> QED
  BY <1>1, <1>2, <1>3, <1>4, <1>5 DEF IInv, Together, ReceiverMoved

LEMMA NextIInv == IInv /\ [Next]_vars => IInv'
<1> SUFFICES ASSUME IInv, [Next]_vars PROVE IInv'
  OBVIOUS
<1>1. CASE SenderNext
  BY <1>1, SenderKeeps
<1>2. CASE ReceiverNext
  BY <1>2, ReceiverKeeps
<1>3. CASE UNCHANGED vars
  BY <1>3 DEF vars, IInv, Together, Known
<1> QED
  BY <1>1, <1>2, <1>3 DEF Next, SenderNext, ReceiverNext

LEMMA AlwaysIInv == Spec => []IInv
<1>1. Init => IInv
  BY InitIInv
<1>2. IInv /\ [Next]_vars => IInv'
  BY NextIInv
<1> QED
  BY <1>1, <1>2, PTL DEF Spec

-----------------------------------------------------------------------------
(* Theorems *)

\* Every variable keeps the values the code gives it, for a file of any size: the
\* bytes counted as delivered are those of the blocks pushed and not waited for
THEOREM TypeCorrect == Spec => []TypeOK
<1>1. IInv => TypeOK
  <2> SUFFICES ASSUME IInv PROVE TypeOK
    OBVIOUS
  <2>1. /\ out \in OutType /\ Counted(out) /\ inp \in InpType /\ Size \in Nat
        /\ acks \subseteq AckType /\ data \subseteq 1..Size
    BY StreamAssumption DEF IInv, SendInv, ReceiveInv
  <2>2. out.blocks \subseteq 1..out.pushed
    BY <2>1 DEF Counted
  <2>3. out.state \in Open => Cardinality(out.blocks) = out.pushed - out.delivered
    <3> SUFFICES ASSUME out.state \in Open
                 PROVE  Cardinality(out.blocks) = out.pushed - out.delivered
      OBVIOUS
    <3>1. IsFiniteSet(out.blocks)
      <4>1. 1 \in Int /\ out.pushed \in Int
        BY <2>1 DEF OutType
      <4> QED
        BY <2>2, <4>1, FS_Interval, FS_Subset
    <3>2. Cardinality(out.blocks) \in Nat
      BY <3>1, FS_CardinalityType
    <3> QED
      BY <2>1, <3>2 DEF Counted, OutType
  <2>4. \A m \in acks : m.ids \subseteq 1..Size
    BY <2>1 DEF AckType
  <2> QED
    BY <2>1, <2>2, <2>3, <2>4 DEF TypeOK, OutType, InpType, Statuses, Live
<1> QED
  BY <1>1, AlwaysIInv, PTL

\* While both streams live no block is lost for both of them, whatever datagrams
\* are lost, delayed or sent again
THEOREM NothingIsForgotten == Spec => []NothingForgotten
<1>1. IInv => NothingForgotten
  <2> SUFFICES ASSUME IInv, out.state \in Open, inp.state \in Live,
                      NEW b \in 1..out.pushed, b \notin out.blocks
               PROVE  b <= inp.current \/ b \in inp.blocks
    BY DEF NothingForgotten, Live
  <2>1. b \in Known
    BY DEF Known, Acked
  <2> QED
    BY <2>1 DEF IInv, Together, Held
<1> QED
  BY <1>1, AlwaysIInv, PTL

\* A transfer that was registered is unregistered once, whether the Deferred of its
\* registration fires before or after the end of the stream
THEOREM ReportsOnce == Spec => []ReportedOnce
<1>1. IInv => ReportedOnce
  BY DEF IInv, SendInv, ReceiveInv, FileInv, ReportedOnce
<1> QED
  BY <1>1, AlwaysIInv, PTL

\* The two streams implement the transfer of a file: the blocks are written in
\* order, and neither end says "finished" before all of them are written
THEOREM ImplementsTransfer == Spec => TransferSpec
<1>1. Init => Transfer!Init
  <2> SUFFICES ASSUME Init PROVE Transfer!Init
    OBVIOUS
  <2> QED
    BY DEF Init, Transfer!Init
<1>2. IInv /\ IInv' /\ [Next]_vars => [Transfer!Next]_<<written, out.status, inp.status>>
  <2> SUFFICES ASSUME IInv, IInv', [Next]_vars
               PROVE  [Transfer!Next]_<<written, out.status, inp.status>>
    OBVIOUS
  <2>1. /\ written = Transfer!FirstBlocks(inp.current)
        /\ written' = Transfer!FirstBlocks(inp'.current)
        /\ inp.current \in 0..Size /\ inp'.current \in 0..Size /\ Size \in Nat
    BY StreamAssumption DEF IInv, ReceiveInv, InpType
  <2>2. Len(written) = inp.current
    BY <2>1 DEF Transfer!FirstBlocks
  <2>3. inp'.current = Size => written' = Transfer!File
    BY <2>1 DEF Transfer!File
  <2>4. ASSUME inp'.current >= inp.current PROVE Transfer!Write
    <3>1. inp'.current \in Len(written)..Size
      BY <2>1, <2>2, <2>4
    <3> QED
      BY <2>1, <3>1 DEF Transfer!Write
  <2>5. CASE SenderNext
    <3>1. SenderMoved
      BY <2>5, SenderStep DEF IInv
    <3>2. Transfer!Write /\ Transfer!Outcome(inp.status, inp'.status)
      BY <2>1, <2>4, <3>1 DEF SenderMoved, Transfer!Outcome
    <3>3. Transfer!Outcome(out.status, out'.status)
      <4>1. out'.status = "finished" => inp'.current = Size
        BY DEF IInv, Together
      <4> QED
        BY <2>3, <3>1, <4>1 DEF SenderMoved, Transfer!Outcome
    <3> QED
      BY <3>2, <3>3 DEF Transfer!Next
  <2>6. CASE ReceiverNext
    <3>1. ReceiverMoved
      BY <2>6, ReceiverStep DEF IInv, ReceiverPre
    <3>2. Transfer!Write
      BY <2>1, <2>4, <3>1 DEF ReceiverMoved
    <3>3. Transfer!Outcome(inp.status, inp'.status)
      BY <2>3, <3>1 DEF ReceiverMoved, Transfer!Outcome
    <3>4. Transfer!Outcome(out.status, out'.status)
      BY <3>1 DEF ReceiverMoved, Transfer!Outcome
    <3> QED
      BY <3>2, <3>3, <3>4 DEF Transfer!Next
  <2>7. CASE UNCHANGED vars
    BY <2>7 DEF vars
  <2> QED
    BY <2>5, <2>6, <2>7 DEF Next, SenderNext, ReceiverNext
<1> QED
  BY <1>1, <1>2, AlwaysIInv, PTL DEF Spec, TransferSpec, Transfer!Spec
=============================================================================
