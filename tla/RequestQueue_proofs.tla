-------------------------- MODULE RequestQueue_proofs --------------------------
(***************************************************************************)
(* The safety properties of RequestQueue, for every set of packets, every  *)
(* window size, every delay and every number of calls; and that towards    *)
(* its callers it is a TransferPromise.                                    *)
(***************************************************************************)
EXTENDS RequestQueue, SequenceTheorems, TLAPS

USE MaxLengthAssumption, SlowAfterAssumption, BoundsAssumption, BackupsAssumption

-----------------------------------------------------------------------------
(* The inductive invariant: the properties the runs check, and five facts  *)
(* about the stack of passes and the scheduled call.                       *)

\* Nothing in the window waits to be looked at.
NoneWaiting == \A i \in Window : fileDown[fileRequestQueue[i]] # "IN_QUEUE"

AllFound(s) == \A i \in DOMAIN s : s[i].found

\* A pass begins inside another one only when that one found files on disk.
PassesNested == passes # << >> => AllFound(Outer) /\ (Top.todo # {} => Top.found)

PendingIsScheduled == requestTask = "pending" => tasks > 0

FiredIsRun == requestTask = "fired" => passes # << >>

\* Why the very call that is being run is never cancelled: the delay only gets
\* slow when there was nothing to look at, every change of the queue while it is
\* slow begins a pass at once, so a slow call that fires finds nothing either.
SlowIsIdle ==
  /\ Slow /\ requestTask # "none" /\ passes = << >> => NoneWaiting
  /\ Slow /\ requestTask = "fired" /\ Top.phase = "scan" => NoneWaiting
  /\ Slow /\ requestTask = "fired" /\ Top.phase = "remove" => ~Top.found

\* A pass that found nothing on disk has started all there was to start.
ScannedClean ==
  passes # << >> /\ Top.phase = "remove" /\ ~Top.found => NoneWaiting

QueueInv == QueueMatchesDict /\ RetrieveHasOwner /\ ActiveRequestsInWindow

TaskInv ==
  /\ PassesNested
  /\ PendingIsScheduled
  /\ FiredIsRun
  /\ SlowIsIdle
  /\ ScannedClean

IInv == TypeOK /\ QueueInv /\ TaskInv

-----------------------------------------------------------------------------
(* Lemmas about the queue. *)

\* Removing p from a queue without duplicates keeps the others, each at its
\* place or one place earlier.
LEMMA WithoutProps ==
  ASSUME NEW S, NEW q \in Seq(S), NEW k \in DOMAIN q,
         \A i, j \in DOMAIN q : q[i] = q[j] => i = j
  PROVE  LET w == Without(q, q[k]) IN
         /\ w \in Seq(S)
         /\ Len(w) = Len(q) - 1
         /\ DOMAIN w = 1 .. Len(q) - 1
         /\ \A i \in DOMAIN w : w[i] = IF i < k THEN q[i] ELSE q[i + 1]
<1>1. Position(q, q[k]) = k
  BY DEF Position
<1>2. Without(q, q[k]) = [i \in 1 .. Len(q) - 1 |-> IF i < k THEN q[i] ELSE q[i + 1]]
  BY <1>1 DEF Without
<1>3. Len(q) - 1 \in Nat
  OBVIOUS
<1>4. \A i \in 1 .. Len(q) - 1 : (IF i < k THEN q[i] ELSE q[i + 1]) \in S
  OBVIOUS
<1> QED
  BY <1>2, <1>3, <1>4

\* The same, as a relation between the two queues.
LEMMA WithoutKeeps ==
  ASSUME NEW S, NEW q \in Seq(S), NEW k \in DOMAIN q,
         \A i, j \in DOMAIN q : q[i] = q[j] => i = j
  PROVE  LET w == Without(q, q[k]) IN
         /\ \A i, j \in DOMAIN w : w[i] = w[j] => i = j
         /\ \A i \in DOMAIN w : /\ w[i] # q[k]
                                /\ \E j \in DOMAIN q : i <= j /\ w[i] = q[j]
         /\ \A j \in DOMAIN q : q[j] # q[k] =>
              \E i \in DOMAIN w : i <= j /\ w[i] = q[j]
<1> DEFINE w == Without(q, q[k])
<1>1. /\ w \in Seq(S) /\ DOMAIN w = 1 .. Len(q) - 1
      /\ \A i \in DOMAIN w : w[i] = IF i < k THEN q[i] ELSE q[i + 1]
  BY WithoutProps
<1> HIDE DEF w
<1>2. DOMAIN q = 1 .. Len(q) /\ Len(q) \in Nat /\ k \in 1 .. Len(q)
  OBVIOUS
<1>3. \A i, j \in DOMAIN w : w[i] = w[j] => i = j
  <2> SUFFICES ASSUME NEW i \in DOMAIN w, NEW j \in DOMAIN w, w[i] = w[j]
               PROVE  i = j
    OBVIOUS
  <2>1. CASE i < k /\ j < k
    BY <1>1, <1>2, <2>1
  <2>2. CASE i < k /\ ~(j < k)
    BY <1>1, <1>2, <2>2
  <2>3. CASE ~(i < k) /\ j < k
    BY <1>1, <1>2, <2>3
  <2>4. CASE ~(i < k) /\ ~(j < k)
    <3>1. i \in Nat /\ j \in Nat /\ i + 1 \in DOMAIN q /\ j + 1 \in DOMAIN q
      BY <1>1, <1>2
    <3>2. q[i + 1] = q[j + 1]
      BY <1>1, <2>4
    <3> QED
      BY <3>1, <3>2
  <2> QED
    BY <2>1, <2>2, <2>3, <2>4
<1>4. ASSUME NEW i \in DOMAIN w
      PROVE  w[i] # q[k] /\ \E j \in DOMAIN q : i <= j /\ w[i] = q[j]
  <2>1. CASE i < k
    BY <1>1, <1>2, <2>1
  <2>2. CASE ~(i < k)
    BY <1>1, <1>2, <2>2
  <2> QED
    BY <2>1, <2>2
<1>5. ASSUME NEW j \in DOMAIN q, q[j] # q[k]
      PROVE  \E i \in DOMAIN w : i <= j /\ w[i] = q[j]
  <2>1. CASE j < k
    BY <1>1, <1>2, <2>1
  <2>2. CASE j > k
    <3>1. j - 1 \in DOMAIN w /\ w[j - 1] = q[j]
      BY <1>1, <1>2, <2>2
    <3> QED
      BY <3>1, <1>2
  <2>3. j # k
    BY <1>5
  <2> QED
    BY <2>1, <2>2, <2>3, <1>2
<1> QED
  BY <1>3, <1>4, <1>5 DEF w

-----------------------------------------------------------------------------
(* Lemmas about the stack of passes. *)

LEMMA OuterProps ==
  ASSUME passes \in Seq(PassType), passes # << >>
  PROVE  /\ Top \in PassType
         /\ Outer \in Seq(PassType)
         /\ Len(Outer) = Len(passes) - 1
         /\ DOMAIN Outer \subseteq DOMAIN passes
         /\ \A i \in DOMAIN Outer : Outer[i] = passes[i]
<1>1. Len(passes) \in Nat \ {0}
  BY EmptySeq, LenProperties
<1>2. /\ Outer \in Seq(PassType) /\ Len(Outer) = Len(passes) - 1
      /\ DOMAIN Outer = 1 .. Len(passes) - 1
      /\ \A i \in 1 .. Len(passes) - 1 : Outer[i] = passes[i]
  <2> DEFINE n == Len(passes) - 1
  <2>1. n \in Nat /\ \A i \in 1 .. n : passes[i] \in PassType
    BY <1>1
  <2>2. /\ SubSeq(passes, 1, n) \in Seq(PassType)
        /\ Len(SubSeq(passes, 1, n)) = n
        /\ \A i \in 1 .. n : SubSeq(passes, 1, n)[i] = passes[i]
    <3> HIDE DEF n
    <3>1. /\ SubSeq(passes, 1, n) \in Seq(PassType)
          /\ Len(SubSeq(passes, 1, n)) = IF 1 <= n THEN n - 1 + 1 ELSE 0
          /\ \A i \in 1 .. n - 1 + 1 : SubSeq(passes, 1, n)[i] = passes[1 + i - 1]
      BY <2>1, SubSeqProperties
    <3> QED
      BY <2>1, <3>1
  <2> QED
    BY <2>2, LenProperties DEF Outer
<1> QED
  BY <1>1, <1>2 DEF Top

\* The innermost call of a stack, and the ones around it.
LEMMA PushProps ==
  ASSUME NEW outer \in Seq(PassType), NEW new \in PassType,
         passes' = Append(outer, new)
  PROVE  /\ passes' \in Seq(PassType) /\ passes' # << >>
         /\ Top' = new /\ Outer' = outer
<1>1. passes' \in Seq(PassType) /\ Len(passes') = Len(outer) + 1 /\ Len(outer) \in Nat
  BY AppendProperties
<1>2. passes' # << >>
  BY <1>1
<1>3. Top' = new
  BY <1>1 DEF Top
<1>4. Outer' = outer
  <2>1. Outer' = SubSeq(Append(outer, new), 1, Len(outer))
    BY <1>1 DEF Outer
  <2>2. SubSeq(Append(outer, new), 1, Len(outer)) = outer
    BY <1>1
  <2> QED
    BY <2>1, <2>2
<1> QED
  BY <1>1, <1>2, <1>3, <1>4

\* The innermost call of the stack that is left found files on disk.
LEMMA PopProps ==
  ASSUME NEW outer \in Seq(PassType), AllFound(outer), passes' = outer, passes' # << >>
  PROVE  Top'.found /\ AllFound(Outer')
<1>1. Len(outer) \in Nat \ {0}
  BY EmptySeq, LenProperties
<1>2. Top' = outer[Len(outer)] /\ Len(outer) \in DOMAIN outer
  BY <1>1 DEF Top
<1>3. Outer' = SubSeq(outer, 1, Len(outer) - 1)
  BY DEF Outer
<1>4. \A i \in DOMAIN Outer' : i \in DOMAIN outer /\ Outer'[i] = outer[i]
  BY <1>1, <1>3
<1> QED
  BY <1>2, <1>4 DEF AllFound

LEMMA PushFound ==
  ASSUME NEW outer \in Seq(PassType), AllFound(outer), NEW new \in PassType, new.found
  PROVE  /\ Append(outer, new) \in Seq(PassType)
         /\ Append(outer, new) # << >> /\ AllFound(Append(outer, new))
<1>1. /\ DOMAIN Append(outer, new) = 1 .. Len(outer) + 1 /\ Len(outer) \in Nat
      /\ DOMAIN outer = 1 .. Len(outer)
      /\ \A i \in 1 .. Len(outer) : Append(outer, new)[i] = outer[i]
      /\ Append(outer, new)[Len(outer) + 1] = new
      /\ Append(outer, new) \in Seq(PassType)
  BY AppendProperties
<1>2. Append(outer, new) # << >>
  BY <1>1
<1> QED
  BY <1>1, <1>2 DEF AllFound

LEMMA NewPassType == NewPass \in PassType /\ NewPass.phase = "scan" /\ NewPass.todo = {}
BY DEF NewPass, PassType

-----------------------------------------------------------------------------
(* Lemmas about the fragments of handlers. *)

TasksTyped ==
  /\ passes \in Seq(PassType)
  /\ requestTask \in {"none", "pending", "fired"}
  /\ tasks \in Nat /\ idlePasses \in 0 .. SlowAfter

\* DoRequest, called inside passes that found files or outside of any, begins a
\* pass or leaves a call scheduled, and never cancels the one being run.
LEMMA DoRequestInv ==
  ASSUME TasksTyped, PendingIsScheduled,
         NEW outer \in Seq(PassType), AllFound(outer), DoRequest(outer),
         requestTask = "fired" => outer # << >>,
         Slow => requestTask # "fired"
  PROVE  TasksTyped' /\ TaskInv'
<1>1. CASE /\ requestTask' = "none" /\ passes' = Append(outer, NewPass)
           /\ UNCHANGED idlePasses /\ tasks' \in Nat
  <2>1. /\ passes' \in Seq(PassType) /\ passes' # << >>
        /\ Top' = NewPass /\ Outer' = outer
    BY <1>1, NewPassType, PushProps
  <2>2. TasksTyped'
    BY <1>1, <2>1 DEF TasksTyped
  <2>3. PassesNested' /\ ScannedClean'
    BY <2>1, NewPassType DEF PassesNested, ScannedClean
  <2>4. PendingIsScheduled' /\ FiredIsRun' /\ SlowIsIdle'
    BY <1>1, <2>1 DEF PendingIsScheduled, FiredIsRun, SlowIsIdle
  <2> QED
    BY <2>2, <2>3, <2>4 DEF TaskInv
<1>2. CASE requestTask # "none" /\ ~Slow /\ passes' = outer /\ UNCHANGED taskVars
  <2> USE <1>2 DEF taskVars
  <2>1. passes' # << >> => Top'.found /\ AllFound(Outer')
    BY PopProps
  <2>2. TasksTyped'
    BY DEF TasksTyped
  <2>3. PassesNested' /\ ScannedClean'
    BY <2>1 DEF PassesNested, ScannedClean, AllFound
  <2>4. PendingIsScheduled' /\ FiredIsRun'
    BY DEF PendingIsScheduled, FiredIsRun
  <2>5. ~Slow'
    BY DEF Slow
  <2> QED
    BY <2>2, <2>3, <2>4, <2>5 DEF TaskInv, SlowIsIdle
<1>3. CASE requestTask = "none" /\ passes' = Append(outer, NewPass) /\ UNCHANGED taskVars
  BY <1>1, <1>3 DEF taskVars, TasksTyped
<1>4. CASE /\ requestTask # "none" /\ Slow
           /\ requestTask' = "none" /\ tasks' = tasks - 1
           /\ passes' = Append(outer, NewPass) /\ UNCHANGED idlePasses
  <2>1. tasks' \in Nat
    BY <1>4 DEF TasksTyped, PendingIsScheduled
  <2> QED
    BY <1>1, <1>4, <2>1
<1> QED
  BY <1>2, <1>3, <1>4 DEF DoRequest

\* The terminal transitions of file_down() keep everything the invariant says of
\* the queue, and move the other files only towards its head.
QueueTyped ==
  /\ fileRequestQueue \in Seq(Packet)
  /\ fileDown \in [Packet -> FileDownState \cup {"absent"}]
  /\ outbox \in [Packet -> {"none", "sending", "response"}]
  /\ reports \in [Packet -> Nat]

LEMMA LeaveKeeps ==
  ASSUME QueueTyped, QueueInv, NEW p \in Packet, Queued(p), Leave(p)
  PROVE  QueueTyped' /\ QueueInv'
<1> DEFINE q == fileRequestQueue
           w == fileRequestQueue'
<1>1. PICK k \in DOMAIN q : q[k] = p
  BY DEF QueueInv, QueueMatchesDict
<1>2. q \in Seq(Packet) /\ \A i, j \in DOMAIN q : q[i] = q[j] => i = j
  BY DEF QueueTyped, QueueInv, QueueMatchesDict
<1>3. w = Without(q, q[k])
  BY <1>1 DEF Leave
<1>4. w \in Seq(Packet)
  BY <1>2, <1>3, WithoutProps
<1>5. /\ \A i, j \in DOMAIN w : w[i] = w[j] => i = j
      /\ \A i \in DOMAIN w : w[i] # p /\ \E j \in DOMAIN q : i <= j /\ w[i] = q[j]
      /\ \A j \in DOMAIN q : q[j] # p => \E i \in DOMAIN w : i <= j /\ w[i] = q[j]
  BY <1>1, <1>2, <1>3, WithoutKeeps
<1>6. \A r \in Packet :
        /\ fileDown'[r] = IF r = p THEN "absent" ELSE fileDown[r]
        /\ outbox'[r] = IF r = p THEN "none" ELSE outbox[r]
  BY DEF Leave, QueueTyped
<1>7. QueueTyped'
  <2> HIDE DEF q, w
  <2>1. fileDown' \in [Packet -> FileDownState \cup {"absent"}]
    BY DEF Leave, QueueTyped
  <2>2. outbox' \in [Packet -> {"none", "sending", "response"}]
    BY DEF Leave, QueueTyped
  <2>3. reports' \in [Packet -> Nat]
    BY DEF Leave, QueueTyped
  <2> QED
    BY <1>4, <2>1, <2>2, <2>3 DEF QueueTyped, w
<1>8. DOMAIN q \subseteq Nat /\ DOMAIN w \subseteq Nat
  BY <1>2, <1>4
<1>9. \A i \in DOMAIN w : w[i] \in Packet
  BY <1>4
<1> HIDE DEF q, w
<1>10. QueueMatchesDict'
  <2>1. \A r \in Packet : Queued(r)' <=> (r # p /\ Queued(r))
    BY <1>6 DEF Queued
  <2>2. \A r \in Packet : Queued(r) <=> \E i \in DOMAIN q : q[i] = r
    BY DEF QueueInv, QueueMatchesDict, q
  <2>3. \A r \in Packet : Queued(r)' <=> \E i \in DOMAIN w : w[i] = r
    BY <2>1, <2>2, <1>5
  <2> QED
    BY <2>3, <1>5 DEF QueueMatchesDict, w
<1>11. ActiveRequestsInWindow'
  <2> SUFFICES ASSUME NEW i \in DOMAIN w, fileDown'[w[i]] \in {"STARTED", "REQUESTED"}
               PROVE  i <= MaxLength
    BY DEF ActiveRequestsInWindow, w, Started
  <2>1. PICK j \in DOMAIN q : i <= j /\ w[i] = q[j]
    BY <1>5
  <2>2. Started(q[j])
    BY <2>1, <1>5, <1>6, <1>9 DEF Started
  <2>3. j <= MaxLength
    BY <2>2 DEF QueueInv, ActiveRequestsInWindow, q
  <2> QED
    BY <2>1, <2>3, <1>8
<1>12. RetrieveHasOwner'
  BY <1>6 DEF QueueInv, RetrieveHasOwner
<1> QED
  BY <1>7, <1>10, <1>11, <1>12 DEF QueueInv

\* What is left of TypeOK when the queue and the tasks are taken out of it.
RestTyped ==
  /\ local \subseteq Packet
  /\ deleting \in {"no", "backup", "supplier"}
  /\ toStop \subseteq Packet
  /\ doRequests \in Nat /\ deletes \in Nat
  /\ calls \in [Packet -> Nat]

LEMMA TypeParts == TypeOK => QueueTyped /\ TasksTyped /\ RestTyped
BY DEF TypeOK, QueueTyped, TasksTyped, RestTyped

LEMMA PartsInv ==
  ASSUME QueueTyped', QueueInv', TasksTyped', TaskInv', RestTyped'
  PROVE  IInv'
BY DEF IInv, TypeOK, QueueTyped, TasksTyped, RestTyped

\* These parts of the invariant speak of these variables only.
LEMMA QueueStutter ==
  ASSUME QueueTyped, QueueInv, UNCHANGED <<queueVars, reports>>
  PROVE  QueueTyped' /\ QueueInv'
BY DEF QueueTyped, QueueInv, QueueMatchesDict, ActiveRequestsInWindow,
       RetrieveHasOwner, Queued, Started, queueVars

LEMMA TaskStutter ==
  ASSUME TasksTyped, TaskInv, UNCHANGED <<passes, taskVars, fileRequestQueue, fileDown>>
  PROVE  TasksTyped' /\ TaskInv'
BY DEF TasksTyped, TaskInv, PassesNested, PendingIsScheduled, FiredIsRun, SlowIsIdle,
       ScannedClean, NoneWaiting, Window, Slow, Top, Outer, AllFound, taskVars

LEMMA RestStutter ==
  ASSUME RestTyped, UNCHANGED <<local, deleteVars, calls>>
  PROVE  RestTyped'
BY DEF RestTyped, deleteVars

\* A handler that the reactor runs while no pass is in progress.
LEMMA DoRequestFromReactor ==
  ASSUME TasksTyped, TaskInv, passes = << >>, DoRequest(passes)
  PROVE  TasksTyped' /\ TaskInv'
<1>1. PendingIsScheduled /\ requestTask # "fired"
  BY DEF TaskInv, FiredIsRun
<1>2. << >> \in Seq(PassType) /\ AllFound(<< >>)
  BY DEF AllFound
<1> QED
  BY <1>1, <1>2, DoRequestInv

-----------------------------------------------------------------------------
(* The invariant holds at first and is kept by every action.               *)

LEMMA InitInv == Init => IInv
<1> SUFFICES ASSUME Init PROVE IInv
  OBVIOUS
<1>1. fileRequestQueue = << >> /\ << >> \in Seq(Packet) /\ DOMAIN << >> = {}
      /\ << >> \in Seq(PassType)
  BY DEF Init
<1>2. TypeOK
  BY <1>1 DEF Init, TypeOK
<1>3. QueueInv
  BY <1>1 DEF Init, QueueInv, QueueMatchesDict, ActiveRequestsInWindow, Queued,
              RetrieveHasOwner
<1>4. TaskInv
  BY <1>1 DEF Init, TaskInv, PassesNested, PendingIsScheduled, FiredIsRun, SlowIsIdle,
              ScannedClean, NoneWaiting, Window
<1> QED
  BY <1>2, <1>3, <1>4 DEF IInv

LEMMA RefuseRequestInv == \A p \in Packet : IInv /\ RefuseRequest(p) => IInv'
<1> SUFFICES ASSUME NEW p \in Packet, IInv, RefuseRequest(p) PROVE IInv'
  OBVIOUS
<1> USE DEF RefuseRequest, Call
<1>1. QueueTyped /\ TasksTyped /\ RestTyped /\ QueueInv /\ TaskInv
  BY TypeParts DEF IInv
<1>2. QueueTyped'
  BY <1>1 DEF QueueTyped, queueVars
<1>3. QueueInv'
  BY <1>1 DEF QueueInv, QueueMatchesDict, ActiveRequestsInWindow, RetrieveHasOwner,
              Queued, Started, queueVars
<1>4. TasksTyped' /\ TaskInv'
  BY <1>1, TaskStutter DEF queueVars
<1>5. RestTyped'
  BY <1>1 DEF RestTyped, deleteVars
<1> QED
  BY <1>2, <1>3, <1>4, <1>5, PartsInv

LEMMA SupplierRequestFileInv == \A p \in Packet : IInv /\ SupplierRequestFile(p) => IInv'
<1> SUFFICES ASSUME NEW p \in Packet, IInv, SupplierRequestFile(p) PROVE IInv'
  OBVIOUS
<1> DEFINE q == fileRequestQueue
           w == fileRequestQueue'
<1>1. QueueTyped /\ TasksTyped /\ RestTyped /\ QueueInv /\ TaskInv
  BY TypeParts DEF IInv
<1>2. q \in Seq(Packet) /\ w = Append(q, p) /\ w \in Seq(Packet)
  BY <1>1 DEF SupplierRequestFile, QueueTyped
<1>3. /\ DOMAIN q = 1 .. Len(q) /\ DOMAIN w = 1 .. Len(q) + 1 /\ Len(q) \in Nat
      /\ \A i \in DOMAIN w : w[i] = IF i = Len(q) + 1 THEN p ELSE q[i]
  BY <1>2
<1>4. TasksTyped' /\ TaskInv'
  BY <1>1, DoRequestFromReactor DEF SupplierRequestFile, Call, Idle
<1>5. \A r \in Packet :
        /\ fileDown'[r] = IF r = p THEN "IN_QUEUE" ELSE fileDown[r]
        /\ outbox'[r] = outbox[r]
  BY <1>1 DEF QueueTyped, SupplierRequestFile
<1>6. fileDown[p] = "absent" /\ ~Queued(p)
  BY DEF SupplierRequestFile, Queued
<1>7. \A r \in Packet : Queued(r)' <=> (r = p \/ Queued(r))
  BY <1>5 DEF Queued
<1>8. /\ \A i, j \in DOMAIN q : q[i] = q[j] => i = j
      /\ \A r \in Packet : Queued(r) <=> \E i \in DOMAIN q : q[i] = r
      /\ \A i \in DOMAIN q : q[i] \in Packet /\ q[i] # p
  BY <1>1, <1>2, <1>6 DEF QueueInv, QueueMatchesDict
<1>9. QueueTyped'
  BY <1>1, <1>2 DEF QueueTyped, SupplierRequestFile, FileDownState
<1>10. RestTyped'
  BY <1>1 DEF RestTyped, SupplierRequestFile, Call, deleteVars
<1> HIDE DEF q, w
<1>11. QueueMatchesDict'
  <2>1. ASSUME NEW i \in DOMAIN w, NEW j \in DOMAIN w, w[i] = w[j]
        PROVE  i = j
    BY <1>3, <1>8, <2>1
  <2>2. ASSUME NEW r \in Packet
        PROVE  Queued(r)' <=> \E i \in DOMAIN w : w[i] = r
    <3>1. Len(q) + 1 \in DOMAIN w /\ w[Len(q) + 1] = p
      BY <1>3
    <3>2. \A i \in DOMAIN q : i \in DOMAIN w /\ w[i] = q[i]
      BY <1>3
    <3>3. \A i \in DOMAIN w : w[i] = p \/ (i \in DOMAIN q /\ w[i] = q[i])
      BY <1>3
    <3> QED
      BY <3>1, <3>2, <3>3, <1>7, <1>8
  <2> QED
    BY <2>1, <2>2 DEF QueueMatchesDict, w
<1>12. ActiveRequestsInWindow'
  <2> SUFFICES ASSUME NEW i \in DOMAIN w, fileDown'[w[i]] \in {"STARTED", "REQUESTED"}
               PROVE  i <= MaxLength
    BY DEF ActiveRequestsInWindow, w, Started
  <2>1. w[i] # p /\ i # Len(q) + 1 /\ i \in DOMAIN q /\ w[i] = q[i]
    BY <1>3, <1>5
  <2>2. Started(q[i])
    BY <2>1, <1>5, <1>8 DEF Started
  <2> QED
    BY <2>1, <2>2, <1>1 DEF QueueInv, ActiveRequestsInWindow, q
<1>13. RetrieveHasOwner'
  BY <1>1, <1>5, <1>6 DEF QueueInv, RetrieveHasOwner
<1> QED
  BY <1>4, <1>9, <1>10, <1>11, <1>12, <1>13, PartsInv DEF QueueInv

\* A file that ends within a handler the reactor runs.
LEMMA LeaveAndDoRequestInv ==
  ASSUME IInv, NEW p \in Packet, Queued(p), passes = << >>, Leave(p), DoRequest(passes),
         RestTyped'
  PROVE  IInv'
<1>1. QueueTyped /\ TasksTyped /\ QueueInv /\ TaskInv
  BY TypeParts DEF IInv
<1>2. QueueTyped' /\ QueueInv'
  BY <1>1, LeaveKeeps
<1>3. TasksTyped' /\ TaskInv'
  BY <1>1, DoRequestFromReactor
<1> QED
  BY <1>2, <1>3, PartsInv

-----------------------------------------------------------------------------
(* RequestTask and RunRequest.                                             *)

LEMMA RequestTaskInv == IInv /\ RequestTask => IInv'
<1> SUFFICES ASSUME IInv, RequestTask PROVE IInv'
  OBVIOUS
<1>1. QueueTyped /\ TasksTyped /\ RestTyped /\ QueueInv /\ TaskInv /\ passes = << >>
  BY TypeParts DEF IInv, RequestTask, Idle
<1>2. QueueTyped' /\ QueueInv' /\ RestTyped'
  BY <1>1, QueueStutter, RestStutter DEF RequestTask
<1>3. /\ passes' \in Seq(PassType) /\ passes' # << >>
      /\ Top' = NewPass /\ Outer' = << >>
  <2>1. passes' = Append(<< >>, NewPass) /\ << >> \in Seq(PassType)
    BY DEF RequestTask
  <2> QED
    BY <2>1, NewPassType, PushProps
<1>4. tasks' \in Nat /\ requestTask' \in {"none", "pending", "fired"}
      /\ (requestTask' = "pending" => tasks' > 0)
      /\ (requestTask' = "fired" => requestTask = "pending")
  BY <1>1 DEF RequestTask, TasksTyped, TaskInv, FiredIsRun
<1>5. TasksTyped'
  BY <1>1, <1>3, <1>4 DEF TasksTyped, RequestTask
<1>6. PassesNested' /\ ScannedClean' /\ PendingIsScheduled' /\ FiredIsRun'
  BY <1>3, <1>4, NewPassType
     DEF PassesNested, ScannedClean, PendingIsScheduled, FiredIsRun, AllFound
<1>7. SlowIsIdle'
  <2>1. Slow' = Slow /\ NoneWaiting' = NoneWaiting
    BY DEF RequestTask, Slow, NoneWaiting, Window, queueVars
  <2>2. Slow /\ requestTask' = "fired" => NoneWaiting
    BY <1>1, <1>4 DEF TaskInv, SlowIsIdle
  <2> QED
    BY <1>3, <2>1, <2>2, NewPassType DEF SlowIsIdle
<1> QED
  BY <1>2, <1>5, <1>6, <1>7, PartsInv DEF TaskInv

\* What the first loop does to one file: it starts the files of a set found in
\* the window, and hands the Retrieve packets of some of them over.
LEMMA StartInv ==
  ASSUME QueueTyped, QueueInv,
         NEW started \in SUBSET Packet, NEW sent \in SUBSET started,
         \A p \in started : fileDown[p] = "IN_QUEUE"
                            /\ \E i \in Window : fileRequestQueue[i] = p,
         UNCHANGED <<fileRequestQueue, reports>>,
         fileDown' = [p \in Packet |-> IF p \in started THEN "STARTED" ELSE fileDown[p]],
         outbox' = [p \in Packet |-> IF p \in sent THEN "sending" ELSE outbox[p]]
  PROVE  QueueTyped' /\ QueueInv'
<1>1. fileRequestQueue \in Seq(Packet)
      /\ \A i \in DOMAIN fileRequestQueue : fileRequestQueue[i] \in Packet
  BY DEF QueueTyped
<1>2. QueueTyped'
  BY DEF QueueTyped, FileDownState
<1>3. \A p \in Packet : Queued(p)' <=> Queued(p)
  BY DEF Queued
<1>4. QueueMatchesDict'
  BY <1>3 DEF QueueInv, QueueMatchesDict
<1>5. RetrieveHasOwner'
  <2> SUFFICES ASSUME NEW p \in Packet
               PROVE  /\ outbox'[p] = "sending" => fileDown'[p] = "STARTED"
                      /\ outbox'[p] = "response" => fileDown'[p] = "REQUESTED"
    BY DEF RetrieveHasOwner
  <2>1. /\ outbox[p] = "sending" => fileDown[p] = "STARTED"
        /\ outbox[p] = "response" => fileDown[p] = "REQUESTED"
    BY DEF QueueInv, RetrieveHasOwner
  <2>2. CASE p \in sent
    BY <2>2
  <2>3. CASE p \notin sent
    BY <2>1, <2>3
  <2> QED
    BY <2>2, <2>3
<1>6. ActiveRequestsInWindow'
  <2> SUFFICES ASSUME NEW i \in DOMAIN fileRequestQueue,
                      fileDown'[fileRequestQueue[i]] \in {"STARTED", "REQUESTED"}
               PROVE  i <= MaxLength
    BY DEF ActiveRequestsInWindow, Started
  <2>1. CASE fileRequestQueue[i] \in started
    <3>1. PICK j \in Window : fileRequestQueue[j] = fileRequestQueue[i]
      BY <2>1
    <3>2. i = j
      BY <3>1 DEF QueueInv, QueueMatchesDict, Window
    <3> QED
      BY <3>1, <3>2 DEF Window
  <2>2. CASE fileRequestQueue[i] \notin started
    BY <1>1, <2>2 DEF QueueInv, ActiveRequestsInWindow, Started
  <2> QED
    BY <2>1, <2>2
<1> QED
  BY <1>2, <1>4, <1>5, <1>6 DEF QueueInv

LEMMA ScanInv == IInv /\ Scan => IInv'
<1> SUFFICES ASSUME IInv, Scan PROVE IInv'
  OBVIOUS
<1>1. QueueTyped /\ TasksTyped /\ RestTyped /\ QueueInv /\ TaskInv /\ passes # << >>
      /\ Top.phase = "scan"
  BY TypeParts DEF IInv, Scan
<1> DEFINE waiting == {fileRequestQueue[i] : i \in Window} \cap
                        {p \in Packet : fileDown[p] = "IN_QUEUE"}
           exist   == waiting \cap local
           new     == [phase |-> "remove", todo |-> exist, found |-> exist # {}]
<1>2. PICK unsent \in SUBSET (waiting \ exist) :
        /\ fileDown' = [p \in Packet |-> IF p \in waiting \ exist THEN "STARTED"
                                                                  ELSE fileDown[p]]
        /\ outbox' = [p \in Packet |-> IF p \in waiting \ (exist \cup unsent)
                                       THEN "sending" ELSE outbox[p]]
        /\ passes' = Append(Outer, new)
  BY DEF Scan
<1>3. UNCHANGED <<fileRequestQueue, local, taskVars, deleteVars, calls, reports>>
  BY DEF Scan
<1>4. \A p \in Packet : p \in waiting <=>
        fileDown[p] = "IN_QUEUE" /\ \E i \in Window : fileRequestQueue[i] = p
  OBVIOUS
<1>5. waiting \subseteq Packet /\ exist \subseteq waiting
      /\ waiting \ (exist \cup unsent) \subseteq waiting \ exist
  OBVIOUS
<1>6. new \in PassType /\ new.phase = "remove" /\ new.todo = exist
      /\ new.found = (exist # {})
  BY <1>5 DEF PassType
<1> HIDE DEF waiting, exist, new
<1>7. QueueTyped' /\ QueueInv'
  <2> DEFINE started == waiting \ exist
             sent == waiting \ (exist \cup unsent)
  <2>1. started \in SUBSET Packet /\ sent \in SUBSET started
    BY <1>5
  <2>2. \A p \in started : fileDown[p] = "IN_QUEUE"
                           /\ \E i \in Window : fileRequestQueue[i] = p
    BY <1>4, <1>5
  <2>3. /\ fileDown' = [p \in Packet |-> IF p \in started THEN "STARTED" ELSE fileDown[p]]
        /\ outbox' = [p \in Packet |-> IF p \in sent THEN "sending" ELSE outbox[p]]
    BY <1>2
  <2> HIDE DEF started, sent
  <2> QED
    BY <1>1, <1>3, <2>1, <2>2, <2>3, StartInv
<1>8. RestTyped'
  BY <1>1, <1>3, RestStutter
<1>9. /\ passes' \in Seq(PassType) /\ passes' # << >>
      /\ Top' = new /\ Outer' = Outer
  <2>1. Outer \in Seq(PassType)
    BY <1>1, OuterProps DEF TasksTyped
  <2> QED
    BY <1>2, <1>6, <2>1, PushProps
<1>10. TasksTyped' /\ PendingIsScheduled' /\ FiredIsRun'
  BY <1>1, <1>3, <1>9 DEF TasksTyped, TaskInv, PendingIsScheduled, FiredIsRun, taskVars
<1>11. PassesNested'
  BY <1>1, <1>6, <1>9 DEF TaskInv, PassesNested
<1>12. exist = {} => NoneWaiting'
  <2> SUFFICES ASSUME exist = {}, NEW i \in Window
               PROVE  fileDown'[fileRequestQueue[i]] # "IN_QUEUE"
    BY <1>3 DEF NoneWaiting, Window
  <2>1. fileRequestQueue[i] \in Packet
    BY <1>1 DEF QueueTyped, Window
  <2> QED
    BY <1>2, <1>4, <2>1
<1>13. ScannedClean'
  BY <1>6, <1>9, <1>12 DEF ScannedClean
<1>14. SlowIsIdle'
  <2>1. Slow' = Slow /\ requestTask' = requestTask
    BY <1>3 DEF Slow, taskVars
  <2>2. Slow /\ requestTask = "fired" => exist = {}
    <3>1. Slow /\ requestTask = "fired" => NoneWaiting
      BY <1>1 DEF TaskInv, SlowIsIdle
    <3>2. NoneWaiting => waiting = {}
      BY <1>4, <1>5 DEF NoneWaiting
    <3> QED
      BY <3>1, <3>2, <1>5
  <2> QED
    BY <1>6, <1>9, <2>1, <2>2 DEF SlowIsIdle
<1> QED
  BY <1>7, <1>8, <1>10, <1>11, <1>13, <1>14, PartsInv DEF TaskInv

\* What DoRequest finds when it is called inside a pass that found files.
LEMMA DoRequestInPass ==
  ASSUME TasksTyped, TaskInv, passes # << >>, Top.phase = "remove", Top.found,
         NEW new \in PassType, new.found, DoRequest(Append(Outer, new))
  PROVE  TasksTyped' /\ TaskInv'
<1>1. PendingIsScheduled /\ (Slow => requestTask # "fired") /\ AllFound(Outer)
  BY DEF TaskInv, SlowIsIdle, PassesNested
<1>2. Outer \in Seq(PassType)
  BY OuterProps DEF TasksTyped
<1>3. /\ Append(Outer, new) \in Seq(PassType)
      /\ Append(Outer, new) # << >> /\ AllFound(Append(Outer, new))
  BY <1>1, <1>2, PushFound
<1> QED
  BY <1>1, <1>3, DoRequestInv

LEMMA RemoveFoundInv == \A p \in Packet : IInv /\ RemoveFound(p) => IInv'
<1> SUFFICES ASSUME NEW p \in Packet, IInv, RemoveFound(p) PROVE IInv'
  OBVIOUS
<1> DEFINE new == [Top EXCEPT !.todo = @ \ {p}]
<1>1. QueueTyped /\ TasksTyped /\ RestTyped /\ QueueInv /\ TaskInv /\ passes # << >>
      /\ Top.phase = "remove" /\ p \in Top.todo
  BY TypeParts DEF IInv, RemoveFound
<1>2. Top \in PassType /\ Outer \in Seq(PassType)
  BY <1>1, OuterProps DEF TasksTyped
<1>3. new \in PassType /\ new.found = Top.found /\ new.phase = Top.phase
      /\ new.todo = Top.todo \ {p}
  BY <1>2 DEF PassType
<1>4. Top.found /\ AllFound(Outer)
  BY <1>1 DEF TaskInv, PassesNested
<1>5. RestTyped'
  BY <1>1, RestStutter DEF RemoveFound
<1>6. CASE fileDown[p] = "IN_QUEUE"
  <2>1. Queued(p) /\ Leave(p) /\ DoRequest(Append(Outer, new))
    BY <1>6 DEF RemoveFound, Queued
  <2> HIDE DEF new
  <2>2. QueueTyped' /\ QueueInv'
    BY <1>1, <2>1, LeaveKeeps
  <2>3. TasksTyped' /\ TaskInv'
    BY <1>1, <1>3, <1>4, <2>1, DoRequestInPass
  <2> QED
    BY <1>5, <2>2, <2>3, PartsInv
<1>7. CASE fileDown[p] # "IN_QUEUE"
  <2>1. passes' = Append(Outer, new) /\ UNCHANGED <<queueVars, taskVars, reports>>
    BY <1>7 DEF RemoveFound
  <2> HIDE DEF new
  <2>2. QueueTyped' /\ QueueInv'
    BY <1>1, <2>1, QueueStutter
  <2>3. /\ passes' \in Seq(PassType) /\ passes' # << >>
        /\ Top' = new /\ Outer' = Outer
    BY <1>2, <1>3, <2>1, PushProps
  <2>4. TasksTyped' /\ PendingIsScheduled' /\ FiredIsRun'
    BY <1>1, <2>1, <2>3 DEF TasksTyped, TaskInv, PendingIsScheduled, FiredIsRun, taskVars
  <2>5. PassesNested' /\ ScannedClean'
    BY <1>3, <1>4, <2>3 DEF PassesNested, ScannedClean
  <2>6. SlowIsIdle'
    <3>1. Slow => requestTask # "fired"
      BY <1>1, <1>4 DEF TaskInv, SlowIsIdle
    <3> QED
      BY <2>1, <2>3, <3>1 DEF SlowIsIdle, Slow, taskVars
  <2> QED
    BY <1>5, <2>2, <2>4, <2>5, <2>6, PartsInv DEF TaskInv
<1> QED
  BY <1>6, <1>7

LEMMA LookAgainInv == IInv /\ LookAgain => IInv'
<1> SUFFICES ASSUME IInv, LookAgain PROVE IInv'
  OBVIOUS
<1> DEFINE new == [Top EXCEPT !.phase = "done"]
<1>1. QueueTyped /\ TasksTyped /\ RestTyped /\ QueueInv /\ TaskInv /\ passes # << >>
      /\ Top.phase = "remove" /\ Top.found /\ DoRequest(Append(Outer, new))
  BY TypeParts DEF IInv, LookAgain
<1>2. Top \in PassType
  BY <1>1, OuterProps DEF TasksTyped
<1>3. new \in PassType /\ new.found
  BY <1>1, <1>2 DEF PassType
<1> HIDE DEF new
<1>4. TasksTyped' /\ TaskInv'
  BY <1>1, <1>3, DoRequestInPass
<1>5. QueueTyped' /\ QueueInv' /\ RestTyped'
  BY <1>1, QueueStutter, RestStutter DEF LookAgain
<1> QED
  BY <1>4, <1>5, PartsInv

LEMMA EndTaskInv == IInv /\ EndTask => IInv'
<1> SUFFICES ASSUME IInv, EndTask PROVE IInv'
  OBVIOUS
<1>1. QueueTyped /\ TasksTyped /\ RestTyped /\ QueueInv /\ TaskInv /\ passes # << >>
      /\ passes' = Outer /\ requestTask' = "pending" /\ tasks' = tasks + 1
      /\ idlePasses' = LoopAttenuation(idlePasses, Top.found)
  BY TypeParts DEF IInv, EndTask
<1>2. Top \in PassType /\ Outer \in Seq(PassType) /\ AllFound(Outer)
  BY <1>1, OuterProps DEF TasksTyped, TaskInv, PassesNested
<1>3. QueueTyped' /\ QueueInv' /\ RestTyped'
  BY <1>1, QueueStutter, RestStutter DEF EndTask
<1>4. tasks' \in Nat /\ tasks' > 0 /\ idlePasses' \in 0 .. SlowAfter
      /\ (Top.found => idlePasses' = 0)
  <2>1. tasks' \in Nat /\ tasks' > 0
    BY <1>1 DEF TasksTyped
  <2>2. CASE Top.found
    BY <1>1, <2>1, <2>2 DEF LoopAttenuation
  <2>3. CASE ~Top.found
    BY <1>1, <2>1, <2>3 DEF LoopAttenuation, TasksTyped
  <2> QED
    BY <2>2, <2>3
<1>5. TasksTyped'
  BY <1>1, <1>2, <1>4 DEF TasksTyped
<1>6. passes' # << >> => Top'.found /\ AllFound(Outer')
  BY <1>1, <1>2, PopProps
<1>7. PassesNested' /\ ScannedClean' /\ PendingIsScheduled' /\ FiredIsRun'
  BY <1>1, <1>4, <1>6
     DEF PassesNested, ScannedClean, PendingIsScheduled, FiredIsRun
<1>8. Slow' => NoneWaiting'
  <2> SUFFICES ASSUME Slow' PROVE NoneWaiting'
    OBVIOUS
  <2>1. ~Top.found
    BY <1>4 DEF Slow
  <2>2. Top.phase = "remove"
    BY <2>1 DEF EndTask
  <2>3. NoneWaiting
    BY <1>1, <2>1, <2>2 DEF TaskInv, ScannedClean
  <2> QED
    BY <2>3 DEF NoneWaiting, Window, EndTask, queueVars
<1>9. SlowIsIdle'
  BY <1>1, <1>8 DEF SlowIsIdle
<1> QED
  BY <1>3, <1>5, <1>7, <1>9, PartsInv DEF TaskInv

-----------------------------------------------------------------------------
(* The Retrieve packets, the local files and the deletions.                *)

LEMMA RetrieveSentInv == \A p \in Packet : IInv /\ RetrieveSent(p) => IInv'
<1> SUFFICES ASSUME NEW p \in Packet, IInv, RetrieveSent(p) PROVE IInv'
  OBVIOUS
<1>1. QueueTyped /\ TasksTyped /\ RestTyped /\ QueueInv /\ TaskInv
      /\ passes = << >> /\ passes' = << >>
  BY TypeParts DEF IInv, RetrieveSent, Idle
<1>2. UNCHANGED <<fileRequestQueue, local, passes, taskVars, deleteVars, calls, reports>>
  BY DEF RetrieveSent
<1>3. \A r \in Packet :
        /\ fileDown'[r] = IF r = p THEN "REQUESTED" ELSE fileDown[r]
        /\ outbox'[r] = IF r = p THEN "response" ELSE outbox[r]
  BY <1>1 DEF RetrieveSent, QueueTyped
<1>4. fileDown[p] = "STARTED"
  BY DEF RetrieveSent
<1>5. QueueTyped'
  BY <1>1 DEF QueueTyped, RetrieveSent, FileDownState
<1>6. \A r \in Packet : (Queued(r)' <=> Queued(r)) /\ (Started(r)' <=> Started(r))
  BY <1>3, <1>4 DEF Queued, Started
<1>7. \A i \in DOMAIN fileRequestQueue : fileRequestQueue[i] \in Packet
  BY <1>1 DEF QueueTyped
<1>8. QueueMatchesDict'
  BY <1>1, <1>2, <1>6 DEF QueueInv, QueueMatchesDict
<1>9. ActiveRequestsInWindow'
  BY <1>1, <1>2, <1>6, <1>7 DEF QueueInv, ActiveRequestsInWindow
<1>10. RetrieveHasOwner'
  BY <1>1, <1>3 DEF QueueInv, RetrieveHasOwner
<1>11. TasksTyped' /\ PassesNested' /\ PendingIsScheduled' /\ FiredIsRun' /\ ScannedClean'
  BY <1>1, <1>2 DEF TaskInv, TasksTyped, PassesNested, PendingIsScheduled, FiredIsRun,
                    ScannedClean, taskVars
<1>12. SlowIsIdle'
  <2>1. NoneWaiting => NoneWaiting'
    BY <1>2, <1>3, <1>7 DEF NoneWaiting, Window
  <2>2. Slow' = Slow /\ requestTask' = requestTask /\ requestTask # "fired"
    BY <1>1, <1>2 DEF Slow, taskVars, TaskInv, FiredIsRun
  <2> QED
    BY <1>1, <2>1, <2>2 DEF TaskInv, SlowIsIdle
<1>13. RestTyped'
  BY <1>1, <1>2, RestStutter
<1> QED
  BY <1>5, <1>8, <1>9, <1>10, <1>11, <1>12, <1>13, PartsInv DEF QueueInv, TaskInv

LEMMA RetrieveLostInv == \A p \in Packet : IInv /\ RetrieveLost(p) => IInv'
<1> SUFFICES ASSUME NEW p \in Packet, IInv, RetrieveLost(p) PROVE IInv'
  OBVIOUS
<1>1. QueueTyped /\ TasksTyped /\ RestTyped /\ QueueInv /\ TaskInv
  BY TypeParts DEF IInv
<1>2. UNCHANGED <<fileRequestQueue, fileDown, local, passes, taskVars, deleteVars,
                  calls, reports>>
  BY DEF RetrieveLost
<1>3. \A r \in Packet : outbox'[r] = IF r = p THEN "none" ELSE outbox[r]
  BY <1>1 DEF RetrieveLost, QueueTyped
<1>4. QueueTyped'
  BY <1>1 DEF QueueTyped, RetrieveLost
<1>5. QueueInv'
  <2>1. RetrieveHasOwner'
    BY <1>1, <1>2, <1>3 DEF QueueInv, RetrieveHasOwner
  <2> QED
    BY <1>1, <1>2, <2>1 DEF QueueInv, QueueMatchesDict, ActiveRequestsInWindow,
                            Queued, Started
<1>6. TasksTyped' /\ TaskInv' /\ RestTyped'
  BY <1>1, <1>2, TaskStutter, RestStutter
<1> QED
  BY <1>4, <1>5, <1>6, PartsInv

\* RequestFailed and DataReceived: the file leaves.
LEMMA AnsweredInv ==
  \A p \in Packet : IInv /\ (RequestFailed(p) \/ DataReceived(p)) => IInv'
<1> SUFFICES ASSUME NEW p \in Packet, IInv, RequestFailed(p) \/ DataReceived(p)
             PROVE  IInv'
  OBVIOUS
<1>1. /\ passes = << >> /\ Queued(p) /\ Leave(p) /\ DoRequest(passes)
      /\ UNCHANGED <<local, deleteVars, calls>>
  BY DEF RequestFailed, DataReceived, Idle, Queued
<1>2. RestTyped'
  BY <1>1, TypeParts, RestStutter DEF IInv
<1> QED
  BY <1>1, <1>2, LeaveAndDoRequestInv

LEMMA LocalFilesInv ==
  \A p \in Packet : IInv /\ (FileAppears(p) \/ FileRemoved(p)) => IInv'
<1> SUFFICES ASSUME NEW p \in Packet, IInv, FileAppears(p) \/ FileRemoved(p)
             PROVE  IInv'
  OBVIOUS
<1>1. QueueTyped /\ TasksTyped /\ RestTyped /\ QueueInv /\ TaskInv
  BY TypeParts DEF IInv
<1>2. UNCHANGED <<queueVars, passes, taskVars, deleteVars, calls, reports>>
  BY DEF FileAppears, FileRemoved
<1>3. QueueTyped' /\ QueueInv' /\ TasksTyped' /\ TaskInv'
  BY <1>1, <1>2, QueueStutter, TaskStutter DEF queueVars
<1>4. RestTyped'
  BY <1>1, <1>2 DEF RestTyped, FileAppears, FileRemoved, deleteVars
<1> QED
  BY <1>3, <1>4, PartsInv

LEMMA BeginDeleteInv ==
  ASSUME IInv, NEW for \in {"backup", "supplier"}, NEW doomed \in SUBSET Packet,
         BeginDelete(for, doomed)
  PROVE  IInv'
<1>1. QueueTyped /\ TasksTyped /\ RestTyped /\ QueueInv /\ TaskInv
  BY TypeParts DEF IInv
<1>2. QueueTyped' /\ QueueInv' /\ TasksTyped' /\ TaskInv'
  BY <1>1, QueueStutter, TaskStutter DEF BeginDelete, queueVars
<1>3. RestTyped'
  BY <1>1 DEF RestTyped, BeginDelete
<1> QED
  BY <1>2, <1>3, PartsInv

LEMMA StopNextInv == \A p \in Packet : IInv /\ StopNext(p) => IInv'
<1> SUFFICES ASSUME NEW p \in Packet, IInv, StopNext(p) PROVE IInv'
  OBVIOUS
<1>1. QueueTyped /\ TasksTyped /\ RestTyped /\ QueueInv /\ TaskInv /\ passes = << >>
  BY TypeParts DEF IInv, StopNext
<1>2. RestTyped'
  BY <1>1 DEF RestTyped, StopNext
<1>3. CASE Queued(p)
  BY <1>1, <1>2, <1>3, LeaveAndDoRequestInv DEF StopNext
<1>4. CASE ~Queued(p)
  <2>1. UNCHANGED <<queueVars, passes, taskVars, reports>>
    BY <1>4 DEF StopNext
  <2>2. QueueTyped' /\ QueueInv' /\ TasksTyped' /\ TaskInv'
    BY <1>1, <2>1, QueueStutter, TaskStutter DEF queueVars
  <2> QED
    BY <1>2, <2>2, PartsInv
<1> QED
  BY <1>3, <1>4

LEMMA EndDeleteInv == IInv /\ EndDelete => IInv'
<1> SUFFICES ASSUME IInv, EndDelete PROVE IInv'
  OBVIOUS
<1>1. QueueTyped /\ TasksTyped /\ RestTyped /\ QueueInv /\ TaskInv
      /\ passes = << >> /\ passes' = << >>
  BY TypeParts DEF IInv, EndDelete
<1>2. QueueTyped' /\ QueueInv'
  BY <1>1, QueueStutter DEF EndDelete
<1>3. RestTyped'
  BY <1>1 DEF RestTyped, EndDelete
<1>4. CASE deleting = "supplier"
  <2>1. requestTask' = "none" /\ tasks' = 0 /\ idlePasses' = 0
    BY <1>4 DEF EndDelete
  <2>2. TasksTyped' /\ TaskInv'
    BY <1>1, <2>1 DEF TasksTyped, TaskInv, PassesNested, PendingIsScheduled, FiredIsRun,
                      SlowIsIdle, ScannedClean
  <2> QED
    BY <1>2, <1>3, <2>2, PartsInv
<1>5. CASE deleting # "supplier"
  <2>1. UNCHANGED <<passes, taskVars, queueVars>>
    BY <1>5 DEF EndDelete
  <2>2. TasksTyped' /\ TaskInv'
    BY <1>1, <2>1, TaskStutter DEF queueVars
  <2> QED
    BY <1>2, <1>3, <2>2, PartsInv
<1> QED
  BY <1>4, <1>5

LEMMA LaterDoRequestInv == IInv /\ LaterDoRequest => IInv'
<1> SUFFICES ASSUME IInv, LaterDoRequest PROVE IInv'
  OBVIOUS
<1>1. QueueTyped /\ TasksTyped /\ RestTyped /\ QueueInv /\ TaskInv
      /\ passes = << >> /\ DoRequest(passes)
  BY TypeParts DEF IInv, LaterDoRequest, Idle
<1>2. QueueTyped' /\ QueueInv'
  BY <1>1, QueueStutter DEF LaterDoRequest
<1>3. TasksTyped' /\ TaskInv'
  BY <1>1, DoRequestFromReactor
<1>4. RestTyped'
  BY <1>1 DEF RestTyped, LaterDoRequest
<1> QED
  BY <1>2, <1>3, <1>4, PartsInv

\* The inductive invariant is kept by every step.
LEMMA NextInv == IInv /\ [Next]_vars => IInv'
<1> SUFFICES ASSUME IInv, [Next]_vars PROVE IInv'
  OBVIOUS
<1>1. ASSUME NEW p \in Packet, RefuseRequest(p) \/ SupplierRequestFile(p)
      PROVE  IInv'
  BY <1>1, RefuseRequestInv, SupplierRequestFileInv
<1>2. CASE RequestTask
  BY <1>2, RequestTaskInv
<1>3. CASE RunRequest
  BY <1>3, ScanInv, RemoveFoundInv, LookAgainInv, EndTaskInv DEF RunRequest
<1>4. ASSUME NEW p \in Packet,
             RetrieveSent(p) \/ RequestFailed(p) \/ DataReceived(p) \/ RetrieveLost(p)
               \/ FileAppears(p) \/ FileRemoved(p)
      PROVE  IInv'
  BY <1>4, RetrieveSentInv, AnsweredInv, RetrieveLostInv, LocalFilesInv
<1>5. CASE DeleteBackupRequests \/ DeleteSuppliers
  BY <1>5, BeginDeleteInv DEF DeleteBackupRequests, DeleteSuppliers
<1>6. CASE Delete
  BY <1>6, StopNextInv, EndDeleteInv DEF Delete
<1>7. CASE LaterDoRequest
  BY <1>7, LaterDoRequestInv
<1>8. CASE UNCHANGED vars
  <2>1. UNCHANGED <<queueVars, local, passes, taskVars, deleteVars, calls, reports,
                    fileRequestQueue, fileDown>>
    BY <1>8 DEF vars, queueVars
  <2> QED
    BY <2>1, TypeParts, QueueStutter, TaskStutter, RestStutter, PartsInv DEF IInv
<1> QED
  BY <1>1, <1>2, <1>3, <1>4, <1>5, <1>6, <1>7, <1>8 DEF Next

-----------------------------------------------------------------------------
(* The theorems.                                                           *)

\* IInv holds of every state the download queue of a supplier can reach.
THEOREM Invariance == Spec => []IInv
<1>1. Init => IInv
  BY InitInv
<1>2. IInv /\ [Next]_vars => IInv'
  BY NextInv
<1> QED
  BY <1>1, <1>2, PTL DEF Spec

\* Every variable keeps its type: however deep RequestTask calls nest, no count of
\* scheduled calls becomes negative and the delay stays within its bounds.
THEOREM TypeCorrect == Spec => []TypeOK
<1>1. IInv => TypeOK
  BY DEF IInv
<1> QED
  BY <1>1, Invariance, PTL

\* fileRequestQueue and fileRequestDict hold the same files, each once, and every
\* Retrieve packet in the transport belongs to a file that waits for that step.
THEOREM FilesAreAccounted == Spec => []FilesAccounted
<1>1. IInv => FilesAccounted
  BY DEF IInv, QueueInv, FilesAccounted
<1> QED
  BY <1>1, Invariance, PTL

\* The call of RequestTask that DoRequest cancels, to run it at once, is never the
\* call that is being run and always one that is still to come.
THEOREM CancelsOnlyScheduled == Spec => []CancelIsSafe
<1>1. IInv => CancelIsSafe
  <2> SUFFICES ASSUME IInv PROVE CancelIsSafe
    OBVIOUS
  <2>1. PendingIsScheduled /\ FiredIsRun /\ SlowIsIdle
    BY DEF IInv, TaskInv
  <2>2. requestTask = "pending" => tasks > 0
    BY <2>1 DEF PendingIsScheduled
  <2>3. passes = << >> => requestTask # "fired"
    BY <2>1 DEF FiredIsRun
  <2>4. Top.phase = "remove" /\ Top.found /\ Slow => requestTask # "fired"
    BY <2>1 DEF SlowIsIdle
  <2> QED
    BY <2>2, <2>3, <2>4 DEF CancelIsSafe
<1> QED
  BY <1>1, Invariance, PTL

\* The loop keeps to its window and cancels only what can be cancelled, although
\* it re-enters itself for every file it finds on disk.
THEOREM LoopIsSound == Spec => []LoopSound
<1>1. IInv => ActiveRequestsInWindow
  BY DEF IInv, QueueInv
<1>2. ActiveRequestsInWindow /\ CancelIsSafe => LoopSound
  BY DEF LoopSound
<1> QED
  BY <1>1, <1>2, Invariance, CancelsOnlyScheduled, PTL

-----------------------------------------------------------------------------
(* The queue implements TransferPromise.                                   *)

Open == {p \in Packet : Queued(p)}

\* A file that leaves the queue settles its transfer.
LEMMA LeaveSettles ==
  ASSUME QueueTyped, NEW p \in Packet, Queued(p), Leave(p), UNCHANGED calls
  PROVE  Promise!Next
<1>1. \A r \in Packet : Queued(r)' <=> (r # p /\ Queued(r))
  BY DEF Leave, QueueTyped, Queued
<1>2. Open' = Open \ {p} /\ p \in Open
  BY <1>1 DEF Open
<1>3. Promise!Settle(p)
  BY <1>2 DEF Promise!Settle, Promise!Report, Leave, Open
<1> QED
  BY <1>3 DEF Promise!Next

\* A step that changes no file between queued and not queued is a stutter.
LEMMA SameOpenStutters ==
  ASSUME \A r \in Packet : Queued(r)' <=> Queued(r), UNCHANGED <<calls, reports>>
  PROVE  UNCHANGED Promise!vars
<1>1. Open' = Open
  BY DEF Open
<1> QED
  BY <1>1 DEF Open, Promise!vars

LEMMA PromiseStep == IInv /\ [Next]_vars => [Promise!Next]_(Promise!vars)
<1> SUFFICES ASSUME IInv, [Next]_vars PROVE [Promise!Next]_(Promise!vars)
  OBVIOUS
<1>1. QueueTyped
  BY TypeParts DEF IInv
<1>2. ASSUME NEW p \in Packet, RefuseRequest(p) PROVE Promise!Next
  <2>1. Open' = Open
    BY <1>2 DEF RefuseRequest, queueVars, Open, Queued
  <2>2. Promise!Refuse(p)
    BY <1>2, <2>1
       DEF RefuseRequest, Call, Open, Promise!Refuse, Promise!Call, Promise!Report
  <2> QED
    BY <2>2 DEF Promise!Next
<1>3. ASSUME NEW p \in Packet, SupplierRequestFile(p) PROVE Promise!Next
  <2>1. \A r \in Packet : Queued(r)' <=> (r = p \/ Queued(r))
    BY <1>1, <1>3 DEF SupplierRequestFile, QueueTyped, Queued
  <2>2. Open' = Open \cup {p} /\ p \notin Open
    BY <2>1, <1>3 DEF Open, SupplierRequestFile
  <2>3. Promise!Accept(p)
    BY <1>3, <2>2 DEF SupplierRequestFile, Call, Open, Promise!Accept, Promise!Call
  <2> QED
    BY <2>3 DEF Promise!Next
<1>4. CASE \/ RequestTask \/ LookAgain \/ EndTask \/ DeleteBackupRequests
           \/ DeleteSuppliers \/ EndDelete \/ LaterDoRequest \/ UNCHANGED vars
           \/ \E p \in Packet : RetrieveLost(p) \/ FileAppears(p) \/ FileRemoved(p)
  <2>1. UNCHANGED <<fileDown, calls, reports>>
    BY <1>4 DEF RequestTask, LookAgain, EndTask, DeleteBackupRequests, DeleteSuppliers,
                BeginDelete, EndDelete, LaterDoRequest, RetrieveLost, FileAppears,
                FileRemoved, vars, queueVars
  <2> QED
    BY <2>1, SameOpenStutters DEF Queued
<1>5. CASE Scan
  <2>1. UNCHANGED <<calls, reports>>
    BY <1>5 DEF Scan
  <2>2. \A r \in Packet : \/ fileDown'[r] = fileDown[r]
                          \/ fileDown[r] = "IN_QUEUE" /\ fileDown'[r] = "STARTED"
    BY <1>5 DEF Scan
  <2> QED
    BY <2>1, <2>2, SameOpenStutters DEF Queued
<1>6. ASSUME NEW p \in Packet, RetrieveSent(p)
      PROVE  UNCHANGED Promise!vars
  <2>1. \A r \in Packet : Queued(r)' <=> Queued(r)
    BY <1>1, <1>6 DEF RetrieveSent, QueueTyped, Queued
  <2> QED
    BY <1>6, <2>1, SameOpenStutters DEF RetrieveSent
<1>7. ASSUME NEW p \in Packet, RemoveFound(p) \/ StopNext(p)
      PROVE  [Promise!Next]_(Promise!vars)
  <2>1. CASE Queued(p) /\ Leave(p)
    BY <1>1, <1>7, <2>1, LeaveSettles DEF RemoveFound, StopNext
  <2>2. CASE UNCHANGED <<queueVars, reports>>
    BY <1>7, <2>2, SameOpenStutters DEF RemoveFound, StopNext, queueVars, Queued
  <2> QED
    BY <1>7, <2>1, <2>2 DEF RemoveFound, StopNext, Queued
<1>8. ASSUME NEW p \in Packet, RequestFailed(p) \/ DataReceived(p) PROVE Promise!Next
  BY <1>1, <1>8, LeaveSettles DEF RequestFailed, DataReceived, Queued
<1> QED
  BY <1>2, <1>3, <1>4, <1>5, <1>6, <1>7, <1>8 DEF Next, RunRequest, Delete

\* Towards its callers the download queue behaves as TransferPromise: a call is
\* refused with a callback or opens a transfer, and a packetID that is open gets
\* one callback, however many nested passes, answers and deletions meet it.
THEOREM ImplementsPromise == Spec => PromiseKept
<1>1. Init => Promise!Init
  <2>1. Init => Open = {}
    BY DEF Init, Open, Queued
  <2> QED
    BY <2>1 DEF Init, Open, Promise!Init
<1>2. IInv /\ [Next]_vars => [Promise!Next]_(Promise!vars)
  BY PromiseStep
<1> QED
  BY <1>1, <1>2, Invariance, PTL DEF Spec, Promise!Spec, PromiseKept

=============================================================================
