-------------------------- MODULE SupplierQueue_proofs --------------------------
(***************************************************************************)
(* The safety properties of SupplierQueue, for every set of packets, every *)
(* window size and every number of calls.                                  *)
(***************************************************************************)
EXTENDS SupplierQueue, SequenceTheorems, TLAPS

USE MaxLengthAssumption, SlowAfterAssumption, BoundsAssumption, BackupsAssumption

-----------------------------------------------------------------------------
(* The inductive invariant: the properties the runs check, and four facts  *)
(* they rest on.                                                           *)

\* Outside RunSend the record of the pass is reset.
PassReset == ~pass.running => pass = NoPass

\* The range of a pass never exceeds the window.
LimitInWindow == pass.limit <= MaxLength

\* What RunSend collected for failing lies behind the point it has reached, so
\* an item that fails to start at that point is not among it.
FailedBehind ==
  \A p \in pass.failed :
    \E i \in DOMAIN fileSendQueue : i < pass.next /\ fileSendQueue[i] = p

\* While a supplier is being removed nothing joins its queue: all that is left
\* in it is on the list of packets to stop.
SupplierDrains ==
  deleting = "supplier" => \A p \in Packet : Queued(p) => p \in toStop

\* QueueMatchesDict, OneCallbackPerCall and OutboxHasOwner speak of the queue
\* only; the rest speaks of the pass and the tasks.
QueueInv ==
  /\ QueueMatchesDict
  /\ ActiveSendsInWindow
  /\ OneCallbackPerCall
  /\ OutboxHasOwner
  /\ SupplierDrains

TaskInv ==
  /\ PassReset
  /\ LimitInWindow
  /\ FailedBehind
  /\ LoopAlive
  /\ CancelIsSafe

IInv == TypeOK /\ QueueInv /\ TaskInv

-----------------------------------------------------------------------------
(* Lemmas about the queue. *)

\* Removing p from a queue without duplicates keeps the others, each at its
\* place or one place earlier.
LEMMA WithoutProps ==
  ASSUME NEW S, NEW q \in Seq(S), NEW k \in DOMAIN q,
         \A i, j \in DOMAIN q : q[i] = q[j] => i = j
  PROVE  LET w == Without(q, q[k]) IN
         /\ w \in Seq(S)
         /\ Len(w) = Len(q) - 1
         /\ DOMAIN w = 1 .. Len(q) - 1
         /\ \A i \in DOMAIN w : w[i] = IF i < k THEN q[i] ELSE q[i + 1]
<1>1. Position(q, q[k]) = k
  BY DEF Position
<1>2. Without(q, q[k]) = [i \in 1 .. Len(q) - 1 |-> IF i < k THEN q[i] ELSE q[i + 1]]
  BY <1>1 DEF Without
<1>3. Len(q) - 1 \in Nat
  OBVIOUS
<1>4. \A i \in 1 .. Len(q) - 1 : (IF i < k THEN q[i] ELSE q[i + 1]) \in S
  OBVIOUS
<1> QED
  BY <1>2, <1>3, <1>4

\* The same, as a relation between the two queues.
LEMMA WithoutKeeps ==
  ASSUME NEW S, NEW q \in Seq(S), NEW k \in DOMAIN q,
         \A i, j \in DOMAIN q : q[i] = q[j] => i = j
  PROVE  LET w == Without(q, q[k]) IN
         /\ \A i, j \in DOMAIN w : w[i] = w[j] => i = j
         /\ \A i \in DOMAIN w : /\ w[i] # q[k]
                                /\ \E j \in DOMAIN q : i <= j /\ w[i] = q[j]
         /\ \A j \in DOMAIN q : q[j] # q[k] =>
              \E i \in DOMAIN w : i <= j /\ w[i] = q[j]
<1> DEFINE w == Without(q, q[k])
<1>1. /\ w \in Seq(S) /\ DOMAIN w = 1 .. Len(q) - 1
      /\ \A i \in DOMAIN w : w[i] = IF i < k THEN q[i] ELSE q[i + 1]
  BY WithoutProps
<1> HIDE DEF w
<1>2. DOMAIN q = 1 .. Len(q) /\ Len(q) \in Nat /\ k \in 1 .. Len(q)
  OBVIOUS
<1>3. \A i, j \in DOMAIN w : w[i] = w[j] => i = j
  <2> SUFFICES ASSUME NEW i \in DOMAIN w, NEW j \in DOMAIN w, w[i] = w[j]
               PROVE  i = j
    OBVIOUS
  <2>1. CASE i < k /\ j < k
    BY <1>1, <1>2, <2>1
  <2>2. CASE i < k /\ ~(j < k)
    BY <1>1, <1>2, <2>2
  <2>3. CASE ~(i < k) /\ j < k
    BY <1>1, <1>2, <2>3
  <2>4. CASE ~(i < k) /\ ~(j < k)
    BY <1>1, <1>2, <2>4
  <2> QED
    BY <2>1, <2>2, <2>3, <2>4
<1>4. ASSUME NEW i \in DOMAIN w
      PROVE  w[i] # q[k] /\ \E j \in DOMAIN q : i <= j /\ w[i] = q[j]
  <2>1. CASE i < k
    BY <1>1, <1>2, <2>1
  <2>2. CASE ~(i < k)
    BY <1>1, <1>2, <2>2
  <2> QED
    BY <2>1, <2>2
<1>5. ASSUME NEW j \in DOMAIN q, q[j] # q[k]
      PROVE  \E i \in DOMAIN w : i <= j /\ w[i] = q[j]
  <2>1. CASE j < k
    BY <1>1, <1>2, <2>1
  <2>2. CASE j > k
    <3>1. j - 1 \in DOMAIN w /\ w[j - 1] = q[j]
      BY <1>1, <1>2, <2>2
    <3> QED
      BY <3>1, <1>2
  <2>3. j # k
    BY <1>5
  <2> QED
    BY <2>1, <2>2, <2>3, <1>2
<1> QED
  BY <1>3, <1>4, <1>5 DEF w

-----------------------------------------------------------------------------
(* Lemmas about the fragments of handlers. *)

\* A file that is queued has a place in the queue.
LEMMA QueuedHasPlace ==
  ASSUME QueueMatchesDict, NEW p \in Packet, Queued(p)
  PROVE  \E k \in DOMAIN fileSendQueue : fileSendQueue[k] = p
BY DEF QueueMatchesDict

\* The terminal transitions of file_up() keep everything the invariant says of
\* the queue, and move the other files only towards its head.
LEMMA LeaveKeeps ==
  ASSUME TypeOK, QueueInv, NEW p \in Packet, Queued(p), Leave(p),
         UNCHANGED <<calls, deleting>>, toStop \ {p} \subseteq toStop'
  PROVE  /\ fileSendQueue' \in Seq(Packet)
         /\ fileUp' \in [Packet -> FileUpState \cup {"absent"}]
         /\ late' \subseteq Packet
         /\ outbox' \in [Packet -> {"none", "sending", "response"}]
         /\ reports' \in [Packet -> Nat]
         /\ QueueInv'
         /\ \A j \in DOMAIN fileSendQueue : fileSendQueue[j] # p =>
              \E i \in DOMAIN fileSendQueue' :
                i <= j /\ fileSendQueue'[i] = fileSendQueue[j]
<1>1. PICK k \in DOMAIN fileSendQueue : fileSendQueue[k] = p
  BY QueuedHasPlace DEF QueueInv
<1> DEFINE q == fileSendQueue
           w == fileSendQueue'
<1>2. q \in Seq(Packet) /\ \A i, j \in DOMAIN q : q[i] = q[j] => i = j
  BY DEF TypeOK, QueueInv, QueueMatchesDict
<1>3. w = Without(q, q[k])
  BY <1>1 DEF Leave
<1>4. w \in Seq(Packet)
  BY <1>2, <1>3, WithoutProps
<1>5. /\ \A i, j \in DOMAIN w : w[i] = w[j] => i = j
      /\ \A i \in DOMAIN w : w[i] # p /\ \E j \in DOMAIN q : i <= j /\ w[i] = q[j]
      /\ \A j \in DOMAIN q : q[j] # p => \E i \in DOMAIN w : i <= j /\ w[i] = q[j]
  BY <1>1, <1>2, <1>3, WithoutKeeps
<1>6. \A r \in Packet :
        /\ fileUp'[r] = IF r = p THEN "absent" ELSE fileUp[r]
        /\ outbox'[r] = IF r = p THEN "none" ELSE outbox[r]
        /\ reports'[r] = IF r = p THEN reports[r] + 1 ELSE reports[r]
  BY DEF Leave, TypeOK
<1>7. /\ fileUp' \in [Packet -> FileUpState \cup {"absent"}]
      /\ late' \subseteq Packet
      /\ outbox' \in [Packet -> {"none", "sending", "response"}]
      /\ reports' \in [Packet -> Nat]
  <2> HIDE DEF q, w
  <2>1. fileUp' \in [Packet -> FileUpState \cup {"absent"}]
    BY DEF Leave, TypeOK
  <2>2. late' \subseteq Packet
    BY DEF Leave, TypeOK
  <2>3. outbox' \in [Packet -> {"none", "sending", "response"}]
    BY DEF Leave, TypeOK
  <2>4. reports' \in [Packet -> Nat]
    <3>1. reports' = [reports EXCEPT ![p] = reports[p] + 1]
      BY DEF Leave
    <3>2. reports \in [Packet -> Nat] /\ reports[p] + 1 \in Nat
      BY DEF TypeOK
    <3> QED
      BY <3>1, <3>2
  <2> QED
    BY <2>1, <2>2, <2>3, <2>4
<1>8. DOMAIN q \subseteq Nat /\ DOMAIN w \subseteq Nat
  BY <1>2, <1>4
<1>9. \A i \in DOMAIN w : w[i] \in Packet
  BY <1>4
<1> HIDE DEF q, w
<1>10. QueueMatchesDict'
  <2>1. \A r \in Packet : Queued(r)' <=> (r # p /\ Queued(r))
    BY <1>6 DEF Queued
  <2>2. \A r \in Packet : Queued(r) <=> \E i \in DOMAIN q : q[i] = r
    BY DEF QueueInv, QueueMatchesDict, q
  <2>3. \A r \in Packet : Queued(r)' <=> \E i \in DOMAIN w : w[i] = r
    BY <2>1, <2>2, <1>5
  <2> QED
    BY <2>3, <1>5 DEF QueueMatchesDict, w
<1>11. ActiveSendsInWindow'
  <2> SUFFICES ASSUME NEW i \in DOMAIN w, fileUp'[w[i]] \in {"UPLOADING", "ACK?"}
               PROVE  i <= MaxLength
    BY DEF ActiveSendsInWindow, w, Started
  <2>1. PICK j \in DOMAIN q : i <= j /\ w[i] = q[j]
    BY <1>5
  <2>2. Started(q[j])
    BY <2>1, <1>5, <1>6, <1>9 DEF Started
  <2>3. j <= MaxLength
    BY <2>2 DEF QueueInv, ActiveSendsInWindow, q
  <2> QED
    BY <2>1, <2>3, <1>8
<1>12. OneCallbackPerCall'
  <2> SUFFICES ASSUME NEW r \in Packet
               PROVE  calls'[r] = reports'[r] + IF Queued(r)' THEN 1 ELSE 0
    BY DEF OneCallbackPerCall, Queued
  <2>1. calls[r] = reports[r] + IF Queued(r) THEN 1 ELSE 0
    BY DEF QueueInv, OneCallbackPerCall
  <2>2. calls'[r] = calls[r] /\ reports[r] \in Nat
    BY DEF TypeOK
  <2>3. Queued(r)' <=> (r # p /\ Queued(r))
    BY <1>6 DEF Queued
  <2> QED
    BY <2>1, <2>2, <2>3, <1>6
<1>13. OutboxHasOwner'
  BY <1>6 DEF QueueInv, OutboxHasOwner
<1>14. SupplierDrains'
  <2>1. \A r \in Packet : Queued(r)' => (r # p /\ Queued(r))
    BY <1>6 DEF Queued
  <2>2. deleting' = deleting
    OBVIOUS
  <2> QED
    BY <2>1, <2>2 DEF SupplierDrains, QueueInv, Queued
<1> QED
  BY <1>4, <1>5, <1>7, <1>10, <1>11, <1>12, <1>13, <1>14 DEF QueueInv, q, w

\* A pass begins within the window.
LEMMA BeginPassInv ==
  ASSUME fileSendQueue' \in Seq(Packet), BeginPass
  PROVE  /\ pass' \in [running : BOOLEAN, next : Nat \ {0}, limit : Nat,
                        sent : BOOLEAN, failed : SUBSET Packet]
         /\ pass'.running /\ pass'.failed = {} /\ TaskInv'
<1>1. Len(fileSendQueue') \in Nat
  OBVIOUS
<1>2. /\ WindowSize(fileSendQueue') \in Nat
      /\ WindowSize(fileSendQueue') <= MaxLength
  BY <1>1 DEF WindowSize
<1>3. pass' = [running |-> TRUE, next |-> 1, limit |-> WindowSize(fileSendQueue'),
               sent |-> FALSE, failed |-> {}]
  BY DEF BeginPass, NoPass
<1>4. /\ pass' \in [running : BOOLEAN, next : Nat \ {0}, limit : Nat,
                     sent : BOOLEAN, failed : SUBSET Packet]
      /\ pass'.running /\ pass'.failed = {} /\ pass'.limit <= MaxLength
  BY <1>2, <1>3
<1> QED
  BY <1>4 DEF TaskInv, PassReset, LimitInWindow, FailedBehind, LoopAlive, CancelIsSafe

\* Whatever was done to the queue, DoSend leaves a task that will look at it.
LEMMA DoSendInv ==
  ASSUME TypeOK, TaskInv, ~pass.running, fileSendQueue' \in Seq(Packet), DoSend
  PROVE  /\ pass' \in [running : BOOLEAN, next : Nat \ {0}, limit : Nat,
                        sent : BOOLEAN, failed : SUBSET Packet]
         /\ sendTask' \in {"none", "pending", "fired"}
         /\ tasks' \in Nat /\ idlePasses' \in 0 .. SlowAfter
         /\ TaskInv'
<1>1. CASE sendTask = "none" /\ BeginPass /\ UNCHANGED taskVars
  BY <1>1, BeginPassInv DEF TypeOK, taskVars
<1>2. CASE /\ sendTask # "none" /\ UNCHANGED <<pass, tasks, idlePasses>>
           /\ sendTask' \in {sendTask, "none"}
  <2>1. pass = NoPass /\ tasks > 0 /\ sendTask = "pending"
    BY <1>2 DEF TaskInv, PassReset, CancelIsSafe, TypeOK
  <2>2. NoPass.failed = {} /\ NoPass.limit = 0 /\ ~NoPass.running
    BY DEF NoPass
  <2> QED
    BY <1>2, <2>1, <2>2 DEF TypeOK, TaskInv, PassReset, LimitInWindow, FailedBehind,
                            LoopAlive, CancelIsSafe
<1> QED
  BY <1>1, <1>2 DEF DoSend, taskVars

-----------------------------------------------------------------------------
(* The invariant holds at first and is kept by every action.  The actions  *)
(* are grouped by what they do to the queue.                                *)

LEMMA InitInv == Init => IInv
<1> SUFFICES ASSUME Init PROVE IInv
  OBVIOUS
<1>1. fileSendQueue = << >> /\ fileSendQueue \in Seq(Packet) /\ DOMAIN << >> = {}
  BY DEF Init
<1>2. TypeOK
  BY <1>1 DEF Init, TypeOK, NoPass
<1>3. QueueInv
  BY <1>1 DEF Init, QueueInv, QueueMatchesDict, ActiveSendsInWindow, Queued,
              OneCallbackPerCall, OutboxHasOwner, SupplierDrains
<1>4. TaskInv
  BY <1>1 DEF Init, TaskInv, PassReset, LimitInWindow, FailedBehind, LoopAlive,
              CancelIsSafe, NoPass
<1> QED
  BY <1>2, <1>3, <1>4 DEF IInv

\* QueueInv speaks of these variables only, and TaskInv of those.
LEMMA QueueInvStutter ==
  ASSUME QueueInv,
         UNCHANGED <<fileSendQueue, fileUp, outbox, calls, reports, deleting, toStop>>
  PROVE  QueueInv'
BY DEF QueueInv, QueueMatchesDict, ActiveSendsInWindow, OneCallbackPerCall,
       OutboxHasOwner, SupplierDrains, Queued, Started

LEMMA TaskInvStutter ==
  ASSUME TaskInv, UNCHANGED <<fileSendQueue, pass, sendTask, tasks>>
  PROVE  TaskInv'
BY DEF TaskInv, PassReset, LimitInWindow, FailedBehind, LoopAlive, CancelIsSafe

LEMMA RefuseFileInv == \A p \in Packet : IInv /\ RefuseFile(p) => IInv'
<1> SUFFICES ASSUME NEW p \in Packet, IInv, RefuseFile(p) PROVE IInv'
  OBVIOUS
<1> USE DEF RefuseFile, Call, queueVars, taskVars, deleteVars
<1>1. TypeOK'
  BY DEF IInv, TypeOK
<1>2. \A r \in Packet :
        /\ calls'[r] = IF r = p THEN calls[r] + 1 ELSE calls[r]
        /\ reports'[r] = IF r = p THEN reports[r] + 1 ELSE reports[r]
        /\ reports[r] \in Nat /\ calls[r] \in Nat
  BY DEF IInv, TypeOK
<1>3. OneCallbackPerCall'
  <2> SUFFICES ASSUME NEW r \in Packet
               PROVE  calls'[r] = reports'[r] + IF Queued(r) THEN 1 ELSE 0
    BY DEF OneCallbackPerCall, Queued
  <2>1. calls[r] = reports[r] + IF Queued(r) THEN 1 ELSE 0
    BY DEF IInv, QueueInv, OneCallbackPerCall
  <2> QED
    BY <1>2, <2>1
<1>4. QueueInv'
  BY <1>3 DEF IInv, QueueInv, QueueMatchesDict, ActiveSendsInWindow,
              OutboxHasOwner, SupplierDrains, Queued, Started
<1>5. TaskInv'
  BY TaskInvStutter DEF IInv
<1> QED
  BY <1>1, <1>4, <1>5 DEF IInv

LEMMA SupplierSendFileInv == \A p \in Packet : IInv /\ SupplierSendFile(p) => IInv'
<1> SUFFICES ASSUME NEW p \in Packet, IInv, SupplierSendFile(p) PROVE IInv'
  OBVIOUS
<1> DEFINE q == fileSendQueue
           w == fileSendQueue'
<1>1. TypeOK /\ TaskInv /\ QueueInv /\ ~pass.running /\ DoSend
  BY DEF IInv, SupplierSendFile, Call, Idle
<1>2. q \in Seq(Packet) /\ w = Append(q, p) /\ w \in Seq(Packet)
  BY DEF SupplierSendFile, IInv, TypeOK
<1>3. /\ DOMAIN q = 1 .. Len(q) /\ DOMAIN w = 1 .. Len(q) + 1 /\ Len(q) \in Nat
      /\ \A i \in DOMAIN w : w[i] = IF i = Len(q) + 1 THEN p ELSE q[i]
  BY <1>2
<1>4. TaskInv' /\ pass' \in [running : BOOLEAN, next : Nat \ {0}, limit : Nat,
                             sent : BOOLEAN, failed : SUBSET Packet]
      /\ sendTask' \in {"none", "pending", "fired"}
      /\ tasks' \in Nat /\ idlePasses' \in 0 .. SlowAfter
  BY <1>1, <1>2, DoSendInv
<1>5. TypeOK'
  BY <1>2, <1>4 DEF IInv, TypeOK, SupplierSendFile, Call, FileUpState, deleteVars
<1>6. \A r \in Packet :
        /\ fileUp'[r] = IF r = p THEN "IN_QUEUE" ELSE fileUp[r]
        /\ calls'[r] = IF r = p THEN calls[r] + 1 ELSE calls[r]
        /\ outbox'[r] = outbox[r] /\ reports'[r] = reports[r]
        /\ reports[r] \in Nat /\ calls[r] \in Nat
  BY DEF IInv, TypeOK, SupplierSendFile, Call
<1>7. fileUp[p] = "absent" /\ ~Queued(p)
  BY DEF SupplierSendFile, Queued
<1>8. \A r \in Packet : Queued(r)' <=> (r = p \/ Queued(r))
  BY <1>6 DEF Queued
<1>9. /\ \A i, j \in DOMAIN q : q[i] = q[j] => i = j
      /\ \A r \in Packet : Queued(r) <=> \E i \in DOMAIN q : q[i] = r
      /\ \A i \in DOMAIN q : q[i] \in Packet /\ q[i] # p
  BY <1>1, <1>2, <1>7 DEF QueueInv, QueueMatchesDict
<1> HIDE DEF q, w
<1>10. QueueMatchesDict'
  <2>1. ASSUME NEW i \in DOMAIN w, NEW j \in DOMAIN w, w[i] = w[j]
        PROVE  i = j
    BY <1>3, <1>9, <2>1
  <2>2. ASSUME NEW r \in Packet
        PROVE  Queued(r)' <=> \E i \in DOMAIN w : w[i] = r
    <3>1. Len(q) + 1 \in DOMAIN w /\ w[Len(q) + 1] = p
      BY <1>3
    <3>2. \A i \in DOMAIN q : i \in DOMAIN w /\ w[i] = q[i]
      BY <1>3
    <3>3. \A i \in DOMAIN w : w[i] = p \/ (i \in DOMAIN q /\ w[i] = q[i])
      BY <1>3
    <3> QED
      BY <3>1, <3>2, <3>3, <1>8, <1>9
  <2> QED
    BY <2>1, <2>2 DEF QueueMatchesDict, w
<1>11. ActiveSendsInWindow'
  <2> SUFFICES ASSUME NEW i \in DOMAIN w, fileUp'[w[i]] \in {"UPLOADING", "ACK?"}
               PROVE  i <= MaxLength
    BY DEF ActiveSendsInWindow, w, Started
  <2>1. w[i] # p /\ i # Len(q) + 1 /\ i \in DOMAIN q /\ w[i] = q[i]
    BY <1>3, <1>6
  <2>2. Started(q[i])
    BY <2>1, <1>6, <1>9 DEF Started
  <2> QED
    BY <2>1, <2>2, <1>1 DEF QueueInv, ActiveSendsInWindow, q
<1>12. OneCallbackPerCall'
  <2> SUFFICES ASSUME NEW r \in Packet
               PROVE  calls'[r] = reports'[r] + IF Queued(r)' THEN 1 ELSE 0
    BY DEF OneCallbackPerCall, Queued
  <2>1. calls[r] = reports[r] + IF Queued(r) THEN 1 ELSE 0
    BY <1>1 DEF QueueInv, OneCallbackPerCall
  <2> QED
    BY <2>1, <1>6, <1>7, <1>8
<1>13. OutboxHasOwner'
  BY <1>1, <1>6, <1>7 DEF QueueInv, OutboxHasOwner
<1>14. SupplierDrains'
  BY DEF SupplierDrains, SupplierSendFile, Call, Idle, deleteVars
<1> QED
  BY <1>4, <1>5, <1>10, <1>11, <1>12, <1>13, <1>14 DEF IInv, QueueInv

\* SendingFailed, Answered and StopNext: a file leaves, then DoSend looks at
\* what is left.
LEMMA LeaveAndDoSendInv ==
  ASSUME IInv, NEW p \in Packet, Queued(p), ~pass.running, Leave(p), DoSend,
         UNCHANGED <<calls, deleting, doSends, deletes>>,
         toStop \ {p} \subseteq toStop', toStop' \subseteq toStop
  PROVE  IInv'
<1>1. TypeOK /\ QueueInv /\ TaskInv
  BY DEF IInv
<1>2. /\ fileSendQueue' \in Seq(Packet)
      /\ fileUp' \in [Packet -> FileUpState \cup {"absent"}]
      /\ late' \subseteq Packet
      /\ outbox' \in [Packet -> {"none", "sending", "response"}]
      /\ reports' \in [Packet -> Nat]
      /\ QueueInv'
  BY <1>1, LeaveKeeps
<1>3. /\ pass' \in [running : BOOLEAN, next : Nat \ {0}, limit : Nat,
                     sent : BOOLEAN, failed : SUBSET Packet]
      /\ sendTask' \in {"none", "pending", "fired"}
      /\ tasks' \in Nat /\ idlePasses' \in 0 .. SlowAfter
      /\ TaskInv'
  BY <1>1, <1>2, DoSendInv
<1>4. TypeOK'
  BY <1>1, <1>2, <1>3 DEF TypeOK
<1> QED
  BY <1>2, <1>3, <1>4 DEF IInv

\* StartFails and FailItem: a file leaves while RunSend walks the queue.
LEMMA LeaveInPassInv ==
  ASSUME IInv, NEW p \in Packet, Queued(p), pass.running, Leave(p),
         UNCHANGED <<taskVars, deleteVars, calls>>,
         pass' \in [running : BOOLEAN, next : Nat \ {0}, limit : Nat,
                    sent : BOOLEAN, failed : SUBSET Packet],
         pass'.running, pass'.next >= pass.next, pass'.limit = pass.limit,
         pass'.failed \subseteq pass.failed \ {p}
  PROVE  IInv'
<1>1. TypeOK /\ QueueInv /\ TaskInv
  BY DEF IInv
<1>2. /\ fileSendQueue' \in Seq(Packet)
      /\ fileUp' \in [Packet -> FileUpState \cup {"absent"}]
      /\ late' \subseteq Packet
      /\ outbox' \in [Packet -> {"none", "sending", "response"}]
      /\ reports' \in [Packet -> Nat]
      /\ QueueInv'
      /\ \A j \in DOMAIN fileSendQueue : fileSendQueue[j] # p =>
           \E i \in DOMAIN fileSendQueue' :
             i <= j /\ fileSendQueue'[i] = fileSendQueue[j]
  BY <1>1, LeaveKeeps DEF deleteVars
<1>3. TypeOK'
  BY <1>1, <1>2 DEF TypeOK, taskVars, deleteVars
<1>4. FailedBehind'
  <2> SUFFICES ASSUME NEW r \in pass'.failed
               PROVE  \E i \in DOMAIN fileSendQueue' :
                        i < pass'.next /\ fileSendQueue'[i] = r
    BY DEF FailedBehind
  <2>1. r \in pass.failed /\ r # p
    OBVIOUS
  <2>2. PICK j \in DOMAIN fileSendQueue : j < pass.next /\ fileSendQueue[j] = r
    BY <1>1, <2>1 DEF TaskInv, FailedBehind
  <2>3. PICK i \in DOMAIN fileSendQueue' : i <= j /\ fileSendQueue'[i] = r
    BY <1>2, <2>1, <2>2
  <2>4. fileSendQueue \in Seq(Packet) /\ fileSendQueue' \in Seq(Packet)
    BY <1>1, <1>2 DEF TypeOK
  <2>5. i \in Nat /\ j \in Nat
    BY <2>4
  <2>6. pass.next \in Nat /\ pass'.next \in Nat
    BY <1>1 DEF TypeOK
  <2> QED
    BY <2>2, <2>3, <2>5, <2>6
<1>5. TaskInv'
  BY <1>1, <1>4 DEF TaskInv, PassReset, LimitInWindow, LoopAlive, CancelIsSafe
<1> QED
  BY <1>2, <1>3, <1>5 DEF IInv

\* The other steps of RunSend leave the queue as it is: the pass goes on, and
\* collects at most the packet it is looking at.
LEMMA PassStepInv ==
  ASSUME IInv, pass.running, pass.next <= Len(fileSendQueue),
         UNCHANGED <<queueVars, taskVars, deleteVars, calls, reports>>,
         pass' \in [running : BOOLEAN, next : Nat \ {0}, limit : Nat,
                    sent : BOOLEAN, failed : SUBSET Packet],
         pass'.running, pass'.next = pass.next + 1, pass'.limit = pass.limit,
         pass'.failed \subseteq pass.failed \cup {fileSendQueue[pass.next]}
  PROVE  IInv'
<1>1. TypeOK /\ QueueInv /\ TaskInv
  BY DEF IInv
<1>2. TypeOK'
  BY <1>1 DEF TypeOK, queueVars, taskVars, deleteVars
<1>3. QueueInv'
  BY <1>1, QueueInvStutter DEF queueVars, deleteVars
<1>4. FailedBehind'
  <2>1. /\ pass.next \in DOMAIN fileSendQueue /\ pass.next < pass'.next
        /\ DOMAIN fileSendQueue \subseteq Nat /\ pass.next \in Nat
    BY <1>1 DEF TypeOK
  <2> QED
    BY <1>1, <2>1 DEF TaskInv, FailedBehind, queueVars
<1>5. TaskInv'
  BY <1>1, <1>4 DEF TaskInv, PassReset, LimitInWindow, LoopAlive, CancelIsSafe
<1> QED
  BY <1>2, <1>3, <1>5 DEF IInv

LEMMA ScanItemInv == IInv /\ ScanItem => IInv'
<1> SUFFICES ASSUME IInv, ScanItem PROVE IInv'
  OBVIOUS
<1> DEFINE p == fileSendQueue[pass.next]
<1>1. TypeOK /\ QueueInv /\ TaskInv
  BY DEF IInv
<1>2. /\ pass.running /\ pass.next <= pass.limit
      /\ pass.next <= Len(fileSendQueue) /\ pass.next \in DOMAIN fileSendQueue
      /\ p \in Packet /\ pass.limit \in Nat /\ pass.next \in Nat
  BY <1>1 DEF ScanItem, Scanning, TypeOK
<1>3. /\ pass \in [running : BOOLEAN, next : Nat \ {0}, limit : Nat,
                    sent : BOOLEAN, failed : SUBSET Packet]
      /\ NextItem \in [running : BOOLEAN, next : Nat \ {0}, limit : Nat,
                        sent : BOOLEAN, failed : SUBSET Packet]
      /\ NextItem.running /\ NextItem.next = pass.next + 1
      /\ NextItem.limit = pass.limit /\ NextItem.failed = pass.failed
  <2> DEFINE P == [running : BOOLEAN, next : Nat \ {0}, limit : Nat,
                   sent : BOOLEAN, failed : SUBSET Packet]
  <2>1. pass \in P
    BY <1>1 DEF TypeOK
  <2>2. pass.next + 1 \in Nat \ {0}
    BY <1>2
  <2> QED
    BY <1>2, <2>1, <2>2 DEF NextItem
<1>4. CASE ScanStarted(p)
  <2>1. CASE p \in late
    BY <1>2, <1>3, <1>4, <2>1, PassStepInv DEF ScanStarted
  <2>2. CASE p \notin late
    BY <1>2, <1>3, <1>4, <2>2, PassStepInv DEF ScanStarted
  <2> QED
    BY <2>1, <2>2
<1>5. CASE ScanMissingFile(p)
  <2>1. pass' = [NextItem EXCEPT !.failed = pass.failed \cup {p}]
    BY <1>3, <1>5 DEF ScanMissingFile
  <2>2. /\ pass' \in [running : BOOLEAN, next : Nat \ {0}, limit : Nat,
                       sent : BOOLEAN, failed : SUBSET Packet]
        /\ pass'.running /\ pass'.next = pass.next + 1 /\ pass'.limit = pass.limit
        /\ pass'.failed \subseteq pass.failed \cup {p}
    BY <1>2, <1>3, <2>1
  <2> QED
    BY <1>2, <1>5, <2>2, PassStepInv DEF ScanMissingFile
<1>6. CASE StartUploading(p)
  <2> USE <1>6 DEF StartUploading, taskVars, deleteVars
  <2>1. TypeOK'
    BY <1>1, <1>2, <1>3 DEF TypeOK, FileUpState
  <2>2. \A r \in Packet :
          /\ fileUp'[r] = IF r = p THEN "UPLOADING" ELSE fileUp[r]
          /\ outbox'[r] = IF r = p THEN "sending" ELSE outbox[r]
    BY <1>1 DEF TypeOK
  <2>3. Queued(p)
    BY DEF Queued
  <2>4. \A r \in Packet : Queued(r)' <=> Queued(r)
    BY <2>2, <2>3 DEF Queued
  <2>5. ActiveSendsInWindow'
    <3> SUFFICES ASSUME NEW i \in DOMAIN fileSendQueue,
                        fileUp'[fileSendQueue[i]] \in {"UPLOADING", "ACK?"}
                 PROVE  i <= MaxLength
      BY DEF ActiveSendsInWindow, Started
    <3>1. fileSendQueue[i] \in Packet /\ i \in Nat
      BY <1>1 DEF TypeOK
    <3>2. CASE fileSendQueue[i] = p
      <4>1. i = pass.next
        BY <1>1, <1>2, <3>2 DEF QueueInv, QueueMatchesDict
      <4> QED
        BY <1>1, <1>2, <4>1 DEF TaskInv, LimitInWindow
    <3>3. CASE fileSendQueue[i] # p
      BY <1>1, <2>2, <3>1, <3>3 DEF QueueInv, ActiveSendsInWindow, Started
    <3> QED
      BY <3>2, <3>3
  <2>6. OutboxHasOwner'
    BY <1>1, <2>2 DEF QueueInv, OutboxHasOwner
  <2>7. QueueMatchesDict' /\ OneCallbackPerCall' /\ SupplierDrains'
    <3>1. QueueMatchesDict'
      BY <1>1, <2>4 DEF QueueInv, QueueMatchesDict
    <3>2. OneCallbackPerCall'
      BY <1>1, <2>4 DEF QueueInv, OneCallbackPerCall
    <3>3. SupplierDrains'
      BY <1>1, <2>4 DEF QueueInv, SupplierDrains
    <3> QED
      BY <3>1, <3>2, <3>3
  <2>8. FailedBehind'
    <3>1. pass'.failed = pass.failed /\ pass'.next = pass.next + 1
      BY <1>3
    <3>2. DOMAIN fileSendQueue \subseteq Nat
      BY <1>1 DEF TypeOK
    <3> QED
      BY <1>1, <1>2, <3>1, <3>2 DEF TaskInv, FailedBehind
  <2>9. TaskInv'
    BY <1>1, <1>2, <1>3, <2>8 DEF TaskInv, PassReset, LimitInWindow, LoopAlive, CancelIsSafe
  <2> QED
    BY <2>1, <2>5, <2>6, <2>7, <2>9 DEF IInv, QueueInv
<1>7. CASE StartFails(p)
  <2>1. Queued(p) /\ Leave(p) /\ pass' = NextItem
    BY <1>7 DEF StartFails, Queued
  <2>2. p \notin pass.failed
    <3> SUFFICES ASSUME p \in pass.failed PROVE FALSE
      OBVIOUS
    <3>1. PICK i \in DOMAIN fileSendQueue : i < pass.next /\ fileSendQueue[i] = p
      BY <1>1 DEF TaskInv, FailedBehind
    <3>2. i = pass.next
      BY <1>1, <1>2, <3>1 DEF QueueInv, QueueMatchesDict
    <3> QED
      BY <3>1, <3>2, <1>2
  <2> HIDE DEF p
  <2>3. /\ pass'.running /\ pass'.next >= pass.next /\ pass'.limit = pass.limit
        /\ pass'.failed \subseteq pass.failed \ {p}
        /\ pass' \in [running : BOOLEAN, next : Nat \ {0}, limit : Nat,
                       sent : BOOLEAN, failed : SUBSET Packet]
    BY <1>2, <1>3, <2>1, <2>2
  <2> QED
    BY <1>2, <1>7, <2>1, <2>3, LeaveInPassInv DEF StartFails
<1> QED
  BY <1>4, <1>5, <1>6, <1>7 DEF ScanItem

\* SendingTask and EndPass: a pass begins, and ends in a scheduled task.
LEMMA SendingTaskInv == IInv /\ SendingTask => IInv'
<1> SUFFICES ASSUME IInv, SendingTask PROVE IInv'
  OBVIOUS
<1>1. TypeOK /\ QueueInv /\ fileSendQueue' \in Seq(Packet) /\ BeginPass
  BY DEF IInv, SendingTask, TypeOK
<1>2. TaskInv' /\ pass' \in [running : BOOLEAN, next : Nat \ {0}, limit : Nat,
                             sent : BOOLEAN, failed : SUBSET Packet]
  BY <1>1, BeginPassInv
<1>3. QueueInv'
  BY <1>1, QueueInvStutter DEF SendingTask, deleteVars
<1>4. tasks' \in Nat
  BY <1>1 DEF SendingTask, TypeOK
<1>5. TypeOK'
  BY <1>1, <1>2, <1>4 DEF SendingTask, TypeOK, deleteVars
<1> QED
  BY <1>2, <1>3, <1>5 DEF IInv

LEMMA EndPassInv == IInv /\ EndPass => IInv'
<1> SUFFICES ASSUME IInv, EndPass PROVE IInv'
  OBVIOUS
<1> USE DEF EndPass, queueVars, deleteVars
<1>1. TypeOK /\ QueueInv /\ TaskInv
  BY DEF IInv
<1>2. idlePasses' \in 0 .. SlowAfter
  BY <1>1 DEF TypeOK, LoopAttenuation
<1>3. TypeOK'
  BY <1>1, <1>2 DEF TypeOK, NoPass
<1>4. QueueInv'
  BY <1>1, QueueInvStutter
<1>5. pass'.failed = {} /\ pass'.limit = 0 /\ pass' = NoPass
  BY DEF NoPass
<1>6. tasks' > 0
  BY <1>1 DEF TypeOK
<1>7. TaskInv'
  BY <1>5, <1>6 DEF TaskInv, PassReset, LimitInWindow, FailedBehind, LoopAlive, CancelIsSafe
<1> QED
  BY <1>3, <1>4, <1>7 DEF IInv

LEMMA ScanBeyondEndInv == IInv /\ ScanBeyondEnd => IInv'
<1> SUFFICES ASSUME IInv, ScanBeyondEnd PROVE IInv'
  OBVIOUS
<1> USE DEF ScanBeyondEnd, Scanning, queueVars, taskVars, deleteVars
<1>1. TypeOK /\ QueueInv /\ TaskInv
  BY DEF IInv
<1>2. pass.next \in Nat /\ pass' = [pass EXCEPT !.next = pass.next + 1]
  BY <1>1 DEF TypeOK, NextItem
<1>3. /\ pass' \in [running : BOOLEAN, next : Nat \ {0}, limit : Nat,
                     sent : BOOLEAN, failed : SUBSET Packet]
      /\ pass'.running /\ pass'.next = pass.next + 1
      /\ pass'.limit = pass.limit /\ pass'.failed = pass.failed
  <2> HIDE DEF ScanBeyondEnd
  <2>1. /\ pass \in [running : BOOLEAN, next : Nat \ {0}, limit : Nat,
                     sent : BOOLEAN, failed : SUBSET Packet]
        /\ pass.next + 1 \in Nat \ {0}
    BY <1>1, <1>2 DEF TypeOK
  <2>2. pass.running
    BY DEF ScanBeyondEnd
  <2> QED
    BY <1>2, <2>1, <2>2
<1>4. TypeOK'
  BY <1>1, <1>3 DEF TypeOK
<1>5. QueueInv'
  BY <1>1, QueueInvStutter
<1>6. FailedBehind'
  <2>1. DOMAIN fileSendQueue \subseteq Nat
    BY <1>1 DEF TypeOK
  <2> QED
    BY <1>1, <1>2, <1>3, <2>1 DEF TaskInv, FailedBehind
<1>7. TaskInv'
  BY <1>1, <1>3, <1>6 DEF TaskInv, PassReset, LimitInWindow, LoopAlive, CancelIsSafe
<1> QED
  BY <1>4, <1>5, <1>7 DEF IInv

LEMMA FailItemInv == \A p \in Packet : IInv /\ FailItem(p) => IInv'
<1> SUFFICES ASSUME NEW p \in Packet, IInv, FailItem(p) PROVE IInv'
  OBVIOUS
<1>1. TypeOK /\ QueueInv /\ TaskInv
  BY DEF IInv
<1>2. pass.running /\ p \in pass.failed /\ Leave(p)
  BY DEF FailItem
<1>3. Queued(p)
  BY <1>1, <1>2 DEF TaskInv, FailedBehind, QueueInv, QueueMatchesDict
<1>4. /\ pass' \in [running : BOOLEAN, next : Nat \ {0}, limit : Nat,
                     sent : BOOLEAN, failed : SUBSET Packet]
      /\ pass'.running /\ pass'.next = pass.next /\ pass'.limit = pass.limit
      /\ pass'.failed \subseteq pass.failed \ {p} /\ pass.next \in Nat
  BY <1>1, <1>2 DEF FailItem, TypeOK
<1> QED
  BY <1>2, <1>3, <1>4, LeaveInPassInv DEF FailItem

\* DataSent, PacketTimedOut and SendTimeout change the state of one file.
LEMMA OutcomeInv ==
  \A p \in Packet :
    IInv /\ (DataSent(p) \/ PacketTimedOut(p) \/ SendTimeout(p)) => IInv'
<1> SUFFICES ASSUME NEW p \in Packet, IInv,
                    DataSent(p) \/ PacketTimedOut(p) \/ SendTimeout(p)
             PROVE  IInv'
  OBVIOUS
<1>1. TypeOK /\ QueueInv /\ TaskInv
  BY DEF IInv
<1>2. CASE DataSent(p)
  <2> USE <1>2 DEF DataSent, taskVars, deleteVars
  <2>1. TypeOK'
    BY <1>1 DEF TypeOK, FileUpState
  <2>2. \A r \in Packet :
          /\ fileUp'[r] = IF r = p THEN "ACK?" ELSE fileUp[r]
          /\ outbox'[r] = IF r = p THEN "response" ELSE outbox[r]
    BY <1>1 DEF TypeOK
  <2>3. \A r \in Packet : (Queued(r)' <=> Queued(r)) /\ (Started(r)' <=> Started(r))
    BY <2>2 DEF Queued, Started
  <2>4. \A i \in DOMAIN fileSendQueue : fileSendQueue[i] \in Packet
    BY <1>1 DEF TypeOK
  <2>5. QueueMatchesDict'
    BY <1>1, <2>3 DEF QueueInv, QueueMatchesDict
  <2>6. ActiveSendsInWindow'
    BY <1>1, <2>3, <2>4 DEF QueueInv, ActiveSendsInWindow
  <2>7. OneCallbackPerCall'
    BY <1>1, <2>3 DEF QueueInv, OneCallbackPerCall
  <2>8. OutboxHasOwner'
    BY <1>1, <2>2 DEF QueueInv, OutboxHasOwner
  <2>9. SupplierDrains'
    BY <1>1, <2>3 DEF QueueInv, SupplierDrains
  <2>10. TaskInv'
    BY <1>1, TaskInvStutter
  <2> QED
    BY <2>1, <2>5, <2>6, <2>7, <2>8, <2>9, <2>10 DEF IInv, QueueInv
<1>3. CASE PacketTimedOut(p)
  <2> USE <1>3 DEF PacketTimedOut, taskVars, deleteVars
  <2>1. TypeOK'
    BY <1>1 DEF TypeOK
  <2>2. \A r \in Packet : outbox'[r] = IF r = p THEN "none" ELSE outbox[r]
    BY <1>1 DEF TypeOK
  <2>3. OutboxHasOwner'
    BY <1>1, <2>2 DEF QueueInv, OutboxHasOwner
  <2>4. QueueInv'
    BY <1>1, <2>3 DEF QueueInv, QueueMatchesDict, ActiveSendsInWindow, Queued,
                      OneCallbackPerCall, SupplierDrains, Started
  <2>5. TaskInv'
    BY <1>1, TaskInvStutter
  <2> QED
    BY <2>1, <2>4, <2>5 DEF IInv
<1>4. CASE SendTimeout(p)
  <2> USE <1>4 DEF SendTimeout, taskVars, deleteVars
  <2>1. TypeOK'
    BY <1>1 DEF TypeOK
  <2>2. QueueInv'
    BY <1>1, QueueInvStutter
  <2>3. TaskInv'
    BY <1>1, TaskInvStutter
  <2> QED
    BY <2>1, <2>2, <2>3 DEF IInv
<1> QED
  BY <1>2, <1>3, <1>4

LEMMA LeavingInv ==
  \A p \in Packet : IInv /\ (SendingFailed(p) \/ Answered(p)) => IInv'
<1> SUFFICES ASSUME NEW p \in Packet, IInv, SendingFailed(p) \/ Answered(p)
             PROVE  IInv'
  OBVIOUS
<1>1. /\ ~pass.running /\ Queued(p) /\ Leave(p) /\ DoSend
      /\ UNCHANGED <<calls, deleting, doSends, deletes, toStop>>
  BY DEF SendingFailed, Answered, Idle, Started, Queued, deleteVars
<1> QED
  BY <1>1, LeaveAndDoSendInv

\* The steps of DeleteBackupSendings and DeleteSuppliers.
LEMMA DeleteInv ==
  IInv /\ (DeleteBackupSendings \/ DeleteSuppliers \/ Delete) => IInv'
<1> SUFFICES ASSUME IInv, DeleteBackupSendings \/ DeleteSuppliers \/ Delete
             PROVE  IInv'
  OBVIOUS
<1>1. TypeOK /\ QueueInv /\ TaskInv
  BY DEF IInv
<1>2. ASSUME NEW for \in {"backup", "supplier"}, NEW doomed \in SUBSET Packet,
             BeginDelete(for, doomed), for = "supplier" => doomed = Packet
      PROVE  IInv'
  <2> USE <1>2 DEF BeginDelete, queueVars, taskVars
  <2>1. TypeOK'
    BY <1>1 DEF TypeOK
  <2>2. SupplierDrains'
    BY DEF SupplierDrains, Queued
  <2>3. QueueInv'
    BY <1>1, <2>2 DEF QueueInv, QueueMatchesDict, ActiveSendsInWindow, Queued,
                      OneCallbackPerCall, OutboxHasOwner, Started
  <2>4. TaskInv'
    BY <1>1, TaskInvStutter
  <2> QED
    BY <2>1, <2>3, <2>4 DEF IInv
<1>3. CASE DeleteBackupSendings
  BY <1>2, <1>3 DEF DeleteBackupSendings
<1>4. CASE DeleteSuppliers
  BY <1>2, <1>4 DEF DeleteSuppliers
<1>5. ASSUME NEW p \in Packet, StopNext(p)
      PROVE  IInv'
  <2>1. CASE Queued(p)
    <3>1. /\ ~pass.running /\ Leave(p) /\ DoSend /\ toStop' = toStop \ {p}
          /\ UNCHANGED <<calls, deleting, doSends, deletes>>
      BY <1>5, <2>1 DEF StopNext
    <3> QED
      BY <2>1, <3>1, LeaveAndDoSendInv
  <2>2. CASE ~Queued(p)
    <3> USE <1>5, <2>2 DEF StopNext, queueVars, taskVars
    <3>1. TypeOK'
      BY <1>1 DEF TypeOK
    <3>2. SupplierDrains'
      BY <1>1 DEF QueueInv, SupplierDrains, Queued
    <3>3. QueueInv'
      BY <1>1, <3>2 DEF QueueInv, QueueMatchesDict, ActiveSendsInWindow, Queued,
                        OneCallbackPerCall, OutboxHasOwner, Started
    <3>4. TaskInv'
      BY <1>1, TaskInvStutter
    <3> QED
      BY <3>1, <3>3, <3>4 DEF IInv
  <2> QED
    BY <2>1, <2>2
<1>6. CASE EndDelete
  <2> USE <1>6 DEF EndDelete, queueVars, taskVars
  <2>1. TypeOK'
    BY <1>1 DEF TypeOK
  <2>2. SupplierDrains'
    BY DEF SupplierDrains
  <2>3. QueueInv'
    BY <1>1, <2>2 DEF QueueInv, QueueMatchesDict, ActiveSendsInWindow, Queued,
                      OneCallbackPerCall, OutboxHasOwner, Started
  <2>4. CASE deleting = "supplier"
    <3>1. \A p \in Packet : ~Queued(p)
      BY <1>1, <2>4 DEF QueueInv, SupplierDrains
    <3>2. fileSendQueue \in Seq(Packet) /\ \A i \in DOMAIN fileSendQueue : FALSE
      BY <1>1, <3>1 DEF QueueInv, QueueMatchesDict, TypeOK
    <3>3. fileSendQueue = << >>
      <4>1. \A i \in 1 .. Len(fileSendQueue) : FALSE
        BY <3>2, LenProperties
      <4>2. ~(Len(fileSendQueue) \in Nat \ {0})
        <5>1. Len(fileSendQueue) \in Nat \ {0} => 1 \in 1 .. Len(fileSendQueue)
          OBVIOUS
        <5> QED
          BY <4>1, <5>1
      <4> QED
        BY <3>2, <4>2, EmptySeq
    <3> QED
      BY <1>1, <2>1, <2>3, <2>4, <3>3
         DEF IInv, TaskInv, PassReset, LimitInWindow, FailedBehind, LoopAlive, CancelIsSafe
  <2>5. CASE deleting # "supplier"
    <3>1. TaskInv'
      BY <1>1, <2>5, TaskInvStutter
    <3> QED
      BY <2>1, <2>3, <3>1 DEF IInv
  <2> QED
    BY <2>4, <2>5
<1> QED
  BY <1>3, <1>4, <1>5, <1>6 DEF Delete

LEMMA LaterDoSendInv == IInv /\ LaterDoSend => IInv'
<1> SUFFICES ASSUME IInv, LaterDoSend PROVE IInv'
  OBVIOUS
<1> USE DEF LaterDoSend, queueVars
<1>1. TypeOK /\ QueueInv /\ TaskInv /\ ~pass.running /\ DoSend
      /\ fileSendQueue' \in Seq(Packet)
  BY DEF IInv, TypeOK, Idle
<1>2. /\ pass' \in [running : BOOLEAN, next : Nat \ {0}, limit : Nat,
                     sent : BOOLEAN, failed : SUBSET Packet]
      /\ sendTask' \in {"none", "pending", "fired"}
      /\ tasks' \in Nat /\ idlePasses' \in 0 .. SlowAfter
      /\ TaskInv'
  BY <1>1, DoSendInv
<1>3. TypeOK'
  BY <1>1, <1>2 DEF TypeOK
<1>4. QueueInv'
  BY <1>1, QueueInvStutter
<1> QED
  BY <1>2, <1>3, <1>4 DEF IInv

\* The inductive invariant is kept by every step.
LEMMA NextInv == IInv /\ [Next]_vars => IInv'
<1> SUFFICES ASSUME IInv, [Next]_vars PROVE IInv'
  OBVIOUS
<1>1. ASSUME NEW p \in Packet, RefuseFile(p) \/ SupplierSendFile(p)
      PROVE  IInv'
  BY <1>1, RefuseFileInv, SupplierSendFileInv
<1>2. CASE SendingTask
  BY <1>2, SendingTaskInv
<1>3. CASE RunSend
  BY <1>3, ScanBeyondEndInv, ScanItemInv, FailItemInv, EndPassInv DEF RunSend
<1>4. ASSUME NEW p \in Packet,
             DataSent(p) \/ SendingFailed(p) \/ Answered(p) \/ PacketTimedOut(p)
               \/ SendTimeout(p)
      PROVE  IInv'
  BY <1>4, OutcomeInv, LeavingInv
<1>5. CASE DeleteBackupSendings \/ DeleteSuppliers \/ Delete
  BY <1>5, DeleteInv
<1>6. CASE LaterDoSend
  BY <1>6, LaterDoSendInv
<1>7. CASE UNCHANGED vars
  <2> USE <1>7 DEF vars, queueVars, taskVars, deleteVars
  <2>1. TypeOK'
    BY DEF IInv, TypeOK
  <2>2. QueueInv' /\ TaskInv'
    BY QueueInvStutter, TaskInvStutter DEF IInv
  <2> QED
    BY <2>1, <2>2 DEF IInv
<1> QED
  BY <1>1, <1>2, <1>3, <1>4, <1>5, <1>6, <1>7 DEF Next

-----------------------------------------------------------------------------
(* The theorems. *)

\* IInv holds of every state the queue of a supplier can reach.
THEOREM Invariance == Spec => []IInv
<1>1. Init => IInv
  BY InitInv
<1>2. IInv /\ [Next]_vars => IInv'
  BY NextInv
<1> QED
  BY <1>1, <1>2, PTL DEF Spec

\* Every variable keeps its type: the attenuated delay stays within its
\* bounds and no count of scheduled calls becomes negative.
THEOREM TypeCorrect == Spec => []TypeOK
<1>1. IInv => TypeOK
  BY DEF IInv
<1> QED
  BY <1>1, Invariance, PTL

\* fileSendQueue and fileSendDict always hold the same files, each once.
THEOREM QueueConsistent == Spec => []QueueMatchesDict
<1>1. IInv => QueueMatchesDict
  BY DEF IInv, QueueInv
<1> QED
  BY <1>1, Invariance, PTL

\* Only files among the first fileSendMaxLength of the queue are on their way.
THEOREM WindowRespected == Spec => []ActiveSendsInWindow
<1>1. IInv => ActiveSendsInWindow
  BY DEF IInv, QueueInv
<1> QED
  BY <1>1, Invariance, PTL

\* Each call of QueueSendFile has had one callback, or has its file queued.
THEOREM CallbacksMatchCalls == Spec => []OneCallbackPerCall
<1>1. IInv => OneCallbackPerCall
  BY DEF IInv, QueueInv
<1> QED
  BY <1>1, Invariance, PTL

\* The transport carries Data packets only for files that wait for them.
THEOREM PacketsHaveOwners == Spec => []OutboxHasOwner
<1>1. IInv => OutboxHasOwner
  BY DEF IInv, QueueInv
<1> QED
  BY <1>1, Invariance, PTL

\* A queue that holds files has a pass running or a SendingTask scheduled.
THEOREM LoopStaysAlive == Spec => []LoopAlive
<1>1. IInv => LoopAlive
  BY DEF IInv, TaskInv
<1> QED
  BY <1>1, Invariance, PTL

\* RunSend finds every packet it has collected still in the dictionary, and DoSend
\* never cancels a call that was already made.
THEOREM LoopNeverRaises == Spec => []NothingRaises
<1>1. IInv => FailedStillQueued
  BY DEF IInv, QueueInv, TaskInv, FailedBehind, FailedStillQueued, QueueMatchesDict, TypeOK
<1>2. IInv => CancelIsSafe
  BY DEF IInv, TaskInv
<1>3. IInv => NothingRaises
  BY <1>1, <1>2 DEF NothingRaises
<1> QED
  BY <1>3, Invariance, PTL

\* The list, the dictionary, the transport and the callbacks agree on every file
\* that QueueSendFile was called for.
THEOREM FilesAreAccounted == Spec => []FilesAccounted
<1>1. QueueMatchesDict /\ OneCallbackPerCall /\ OutboxHasOwner => FilesAccounted
  BY DEF FilesAccounted
<1> QED
  BY <1>1, QueueConsistent, CallbacksMatchCalls, PacketsHaveOwners, PTL

\* The loop keeps to its window, never ends while there are files, never raises.
THEOREM LoopIsSound == Spec => []LoopSound
<1>1. ActiveSendsInWindow /\ LoopAlive /\ NothingRaises => LoopSound
  BY DEF LoopSound
<1> QED
  BY <1>1, WindowRespected, LoopStaysAlive, LoopNeverRaises, PTL

-----------------------------------------------------------------------------
(* The queue implements the safety part of TransferPromise.                *)

Open == {p \in Packet : Queued(p)}

\* A file that leaves the queue settles its transfer.
LEMMA LeaveSettles ==
  ASSUME TypeOK, NEW p \in Packet, Queued(p), Leave(p), UNCHANGED calls
  PROVE  Promise!Next
<1>1. \A r \in Packet : Queued(r)' <=> (r # p /\ Queued(r))
  BY DEF Leave, TypeOK, Queued
<1>2. Open' = Open \ {p} /\ p \in Open
  BY <1>1 DEF Open
<1>3. Promise!Settle(p)
  BY <1>2 DEF Promise!Settle, Promise!Report, Leave, Open
<1> QED
  BY <1>3 DEF Promise!Next

\* A step that changes no file between queued and not queued is a stutter.
LEMMA SameOpenStutters ==
  ASSUME \A r \in Packet : Queued(r)' <=> Queued(r), UNCHANGED <<calls, reports>>
  PROVE  UNCHANGED Promise!vars
<1>1. Open' = Open
  BY DEF Open
<1> QED
  BY <1>1 DEF Open, Promise!vars

LEMMA PromiseStep == IInv /\ [Next]_vars => [Promise!Next]_(Promise!vars)
<1> SUFFICES ASSUME IInv, [Next]_vars PROVE [Promise!Next]_(Promise!vars)
  OBVIOUS
<1>1. TypeOK /\ QueueInv /\ TaskInv
  BY DEF IInv
<1>2. ASSUME NEW p \in Packet, RefuseFile(p) PROVE Promise!Next
  <2>1. Open' = Open
    BY <1>2 DEF RefuseFile, queueVars, Open, Queued
  <2>2. Promise!Refuse(p)
    BY <1>2, <2>1 DEF RefuseFile, Call, Open, Promise!Refuse, Promise!Call, Promise!Report
  <2> QED
    BY <2>2 DEF Promise!Next
<1>3. ASSUME NEW p \in Packet, SupplierSendFile(p) PROVE Promise!Next
  <2>1. \A r \in Packet : Queued(r)' <=> (r = p \/ Queued(r))
    BY <1>1, <1>3 DEF SupplierSendFile, TypeOK, Queued
  <2>2. Open' = Open \cup {p} /\ p \notin Open
    BY <2>1, <1>3 DEF Open, SupplierSendFile
  <2>3. Promise!Accept(p)
    BY <1>3, <2>2 DEF SupplierSendFile, Call, Open, Promise!Accept, Promise!Call
  <2> QED
    BY <2>3 DEF Promise!Next
<1>4. CASE SendingTask \/ ScanBeyondEnd \/ EndPass \/ DeleteBackupSendings
             \/ DeleteSuppliers \/ EndDelete \/ LaterDoSend \/ UNCHANGED vars
  <2>1. UNCHANGED <<fileUp, calls, reports>>
    BY <1>4 DEF SendingTask, ScanBeyondEnd, EndPass, DeleteBackupSendings,
                DeleteSuppliers, BeginDelete, EndDelete, LaterDoSend, vars, queueVars
  <2> QED
    BY <2>1, SameOpenStutters DEF Queued
<1>5. CASE ScanItem
  <2> DEFINE p == fileSendQueue[pass.next]
  <2>1. p \in Packet
    BY <1>1, <1>5 DEF ScanItem, Scanning, TypeOK
  <2>2. CASE ScanStarted(p) \/ ScanMissingFile(p)
    BY <2>2, SameOpenStutters DEF ScanStarted, ScanMissingFile, queueVars, Queued
  <2>3. CASE StartUploading(p)
    <3>1. \A r \in Packet : Queued(r)' <=> Queued(r)
      BY <1>1, <2>1, <2>3 DEF StartUploading, TypeOK, Queued
    <3> QED
      BY <2>3, <3>1, SameOpenStutters DEF StartUploading
  <2>4. CASE StartFails(p)
    BY <1>1, <2>1, <2>4, LeaveSettles DEF StartFails, Queued
  <2> QED
    BY <1>5, <2>2, <2>3, <2>4 DEF ScanItem
<1>6. ASSUME NEW p \in Packet, FailItem(p) PROVE Promise!Next
  <2>1. Queued(p)
    BY <1>1, <1>6 DEF FailItem, TaskInv, FailedBehind, QueueInv, QueueMatchesDict
  <2> QED
    BY <1>1, <1>6, <2>1, LeaveSettles DEF FailItem
<1>7. ASSUME NEW p \in Packet, SendingFailed(p) \/ Answered(p) PROVE Promise!Next
  BY <1>1, <1>7, LeaveSettles DEF SendingFailed, Answered, Started, Queued
<1>8. ASSUME NEW p \in Packet, DataSent(p) \/ PacketTimedOut(p) \/ SendTimeout(p)
      PROVE  UNCHANGED Promise!vars
  <2>1. \A r \in Packet : Queued(r)' <=> Queued(r)
    BY <1>1, <1>8 DEF DataSent, PacketTimedOut, SendTimeout, TypeOK, Queued
  <2> QED
    BY <1>8, <2>1, SameOpenStutters DEF DataSent, PacketTimedOut, SendTimeout
<1>9. ASSUME NEW p \in Packet, StopNext(p)
      PROVE  [Promise!Next]_(Promise!vars)
  <2>1. CASE Queued(p)
    BY <1>1, <1>9, <2>1, LeaveSettles DEF StopNext
  <2>2. CASE ~Queued(p)
    BY <1>9, <2>2, SameOpenStutters DEF StopNext, queueVars, Queued
  <2> QED
    BY <2>1, <2>2
<1> QED
  BY <1>2, <1>3, <1>4, <1>5, <1>6, <1>7, <1>8, <1>9 DEF Next, RunSend, Delete

\* Towards its callers the upload queue behaves as TransferPromise: a call is
\* refused with a callback or opens a transfer, and nothing but the one
\* callback of an open transfer ends it.
THEOREM ImplementsPromise == Spec => Promise!Spec
<1>1. Init => Promise!Init
  <2>1. Init => Open = {}
    BY DEF Init, Open, Queued
  <2> QED
    BY <2>1 DEF Init, Open, Promise!Init
<1>2. IInv /\ [Next]_vars => [Promise!Next]_(Promise!vars)
  BY PromiseStep
<1> QED
  BY <1>1, <1>2, Invariance, PTL DEF Spec, Promise!Spec

=============================================================================
