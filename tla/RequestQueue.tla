------------------------------ MODULE RequestQueue ------------------------------
(***************************************************************************)
(* The receiving half of one io_throttle.SupplierQueue: the queue of files *)
(* to be requested from one supplier, the file_down() machine of every     *)
(* queued file and the self-rescheduling RequestTask that drives them.     *)
(*                                                                         *)
(* RunRequest has no flag against re-entry.  A file it removes calls       *)
(* DoRequest, and DoRequest may call RequestTask again before the first    *)
(* call is over: passes is the stack of RequestTask calls in progress.     *)
(*                                                                         *)
(* Nothing removes a file while RunRequest walks the queue (a Retrieve     *)
(* packet that cannot be sent is reported to nobody), so its first loop is *)
(* one step.  Its second loop is one step per file.                        *)
(***************************************************************************)
EXTENDS Naturals, Sequences, FiniteSets

CONSTANTS
  Packet,      \* the packetIDs that may be requested from this supplier
  Backups,     \* sets of packetIDs: what DeleteBackupRequests(name) matches
  MaxLength,   \* fileRequestMaxLength, the size of the window of active requests
  SlowAfter,   \* idle passes until requestTaskDelay exceeds 1.0 seconds
  MaxCalls,    \* bound: QueueRequestFile calls per packetID
  MaxDeletes   \* bound: DeleteBackupRequests and DeleteSuppliers calls

ASSUME PacketAssumption    == IsFiniteSet(Packet)
ASSUME BackupsAssumption   == Backups \subseteq SUBSET Packet
ASSUME MaxLengthAssumption == MaxLength \in Nat \ {0}
ASSUME SlowAfterAssumption == SlowAfter \in Nat \ {0}
ASSUME BoundsAssumption    == MaxCalls \in [Packet -> Nat] /\ MaxDeletes \in Nat

VARIABLES
  fileRequestQueue,   \* packetIDs, first in first out
  fileDown,           \* the state of fileRequestDict[p]; "absent" when no key
  outbox,             \* the Retrieve packet_out for p: "none", "sending", "response"
  local,              \* packets whose file is in the local backups directory
  passes,             \* the RequestTask calls in progress, innermost last
  requestTask,        \* "none", "pending" (scheduled) or "fired" (being run)
  tasks,              \* RequestTask calls scheduled in the reactor
  idlePasses,         \* attenuation of requestTaskDelay, up to SlowAfter
  deleting,           \* the DeleteBackupRequests in progress, on whose behalf
  toStop,             \* packetsToRemove: packets it has still to stop
  doRequests,         \* DoRequest calls scheduled with callLater(0)
  calls,              \* history: QueueRequestFile calls made for p
  reports,            \* history: callOnReceived scheduled for p
  deletes             \* history: deletions so far

queueVars  == <<fileRequestQueue, fileDown, outbox>>
taskVars   == <<requestTask, tasks, idlePasses>>
deleteVars == <<deleting, toStop, doRequests, deletes>>
vars == <<queueVars, local, passes, taskVars, deleteVars, calls, reports>>

-----------------------------------------------------------------------------
FileDownState == {"IN_QUEUE", "STARTED", "REQUESTED"}
Started(p)  == fileDown[p] \in {"STARTED", "REQUESTED"}
Queued(p)   == fileDown[p] # "absent"

\* A call of RequestTask: todo are the files its second loop has yet to remove,
\* found says that the first one saw any.
NewPass == [phase |-> "scan", todo |-> {}, found |-> FALSE]

Top == passes[Len(passes)]
Outer == SubSeq(passes, 1, Len(passes) - 1)

Slow == idlePasses = SlowAfter

\* The reactor may call a handler: no loop of this queue is in progress.
Idle == passes = << >> /\ deleting = "no"

\* list.remove(p): the first occurrence of p leaves, the rest keeps its order.
Position(q, p) == CHOOSE k \in DOMAIN q : q[k] = p
Without(q, p) ==
  [i \in 1 .. Len(q) - 1 |-> IF i < Position(q, p) THEN q[i] ELSE q[i + 1]]

\* The places of the queue RunRequest looks at.
Window == {i \in DOMAIN fileRequestQueue : i <= MaxLength}

MutUncapped(delay, goFaster) == IF goFaster THEN 0 ELSE delay + 1

\* misc.LoopAttenuation: fast again after work was seen, otherwise the delay
\* doubles up to its maximum.
LoopAttenuation(delay, goFaster) ==
  IF goFaster THEN 0 ELSE IF delay = SlowAfter THEN delay ELSE delay + 1

MutCancelOnly(outer) ==
  \/ requestTask = "none"
     /\ passes' = Append(outer, NewPass) /\ UNCHANGED taskVars
  \/ /\ requestTask # "none"
     /\ passes' = outer
     /\ IF Slow THEN requestTask' = "none" /\ tasks' = tasks - 1 /\ UNCHANGED idlePasses
                ELSE UNCHANGED taskVars

\* DoRequest, called by the passes in outer: with no requestTask it calls
\* RequestTask; a slow one is cancelled first.
DoRequest(outer) ==
  \/ /\ requestTask = "none"
     /\ passes' = Append(outer, NewPass)
     /\ UNCHANGED taskVars
  \/ /\ requestTask # "none" /\ ~Slow
     /\ passes' = outer
     /\ UNCHANGED taskVars
  \/ /\ requestTask # "none" /\ Slow
     /\ requestTask' = "none" /\ tasks' = tasks - 1
     /\ passes' = Append(outer, NewPass)
     /\ UNCHANGED idlePasses

MutKeepPackets(p) ==
  /\ fileRequestQueue' = Without(fileRequestQueue, p)
  /\ fileDown' = [fileDown EXCEPT ![p] = "absent"]
  /\ reports' = [reports EXCEPT ![p] = @ + 1]
  /\ UNCHANGED outbox

\* A terminal transition of file_down(): the packet is answered, failed or
\* cancelled, doQueueRemove, and one of the doReport methods, which schedules
\* exactly one callback.  The caller adds doQueueNext, which is DoRequest.
Leave(p) ==
  /\ fileRequestQueue' = Without(fileRequestQueue, p)
  /\ fileDown' = [fileDown EXCEPT ![p] = "absent"]
  /\ outbox' = [outbox EXCEPT ![p] = "none"]
  /\ reports' = [reports EXCEPT ![p] = @ + 1]

-----------------------------------------------------------------------------
Init ==
  /\ fileRequestQueue = << >>
  /\ fileDown = [p \in Packet |-> "absent"]
  /\ outbox = [p \in Packet |-> "none"]
  /\ local = {}
  /\ passes = << >>
  /\ requestTask = "none" /\ tasks = 0 /\ idlePasses = 0
  /\ deleting = "no" /\ toStop = {} /\ doRequests = 0 /\ deletes = 0
  /\ calls = [p \in Packet |-> 0]
  /\ reports = [p \in Packet |-> 0]

(* QueueRequestFile and SupplierRequestFile *)

Call(p) ==
  /\ Idle /\ calls[p] < MaxCalls[p]
  /\ calls' = [calls EXCEPT ![p] = @ + 1]

\* The file is on disk ('exist') or the packet is queued already ('in queue'):
\* the callback is scheduled and nothing else happens.
RefuseRequest(p) ==
  /\ Call(p) /\ (p \in local \/ Queued(p))
  /\ reports' = [reports EXCEPT ![p] = @ + 1]
  /\ UNCHANGED <<queueVars, local, passes, taskVars, deleteVars>>

SupplierRequestFile(p) ==
  /\ Call(p) /\ p \notin local /\ ~Queued(p)
  /\ fileRequestQueue' = Append(fileRequestQueue, p)
  /\ fileDown' = [fileDown EXCEPT ![p] = "IN_QUEUE"]
  /\ DoRequest(passes)
  /\ UNCHANGED <<outbox, local, deleteVars, reports>>

(* RequestTask and RunRequest *)

\* The reactor runs one of the scheduled RequestTask calls, which may be the
\* one requestTask refers to or an older one.
RequestTask ==
  /\ Idle /\ tasks > 0
  /\ tasks' = tasks - 1
  /\ \/ requestTask = "pending" /\ requestTask' = "fired"
     \/ (requestTask = "none" \/ tasks > 1) /\ UNCHANGED requestTask
  /\ passes' = << NewPass >>
  /\ UNCHANGED <<queueVars, local, idlePasses, deleteVars, calls, reports>>

\* The first loop: waiting is what the window holds IN_QUEUE.  Files that are on
\* disk by now are left for the second loop, the others start: doSendRetreive
\* hands a Retrieve packet to gateway.outbox, where those in unsent fail at once.
Scan ==
  /\ passes # << >> /\ Top.phase = "scan"
  /\ LET waiting == {fileRequestQueue[i] : i \in Window} \cap
                      {p \in Packet : fileDown[p] = "IN_QUEUE"}
         exist   == waiting \cap local
     IN \E unsent \in SUBSET (waiting \ exist) :
          /\ fileDown' = [p \in Packet |-> IF p \in waiting \ exist THEN "STARTED"
                                                                    ELSE fileDown[p]]
          /\ outbox' = [p \in Packet |-> IF p \in waiting \ (exist \cup unsent)
                                         THEN "sending" ELSE outbox[p]]
          /\ passes' = Append(Outer, [phase |-> "remove", todo |-> exist,
                                      found |-> exist # {}])
  /\ UNCHANGED <<fileRequestQueue, local, taskVars, deleteVars, calls, reports>>

\* One iteration of the second loop: file_down 'file-already-exists', which
\* only an IN_QUEUE file takes (a nested pass may have removed or started it).
RemoveFound(p) ==
  /\ passes # << >> /\ Top.phase = "remove" /\ p \in Top.todo
  /\ LET rest == Append(Outer, [Top EXCEPT !.todo = @ \ {p}]) IN
       IF fileDown[p] = "IN_QUEUE"
       THEN Leave(p) /\ DoRequest(rest)
       ELSE passes' = rest /\ UNCHANGED <<queueVars, taskVars, reports>>
  /\ UNCHANGED <<local, deleteVars, calls>>

\* "if result: self.DoRequest()"
LookAgain ==
  /\ passes # << >> /\ Top.phase = "remove" /\ Top.todo = {} /\ Top.found
  /\ DoRequest(Append(Outer, [Top EXCEPT !.phase = "done"]))
  /\ UNCHANGED <<queueVars, local, deleteVars, calls, reports>>

MutStopWhenIdle ==
  /\ passes # << >> /\ Top.todo = {} /\ Top.phase = IF Top.found THEN "done" ELSE "remove"
  /\ passes' = Outer
  /\ idlePasses' = LoopAttenuation(idlePasses, Top.found)
  /\ IF Top.found THEN requestTask' = "pending" /\ tasks' = tasks + 1
                  ELSE UNCHANGED <<requestTask, tasks>>
  /\ UNCHANGED <<queueVars, local, deleteVars, calls, reports>>

\* RunRequest returns to RequestTask: attenuate the delay and schedule again,
\* whatever a nested pass has scheduled.
EndTask ==
  /\ passes # << >> /\ Top.todo = {} /\ Top.phase = IF Top.found THEN "done" ELSE "remove"
  /\ passes' = Outer
  /\ idlePasses' = LoopAttenuation(idlePasses, Top.found)
  /\ requestTask' = "pending" /\ tasks' = tasks + 1
  /\ UNCHANGED <<queueVars, local, deleteVars, calls, reports>>

(* What becomes of the Retrieve packets *)

\* OnFileSendingFinished 'finished': retrieve-sent, packet_out waits for Data.
RetrieveSent(p) ==
  /\ Idle /\ outbox[p] = "sending" /\ fileDown[p] = "STARTED"
  /\ fileDown' = [fileDown EXCEPT ![p] = "REQUESTED"]
  /\ outbox' = [outbox EXCEPT ![p] = "response"]
  /\ UNCHANGED <<fileRequestQueue, local, passes, taskVars, deleteVars, calls,
                 reports>>

\* OnFileSendingFinished 'failed': request-failed.
RequestFailed(p) ==
  /\ Idle /\ outbox[p] = "sending" /\ fileDown[p] = "STARTED"
  /\ Leave(p) /\ DoRequest(passes)
  /\ UNCHANGED <<local, deleteVars, calls>>

\* OnDataReceived: valid Data, Data that is not valid, or Fail.
DataReceived(p) ==
  /\ Idle /\ outbox[p] = "response" /\ fileDown[p] = "REQUESTED"
  /\ Leave(p) /\ DoRequest(passes)
  /\ UNCHANGED <<local, deleteVars, calls>>

\* packet_out ends with a failure of its own, or is cancelled by
\* gateway.packets_timeout_loop: OutboxStatus has no branch for Retrieve.
RetrieveLost(p) ==
  /\ Idle /\ outbox[p] # "none"
  /\ outbox' = [outbox EXCEPT ![p] = "none"]
  /\ UNCHANGED <<fileRequestQueue, fileDown, local, passes, taskVars, deleteVars,
                 calls, reports>>

(* The local backups directory *)

\* Other code writes the file meanwhile; blocks are rebuilt in processes of
\* their own, so that may happen while a handler runs.
FileAppears(p) ==
  /\ p \notin local
  /\ local' = local \cup {p}
  /\ UNCHANGED <<queueVars, passes, taskVars, deleteVars, calls, reports>>

FileRemoved(p) ==
  /\ Idle /\ p \in local
  /\ local' = local \ {p}
  /\ UNCHANGED <<queueVars, passes, taskVars, deleteVars, calls, reports>>

(* DeleteBackupRequests and DeleteSuppliers *)

BeginDelete(for, doomed) ==
  /\ Idle /\ deletes < MaxDeletes
  /\ deletes' = deletes + 1
  /\ deleting' = for
  /\ toStop' = {p \in doomed : Queued(p)}
  /\ UNCHANGED <<queueVars, local, passes, taskVars, doRequests, calls, reports>>

DeleteBackupRequests == \E b \in Backups : BeginDelete("backup", b)
DeleteSuppliers      == BeginDelete("supplier", Packet)

MutStopWithoutReport(p) ==
  /\ deleting # "no" /\ passes = << >> /\ p \in toStop
  /\ toStop' = toStop \ {p}
  /\ fileRequestQueue' = Without(fileRequestQueue, p)
  /\ fileDown' = [fileDown EXCEPT ![p] = "absent"]
  /\ outbox' = [outbox EXCEPT ![p] = "none"]
  /\ DoRequest(passes)
  /\ UNCHANGED <<local, deleting, doRequests, deletes, calls, reports>>

\* One iteration: file_down 'stop', unless a nested pass removed it already.
StopNext(p) ==
  /\ deleting # "no" /\ passes = << >> /\ p \in toStop
  /\ toStop' = toStop \ {p}
  /\ IF Queued(p) THEN Leave(p) /\ DoRequest(passes)
                  ELSE UNCHANGED <<queueVars, passes, taskVars, reports>>
  /\ UNCHANGED <<local, deleting, doRequests, deletes, calls>>

\* The loop is over.  DeleteSuppliers then drops the emptied queue object, and
\* the next QueueRequestFile makes a new one.
EndDelete ==
  /\ deleting # "no" /\ passes = << >> /\ toStop = {}
  /\ deleting' = "no"
  /\ IF deleting = "supplier"
     THEN requestTask' = "none" /\ tasks' = 0 /\ idlePasses' = 0 /\ doRequests' = 0
     ELSE /\ doRequests' = IF fileRequestQueue # << >> THEN doRequests + 1
                                                       ELSE doRequests
          /\ UNCHANGED taskVars
  /\ UNCHANGED <<queueVars, local, passes, toStop, deletes, calls, reports>>

LaterDoRequest ==
  /\ Idle /\ doRequests > 0
  /\ doRequests' = doRequests - 1
  /\ DoRequest(passes)
  /\ UNCHANGED <<queueVars, local, deleting, toStop, deletes, calls, reports>>

-----------------------------------------------------------------------------
RunRequest == Scan \/ (\E p \in Packet : RemoveFound(p)) \/ LookAgain \/ EndTask

Delete == (\E p \in Packet : StopNext(p)) \/ EndDelete

Next ==
  \/ \E p \in Packet : RefuseRequest(p) \/ SupplierRequestFile(p)
  \/ RequestTask \/ RunRequest
  \/ \E p \in Packet : RetrieveSent(p) \/ RequestFailed(p) \/ DataReceived(p)
                         \/ RetrieveLost(p) \/ FileAppears(p) \/ FileRemoved(p)
  \/ DeleteBackupRequests \/ DeleteSuppliers \/ Delete \/ LaterDoRequest

\* The reactor runs what is scheduled and a handler that began goes on.
\* Nothing is assumed of the network or of the callers.
Fairness ==
  /\ WF_vars(RequestTask) /\ WF_vars(RunRequest)
  /\ WF_vars(Delete) /\ WF_vars(LaterDoRequest)

Spec     == Init /\ [][Next]_vars
FairSpec == Spec /\ Fairness

-----------------------------------------------------------------------------
PassType == [phase : {"scan", "remove", "done"}, todo : SUBSET Packet, found : BOOLEAN]

TypeOK ==
  /\ fileRequestQueue \in Seq(Packet)
  /\ fileDown \in [Packet -> FileDownState \cup {"absent"}]
  /\ outbox \in [Packet -> {"none", "sending", "response"}]
  /\ local \subseteq Packet
  /\ passes \in Seq(PassType)
  /\ requestTask \in {"none", "pending", "fired"}
  /\ tasks \in Nat /\ idlePasses \in 0 .. SlowAfter
  /\ deleting \in {"no", "backup", "supplier"}
  /\ toStop \subseteq Packet
  /\ doRequests \in Nat /\ deletes \in Nat
  /\ calls \in [Packet -> Nat]
  /\ reports \in [Packet -> Nat]

-----------------------------------------------------------------------------
(* Safety *)

\* fileRequestQueue holds every packetID once, and exactly the keys of
\* fileRequestDict: RunRequest calls a file missing from it "must never happen".
QueueMatchesDict ==
  /\ \A i, j \in DOMAIN fileRequestQueue :
       fileRequestQueue[i] = fileRequestQueue[j] => i = j
  /\ \A p \in Packet :
       Queued(p) <=> \E i \in DOMAIN fileRequestQueue : fileRequestQueue[i] = p

\* "only several will be active" (SupplierQueue.__init__): whatever leaves the
\* middle of the queue, nothing beyond the window was asked for.
ActiveRequestsInWindow ==
  \A i \in DOMAIN fileRequestQueue : Started(fileRequestQueue[i]) => i <= MaxLength

\* A Retrieve packet in the transport belongs to a file_down that waits for
\* exactly that step of it.
RetrieveHasOwner ==
  \A p \in Packet :
    /\ outbox[p] = "sending"  => fileDown[p] = "STARTED"
    /\ outbox[p] = "response" => fileDown[p] = "REQUESTED"

\* DoRequest cancels requestTask while it is slow.  Called by anyone but
\* RunRequest it finds a call that is still scheduled; called by RunRequest,
\* which does so when it found files on disk, it may find the very call that is
\* being run, but never a slow one: cancelling that would raise AlreadyCalled
\* out of RequestTask, and the queue would never be looked at again.
CancelIsSafe ==
  /\ passes = << >> => (requestTask # "fired" /\ (requestTask = "pending" => tasks > 0))
  /\ passes # << >> /\ Top.phase = "remove" /\ Top.found /\ Slow =>
       (requestTask # "fired" /\ (requestTask = "pending" => tasks > 0))

\* Every file that was asked for is accounted for: in the list and the dictionary,
\* with the packet of it that is in the transport.
FilesAccounted == QueueMatchesDict /\ RetrieveHasOwner

\* The loop of RequestTask keeps to its window and cancels only calls that can be
\* cancelled, whoever changes the queue between its steps.
LoopSound == ActiveRequestsInWindow /\ CancelIsSafe

(* Liveness *)

\* A file that has come into the window is asked for, or found on disk: the loop
\* of RequestTask does not end while there are files in the queue.
WindowGetsRequested ==
  \A p \in Packet :
    (\E i \in Window : fileRequestQueue[i] = p) /\ fileDown[p] = "IN_QUEUE"
      ~> fileDown[p] # "IN_QUEUE"

\* What a caller of the throttle relies on, as far as safety goes: one callback
\* per call at most, though nested passes both find a file on disk, or an answer
\* meets a deletion; and a call without one has its file in the queue.
Promise == INSTANCE TransferPromise WITH open <- {p \in Packet : Queued(p)}
PromiseKept == Promise!Spec

=============================================================================
