----------------------------- MODULE SupplierQueue -----------------------------
(***************************************************************************)
(* The sending half of one io_throttle.SupplierQueue: the queue of files   *)
(* to be uploaded to one supplier, the file_up() machine of every queued   *)
(* file and the self-rescheduling SendingTask that drives them.            *)
(*                                                                         *)
(* The reactor is single-threaded, so a handler runs to its end before the *)
(* next one starts.  Two pieces of code loop over the queue and call back  *)
(* into it from inside the loop: RunSend, and the loop of                  *)
(* DeleteBackupSendings.  Each iteration of those loops is a step of its   *)
(* own here, and nothing but their own next iteration may happen while     *)
(* they run (see Idle).                                                    *)
(*                                                                         *)
(* Data packets are seen through the callbacks packet_out delivers: at     *)
(* most one packet_out per packetID is alive (gateway.on_outbox_packet     *)
(* merges duplicates).                                                     *)
(***************************************************************************)
EXTENDS Naturals, Sequences, FiniteSets

CONSTANTS
  Packet,      \* the packetIDs that may be sent to this supplier
  Backups,     \* sets of packetIDs: what DeleteBackupSendings(name) matches
  MaxLength,   \* fileSendMaxLength, the size of the window of active sends
  SlowAfter,   \* idle passes until sendTaskDelay exceeds 1.0 seconds
  MaxCalls,    \* bound: QueueSendFile calls per packetID
  MaxDeletes   \* bound: DeleteBackupSendings and DeleteSuppliers calls

ASSUME PacketAssumption    == IsFiniteSet(Packet)
ASSUME BackupsAssumption   == Backups \subseteq SUBSET Packet
ASSUME MaxLengthAssumption == MaxLength \in Nat \ {0}
ASSUME SlowAfterAssumption == SlowAfter \in Nat \ {0}
ASSUME BoundsAssumption    == MaxCalls \in [Packet -> Nat] /\ MaxDeletes \in Nat

VARIABLES
  fileSendQueue,   \* packetIDs, first in first out
  fileUp,          \* the state of fileSendDict[p]; "absent" when p is no key
  late,            \* started packets that are older than their sendTimeout
  outbox,          \* the packet_out carrying p: "none", "sending", "response"
  pass,            \* the RunSend in progress: running is the flag _runSend
  sendTask,        \* "none", "pending" (scheduled) or "fired" (being run)
  tasks,           \* SendingTask calls scheduled in the reactor
  idlePasses,      \* attenuation of sendTaskDelay, up to SlowAfter
  deleting,        \* the DeleteBackupSendings in progress, on whose behalf
  toStop,          \* packetsToRemove: packets it has still to stop
  doSends,         \* DoSend calls scheduled with callLater(0)
  calls,           \* history: QueueSendFile calls made for p
  reports,         \* history: callOnAck / callOnFail scheduled for p
  deletes          \* history: deletions so far

queueVars  == <<fileSendQueue, fileUp, late, outbox>>
taskVars   == <<sendTask, tasks, idlePasses>>
deleteVars == <<deleting, toStop, doSends, deletes>>
vars == <<queueVars, pass, taskVars, deleteVars, calls, reports>>

-----------------------------------------------------------------------------
FileUpState == {"IN_QUEUE", "UPLOADING", "ACK?"}
Started(p)  == fileUp[p] \in {"UPLOADING", "ACK?"}
Queued(p)   == fileUp[p] # "absent"

NoPass == [running |-> FALSE, next |-> 1, limit |-> 0, sent |-> FALSE,
           failed |-> {}]

Slow == idlePasses = SlowAfter

\* The reactor may call a handler: no loop of this queue is in progress.
Idle == ~pass.running /\ deleting = "no"

\* list.remove(p): the first occurrence of p leaves, the rest keeps its order.
Position(q, p) == CHOOSE k \in DOMAIN q : q[k] = p
Without(q, p) ==
  [i \in 1 .. Len(q) - 1 |-> IF i < Position(q, p) THEN q[i] ELSE q[i + 1]]

\* The part of the queue RunSend looks at, fixed when the pass begins.
WindowSize(q) == IF Len(q) < MaxLength THEN Len(q) ELSE MaxLength

-----------------------------------------------------------------------------
MutUncappedAttenuation(delay, goFaster) == IF goFaster THEN 0 ELSE delay + 1

\* misc.LoopAttenuation: fast again after work was seen, otherwise the delay
\* doubles up to its maximum.
LoopAttenuation(delay, goFaster) ==
  IF goFaster THEN 0 ELSE IF delay = SlowAfter THEN delay ELSE delay + 1

(* Fragments of handlers. *)

\* RunSend sets _runSend and computes the range it will walk.
BeginPass == pass' = [NoPass EXCEPT !.running = TRUE,
                                    !.limit = WindowSize(fileSendQueue')]

MutCancelOnly ==
  IF sendTask = "none" THEN BeginPass /\ UNCHANGED taskVars
  ELSE IF Slow THEN sendTask' = "none" /\ tasks' = tasks - 1
                    /\ UNCHANGED <<idlePasses, pass>>
       ELSE UNCHANGED <<taskVars, pass>>

\* DoSend, called when no pass is running.  With no sendTask it calls
\* SendingTask; a slow one is cancelled and replaced by a callLater(0) that
\* sendTask does not refer to.
DoSend ==
  \/ /\ sendTask = "none"
     /\ BeginPass
     /\ UNCHANGED taskVars
  \/ /\ sendTask # "none" /\ ~Slow
     /\ UNCHANGED <<taskVars, pass>>
  \/ /\ sendTask # "none" /\ Slow
     /\ sendTask' = "none"
     /\ UNCHANGED <<tasks, idlePasses, pass>>

\* A terminal transition of file_up(): doCancelPackets, doQueueRemove and one
\* of the doReport methods, which schedules exactly one callback.  doQueueNext
\* follows: DoSend, which inside a pass changes nothing (_runSend is set, and
\* with no sendTask yet the nested SendingTask ends in an exception, None > 0,
\* that Automat.event catches).
Leave(p) ==
  /\ fileSendQueue' = Without(fileSendQueue, p)
  /\ fileUp' = [fileUp EXCEPT ![p] = "absent"]
  /\ late' = late \ {p}
  /\ outbox' = [outbox EXCEPT ![p] = "none"]
  /\ reports' = [reports EXCEPT ![p] = @ + 1]

-----------------------------------------------------------------------------
Init ==
  /\ fileSendQueue = << >>
  /\ fileUp = [p \in Packet |-> "absent"]
  /\ late = {}
  /\ outbox = [p \in Packet |-> "none"]
  /\ pass = NoPass
  /\ sendTask = "none" /\ tasks = 0 /\ idlePasses = 0
  /\ deleting = "no" /\ toStop = {} /\ doSends = 0 /\ deletes = 0
  /\ calls = [p \in Packet |-> 0]
  /\ reports = [p \in Packet |-> 0]

(* QueueSendFile and SupplierSendFile *)

Call(p) ==
  /\ Idle /\ calls[p] < MaxCalls[p]
  /\ calls' = [calls EXCEPT ![p] = @ + 1]

\* The file is missing, the supplier is offline or the packet is queued
\* already: callOnFail is scheduled and nothing else happens.
RefuseFile(p) ==
  /\ Call(p)
  /\ reports' = [reports EXCEPT ![p] = @ + 1]
  /\ UNCHANGED <<queueVars, pass, taskVars, deleteVars>>

SupplierSendFile(p) ==
  /\ Call(p) /\ ~Queued(p)
  /\ fileSendQueue' = Append(fileSendQueue, p)
  /\ fileUp' = [fileUp EXCEPT ![p] = "IN_QUEUE"]
  /\ DoSend
  /\ UNCHANGED <<late, outbox, deleteVars, reports>>

(* RunSend, one step per iteration, called by SendingTask *)

\* The reactor runs one of the scheduled SendingTask calls, which may be the
\* one sendTask refers to or an older one.
SendingTask ==
  /\ Idle /\ tasks > 0
  /\ tasks' = tasks - 1
  /\ \/ sendTask = "pending" /\ sendTask' = "fired"
     \/ (sendTask = "none" \/ tasks > 1) /\ UNCHANGED sendTask
  /\ UNCHANGED fileSendQueue
  /\ BeginPass
  /\ UNCHANGED <<fileUp, late, outbox, idlePasses, deleteVars, calls, reports>>

Scanning == pass.running /\ pass.next <= pass.limit
NextItem == [pass EXCEPT !.next = @ + 1]

\* The queue got shorter since the pass began: IndexError, continue.
ScanBeyondEnd ==
  /\ Scanning /\ pass.next > Len(fileSendQueue)
  /\ pass' = NextItem
  /\ UNCHANGED <<queueVars, taskVars, deleteVars, calls, reports>>

MutNoTimeout(p) ==
  /\ Started(p)
  /\ pass' = [NextItem EXCEPT !.sent = TRUE]
  /\ UNCHANGED <<queueVars, taskVars, deleteVars, calls, reports>>

ScanStarted(p) ==
  /\ Started(p)
  /\ pass' = [NextItem EXCEPT !.sent = TRUE,
                              !.failed = IF p \in late THEN @ \cup {p} ELSE @]
  /\ UNCHANGED <<queueVars, taskVars, deleteVars, calls, reports>>

ScanMissingFile(p) ==
  /\ fileUp[p] = "IN_QUEUE"
  /\ pass' = [NextItem EXCEPT !.failed = @ \cup {p}]
  /\ UNCHANGED <<queueVars, taskVars, deleteVars, calls, reports>>

\* file_up 'start': doSendData hands the packet to gateway.outbox.
StartUploading(p) ==
  /\ fileUp[p] = "IN_QUEUE"
  /\ fileUp' = [fileUp EXCEPT ![p] = "UPLOADING"]
  /\ outbox' = [outbox EXCEPT ![p] = "sending"]
  /\ pass' = NextItem
  /\ UNCHANGED <<fileSendQueue, late, taskVars, deleteVars, calls, reports>>

\* doSendData fails before it returns: the file cannot be read ('error'), or
\* packet_out finds no transport to use ('sending-failed').  The item leaves
\* the queue while RunSend is walking it.
StartFails(p) ==
  /\ fileUp[p] = "IN_QUEUE"
  /\ Leave(p)
  /\ pass' = NextItem
  /\ UNCHANGED <<taskVars, deleteVars, calls>>

ScanItem ==
  /\ Scanning /\ pass.next <= Len(fileSendQueue)
  /\ LET p == fileSendQueue[pass.next] IN
       \/ ScanStarted(p)
       \/ ScanMissingFile(p)
       \/ StartUploading(p)
       \/ StartFails(p)

\* 'timeout' for a started item, 'file-not-exist' for a queued one.
FailItem(p) ==
  /\ pass.running /\ ~Scanning /\ p \in pass.failed
  /\ Leave(p)
  /\ pass' = [pass EXCEPT !.failed = @ \ {p}]
  /\ UNCHANGED <<taskVars, deleteVars, calls>>

\* RunSend returns to SendingTask: attenuate the delay and schedule again.
EndPass ==
  /\ pass.running /\ ~Scanning /\ pass.failed = {}
  /\ pass' = NoPass
  /\ idlePasses' = LoopAttenuation(idlePasses, pass.sent)
  /\ sendTask' = "pending" /\ tasks' = tasks + 1
  /\ UNCHANGED <<queueVars, deleteVars, calls, reports>>

(* The outcomes packet_out reports *)

\* OnFileSendingFinished 'finished': data-sent, packet_out waits for the Ack.
DataSent(p) ==
  /\ Idle /\ outbox[p] = "sending" /\ fileUp[p] = "UPLOADING"
  /\ fileUp' = [fileUp EXCEPT ![p] = "ACK?"]
  /\ outbox' = [outbox EXCEPT ![p] = "response"]
  /\ UNCHANGED <<fileSendQueue, late, pass, taskVars, deleteVars, calls, reports>>

\* OnFileSendingFinished or OutboxStatus 'failed': sending-failed.
SendingFailed(p) ==
  /\ Idle /\ outbox[p] # "none" /\ Started(p)
  /\ Leave(p) /\ DoSend
  /\ UNCHANGED <<deleteVars, calls>>

\* OnFileSendAckReceived with Ack or Fail, or OutboxStatus 'unanswered'.
Answered(p) ==
  /\ Idle /\ outbox[p] = "response" /\ Started(p)
  /\ Leave(p) /\ DoSend
  /\ UNCHANGED <<deleteVars, calls>>

\* gateway.packets_timeout_loop cancels the packet_out with reason 'timeout':
\* doReportCancelled then runs no queue_item_status callback.
PacketTimedOut(p) ==
  /\ Idle /\ outbox[p] = "sending"
  /\ outbox' = [outbox EXCEPT ![p] = "none"]
  /\ UNCHANGED <<fileSendQueue, fileUp, late, pass, taskVars, deleteVars,
                 calls, reports>>

\* The clock passes sendTime + sendTimeout, whatever the reactor is doing.
SendTimeout(p) ==
  /\ Started(p) /\ p \notin late
  /\ late' = late \cup {p}
  /\ UNCHANGED <<fileSendQueue, fileUp, outbox, pass, taskVars, deleteVars,
                 calls, reports>>

(* DeleteBackupSendings and DeleteSuppliers *)

BeginDelete(for, doomed) ==
  /\ Idle /\ deletes < MaxDeletes
  /\ deletes' = deletes + 1
  /\ deleting' = for
  /\ toStop' = {p \in doomed : Queued(p)}
  /\ UNCHANGED <<queueVars, pass, taskVars, doSends, calls, reports>>

DeleteBackupSendings == \E b \in Backups : BeginDelete("backup", b)
DeleteSuppliers      == BeginDelete("supplier", Packet)

MutStopWithoutReport(p) ==
  /\ deleting # "no" /\ ~pass.running /\ p \in toStop
  /\ toStop' = toStop \ {p}
  /\ fileSendQueue' = Without(fileSendQueue, p)
  /\ fileUp' = [fileUp EXCEPT ![p] = "absent"]
  /\ late' = late \ {p}
  /\ outbox' = [outbox EXCEPT ![p] = "none"]
  /\ DoSend
  /\ UNCHANGED <<deleting, doSends, deletes, calls, reports>>

\* One iteration: file_up 'stop', unless a nested pass removed it already.
StopNext(p) ==
  /\ deleting # "no" /\ ~pass.running /\ p \in toStop
  /\ toStop' = toStop \ {p}
  /\ IF Queued(p) THEN Leave(p) /\ DoSend
                  ELSE UNCHANGED <<queueVars, pass, taskVars, reports>>
  /\ UNCHANGED <<deleting, doSends, deletes, calls>>

\* The loop is over.  DeleteSuppliers then drops the emptied queue object, and
\* the next QueueSendFile makes a new one.
EndDelete ==
  /\ deleting # "no" /\ ~pass.running /\ toStop = {}
  /\ deleting' = "no"
  /\ IF deleting = "supplier"
     THEN sendTask' = "none" /\ tasks' = 0 /\ idlePasses' = 0 /\ doSends' = 0
     ELSE /\ doSends' = IF fileSendQueue # << >> THEN doSends + 1 ELSE doSends
          /\ UNCHANGED taskVars
  /\ UNCHANGED <<queueVars, pass, toStop, deletes, calls, reports>>

LaterDoSend ==
  /\ Idle /\ doSends > 0
  /\ doSends' = doSends - 1
  /\ UNCHANGED queueVars
  /\ DoSend
  /\ UNCHANGED <<deleting, toStop, deletes, calls, reports>>

-----------------------------------------------------------------------------
RunSend == ScanBeyondEnd \/ ScanItem \/ (\E p \in Packet : FailItem(p)) \/ EndPass

Delete == (\E p \in Packet : StopNext(p)) \/ EndDelete

Next ==
  \/ \E p \in Packet : RefuseFile(p) \/ SupplierSendFile(p)
  \/ SendingTask \/ RunSend
  \/ \E p \in Packet : DataSent(p) \/ SendingFailed(p) \/ Answered(p)
                         \/ PacketTimedOut(p) \/ SendTimeout(p)
  \/ DeleteBackupSendings \/ DeleteSuppliers \/ Delete \/ LaterDoSend

\* The reactor runs what is scheduled and a handler that began goes on; time
\* passes.  Nothing is assumed of the network or of the callers.
Fairness ==
  /\ WF_vars(SendingTask) /\ WF_vars(RunSend)
  /\ WF_vars(Delete) /\ WF_vars(LaterDoSend)
  /\ \A p \in Packet : WF_vars(SendTimeout(p))

Spec     == Init /\ [][Next]_vars
FairSpec == Spec /\ Fairness

-----------------------------------------------------------------------------
TypeOK ==
  /\ fileSendQueue \in Seq(Packet)
  /\ fileUp \in [Packet -> FileUpState \cup {"absent"}]
  /\ late \subseteq Packet
  /\ outbox \in [Packet -> {"none", "sending", "response"}]
  /\ pass \in [running : BOOLEAN, next : Nat \ {0}, limit : Nat,
               sent : BOOLEAN, failed : SUBSET Packet]
  /\ sendTask \in {"none", "pending", "fired"}
  /\ tasks \in Nat /\ idlePasses \in 0 .. SlowAfter
  /\ deleting \in {"no", "backup", "supplier"}
  /\ toStop \subseteq Packet
  /\ doSends \in Nat /\ deletes \in Nat
  /\ calls \in [Packet -> Nat]
  /\ reports \in [Packet -> Nat]

-----------------------------------------------------------------------------
(* Safety *)

\* fileSendQueue holds every packetID once, and exactly the keys of
\* fileSendDict: RunSend indexes the dictionary with what it finds in the list.
QueueMatchesDict ==
  /\ \A i, j \in DOMAIN fileSendQueue :
       fileSendQueue[i] = fileSendQueue[j] => i = j
  /\ \A p \in Packet :
       Queued(p) <=> \E i \in DOMAIN fileSendQueue : fileSendQueue[i] = p

\* "of which the first maxLength are the active sends" (SupplierQueue.__init__):
\* whatever leaves the middle of the queue, nothing is on its way to the
\* supplier from beyond the window.
ActiveSendsInWindow ==
  \A i \in DOMAIN fileSendQueue : Started(fileSendQueue[i]) => i <= MaxLength

\* A caller of QueueSendFile gets one callback per call, callOnAck or
\* callOnFail: never two when a timeout, an answer and a deletion race, never
\* none once the file has left the queue.
OneCallbackPerCall ==
  \A p \in Packet : calls[p] = reports[p] + IF Queued(p) THEN 1 ELSE 0

\* A Data packet in the transport belongs to a file_up that waits for exactly
\* that step of it, so a file that is stopped, failed or queued again never has
\* an older copy of its packet on the way.
OutboxHasOwner ==
  \A p \in Packet :
    /\ outbox[p] = "sending"  => fileUp[p] = "UPLOADING"
    /\ outbox[p] = "response" => fileUp[p] = "ACK?"

\* Packets RunSend collected for failing are in the dictionary when it comes to
\* them.
FailedStillQueued == \A p \in pass.failed : Queued(p)

\* A queue with files in it always has a SendingTask scheduled or running.
LoopAlive == fileSendQueue # << >> => tasks > 0 \/ pass.running

\* When DoSend may cancel sendTask, the call is still scheduled.
CancelIsSafe == ~pass.running => (sendTask # "fired" /\ (sendTask = "pending" => tasks > 0))

\* Nothing raises out of the loop, whatever happens between its steps: neither a
\* KeyError of RunSend, which would leave _runSend set and stop the queue for
\* good, nor AlreadyCalled of a cancel, which would drop the call that caused it.
NothingRaises == FailedStillQueued /\ CancelIsSafe

\* Every file that was accepted is accounted for: in the list and the dictionary,
\* with the packet of it that is in the transport and the callback it owes.
FilesAccounted == QueueMatchesDict /\ OneCallbackPerCall /\ OutboxHasOwner

\* The loop of SendingTask goes on and keeps to its window, whoever changes the
\* queue between its steps.
LoopSound == ActiveSendsInWindow /\ LoopAlive /\ NothingRaises

(* Refinement *)

\* What a caller of the throttle relies on; every file that is accepted into the
\* queue leaves it, with the callback that goes with it, whatever the network
\* does.
Promise == INSTANCE TransferPromise WITH open <- {p \in Packet : Queued(p)}
PromiseKept == Promise!FairSpec

=============================================================================
