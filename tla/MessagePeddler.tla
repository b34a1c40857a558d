---------------------------- MODULE MessagePeddler ----------------------------
(***************************************************************************)
(* The streams of a message broker, stream/message_peddler.py, over the    *)
(* queues of p2p_queue: members of groups join and leave, push messages,   *)
(* are told of them, and change their identity; a group's queue gets a new *)
(* id when its brokers are rotated.                                        *)
(*                                                                         *)
(* A stream is active exactly as long as its queue is open, and a consumer *)
(* is active in it exactly as long as it is subscribed: start_stream,      *)
(* stop_stream, start_consumer and stop_consumer do both, and renaming     *)
(* moves both.  Everything here happens in one turn of the reactor, but    *)
(* that a notification which fails at once is cleaned up in the middle of  *)
(* a pass of do_consume: pass is not empty inside of one.                  *)
(***************************************************************************)
EXTENDS P2PQueue

CONSTANTS
  Group,         \* of each queue id: the group, its alias and owner
  Producer,      \* producer ids
  NewId,         \* the consumer id of each consumer once its identity rotates
  Unreachable,   \* consumers to which send_message may fail at once
  MaxChain,      \* bound: queue ids a Deferred reports to
  MaxChanges     \* bound: how often members join, leave or rotate

ASSUME GroupAssumption == DOMAIN Group = Queue
ASSUME NewIdAssumption == NewId \in [Consumer -> Consumer]
ASSUME ChainAssumption == MaxChain \in Nat \ {0} /\ MaxChanges \in Nat
ASSUME ReachAssumption == Unreachable \subseteq Consumer

VARIABLES
  ready,      \* message_peddler() is READY; "stopping" once it is told to stop
  readers,    \* streams()[q]['consumers'], active or not
  writers,    \* streams()[q]['producers'], all active
  messages,   \* streams()[q]['messages']: stored and not processed
  archive,    \* streams()[q]['archive']: stored and processed
  origin,     \* QueueMessage.queue_id
  written,    \* how many messages were stored
  changes     \* how many changes of membership there were

streamVars == <<readers, writers, messages, archive, origin, written>>
vars == <<queueVars, ready, streamVars, changes>>

Change == changes < MaxChanges /\ changes' = changes + 1

Idle == pass = {} /\ ready = "yes"

-----------------------------------------------------------------------------
\* on_message_processed for the messages P that do_cleanup pulled: one whose
\* file is found under the queue id it was written to, and that nobody failed
\* to get, goes from the list of messages to the archive.
Processed(q, P, n) ==
    {m \in P \cap messages[q] :
        origin[m] = q /\ \A c \in Consumer : n[m][c] # "bad"}

\* D are the streams that are closed at the end of the step.
OnMessageProcessed(P, n, D) ==
    /\ messages' = [q \in Queue |->
                        IF q \in D THEN {} ELSE messages[q] \ Processed(q, P, n)]
    /\ archive' = [q \in Queue |->
                        IF q \in D THEN {} ELSE archive[q] \cup Processed(q, P, n)]

\* the notifications have become n, and the queues X are cleaned up
CleanUp(n, X) ==
    /\ notes' = n
    /\ queues' = Cleaned(n, X)
    /\ OnMessageProcessed(PulledFrom(n, X), n, {})

MutFits(q) == Cardinality(queues[q]) <= MAX_QUEUE_LENGTH

Fits(q) == Cardinality(queues[q]) < MAX_QUEUE_LENGTH

\* do_push_message.  A queue at its limit refuses what is stored already.
Push(q) ==
    /\ Idle /\ q \in DOMAIN queues /\ writers[q] # {}
    /\ written < MaxMessages
    /\ LET m == written + 1
           to == {c \in Consumer : q \in subs[c]}
       IN  /\ written' = m
           /\ messages' = [messages EXCEPT ![q] = @ \cup {m}]
           /\ origin' = [origin EXCEPT ![m] = q]
           /\ queues' = IF Fits(q) THEN [queues EXCEPT ![q] = @ \cup {m}] ELSE queues
           /\ consumers' = IF Fits(q) THEN [consumers EXCEPT ![m] = to] ELSE consumers
    /\ UNCHANGED <<notes, chain, subs, commands, pass, ready, readers, writers,
                   archive, changes>>

\* process_queues, when do_consume finds something for somebody
Process ==
    /\ Idle
    /\ pass' = {c \in commands : HasUntold(queues, c)}
    /\ pass' # {}
    /\ UNCHANGED <<queues, consumers, notes, chain, subs, commands, ready,
                   streamVars, changes>>

\* do_notify: one message of one of the queues of c, in no order of the queues
Notify(c, q) ==
    /\ c \in pass /\ q \in subs[c] /\ Untold(queues[q], c) # {}
    /\ LET m == First(Untold(queues[q], c))
       IN  \/ /\ notes' = [notes EXCEPT ![m][c] = "pending"]
              /\ chain' = [chain EXCEPT ![m][c] = <<q>>]
              /\ UNCHANGED <<queues, messages, archive>>
           \/ /\ c \in Unreachable
              /\ CleanUp([notes EXCEPT ![m][c] = Finish(m, c, <<q>>, subs, TRUE)], {q})
              /\ UNCHANGED chain
    /\ pass' = {d \in pass \ {c} : HasUntold(queues', d)}
    /\ UNCHANGED <<consumers, subs, commands, ready, readers, writers, origin,
                   written, changes>>

\* The consumer acknowledged the message, or its ack timed out or failed:
\* do_notify calls the Deferred with True or with False, and
\* on_notification_succeed does not look at which.
Answer(m, c) ==
    /\ Idle /\ notes[m][c] = "pending"
    /\ CleanUp([notes EXCEPT ![m][c] = Finish(m, c, chain[m][c], subs, TRUE)],
               Ids(chain[m][c]))
    /\ chain' = [chain EXCEPT ![m][c] = <<>>]
    /\ UNCHANGED <<consumers, subs, commands, pass, ready, readers, writers,
                   origin, written, changes>>
-----------------------------------------------------------------------------
\* a new id exists only once its identity was rotated
Known(c) ==
    (\E d \in Consumer \ {c} : NewId[d] = c) => \E q \in Queue : c \in readers[q]

\* the open queues of the group of q that have another id
Former(q) == {x \in DOMAIN queues : Group[x] = Group[q] /\ x # q}

Held(old) == IF old \in DOMAIN queues THEN queues[old] ELSE {}

MutRechained(old, q) == chain

\* rename_queue: what is pending in queue old reports to the id q as well
Rechained(old, q) ==
    [m \in Message |-> [c \in Consumer |->
        IF old # q /\ m \in Held(old) /\ notes[m][c] = "pending"
        THEN Append(chain[m][c], q) ELSE chain[m][c]]]

\* rename_stream
Moved(f, old, q) == [f EXCEPT ![old] = {}, ![q] = f[old]]

\* _on_queue_keeper_connect_result: the consumers C and the producers P, one of
\* each at most, join the group of queue q, which is opened if it is not open
\* yet.  An open queue of the group that has another id is renamed first.
Join(q, C, P) ==
    /\ Idle /\ Change /\ \A c \in C : Known(c)
    /\ \E old \in IF Former(q) = {} THEN {q} ELSE Former(q) :
         /\ queues' = [x \in (DOMAIN queues \ {old}) \cup {q} |->
                          IF x = q THEN Held(old) ELSE queues[x]]
         /\ chain' = Rechained(old, q)
         /\ \A m \in Message, c \in Consumer : Len(chain'[m][c]) <= MaxChain
         /\ subs' = [c \in Consumer |->
                        (IF old \in subs[c] THEN (subs[c] \ {old}) \cup {q} ELSE subs[c])
                        \cup (IF c \in C THEN {q} ELSE {})]
         /\ readers' = [Moved(readers, old, q) EXCEPT ![q] = @ \cup C]
         /\ writers' = [Moved(writers, old, q) EXCEPT ![q] = @ \cup P]
         /\ messages' = Moved(messages, old, q)
         /\ archive' = Moved(archive, old, q)
    /\ commands' = commands \cup C
    /\ UNCHANGED <<consumers, notes, pass, ready, origin, written>>

\* stop_consumer and unsubscribe_consumer of the consumers C
Unsubscribed(q, C) ==
    [c \in Consumer |-> IF c \in C THEN subs[c] \ {q} ELSE subs[c]]

\* stop_stream: all its consumers are stopped, then its queue is closed; what
\* was pending is cancelled and cleaned up, the rest goes with the queue.  D is
\* {q} when close_stream follows.
StopStream(q, D) ==
    LET left == Unsubscribed(q, Consumer)
        n == Cancelled(q, left)
        X == CancelledIds(q)
    IN  /\ subs' = left
        /\ commands' = {c \in commands \ readers[q] : Exists(left, c)}
        /\ notes' = n
        /\ chain' = [m \in Message |-> [c \in Consumer |->
                        IF n[m][c] = "pending" THEN chain[m][c] ELSE <<>>]]
        /\ queues' = [x \in DOMAIN queues \ {q} |-> Cleaned(n, X)[x]]
        /\ OnMessageProcessed(PulledFrom(n, X), n, D)
        /\ readers' = [x \in Queue |-> IF x \in D THEN {} ELSE readers[x]]
        /\ writers' = [x \in Queue |-> IF x \in D THEN {} ELSE writers[x]]
    /\ UNCHANGED <<consumers, pass, origin, written>>

\* doLeaveQueueStopKeeper for the consumers C and the producers P, one of each
\* at most; when no members are left the stream is closed.  A producer that is
\* not registered ends it early.
Leave(q, C, P) ==
    /\ Idle /\ Change /\ q \in DOMAIN queues /\ C \cup P # {} /\ C \subseteq readers[q]
    /\ IF readers[q] \subseteq C /\ writers[q] = P
       THEN StopStream(q, {q})
       ELSE /\ subs' = Unsubscribed(q, C)
            /\ commands' = commands \ C
            /\ readers' = [readers EXCEPT ![q] = @ \ C]
            /\ writers' = [writers EXCEPT ![q] = @ \ P]
            /\ UNCHANGED <<queues, consumers, notes, chain, pass, messages,
                           archive, origin, written>>
    /\ UNCHANGED ready

\* _on_identity_url_changed, of the owner of the group: _do_close_streams
OwnerRotated(q) ==
    /\ Idle /\ Change /\ q \in DOMAIN queues
    /\ StopStream(q, {q})
    /\ UNCHANGED ready

\* _on_identity_url_changed, of a consumer: it is stopped in each of its
\* queues, removed, and added with its new id.  stop_consumer has cleared
\* 'active' in the very old_consumer_info that is looked at next, so the new
\* one is not started.
ConsumerRotated(c) ==
    /\ Idle /\ Change /\ NewId[c] # c
    /\ \E q \in DOMAIN queues : c \in readers[q]
    /\ readers' = [q \in Queue |-> IF c \in readers[q]
                                  THEN (readers[q] \ {c}) \cup {NewId[c]} ELSE readers[q]]
    /\ subs' = [subs EXCEPT ![c] = {}]
    /\ commands' = commands \ {c}
    /\ UNCHANGED <<queues, consumers, notes, chain, pass, ready, writers, messages,
                   archive, origin, written>>

\* message_peddler('stop'): doStopQueues stops one stream after the other
Stop ==
    /\ Idle
    /\ ready' = "stopping"
    /\ UNCHANGED <<queueVars, streamVars, changes>>

StopNext(q) ==
    /\ ready = "stopping" /\ q \in DOMAIN queues
    /\ StopStream(q, {})
    /\ UNCHANGED <<ready, changes>>
-----------------------------------------------------------------------------
Init ==
    /\ queues = [q \in {} |-> {}]
    /\ consumers = [m \in Message |-> {}]
    /\ notes = [m \in Message |-> [c \in Consumer |-> "none"]]
    /\ chain = [m \in Message |-> [c \in Consumer |-> <<>>]]
    /\ subs = [c \in Consumer |-> {}]
    /\ commands = {} /\ pass = {} /\ ready = "yes"
    /\ readers = [q \in Queue |-> {}]
    /\ writers = [q \in Queue |-> {}]
    /\ messages = [q \in Queue |-> {}]
    /\ archive = [q \in Queue |-> {}]
    /\ origin = [m \in Message |-> "none"]
    /\ written = 0 /\ changes = 0

AtMostOne(S) == {{}} \cup {{x} : x \in S}

Consume ==
    \/ Process
    \/ \E c \in Consumer, q \in Queue : Notify(c, q)

Next ==
    \/ Consume
    \/ \E q \in Queue : Push(q) \/ OwnerRotated(q) \/ StopNext(q)
    \/ \E m \in Message, c \in Consumer : Answer(m, c)
    \/ \E q \in Queue, C \in AtMostOne(Consumer), P \in AtMostOne(Producer) :
           Join(q, C, P) \/ Leave(q, C, P)
    \/ \E c \in Consumer : ConsumerRotated(c)
    \/ Stop

Spec == Init /\ [][Next]_vars

\* process_queues always schedules itself again.
FairSpec == Spec /\ WF_vars(Consume)
-----------------------------------------------------------------------------
\* Types; a queue is never longer than MAX_QUEUE_LENGTH.
TypeOK ==
    /\ DOMAIN queues \subseteq Queue
    /\ \A q \in DOMAIN queues :
          queues[q] \subseteq 1 .. written /\ Cardinality(queues[q]) <= MAX_QUEUE_LENGTH
    /\ consumers \in [Message -> SUBSET Consumer]
    /\ notes \in [Message -> [Consumer -> Note]]
    /\ subs \in [Consumer -> SUBSET Queue]
    /\ pass \subseteq commands /\ commands \subseteq {c \in Consumer : Exists(subs, c)}
    /\ ready \in {"yes", "stopping"}
    /\ readers \in [Queue -> SUBSET Consumer]
    /\ writers \in [Queue -> SUBSET Producer]
    /\ messages \in [Queue -> SUBSET Message]
    /\ archive \in [Queue -> SUBSET Message]

\* _on_queue_keeper_connect_result: whatever order members of a group come in
\* with whatever id of its queue, the broker has one queue open for the group.
OneQueuePerGroup ==
    \A x, y \in DOMAIN queues : Group[x] = Group[y] => x = y

\* stop_stream, rename_stream, doLeaveQueueStopKeeper: p2p_queue and the streams
\* agree; who is subscribed to a queue is a member of its stream, and the queue
\* is open.
SubscribedIsMember ==
    \A c \in Consumer : \A q \in subs[c] : q \in DOMAIN queues /\ c \in readers[q]

\* rename_queue, close_queue, do_cleanup: while a notification is pending its
\* message stays in an open queue, and the id the queue has now is the last one
\* that the Deferred reports to; so its answer is not lost.
PendingIsQueued ==
    \A m \in Message, c \in Consumer : notes[m][c] = "pending" =>
        \E q \in DOMAIN queues : m \in queues[q] /\ chain[m][c][Len(chain[m][c])] = q

\* do_cleanup: a message that was told and of which no answer is missing does
\* not stay, though consumers leave and queues get new ids before they answer.
NothingFinishedStays ==
    \A q \in DOMAIN queues : \A m \in queues[q] :
        SentOrLater(notes, m) => IsPending(notes, m)

\* lookup_pending_message: a consumer is not told of a message before it was
\* told of all earlier ones of the queue that are meant for it too.
NoneOvertaken ==
    \A q \in DOMAIN queues : \A k, m \in queues[q] : \A c \in consumers[k] :
        k < m /\ notes[m][c] # "none" => notes[k][c] # "none"

\* do_push_message, rename_stream, on_message_processed: what is still queued is
\* on file under the present id of its queue, as not processed; and a message
\* that is archived, to be erased later, is not on that list too, waits for no
\* answer, and failed for nobody.
FiledOnce ==
    /\ \A q \in DOMAIN queues : queues[q] \subseteq messages[q]
    /\ \A q \in Queue : \A m \in archive[q] :
          /\ m \notin messages[q]
          /\ \A c \in Consumer : notes[m][c] \notin {"pending", "bad"}

\* p2p_queue and the streams of message_peddler agree on the queues that are open,
\* who reads them, and what still waits in them.
QueuesSound == OneQueuePerGroup /\ SubscribedIsMember /\ PendingIsQueued /\ NothingFinishedStays

\* A consumer is told in order, and what is filed as done is done.
MessagesSound == NoneOvertaken /\ FiledOnce

\* consumer c can be told of message m and was not
Waits(m, c) ==
    /\ notes[m][c] = "none" /\ c \in consumers[m] \cap commands /\ ready = "yes"
    /\ \E q \in subs[c] \cap DOMAIN queues : m \in queues[q]

\* do_consume: the loop catches up again and again: every consumer that can be
\* told of a message is, or the message is gone.
Served == []<>(\A m \in Message, c \in Consumer : ~ Waits(m, c))
=============================================================================
