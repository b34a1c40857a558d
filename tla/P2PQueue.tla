------------------------------- MODULE P2PQueue -------------------------------
(***************************************************************************)
(* The message queues of a broker, stream/p2p_queue.py: messages that wait *)
(* in open queues, consumers that are subscribed to them, and one          *)
(* notification, a Deferred, for each consumer a message is told to.       *)
(*                                                                         *)
(* A queue is the set of its messages: the OrderedDict is in the order of  *)
(* the ids that make_message_id() counts up.  The only caller modelled is  *)
(* message_peddler, in MessagePeddler, so the only callback method is its  *)
(* on_consumer_notify and a consumer exists as long as it is subscribed to *)
(* something (remove_empty).                                               *)
(***************************************************************************)
EXTENDS Integers, Sequences, FiniteSets

CONSTANTS
  Queue,             \* queue ids
  Consumer,          \* consumer ids
  MaxMessages,       \* bound: how many messages are ever written
  MAX_QUEUE_LENGTH

ASSUME QueueAssumption == IsFiniteSet(Consumer)
ASSUME CountAssumption == MaxMessages \in Nat
ASSUME LimitAssumption == MAX_QUEUE_LENGTH \in Nat \ {0}

Message == 1 .. MaxMessages

VARIABLES
  queues,      \* _ActiveQueues: the messages in each open queue
  consumers,   \* of each message: the ones subscribed when it was written
  notes,       \* of each message and consumer: what became of its notification
  chain,       \* the queue ids its Deferred reports to, see rename_queue
  subs,        \* the queues each consumer is subscribed to
  commands,    \* the consumers that have on_consumer_notify registered
  pass         \* the consumers that do_consume is still to tell something

queueVars == <<queues, consumers, notes, chain, subs, commands, pass>>

-----------------------------------------------------------------------------
(* What became of a notification: it is pending until its Deferred is      *)
(* called; it is lost when that finds the consumer or the message gone.    *)
Note == {"none", "pending", "ok", "bad", "lost"}

Exists(s, c) == s[c] # {}

SentOrLater(n, m) == \E c \in Consumer : n[m][c] # "none"

IsPending(n, m) == \E c \in Consumer : n[m][c] = "pending"

Results(n, m) == {c \in Consumer : n[m][c] \in {"ok", "bad"}}

MutUntold(S, c) ==
    {m \in S : c \in consumers[m] /\ \A d \in Consumer : notes[m][d] = "none"}

\* lookup_pending_message: what consumer c was not told yet of the messages S
Untold(S, c) == {m \in S : c \in consumers[m] /\ notes[m][c] = "none"}

\* in which of the queues Q there is something for consumer c
HasUntold(Q, c) == \E q \in subs[c] : Untold(Q[q], c) # {}

MutFirst(S) == CHOOSE m \in S : \A k \in S : k <= m

First(S) == CHOOSE m \in S : \A k \in S : m <= k

\* the messages of S that do_cleanup removes, when n is what became of the
\* notifications
Finished(n, S) ==
    {m \in S :
        \/ /\ SentOrLater(n, m)
           /\ \/ ~ IsPending(n, m)
              \/ Cardinality(Results(n, m)) >= Cardinality(consumers[m])
        \/ consumers[m] = {}}

\* do_cleanup of the queues X: what stays, and what pull_message took out
Cleaned(n, X) ==
    [q \in DOMAIN queues |->
        IF q \in X THEN queues[q] \ Finished(n, queues[q]) ELSE queues[q]]

PulledFrom(n, X) == UNION {Finished(n, queues[q]) : q \in X \cap DOMAIN queues}

(* A Deferred that reports to the queue ids ch is called.  The report that *)
(* finds the message in its queue finishes the notification.  Only the     *)
(* first one hears of a failure: on_notification_failed returns None, which*)
(* the ones that rename_queue has added take for success.                  *)
Finish(m, c, ch, s, ok) ==
    LET holds(i) == ch[i] \in DOMAIN queues /\ m \in queues[ch[i]]
    IN  IF ~ Exists(s, c) \/ ~ \E i \in DOMAIN ch : holds(i) THEN "lost"
        ELSE IF ok \/ ~ holds(1) THEN "ok" ELSE "bad"

Ids(ch) == {ch[i] : i \in DOMAIN ch}

\* close_queue cancels what is pending in queue q; s is who is subscribed then
Cancelled(q, s) ==
    [m \in Message |-> [c \in Consumer |->
        IF m \in queues[q] /\ notes[m][c] = "pending"
        THEN Finish(m, c, chain[m][c], s, FALSE) ELSE notes[m][c]]]

\* the queues that are cleaned up on that
CancelledIds(q) ==
    {x \in DOMAIN queues :
        \E m \in queues[q], c \in Consumer :
            notes[m][c] = "pending" /\ x \in Ids(chain[m][c])}
=============================================================================
