------------------------------- MODULE PacketOut -------------------------------
(***************************************************************************)
(* The outbox of the transport: packet_out() machines that carry packets   *)
(* with one packetID to one remote user, the list queue() they live in,    *)
(* gateway.outbox with its merging of duplicates, and the loop of the      *)
(* gateway that cancels the ones that take too long.                       *)
(*                                                                         *)
(* A machine sets its state before it reports, and what it reports to may  *)
(* cancel packets, the reporting one included (file_up.doCancelPackets).   *)
(* ending is the stack of machines that are reporting their end; while it  *)
(* is not empty only such nested cancels happen.                           *)
(*                                                                         *)
(* doPushItems answers within the event that calls it, so no event finds a *)
(* machine in AT_STARTUP or ITEMS?.                                        *)
(***************************************************************************)
EXTENDS Naturals, Sequences, FiniteSets

CONSTANTS
  Out,               \* the packet_out machines
  Kind,              \* the command each one carries: "Data", "Retrieve" or "Ack"
  Wide,              \* the ones sent to all contacts of the remote identity
  response_timeout,  \* what outbox() was given for each one, 0 for None
  Contact,           \* contacts of the remote identity, of different protocols
  Caller,            \* the calls of gateway.outbox with callbacks
  StrayHosts         \* a transport may name an item by another host than its own

ASSUME OutAssumption     == IsFiniteSet(Out) /\ Wide \subseteq Out
Command == {"Data", "Retrieve", "Ack"}

ASSUME KindAssumption    == Kind \in [Out -> Command]
ASSUME TimeoutAssumption == response_timeout \in [Out -> Nat]
ASSUME ContactAssumption == IsFiniteSet(Contact) /\ IsFiniteSet(Caller)
ASSUME StrayAssumption   == StrayHosts \in BOOLEAN

VARIABLES
  state,       \* of each machine; "none" before it is created
  queue,       \* packet_out.queue()
  items,       \* contacts whose WorkItem is still in self.items
  registered,  \* the ones of them that have a transfer_id
  late,        \* written machines that are older than their timeout
  callbacks,   \* the outbox() calls whose callbacks a machine holds
  shared,      \* Automat.timers['response-timeout'], 0 when not there
  armed,       \* the interval of the timer a machine runs in RESPONSE?
  ending,      \* the machines reporting their end, innermost last
  walk,        \* position of packets_timeout_loop in the queue, 0 outside of it
  calls,       \* history: outbox() calls made
  heard,       \* history: how its machine ended, "no", "response" or "status"
  outcomes     \* history: ends each machine has reported

itemVars == <<items, registered>>
vars == <<state, queue, itemVars, late, callbacks, shared, armed, ending, walk,
          calls, heard, outcomes>>

-----------------------------------------------------------------------------
Sending  == {"CACHING", "IN_QUEUE", "SENDING"}
Pending  == Sending \cup {"RESPONSE?"}
Terminal == {"FAILED", "SENT", "CANCEL"}

Live(o) == \E i \in DOMAIN queue : queue[i] = o

\* The reactor may call a handler: no report and no loop is in progress.
Idle == ending = << >> /\ walk = 0

isAckNeeded(o)    == Kind[o] # "Ack"
isDataExpected(o) == Kind[o] = "Retrieve"

isMoreItems(o) == Cardinality(items[o]) > 1

\* A machine that waits for a response never is.
is_timed_out(o) == o \in late /\ state[o] # "RESPONSE?"

\* A terminal transition: the state is set, then the reports begin.
End(o, s) == state' = [state EXCEPT ![o] = s] /\ ending' = Append(ending, o)

PopItem(o, c) ==
  /\ items' = [items EXCEPT ![o] = @ \ {c}]
  /\ registered' = [registered EXCEPT ![o] = @ \ {c}]

\* list.remove(o): the first occurrence of o leaves, the rest keeps its order.
Position(q, o) == CHOOSE k \in DOMAIN q : q[k] = o
Without(q, o) ==
  [i \in 1 .. Len(q) - 1 |-> IF i < Position(q, o) THEN q[i] ELSE q[i + 1]]

\* search_similar_packets: where the queue holds machines of that command that
\* have an item left.  on_outbox_packet never merges Acks and Fails.
Similar(com) ==
  {i \in DOMAIN queue : Kind[queue[i]] = com /\ com # "Ack" /\ items[queue[i]] # {}}

\* The first of them.
FirstSimilar(com) == {queue[i] : i \in {j \in Similar(com) : \A k \in Similar(com) : j <= k}}

-----------------------------------------------------------------------------
Init ==
  /\ state = [o \in Out |-> "none"]
  /\ queue = << >>
  /\ items = [o \in Out |-> {}] /\ registered = [o \in Out |-> {}]
  /\ late = {}
  /\ callbacks = [o \in Out |-> {}]
  /\ shared = 0 /\ armed = [o \in Out |-> 0]
  /\ ending = << >> /\ walk = 0
  /\ calls = {} /\ heard = [c \in Caller |-> "no"]
  /\ outcomes = [o \in Out |-> 0]

(* gateway.outbox *)

Call(k) == Idle /\ k \notin calls /\ calls' = calls \cup {k}

MutMerge(k, com) ==
  /\ Call(k)
  /\ \E o \in FirstSimilar(com) : callbacks' = [callbacks EXCEPT ![o] = {k}]
  /\ UNCHANGED <<state, queue, itemVars, late, shared, armed, ending, walk, heard,
                 outcomes>>

\* A similar machine is found: it takes the callbacks, nothing new is sent.
Merge(k, com) ==
  /\ Call(k)
  /\ \E o \in FirstSimilar(com) : callbacks' = [callbacks EXCEPT ![o] = @ \cup {k}]
  /\ UNCHANGED <<state, queue, itemVars, late, shared, armed, ending, walk, heard,
                 outcomes>>

MutPush(o) ==
  \/ \E taken \in (SUBSET Contact) \ {{}} :
       /\ state' = [state EXCEPT ![o] = "IN_QUEUE"]
       /\ items' = [items EXCEPT ![o] = taken]
       /\ UNCHANGED ending
  \/ End(o, "FAILED") /\ UNCHANGED items

\* _push: a WorkItem for every contact a transport took the file for, for the
\* first such contact when the packet is not wide; or 'nothing-to-send'.
Push(o) ==
  \/ \E taken \in (SUBSET Contact) \ {{}} :
       /\ o \in Wide \/ Cardinality(taken) = 1
       /\ state' = [state EXCEPT ![o] = "IN_QUEUE"]
       /\ items' = [items EXCEPT ![o] = taken]
       /\ UNCHANGED ending
  \/ End(o, "FAILED") /\ UNCHANGED items

\* packet_out.create and 'run': the machine is started, with the remote
\* identity in the cache or after fetching it.  init() stores the timeout in
\* self.timers, which is the dictionary of the class Automat.
Create(k, o) ==
  /\ Call(k) /\ Similar(Kind[o]) = {} /\ state[o] = "none"
  /\ queue' = Append(queue, o)
  /\ callbacks' = [callbacks EXCEPT ![o] = {k}]
  /\ shared' = IF response_timeout[o] > 0 THEN response_timeout[o] ELSE shared
  /\ \/ Push(o)
     \/ state' = [state EXCEPT ![o] = "CACHING"] /\ UNCHANGED <<items, ending>>
  /\ UNCHANGED <<registered, late, armed, walk, heard, outcomes>>

\* 'remote-identity-on-hand', or 'failed' after at most 60 seconds.
CachingEnds(o) ==
  /\ Idle /\ state[o] = "CACHING"
  /\ Push(o)
  /\ UNCHANGED <<queue, registered, late, callbacks, shared, armed, walk, heard,
                 calls, outcomes>>

(* What the transports report *)

\* on_register_file_sending: search() finds the item by its protocol.
RegisterItem(o, c) ==
  /\ Idle /\ c \in items[o] /\ state[o] \in {"IN_QUEUE", "SENDING"}
  /\ state' = [state EXCEPT ![o] = "SENDING"]
  /\ registered' = [registered EXCEPT ![o] = @ \cup {c}]
  /\ UNCHANGED <<queue, items, late, callbacks, shared, armed, ending, walk, heard,
                 calls, outcomes>>

\* The file is sent: wait for the response if there is one to come, with the
\* timers that Automat.timers has for RESPONSE? at this moment.
ItemFinished(o, c) ==
  /\ Idle /\ Live(o) /\ c \in registered[o] /\ state[o] = "SENDING"
  /\ PopItem(o, c)
  /\ IF isAckNeeded(o)
     THEN /\ state' = [state EXCEPT ![o] = "RESPONSE?"]
          /\ armed' = [armed EXCEPT ![o] = shared]
          /\ UNCHANGED ending
     ELSE End(o, "SENT") /\ UNCHANGED armed
  /\ UNCHANGED <<queue, late, callbacks, shared, walk, heard, calls, outcomes>>

\* One failed transfer fails the machine, whatever other items it has.
ItemFailed(o, c) ==
  /\ Idle /\ Live(o) /\ c \in registered[o] /\ state[o] = "SENDING"
  /\ PopItem(o, c)
  /\ End(o, "FAILED")
  /\ UNCHANGED <<queue, late, callbacks, shared, armed, walk, heard, calls, outcomes>>

\* on_cancelled_file_sending, for an item the machine knows by that host.
ItemCancelled(o, c) ==
  /\ Idle /\ Live(o) /\ c \in items[o] /\ state[o] \in {"IN_QUEUE", "SENDING"}
  /\ PopItem(o, c)
  /\ IF isMoreItems(o) THEN UNCHANGED <<state, ending>> ELSE End(o, "FAILED")
  /\ UNCHANGED <<queue, late, callbacks, shared, armed, walk, heard, calls, outcomes>>

\* The other contacts of a wide packet, once one of them has the file.
LateItem(o, c) ==
  /\ Idle /\ c \in items[o] /\ state[o] = "RESPONSE?"
  /\ PopItem(o, c)
  /\ UNCHANGED <<state, queue, late, callbacks, shared, armed, ending, walk, heard,
                 calls, outcomes>>

\* An inbound connection names itself by its own address: search() finds the
\* machine, _pop does not find the item and raises, after A() has set FAILED
\* and before it has reported anything.
StrayItemCancelled(o) ==
  /\ StrayHosts
  /\ Idle /\ state[o] \in {"IN_QUEUE", "SENDING"} /\ ~isMoreItems(o)
  /\ state' = [state EXCEPT ![o] = "FAILED"]
  /\ UNCHANGED <<queue, itemVars, late, callbacks, shared, armed, ending, walk,
                 heard, calls, outcomes>>

(* How the waiting for a response ends *)

\* 'inbox-packet': the callbacks for its command are called, then the end is
\* reported.
InboxPacket(o) ==
  /\ Idle /\ state[o] = "RESPONSE?"
  /\ heard' = [k \in Caller |-> IF k \in callbacks[o] THEN "response" ELSE heard[k]]
  /\ callbacks' = [callbacks EXCEPT ![o] = {}]
  /\ End(o, "SENT")
  /\ UNCHANGED <<queue, itemVars, late, shared, armed, walk, calls, outcomes>>

NoAnswer(o) ==
  /\ Idle /\ state[o] = "RESPONSE?"
  /\ End(o, IF isDataExpected(o) THEN "FAILED" ELSE "SENT")
  /\ UNCHANGED <<queue, itemVars, late, callbacks, shared, armed, walk, heard,
                 calls, outcomes>>

MutResponseTimeout(o) == armed[o] > response_timeout[o] /\ NoAnswer(o)

ResponseTimeout(o) == armed[o] > 0 /\ NoAnswer(o)

\* The proxy transport learns that the routed packet did not get through.
RequestFailed(o) == NoAnswer(o)

(* 'cancel' *)

\* The states in which A() has a transition for it.
Cancellable(o) == state[o] \in Pending

\* doPopItems is part of the transitions from IN_QUEUE and SENDING only.
DoCancel(o) ==
  /\ Live(o) /\ Cancellable(o)
  /\ IF state[o] \in {"IN_QUEUE", "SENDING"}
     THEN items' = [items EXCEPT ![o] = {}] /\ registered' = [registered EXCEPT ![o] = {}]
     ELSE UNCHANGED itemVars
  /\ End(o, "CANCEL")
  /\ UNCHANGED <<queue, late, callbacks, shared, armed, heard, calls, outcomes>>

\* From the reactor, or from the callbacks of a machine that reports its end.
Cancel(o) == (Idle \/ ending # << >>) /\ DoCancel(o) /\ UNCHANGED walk

\* The reports are made: the innermost machine leaves the queue and forgets its
\* callbacks.
Destroy ==
  /\ ending # << >>
  /\ LET o == ending[Len(ending)] IN
       /\ queue' = Without(queue, o)
       /\ heard' = [k \in Caller |-> IF k \in callbacks[o] THEN "status" ELSE heard[k]]
       /\ callbacks' = [callbacks EXCEPT ![o] = {}]
       /\ outcomes' = [outcomes EXCEPT ![o] = @ + 1]
  /\ ending' = SubSeq(ending, 1, Len(ending) - 1)
  /\ UNCHANGED <<state, itemVars, late, shared, armed, walk, calls>>

(* gateway.packets_timeout_loop *)

\* time.time() - self.time > self.timeout, set when the packet was written.
TimePasses(o) ==
  /\ state[o] \in {"IN_QUEUE", "SENDING", "RESPONSE?"} /\ o \notin late
  /\ late' = late \cup {o}
  /\ UNCHANGED <<state, queue, itemVars, callbacks, shared, armed, ending, walk,
                 heard, calls, outcomes>>

StartWalk ==
  /\ Idle
  /\ walk' = 1
  /\ UNCHANGED <<state, queue, itemVars, late, callbacks, shared, armed, ending,
                 heard, calls, outcomes>>

\* The loop walks the very list its cancels remove from, so it passes over the
\* machine that follows a cancelled one.
WalkNext ==
  /\ walk > 0 /\ ending = << >>
  /\ IF walk > Len(queue)
     THEN /\ walk' = 0
          /\ UNCHANGED <<state, queue, itemVars, late, callbacks, shared, armed,
                         ending, heard, calls, outcomes>>
     ELSE /\ walk' = walk + 1
          /\ \/ is_timed_out(queue[walk]) /\ DoCancel(queue[walk])
             \/ /\ ~(is_timed_out(queue[walk]) /\ Cancellable(queue[walk]))
                /\ UNCHANGED <<state, queue, itemVars, late, callbacks, shared,
                               armed, ending, heard, calls, outcomes>>

-----------------------------------------------------------------------------
Next ==
  \/ \E k \in Caller : \/ \E com \in Command : Merge(k, com)
                        \/ \E o \in Out : Create(k, o)
  \/ \E o \in Out, c \in Contact :
       \/ RegisterItem(o, c) \/ ItemFinished(o, c) \/ ItemFailed(o, c)
       \/ ItemCancelled(o, c) \/ LateItem(o, c)
  \/ \E o \in Out :
       \/ CachingEnds(o) \/ StrayItemCancelled(o)
       \/ InboxPacket(o) \/ ResponseTimeout(o) \/ RequestFailed(o)
       \/ Cancel(o) \/ TimePasses(o)
  \/ Destroy \/ StartWalk \/ WalkNext

\* The reactor goes on with what it began and runs every call that is due, also
\* when loops and reports come in between (hence SF); nothing is assumed of the
\* transports and of the remote user.
Fairness ==
  /\ WF_vars(Destroy) /\ SF_vars(StartWalk) /\ WF_vars(WalkNext)
  /\ \A o \in Out : /\ SF_vars(CachingEnds(o)) /\ WF_vars(TimePasses(o))
                    /\ SF_vars(ResponseTimeout(o))

Spec     == Init /\ [][Next]_vars
FairSpec == Spec /\ Fairness

-----------------------------------------------------------------------------
TypeOK ==
  /\ state \in [Out -> {"none"} \cup Pending \cup Terminal]
  /\ queue \in Seq(Out) /\ ending \in Seq(Out)
  /\ items \in [Out -> SUBSET Contact]
  /\ \A o \in Out \ Wide : Cardinality(items[o]) <= 1
  /\ registered \in [Out -> SUBSET Contact]
  /\ late \subseteq Out /\ calls \subseteq Caller
  /\ callbacks \in [Out -> SUBSET Caller]
  /\ shared \in Nat /\ armed \in [Out -> Nat]
  /\ walk \in 0 .. Cardinality(Out) + 1
  /\ heard \in [Caller -> {"no", "response", "status"}]
  /\ outcomes \in [Out -> Nat]

(* Safety *)

\* However cancels nest in the reports of other ends, and whatever the timeout
\* loop takes out of the list it walks: a machine is in the queue once until it
\* has reported its end, and reports it once.
OneOutcome ==
  \A o \in Out :
    Cardinality({i \in DOMAIN queue : queue[i] = o}) + outcomes[o] =
      IF state[o] = "none" THEN 0 ELSE 1

\* Every outbox() call has its callbacks in exactly one machine of the queue
\* until that machine ends, although packets are merged.
CallersKept ==
  \A k \in calls :
    Cardinality({o \in Out : k \in callbacks[o] /\ Live(o)}) =
      IF heard[k] = "no" THEN 1 ELSE 0

\* A machine that waits for its transports has an item they may report on:
\* after the last one is gone nothing but the timeout would end it.
PendingHasItems ==
  \A o \in Out :
    /\ state[o] \in {"IN_QUEUE", "SENDING"} => items[o] # {}
    /\ registered[o] \subseteq items[o]
    /\ state[o] = "IN_QUEUE" => registered[o] = {}

\* Of every outbox() call the end is reported, once, by the machine that carries
\* its callbacks, which has transports to wait for until then.
OutcomesReported == OneOutcome /\ CallersKept /\ PendingHasItems

(* Liveness *)

\* No machine stays in the sending states for good, and none that was given a
\* response_timeout waits for its response for good: although the timeout loop
\* passes over machines, and the transports and the remote user may never answer.
NothingLasts ==
  []<>(\A o \in Out :
         /\ state[o] \notin Sending
         /\ response_timeout[o] > 0 => state[o] # "RESPONSE?" \/ ~Live(o))

=============================================================================
