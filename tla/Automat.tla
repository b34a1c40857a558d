-------------------------------- MODULE Automat --------------------------------
(***************************************************************************)
(* The base class of every state machine of the program: event(), the      *)
(* timers of the states, the callbacks of those who watch the machine, and *)
(* destroy().                                                              *)
(*                                                                         *)
(* With fast = True an event is a function call, so the actions of A() and *)
(* the callbacks may send the machine an event while it handles another:   *)
(* stack holds the frames of event(), the innermost last.  A() is any code *)
(* of the form the program's machines have: it finds no transition, or it  *)
(* sets the state and then calls actions, which may send events or raise,  *)
(* with doDestroyMe as the last one of a transition to a final state.      *)
(***************************************************************************)
EXTENDS Naturals, Sequences, FiniteSets

CONSTANTS
  State, Start,      \* the states of the machine and its first one
  Final,             \* the ones doDestroyMe is called in
  Timer, timers,     \* the states each timer event is fired in
  Observer, None,    \* who calls addStateChangedCallback
  watch,             \* the newstate each one asks for, None for every change
  Leaving,           \* the ones that remove themselves when they are called
  MaxDepth           \* bound: events in progress

ASSUME StateAssumption    == Start \in State /\ Final \subseteq State
ASSUME TimersAssumption   == timers \in [Timer -> SUBSET (State \ Final)]
ASSUME ObserverAssumption ==
  /\ IsFiniteSet(Observer) /\ Leaving \subseteq Observer
  /\ None \notin State /\ watch \in [Observer -> State \cup {None}]
ASSUME DepthAssumption    == MaxDepth \in Nat

VARIABLES
  state,
  alive,       \* destroy() was not called: _state_callbacks has the lists
  dying,       \* _callbacks_before_die has them
  running,     \* self._timers
  callbacks,   \* for each newstate watched, its list of callbacks
  stack,       \* the calls of event() in progress
  heard,       \* history: the newstate each observer was last called with
  unaware,     \* history: the ones not called since a state they watch was entered
  disturbed    \* history: which of Disturbances have happened

vars == <<state, alive, dying, running, callbacks, stack, heard, unaware, disturbed>>

\* An action raised; a callback sent the machine an event; a callback removed
\* itself and had others behind it.
Disturbances == {"raised", "answered", "left"}

-----------------------------------------------------------------------------
Key == State \cup {None}

\* event() before A() looks for a transition, in the actions of it, after the
\* last of them, and while it executes the callbacks.
Frame ==
       [phase : {"enter", "actions", "last"}, old : State]
  \cup [phase : {"report"}, old : State, new : State, todo : SUBSET Key,
        key : Key, next : Nat]

Top == stack[Len(stack)]
Return == SubSeq(stack, 1, Len(stack) - 1)
Replace(frame) == [stack EXCEPT ![Len(stack)] = frame]

In(phase) == stack # << >> /\ Top.phase = phase

TimersOf(s) == {t \in Timer : s \in timers[t]}

\* q without its element i.
Without(q, i) == SubSeq(q, 1, i - 1) \o SubSeq(q, i + 1, Len(q))

Registered(o) == \E i \in DOMAIN callbacks[watch[o]] : callbacks[watch[o]][i] = o

Watches(o, s) == watch[o] \in {s, None}

MutKeys(old, new) == {k \in Key : alive /\ (k = None \/ (k = new /\ new # old))}

\* The keys executeStateChangedCallbacks catches, of both dictionaries.
Keys(old, new) ==
  {k \in Key : (alive \/ dying) /\ (k = None \/ (k = new /\ new # old))}

-----------------------------------------------------------------------------
Init ==
  /\ state = Start /\ alive = TRUE /\ dying = FALSE
  /\ running = TimersOf(Start)
  /\ callbacks = [k \in Key |-> << >>]
  /\ stack = << >>
  /\ heard = [o \in Observer |-> None]
  /\ unaware = {} /\ disturbed = {}

addStateChangedCallback(o) ==
  /\ stack = << >> /\ alive /\ ~Registered(o)
  /\ callbacks' = [callbacks EXCEPT ![watch[o]] = Append(@, o)]
  /\ heard' = [heard EXCEPT ![o] = state]
  /\ UNCHANGED <<state, alive, dying, running, stack, unaware, disturbed>>

Call == Len(stack) < MaxDepth /\ stack' = Append(stack, [phase |-> "enter", old |-> state])

\* event() from the reactor, from an action of A(), or from a callback.
event ==
  /\ stack = << >> \/ In("actions") \/ In("report")
  /\ Call
  /\ disturbed' = IF In("report") THEN disturbed \cup {"answered"} ELSE disturbed
  /\ UNCHANGED <<state, alive, dying, running, callbacks, heard, unaware>>

\* A() has no transition for the event; in a final state it has none for any.
NoTransition ==
  /\ In("enter")
  /\ stack' = Replace([Top EXCEPT !.phase = "last"])
  /\ UNCHANGED <<state, alive, dying, running, callbacks, heard, unaware, disturbed>>

Transition(s) ==
  /\ In("enter") /\ state \notin Final
  /\ stack' = Replace([Top EXCEPT !.phase = "actions"])
  /\ state' = s
  /\ unaware' = IF s = state THEN unaware
                ELSE unaware \cup {o \in Observer : Registered(o) /\ Watches(o, s)}
  /\ UNCHANGED <<alive, dying, running, callbacks, heard, disturbed>>

MutDestroy ==
  /\ In("actions") /\ state \in Final /\ alive /\ ~dying
  /\ dying' = TRUE /\ running' = {}
  /\ stack' = Replace([Top EXCEPT !.phase = "last"])
  /\ UNCHANGED <<state, alive, callbacks, heard, unaware, disturbed>>

\* doDestroyMe.
destroy ==
  /\ In("actions") /\ state \in Final /\ alive
  /\ alive' = FALSE /\ dying' = TRUE /\ running' = {}
  /\ stack' = Replace([Top EXCEPT !.phase = "last"])
  /\ UNCHANGED <<state, callbacks, heard, unaware, disturbed>>

\* event() catches the exception and returns at once.
Raise ==
  /\ In("actions")
  /\ stack' = Return
  /\ disturbed' = disturbed \cup {"raised"}
  /\ UNCHANGED <<state, alive, dying, running, callbacks, heard, unaware>>

Report(old, new) ==
  [phase |-> "report", old |-> old, new |-> new, todo |-> Keys(old, new),
   key |-> None, next |-> 0]

MutRestart == running \cup TimersOf(state)

\* stopTimers and startTimers.
Restart == TimersOf(state)

\* A() returns: the timers are restarted if the state is another one now, and
\* the callbacks that watch this change are collected.
EndOfA ==
  /\ In("actions") \/ In("last")
  /\ running' = IF Top.old # state THEN Restart ELSE running
  /\ stack' = Replace(Report(Top.old, state))
  /\ UNCHANGED <<state, alive, dying, callbacks, heard, unaware, disturbed>>

\* The next list of callbacks is taken.
NextList ==
  /\ In("report") /\ (Top.next = 0 \/ Top.next > Len(callbacks[Top.key]))
  /\ \E k \in Top.todo :
       stack' = Replace([Top EXCEPT !.todo = @ \ {k}, !.key = k, !.next = 1])
  /\ UNCHANGED <<state, alive, dying, running, callbacks, heard, unaware, disturbed>>

\* What the callbacks of the innermost event() are told.
NewState == Top.new

\* The next callback of the list is called.  One that removes itself shortens
\* the list that is being walked; destroy() has emptied the dictionary it would
\* be removed from.
Callback ==
  /\ In("report") /\ Top.next \in DOMAIN callbacks[Top.key]
  /\ LET o == callbacks[Top.key][Top.next] IN
       /\ heard' = [heard EXCEPT ![o] = NewState]
       /\ unaware' = unaware \ {o}
       /\ callbacks' =
            IF o \in Leaving /\ alive
            THEN [callbacks EXCEPT ![Top.key] = Without(@, Top.next)]
            ELSE callbacks
       /\ disturbed' = IF callbacks' # callbacks /\ Top.next # Len(callbacks[Top.key])
                       THEN disturbed \cup {"left"} ELSE disturbed
  /\ stack' = Replace([Top EXCEPT !.next = @ + 1])
  /\ UNCHANGED <<state, alive, dying, running>>

EndOfEvent ==
  /\ In("report") /\ Top.todo = {}
  /\ Top.next = 0 \/ Top.next > Len(callbacks[Top.key])
  /\ dying' = FALSE
  /\ stack' = Return
  /\ UNCHANGED <<state, alive, running, callbacks, heard, unaware, disturbed>>

-----------------------------------------------------------------------------
Next ==
  \/ event \/ NoTransition \/ destroy \/ Raise \/ EndOfA
  \/ NextList \/ Callback \/ EndOfEvent
  \/ \E s \in State : Transition(s)
  \/ \E o \in Observer : addStateChangedCallback(o)

Spec == Init /\ [][Next]_vars

-----------------------------------------------------------------------------
TypeOK ==
  /\ state \in State
  /\ alive \in BOOLEAN /\ dying \in BOOLEAN /\ (dying => ~alive)
  /\ running \in SUBSET Timer
  /\ callbacks \in [Key -> Seq(Observer)]
  /\ stack \in Seq(Frame)
  /\ heard \in [Observer -> Key]
  /\ unaware \in SUBSET Observer
  /\ disturbed \in SUBSET Disturbances

Idle == stack = << >>

\* Automat.timers: "A dictionary of timer events fired at specified intervals
\* when machine rich given state".  However events nest, between them a machine
\* runs the timers of its state and no other, unless an action has raised.
TimersFollowState ==
  Idle /\ "raised" \notin disturbed => running = IF alive THEN TimersOf(state) ELSE {}

\* A destroyed machine runs no timers, although the events it was destroyed in
\* return and restart them, or are cut short by an exception.
DestroyedIsQuiet == ~alive => running = {}

\* Who watches every change is left with the state the machine is in, although
\* the calls of nested events overtake the call of the event they are part of;
\* unless an action raised, or an event came from a callback.
LastHeardIsState ==
  Idle /\ disturbed = {} =>
    \A o \in Observer : Registered(o) /\ watch[o] = None => heard[o] = state

\* Who waits for the state the machine is in has been called since the machine
\* entered it, also when that state destroys it; unless an action raised, or
\* who left made the machine pass over the one behind.
StateAnnounced ==
  Idle /\ disturbed \subseteq {"answered"} =>
    \A o \in unaware : Registered(o) => ~Watches(o, state)

\* The timers of a machine are those of its state, and none once it is destroyed,
\* however the events that restart and stop them nest.
TimersSound == TimersFollowState /\ DestroyedIsQuiet

\* Who watches a machine knows the state it is in, though callbacks nest and
\* observers leave while the list of them is walked.
ObserversTold == LastHeardIsState /\ StateAnnounced

=============================================================================
