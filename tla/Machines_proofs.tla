---------------------------- MODULE Machines_proofs ----------------------------
(***************************************************************************)
(* First the base class of the machines, for every machine, every set of   *)
(* observers and every depth of nesting: types, the timers of a destroyed  *)
(* machine, the timers of a living one while no action has raised, and     *)
(* what its observers have been told.                                      *)
(*                                                                         *)
(* Then the machines that hire and dismiss suppliers, for every set of     *)
(* nodes, first list and choice of late answers: no round is lost, nobody  *)
(* is hired twice and rounds alone never erase the backups.  What a step   *)
(* of another machine does to fire_hire() is put into one relation on      *)
(* worlds, Heard; a handler of fire_hire() leads from a world at ease to   *)
(* one that satisfies the invariant.                                       *)
(***************************************************************************)
EXTENDS Automat, FireHire, WellFoundedInduction, FiniteSetTheorems, SequenceTheorems, TLAPS

\* The frames of event() in progress: a type fact used by every step.
LEMMA FrameTypes ==
  ASSUME TypeOK
  PROVE  /\ Len(stack) \in Nat
         /\ \A i \in 1 .. Len(stack) : stack[i] \in Frame
         /\ stack # << >> => Len(stack) >= 1 /\ Top \in Frame
  BY DEF TypeOK, Top

\* A pushed frame keeps the stack a stack.
LEMMA PushType ==
  ASSUME TypeOK, NEW f \in Frame
  PROVE  Append(stack, f) \in Seq(Frame)
  BY DEF TypeOK

LEMMA ReplaceType ==
  ASSUME TypeOK, stack # << >>, NEW f \in Frame
  PROVE  Replace(f) \in Seq(Frame)
  BY DEF TypeOK, Replace

LEMMA ReturnType ==
  ASSUME TypeOK, stack # << >>
  PROVE  Return \in Seq(Frame)
  BY DEF TypeOK, Return

\* A list of callbacks without one of them.
LEMMA WithoutType ==
  ASSUME NEW S, NEW q \in Seq(S), NEW i \in DOMAIN q
  PROVE  Without(q, i) \in Seq(S)
  BY DEF Without

\* The frame that reports a change.
LEMMA ReportType ==
  ASSUME NEW old \in State, NEW new \in State
  PROVE  Report(old, new) \in Frame
  <1>1. Keys(old, new) \in SUBSET Key /\ None \in Key
    BY DEF Keys, Key
  <1> QED BY <1>1 DEF Report, Frame

\* Every step of event() keeps the types.
LEMMA TypeStep ==
  ASSUME TypeOK, [Next]_vars
  PROVE  TypeOK'
<1> USE FrameTypes DEF In
<1>0. \A x \in {"raised", "answered", "left"} : x \in Disturbances
  BY DEF Disturbances
<1>1. CASE event
  <2>1. [phase |-> "enter", old |-> state] \in Frame
    BY DEF TypeOK, Frame
  <2> QED BY <1>0, <1>1, <2>1, PushType DEF event, Call, TypeOK
<1>2. CASE NoTransition
  <2>1. [Top EXCEPT !.phase = "last"] \in Frame
    BY <1>2 DEF NoTransition, Frame
  <2> QED BY <1>2, <2>1, ReplaceType DEF NoTransition, TypeOK
<1>3. ASSUME NEW s \in State, Transition(s) PROVE TypeOK'
  <2>1. [Top EXCEPT !.phase = "actions"] \in Frame
    BY <1>3 DEF Transition, Frame
  <2>2. stack' \in Seq(Frame)
    BY <1>3, <2>1, ReplaceType DEF Transition
  <2>3. unaware' \in SUBSET Observer
    BY <1>3 DEF Transition, TypeOK
  <2> QED BY <1>3, <2>2, <2>3 DEF Transition, TypeOK
<1>4. CASE destroy
  <2>1. [Top EXCEPT !.phase = "last"] \in Frame
    BY <1>4 DEF destroy, Frame
  <2> QED BY <1>4, <2>1, ReplaceType DEF destroy, TypeOK
<1>5. CASE Raise
  BY <1>0, <1>5, ReturnType DEF Raise, TypeOK
<1>6. CASE EndOfA
  <2>1. Top.old \in State
    BY <1>6 DEF EndOfA, Frame
  <2>2. stack' \in Seq(Frame)
    BY <1>6, <2>1, ReportType, ReplaceType DEF EndOfA, TypeOK
  <2>3. running' \in SUBSET Timer
    BY <1>6 DEF EndOfA, TypeOK, Restart, TimersOf
  <2> QED BY <1>6, <2>2, <2>3 DEF EndOfA, TypeOK
<1>7. CASE NextList
  <2>1. ASSUME NEW k \in Top.todo
        PROVE  [Top EXCEPT !.todo = @ \ {k}, !.key = k, !.next = 1] \in Frame
    BY <1>7, <2>1 DEF NextList, Frame
  <2> QED BY <1>7, <2>1, ReplaceType DEF NextList, TypeOK
<1>8. CASE Callback
  <2>1. Top.next \in Nat /\ Top.key \in Key /\ Top.new \in State
    BY <1>8 DEF Callback, Frame
  <2>2. [Top EXCEPT !.next = @ + 1] \in Frame
    BY <1>8, <2>1 DEF Callback, Frame
  <2>3. stack' \in Seq(Frame)
    BY <1>8, <2>2, ReplaceType DEF Callback
  <2> DEFINE o == callbacks[Top.key][Top.next]
  <2>4. o \in Observer
    BY <1>8, <2>1 DEF Callback, TypeOK
  <2>5. heard' \in [Observer -> Key]
    BY <1>8, <2>1, <2>4 DEF Callback, TypeOK, NewState, Key
  <2>6. Without(callbacks[Top.key], Top.next) \in Seq(Observer)
    BY <1>8, <2>1, WithoutType DEF Callback, TypeOK
  <2>7. callbacks' \in [Key -> Seq(Observer)]
    BY <1>8, <2>1, <2>6 DEF Callback, TypeOK
  <2> QED BY <1>0, <1>8, <2>3, <2>5, <2>7 DEF Callback, TypeOK
<1>9. CASE EndOfEvent
  BY <1>9, ReturnType DEF EndOfEvent, TypeOK
<1>10. ASSUME NEW o \in Observer, addStateChangedCallback(o) PROVE TypeOK'
  <2>1. watch[o] \in Key
    BY ObserverAssumption DEF Key
  <2>2. callbacks' \in [Key -> Seq(Observer)]
    BY <1>10, <2>1 DEF addStateChangedCallback, TypeOK
  <2> QED BY <1>10, <2>2 DEF addStateChangedCallback, TypeOK, Key
<1>11. CASE UNCHANGED vars
  BY <1>11 DEF vars, TypeOK
<1> QED BY <1>1, <1>2, <1>3, <1>4, <1>5, <1>6, <1>7, <1>8, <1>9, <1>10, <1>11 DEF Next

LEMMA TypeInit == Init => TypeOK
<1> SUFFICES ASSUME Init PROVE TypeOK
  OBVIOUS
<1>1. running \in SUBSET Timer /\ state \in State
  BY StateAssumption DEF Init, TimersOf
<1>2. callbacks \in [Key -> Seq(Observer)] /\ stack \in Seq(Frame)
  BY DEF Init
<1>3. heard \in [Observer -> Key]
  BY DEF Init, Key
<1> QED BY <1>1, <1>2, <1>3 DEF Init, TypeOK

\* The type invariant: what is stored by nested calls of event() is always a
\* state, a list of callbacks, a set of timers or a frame; and the callbacks are
\* in one of the two dictionaries at most.
THEOREM TypeCorrect == Spec => []TypeOK
<1> QED BY TypeInit, TypeStep, PTL DEF Spec

-----------------------------------------------------------------------------
(* Timers *)

\* DestroyedIsQuiet is kept by the returning events because they restart the
\* timers of a final state, which has none.
QuietInv == DestroyedIsQuiet /\ (~alive => state \in Final)

LEMMA FinalHasNoTimers ==
  ASSUME state \in Final
  PROVE  TimersOf(state) = {}
  BY TimersAssumption DEF TimersOf

LEMMA QuietStep ==
  ASSUME QuietInv, [Next]_vars
  PROVE  QuietInv'
<1> USE DEF QuietInv, DestroyedIsQuiet
<1>1. ASSUME NEW s \in State, Transition(s) PROVE QuietInv'
  BY <1>1 DEF Transition
<1>2. CASE EndOfA
  BY <1>2, FinalHasNoTimers DEF EndOfA, Restart
<1>3. CASE destroy
  BY <1>3 DEF destroy
<1>4. CASE event \/ NoTransition \/ Raise \/ NextList \/ Callback \/ EndOfEvent
  BY <1>4 DEF event, NoTransition, Raise, NextList, Callback, EndOfEvent
<1>5. ASSUME NEW o \in Observer, addStateChangedCallback(o) PROVE QuietInv'
  BY <1>5 DEF addStateChangedCallback
<1>6. CASE UNCHANGED vars
  BY <1>6 DEF vars
<1> QED BY <1>1, <1>2, <1>3, <1>4, <1>5, <1>6 DEF Next

\* A destroyed machine runs no timers, for any nesting, with actions that raise.
THEOREM DestroyedStaysQuiet == Spec => []DestroyedIsQuiet
<1>1. Init => QuietInv
  BY DEF Init, QuietInv, DestroyedIsQuiet
<1>2. QuietInv => DestroyedIsQuiet
  BY DEF QuietInv
<1> QED BY <1>1, <1>2, QuietStep, PTL DEF Spec

\* The frame i is of an event() that has not restarted the timers yet and began
\* in s.
Owes(i, s) == stack[i].phase # "report" /\ stack[i].old = s

\* The timers that run are the ones of some state s: the machine's own, or the
\* one in which an event began that still has to restart them.
TimersOfSome ==
  alive /\ "raised" \notin disturbed =>
           \E s \in State :
             /\ running = TimersOf(s)
             /\ s = state \/ \E i \in 1 .. Len(stack) : Owes(i, s)

\* Only the innermost event() can be about to look for a transition, and nothing
\* has changed the state since it was sent.
EnterIsFresh ==
  \A i \in 1 .. Len(stack) :
    stack[i].phase = "enter" => i = Len(stack) /\ stack[i].old = state

TimersInv == TypeOK /\ QuietInv /\ TimersOfSome /\ EnterIsFresh

\* A step that keeps the state and the timers, and the frames that owe a restart.
LEMMA KeepTimers ==
  ASSUME TimersOfSome, UNCHANGED <<state, alive, running>>, disturbed \subseteq disturbed',
         \A s \in State, i \in 1 .. Len(stack) :
           Owes(i, s) => \E j \in 1 .. Len(stack)' : Owes(j, s)'
  PROVE  TimersOfSome'
  <1> SUFFICES ASSUME alive', "raised" \notin disturbed'
      PROVE  \E s \in State :
               /\ running' = TimersOf(s)'
               /\ s = state' \/ \E j \in (1 .. Len(stack))' : Owes(j, s)'
    BY DEF TimersOfSome
  <1>1. PICK s \in State :
          /\ running = TimersOf(s)
          /\ s = state \/ \E i \in 1 .. Len(stack) : Owes(i, s)
    BY DEF TimersOfSome
  <1>2. running' = TimersOf(s)'
    BY <1>1 DEF TimersOf
  <1>3. s = state' \/ \E j \in (1 .. Len(stack))' : Owes(j, s)'
    BY <1>1
  <1> QED BY <1>2, <1>3

\* What Replace and Return do to the frames.
LEMMA StackFrames ==
  ASSUME TypeOK, stack # << >>
  PROVE  /\ \A f \in Frame : /\ Len(Replace(f)) = Len(stack)
                            /\ Replace(f)[Len(stack)] = f
                            /\ \A i \in 1 .. Len(stack) - 1 : Replace(f)[i] = stack[i]
         /\ Len(Return) = Len(stack) - 1
         /\ \A i \in 1 .. Len(stack) - 1 : Return[i] = stack[i]
<1>1. stack \in Seq(Frame) /\ Len(stack) \in Nat /\ Len(stack) >= 1
  BY FrameTypes DEF TypeOK
<1>2. ASSUME NEW f \in Frame
      PROVE  /\ Len(Replace(f)) = Len(stack)
             /\ Replace(f)[Len(stack)] = f
             /\ \A i \in 1 .. Len(stack) - 1 : Replace(f)[i] = stack[i]
  BY <1>1 DEF Replace
<1>3. /\ Len(Return) = IF 1 <= Len(stack) - 1 THEN Len(stack) - 1 - 1 + 1 ELSE 0
      /\ \A i \in 1 .. Len(stack) - 1 - 1 + 1 : Return[i] = stack[1 + i - 1]
  <2> DEFINE n == Len(stack) - 1
  <2>1. 1 \in Int /\ n \in Int /\ \A i \in 1 .. n : stack[i] \in Frame
    BY <1>1
  <2> HIDE DEF n
  <2>2. /\ Len(SubSeq(stack, 1, n)) = IF 1 <= n THEN n - 1 + 1 ELSE 0
        /\ \A i \in 1 .. n - 1 + 1 : SubSeq(stack, 1, n)[i] = stack[1 + i - 1]
    BY <2>1, SubSeqProperties
  <2> QED BY <2>2 DEF n, Return
<1>4. Len(Return) = Len(stack) - 1
  <2>1. \A n \in Nat : n >= 1 => (IF 1 <= n - 1 THEN n - 1 - 1 + 1 ELSE 0) = n - 1
    OBVIOUS
  <2>2. Len(stack) \in Nat /\ Len(stack) >= 1
    BY <1>1
  <2> QED BY <1>3, <2>1, <2>2, Zenon
<1>5. \A i \in 1 .. Len(stack) - 1 : Return[i] = stack[i]
  BY <1>1, <1>3
<1> QED BY <1>2, <1>4, <1>5

\* The top frame replaced by one that began in the same state and has not
\* restarted the timers: the same is owed.
LEMMA SameOwed ==
  ASSUME TypeOK, stack # << >>, NEW f \in Frame, stack' = Replace(f),
         f.phase # "report", f.old = Top.old,
         NEW s \in State, NEW i \in 1 .. Len(stack), Owes(i, s)
  PROVE  i \in 1 .. Len(stack)' /\ Owes(i, s)'
<1>1. Len(stack)' = Len(stack) /\ Len(stack) \in Nat
  BY StackFrames, FrameTypes
<1>2. CASE i = Len(stack)
  BY <1>1, <1>2, StackFrames DEF Owes, Top
<1>3. CASE i # Len(stack)
  BY <1>1, <1>3, StackFrames DEF Owes
<1> QED BY <1>1, <1>2, <1>3

\* The innermost event() goes on: no frame is about to look for a transition.
LEMMA GoesOn ==
  ASSUME TypeOK, EnterIsFresh, stack # << >>, NEW f \in Frame, f.phase # "enter",
         stack' = Replace(f)
  PROVE  EnterIsFresh'
<1>1. Len(stack)' = Len(stack) /\ Len(stack) \in Nat
  BY StackFrames, FrameTypes
<1>2. \A i \in 1 .. Len(stack) : stack'[i].phase # "enter"
  <2> SUFFICES ASSUME NEW i \in 1 .. Len(stack) PROVE stack'[i].phase # "enter"
    OBVIOUS
  <2>1. CASE i = Len(stack)
    BY <2>1, StackFrames
  <2>2. CASE i # Len(stack)
    <3>1. stack'[i] = stack[i]
      BY <1>1, <2>2, StackFrames
    <3> QED BY <2>2, <3>1 DEF EnterIsFresh
  <2> QED BY <2>1, <2>2
<1> QED BY <1>1, <1>2 DEF EnterIsFresh

\* The timers follow the state, however events nest, until an action raises.
LEMMA TimersStep ==
  ASSUME TimersInv, [Next]_vars
  PROVE  TimersInv'
<1> USE FrameTypes, StackFrames DEF In
<1>1. TypeOK /\ QuietInv /\ TimersOfSome /\ EnterIsFresh
  BY DEF TimersInv
<1>2. TypeOK' /\ QuietInv'
  BY <1>1, TypeStep, QuietStep
<1>3. CASE event
  <2>1. stack' = Append(stack, [phase |-> "enter", old |-> state])
    BY <1>3 DEF event, Call
  <2>2. \A i \in 1 .. Len(stack) : i \in 1 .. Len(stack)' /\ stack'[i] = stack[i]
    BY <1>1, <2>1 DEF TypeOK
  <2>3. TimersOfSome'
    <3>1. disturbed \subseteq disturbed'
      BY <1>3 DEF event
    <3> QED BY <1>1, <1>3, <2>2, <3>1, KeepTimers DEF event, Owes
  <2>4. EnterIsFresh'
    BY <1>1, <1>3, <2>1 DEF event, EnterIsFresh, Top, TypeOK
  <2> QED BY <1>2, <2>3, <2>4 DEF TimersInv
<1>4. CASE NoTransition
  <2> DEFINE f == [Top EXCEPT !.phase = "last"]
  <2>1. f \in Frame /\ f.phase = "last" /\ f.old = Top.old
    BY <1>1, <1>4 DEF NoTransition, Frame
  <2>2. stack' = Replace(f) /\ stack # << >>
    BY <1>4 DEF NoTransition
  <2>3. ASSUME NEW s \in State, NEW i \in 1 .. Len(stack), Owes(i, s)
        PROVE  i \in 1 .. Len(stack)' /\ Owes(i, s)'
    BY <1>1, <2>1, <2>2, <2>3, SameOwed
  <2>4. TimersOfSome'
    BY <1>1, <1>4, <2>3, KeepTimers DEF NoTransition
  <2>5. EnterIsFresh'
    BY <1>1, <2>1, <2>2, GoesOn
  <2> QED BY <1>2, <2>4, <2>5 DEF TimersInv
<1>5. ASSUME NEW t \in State, Transition(t) PROVE TimersInv'
  <2> DEFINE f == [Top EXCEPT !.phase = "actions"]
  <2>1. f \in Frame /\ f.phase = "actions" /\ f.old = Top.old
    BY <1>1, <1>5 DEF Transition, Frame
  <2>2. stack' = Replace(f) /\ stack # << >> /\ Top.old = state
    BY <1>1, <1>5 DEF Transition, EnterIsFresh, Top
  <2>4. TimersOfSome'
    <3> SUFFICES ASSUME alive', "raised" \notin disturbed'
        PROVE  \E s \in State :
                 /\ running' = TimersOf(s)'
                 /\ s = state' \/ \E j \in (1 .. Len(stack))' : Owes(j, s)'
      BY <1>5 DEF TimersOfSome, Transition
    <3>1. PICK s \in State :
            /\ running = TimersOf(s)
            /\ s = state \/ \E i \in 1 .. Len(stack) : Owes(i, s)
      BY <1>1, <1>5 DEF TimersOfSome, Transition
    <3>2. running' = TimersOf(s)'
      BY <3>1, <1>5 DEF Transition, TimersOf
    <3>3. CASE s = state
      <4>1. Owes(Len(stack), s)
        BY <1>5, <2>2, <3>3 DEF Owes, Top, Transition
      <4>2. Len(stack) \in 1 .. Len(stack)
        BY <1>1, <2>2
      <4>3. \E j \in (1 .. Len(stack))' : Owes(j, s)'
        BY <1>1, <2>1, <2>2, <4>1, <4>2, SameOwed
      <4> QED BY <3>2, <4>3
    <3>4. ASSUME NEW i \in 1 .. Len(stack), Owes(i, s)
          PROVE  i \in (1 .. Len(stack))' /\ Owes(i, s)'
      BY <1>1, <2>1, <2>2, <3>4, SameOwed
    <3> QED BY <3>1, <3>2, <3>3, <3>4
  <2>5. EnterIsFresh'
    BY <1>1, <2>1, <2>2, GoesOn
  <2> QED BY <1>2, <2>4, <2>5 DEF TimersInv
<1>6. CASE destroy
  <2> DEFINE f == [Top EXCEPT !.phase = "last"]
  <2>1. f \in Frame /\ f.phase = "last"
    BY <1>1, <1>6 DEF destroy, Frame
  <2>2. stack' = Replace(f) /\ stack # << >>
    BY <1>6 DEF destroy
  <2>3. EnterIsFresh'
    BY <1>1, <2>1, <2>2, GoesOn
  <2>4. TimersOfSome'
    BY <1>6 DEF destroy, TimersOfSome
  <2> QED BY <1>2, <2>3, <2>4 DEF TimersInv
<1>7. CASE Raise
  <2>1. stack' = Return /\ stack # << >> /\ "raised" \in disturbed' /\ UNCHANGED state
    BY <1>7 DEF Raise
  <2>2. TimersOfSome'
    BY <2>1 DEF TimersOfSome
  <2>3. EnterIsFresh'
    BY <1>1, <2>1 DEF EnterIsFresh
  <2> QED BY <1>2, <2>2, <2>3 DEF TimersInv
<1>8. CASE EndOfA
  <2> DEFINE f == Report(Top.old, state)
  <2>1. f \in Frame /\ f.phase = "report"
    BY <1>1, <1>8, ReportType DEF EndOfA, Frame, TypeOK, Report
  <2>2. stack' = Replace(f) /\ stack # << >> /\ UNCHANGED <<state, alive>>
    BY <1>8 DEF EndOfA
  <2>3. EnterIsFresh'
    BY <1>1, <2>1, <2>2, GoesOn
  <2>4. CASE Top.old # state
    <3>1. running' = TimersOf(state)'
      BY <1>8, <2>4 DEF EndOfA, Restart, TimersOf
    <3>2. TimersOfSome'
      BY <1>1, <2>2, <3>1 DEF TimersOfSome, TypeOK, TimersOf
    <3> QED BY <1>2, <2>3, <3>2 DEF TimersInv
  <2>5. CASE Top.old = state
    <3> SUFFICES ASSUME alive', "raised" \notin disturbed'
        PROVE  \E s \in State :
                 /\ running' = TimersOf(s)'
                 /\ s = state' \/ \E j \in (1 .. Len(stack))' : Owes(j, s)'
      BY <1>2, <2>2, <2>3 DEF TimersOfSome, TimersInv
    <3>1. PICK s \in State :
            /\ running = TimersOf(s)
            /\ s = state \/ \E i \in 1 .. Len(stack) : Owes(i, s)
      BY <1>1, <1>8, <2>2 DEF TimersOfSome, EndOfA
    <3>2. running' = TimersOf(s)'
      BY <1>8, <2>5, <3>1 DEF EndOfA, TimersOf
    <3>3. ASSUME s # state, NEW i \in 1 .. Len(stack), Owes(i, s)
          PROVE  i \in (1 .. Len(stack))' /\ Owes(i, s)'
      <4>1. i # Len(stack)
        BY <2>5, <3>3 DEF Owes, Top
      <4> QED BY <1>1, <2>1, <2>2, <3>3, <4>1 DEF Owes
    <3> QED BY <2>2, <3>1, <3>2, <3>3
  <2> QED BY <2>4, <2>5
<1>9. CASE NextList \/ Callback
  <2>1. PICK f \in Frame : stack' = Replace(f) /\ f.phase = "report"
    <3>1. CASE NextList
      <4>1. PICK k \in Top.todo :
              stack' = Replace([Top EXCEPT !.todo = @ \ {k}, !.key = k, !.next = 1])
        BY <3>1 DEF NextList
      <4>2. [Top EXCEPT !.todo = @ \ {k}, !.key = k, !.next = 1] \in Frame
        BY <1>1, <3>1, <4>1 DEF NextList, Frame
      <4>3. [Top EXCEPT !.todo = @ \ {k}, !.key = k, !.next = 1].phase = "report"
        BY <1>1, <3>1, <4>1 DEF NextList, Frame
      <4> QED BY <4>1, <4>2, <4>3
    <3>2. CASE Callback
      <4>1. Top.next \in Nat
        BY <1>1, <3>2 DEF Callback, Frame
      <4>2. [Top EXCEPT !.next = @ + 1] \in Frame
        BY <1>1, <3>2, <4>1 DEF Callback, Frame
      <4>3. [Top EXCEPT !.next = @ + 1].phase = "report"
        BY <1>1, <3>2 DEF Callback, Frame
      <4> QED BY <3>2, <4>2, <4>3 DEF Callback
    <3> QED BY <1>9, <3>1, <3>2
  <2>2. stack # << >> /\ Top.phase = "report" /\ UNCHANGED <<state, alive, running>>
          /\ disturbed \subseteq disturbed'
    BY <1>9 DEF NextList, Callback
  <2>3. ASSUME NEW s \in State, NEW i \in 1 .. Len(stack), Owes(i, s)
        PROVE  i \in 1 .. Len(stack)' /\ Owes(i, s)'
    <3>1. i # Len(stack)
      BY <2>2, <2>3 DEF Owes, Top
    <3> QED BY <1>1, <2>1, <2>2, <2>3, <3>1 DEF Owes
  <2>4. TimersOfSome'
    BY <1>1, <2>2, <2>3, KeepTimers
  <2>5. EnterIsFresh'
    BY <1>1, <2>1, <2>2, GoesOn
  <2> QED BY <1>2, <2>4, <2>5 DEF TimersInv
<1>10. CASE EndOfEvent
  <2>1. stack' = Return /\ stack # << >> /\ Top.phase = "report"
          /\ UNCHANGED <<state, alive, running, disturbed>>
    BY <1>10 DEF EndOfEvent
  <2>2. ASSUME NEW s \in State, NEW i \in 1 .. Len(stack), Owes(i, s)
        PROVE  i \in 1 .. Len(stack)' /\ Owes(i, s)'
    <3>1. i # Len(stack)
      BY <2>1, <2>2 DEF Owes, Top
    <3> QED BY <1>1, <2>1, <2>2, <3>1 DEF Owes
  <2>3. TimersOfSome'
    BY <1>1, <2>1, <2>2, KeepTimers
  <2>4. EnterIsFresh'
    BY <1>1, <2>1 DEF EnterIsFresh
  <2> QED BY <1>2, <2>3, <2>4 DEF TimersInv
<1>11. CASE (\E o \in Observer : addStateChangedCallback(o)) \/ UNCHANGED vars
  <2>1. UNCHANGED <<state, alive, running, stack, disturbed>>
    BY <1>11 DEF addStateChangedCallback, vars
  <2>2. TimersOfSome' /\ EnterIsFresh'
    BY <1>1, <2>1 DEF TimersOfSome, EnterIsFresh, Owes, TimersOf, Top
  <2> QED BY <1>2, <2>2 DEF TimersInv
<1> QED
  BY <1>3, <1>4, <1>5, <1>6, <1>7, <1>8, <1>9, <1>10, <1>11 DEF Next

LEMMA TimersInit == Init => TimersInv
<1> SUFFICES ASSUME Init PROVE TimersInv
  OBVIOUS
<1>1. QuietInv /\ EnterIsFresh
  BY DEF Init, QuietInv, DestroyedIsQuiet, EnterIsFresh
<1>2. TimersOfSome
  BY StateAssumption DEF Init, TimersOfSome
<1>3. TypeOK
  BY TypeInit
<1> QED BY <1>1, <1>2, <1>3 DEF TimersInv

\* Between events the timers of a machine are the ones of its state, and a
\* destroyed machine has none: for any nesting of events in actions and in
\* callbacks, as long as no action has raised.
THEOREM TimersCorrect == Spec => []TimersFollowState
<1>1. TimersInv /\ [Next]_vars => TimersInv'
  BY TimersStep
<1>2. TimersInv => TimersFollowState
  BY DEF TimersInv, TimersFollowState, Idle, TimersOfSome, QuietInv,
         DestroyedIsQuiet, TypeOK
<1> QED BY <1>1, <1>2, TimersInit, PTL DEF Spec

\* Between events the timers that run are those of the state, and a destroyed
\* machine runs none.
THEOREM TimersAreSound == Spec => []TimersSound
<1>1. TimersFollowState /\ DestroyedIsQuiet => TimersSound
  BY DEF TimersSound
<1> QED BY <1>1, TimersCorrect, DestroyedStaysQuiet, PTL

-----------------------------------------------------------------------------
(* Observers                                                               *)

\* The frame i is about to call o.
Calls(i, o) ==
  /\ stack[i].phase = "report"
  /\ \/ watch[o] \in stack[i].todo
     \/ /\ stack[i].key = watch[o] /\ stack[i].next >= 1
        /\ \E j \in DOMAIN callbacks[watch[o]] :
             j >= stack[i].next /\ callbacks[watch[o]][j] = o

\* Without events from callbacks only the innermost event() reports, and it
\* reports the state.  Who watches every change knows that state, or will.
HeardInv ==
  /\ \A i \in 1 .. Len(stack) - 1 : stack[i].phase = "actions"
  /\ In("report") => Top.new = state
  /\ \A o \in Observer : Registered(o) /\ watch[o] = None =>
       \/ heard[o] = state
       \/ stack # << >> /\ Top.phase # "report" /\ (alive \/ dying)
       \/ stack # << >> /\ Calls(Len(stack), o)

\* The frame i will collect the callbacks of o when its actions are over.
Collects(i, o) ==
  stack[i].phase # "report" /\ (watch[o] = None \/ stack[i].old # state)

\* Who was not told of the state the machine is in is going to be.  Of a destroyed
\* machine only the event() that destroyed it still collects callbacks.
AwareInv ==
  \A o \in unaware : Watches(o, state) =>
    \/ \E i \in 1 .. Len(stack) : Calls(i, o)
    \/ alive /\ \E i \in 1 .. Len(stack) : Collects(i, o)
    \/ dying /\ In("last") /\ Collects(Len(stack), o)

ActionsBeganAlive ==
  \A i \in 1 .. Len(stack) : stack[i].phase = "actions" => stack[i].old \notin Final

UnawareIsRegistered == \A o \in unaware : Registered(o)

ObserverInv ==
  /\ TimersInv /\ ActionsBeganAlive /\ UnawareIsRegistered
  /\ disturbed = {} => HeardInv
  /\ disturbed \subseteq {"answered"} => AwareInv

LEMMA ObserverParts ==
  ASSUME ObserverInv
  PROVE  /\ TypeOK /\ EnterIsFresh /\ (state \notin Final => alive)
         /\ ActionsBeganAlive /\ UnawareIsRegistered
         /\ disturbed = {} => HeardInv
         /\ disturbed \subseteq {"answered"} => AwareInv
  BY DEF ObserverInv, TimersInv, QuietInv

LEMMA ObserverTogether ==
  ASSUME ObserverInv, [Next]_vars, ActionsBeganAlive', UnawareIsRegistered',
         disturbed' = {} => HeardInv', disturbed' \subseteq {"answered"} => AwareInv'
  PROVE  ObserverInv'
  BY TimersStep DEF ObserverInv

\* What a list of callbacks keeps when one of them is removed.
LEMMA WithoutKeeps ==
  ASSUME NEW S, NEW q \in Seq(S), NEW i \in DOMAIN q
  PROVE  /\ Len(Without(q, i)) = Len(q) - 1
         /\ \A j \in DOMAIN q : j < i => j \in DOMAIN Without(q, i) /\ Without(q, i)[j] = q[j]
         /\ \A j \in DOMAIN q : j > i =>
               j - 1 \in DOMAIN Without(q, i) /\ Without(q, i)[j - 1] = q[j]
         /\ \A j \in DOMAIN Without(q, i) : \E k \in DOMAIN q : Without(q, i)[j] = q[k]
<1> DEFINE n == Len(q)
           a == SubSeq(q, 1, i - 1)
           b == SubSeq(q, i + 1, n)
<1>1. n \in Nat /\ i \in 1 .. n /\ \A j \in 1 .. n : q[j] \in S
  OBVIOUS
<1>2. a \in Seq(S) /\ Len(a) = i - 1 /\ \A j \in 1 .. i - 1 : a[j] = q[j]
  BY <1>1
<1>3. b \in Seq(S) /\ Len(b) = n - i /\ \A j \in 1 .. n - i : b[j] = q[i + j]
  BY <1>1
<1>4. Without(q, i) = a \o b
  BY DEF Without
<1> HIDE DEF a, b
<1>5. /\ Len(a \o b) = n - 1
      /\ \A j \in 1 .. n - 1 : (a \o b)[j] = IF j < i THEN q[j] ELSE q[j + 1]
  <2> HIDE DEF n
  <2>1. /\ Len(a \o b) = Len(a) + Len(b)
        /\ \A j \in 1 .. Len(a) + Len(b) :
             (a \o b)[j] = IF j <= Len(a) THEN a[j] ELSE b[j - Len(a)]
    BY <1>2, <1>3, ConcatProperties
  <2>2. Len(a) + Len(b) = n - 1
    BY <1>1, <1>2, <1>3
  <2>3. ASSUME NEW j \in 1 .. n - 1, j < i
        PROVE  (a \o b)[j] = q[j]
    <3>1. j \in 1 .. i - 1
      BY <1>1, <2>3
    <3> QED  BY <1>2, <2>1, <2>2, <3>1
  <2>4. ASSUME NEW j \in 1 .. n - 1, ~(j < i)
        PROVE  (a \o b)[j] = q[j + 1]
    <3>1. ~(j <= i - 1) /\ j - (i - 1) \in 1 .. n - i /\ i + (j - (i - 1)) = j + 1
      BY <1>1, <2>4
    <3>2. (a \o b)[j] = b[j - (i - 1)]
      BY <1>2, <2>1, <2>2, <3>1
    <3> QED  BY <1>3, <3>1, <3>2
  <2> QED  BY <2>1, <2>2, <2>3, <2>4
<1> DEFINE w == Without(q, i)
<1>6. w \in Seq(S) /\ Len(w) = n - 1
  BY <1>2, <1>3, <1>4, <1>5
<1>7. \A j \in 1 .. n - 1 : w[j] = IF j < i THEN q[j] ELSE q[j + 1]
  BY <1>4, <1>5
<1> HIDE DEF w
<1>8. DOMAIN w = 1 .. n - 1 /\ DOMAIN q = 1 .. n
  BY <1>6
<1> HIDE DEF n
<1>9. \A j \in 1 .. n : j < i => j \in 1 .. n - 1 /\ w[j] = q[j]
  BY <1>1, <1>7
<1>10. \A j \in 1 .. n : j > i => j - 1 \in 1 .. n - 1 /\ w[j - 1] = q[j]
  BY <1>1, <1>7
<1>11. \A j \in 1 .. n - 1 : w[j] = q[j] \/ (j + 1 \in 1 .. n /\ w[j] = q[j + 1])
  BY <1>1, <1>7
<1>12. \A j \in 1 .. n - 1 : j \in 1 .. n
  BY <1>1
<1> QED
  BY <1>6, <1>8, <1>9, <1>10, <1>11, <1>12 DEF w, n

\* Replacing, taking away and adding the innermost frame.
LEMMA ReplaceFrames ==
  ASSUME TypeOK, stack # << >>, NEW f \in Frame, stack' = Replace(f)
  PROVE  /\ Len(stack) \in Nat /\ Len(stack) >= 1 /\ Len(stack)' = Len(stack)
         /\ stack' # << >> /\ Top' = f
         /\ \A i \in 1 .. Len(stack) - 1 : stack'[i] = stack[i]
<1>1. Len(stack) \in Nat /\ Len(stack) >= 1 /\ Len(stack)' = Len(stack)
  BY FrameTypes, StackFrames
<1>2. stack'[Len(stack)] = f /\ \A i \in 1 .. Len(stack) - 1 : stack'[i] = stack[i]
  BY StackFrames
<1>3. stack' # << >>
  BY <1>1
<1> QED
  BY <1>1, <1>2, <1>3 DEF Top

LEMMA ReturnFrames ==
  ASSUME TypeOK, stack # << >>, stack' = Return
  PROVE  /\ Len(stack) \in Nat /\ Len(stack) >= 1 /\ Len(stack)' = Len(stack) - 1
         /\ \A i \in 1 .. Len(stack) - 1 : stack'[i] = stack[i]
  BY FrameTypes, StackFrames

LEMMA PushFrames ==
  ASSUME TypeOK, NEW f \in Frame, stack' = Append(stack, f)
  PROVE  /\ Len(stack) \in Nat /\ Len(stack)' = Len(stack) + 1
         /\ stack' # << >> /\ Top' = f
         /\ \A i \in 1 .. Len(stack) : stack'[i] = stack[i]
<1>1. stack \in Seq(Frame)
  BY DEF TypeOK
<1> QED
  BY <1>1 DEF Top

LEMMA RegisteredKept ==
  ASSUME UNCHANGED callbacks
  PROVE  \A o \in Observer : Registered(o)' <=> Registered(o)
  BY DEF Registered

\* The innermost event() goes from one phase to another before it reports: who
\* it is to call, and who calls whom, stays as it is.
LEMMA PhaseKeeps ==
  ASSUME ObserverInv, stack # << >>, NEW f \in Frame, stack' = Replace(f),
         Top.phase \in {"enter", "actions"}, f.phase = "last", f.old = Top.old,
         UNCHANGED <<state, callbacks, heard, unaware, disturbed>>,
         \/ alive' = alive /\ dying' = dying
         \/ alive /\ ~alive' /\ dying' /\ Top.old # state
  PROVE  /\ ActionsBeganAlive' /\ UnawareIsRegistered'
         /\ disturbed' = {} => HeardInv'
         /\ disturbed' \subseteq {"answered"} => AwareInv'
<1> DEFINE n == Len(stack)
<1>1. /\ n \in Nat /\ n >= 1 /\ Len(stack)' = n /\ stack' # << >> /\ Top' = f
      /\ \A i \in 1 .. n - 1 : stack'[i] = stack[i]
      /\ stack'[n] = f
  BY ObserverParts, ReplaceFrames DEF Top
<1>2. Top = stack[n]
  BY DEF Top
<1> HIDE DEF n
<1>3. ActionsBeganAlive'
  BY <1>1, ObserverParts DEF ActionsBeganAlive, n
<1>4. UnawareIsRegistered'
  BY ObserverParts, RegisteredKept DEF UnawareIsRegistered, TypeOK
<1>5. ASSUME disturbed' = {} PROVE HeardInv'
  <2>1. HeardInv
    BY <1>5, ObserverParts
  <2>2. (\A i \in 1 .. Len(stack) - 1 : stack[i].phase = "actions")' /\ ~In("report")'
    BY <1>1, <2>1 DEF HeardInv, In, n
  <2>3. ASSUME NEW o \in Observer, Registered(o), watch[o] = None
        PROVE  heard[o] = state \/ alive' \/ dying'
    BY <1>2, <2>1, <2>3 DEF HeardInv, Calls, n
  <2> QED
    BY <1>1, <2>2, <2>3, RegisteredKept DEF HeardInv
<1>6. ASSUME disturbed' \subseteq {"answered"} PROVE AwareInv'
  <2>1. AwareInv
    BY <1>6, ObserverParts
  <2>2. \A o \in Observer, i \in 1 .. n : Calls(i, o) => i # n /\ Calls(i, o)'
    BY <1>1, <1>2 DEF Calls, n
  <2>3. \A o \in Observer, i \in 1 .. n : Collects(i, o) => Collects(i, o)'
    BY <1>1, <1>2 DEF Collects
  <2>4. In("last")' /\ n \in 1 .. n /\ ~In("last")
    BY <1>1 DEF In
  <2>5. ASSUME NEW o \in unaware', Watches(o, state')
        PROVE  \/ \E i \in 1 .. n : Calls(i, o)'
               \/ alive' /\ \E i \in 1 .. n : Collects(i, o)'
               \/ dying' /\ In("last")' /\ Collects(Len(stack), o)'
    <3>1. o \in Observer /\ o \in unaware
      BY ObserverParts DEF TypeOK
    <3>2. \/ \E i \in 1 .. n : Calls(i, o)
          \/ alive /\ \E i \in 1 .. n : Collects(i, o)
      BY <2>1, <2>4, <2>5, <3>1 DEF AwareInv, Watches, n
    <3>3. CASE alive' = alive
      BY <2>2, <2>3, <3>1, <3>2, <3>3
    <3>4. CASE dying' /\ Top.old # state
      <4>1. Collects(Len(stack), o)'
        BY <1>1, <3>4 DEF Collects
      <4> QED
        BY <2>4, <3>4, <4>1
    <3> QED
      BY <3>3, <3>4
  <2> QED
    BY <1>1, <2>5 DEF AwareInv, Watches
<1> QED
  BY <1>3, <1>4, <1>5, <1>6

LEMMA ObserversOfEvent ==
  ASSUME ObserverInv, event
  PROVE  /\ ActionsBeganAlive' /\ UnawareIsRegistered'
         /\ disturbed' = {} => HeardInv'
         /\ disturbed' \subseteq {"answered"} => AwareInv'
<1> DEFINE n == Len(stack)
           f == [phase |-> "enter", old |-> state]
<1>1. /\ stack = << >> \/ In("actions") \/ In("report")
      /\ UNCHANGED <<state, alive, dying, callbacks, heard, unaware>>
      /\ stack' = Append(stack, f)
      /\ disturbed' = IF In("report") THEN disturbed \cup {"answered"} ELSE disturbed
  BY DEF event, Call
<1>2. f \in Frame
  BY ObserverParts DEF Frame, TypeOK
<1>3. /\ n \in Nat /\ Len(stack)' = n + 1 /\ stack' # << >> /\ Top' = f
      /\ \A i \in 1 .. n : stack'[i] = stack[i]
  BY <1>1, <1>2, ObserverParts, PushFrames
<1>4. stack'[n + 1] = f /\ (stack # << >> => n \in 1 .. n /\ Top = stack[n])
  BY <1>3, ObserverParts, FrameTypes DEF Top
<1> HIDE DEF n, f
<1>5. f.phase = "enter" /\ f.old = state
  BY DEF f
<1>6. ActionsBeganAlive'
  BY <1>1, <1>3, <1>4, <1>5, ObserverParts DEF ActionsBeganAlive, n
<1>7. UnawareIsRegistered'
  BY <1>1, ObserverParts, RegisteredKept DEF UnawareIsRegistered, TypeOK
<1>8. ASSUME disturbed' = {} PROVE HeardInv'
  <2>1. HeardInv /\ (stack = << >> \/ In("actions"))
    BY <1>1, <1>8, ObserverParts
  <2>2. \A i \in 1 .. n : stack[i].phase = "actions"
    BY <1>3, <1>4, <2>1 DEF HeardInv, In, n
  <2>3. (\A i \in 1 .. Len(stack) - 1 : stack[i].phase = "actions")' /\ ~In("report")'
    BY <1>3, <1>5, <2>2 DEF In
  <2>4. ASSUME NEW o \in Observer, Registered(o), watch[o] = None
        PROVE  heard[o] = state \/ alive \/ dying
    BY <1>4, <2>1, <2>2, <2>4 DEF HeardInv, Calls, n
  <2> QED
    BY <1>1, <1>3, <1>5, <2>3, <2>4, RegisteredKept DEF HeardInv
<1>9. ASSUME disturbed' \subseteq {"answered"} PROVE AwareInv'
  <2>1. AwareInv
    BY <1>1, <1>9, ObserverParts
  <2>2. \A o \in Observer, i \in 1 .. n : Calls(i, o) => Calls(i, o)'
    BY <1>1, <1>3 DEF Calls
  <2>3. \A o \in Observer, i \in 1 .. n : Collects(i, o) => Collects(i, o)'
    BY <1>1, <1>3 DEF Collects
  <2>4. ~In("last") /\ \A i \in 1 .. n : i \in 1 .. Len(stack)'
    BY <1>1, <1>3 DEF In
  <2>5. ASSUME NEW o \in unaware', Watches(o, state')
        PROVE  \/ \E i \in 1 .. Len(stack)' : Calls(i, o)'
               \/ alive' /\ \E i \in 1 .. Len(stack)' : Collects(i, o)'
    <3>1. o \in Observer /\ o \in unaware
      BY <1>1, ObserverParts DEF TypeOK
    <3>2. \/ \E i \in 1 .. n : Calls(i, o)
          \/ alive /\ \E i \in 1 .. n : Collects(i, o)
      BY <1>1, <2>1, <2>4, <2>5, <3>1 DEF AwareInv, Watches, n
    <3> QED
      BY <1>1, <2>2, <2>3, <2>4, <3>1, <3>2
  <2> QED
    BY <2>5 DEF AwareInv, Watches
<1> QED
  BY <1>6, <1>7, <1>8, <1>9

\* A new state is announced by the event() that entered it.
LEMMA ObserversOfTransition ==
  ASSUME ObserverInv, NEW t \in State, Transition(t)
  PROVE  /\ ActionsBeganAlive' /\ UnawareIsRegistered'
         /\ disturbed' = {} => HeardInv'
         /\ disturbed' \subseteq {"answered"} => AwareInv'
<1>0. PICK n \in Nat : n = Len(stack)
  BY ObserverParts, FrameTypes
<1> DEFINE f == [Top EXCEPT !.phase = "actions"]
<1>1. /\ In("enter") /\ stack # << >> /\ state \notin Final /\ stack' = Replace(f)
      /\ state' = t
      /\ unaware' = IF t = state THEN unaware
                    ELSE unaware \cup {o \in Observer : Registered(o) /\ Watches(o, t)}
      /\ UNCHANGED <<alive, dying, callbacks, heard, disturbed>>
  BY DEF Transition, In
<1>2. f \in Frame /\ f.phase = "actions" /\ f.old = Top.old
  BY <1>1, ObserverParts, FrameTypes DEF In, Frame
<1>3. /\ n \in Nat /\ n >= 1 /\ Len(stack)' = n /\ stack' # << >> /\ Top' = f
      /\ \A i \in 1 .. n - 1 : stack'[i] = stack[i]
  BY <1>0, <1>1, <1>2, ObserverParts, ReplaceFrames
<1>4. stack'[n] = f /\ Top = stack[n] /\ n \in 1 .. n
  BY <1>0, <1>3 DEF Top
<1> HIDE DEF f
<1>5. Top.old = state /\ alive
  BY <1>0, <1>1, <1>4, ObserverParts DEF In, EnterIsFresh
<1>6. ActionsBeganAlive'
  BY <1>0, <1>1, <1>2, <1>3, <1>4, <1>5, ObserverParts DEF ActionsBeganAlive
<1>7. UnawareIsRegistered'
  <2>1. \A o \in unaware' : o \in Observer /\ Registered(o)
    BY <1>1, ObserverParts DEF UnawareIsRegistered, TypeOK
  <2> QED
    BY <1>1, <2>1, RegisteredKept DEF UnawareIsRegistered
<1>8. ASSUME disturbed' = {} PROVE HeardInv'
  <2>1. HeardInv
    BY <1>1, <1>8, ObserverParts
  <2>2. (\A i \in 1 .. Len(stack) - 1 : stack[i].phase = "actions")' /\ ~In("report")'
    BY <1>0, <1>2, <1>3, <2>1 DEF In, HeardInv
  <2> QED
    BY <1>1, <1>2, <1>3, <1>5, <2>2 DEF HeardInv
<1>9. ASSUME disturbed' \subseteq {"answered"} PROVE AwareInv'
  <2>1. AwareInv
    BY <1>1, <1>9, ObserverParts
  <2>2. ASSUME NEW o \in unaware', Watches(o, state')
        PROVE  \/ \E i \in 1 .. n : Calls(i, o)'
               \/ \E i \in 1 .. n : Collects(i, o)'
    <3>1. o \in Observer
      BY <1>1, ObserverParts DEF TypeOK
    <3>2. CASE t # state
      <4>1. Collects(n, o)'
        BY <1>1, <1>2, <1>4, <1>5, <3>2 DEF Collects
      <4> QED
        BY <1>4, <4>1
    <3>3. CASE t = state
      <4>1. o \in unaware /\ Watches(o, state) /\ ~In("last")
        BY <1>1, <2>2, <3>3 DEF Watches, In
      <4>2. \/ \E i \in 1 .. n : Calls(i, o)
            \/ \E i \in 1 .. n : Collects(i, o)
        BY <1>0, <2>1, <4>1 DEF AwareInv
      <4>3. \A i \in 1 .. n : Calls(i, o) => Calls(i, o)'
        <5>1. ~Calls(n, o)
          BY <1>1, <1>4 DEF Calls, In
        <5> QED
          BY <1>1, <1>3, <5>1 DEF Calls
      <4>4. \A i \in 1 .. n : Collects(i, o) => Collects(i, o)'
        BY <1>1, <1>2, <1>3, <1>4, <3>3 DEF Collects
      <4> QED
        BY <4>2, <4>3, <4>4
    <3> QED
      BY <3>2, <3>3
  <2> QED
    BY <1>1, <1>3, <1>5, <2>2 DEF AwareInv, Watches
<1> QED
  BY <1>6, <1>7, <1>8, <1>9

LEMMA ObserversOfRaise ==
  ASSUME ObserverInv, Raise
  PROVE  /\ ActionsBeganAlive' /\ UnawareIsRegistered'
         /\ disturbed' = {} => HeardInv'
         /\ disturbed' \subseteq {"answered"} => AwareInv'
<1>1. /\ stack # << >> /\ stack' = Return /\ "raised" \in disturbed'
      /\ UNCHANGED <<state, callbacks, unaware>>
  BY DEF Raise, In
<1>2. ActionsBeganAlive'
  BY <1>1, ObserverParts, ReturnFrames DEF ActionsBeganAlive
<1>3. UnawareIsRegistered'
  BY <1>1, ObserverParts, RegisteredKept DEF UnawareIsRegistered, TypeOK
<1> QED
  BY <1>1, <1>2, <1>3

\* The callbacks that were due are collected.
LEMMA ObserversOfEndOfA ==
  ASSUME ObserverInv, EndOfA
  PROVE  /\ ActionsBeganAlive' /\ UnawareIsRegistered'
         /\ disturbed' = {} => HeardInv'
         /\ disturbed' \subseteq {"answered"} => AwareInv'
<1>0. PICK n \in Nat : n = Len(stack)
  BY ObserverParts, FrameTypes
<1> DEFINE f == Report(Top.old, state)
<1>1. /\ (In("actions") \/ In("last")) /\ stack # << >> /\ stack' = Replace(f)
      /\ UNCHANGED <<state, alive, dying, callbacks, heard, unaware, disturbed>>
  BY DEF EndOfA, In
<1>2. stack # << >> /\ Top.phase # "report"
  BY <1>1 DEF In
<1>3. /\ f \in Frame /\ f.phase = "report" /\ f.new = state
      /\ f.todo = Keys(Top.old, state)
  <2>1. Top.old \in State
    BY <1>1, ObserverParts, FrameTypes DEF In, Frame
  <2> QED
    BY <2>1, ObserverParts, ReportType DEF Report, TypeOK
<1>4. stack' = Replace(f)
  BY DEF EndOfA
<1>5. /\ n \in Nat /\ n >= 1 /\ Len(stack)' = n /\ stack' # << >> /\ Top' = f
      /\ \A i \in 1 .. n - 1 : stack'[i] = stack[i]
  BY <1>0, <1>2, <1>3, <1>4, ObserverParts, ReplaceFrames
<1>6. stack'[n] = f /\ Top = stack[n] /\ n \in 1 .. n
  BY <1>0, <1>5 DEF Top
<1> HIDE DEF f
<1>7. UNCHANGED <<state, alive, dying, callbacks, heard, unaware, disturbed>>
  BY DEF EndOfA
<1>8. ActionsBeganAlive'
  BY <1>0, <1>3, <1>5, <1>6, ObserverParts DEF ActionsBeganAlive
<1>9. UnawareIsRegistered'
  BY <1>7, ObserverParts, RegisteredKept DEF UnawareIsRegistered, TypeOK
<1>10. ASSUME NEW o \in Observer, Watches(o, state), alive \/ dying, Collects(n, o)
       PROVE  Calls(n, o)'
  <2>1. watch[o] \in Key
    BY ObserverAssumption DEF Key
  <2>2. watch[o] \in f.todo
    BY <1>0, <1>3, <1>6, <1>10, <2>1 DEF Keys, Collects, Watches
  <2> QED
    BY <1>0, <1>3, <1>6, <2>2 DEF Calls
<1>11. ASSUME disturbed' = {} PROVE HeardInv'
  <2>1. HeardInv
    BY <1>0, <1>7, <1>11, ObserverParts
  <2>2. (\A i \in 1 .. Len(stack) - 1 : stack[i].phase = "actions")'
    BY <1>0, <1>5, <2>1 DEF HeardInv
  <2>3. ASSUME NEW o \in Observer, Registered(o), watch[o] = None
        PROVE  heard[o] = state \/ Calls(n, o)'
    <3>1. Watches(o, state) /\ Collects(n, o) /\ ~Calls(n, o)
      BY <1>0, <1>2, <1>6, <2>3 DEF Watches, Collects, Calls
    <3>2. heard[o] = state \/ alive \/ dying
      BY <1>0, <2>1, <2>3, <3>1 DEF HeardInv
    <3> QED
      BY <1>0, <1>10, <3>1, <3>2
  <2> QED
    BY <1>0, <1>3, <1>5, <1>7, <2>2, <2>3, RegisteredKept DEF HeardInv, In
<1>12. ASSUME disturbed' \subseteq {"answered"} PROVE AwareInv'
  <2>1. AwareInv
    BY <1>0, <1>7, <1>12, ObserverParts
  <2>2. ASSUME NEW o \in unaware', Watches(o, state')
        PROVE  \/ \E i \in 1 .. n : Calls(i, o)'
               \/ alive /\ \E i \in 1 .. n : Collects(i, o)'
    <3>1. o \in Observer /\ o \in unaware /\ Watches(o, state)
      BY <1>0, <1>7, <2>2, ObserverParts DEF TypeOK, Watches
    <3>2. \/ \E i \in 1 .. n : Calls(i, o)
          \/ alive /\ \E i \in 1 .. n : Collects(i, o)
          \/ dying /\ Collects(n, o)
      BY <1>0, <2>1, <3>1 DEF AwareInv
    <3>3. \A i \in 1 .. n : Calls(i, o) => Calls(i, o)'
      <4>1. ~Calls(n, o)
        BY <1>0, <1>2, <1>6 DEF Calls
      <4> QED
        BY <1>0, <1>5, <1>7, <4>1 DEF Calls
    <3>4. \A i \in 1 .. n : i # n /\ Collects(i, o) => Collects(i, o)'
      BY <1>0, <1>5, <1>7 DEF Collects
    <3> QED
      BY <1>0, <1>6, <1>10, <3>1, <3>2, <3>3, <3>4
  <2> QED
    BY <1>0, <1>5, <1>7, <2>2 DEF AwareInv, Watches
<1> QED
  BY <1>8, <1>9, <1>11, <1>12

\* The next list is taken: who is on it is behind its first place.
LEMMA ObserversOfNextList ==
  ASSUME ObserverInv, NextList
  PROVE  /\ ActionsBeganAlive' /\ UnawareIsRegistered'
         /\ disturbed' = {} => HeardInv'
         /\ disturbed' \subseteq {"answered"} => AwareInv'
<1>0. PICK n \in Nat : n = Len(stack)
  BY ObserverParts, FrameTypes
<1>1. /\ In("report") /\ stack # << >>
      /\ Top.next = 0 \/ Top.next > Len(callbacks[Top.key])
      /\ UNCHANGED <<state, alive, dying, callbacks, heard, unaware, disturbed>>
  BY DEF NextList, In
<1>2. PICK k \in Top.todo :
        stack' = Replace([Top EXCEPT !.todo = @ \ {k}, !.key = k, !.next = 1])
  BY DEF NextList
<1> DEFINE f == [Top EXCEPT !.todo = @ \ {k}, !.key = k, !.next = 1]
<1>3. Top \in Frame /\ Top.phase = "report"
  BY <1>1, ObserverParts, FrameTypes DEF In
<1>4. /\ f \in Frame /\ f.phase = "report" /\ f.new = Top.new
      /\ f.todo = Top.todo \ {k} /\ f.key = k /\ f.next = 1
  BY <1>3 DEF Frame
<1>5. Top.next \in Nat /\ Top.key \in Key
  BY <1>3 DEF Frame
<1>6. /\ n >= 1 /\ Len(stack)' = n /\ stack' # << >> /\ Top' = f
      /\ \A i \in 1 .. n - 1 : stack'[i] = stack[i]
  BY <1>0, <1>1, <1>2, <1>4, ObserverParts, ReplaceFrames
<1>7. stack'[n] = f /\ Top = stack[n] /\ n \in 1 .. n
  BY <1>0, <1>6 DEF Top
<1> HIDE DEF f
<1>8. ActionsBeganAlive'
  BY <1>0, <1>4, <1>6, <1>7, ObserverParts DEF ActionsBeganAlive
<1>9. UnawareIsRegistered'
  BY <1>1, ObserverParts, RegisteredKept DEF UnawareIsRegistered, TypeOK
<1>10. ASSUME NEW o \in Observer, Registered(o), Calls(n, o)
       PROVE  Calls(n, o)'
  <2>1. callbacks[watch[o]] \in Seq(Observer)
    BY ObserverParts, ObserverAssumption DEF TypeOK, Key
  <2>2. watch[o] \in Top.todo
    BY <1>1, <1>5, <1>7, <1>10, <2>1 DEF Calls
  <2>3. CASE watch[o] = k
    BY <1>1, <1>4, <1>7, <1>10, <2>1, <2>3 DEF Calls, Registered
  <2>4. CASE watch[o] # k
    BY <1>4, <1>7, <2>2, <2>4 DEF Calls
  <2> QED
    BY <2>3, <2>4
<1>11. ASSUME disturbed' = {} PROVE HeardInv'
  <2>1. HeardInv
    BY <1>1, <1>11, ObserverParts
  <2>2. (\A i \in 1 .. Len(stack) - 1 : stack[i].phase = "actions")' /\ Top'.new = state'
    BY <1>0, <1>1, <1>4, <1>6, <2>1 DEF HeardInv
  <2>3. ASSUME NEW o \in Observer, Registered(o), watch[o] = None
        PROVE  heard[o] = state \/ Calls(n, o)'
    BY <1>0, <1>3, <1>10, <2>1, <2>3 DEF HeardInv
  <2> QED
    BY <1>1, <1>6, <2>2, <2>3, RegisteredKept DEF HeardInv
<1>12. ASSUME disturbed' \subseteq {"answered"} PROVE AwareInv'
  <2>1. AwareInv
    BY <1>1, <1>12, ObserverParts
  <2>2. ASSUME NEW o \in unaware', Watches(o, state')
        PROVE  \/ \E i \in 1 .. n : Calls(i, o)'
               \/ alive' /\ \E i \in 1 .. n : Collects(i, o)'
    <3>1. o \in Observer /\ o \in unaware /\ Watches(o, state) /\ Registered(o)
      BY <1>1, <2>2, ObserverParts DEF TypeOK, Watches, UnawareIsRegistered
    <3>2. \/ \E i \in 1 .. n : Calls(i, o)
          \/ alive /\ \E i \in 1 .. n : Collects(i, o)
      BY <1>0, <1>3, <2>1, <3>1 DEF AwareInv, In
    <3>3. \A i \in 1 .. n : Calls(i, o) => Calls(i, o)'
      <4>1. \A i \in 1 .. n - 1 : Calls(i, o) => Calls(i, o)'
        BY <1>1, <1>6 DEF Calls
      <4> QED
        BY <1>10, <3>1, <4>1
    <3>4. \A i \in 1 .. n : Collects(i, o) => Collects(i, o)'
      <4>1. ~Collects(n, o)
        BY <1>3, <1>7 DEF Collects
      <4> QED
        BY <1>1, <1>6, <4>1 DEF Collects
    <3> QED
      BY <1>1, <3>2, <3>3, <3>4
  <2> QED
    BY <1>6, <2>2 DEF AwareInv, Watches
<1> QED
  BY <1>8, <1>9, <1>11, <1>12

\* What a call does to the lists: the others stay on them, and at their places
\* unless the one that left had others behind it.
LEMMA CallbackLists ==
  ASSUME TypeOK, Callback, NEW c, c = callbacks[Top.key][Top.next]
  PROVE  /\ c \in Observer
         /\ \A o \in Observer : o # c /\ Registered(o) => Registered(o)'
         /\ \A o \in Observer : Registered(o)' => Registered(o)
         /\ "left" \notin disturbed' =>
              \A o \in Observer : \A j \in DOMAIN callbacks[watch[o]] :
                o # c /\ callbacks[watch[o]][j] = o =>
                  j \in DOMAIN callbacks'[watch[o]] /\ callbacks'[watch[o]][j] = o
<1>1. Top \in Frame /\ Top.phase = "report" /\ Top.next \in DOMAIN callbacks[Top.key]
  BY FrameTypes DEF Callback, In
<1>2. Top.key \in Key
  BY <1>1 DEF Frame
<1> DEFINE q == callbacks[Top.key]
           i == Top.next
<1>3. q \in Seq(Observer) /\ i \in DOMAIN q /\ c \in Observer /\ c = q[i]
  BY <1>1, <1>2 DEF TypeOK
<1>4. \/ UNCHANGED callbacks
      \/ /\ callbacks' = [callbacks EXCEPT ![Top.key] = Without(q, i)]
         /\ callbacks' # callbacks
  BY DEF Callback
<1>5. callbacks' # callbacks /\ i # Len(q) => "left" \in disturbed'
  BY DEF Callback
<1> HIDE DEF q, i
<1>6. \A o \in Observer : watch[o] \in Key
  BY ObserverAssumption DEF Key
<1>7. CASE UNCHANGED callbacks
  BY <1>3, <1>7 DEF Registered
<1>8. CASE callbacks' # callbacks /\ callbacks' = [callbacks EXCEPT ![Top.key] = Without(q, i)]
  <2>1. \A k \in Key : callbacks'[k] = IF k = Top.key THEN Without(q, i) ELSE callbacks[k]
    BY <1>8 DEF TypeOK
  <2>2. /\ \A j \in DOMAIN q : j < i => j \in DOMAIN Without(q, i) /\ Without(q, i)[j] = q[j]
        /\ \A j \in DOMAIN q : j > i =>
              j - 1 \in DOMAIN Without(q, i) /\ Without(q, i)[j - 1] = q[j]
        /\ \A j \in DOMAIN Without(q, i) : \E k \in DOMAIN q : Without(q, i)[j] = q[k]
    BY <1>3, WithoutKeeps
  <2>3. DOMAIN q = 1 .. Len(q) /\ Len(q) \in Nat
    BY <1>3
  <2>4. ASSUME NEW o \in Observer, o # c, Registered(o) PROVE Registered(o)'
    <3>1. PICK j \in DOMAIN callbacks[watch[o]] : callbacks[watch[o]][j] = o
      BY <2>4 DEF Registered
    <3>2. CASE watch[o] # Top.key
      BY <1>6, <2>1, <3>1, <3>2 DEF Registered
    <3>3. CASE watch[o] = Top.key
      <4>1. j \in DOMAIN q /\ q[j] = o /\ j # i
        BY <1>3, <2>4, <3>1, <3>3 DEF q
      <4>2. \E k \in DOMAIN Without(q, i) : Without(q, i)[k] = o
        <5>1. j < i \/ j > i
          BY <1>3, <2>3, <4>1
        <5> QED
          BY <2>2, <4>1, <5>1
      <4> QED
        BY <1>6, <2>1, <3>3, <4>2 DEF Registered
    <3> QED
      BY <3>2, <3>3
  <2>5. ASSUME NEW o \in Observer, Registered(o)' PROVE Registered(o)
    <3>1. PICK j \in DOMAIN callbacks'[watch[o]] : callbacks'[watch[o]][j] = o
      BY <2>5 DEF Registered
    <3>2. CASE watch[o] # Top.key
      BY <1>6, <2>1, <3>1, <3>2 DEF Registered
    <3>3. CASE watch[o] = Top.key
      <4>1. \E k \in DOMAIN q : q[k] = o
        BY <1>6, <2>1, <2>2, <3>1, <3>3
      <4> QED
        BY <3>3, <4>1 DEF Registered, q
    <3> QED
      BY <3>2, <3>3
  <2>6. ASSUME "left" \notin disturbed', NEW o \in Observer,
               NEW j \in DOMAIN callbacks[watch[o]], o # c, callbacks[watch[o]][j] = o
        PROVE  j \in DOMAIN callbacks'[watch[o]] /\ callbacks'[watch[o]][j] = o
    <3>1. CASE watch[o] # Top.key
      BY <1>6, <2>1, <2>6, <3>1
    <3>2. CASE watch[o] = Top.key
      <4>1. j \in DOMAIN q /\ q[j] = o /\ j # i
        BY <1>3, <2>6, <3>2 DEF q
      <4>2. j < i
        BY <1>3, <1>5, <1>8, <2>3, <2>6, <4>1
      <4> QED
        BY <1>6, <2>1, <2>2, <3>2, <4>1, <4>2
    <3> QED
      BY <3>1, <3>2
  <2> QED
    BY <1>3, <2>4, <2>5, <2>6
<1> QED
  BY <1>4, <1>7, <1>8

\* Who is called knows; the ones behind it are still going to be called.
LEMMA ObserversOfCallback ==
  ASSUME ObserverInv, Callback
  PROVE  /\ ActionsBeganAlive' /\ UnawareIsRegistered'
         /\ disturbed' = {} => HeardInv'
         /\ disturbed' \subseteq {"answered"} => AwareInv'
<1>0. PICK n \in Nat : n = Len(stack)
  BY ObserverParts, FrameTypes
<1> DEFINE f == [Top EXCEPT !.next = @ + 1]
<1>1. PICK c : c = callbacks[Top.key][Top.next]
  OBVIOUS
<1>2. /\ In("report") /\ stack # << >> /\ Top.next \in DOMAIN callbacks[Top.key]
      /\ heard' = [heard EXCEPT ![c] = Top.new] /\ unaware' = unaware \ {c}
      /\ disturbed \subseteq disturbed' /\ stack' = Replace(f)
      /\ UNCHANGED <<state, alive, dying>>
  BY <1>1 DEF Callback, In, NewState
<1>3. Top \in Frame /\ Top.phase = "report"
  BY <1>2, ObserverParts, FrameTypes DEF In
<1>4. Top.next \in Nat /\ Top.key \in Key
  BY <1>3 DEF Frame
<1>5. /\ f \in Frame /\ f.phase = "report" /\ f.new = Top.new
      /\ f.todo = Top.todo /\ f.key = Top.key /\ f.next = Top.next + 1
  BY <1>3, <1>4 DEF Frame
<1>6. /\ n >= 1 /\ Len(stack)' = n /\ stack' # << >> /\ Top' = f
      /\ \A i \in 1 .. n - 1 : stack'[i] = stack[i]
  BY <1>0, <1>2, <1>5, ObserverParts, ReplaceFrames
<1>7. stack'[n] = f /\ Top = stack[n] /\ n \in 1 .. n
  BY <1>0, <1>6 DEF Top
<1> HIDE DEF f
<1>8. ActionsBeganAlive'
  BY <1>0, <1>5, <1>6, <1>7, ObserverParts DEF ActionsBeganAlive
<1>9. UnawareIsRegistered'
  BY <1>1, <1>2, ObserverParts, CallbackLists DEF UnawareIsRegistered, TypeOK
<1>10. ASSUME "left" \notin disturbed', NEW o \in Observer, o # c,
              NEW i \in 1 .. n, Calls(i, o)
       PROVE  Calls(i, o)'
  <2>1. \A j \in DOMAIN callbacks[watch[o]] :
          callbacks[watch[o]][j] = o =>
            j \in DOMAIN callbacks'[watch[o]] /\ callbacks'[watch[o]][j] = o
    BY <1>1, <1>10, ObserverParts, CallbackLists
  <2>2. CASE i # n
    <3>1. stack'[i] = stack[i]
      BY <1>6, <2>2
    <3> QED
      BY <1>10, <2>1, <3>1 DEF Calls
  <2>3. CASE i = n /\ watch[o] \in Top.todo
    BY <1>5, <1>7, <2>3 DEF Calls
  <2>4. CASE i = n /\ watch[o] \notin Top.todo
    <3>1. PICK j \in DOMAIN callbacks[watch[o]] : j >= Top.next /\ callbacks[watch[o]][j] = o
      BY <1>7, <1>10, <2>4 DEF Calls
    <3>2. Top.key = watch[o]
      BY <1>7, <1>10, <2>4 DEF Calls
    <3>3. callbacks[watch[o]] \in Seq(Observer)
      BY <1>4, <3>2, ObserverParts DEF TypeOK
    <3>4. j # Top.next
      BY <1>1, <1>10, <3>1, <3>2
    <3>5. j >= f.next /\ f.next >= 1
      BY <1>4, <1>5, <3>1, <3>3, <3>4
    <3> QED
      BY <1>5, <1>7, <2>1, <2>4, <3>1, <3>2, <3>5 DEF Calls
  <2> QED
    BY <2>2, <2>3, <2>4
<1>11. ASSUME disturbed' = {} PROVE HeardInv'
  <2>1. HeardInv
    BY <1>2, <1>11, ObserverParts
  <2>2. (\A i \in 1 .. Len(stack) - 1 : stack[i].phase = "actions")'
    BY <1>0, <1>6, <2>1 DEF HeardInv
  <2>3. Top.new = state /\ Top'.new = state'
    BY <1>2, <1>5, <1>6, <2>1 DEF HeardInv
  <2>4. ASSUME NEW o \in Observer, Registered(o)', watch[o] = None
        PROVE  heard'[o] = state \/ Calls(n, o)'
    <3>1. CASE o = c
      BY <1>2, <2>3, <3>1, ObserverParts DEF TypeOK
    <3>2. CASE o # c
      <4>1. heard'[o] = heard[o] /\ Registered(o)
        BY <1>1, <1>2, <2>4, <3>2, ObserverParts, CallbackLists DEF TypeOK
      <4>2. heard[o] = state \/ Calls(n, o)
        BY <1>0, <1>3, <2>1, <2>4, <4>1 DEF HeardInv
      <4> QED
        BY <1>7, <1>10, <1>11, <3>2, <4>1, <4>2
    <3> QED
      BY <3>1, <3>2
  <2> QED
    BY <1>2, <1>6, <2>2, <2>3, <2>4 DEF HeardInv
<1>12. ASSUME disturbed' \subseteq {"answered"} PROVE AwareInv'
  <2>1. AwareInv /\ "left" \notin disturbed'
    BY <1>2, <1>12, ObserverParts
  <2>2. ASSUME NEW o \in unaware', Watches(o, state')
        PROVE  \/ \E i \in 1 .. n : Calls(i, o)'
               \/ alive' /\ \E i \in 1 .. n : Collects(i, o)'
    <3>1. o \in Observer /\ o \in unaware /\ o # c /\ Watches(o, state)
      BY <1>2, <2>2, ObserverParts DEF TypeOK, Watches
    <3>2. \/ \E i \in 1 .. n : Calls(i, o)
          \/ alive /\ \E i \in 1 .. n : Collects(i, o)
      BY <1>0, <1>3, <2>1, <3>1 DEF AwareInv, In
    <3>3. \A i \in 1 .. n : Calls(i, o) => Calls(i, o)'
      BY <1>10, <2>1, <3>1
    <3>4. \A i \in 1 .. n : Collects(i, o) => Collects(i, o)'
      <4>1. ~Collects(n, o)
        BY <1>3, <1>7 DEF Collects
      <4> QED
        BY <1>2, <1>6, <4>1 DEF Collects
    <3> QED
      BY <1>2, <3>2, <3>3, <3>4
  <2> QED
    BY <1>6, <2>2 DEF AwareInv, Watches
<1> QED
  BY <1>8, <1>9, <1>11, <1>12

\* Who has no callbacks left to call has told all it had to tell.
LEMMA ObserversOfEndOfEvent ==
  ASSUME ObserverInv, EndOfEvent
  PROVE  /\ ActionsBeganAlive' /\ UnawareIsRegistered'
         /\ disturbed' = {} => HeardInv'
         /\ disturbed' \subseteq {"answered"} => AwareInv'
<1>0. PICK n \in Nat : n = Len(stack)
  BY ObserverParts, FrameTypes
<1>1. /\ In("report") /\ stack # << >> /\ Top.todo = {}
      /\ Top.next = 0 \/ Top.next > Len(callbacks[Top.key])
      /\ stack' = Return
      /\ UNCHANGED <<state, alive, callbacks, heard, unaware, disturbed>>
  BY DEF EndOfEvent, In
<1>2. /\ n >= 1 /\ Len(stack)' = n - 1
      /\ \A i \in 1 .. n - 1 : stack'[i] = stack[i]
  BY <1>0, <1>1, ObserverParts, ReturnFrames
<1>3. Top = stack[n] /\ Top \in Frame /\ Top.phase = "report"
  BY <1>0, <1>1, ObserverParts, FrameTypes DEF Top, In
<1>4. ActionsBeganAlive'
  BY <1>0, <1>2, ObserverParts DEF ActionsBeganAlive
<1>5. UnawareIsRegistered'
  BY <1>1, ObserverParts, RegisteredKept DEF UnawareIsRegistered, TypeOK
<1>6. ASSUME NEW o \in Observer PROVE ~Calls(n, o) /\ ~Collects(n, o)
  <2>1. callbacks[watch[o]] \in Seq(Observer)
    BY ObserverParts, ObserverAssumption DEF TypeOK, Key
  <2>2. Top.next \in Nat
    BY <1>3 DEF Frame
  <2> QED
    BY <1>1, <1>3, <2>1, <2>2 DEF Calls, Collects
<1>7. ASSUME disturbed' = {} PROVE HeardInv'
  <2>1. HeardInv
    BY <1>1, <1>7, ObserverParts
  <2>2. \A i \in 1 .. n - 1 : stack'[i].phase = "actions"
    BY <1>0, <1>2, <2>1 DEF HeardInv
  <2>3. ~In("report")'
    <3>1. stack' \in Seq(Frame)
      BY <1>1, ObserverParts, ReturnType
    <3>2. stack' # << >> => Len(stack)' \in 1 .. n - 1
      BY <1>2, <3>1
    <3> QED
      BY <2>2, <3>2 DEF In, Top
  <2>4. \A o \in Observer : Registered(o) /\ watch[o] = None => heard[o] = state
    BY <1>0, <1>3, <1>6, <2>1 DEF HeardInv
  <2> QED
    BY <1>1, <1>2, <2>2, <2>3, <2>4, RegisteredKept DEF HeardInv
<1>8. ASSUME disturbed' \subseteq {"answered"} PROVE AwareInv'
  <2>1. AwareInv
    BY <1>1, <1>8, ObserverParts
  <2>2. ASSUME NEW o \in unaware', Watches(o, state')
        PROVE  \/ \E i \in 1 .. n - 1 : Calls(i, o)'
               \/ alive' /\ \E i \in 1 .. n - 1 : Collects(i, o)'
    <3>1. o \in Observer /\ o \in unaware /\ Watches(o, state)
      BY <1>1, <2>2, ObserverParts DEF TypeOK, Watches
    <3>2. \/ \E i \in 1 .. n : Calls(i, o)
          \/ alive /\ \E i \in 1 .. n : Collects(i, o)
      BY <1>0, <1>3, <2>1, <3>1 DEF AwareInv, In
    <3>3. \/ \E i \in 1 .. n - 1 : Calls(i, o)
          \/ alive /\ \E i \in 1 .. n - 1 : Collects(i, o)
      BY <1>6, <3>1, <3>2
    <3>4. \A i \in 1 .. n - 1 : (Calls(i, o) => Calls(i, o)') /\ (Collects(i, o) => Collects(i, o)')
      BY <1>1, <1>2 DEF Calls, Collects
    <3> QED
      BY <1>1, <3>3, <3>4
  <2> QED
    BY <1>2, <2>2 DEF AwareInv, Watches
<1> QED
  BY <1>4, <1>5, <1>7, <1>8

\* Who begins to watch is told the state at once.
LEMMA ObserversOfAdd ==
  ASSUME ObserverInv, NEW c \in Observer, addStateChangedCallback(c)
  PROVE  /\ ActionsBeganAlive' /\ UnawareIsRegistered'
         /\ disturbed' = {} => HeardInv'
         /\ disturbed' \subseteq {"answered"} => AwareInv'
<1>1. /\ stack = << >> /\ ~Registered(c)
      /\ callbacks' = [callbacks EXCEPT ![watch[c]] = Append(@, c)]
      /\ heard' = [heard EXCEPT ![c] = state]
      /\ UNCHANGED <<state, alive, dying, stack, unaware, disturbed>>
  BY DEF addStateChangedCallback
<1>2. ActionsBeganAlive'
  BY <1>1, ObserverParts DEF ActionsBeganAlive
<1>3. ASSUME NEW o \in Observer, o # c PROVE Registered(o)' <=> Registered(o)
  <2> DEFINE q == callbacks[watch[o]]
  <2>1. watch[o] \in Key /\ q \in Seq(Observer)
    BY ObserverParts, ObserverAssumption DEF TypeOK, Key
  <2>2. CASE watch[o] # watch[c]
    BY <1>1, <2>1, <2>2, ObserverParts DEF Registered, TypeOK
  <2>3. CASE watch[o] = watch[c]
    <3>1. callbacks'[watch[o]] = Append(q, c)
      BY <1>1, <2>1, <2>3, ObserverParts DEF TypeOK
    <3>2. /\ DOMAIN Append(q, c) = 1 .. Len(q) + 1 /\ DOMAIN q = 1 .. Len(q) /\ Len(q) \in Nat
          /\ Append(q, c)[Len(q) + 1] = c
          /\ \A j \in 1 .. Len(q) : Append(q, c)[j] = q[j]
      BY <2>1
    <3>3. (\E j \in DOMAIN Append(q, c) : Append(q, c)[j] = o) <=> \E j \in DOMAIN q : q[j] = o
      <4> HIDE DEF q
      <4>1. \A j \in 1 .. Len(q) + 1 : j = Len(q) + 1 \/ j \in 1 .. Len(q)
        BY <3>2
      <4>2. \A j \in 1 .. Len(q) : j \in 1 .. Len(q) + 1
        BY <3>2
      <4> QED
        BY <1>3, <3>2, <4>1, <4>2
    <3> QED
      BY <3>1, <3>3 DEF Registered
  <2> QED
    BY <2>2, <2>3
<1>4. UnawareIsRegistered'
  BY <1>1, <1>3, ObserverParts DEF UnawareIsRegistered, TypeOK
<1>5. ASSUME disturbed' = {} PROVE HeardInv'
  <2>1. HeardInv
    BY <1>1, <1>5, ObserverParts
  <2>2. \A o \in Observer : Registered(o)' /\ watch[o] = None => heard'[o] = state
    BY <1>1, <1>3, <2>1, ObserverParts DEF HeardInv, TypeOK
  <2>3. ~In("report") /\ ~In("report")' /\ \A i \in 1 .. Len(stack) - 1 : stack[i].phase = "actions"
    BY <1>1, <2>1 DEF In, HeardInv
  <2> QED
    BY <1>1, <2>2, <2>3 DEF HeardInv
<1>6. ASSUME disturbed' \subseteq {"answered"} PROVE AwareInv'
  <2>1. AwareInv
    BY <1>1, <1>6, ObserverParts
  <2>2. \A o \in unaware : ~Watches(o, state)
    BY <1>1, <2>1 DEF AwareInv, In
  <2> QED
    BY <1>1, <2>2 DEF AwareInv, Watches
<1> QED
  BY <1>2, <1>4, <1>5, <1>6

LEMMA ObserverStep ==
  ASSUME ObserverInv, [Next]_vars
  PROVE  ObserverInv'
<1>1. CASE NoTransition \/ destroy
  <2> DEFINE f == [Top EXCEPT !.phase = "last"]
  <2>1. /\ stack # << >> /\ stack' = Replace(f) /\ Top \in Frame
        /\ Top.phase \in {"enter", "actions"}
        /\ UNCHANGED <<state, callbacks, heard, unaware, disturbed>>
    BY <1>1, ObserverParts, FrameTypes DEF NoTransition, destroy, In
  <2>2. f \in Frame /\ f.phase = "last" /\ f.old = Top.old
    BY <2>1 DEF Frame
  <2>3. ASSUME destroy PROVE Top.old # state
    BY <2>1, <2>3, ObserverParts, FrameTypes DEF destroy, In, Top, ActionsBeganAlive
  <2>4. \/ alive' = alive /\ dying' = dying
        \/ alive /\ ~alive' /\ dying' /\ Top.old # state
    BY <1>1, <2>3 DEF NoTransition, destroy
  <2> HIDE DEF f
  <2> QED
    BY <2>1, <2>2, <2>4, PhaseKeeps, ObserverTogether
<1>2. CASE event
  BY <1>2, ObserversOfEvent, ObserverTogether
<1>3. ASSUME NEW s \in State, Transition(s) PROVE ObserverInv'
  BY <1>3, ObserversOfTransition, ObserverTogether
<1>4. CASE Raise
  BY <1>4, ObserversOfRaise, ObserverTogether
<1>5. CASE EndOfA
  BY <1>5, ObserversOfEndOfA, ObserverTogether
<1>6. CASE NextList
  BY <1>6, ObserversOfNextList, ObserverTogether
<1>7. CASE Callback
  BY <1>7, ObserversOfCallback, ObserverTogether
<1>8. CASE EndOfEvent
  BY <1>8, ObserversOfEndOfEvent, ObserverTogether
<1>9. ASSUME NEW o \in Observer, addStateChangedCallback(o) PROVE ObserverInv'
  BY <1>9, ObserversOfAdd, ObserverTogether
<1>10. CASE UNCHANGED vars
  BY <1>10, ObserverParts, ObserverTogether
    DEF vars, ActionsBeganAlive, UnawareIsRegistered, HeardInv, AwareInv,
        Registered, Watches, Calls, Collects, In, Top
<1> QED
  BY <1>1, <1>2, <1>3, <1>4, <1>5, <1>6, <1>7, <1>8, <1>9, <1>10 DEF Next

LEMMA ObserverStart == Init => ObserverInv
<1> SUFFICES ASSUME Init PROVE ObserverInv
  OBVIOUS
<1>1. TimersInv
  BY TimersInit
<1>2. ActionsBeganAlive /\ UnawareIsRegistered /\ AwareInv
  BY DEF Init, ActionsBeganAlive, UnawareIsRegistered, AwareInv
<1>3. HeardInv
  <2>1. \A o \in Observer : ~Registered(o)
    BY ObserverAssumption DEF Init, Registered, Key
  <2> QED
    BY <2>1 DEF Init, HeardInv, In
<1> QED
  BY <1>1, <1>2, <1>3 DEF ObserverInv

\* Between events, who watches every change was last told the state the machine
\* is in, and who waits for that state has been called since it was entered:
\* the condition of each is the disturbance the property names.
THEOREM ObserversAreTold == Spec => []ObserversTold
<1>1. ObserverInv => LastHeardIsState
  BY ObserverParts DEF LastHeardIsState, Idle, HeardInv
<1>2. ObserverInv => StateAnnounced
  <2> SUFFICES ASSUME ObserverInv, Idle, disturbed \subseteq {"answered"},
                      NEW o \in unaware
               PROVE  ~Watches(o, state)
    BY DEF StateAnnounced
  <2> QED
    BY ObserverParts DEF AwareInv, Idle, In
<1>3. ObserverInv => ObserversTold
  BY <1>1, <1>2 DEF ObserversTold
<1> QED
  BY <1>3, ObserverStart, ObserverStep, PTL DEF Spec

-----------------------------------------------------------------------------
(* The machines that keep the list of suppliers filled *)

Someone == Node \cup {Nobody}
Lists == {l \in Seq(Node) : IsInjective(l)}
HireStates == {"READY", "DECISION?", "HIRE_ONE", "FIRE_MANY", "SUPPLIERS?"}
Hires == [state : HireStates, again : BOOLEAN, connecting : SUBSET Node, dismissing : Lists,
          results : SUBSET Node, hiring : SUBSET Nat, saved : Number]
Names == {"restart", "instant", "timer-15sec", "made-decision", "supplier-connected",
          "search-failed", "supplier-state-changed"}
Letters == [name : Names, who : Someone, place : Nat, list : Lists]
Mails == {e \in Letters : e.name = "supplier-state-changed" => e.who \in Node}
Queues == Seq(Mails)
Rows == Seq(Someone)
CallSets == {c \in SUBSET (Current \cup {"stale"}) : ~(Current \subseteq c)}
Conns == [state : ConnectorStates, leaving : BOOLEAN, place : Nat, watched : Nat,
          pings : SUBSET Nat, calls : CallSets]
Connectors == [Node -> Conns]
FinderValues == [state : {"NONE", "RANDOM_USER", "ACK?", "SERVICE?"}, place : Nat,
                 target : Someone, attempts : Nat, linked : BOOLEAN]
Finders == {f \in FinderValues :
              /\ f.attempts <= MaxAttempts
              /\ f.state = "RANDOM_USER" => f.attempts < MaxAttempts
              /\ f.state \in {"ACK?", "SERVICE?"} => f.target \in Node}
Monitors == [state : {"READY", "FIRE_HIRE", "LIST_FILES", "LIST_BACKUPS", "REBUILDING"},
              again : BOOLEAN, known : Rows, erased : Nat]
Numbers == {n \in Number : Parameters}
Worlds == [hire : Hires, events : Queues, suppliers : Rows, conn : Connectors,
           finder : Finders, monitor : Monitors, toFire : SUBSET Node, scheduled : BOOLEAN,
           desired : Numbers, raised : BOOLEAN, echoed : BOOLEAN]

-----------------------------------------------------------------------------
(* What the steps of the other machines may do to a world *)

Silent == {"restart", "instant", "timer-15sec"}
Answering == {"supplier-connected", "search-failed"}
Changed == "supplier-state-changed"

\* The events of r that are not in q yet
Grown(q, r) == /\ Len(q) <= Len(r) /\ \A i \in 1 .. Len(q) : r[i] = q[i]
Fresh(q, r) == {i \in 1 .. Len(r) : i > Len(q)}
NoFresh(q, r, names) == \A i \in Fresh(q, r) : r[i].name \notin names

Stays(w, v) ==
  /\ w \in Worlds /\ v \in Worlds
  /\ v.hire.state = w.hire.state /\ v.hire.dismissing = w.hire.dismissing
  /\ v.suppliers = w.suppliers /\ v.raised = w.raised
  /\ w.echoed => v.echoed
  /\ \A s \in Node : w.conn[s].state # "NONE" => v.conn[s].state # "NONE"
Adds(w, v) ==
  /\ Grown(w.events, v.events)
  /\ \A i \in Fresh(w.events, v.events) :
        v.events[i].name \in Silent \cup Answering \cup {Changed}
  /\ w.hire.state \in {"SUPPLIERS?", "FIRE_MANY"} \/ NoFresh(w.events, v.events, {Changed})
Searches(w, v) ==
  \/ /\ v.finder.state = "NONE" <=> w.finder.state = "NONE"
     /\ NoFresh(w.events, v.events, Answering)
  \/ /\ w.finder.state # "NONE" /\ v.finder.state = "NONE"
     /\ \E k \in Fresh(w.events, v.events) :
           /\ v.events[k].name \in Answering
           /\ \A i \in Fresh(w.events, v.events) : v.events[i].name \in Answering => i = k
           /\ v.events[k].name = "supplier-connected" =>
                 v.events[k].who \in Node \ Supplied(w)
About(q, i, s) == q[i].name = Changed /\ q[i].who = s
Calms(w, v) ==
  w.hire.state = "FIRE_MANY" /\ ~v.echoed =>
    \A s \in Node :
       \/ /\ \A i \in Fresh(w.events, v.events) : ~About(v.events, i, s)
          /\ w.conn[s].watched = 0 => v.conn[s].watched = 0
       \/ /\ w.conn[s].watched > 0 /\ v.conn[s].watched = 0 /\ v.conn[s].state # "NONE"
          /\ \A i, j \in Fresh(w.events, v.events) :
                About(v.events, i, s) /\ About(v.events, j, s) => i = j
Heard(w, v) == Stays(w, v) /\ Adds(w, v) /\ Searches(w, v) /\ Calms(w, v)

\* No place beyond n
Bound(w, n) ==
  /\ w.finder.place <= n
  /\ \A i \in 1 .. Len(w.events) : w.events[i].place <= n
  /\ \A s \in Node : w.conn[s].place <= n /\ \A p \in w.conn[s].pings : p <= n
Sizes(w, v) ==
  /\ v.desired = w.desired
  /\ \A n \in Nat : Bound(w, n) => Bound(v, n)
  /\ Len(w.monitor.known) = Len(w.suppliers) =>
        /\ Len(v.monitor.known) = Len(w.suppliers)
        /\ v.monitor.erased = w.monitor.erased

LEMMA QueueFacts ==
  \A q \in Queues : Len(q) \in Nat /\ DOMAIN q = 1 .. Len(q) /\ \A i \in 1 .. Len(q) : q[i] \in Mails
<1> HIDE DEF Mails
<1> QED
  BY DEF Queues

LEMMA HeardSelf ==
  ASSUME NEW w \in Worlds
  PROVE  Heard(w, w) /\ Sizes(w, w)
<1>1. w.events \in Queues
  BY DEF Worlds
<1>2. Fresh(w.events, w.events) = {}
  BY <1>1, QueueFacts DEF Fresh
<1>3. Grown(w.events, w.events)
  BY <1>1, QueueFacts DEF Grown
<1> QED
  BY <1>2, <1>3 DEF Heard, Stays, Adds, Searches, Calms, Sizes, NoFresh

LEMMA GrownOn ==
  ASSUME NEW q \in Queues, NEW r \in Queues, NEW t \in Queues, Grown(q, r), Grown(r, t)
  PROVE  /\ Grown(q, t)
         /\ \A i \in Fresh(q, r) : i \in Fresh(q, t) /\ t[i] = r[i]
         /\ \A i \in Fresh(r, t) : i \in Fresh(q, t)
         /\ \A i \in Fresh(q, t) : i \in Fresh(q, r) \/ i \in Fresh(r, t)
<1>1. Len(q) \in Nat /\ Len(r) \in Nat /\ Len(t) \in Nat
  BY QueueFacts
<1> QED
  BY <1>1 DEF Grown, Fresh

LEMMA HeardOn ==
  ASSUME NEW w, NEW u, NEW v, Heard(w, u), Heard(u, v)
  PROVE  Heard(w, v)
<1>1. w.events \in Queues /\ u.events \in Queues /\ v.events \in Queues
  BY DEF Heard, Stays, Worlds
<1>2. Grown(w.events, u.events) /\ Grown(u.events, v.events)
  BY DEF Heard, Adds
<1> DEFINE q == w.events
           r == u.events
           t == v.events
<1>3. /\ Grown(q, t)
      /\ \A i \in Fresh(q, r) : i \in Fresh(q, t) /\ t[i] = r[i]
      /\ \A i \in Fresh(r, t) : i \in Fresh(q, t)
      /\ \A i \in Fresh(q, t) : i \in Fresh(q, r) \/ i \in Fresh(r, t)
  BY <1>1, <1>2, GrownOn
<1>4. Stays(w, v)
  BY DEF Heard, Stays
<1>5. Adds(w, v)
  BY <1>3 DEF Heard, Stays, Adds, NoFresh
<1>6. Searches(w, v)
  <2>0. v.suppliers = u.suppliers /\ u.suppliers = w.suppliers
    BY DEF Heard, Stays
  <2>1. Supplied(u) = Supplied(w)
    BY <2>0 DEF Supplied
  <2> QED
    BY <1>3, <2>1 DEF Heard, Searches, NoFresh
<1>7. Calms(w, v)
  <2> SUFFICES ASSUME w.hire.state = "FIRE_MANY", ~v.echoed, NEW s \in Node
               PROVE
       \/ /\ \A i \in Fresh(w.events, v.events) : ~About(v.events, i, s)
          /\ w.conn[s].watched = 0 => v.conn[s].watched = 0
       \/ /\ w.conn[s].watched > 0 /\ v.conn[s].watched = 0 /\ v.conn[s].state # "NONE"
          /\ \A i, j \in Fresh(w.events, v.events) :
                About(v.events, i, s) /\ About(v.events, j, s) => i = j
    BY DEF Calms
  <2>1. ~u.echoed /\ u.hire.state = "FIRE_MANY"
    BY DEF Heard, Stays
  <2>2. u.conn[s].state # "NONE" => v.conn[s].state # "NONE"
    BY DEF Heard, Stays
  <2>3. u.conn[s].watched \in Nat /\ w.conn[s].watched \in Nat
    BY DEF Heard, Stays, Worlds, Connectors, Conns
  <2>4. \A i \in Fresh(q, r) : About(t, i, s) <=> About(r, i, s)
    BY <1>3 DEF About
  <2> QED
    BY <1>3, <2>1, <2>2, <2>3, <2>4 DEF Heard, Calms
<1> QED
  BY <1>4, <1>5, <1>6, <1>7 DEF Heard

LEMMA SizesOn ==
  ASSUME NEW w, NEW u, NEW v, Sizes(w, u), Sizes(u, v), u.suppliers = w.suppliers
  PROVE  Sizes(w, v)
  BY DEF Sizes

LEMMA AppendFacts ==
  ASSUME NEW q \in Queues, NEW e \in Mails
  PROVE  /\ Append(q, e) \in Queues /\ Grown(q, Append(q, e))
         /\ Fresh(q, Append(q, e)) = {Len(q) + 1}
         /\ Append(q, e)[Len(q) + 1] = e /\ Len(Append(q, e)) = Len(q) + 1
         /\ \A i \in 1 .. Len(q) : Append(q, e)[i] = q[i]
<1> HIDE DEF Mails
<1>1. q \in Seq(Mails) /\ Len(q) \in Nat
  BY DEF Queues
<1> QED
  BY <1>1 DEF Queues, Grown, Fresh

LEMMA EventValues ==
  \A name \in Names : /\ Event(name) \in Letters /\ Event(name).name = name
                       /\ Event(name).place = 0 /\ Event(name).list = <<>>
  BY DEF Event, Letters, Someone, Lists, IsInjective
LEMMA EventMails ==
  \A name \in Names \ {"supplier-state-changed"} :
     /\ Event(name) \in Mails /\ Event(name).name = name
     /\ Event(name).place = 0 /\ Event(name).list = <<>>
<1> SUFFICES ASSUME NEW name \in Names, name # "supplier-state-changed"
             PROVE  /\ Event(name) \in Mails /\ Event(name).name = name
                    /\ Event(name).place = 0 /\ Event(name).list = <<>>
  OBVIOUS
<1>1. /\ Event(name) \in Letters /\ Event(name).name = name
      /\ Event(name).place = 0 /\ Event(name).list = <<>>
  BY EventValues
<1> QED
  BY <1>1 DEF Mails

\* An event joins the queue.
LEMMA QueueOne ==
  ASSUME NEW w \in Worlds, NEW e \in Mails
  PROVE  /\ Queue(w, e) \in Worlds /\ Queue(w, e).events = Append(w.events, e)
         /\ Queue(w, e).hire = w.hire /\ Queue(w, e).conn = w.conn
         /\ Queue(w, e).suppliers = w.suppliers /\ Queue(w, e).finder = w.finder
         /\ Queue(w, e).monitor = w.monitor /\ Queue(w, e).desired = w.desired
         /\ Queue(w, e).raised = w.raised /\ Queue(w, e).echoed = w.echoed
         /\ Queue(w, e).toFire = w.toFire /\ Queue(w, e).scheduled = w.scheduled
<1>1. Append(w.events, e) \in Queues
  BY AppendFacts DEF Worlds
<1> QED
  BY <1>1 DEF Worlds, Queue

\* What happens to a world in which no connector, search or event of a round moves
Same(w, v) ==
  /\ v \in Worlds
  /\ v.hire.state = w.hire.state /\ v.hire.dismissing = w.hire.dismissing
  /\ v.suppliers = w.suppliers /\ v.raised = w.raised /\ v.echoed = w.echoed
  /\ v.conn = w.conn /\ v.finder = w.finder /\ v.events = w.events
LEMMA SameHeard ==
  ASSUME NEW w \in Worlds, NEW v, Same(w, v)
  PROVE  /\ Heard(w, v)
         /\ v.desired = w.desired /\ v.monitor = w.monitor => Sizes(w, v)
<1>1. Heard(w, w)
  BY HeardSelf
<1>2. Stays(w, v) /\ Adds(w, v)
  BY <1>1 DEF Same, Heard, Stays, Adds
<1>3. Searches(w, v)
  BY <1>1 DEF Same, Heard, Searches, Supplied
<1>4. Calms(w, v)
  BY <1>1 DEF Same, Heard, Calms
<1>5. v.desired = w.desired /\ v.monitor = w.monitor => Sizes(w, v)
  BY DEF Same, Sizes, Bound
<1> QED
  BY <1>2, <1>3, <1>4, <1>5 DEF Heard

\* An event that no round waits for.
LEMMA QueueHeard ==
  ASSUME NEW w \in Worlds, NEW name \in Silent
  PROVE  Heard(w, Queue(w, Event(name))) /\ Sizes(w, Queue(w, Event(name)))
<1> DEFINE e == Event(name)
           v == Queue(w, e)
<1>1. e \in Mails /\ e.name = name /\ e.place = 0 /\ name \in Names
  <2>1. name \in Names /\ name # "supplier-state-changed"
    BY DEF Silent, Names
  <2> QED
    BY <2>1, EventMails
<1> HIDE DEF e
<1>2. /\ v \in Worlds /\ v.events = Append(w.events, e)
      /\ v.hire = w.hire /\ v.conn = w.conn /\ v.suppliers = w.suppliers
      /\ v.finder = w.finder /\ v.monitor = w.monitor /\ v.desired = w.desired
      /\ v.raised = w.raised /\ v.echoed = w.echoed
  BY <1>1, QueueOne
<1> HIDE DEF v
<1>3. /\ Grown(w.events, v.events) /\ Fresh(w.events, v.events) = {Len(w.events) + 1}
      /\ v.events[Len(w.events) + 1] = e
      /\ Len(v.events) = Len(w.events) + 1 /\ Len(w.events) \in Nat
      /\ \A i \in 1 .. Len(w.events) : v.events[i] = w.events[i]
  BY <1>1, <1>2, AppendFacts, QueueFacts DEF Worlds
<1>4. name \notin Answering /\ name # Changed
  BY DEF Silent, Answering, Changed
<1>5. Stays(w, v)
  BY <1>2 DEF Stays
<1>6. Adds(w, v)
  BY <1>1, <1>3, <1>4 DEF Adds, NoFresh
<1>7. Searches(w, v)
  BY <1>1, <1>2, <1>3, <1>4 DEF Searches, NoFresh
<1>8. Calms(w, v)
  BY <1>1, <1>2, <1>3, <1>4 DEF Calms, About
<1>9. \A n \in Nat : Bound(w, n) => Bound(v, n)
  <2>1. \A i \in 1 .. Len(v.events) : i \in 1 .. Len(w.events) \/ i = Len(w.events) + 1
    BY <1>3
  <2> QED
    BY <1>1, <1>2, <1>3, <2>1 DEF Bound
<1>10. Sizes(w, v)
  BY <1>2, <1>9 DEF Sizes
<1>11. Heard(w, v)
  BY <1>5, <1>6, <1>7, <1>8 DEF Heard
<1> QED
  BY <1>10, <1>11 DEF v, e

\* The monitor changes: it takes the list for known, and erases the backups only
\* when the number of places is another one.
Notes(w, m) ==
  /\ m \in Monitors /\ m.known \in {w.monitor.known, w.suppliers}
  /\ m.erased = w.monitor.erased \/ Len(w.suppliers) # Len(w.monitor.known)
LEMMA WatchHeard ==
  ASSUME NEW w \in Worlds, NEW m, Notes(w, m)
  PROVE  /\ [w EXCEPT !.monitor = m] \in Worlds
         /\ Heard(w, [w EXCEPT !.monitor = m]) /\ Sizes(w, [w EXCEPT !.monitor = m])
<1> DEFINE v == [w EXCEPT !.monitor = m]
<1>1. v \in Worlds
  BY DEF Notes, Worlds
<1>2. Same(w, v) /\ v.monitor = m /\ v.desired = w.desired
  BY <1>1 DEF Same, Worlds
<1> HIDE DEF v
<1>3. Heard(w, v)
  BY <1>2, SameHeard
<1>4. Sizes(w, v)
  BY <1>2 DEF Sizes, Same, Bound, Notes
<1> QED
  BY <1>1, <1>3, <1>4 DEF v

\* Two parts of a chain of calls.
LEMMA Chain ==
  ASSUME NEW w, NEW u, NEW v, Heard(w, u), Sizes(w, u), Heard(u, v), Sizes(u, v)
  PROVE  Heard(w, v) /\ Sizes(w, v)
  BY HeardOn, SizesOn DEF Heard, Stays

\* The monitor writes down the list and asks for a round.
LEMMA AsksHeard ==
  ASSUME NEW w \in Worlds, NEW m, Notes(w, m), NEW v, v = [w EXCEPT !.monitor = m]
  PROVE  Heard(w, Queue(v, Event("restart"))) /\ Sizes(w, Queue(v, Event("restart")))
<1>1. v \in Worlds /\ Heard(w, v) /\ Sizes(w, v)
  BY WatchHeard
<1>2. Heard(v, Queue(v, Event("restart"))) /\ Sizes(v, Queue(v, Event("restart")))
  BY <1>1, QueueHeard DEF Silent
<1> QED
  BY <1>1, <1>2, Chain

LEMMA MonitorType ==
  \A w \in Worlds : w.monitor \in Monitors /\ w.suppliers \in Rows
  BY DEF Worlds

LEMMA ConsultHeard ==
  ASSUME NEW w \in Worlds
  PROVE  Heard(w, Consult(w)) /\ Sizes(w, Consult(w))
<1> DEFINE m == [w.monitor EXCEPT !.state = "FIRE_HIRE", !.again = FALSE, !.known = w.suppliers]
           v == [w EXCEPT !.monitor = m]
<1>1. Notes(w, m)
  BY MonitorType DEF Notes, Monitors
<1>2. [w EXCEPT !.monitor.state = "FIRE_HIRE", !.monitor.again = FALSE,
                !.monitor.known = w.suppliers] = v
  BY DEF Worlds
<1>3. Consult(w) = Queue(v, Event("restart"))
  BY <1>2 DEF Consult
<1> HIDE DEF m
<1> QED
  BY <1>1, <1>3, AsksHeard

LEMMA RestHeard ==
  ASSUME NEW w \in Worlds
  PROVE  Heard(w, Rest(w)) /\ Sizes(w, Rest(w))
<1> DEFINE m == [w.monitor EXCEPT !.state = "READY"]
           v == [w EXCEPT !.monitor = m]
<1>1. Notes(w, m)
  BY MonitorType DEF Notes, Monitors
<1>2. [w EXCEPT !.monitor.state = "READY"] = v
  BY DEF Worlds
<1>3. Heard(w, v) /\ Sizes(w, v)
  BY <1>1, WatchHeard
<1> QED
  BY <1>2, <1>3, ConsultHeard DEF Rest

LEMMA MonitorHeard ==
  ASSUME NEW w \in Worlds, NEW news
  PROVE  Heard(w, MonitorTold(w, news)) /\ Sizes(w, MonitorTold(w, news))
<1> DEFINE m == w.monitor
           m1 == [m EXCEPT !.state = "LIST_FILES", !.known = w.suppliers,
                           !.erased = IF NumberChanged(w) THEN @ + 1 ELSE @]
           m2 == [m EXCEPT !.state = "LIST_FILES"]
           m3 == [m EXCEPT !.state = "FIRE_HIRE"]
           m4 == [m EXCEPT !.again = TRUE]
<1>1. /\ [w EXCEPT !.monitor.state = "LIST_FILES", !.monitor.known = w.suppliers,
                   !.monitor.erased = IF NumberChanged(w) THEN @ + 1 ELSE @]
           = [w EXCEPT !.monitor = m1]
      /\ [w EXCEPT !.monitor.state = "LIST_FILES"] = [w EXCEPT !.monitor = m2]
      /\ [w EXCEPT !.monitor.state = "FIRE_HIRE"] = [w EXCEPT !.monitor = m3]
      /\ [w EXCEPT !.monitor.again = TRUE] = [w EXCEPT !.monitor = m4]
  BY DEF Worlds, Monitors
<1>2. m \in Monitors /\ w.suppliers \in Rows
  BY MonitorType
<1>3. Notes(w, m1)
  <2> DEFINE k == IF NumberChanged(w) THEN m.erased + 1 ELSE m.erased
  <2>0. k \in Nat
    BY <1>2 DEF Monitors
  <2>1. m1 \in Monitors
    <3> HIDE DEF k
    <3>1. m1 = [m EXCEPT !.state = "LIST_FILES", !.known = w.suppliers, !.erased = k]
      BY DEF k
    <3> QED
      BY <1>2, <2>0, <3>1 DEF Monitors
  <2>2. m1.known = w.suppliers /\ m1.erased = IF NumberChanged(w) THEN m.erased + 1 ELSE m.erased
    BY <1>2 DEF Monitors
  <2> QED
    BY <2>1, <2>2 DEF Notes, NumberChanged
<1>4. Notes(w, m2) /\ Notes(w, m3) /\ Notes(w, m4)
  BY <1>2 DEF Notes, Monitors
<1> HIDE DEF m1, m2, m3, m4
<1>5. /\ Heard(w, [w EXCEPT !.monitor = m1]) /\ Sizes(w, [w EXCEPT !.monitor = m1])
      /\ Heard(w, [w EXCEPT !.monitor = m2]) /\ Sizes(w, [w EXCEPT !.monitor = m2])
      /\ Heard(w, [w EXCEPT !.monitor = m4]) /\ Sizes(w, [w EXCEPT !.monitor = m4])
  BY <1>3, <1>4, WatchHeard
<1>6. /\ Heard(w, Queue([w EXCEPT !.monitor = m3], Event("restart")))
      /\ Sizes(w, Queue([w EXCEPT !.monitor = m3], Event("restart")))
  BY <1>4, AsksHeard
<1>7. \/ MonitorTold(w, news) = [w EXCEPT !.monitor = m1]
      \/ MonitorTold(w, news) = [w EXCEPT !.monitor = m2]
      \/ MonitorTold(w, news) = Queue([w EXCEPT !.monitor = m3], Event("restart"))
      \/ MonitorTold(w, news) = Consult(w)
      \/ MonitorTold(w, news) = [w EXCEPT !.monitor = m4]
      \/ MonitorTold(w, news) = w
  BY <1>1 DEF MonitorTold
<1> QED
  BY <1>5, <1>6, <1>7, ConsultHeard, HeardSelf

-----------------------------------------------------------------------------
(* The connectors *)

\* A connector changes without a report
Turns(w, s, c) ==
  /\ s \in Node /\ c \in Conns
  /\ w.conn[s].watched = c.watched
  /\ w.conn[s].state # "NONE" => c.state # "NONE"
  /\ \A n \in Nat : Bound(w, n) => c.place <= n /\ \A p \in c.pings : p <= n
LEMMA SetOne ==
  ASSUME NEW w \in Worlds, NEW s \in Node, NEW c \in Conns
  PROVE  LET v == [w EXCEPT !.conn[s] = c] IN
         /\ v \in Worlds /\ v.conn[s] = c /\ \A t \in Node \ {s} : v.conn[t] = w.conn[t]
         /\ v.hire = w.hire /\ v.events = w.events /\ v.suppliers = w.suppliers
         /\ v.finder = w.finder /\ v.monitor = w.monitor /\ v.desired = w.desired
         /\ v.raised = w.raised /\ v.echoed = w.echoed
<1>1. w.conn \in Connectors /\ [w.conn EXCEPT ![s] = c] \in Connectors
  BY DEF Worlds, Connectors
<1>2. [w.conn EXCEPT ![s] = c][s] = c
      /\ \A t \in Node \ {s} : [w.conn EXCEPT ![s] = c][t] = w.conn[t]
  BY <1>1 DEF Connectors
<1> QED
  BY <1>1, <1>2 DEF Worlds

LEMMA TurnsHeard ==
  ASSUME NEW w \in Worlds, NEW s, NEW c, Turns(w, s, c)
  PROVE  /\ [w EXCEPT !.conn[s] = c] \in Worlds
         /\ Heard(w, [w EXCEPT !.conn[s] = c]) /\ Sizes(w, [w EXCEPT !.conn[s] = c])
<1> DEFINE v == [w EXCEPT !.conn[s] = c]
<1>1. /\ v \in Worlds /\ v.conn[s] = c /\ \A t \in Node \ {s} : v.conn[t] = w.conn[t]
      /\ v.hire = w.hire /\ v.events = w.events /\ v.suppliers = w.suppliers
      /\ v.finder = w.finder /\ v.monitor = w.monitor /\ v.desired = w.desired
      /\ v.raised = w.raised /\ v.echoed = w.echoed
  BY SetOne DEF Turns
<1> HIDE DEF v
<1>2. Heard(w, w) /\ Sizes(w, w)
  BY HeardSelf
<1>3. Stays(w, v) /\ Adds(w, v) /\ Searches(w, v)
  BY <1>1, <1>2 DEF Heard, Stays, Adds, Searches, Turns, Supplied
<1>4. Fresh(w.events, v.events) = {}
  <2>1. w.events \in Queues
    BY DEF Worlds
  <2> QED
    BY <1>1, <2>1, QueueFacts DEF Fresh
<1>5. Calms(w, v)
  BY <1>1, <1>4 DEF Calms, Turns
<1>6. Sizes(w, v)
  <2>1. ASSUME NEW n \in Nat, Bound(w, n) PROVE Bound(v, n)
    BY <1>1, <2>1 DEF Bound, Turns
  <2> QED
    BY <1>1, <2>1 DEF Sizes
<1> QED
  BY <1>1, <1>3, <1>5, <1>6 DEF Heard, v

-----------------------------------------------------------------------------
(* The search *)

LEMMA NoFinderType ==
  \A w \in Worlds : Parameters /\ NoFinder \in Finders
<1>1. \A w \in Worlds : Parameters
  BY DEF Worlds, Numbers
<1> QED
  BY <1>1 DEF Parameters, NoFinder, Finders, FinderValues, Someone

\* The search ends with its answer.
LEMMA DoneHeard ==
  ASSUME NEW w \in Worlds, w.finder.state # "NONE", NEW e \in Mails, e.name \in Answering,
         e.name = "supplier-connected" => e.who \in Node \ Supplied(w),
         \A n \in Nat : Bound(w, n) => e.place <= n
  PROVE  /\ Heard(w, FinderDone(w, e)) /\ Sizes(w, FinderDone(w, e))
         /\ FinderDone(w, e).conn = w.conn
<1> DEFINE u == [w EXCEPT !.finder = NoFinder]
           v == Queue(u, e)
<1>1. u \in Worlds
  BY NoFinderType DEF Worlds
<1>2. /\ u.hire = w.hire /\ u.conn = w.conn /\ u.suppliers = w.suppliers
      /\ u.finder = NoFinder /\ u.monitor = w.monitor /\ u.desired = w.desired
      /\ u.raised = w.raised /\ u.echoed = w.echoed /\ u.events = w.events
  BY DEF Worlds
<1> HIDE DEF u
<1>3. /\ v \in Worlds /\ v.events = Append(w.events, e)
      /\ v.hire = w.hire /\ v.conn = w.conn /\ v.suppliers = w.suppliers
      /\ v.finder = NoFinder /\ v.monitor = w.monitor /\ v.desired = w.desired
      /\ v.raised = w.raised /\ v.echoed = w.echoed
  BY <1>1, <1>2, QueueOne
<1>4. FinderDone(w, e) = v
  BY DEF FinderDone, u
<1> HIDE DEF v
<1>5. /\ Grown(w.events, v.events) /\ Fresh(w.events, v.events) = {Len(w.events) + 1}
      /\ v.events[Len(w.events) + 1] = e
      /\ Len(v.events) = Len(w.events) + 1 /\ Len(w.events) \in Nat
      /\ \A i \in 1 .. Len(w.events) : v.events[i] = w.events[i]
  BY <1>3, AppendFacts, QueueFacts DEF Worlds
<1>6. e.name # Changed
  BY DEF Answering, Changed
<1>7. v.finder.state = "NONE" /\ v.finder.place = 0
  BY <1>3 DEF NoFinder
<1>8. Stays(w, v)
  BY <1>3 DEF Stays
<1>9. Adds(w, v)
  BY <1>5, <1>6 DEF Adds, NoFresh
<1>10. Searches(w, v)
  BY <1>5, <1>7 DEF Searches
<1>11. Calms(w, v)
  BY <1>3, <1>5, <1>6 DEF Calms, About
<1>12. \A n \in Nat : Bound(w, n) => Bound(v, n)
  <2>1. \A i \in 1 .. Len(v.events) : i \in 1 .. Len(w.events) \/ i = Len(w.events) + 1
    BY <1>5
  <2> QED
    BY <1>3, <1>5, <1>7, <2>1 DEF Bound
<1>13. Sizes(w, v)
  BY <1>3, <1>12 DEF Sizes
<1> QED
  BY <1>3, <1>4, <1>8, <1>9, <1>10, <1>11, <1>13 DEF Heard

\* The search goes on with another state, for the same place.
LEMMA FinderHeard ==
  ASSUME NEW w \in Worlds, NEW f \in Finders, w.finder.state # "NONE", f.state # "NONE",
         f.place = w.finder.place
  PROVE  /\ [w EXCEPT !.finder = f] \in Worlds /\ [w EXCEPT !.finder = f].conn = w.conn
         /\ Heard(w, [w EXCEPT !.finder = f]) /\ Sizes(w, [w EXCEPT !.finder = f])
<1> DEFINE v == [w EXCEPT !.finder = f]
<1>1. v \in Worlds
  BY DEF Worlds
<1>2. /\ v.hire = w.hire /\ v.conn = w.conn /\ v.suppliers = w.suppliers
      /\ v.finder = f /\ v.monitor = w.monitor /\ v.desired = w.desired
      /\ v.raised = w.raised /\ v.echoed = w.echoed /\ v.events = w.events
  BY DEF Worlds
<1> HIDE DEF v
<1>3. Heard(w, w)
  BY HeardSelf
<1>4. Stays(w, v) /\ Adds(w, v)
  BY <1>1, <1>2, <1>3 DEF Heard, Stays, Adds
<1>5. Fresh(w.events, v.events) = {}
  <2>1. w.events \in Queues
    BY DEF Worlds
  <2> QED
    BY <1>2, <2>1, QueueFacts DEF Fresh
<1>6. Searches(w, v)
  BY <1>2, <1>5 DEF Searches, NoFresh
<1>7. Calms(w, v)
  BY <1>2, <1>5 DEF Calms
<1>8. Sizes(w, v)
  BY <1>2 DEF Sizes, Bound
<1> QED
  BY <1>1, <1>2, <1>4, <1>6, <1>7, <1>8 DEF v, Heard

LEMMA FinderType ==
  \A w \in Worlds : w.finder \in FinderValues /\ w.finder \in Finders
  BY DEF Worlds, Finders

LEMMA NextUserHeard ==
  ASSUME NEW w \in Worlds, w.finder.state # "NONE"
  PROVE  /\ Heard(w, NextUser(w)) /\ Sizes(w, NextUser(w)) /\ NextUser(w).conn = w.conn
<1>1. CASE w.finder.attempts < MaxAttempts
  <2> DEFINE f == [w.finder EXCEPT !.state = "RANDOM_USER"]
  <2>1. f \in Finders /\ f.state # "NONE" /\ f.place = w.finder.place
    BY <1>1, FinderType DEF Finders, FinderValues
  <2>2. NextUser(w) = [w EXCEPT !.finder = f]
    BY <1>1 DEF NextUser, Worlds
  <2> HIDE DEF f
  <2> QED
    BY <2>1, <2>2, FinderHeard
<1>2. CASE ~(w.finder.attempts < MaxAttempts)
  <2> DEFINE e == Event("search-failed")
  <2>1. e \in Mails /\ e.name = "search-failed" /\ e.place = 0
    BY EventMails DEF Names
  <2>2. NextUser(w) = FinderDone(w, e)
    BY <1>2 DEF NextUser
  <2>3. e.name \in Answering /\ e.name # "supplier-connected"
    BY <2>1 DEF Answering
  <2> HIDE DEF e
  <2>4. \A n \in Nat : e.place <= n
    BY <2>1
  <2> QED
    BY <2>1, <2>2, <2>3, <2>4, DoneHeard
<1> QED
  BY <1>1, <1>2

LEMMA ConnType ==
  \A w \in Worlds : \A s \in Node : w.conn[s] \in Conns
  BY DEF Worlds, Connectors

LEMMA FinderHearsHeard ==
  ASSUME NEW w \in Worlds, NEW s \in Node, NEW answer
  PROVE  /\ Heard(w, FinderHears(w, s, answer)) /\ Sizes(w, FinderHears(w, s, answer))
         /\ FinderHears(w, s, answer).conn = w.conn
<1> DEFINE e == [Event("supplier-connected") EXCEPT !.who = s, !.place = w.conn[s].place]
<1>1. \/ FinderHears(w, s, answer) = w
      \/ w.finder.state = "SERVICE?" /\ FinderHears(w, s, answer) = NextUser(w)
      \/ /\ w.finder.state = "SERVICE?" /\ s \notin Supplied(w)
         /\ FinderHears(w, s, answer) = FinderDone(w, e)
  <2> DEFINE waits == w.finder.linked /\ w.finder.target = s /\ w.finder.state = "SERVICE?"
  <2>0. FinderHears(w, s, answer) =
          CASE waits /\ answer # "CONNECTED" -> NextUser(w)
            [] waits /\ answer = "CONNECTED" /\ s \notin Supplied(w) -> FinderDone(w, e)
            [] OTHER -> w
    BY DEF FinderHears
  <2> HIDE DEF e
  <2> QED
    BY <2>0
<1>2. /\ e \in Mails /\ e.name = "supplier-connected" /\ e.who = s
      /\ e.place = w.conn[s].place
  <2>1. w.conn[s].place \in Nat
    BY ConnType DEF Conns
  <2>2. "supplier-connected" \in Names
    BY DEF Names
  <2>3. Event("supplier-connected") \in Letters
        /\ Event("supplier-connected").name = "supplier-connected"
    BY <2>2, EventValues
  <2> QED
    BY <2>1, <2>3 DEF Letters, Mails, Someone
<1> HIDE DEF e
<1>3. CASE FinderHears(w, s, answer) = w
  BY <1>3, HeardSelf
<1>4. CASE w.finder.state = "SERVICE?" /\ FinderHears(w, s, answer) = NextUser(w)
  BY <1>4, NextUserHeard
<1>5. CASE /\ w.finder.state = "SERVICE?" /\ s \notin Supplied(w)
           /\ FinderHears(w, s, answer) = FinderDone(w, e)
  <2>1. e.name \in Answering
    BY <1>2 DEF Answering
  <2>2. \A n \in Nat : Bound(w, n) => e.place <= n
    BY <1>2 DEF Bound
  <2> QED
    BY <1>2, <1>5, <2>1, <2>2, DoneHeard
<1> QED
  BY <1>1, <1>3, <1>4, <1>5

-----------------------------------------------------------------------------
(* What a connector reports *)

LEMMA JoinFacts ==
  ASSUME NEW q \in Queues, NEW r \in Queues
  PROVE  /\ q \o r \in Queues /\ Grown(q, q \o r)
         /\ Len(q) \in Nat /\ Len(r) \in Nat /\ Len(q \o r) = Len(q) + Len(r)
         /\ \A i \in 1 .. Len(q) : (q \o r)[i] = q[i]
         /\ \A i \in Fresh(q, q \o r) : i - Len(q) \in 1 .. Len(r)
                                         /\ (q \o r)[i] = r[i - Len(q)]
<1> HIDE DEF Mails
<1>1. q \in Seq(Mails) /\ r \in Seq(Mails) /\ Len(q) \in Nat /\ Len(r) \in Nat
  BY DEF Queues
<1>2. q \o r \in Seq(Mails) /\ Len(q \o r) = Len(q) + Len(r)
      /\ \A i \in 1 .. Len(q) + Len(r) : (q \o r)[i] = IF i <= Len(q) THEN q[i]
                                                       ELSE r[i - Len(q)]
  BY <1>1
<1> QED
  BY <1>1, <1>2 DEF Queues, Grown, Fresh

Told(s, times) == [i \in 1 .. times |-> [Event("supplier-state-changed") EXCEPT !.who = s]]
LEMMA ToldFacts ==
  ASSUME NEW s \in Node, NEW times \in Nat
  PROVE  /\ Told(s, times) \in Queues /\ Len(Told(s, times)) = times
         /\ \A i \in 1 .. times : /\ Told(s, times)[i].name = Changed
                                   /\ Told(s, times)[i].who = s
                                   /\ Told(s, times)[i].place = 0
<1> DEFINE e == [Event("supplier-state-changed") EXCEPT !.who = s]
<1>1. e \in Mails /\ e.name = Changed /\ e.who = s /\ e.place = 0
  <2>1. "supplier-state-changed" \in Names
    BY DEF Names
  <2>2. /\ Event("supplier-state-changed") \in Letters
        /\ Event("supplier-state-changed").name = "supplier-state-changed"
        /\ Event("supplier-state-changed").place = 0
    BY <2>1, EventValues
  <2> QED
    BY <2>2 DEF Letters, Mails, Someone, Changed
<1>2. Told(s, times) = [i \in 1 .. times |-> e]
  BY DEF Told
<1> HIDE DEF e
<1>3. [i \in 1 .. times |-> e] \in Seq(Mails) /\ Len([i \in 1 .. times |-> e]) = times
  BY <1>1
<1> QED
  BY <1>1, <1>2, <1>3 DEF Queues

LEMMA Halves ==
  \A n \in Nat : /\ n \div 2 \in Nat /\ (n + 1) \div 2 \in Nat
                 /\ n = 0 => n \div 2 = 0 /\ (n + 1) \div 2 = 0
                 /\ n = 1 => n \div 2 = 0 /\ (n + 1) \div 2 = 1
                 /\ n > 1 => (n + 1) \div 2 > 0
  OBVIOUS

\* A world in which fire_hire() has heard "times" callbacks of s
Hears(w, s, times, v) ==
  /\ v \in Worlds
  /\ v.hire.state = w.hire.state /\ v.hire.dismissing = w.hire.dismissing
  /\ v.suppliers = w.suppliers /\ v.finder = w.finder /\ v.monitor = w.monitor
  /\ v.desired = w.desired /\ v.raised = w.raised /\ v.echoed = w.echoed
  /\ v.conn = w.conn
  /\ v.events = IF w.hire.state \in {"SUPPLIERS?", "FIRE_MANY"}
                THEN w.events \o Told(s, times) ELSE w.events

LEMMA HireHearsIs ==
  ASSUME NEW w \in Worlds, NEW s \in Node, NEW times \in Nat
  PROVE  Hears(w, s, times, HireHears(w, s, times))
<1> DEFINE told == Told(s, times)
           q == w.events \o told
<1>1. told \in Queues /\ Len(told) = times
  BY ToldFacts
<1>2. w.events \in Queues /\ w.hire \in Hires
  BY DEF Worlds
<1>3. q \in Queues
  BY <1>1, <1>2, JoinFacts
<1>4. HireHears(w, s, times) =
        CASE times > 0 /\ w.hire.state = "SUPPLIERS?" ->
               [w EXCEPT !.hire.connecting = @ \ {s}, !.events = q]
          [] times > 0 /\ w.hire.state = "FIRE_MANY" ->
               [w EXCEPT !.hire.results = @ \cup {s}, !.events = q]
          [] OTHER -> w
  BY DEF HireHears, Told
<1>5. times = 0 => q = w.events
  <2> HIDE DEF Mails, told
  <2> QED
    BY <1>1, <1>2 DEF Queues
<1> DEFINE h1 == [w.hire EXCEPT !.connecting = @ \ {s}]
           h2 == [w.hire EXCEPT !.results = @ \cup {s}]
           u1 == [w EXCEPT !.hire = h1, !.events = q]
           u2 == [w EXCEPT !.hire = h2, !.events = q]
<1>6. /\ h1 \in Hires /\ h1.state = w.hire.state /\ h1.dismissing = w.hire.dismissing
      /\ h2 \in Hires /\ h2.state = w.hire.state /\ h2.dismissing = w.hire.dismissing
  BY <1>2 DEF Hires
<1>7. /\ [w EXCEPT !.hire.connecting = @ \ {s}, !.events = q] = u1
      /\ [w EXCEPT !.hire.results = @ \cup {s}, !.events = q] = u2
  BY DEF Worlds
<1> HIDE DEF q, told, h1, h2
<1>8. CASE times = 0
  <2>1. HireHears(w, s, times) = w
    BY <1>4, <1>8
  <2>2. Hears(w, s, times, w)
    BY <1>5, <1>8 DEF Hears, q, told
  <2> QED
    BY <2>1, <2>2
<1>9. CASE times # 0 /\ w.hire.state = "SUPPLIERS?"
  <2>1. HireHears(w, s, times) = u1
    BY <1>4, <1>7, <1>9
  <2>2. Hears(w, s, times, u1)
    BY <1>3, <1>6, <1>9 DEF Hears, Worlds, q, told
  <2> QED
    BY <2>1, <2>2
<1>10. CASE times # 0 /\ w.hire.state = "FIRE_MANY"
  <2>1. HireHears(w, s, times) = u2
    BY <1>4, <1>7, <1>10
  <2>2. Hears(w, s, times, u2)
    BY <1>3, <1>6, <1>10 DEF Hears, Worlds, q, told
  <2> QED
    BY <2>1, <2>2
<1>11. CASE times # 0 /\ w.hire.state \notin {"SUPPLIERS?", "FIRE_MANY"}
  <2>1. HireHears(w, s, times) = w
    BY <1>4, <1>11
  <2> QED
    BY <1>11, <2>1 DEF Hears
<1> QED
  BY <1>8, <1>9, <1>10, <1>11

\* A callback that is left behind is an echo only in a dismissal.
Echoing(w, s) ==
  /\ w.hire.state = "FIRE_MANY"
  /\ w.conn[s].watched > IF s \in Range(w.hire.dismissing) THEN 1 ELSE 0
LEMMA EchoIs ==
  ASSUME NEW w \in Worlds, NEW s \in Node
  PROVE  /\ Echo(w, s) \in Worlds /\ Echo(w, s).hire = w.hire /\ Echo(w, s).events = w.events
         /\ Echo(w, s).conn = w.conn /\ Echo(w, s).suppliers = w.suppliers
         /\ Echo(w, s).finder = w.finder /\ Echo(w, s).monitor = w.monitor
         /\ Echo(w, s).desired = w.desired /\ Echo(w, s).raised = w.raised
         /\ Echo(w, s).echoed = (w.echoed \/ Echoing(w, s))
<1>1. w.echoed \in BOOLEAN
  BY DEF Worlds
<1>2. CASE Echoing(w, s)
  BY <1>2 DEF Echo, Echoing, Worlds
<1>3. CASE ~Echoing(w, s)
  BY <1>1, <1>3 DEF Echo, Echoing
<1> QED
  BY <1>2, <1>3

\* The first half of a report: the callbacks of fire_hire() are called.
FirstHalf(w, s) ==
  LET n == w.conn[s].watched IN
  HireHears([Echo(w, s) EXCEPT !.conn[s].watched = n \div 2], s, (n + 1) \div 2)
\* The events that are new are about s.
Only(w, v, s) ==
  \A i \in Fresh(w.events, v.events) : v.events[i].name = Changed => v.events[i].who = s
LEMMA FirstHalfIs ==
  ASSUME NEW w \in Worlds, NEW s \in Node, w.conn[s].state # "NONE"
  PROVE  /\ Heard(w, FirstHalf(w, s)) /\ Sizes(w, FirstHalf(w, s))
         /\ Only(w, FirstHalf(w, s), s)
         /\ FirstHalf(w, s).conn[s].state = w.conn[s].state
         /\ FirstHalf(w, s).conn[s].place = w.conn[s].place
<1> DEFINE n == w.conn[s].watched
           c == [w.conn[s] EXCEPT !.watched = n \div 2]
           e == Echo(w, s)
           u == [e EXCEPT !.conn[s] = c]
           times == (n + 1) \div 2
           v == HireHears(u, s, times)
<1>1. n \in Nat
  BY ConnType DEF Conns
<1>2. /\ n \div 2 \in Nat /\ times \in Nat
      /\ n = 0 => n \div 2 = 0 /\ times = 0
      /\ n = 1 => n \div 2 = 0 /\ times = 1
  BY <1>1, Halves
<1>3. /\ c \in Conns /\ c.watched = n \div 2 /\ c.state = w.conn[s].state
      /\ c.place = w.conn[s].place /\ c.pings = w.conn[s].pings
  BY <1>2, ConnType DEF Conns
<1>4. /\ e \in Worlds /\ e.hire = w.hire /\ e.events = w.events
      /\ e.conn = w.conn /\ e.suppliers = w.suppliers
      /\ e.finder = w.finder /\ e.monitor = w.monitor
      /\ e.desired = w.desired /\ e.raised = w.raised
      /\ e.echoed = (w.echoed \/ Echoing(w, s))
  BY EchoIs
<1>5. FirstHalf(w, s) = v
  <2>1. [e EXCEPT !.conn[s].watched = n \div 2] = u
    BY <1>4 DEF Worlds
  <2> QED
    BY <2>1 DEF FirstHalf
<1> HIDE DEF n, c, e
<1>6. /\ u \in Worlds /\ u.conn[s] = c /\ \A t \in Node \ {s} : u.conn[t] = w.conn[t]
      /\ u.hire = w.hire /\ u.events = w.events /\ u.suppliers = w.suppliers
      /\ u.finder = w.finder /\ u.monitor = w.monitor /\ u.desired = w.desired
      /\ u.raised = w.raised /\ u.echoed = (w.echoed \/ Echoing(w, s))
  BY <1>3, <1>4, SetOne
<1> HIDE DEF u, times
<1>7. Hears(u, s, times, v)
  BY <1>2, <1>6, HireHearsIs
<1> HIDE DEF v
<1>8. /\ v \in Worlds
      /\ v.hire.state = w.hire.state /\ v.hire.dismissing = w.hire.dismissing
      /\ v.suppliers = w.suppliers /\ v.finder = w.finder /\ v.monitor = w.monitor
      /\ v.desired = w.desired /\ v.raised = w.raised
      /\ v.echoed = (w.echoed \/ Echoing(w, s))
      /\ v.conn[s] = c /\ \A t \in Node \ {s} : v.conn[t] = w.conn[t]
      /\ v.events = IF w.hire.state \in {"SUPPLIERS?", "FIRE_MANY"}
                    THEN w.events \o Told(s, times) ELSE w.events
  BY <1>6, <1>7 DEF Hears
<1>9. /\ Grown(w.events, v.events) /\ Len(w.events) \in Nat /\ Len(v.events) \in Nat
      /\ \A i \in 1 .. Len(w.events) : v.events[i] = w.events[i]
      /\ \A i \in Fresh(w.events, v.events) :
            /\ w.hire.state \in {"SUPPLIERS?", "FIRE_MANY"}
            /\ v.events[i].name = Changed /\ v.events[i].who = s /\ v.events[i].place = 0
            /\ i - Len(w.events) \in 1 .. times
  <2>1. w.events \in Queues /\ v.events \in Queues
    BY <1>8 DEF Worlds
  <2>2. CASE w.hire.state \in {"SUPPLIERS?", "FIRE_MANY"}
    <3> DEFINE r == Told(s, times)
               q == w.events
    <3>1. /\ r \in Queues /\ Len(r) = times
          /\ \A i \in 1 .. times : r[i].name = Changed /\ r[i].who = s /\ r[i].place = 0
      BY <1>2, ToldFacts
    <3>2. v.events = q \o r
      BY <1>8, <2>2
    <3> HIDE DEF r
    <3>3. /\ Grown(q, q \o r)
          /\ \A i \in 1 .. Len(q) : (q \o r)[i] = q[i]
          /\ \A i \in Fresh(q, q \o r) : i - Len(q) \in 1 .. Len(r)
                                         /\ (q \o r)[i] = r[i - Len(q)]
      BY <2>1, <3>1, JoinFacts
    <3>4. Len(q) \in Nat /\ Len(v.events) \in Nat
      BY <2>1, QueueFacts
    <3>5. Grown(w.events, v.events) /\ \A i \in 1 .. Len(w.events) : v.events[i] = w.events[i]
      BY <3>2, <3>3
    <3>6. ASSUME NEW i \in Fresh(w.events, v.events)
          PROVE  /\ v.events[i].name = Changed /\ v.events[i].who = s
                 /\ v.events[i].place = 0 /\ i - Len(w.events) \in 1 .. times
      <4>1. i - Len(q) \in 1 .. times /\ v.events[i] = r[i - Len(q)]
        BY <3>1, <3>2, <3>3
      <4> QED
        BY <3>1, <4>1
    <3> QED
      BY <2>2, <3>4, <3>5, <3>6
  <2>3. CASE w.hire.state \notin {"SUPPLIERS?", "FIRE_MANY"}
    BY <1>8, <2>1, <2>3, QueueFacts DEF Grown, Fresh
  <2> QED
    BY <2>2, <2>3
<1>10. Changed \notin Answering
  BY DEF Changed, Answering
<1>11. Stays(w, v)
  BY <1>3, <1>8 DEF Stays
<1>12. Adds(w, v)
  BY <1>9 DEF Adds, NoFresh
<1>13. Searches(w, v)
  BY <1>8, <1>9, <1>10 DEF Searches, NoFresh
<1>14. Calms(w, v)
  <2> SUFFICES ASSUME w.hire.state = "FIRE_MANY", ~v.echoed, NEW t \in Node
               PROVE
       \/ /\ \A i \in Fresh(w.events, v.events) : ~About(v.events, i, t)
          /\ w.conn[t].watched = 0 => v.conn[t].watched = 0
       \/ /\ w.conn[t].watched > 0 /\ v.conn[t].watched = 0 /\ v.conn[t].state # "NONE"
          /\ \A i, j \in Fresh(w.events, v.events) :
                About(v.events, i, t) /\ About(v.events, j, t) => i = j
    BY DEF Calms
  <2>1. CASE t # s
    BY <1>8, <1>9, <2>1 DEF About
  <2>2. CASE t = s
    <3>1. n <= 1
      <4>1. ~Echoing(w, s)
        BY <1>8
      <4>2. ~(n > IF s \in Range(w.hire.dismissing) THEN 1 ELSE 0)
        BY <4>1 DEF Echoing, n
      <4>3. CASE s \in Range(w.hire.dismissing)
        BY <1>1, <4>2, <4>3
      <4>4. CASE s \notin Range(w.hire.dismissing)
        BY <1>1, <4>2, <4>4
      <4> QED
        BY <4>3, <4>4
    <3>2. CASE n = 0
      <4>1. Fresh(w.events, v.events) = {}
        BY <1>2, <1>9, <3>2
      <4> QED
        BY <1>2, <1>3, <1>8, <2>2, <3>2, <4>1
    <3>3. CASE n = 1
      <4>1. \A i, j \in Fresh(w.events, v.events) : i = j
        <5>1. \A i \in Fresh(w.events, v.events) : i - Len(w.events) = 1 /\ i \in Nat
          BY <1>2, <1>9, <3>3 DEF Fresh
        <5> QED
          BY <1>9, <5>1
      <4>2. w.conn[t].watched > 0 /\ v.conn[t].watched = 0 /\ v.conn[t].state # "NONE"
        BY <1>2, <1>3, <1>8, <2>2, <3>3 DEF n
      <4> QED
        BY <4>1, <4>2
    <3> QED
      BY <1>1, <3>1, <3>2, <3>3
  <2> QED
    BY <2>1, <2>2
<1>15. \A m \in Nat : Bound(w, m) => Bound(v, m)
  <2>1. \A i \in 1 .. Len(v.events) : i \in 1 .. Len(w.events) \/ i \in Fresh(w.events, v.events)
    BY <1>9 DEF Fresh
  <2>2. \A t \in Node : /\ v.conn[t].place = w.conn[t].place
                        /\ v.conn[t].pings = w.conn[t].pings
    BY <1>3, <1>8
  <2> QED
    BY <1>8, <1>9, <2>1, <2>2 DEF Bound
<1>16. Sizes(w, v)
  BY <1>8, <1>15 DEF Sizes
<1>17. Only(w, v, s)
  BY <1>9 DEF Only
<1> QED
  BY <1>3, <1>5, <1>8, <1>11, <1>12, <1>13, <1>14, <1>16, <1>17 DEF Heard

\* Where a report leaves its connector
Reported(w, v, s) ==
  /\ Heard(w, v) /\ Sizes(w, v)
  /\ v.conn[s].state = w.conn[s].state /\ v.conn[s].place = w.conn[s].place
LEMMA ReportHeard ==
  ASSUME NEW w \in Worlds, NEW s \in Node, NEW answer, w.conn[s].state # "NONE"
  PROVE  Reported(w, ReportState(w, s, answer), s)
<1> DEFINE v == FirstHalf(w, s)
           x == FinderHears(v, s, answer)
<1>1. /\ Heard(w, v) /\ Sizes(w, v)
      /\ v.conn[s].state = w.conn[s].state /\ v.conn[s].place = w.conn[s].place
  BY FirstHalfIs
<1>2. ReportState(w, s, answer) = x
  BY DEF ReportState, FirstHalf
<1> HIDE DEF v
<1>3. v \in Worlds
  BY <1>1 DEF Heard, Stays
<1>4. Heard(v, x) /\ Sizes(v, x) /\ x.conn = v.conn
  BY <1>3, FinderHearsHeard
<1> HIDE DEF x
<1>5. Heard(w, x) /\ Sizes(w, x)
  BY <1>1, <1>4, Chain
<1> QED
  BY <1>1, <1>2, <1>4, <1>5 DEF Reported

-----------------------------------------------------------------------------
(* The handlers of a connector *)

\* The operators of one connector.
LEMMA CleanIs ==
  ASSUME NEW c \in Conns
  PROVE  /\ Clean(c) \in Conns /\ Clean(c).watched = c.watched /\ Clean(c).state = c.state
         /\ Clean(c).place = c.place /\ Clean(c).pings = c.pings
         /\ Clean(c).calls \subseteq {"stale"}
<1> DEFINE k == IF c.calls # {} /\ "fail" \in Late THEN {"stale"} ELSE {}
<1>1. k \in CallSets /\ k \subseteq {"stale"}
  BY DEF CallSets, Current
<1>2. Clean(c) = [c EXCEPT !.calls = k]
  BY DEF Clean
<1> HIDE DEF k
<1> QED
  BY <1>1, <1>2 DEF Conns

LEMMA SendIs ==
  ASSUME NEW c \in Conns, NEW call \in Current
  PROVE  /\ Send(c, call) \in Conns /\ Send(c, call).watched = c.watched
         /\ Send(c, call).state = c.state
         /\ Send(c, call).place = c.place /\ Send(c, call).pings = c.pings
<1> DEFINE k == Clean(c).calls \cup {call}
<1>1. k \in CallSets
  BY CleanIs DEF CallSets, Current
<1>2. Send(c, call) = [c EXCEPT !.calls = k]
  BY DEF Send
<1> HIDE DEF k
<1> QED
  BY <1>1, <1>2 DEF Conns

LEMMA SettleIs ==
  ASSUME NEW c \in Conns
  PROVE  /\ Settle(c) \in Conns /\ Settle(c).watched = c.watched /\ Settle(c).state = c.state
         /\ Settle(c).place \in {0, c.place} /\ Settle(c).pings = c.pings
<1> DEFINE p == IF "service" \in c.calls THEN c.place ELSE 0
<1>1. p \in Nat /\ p \in {0, c.place}
  BY DEF Conns
<1>2. Settle(c) = [c EXCEPT !.leaving = FALSE, !.place = p]
  BY DEF Settle
<1> HIDE DEF p
<1> QED
  BY <1>1, <1>2 DEF Conns

LEMMA CreatedIs ==
  ASSUME NEW c \in Conns
  PROVE  /\ Created(c) \in Conns /\ Created(c).watched = c.watched
         /\ Created(c).state # "NONE" /\ Created(c).place = c.place
         /\ Created(c).pings = c.pings
  BY DEF Conns, Created, ConnectorStates

LEMMA ConnectedIs ==
  ASSUME NEW c \in Conns, NEW place \in Nat
  PROVE  /\ Connected(c, place) \in Conns /\ Connected(c, place).watched = c.watched
         /\ c.state # "NONE" => Connected(c, place).state # "NONE"
         /\ Connected(c, place).place = c.place
         /\ Connected(c, place).pings \subseteq c.pings \cup {place}
  BY DEF Conns, Connected, NewConnect, ConnectorStates

\* A request without a position, the most a connector asks for by itself.
LEMMA ConnectHeard ==
  ASSUME NEW w \in Worlds, NEW s \in Node
  PROVE  Heard(w, Connect(w, s, 0)) /\ Sizes(w, Connect(w, s, 0))
<1> DEFINE c == Connected(w.conn[s], 0)
<1>1. w.conn[s] \in Conns
  BY ConnType
<1>2. Turns(w, s, c)
  <2> HIDE DEF c
  <2>1. /\ c \in Conns /\ c.watched = w.conn[s].watched
        /\ w.conn[s].state # "NONE" => c.state # "NONE"
        /\ c.place = w.conn[s].place /\ c.pings \subseteq w.conn[s].pings \cup {0}
    BY <1>1, ConnectedIs DEF c
  <2> QED
    BY <2>1 DEF Turns, Bound
<1>3. Connect(w, s, 0) = [w EXCEPT !.conn[s] = c]
  BY DEF Connect
<1> HIDE DEF c
<1> QED
  BY <1>2, <1>3, TurnsHeard

\* Changes of one connector that report nothing.
LEMMA OneHeard ==
  ASSUME NEW w \in Worlds, NEW s \in Node, NEW c \in Conns,
         c.watched = w.conn[s].watched, w.conn[s].state # "NONE" => c.state # "NONE",
         c.place \in {0, w.conn[s].place}, c.pings \subseteq w.conn[s].pings \cup {0}
  PROVE  /\ [w EXCEPT !.conn[s] = c] \in Worlds /\ [w EXCEPT !.conn[s] = c].conn[s] = c
         /\ Heard(w, [w EXCEPT !.conn[s] = c]) /\ Sizes(w, [w EXCEPT !.conn[s] = c])
<1>1. Turns(w, s, c)
  BY DEF Turns, Bound
<1>2. [w EXCEPT !.conn[s] = c].conn[s] = c
  BY SetOne
<1> QED
  BY <1>1, <1>2, TurnsHeard

Answered_ == {"NO_SERVICE", "CONNECTED", "DISCONNECTED"}
LEMMA TurnHeard ==
  ASSUME NEW w \in Worlds, NEW s \in Node, NEW answer \in Answered_
  PROVE  Heard(w, Turn(w, s, answer)) /\ Sizes(w, Turn(w, s, answer))
<1> DEFINE c == [w.conn[s] EXCEPT !.state = answer]
           u == [w EXCEPT !.conn[s] = c]
           x == ReportState(u, s, answer)
           d == Settle(x.conn[s])
<1>1. w.conn[s] \in Conns
  BY ConnType
<1>2. /\ c \in Conns /\ c.watched = w.conn[s].watched /\ c.state = answer
      /\ c.place = w.conn[s].place /\ c.pings = w.conn[s].pings /\ answer # "NONE"
  BY <1>1 DEF Conns, Answered_, ConnectorStates
<1>3. [w EXCEPT !.conn[s].state = answer] = u
  BY DEF Worlds
<1> HIDE DEF c
<1>4. u \in Worlds /\ u.conn[s] = c /\ Heard(w, u) /\ Sizes(w, u)
  BY <1>2, OneHeard
<1>5. Turn(w, s, answer) = [x EXCEPT !.conn[s] = Settle(@)]
  BY <1>3 DEF Turn
<1> HIDE DEF u
<1>6. Reported(u, x, s)
  BY <1>2, <1>4, ReportHeard
<1> HIDE DEF x
<1>7. x \in Worlds /\ x.conn[s].state # "NONE"
  BY <1>2, <1>4, <1>6 DEF Reported, Heard, Stays
<1>8. Heard(w, x) /\ Sizes(w, x)
  BY <1>4, <1>6, Chain DEF Reported
<1>9. x.conn[s] \in Conns
  BY <1>7, ConnType
<1>10. /\ d \in Conns /\ d.watched = x.conn[s].watched /\ d.state = x.conn[s].state
       /\ d.place \in {0, x.conn[s].place} /\ d.pings = x.conn[s].pings
  BY <1>9, SettleIs
<1>11. Turn(w, s, answer) = [x EXCEPT !.conn[s] = d]
  BY <1>5
<1> HIDE DEF d
<1>12. Heard(x, [x EXCEPT !.conn[s] = d]) /\ Sizes(x, [x EXCEPT !.conn[s] = d])
  BY <1>7, <1>10, OneHeard
<1> QED
  BY <1>8, <1>11, <1>12, Chain

LEMMA RefuseHeard ==
  ASSUME NEW w \in Worlds, NEW s \in Node
  PROVE  Heard(w, Refuse(w, s)) /\ Sizes(w, Refuse(w, s))
<1> DEFINE b == [w.conn[s] EXCEPT !.state = "REFUSE"]
           c == Send(b, "cancel")
           d == Settle(c)
<1>1. w.conn[s] \in Conns
  BY ConnType
<1>2. /\ b \in Conns /\ b.watched = w.conn[s].watched /\ b.state = "REFUSE"
      /\ b.place = w.conn[s].place /\ b.pings = w.conn[s].pings
  BY <1>1 DEF Conns, ConnectorStates
<1>3. Refuse(w, s) = [w EXCEPT !.conn[s] = d]
  BY DEF Refuse
<1> HIDE DEF b
<1>4. /\ c \in Conns /\ c.watched = b.watched /\ c.state = b.state
      /\ c.place = b.place /\ c.pings = b.pings
  BY <1>2, SendIs DEF Current
<1> HIDE DEF c
<1>5. /\ d \in Conns /\ d.watched = c.watched /\ d.state = c.state
      /\ d.place \in {0, c.place} /\ d.pings = c.pings
  BY <1>4, SettleIs
<1> HIDE DEF d
<1> QED
  BY <1>2, <1>3, <1>4, <1>5, OneHeard

\* A connector that forgets its last request and turns.
LEMMA CleanTurnHeard ==
  ASSUME NEW w \in Worlds, NEW s \in Node, NEW answer \in Answered_
  PROVE  /\ Heard(w, Turn([w EXCEPT !.conn[s] = Clean(@)], s, answer))
         /\ Sizes(w, Turn([w EXCEPT !.conn[s] = Clean(@)], s, answer))
<1> DEFINE c == Clean(w.conn[s])
           u == [w EXCEPT !.conn[s] = c]
<1>1. w.conn[s] \in Conns
  BY ConnType
<1>2. /\ c \in Conns /\ c.watched = w.conn[s].watched /\ c.state = w.conn[s].state
      /\ c.place = w.conn[s].place /\ c.pings = w.conn[s].pings
  BY <1>1, CleanIs
<1> HIDE DEF c
<1>3. u \in Worlds /\ Heard(w, u) /\ Sizes(w, u)
  BY <1>2, OneHeard
<1>4. [w EXCEPT !.conn[s] = Clean(@)] = u
  BY DEF c
<1> HIDE DEF u
<1>5. Heard(u, Turn(u, s, answer)) /\ Sizes(u, Turn(u, s, answer))
  BY <1>3, TurnHeard
<1> QED
  BY <1>3, <1>4, <1>5, Chain

LEMMA DisconnectHeard ==
  ASSUME NEW w \in Worlds, NEW s \in Node, w.conn[s].state # "NONE"
  PROVE  Heard(w, Disconnect(w, s)) /\ Sizes(w, Disconnect(w, s))
<1> DEFINE c == [w.conn[s] EXCEPT !.leaving = TRUE]
<1>1. w.conn[s] \in Conns
  BY ConnType
<1>2. /\ c \in Conns /\ c.watched = w.conn[s].watched /\ c.state = w.conn[s].state
      /\ c.place = w.conn[s].place /\ c.pings = w.conn[s].pings
  BY <1>1 DEF Conns
<1>3. [w EXCEPT !.conn[s].leaving = TRUE] = [w EXCEPT !.conn[s] = c]
  BY DEF Worlds
<1> HIDE DEF c
<1>4. /\ Heard(w, [w EXCEPT !.conn[s] = c]) /\ Sizes(w, [w EXCEPT !.conn[s] = c])
  BY <1>2, OneHeard
<1>5. \/ Disconnect(w, s) = ReportState(w, s, "NO_SERVICE")
      \/ Disconnect(w, s) = Refuse(w, s)
      \/ Disconnect(w, s) = [w EXCEPT !.conn[s] = c]
      \/ Disconnect(w, s) = w
  BY <1>3 DEF Disconnect
<1>6. Heard(w, ReportState(w, s, "NO_SERVICE")) /\ Sizes(w, ReportState(w, s, "NO_SERVICE"))
  BY ReportHeard DEF Reported
<1> QED
  BY <1>4, <1>5, <1>6, RefuseHeard, HeardSelf

\* Nobody searches, so who leaves tells fire_hire() only.
LEMMA DisconnectOnly ==
  ASSUME NEW w \in Worlds, NEW s \in Node, w.conn[s].state # "NONE", w.finder.state = "NONE"
  PROVE  Only(w, Disconnect(w, s), s)
<1> DEFINE c == [w.conn[s] EXCEPT !.leaving = TRUE]
           d == Settle(Send([w.conn[s] EXCEPT !.state = "REFUSE"], "cancel"))
           v == FirstHalf(w, s)
<1>1. Heard(w, v) /\ Only(w, v, s)
  BY FirstHalfIs
<1>2. ReportState(w, s, "NO_SERVICE") = FinderHears(v, s, "NO_SERVICE")
  BY DEF ReportState, FirstHalf
<1> HIDE DEF v
<1>3. v.finder.state = "NONE"
  BY <1>1 DEF Heard, Searches
<1>4. FinderHears(v, s, "NO_SERVICE") = v
  BY <1>3 DEF FinderHears
<1>5. Only(w, ReportState(w, s, "NO_SERVICE"), s)
  BY <1>1, <1>2, <1>4
<1>6. Fresh(w.events, w.events) = {}
  <2>1. w.events \in Queues
    BY DEF Worlds
  <2> QED
    BY <2>1, QueueFacts DEF Fresh
<1>7. \A x : x.events = w.events => Only(w, x, s)
  BY <1>6 DEF Only
<1>8. [w EXCEPT !.conn[s].leaving = TRUE] = [w EXCEPT !.conn[s] = c]
  BY DEF Worlds
<1>9. Refuse(w, s) = [w EXCEPT !.conn[s] = d]
  BY DEF Refuse
<1> HIDE DEF c, d
<1>10. /\ [w EXCEPT !.conn[s] = c].events = w.events
       /\ [w EXCEPT !.conn[s] = d].events = w.events
  BY DEF Worlds
<1>11. \/ Disconnect(w, s) = ReportState(w, s, "NO_SERVICE")
       \/ Disconnect(w, s) = Refuse(w, s)
       \/ Disconnect(w, s) = [w EXCEPT !.conn[s] = c]
       \/ Disconnect(w, s) = w
  BY <1>8 DEF Disconnect
<1> QED
  BY <1>5, <1>7, <1>9, <1>10, <1>11

LEMMA FailedHeard ==
  ASSUME NEW w \in Worlds, NEW s \in Node
  PROVE  Heard(w, Failed(w, s)) /\ Sizes(w, Failed(w, s))
<1>1. "NO_SERVICE" \in Answered_
  BY DEF Answered_
<1>2. \/ Failed(w, s) = Connect(w, s, 0)
      \/ Failed(w, s) = Turn(w, s, "NO_SERVICE")
      \/ Failed(w, s) = Turn([w EXCEPT !.conn[s] = Clean(@)], s, "NO_SERVICE")
      \/ Failed(w, s) = w
  BY DEF Failed
<1> QED
  BY <1>1, <1>2, ConnectHeard, TurnHeard, CleanTurnHeard, HeardSelf

LEMMA AckedHeard ==
  ASSUME NEW w \in Worlds, NEW s \in Node, NEW accepted \in BOOLEAN
  PROVE  Heard(w, Acked(w, s, accepted)) /\ Sizes(w, Acked(w, s, accepted))
<1> DEFINE c == [w.conn[s] EXCEPT !.state = "QUEUE?"]
           x == [w EXCEPT !.conn[s] = c]
<1>1. w.conn[s] \in Conns
  BY ConnType
<1>2. /\ c \in Conns /\ c.watched = w.conn[s].watched /\ c.state # "NONE"
      /\ c.place = w.conn[s].place /\ c.pings = w.conn[s].pings
  BY <1>1 DEF Conns, ConnectorStates
<1>3. [w EXCEPT !.conn[s].state = "QUEUE?"] = x
  BY DEF Worlds
<1> HIDE DEF c
<1>4. Heard(w, x) /\ Sizes(w, x)
  BY <1>2, OneHeard
<1>5. "NO_SERVICE" \in Answered_ /\ "CONNECTED" \in Answered_
  BY DEF Answered_
<1> HIDE DEF x
<1>6. \/ Acked(w, s, accepted) = Turn(w, s, "CONNECTED")
      \/ Acked(w, s, accepted) = Refuse(w, s)
      \/ Acked(w, s, accepted) = x
      \/ Acked(w, s, accepted) = Turn(w, s, "NO_SERVICE")
      \/ Acked(w, s, accepted) = Turn([w EXCEPT !.conn[s] = Clean(@)], s, "NO_SERVICE")
      \/ Acked(w, s, accepted) = w
  BY <1>3 DEF Acked
<1> QED
  BY <1>4, <1>5, <1>6, TurnHeard, RefuseHeard, CleanTurnHeard, HeardSelf

-----------------------------------------------------------------------------
(* The invariant of a world *)

AnswerAt(w, i) == i \in 1 .. Len(w.events) /\ w.events[i].name \in Answering
SearchInv(w) ==
  /\ w.hire.state = "HIRE_ONE" <=> w.finder.state # "NONE" \/ \E i : AnswerAt(w, i)
  /\ w.finder.state = "NONE" \/ \A i : ~AnswerAt(w, i)
  /\ \A i, j : AnswerAt(w, i) /\ AnswerAt(w, j) => i = j
  /\ \A i \in 1 .. Len(w.events) :
        w.events[i].name = "supplier-connected" => w.events[i].who \in Node \ Supplied(w)

DecisionAt(w, k) == k \in 1 .. Len(w.events) /\ w.events[k].name = "made-decision"
\* What a connector has reported is read before the decision, or not at all
OrderInv(w) ==
  /\ w.hire.state # "DECISION?" => \A k : ~DecisionAt(w, k)
  /\ \A k, l : DecisionAt(w, k) /\ DecisionAt(w, l) => k = l
  /\ \A k : DecisionAt(w, k) =>
        \A i \in 1 .. Len(w.events) : w.events[i].name = Changed => i < k
  /\ w.hire.state = "DECISION?" => \E k : DecisionAt(w, k)
  /\ w.hire.state = "HIRE_ONE" => \A i \in 1 .. Len(w.events) : w.events[i].name # Changed

Calm(w) ==
  \A i \in 1 .. Len(w.events) : \A s \in Node : About(w.events, i, s) =>
     /\ w.conn[s].watched = 0 /\ w.conn[s].state # "NONE"
     /\ \A j \in 1 .. Len(w.events) : About(w.events, j, s) => j = i
EchoInv(w) ==
  /\ w.raised => w.echoed
  /\ w.hire.state = "FIRE_MANY" /\ ~w.echoed => Calm(w)

OnceIn(w) ==
  \A i, j \in 1 .. Len(w.suppliers) :
     w.suppliers[i] = w.suppliers[j] /\ w.suppliers[i] # Nobody => i = j

WorldInv(w) == w \in Worlds /\ SearchInv(w) /\ OrderInv(w) /\ EchoInv(w) /\ OnceIn(w)

\* While the user has not asked for another number of suppliers
ConnectedAt(w, i) == i \in 1 .. Len(w.events) /\ w.events[i].name = "supplier-connected"
SizeInv(w) ==
  LET n == Len(First) IN
  /\ w.desired = n /\ Len(w.suppliers) = n /\ Len(w.monitor.known) = n
  /\ w.monitor.erased = 0 /\ Bound(w, n)
  /\ w.finder.state # "NONE" \/ (\E i : ConnectedAt(w, i)) =>
        \E i \in 1 .. n : Vacant(w, i)

LEMMA EventsAre ==
  ASSUME NEW w, NEW v, Heard(w, v)
  PROVE  /\ Len(w.events) \in Nat /\ Len(v.events) \in Nat /\ Len(w.events) <= Len(v.events)
         /\ \A i \in 1 .. Len(w.events) : i \in 1 .. Len(v.events) /\ v.events[i] = w.events[i]
         /\ \A i \in 1 .. Len(v.events) :
               i \in 1 .. Len(w.events) \/ i \in Fresh(w.events, v.events)
         /\ \A i \in Fresh(w.events, v.events) : i \in 1 .. Len(v.events) /\ i > Len(w.events)
<1>1. w.events \in Queues /\ v.events \in Queues
  BY DEF Heard, Stays, Worlds
<1>2. Grown(w.events, v.events)
  BY DEF Heard, Adds
<1> QED
  BY <1>1, <1>2, QueueFacts DEF Grown, Fresh

LEMMA SearchKept ==
  ASSUME NEW w, NEW v, Heard(w, v), SearchInv(w)
  PROVE  SearchInv(v)
<1>1. /\ Len(w.events) \in Nat /\ Len(v.events) \in Nat /\ Len(w.events) <= Len(v.events)
      /\ \A i \in 1 .. Len(w.events) : i \in 1 .. Len(v.events) /\ v.events[i] = w.events[i]
      /\ \A i \in 1 .. Len(v.events) :
            i \in 1 .. Len(w.events) \/ i \in Fresh(w.events, v.events)
      /\ \A i \in Fresh(w.events, v.events) : i \in 1 .. Len(v.events) /\ i > Len(w.events)
  BY EventsAre
<1>2. v.hire.state = w.hire.state /\ Supplied(v) = Supplied(w)
  BY DEF Heard, Stays, Supplied
<1>3. \A i : AnswerAt(w, i) => AnswerAt(v, i)
  BY <1>1 DEF AnswerAt
<1>4. "supplier-connected" \in Answering
  BY DEF Answering
<1>5. CASE /\ v.finder.state = "NONE" <=> w.finder.state = "NONE"
           /\ NoFresh(w.events, v.events, Answering)
  <2>1. \A i : AnswerAt(v, i) => AnswerAt(w, i)
    BY <1>1, <1>5 DEF AnswerAt, NoFresh
  <2>2. \A i \in 1 .. Len(v.events) :
        v.events[i].name = "supplier-connected" => v.events[i].who \in Node \ Supplied(v)
    BY <1>1, <1>2, <1>4, <1>5 DEF SearchInv, NoFresh
  <2> QED
    BY <1>2, <1>3, <1>5, <2>1, <2>2 DEF SearchInv
<1>6. CASE /\ w.finder.state # "NONE" /\ v.finder.state = "NONE"
           /\ \E k \in Fresh(w.events, v.events) :
                 /\ v.events[k].name \in Answering
                 /\ \A i \in Fresh(w.events, v.events) : v.events[i].name \in Answering => i = k
                 /\ v.events[k].name = "supplier-connected" =>
                       v.events[k].who \in Node \ Supplied(w)
  <2>1. PICK k \in Fresh(w.events, v.events) :
           /\ v.events[k].name \in Answering
           /\ \A i \in Fresh(w.events, v.events) : v.events[i].name \in Answering => i = k
           /\ v.events[k].name = "supplier-connected" => v.events[k].who \in Node \ Supplied(w)
    BY <1>6
  <2>2. \A i : ~AnswerAt(w, i)
    BY <1>6 DEF SearchInv
  <2>3. AnswerAt(v, k) /\ \A i : AnswerAt(v, i) => i = k
    BY <1>1, <2>1, <2>2 DEF AnswerAt
  <2>4. \A i \in 1 .. Len(v.events) :
        v.events[i].name = "supplier-connected" => v.events[i].who \in Node \ Supplied(v)
    BY <1>2, <1>4, <2>1, <2>3 DEF AnswerAt
  <2>5. v.hire.state = "HIRE_ONE"
    BY <1>2, <1>6 DEF SearchInv
  <2> QED
    BY <1>6, <2>3, <2>4, <2>5 DEF SearchInv
<1> QED
  BY <1>5, <1>6 DEF Heard, Searches

LEMMA OrderKept ==
  ASSUME NEW w, NEW v, Heard(w, v), OrderInv(w)
  PROVE  OrderInv(v)
<1>1. /\ Len(w.events) \in Nat /\ Len(v.events) \in Nat /\ Len(w.events) <= Len(v.events)
      /\ \A i \in 1 .. Len(w.events) : i \in 1 .. Len(v.events) /\ v.events[i] = w.events[i]
      /\ \A i \in 1 .. Len(v.events) :
            i \in 1 .. Len(w.events) \/ i \in Fresh(w.events, v.events)
      /\ \A i \in Fresh(w.events, v.events) : i \in 1 .. Len(v.events) /\ i > Len(w.events)
  BY EventsAre
<1>2. v.hire.state = w.hire.state
  BY DEF Heard, Stays
<1>3. \A i \in Fresh(w.events, v.events) :
        v.events[i].name \in Silent \cup Answering \cup {Changed}
  BY DEF Heard, Adds
<1>4. "made-decision" \notin Silent \cup Answering \cup {Changed}
  BY DEF Silent, Answering, Changed
<1>5. \A k : DecisionAt(v, k) <=> DecisionAt(w, k)
  BY <1>1, <1>3, <1>4 DEF DecisionAt
<1>6. w.hire.state \in {"DECISION?", "HIRE_ONE"} =>
        \A i \in 1 .. Len(v.events) : v.events[i].name = Changed =>
            i \in 1 .. Len(w.events) /\ w.events[i].name = Changed
  BY <1>1 DEF Heard, Adds, NoFresh
<1> QED
  BY <1>2, <1>5, <1>6 DEF OrderInv

LEMMA EchoKept ==
  ASSUME NEW w, NEW v, Heard(w, v), EchoInv(w)
  PROVE  EchoInv(v)
<1>1. /\ Len(w.events) \in Nat /\ Len(v.events) \in Nat /\ Len(w.events) <= Len(v.events)
      /\ \A i \in 1 .. Len(w.events) : i \in 1 .. Len(v.events) /\ v.events[i] = w.events[i]
      /\ \A i \in 1 .. Len(v.events) :
            i \in 1 .. Len(w.events) \/ i \in Fresh(w.events, v.events)
      /\ \A i \in Fresh(w.events, v.events) : i \in 1 .. Len(v.events) /\ i > Len(w.events)
  BY EventsAre
<1>2. /\ v.hire.state = w.hire.state /\ v.raised = w.raised
      /\ w.echoed => v.echoed
      /\ \A s \in Node : w.conn[s].state # "NONE" => v.conn[s].state # "NONE"
  BY DEF Heard, Stays
<1>3. ASSUME v.hire.state = "FIRE_MANY", ~v.echoed, NEW i \in 1 .. Len(v.events), NEW s \in Node,
             About(v.events, i, s)
      PROVE  /\ v.conn[s].watched = 0 /\ v.conn[s].state # "NONE"
             /\ \A j \in 1 .. Len(v.events) : About(v.events, j, s) => j = i
  <2>0. w.hire.state = "FIRE_MANY" /\ ~w.echoed
    <3>1. v.hire.state = "FIRE_MANY" /\ ~v.echoed
      BY <1>3
    <3> QED
      BY <1>2, <3>1
  <2>1. Calm(w)
    BY <2>0 DEF EchoInv
  <2>2. CASE /\ \A k \in Fresh(w.events, v.events) : ~About(v.events, k, s)
             /\ w.conn[s].watched = 0 => v.conn[s].watched = 0
    <3>1. i \in 1 .. Len(w.events) /\ About(w.events, i, s)
      BY <1>1, <1>3, <2>2 DEF About
    <3>2. \A j \in 1 .. Len(v.events) : About(v.events, j, s) =>
             j \in 1 .. Len(w.events) /\ About(w.events, j, s)
      BY <1>1, <2>2 DEF About
    <3> QED
      BY <1>2, <2>1, <2>2, <3>1, <3>2 DEF Calm
  <2>3. CASE /\ w.conn[s].watched > 0 /\ v.conn[s].watched = 0 /\ v.conn[s].state # "NONE"
             /\ \A k, j \in Fresh(w.events, v.events) :
                   About(v.events, k, s) /\ About(v.events, j, s) => k = j
    <3>1. \A k \in 1 .. Len(w.events) : ~About(w.events, k, s)
      BY <2>1, <2>3 DEF Calm
    <3>2. \A k \in 1 .. Len(v.events) : About(v.events, k, s) => k \in Fresh(w.events, v.events)
      BY <1>1, <3>1 DEF About
    <3> QED
      BY <1>3, <2>3, <3>2
  <2>4. Calms(w, v) /\ w.hire.state = "FIRE_MANY" /\ ~v.echoed /\ s \in Node
    BY <1>3, <2>0 DEF Heard
  <2> QED
    BY <2>2, <2>3, <2>4 DEF Calms
<1>4. v.hire.state = "FIRE_MANY" /\ ~v.echoed => Calm(v)
  BY <1>3 DEF Calm
<1>5. v.raised => v.echoed
  BY <1>2 DEF EchoInv
<1> QED
  BY <1>4, <1>5 DEF EchoInv

LEMMA WorldKept ==
  ASSUME NEW w, NEW v, Heard(w, v), WorldInv(w)
  PROVE  WorldInv(v)
<1>1. v \in Worlds /\ v.suppliers = w.suppliers
  BY DEF Heard, Stays
<1> QED
  BY <1>1, SearchKept, OrderKept, EchoKept DEF WorldInv, OnceIn

LEMMA SizeKept ==
  ASSUME NEW w, NEW v, Heard(w, v), Sizes(w, v), SizeInv(w), Len(First) \in Nat
  PROVE  SizeInv(v)
<1> DEFINE n == Len(First)
<1>1. /\ Len(w.events) \in Nat /\ Len(v.events) \in Nat /\ Len(w.events) <= Len(v.events)
      /\ \A i \in 1 .. Len(w.events) : i \in 1 .. Len(v.events) /\ v.events[i] = w.events[i]
      /\ \A i \in 1 .. Len(v.events) :
            i \in 1 .. Len(w.events) \/ i \in Fresh(w.events, v.events)
      /\ \A i \in Fresh(w.events, v.events) : i \in 1 .. Len(v.events) /\ i > Len(w.events)
  BY EventsAre
<1>2. /\ v.suppliers = w.suppliers /\ v.hire.dismissing = w.hire.dismissing
  BY DEF Heard, Stays
<1>3. \A i : Vacant(w, i) => Vacant(v, i)
  BY <1>2 DEF Vacant, Dismissed
<1>4. v.finder.state # "NONE" \/ (\E i : ConnectedAt(v, i)) =>
        w.finder.state # "NONE" \/ \E i : ConnectedAt(w, i)
  <2>1. "supplier-connected" \in Answering
    BY DEF Answering
  <2> QED
    BY <1>1, <2>1 DEF Heard, Searches, ConnectedAt, NoFresh
<1>5. Bound(v, n)
  BY DEF Sizes, SizeInv
<1>6. /\ v.desired = n /\ Len(v.suppliers) = n /\ Len(v.monitor.known) = n
      /\ v.monitor.erased = 0
  BY <1>2 DEF Sizes, SizeInv
<1>7. v.finder.state # "NONE" \/ (\E i : ConnectedAt(v, i)) => \E i \in 1 .. n : Vacant(v, i)
  BY <1>3, <1>4 DEF SizeInv
<1> QED
  BY <1>5, <1>6, <1>7 DEF SizeInv

-----------------------------------------------------------------------------
(* fire_hire() takes an event *)

\* Nothing of a search or a decision is on the way
Quiet(w) == w.finder.state = "NONE" /\ \A i : ~AnswerAt(w, i) /\ ~DecisionAt(w, i)
NoReports(w) == \A i \in 1 .. Len(w.events) : w.events[i].name # Changed

Popped(w) == [w EXCEPT !.events = Tail(@)]
LEMMA PopIs ==
  ASSUME NEW w \in Worlds, w.events # <<>>
  PROVE  /\ Popped(w) \in Worlds /\ Head(w.events) = w.events[1]
         /\ w.events[1] \in Mails /\ 1 \in 1 .. Len(w.events)
         /\ Len(w.events) \in Nat /\ Len(Popped(w).events) = Len(w.events) - 1
         /\ \A i \in 1 .. Len(Popped(w).events) :
               i + 1 \in 1 .. Len(w.events) /\ Popped(w).events[i] = w.events[i + 1]
         /\ Popped(w).hire = w.hire /\ Popped(w).conn = w.conn
         /\ Popped(w).suppliers = w.suppliers /\ Popped(w).finder = w.finder
         /\ Popped(w).monitor = w.monitor /\ Popped(w).desired = w.desired
         /\ Popped(w).raised = w.raised /\ Popped(w).echoed = w.echoed
<1> DEFINE q == w.events
           r == Tail(q)
<1>1. q \in Queues /\ q # <<>>
  BY DEF Worlds
<1>2. /\ r \in Queues /\ Head(q) = q[1] /\ q[1] \in Mails /\ 1 \in 1 .. Len(q)
      /\ Len(q) \in Nat /\ Len(r) = Len(q) - 1
      /\ \A i \in 1 .. Len(r) : i + 1 \in 1 .. Len(q) /\ r[i] = q[i + 1]
  <2> HIDE DEF Mails, q
  <2>1. q \in Seq(Mails) /\ Len(q) \in Nat /\ Len(q) # 0
    BY <1>1 DEF Queues
  <2> QED
    BY <1>1, <2>1 DEF Queues
<1>3. Popped(w) = [w EXCEPT !.events = r]
  BY DEF Popped
<1> HIDE DEF r
<1>4. /\ Popped(w) \in Worlds /\ Popped(w).events = r
      /\ Popped(w).hire = w.hire /\ Popped(w).conn = w.conn
      /\ Popped(w).suppliers = w.suppliers /\ Popped(w).finder = w.finder
      /\ Popped(w).monitor = w.monitor /\ Popped(w).desired = w.desired
      /\ Popped(w).raised = w.raised /\ Popped(w).echoed = w.echoed
  BY <1>2, <1>3 DEF Worlds
<1> QED
  BY <1>2, <1>4

\* What the event that was taken says of the rest
LEMMA PopInv ==
  ASSUME NEW w, WorldInv(w), w.events # <<>>
  PROVE  LET p == Popped(w)
             e == w.events[1]
         IN /\ e.name \notin Answering => SearchInv(p)
            /\ e.name \in Answering =>
                  /\ p.hire.state = "HIRE_ONE" /\ p.finder.state = "NONE"
                  /\ \A i : ~AnswerAt(p, i)
            /\ e.name = "supplier-connected" => e.who \in Node \ Supplied(p)
            /\ e.name # "made-decision" => OrderInv(p)
            /\ e.name = "made-decision" =>
                  /\ p.hire.state = "DECISION?" /\ NoReports(p)
                  /\ \A i : ~DecisionAt(p, i)
            /\ EchoInv(p) /\ OnceIn(p)
            /\ p.hire.state = "FIRE_MANY" /\ ~p.echoed => \A s \in Node :
                  e.name = Changed /\ e.who = s =>
                    /\ p.conn[s].watched = 0 /\ p.conn[s].state # "NONE"
                    /\ \A i \in 1 .. Len(p.events) : ~About(p.events, i, s)
<1> DEFINE p == Popped(w)
           e == w.events[1]
<1>1. /\ p \in Worlds /\ e \in Mails /\ 1 \in 1 .. Len(w.events)
      /\ Len(w.events) \in Nat /\ Len(p.events) = Len(w.events) - 1
      /\ \A i \in 1 .. Len(p.events) :
            i + 1 \in 1 .. Len(w.events) /\ p.events[i] = w.events[i + 1]
      /\ p.hire = w.hire /\ p.conn = w.conn /\ p.suppliers = w.suppliers
      /\ p.finder = w.finder /\ p.raised = w.raised /\ p.echoed = w.echoed
  BY PopIs DEF WorldInv
<1> HIDE DEF p
<1>2. /\ \A i : AnswerAt(p, i) => i \in Nat /\ AnswerAt(w, i + 1) /\ i + 1 # 1
      /\ \A i : DecisionAt(p, i) => i \in Nat /\ DecisionAt(w, i + 1) /\ i + 1 # 1
      /\ \A i \in 1 .. Len(w.events) : i = 1 \/ (i - 1 \in 1 .. Len(p.events)
                                                 /\ p.events[i - 1] = w.events[i])
  <2>1. /\ \A i \in 1 .. Len(p.events) : i \in Nat /\ i + 1 # 1
        /\ \A i \in 1 .. Len(w.events) : i = 1 \/ i - 1 \in 1 .. Len(p.events)
        /\ \A i \in 1 .. Len(w.events) : (i - 1) + 1 = i
    <3> DEFINE n == Len(w.events)
               m == Len(p.events)
    <3>1. n \in Nat /\ m = n - 1
      BY <1>1
    <3> HIDE DEF n, m
    <3>2. /\ \A i \in 1 .. m : i \in Nat /\ i + 1 # 1
          /\ \A i \in 1 .. n : i = 1 \/ i - 1 \in 1 .. m
          /\ \A i \in 1 .. n : (i - 1) + 1 = i
      BY <3>1
    <3> QED
      BY <3>2 DEF n, m
  <2>2. \A i : AnswerAt(p, i) => i \in Nat /\ AnswerAt(w, i + 1) /\ i + 1 # 1
    BY <1>1, <2>1 DEF AnswerAt
  <2>3. \A i : DecisionAt(p, i) => i \in Nat /\ DecisionAt(w, i + 1) /\ i + 1 # 1
    BY <1>1, <2>1 DEF DecisionAt
  <2>4. \A i \in 1 .. Len(w.events) : i = 1 \/ (i - 1 \in 1 .. Len(p.events)
                                                /\ p.events[i - 1] = w.events[i])
    <3> TAKE i \in 1 .. Len(w.events)
    <3>1. CASE i - 1 \in 1 .. Len(p.events)
      BY <1>1, <2>1, <3>1
    <3> QED
      BY <2>1, <3>1
  <2> QED
    BY <2>2, <2>3, <2>4
<1>3. Supplied(p) = Supplied(w)
  BY <1>1 DEF Supplied
<1>4. \A i \in 1 .. Len(p.events) :
        p.events[i].name = "supplier-connected" => p.events[i].who \in Node \ Supplied(p)
  BY <1>1, <1>3 DEF WorldInv, SearchInv
<1>5. ASSUME e.name \notin Answering PROVE SearchInv(p)
  <2>1. \A i : AnswerAt(w, i) => AnswerAt(p, i - 1)
    BY <1>2, <1>5 DEF AnswerAt
  <2>2. p.hire.state = "HIRE_ONE" <=> p.finder.state # "NONE" \/ \E i : AnswerAt(p, i)
    BY <1>1, <1>2, <2>1 DEF WorldInv, SearchInv
  <2>3. p.finder.state = "NONE" \/ \A i : ~AnswerAt(p, i)
    BY <1>1, <1>2 DEF WorldInv, SearchInv
  <2>4. ASSUME NEW i, NEW j, AnswerAt(p, i), AnswerAt(p, j) PROVE i = j
    <3>1. i \in Nat /\ j \in Nat /\ i + 1 = j + 1
      BY <1>2, <2>4 DEF WorldInv, SearchInv
    <3> QED
      BY <3>1
  <2> QED
    BY <1>4, <2>2, <2>3, <2>4 DEF SearchInv
<1>6. ASSUME e.name \in Answering
      PROVE  /\ p.hire.state = "HIRE_ONE" /\ p.finder.state = "NONE" /\ \A i : ~AnswerAt(p, i)
  <2>1. AnswerAt(w, 1)
    BY <1>1, <1>6 DEF AnswerAt
  <2>2. \A i : AnswerAt(w, i) => i = 1
    BY <2>1 DEF WorldInv, SearchInv
  <2>3. w.hire.state = "HIRE_ONE" /\ w.finder.state = "NONE"
    BY <2>1 DEF WorldInv, SearchInv
  <2> QED
    BY <1>1, <1>2, <2>2, <2>3
<1>7. e.name = "supplier-connected" => e.who \in Node \ Supplied(p)
  BY <1>1, <1>3 DEF WorldInv, SearchInv
<1>8. ASSUME e.name # "made-decision" PROVE OrderInv(p)
  <2>1. \A i : DecisionAt(w, i) => DecisionAt(p, i - 1)
    BY <1>2, <1>8 DEF DecisionAt
  <2>2. ASSUME NEW i, NEW j, DecisionAt(p, i), DecisionAt(p, j) PROVE i = j
    <3>1. i \in Nat /\ j \in Nat /\ i + 1 = j + 1
      BY <1>2, <2>2 DEF WorldInv, OrderInv
    <3> QED
      BY <3>1
  <2>3. ASSUME NEW k, DecisionAt(p, k), NEW i \in 1 .. Len(p.events), p.events[i].name = Changed
        PROVE  i < k
    <3>1. k \in Nat /\ i \in Nat /\ i + 1 < k + 1
      BY <1>1, <1>2, <2>3 DEF WorldInv, OrderInv
    <3> QED
      BY <3>1
  <2>4. p.hire.state # "DECISION?" => \A k : ~DecisionAt(p, k)
    BY <1>1, <1>2 DEF WorldInv, OrderInv
  <2>5. p.hire.state = "DECISION?" => \E k : DecisionAt(p, k)
    BY <1>1, <2>1 DEF WorldInv, OrderInv
  <2>6. p.hire.state = "HIRE_ONE" => \A i \in 1 .. Len(p.events) : p.events[i].name # Changed
    BY <1>1 DEF WorldInv, OrderInv
  <2> QED
    BY <2>2, <2>3, <2>4, <2>5, <2>6 DEF OrderInv
<1>9. ASSUME e.name = "made-decision"
      PROVE  /\ p.hire.state = "DECISION?" /\ NoReports(p) /\ \A i : ~DecisionAt(p, i)
  <2>1. DecisionAt(w, 1)
    BY <1>1, <1>9 DEF DecisionAt
  <2>2. w.hire.state = "DECISION?" /\ \A i : DecisionAt(w, i) => i = 1
    BY <2>1 DEF WorldInv, OrderInv
  <2>3. \A i \in 1 .. Len(w.events) : w.events[i].name = Changed => i < 1
    BY <2>1 DEF WorldInv, OrderInv
  <2>4. NoReports(p)
    <3> SUFFICES ASSUME NEW i \in 1 .. Len(p.events), p.events[i].name = Changed PROVE FALSE
      BY DEF NoReports
    <3>1. i + 1 \in 1 .. Len(w.events) /\ w.events[i + 1].name = Changed /\ i \in Nat
      BY <1>1
    <3>2. i + 1 < 1
      BY <2>3, <3>1
    <3> QED
      BY <3>1, <3>2
  <2> QED
    BY <1>1, <1>2, <2>2, <2>4
<1>10. ASSUME p.hire.state = "FIRE_MANY", ~p.echoed PROVE Calm(w)
  <2>1. w.hire.state = "FIRE_MANY" /\ ~w.echoed
    BY <1>1, <1>10
  <2> QED
    BY <2>1 DEF WorldInv, EchoInv
<1>11. \A i \in 1 .. Len(p.events) : \A s : About(p.events, i, s) => About(w.events, i + 1, s)
  BY <1>1 DEF About
<1>12. EchoInv(p)
  <2>1. ASSUME Calm(w) PROVE Calm(p)
    <3> SUFFICES ASSUME NEW i \in 1 .. Len(p.events), NEW s \in Node, About(p.events, i, s)
                 PROVE  /\ p.conn[s].watched = 0 /\ p.conn[s].state # "NONE"
                        /\ \A j \in 1 .. Len(p.events) : About(p.events, j, s) => j = i
      BY DEF Calm
    <3>1. i + 1 \in 1 .. Len(w.events) /\ About(w.events, i + 1, s)
      BY <1>1, <1>11
    <3>2. p.conn[s].watched = 0 /\ p.conn[s].state # "NONE"
      BY <1>1, <2>1, <3>1 DEF Calm
    <3>3. ASSUME NEW j \in 1 .. Len(p.events), About(p.events, j, s) PROVE j = i
      <4>1. j + 1 \in 1 .. Len(w.events) /\ About(w.events, j + 1, s)
        BY <1>1, <1>11, <3>3
      <4>2. j + 1 = i + 1 /\ j \in Int /\ i \in Int
        BY <2>1, <3>1, <4>1 DEF Calm
      <4> QED
        BY <4>2
    <3> QED
      BY <3>2, <3>3
  <2>2. p.raised => p.echoed
    BY <1>1 DEF WorldInv, EchoInv
  <2> QED
    BY <1>10, <2>1, <2>2 DEF EchoInv
<1>13. OnceIn(p)
  BY <1>1 DEF WorldInv, OnceIn
<1>14. ASSUME p.hire.state = "FIRE_MANY", ~p.echoed, NEW s \in Node, e.name = Changed, e.who = s
       PROVE  /\ p.conn[s].watched = 0 /\ p.conn[s].state # "NONE"
              /\ \A i \in 1 .. Len(p.events) : ~About(p.events, i, s)
  <2>1. Calm(w) /\ About(w.events, 1, s)
    BY <1>10, <1>14 DEF About
  <2>2. /\ w.conn[s].watched = 0 /\ w.conn[s].state # "NONE"
        /\ \A j \in 1 .. Len(w.events) : About(w.events, j, s) => j = 1
    BY <1>1, <2>1 DEF Calm
  <2>3. ASSUME NEW i \in 1 .. Len(p.events), About(p.events, i, s) PROVE FALSE
    <3>1. i + 1 \in 1 .. Len(w.events) /\ About(w.events, i + 1, s) /\ i \in Nat /\ i > 0
      BY <1>1, <1>11, <2>3
    <3>2. i + 1 = 1
      BY <2>2, <3>1
    <3> QED
      BY <3>1, <3>2
  <2> QED
    BY <1>1, <2>2, <2>3
<1> QED
  BY <1>5, <1>6, <1>7, <1>8, <1>9, <1>12, <1>13, <1>14 DEF p

-----------------------------------------------------------------------------
(* Between the rounds *)

Ease(w) ==
  /\ w \in Worlds /\ Quiet(w) /\ OnceIn(w)
  /\ w.raised => w.echoed
Room(w) ==
  LET n == Len(First) IN
  /\ w.desired = n /\ Len(w.suppliers) = n /\ Len(w.monitor.known) = n
  /\ w.monitor.erased = 0 /\ Bound(w, n)
\* Where a handler may lead
Ends(x, v) == WorldInv(v) /\ (Room(x) => SizeInv(v))

LEMMA FirstLen == \A w \in Worlds : Len(First) \in Nat /\ Len(First) > 0
  BY DEF Worlds, Numbers, Parameters

LEMMA RestingInv ==
  ASSUME NEW w, Ease(w), w.hire.state \in {"READY", "SUPPLIERS?"}
  PROVE  WorldInv(w) /\ (Room(w) => SizeInv(w))
<1>1. \A i : ~AnswerAt(w, i) /\ ~DecisionAt(w, i)
  BY DEF Ease, Quiet
<1>2. "supplier-connected" \in Answering
  BY DEF Answering
<1>3. \A i \in 1 .. Len(w.events) : w.events[i].name # "supplier-connected"
  BY <1>1, <1>2 DEF AnswerAt
<1>4. SearchInv(w)
  BY <1>1, <1>3 DEF SearchInv, Ease, Quiet
<1>5. OrderInv(w)
  BY <1>1 DEF OrderInv
<1>6. EchoInv(w)
  BY DEF EchoInv, Ease
<1>7. Room(w) => SizeInv(w)
  BY <1>3 DEF Room, SizeInv, Ease, Quiet, ConnectedAt
<1> QED
  BY <1>4, <1>5, <1>6, <1>7 DEF WorldInv, Ease

LEMMA FiringInv ==
  ASSUME NEW w, Ease(w), w.hire.state = "FIRE_MANY", ~w.echoed => Calm(w)
  PROVE  WorldInv(w) /\ (Room(w) => SizeInv(w))
<1>1. \A i : ~AnswerAt(w, i) /\ ~DecisionAt(w, i)
  BY DEF Ease, Quiet
<1>2. "supplier-connected" \in Answering
  BY DEF Answering
<1>3. \A i \in 1 .. Len(w.events) : w.events[i].name # "supplier-connected"
  BY <1>1, <1>2 DEF AnswerAt
<1>4. SearchInv(w)
  BY <1>1, <1>3 DEF SearchInv, Ease, Quiet
<1>5. OrderInv(w)
  BY <1>1 DEF OrderInv
<1>6. EchoInv(w)
  BY DEF EchoInv, Ease
<1>7. Room(w) => SizeInv(w)
  BY <1>3 DEF Room, SizeInv, Ease, Quiet, ConnectedAt
<1> QED
  BY <1>4, <1>5, <1>6, <1>7 DEF WorldInv, Ease

\* And the other way round
LEMMA InvEase ==
  ASSUME NEW w, WorldInv(w), w.hire.state \in {"READY", "SUPPLIERS?", "FIRE_MANY"}
  PROVE  Ease(w) /\ (SizeInv(w) => Room(w))
  BY DEF WorldInv, SearchInv, OrderInv, EchoInv, Ease, Quiet, SizeInv, Room

\* fire_hire() alone changes.
Apart(w, v) ==
  /\ v \in Worlds
  /\ v.events = w.events /\ v.suppliers = w.suppliers /\ v.conn = w.conn
  /\ v.finder = w.finder /\ v.monitor = w.monitor /\ v.desired = w.desired
  /\ v.raised = w.raised /\ v.echoed = w.echoed
LEMMA ApartOn ==
  ASSUME NEW w, NEW v, Apart(w, v), Ease(w)
  PROVE  Ease(v) /\ (Room(w) => Room(v)) /\ (NoReports(w) => NoReports(v))
  BY DEF Apart, Ease, Quiet, AnswerAt, DecisionAt, OnceIn, Room, Bound, NoReports

LEMMA SetHire ==
  ASSUME NEW w \in Worlds, NEW h \in Hires, NEW f \in SUBSET Node, NEW b \in BOOLEAN
  PROVE  /\ Apart(w, [w EXCEPT !.hire = h]) /\ [w EXCEPT !.hire = h].hire = h
         /\ Apart(w, [w EXCEPT !.hire = h, !.toFire = f])
         /\ [w EXCEPT !.hire = h, !.toFire = f].hire = h
         /\ Apart(w, [w EXCEPT !.hire = h, !.scheduled = b])
         /\ [w EXCEPT !.hire = h, !.scheduled = b].hire = h
  BY DEF Apart, Worlds

LEMMA HireType ==
  \A w \in Worlds : /\ w.hire \in Hires /\ w.suppliers \in Rows /\ w.conn \in Connectors
                    /\ w.finder \in Finders /\ w.desired \in Nat /\ w.desired > 0
                    /\ w.desired \in Number /\ w.toFire \in SUBSET Node
                    /\ w.scheduled \in BOOLEAN
  BY DEF Worlds, Numbers, Parameters

\* A round ends: doNotify..() and the state READY.
LEMMA EndRound ==
  ASSUME NEW x, Ease(x), x.hire.state = "READY", NEW news
  PROVE  Ends(x, Ready(Notify(x, news)))
<1> DEFINE h == [x.hire EXCEPT !.hiring = {}]
           y == [x EXCEPT !.hire = h]
           z == MonitorTold(y, news)
           k == [z.hire EXCEPT !.state = "READY"]
           t == [z EXCEPT !.hire = k]
           v == Queue(t, Event("instant"))
<1>1. x \in Worlds /\ x.hire \in Hires
  BY HireType DEF Ease
<1>2. h \in Hires /\ h.state = "READY" /\ h.dismissing = x.hire.dismissing
  BY <1>1 DEF Hires
<1>3. Notify(x, news) = z
  BY <1>1 DEF Notify, Worlds
<1> HIDE DEF h
<1>4. Apart(x, y) /\ y.hire = h
  BY <1>1, <1>2, SetHire
<1> HIDE DEF y
<1>5. Same(x, y) /\ y \in Worlds /\ y.monitor = x.monitor /\ y.desired = x.desired
  BY <1>2, <1>4 DEF Same, Apart
<1>6. Heard(x, y) /\ Sizes(x, y)
  BY <1>1, <1>5, SameHeard
<1>7. Heard(y, z) /\ Sizes(y, z)
  BY <1>5, MonitorHeard
<1> HIDE DEF z
<1>8. Heard(x, z) /\ Sizes(x, z) /\ z \in Worlds /\ z.hire.state = "READY"
  BY <1>2, <1>4, <1>6, <1>7, Chain DEF Heard, Stays
<1>9. z.hire \in Hires
  BY <1>8, HireType
<1>10. k \in Hires /\ k.state = "READY" /\ k.dismissing = z.hire.dismissing
  BY <1>9 DEF Hires, HireStates
<1>11. Ready(z) = v
  BY <1>8 DEF Ready, Worlds
<1> HIDE DEF k
<1>12. Apart(z, t) /\ t.hire = k
  BY <1>8, <1>10, SetHire
<1> HIDE DEF t
<1>13. Same(z, t) /\ t \in Worlds /\ t.monitor = z.monitor /\ t.desired = z.desired
  BY <1>8, <1>10, <1>12 DEF Same, Apart
<1>14. Heard(z, t) /\ Sizes(z, t)
  BY <1>8, <1>13, SameHeard
<1>15. Heard(t, v) /\ Sizes(t, v)
  BY <1>13, QueueHeard DEF Silent
<1> HIDE DEF v
<1>16. Heard(x, v) /\ Sizes(x, v)
  BY <1>8, <1>14, <1>15, Chain
<1>17. WorldInv(x) /\ (Room(x) => SizeInv(x))
  BY RestingInv
<1>18. WorldInv(v)
  BY <1>16, <1>17, WorldKept
<1>19. Room(x) => SizeInv(v)
  BY <1>1, <1>16, <1>17, FirstLen, SizeKept
<1> QED
  BY <1>3, <1>11, <1>18, <1>19 DEF Ends

-----------------------------------------------------------------------------
(* What fire_hire() computes *)

LEMMA RowFacts ==
  ASSUME NEW w \in Worlds
  PROVE  /\ Len(w.suppliers) \in Nat /\ DOMAIN w.suppliers = 1 .. Len(w.suppliers)
         /\ \A i \in 1 .. Len(w.suppliers) : w.suppliers[i] \in Someone
         /\ Supplied(w) \subseteq Node /\ IsFiniteSet(Node) /\ Nobody \notin Node
         /\ \A i \in 1 .. Len(w.suppliers) :
               w.suppliers[i] # Nobody => w.suppliers[i] \in Supplied(w)
<1> HIDE DEF Someone
<1>1. w.suppliers \in Seq(Someone)
  BY HireType DEF Rows
<1>2. /\ Len(w.suppliers) \in Nat /\ DOMAIN w.suppliers = 1 .. Len(w.suppliers)
      /\ \A i \in 1 .. Len(w.suppliers) : w.suppliers[i] \in Someone
  BY <1>1
<1>3. IsFiniteSet(Node) /\ Nobody \notin Node
  BY DEF Worlds, Numbers, Parameters
<1>4. Supplied(w) \subseteq Node
  BY <1>2 DEF Supplied, Range, Someone
<1>5. \A i \in 1 .. Len(w.suppliers) : w.suppliers[i] # Nobody => w.suppliers[i] \in Supplied(w)
  BY <1>2 DEF Supplied, Range
<1> QED
  BY <1>2, <1>3, <1>4, <1>5

\* A set of nodes in any order
LEMMA AnyOrder ==
  ASSUME NEW S \in SUBSET Node, IsFiniteSet(Node)
  PROVE  SetToSeqs(S) \subseteq Lists
<1>1. Cardinality(S) \in Nat
  BY FS_Subset, FS_CardinalityType
<1> DEFINE D == 1 .. Cardinality(S)
<1>2. ASSUME NEW f \in [D -> S], \A i, j \in D : i # j => f[i] # f[j]
      PROVE  f \in Lists
  <2>1. f \in Seq(Node)
    BY <1>1
  <2>2. IsInjective(f)
    BY <1>2 DEF IsInjective
  <2> QED
    BY <2>1, <2>2 DEF Lists
<1>3. SetToSeqs(S) = {f \in [D -> S] : \A i, j \in D : i # j => f[i] # f[j]}
  BY DEF SetToSeqs
<1> HIDE DEF D
<1> QED
  BY <1>2, <1>3

LEMMA DecisionsLists ==
  ASSUME NEW w \in Worlds
  PROVE  Decisions(w) \subseteq Lists
<1> DEFINE surplus == {w.suppliers[i] : i \in w.desired + 1 .. Len(w.suppliers)} \ {Nobody}
           in(states) == {s \in Supplied(w) : w.conn[s].state \in states}
           weak(s) == /\ w.conn[s].state # "NONE"
                      /\ in({"CONNECTED"}) # {} /\ Supplied(w) # {s}
                      /\ in({"NO_SERVICE", "DISCONNECTED", "REFUSE"}) # {}
           others == {<<>>} \cup {<<s>> : s \in {t \in Supplied(w) : weak(t)}}
<1>1. /\ Len(w.suppliers) \in Nat /\ Supplied(w) \subseteq Node /\ IsFiniteSet(Node)
      /\ \A i \in 1 .. Len(w.suppliers) : w.suppliers[i] \in Someone
  BY RowFacts
<1>2. surplus \in SUBSET Node /\ w.toFire \in SUBSET Node
  <2>1. w.desired \in Nat /\ w.toFire \in SUBSET Node
    BY HireType
  <2>2. \A i \in w.desired + 1 .. Len(w.suppliers) : i \in 1 .. Len(w.suppliers)
    BY <1>1, <2>1
  <2> QED
    BY <1>1, <2>1, <2>2 DEF Someone
<1>3. <<>> \in Lists
  BY DEF Lists, IsInjective
<1>4. \A s \in Node : <<s>> \in Lists
  <2> TAKE s \in Node
  <2>1. <<s>> \in Seq(Node) /\ DOMAIN <<s>> = {1}
    OBVIOUS
  <2> QED
    BY <2>1 DEF Lists, IsInjective
<1>5. others \subseteq Lists
  BY <1>1, <1>3, <1>4
<1>6. SetToSeqs(w.toFire) \subseteq Lists /\ SetToSeqs(surplus) \subseteq Lists
  BY <1>1, <1>2, AnyOrder
<1>7. Decisions(w) \in {SetToSeqs(w.toFire), SetToSeqs(surplus), {<<>>}, others}
  <2>1. Decisions(w) =
          CASE w.toFire # {} -> SetToSeqs(w.toFire)
            [] w.toFire = {} /\ surplus # {} -> SetToSeqs(surplus)
            [] w.toFire = {} /\ surplus = {} /\ SomeEmpty(w) -> {<<>>}
            [] OTHER -> others
    BY DEF Decisions
  <2> HIDE DEF surplus, others
  <2> QED
    BY <2>1
<1> HIDE DEF surplus, others
<1> QED
  BY <1>3, <1>5, <1>6, <1>7

\* doDecideToDismiss() sends its decision to fire_hire() itself.
LEMMA DecideEnds ==
  ASSUME NEW w, Ease(w), NEW v \in Decide(w)
  PROVE  Ends(w, v)
<1>1. PICK d \in Decisions(w) :
        v = Queue([w EXCEPT !.hire.state = "DECISION?", !.hire.connecting = {}, !.toFire = {}],
                  [Event("made-decision") EXCEPT !.list = d])
  BY DEF Decide
<1> DEFINE h == [w.hire EXCEPT !.state = "DECISION?", !.connecting = {}]
           u == [w EXCEPT !.hire = h, !.toFire = {}]
           e == [Event("made-decision") EXCEPT !.list = d]
<1>2. w \in Worlds /\ w.hire \in Hires
  BY HireType DEF Ease
<1>3. d \in Lists
  BY <1>2, DecisionsLists
<1>4. e \in Mails /\ e.name = "made-decision" /\ e.place = 0
  <2>1. "made-decision" \in Names
    BY DEF Names
  <2>2. Event("made-decision") \in Letters /\ Event("made-decision").name = "made-decision"
        /\ Event("made-decision").place = 0
    BY <2>1, EventValues
  <2> QED
    BY <1>3, <2>2 DEF Letters, Mails
<1>5. h \in Hires /\ h.state = "DECISION?"
  BY <1>2 DEF Hires, HireStates
<1>6. v = Queue(u, e)
  BY <1>1, <1>2 DEF Worlds
<1> HIDE DEF h, e
<1>7. Apart(w, u) /\ u.hire = h
  BY <1>2, <1>5, SetHire
<1> HIDE DEF u
<1>8. Ease(u) /\ (Room(w) => Room(u)) /\ u \in Worlds
  BY <1>7, ApartOn DEF Apart
<1>9. /\ v \in Worlds /\ v.events = Append(u.events, e)
      /\ v.hire = h /\ v.conn = u.conn
      /\ v.suppliers = u.suppliers /\ v.finder = u.finder
      /\ v.monitor = u.monitor /\ v.desired = u.desired
      /\ v.raised = u.raised /\ v.echoed = u.echoed
  BY <1>4, <1>6, <1>7, <1>8, QueueOne
<1> DEFINE k == Len(u.events) + 1
<1>10. /\ Len(u.events) \in Nat /\ Len(v.events) = k /\ v.events[k] = e
       /\ \A i \in 1 .. Len(u.events) : v.events[i] = u.events[i]
       /\ \A i \in 1 .. Len(v.events) : i \in 1 .. Len(u.events) \/ i = k
       /\ \A i \in 1 .. Len(u.events) : i < k
       /\ k \in 1 .. Len(v.events)
  <2>1. u.events \in Queues
    BY <1>8 DEF Worlds
  <2>2. Len(u.events) \in Nat
    BY <2>1, QueueFacts
  <2> QED
    BY <1>4, <1>9, <2>1, <2>2, AppendFacts
<1> HIDE DEF k
<1>11. \A i : ~AnswerAt(u, i) /\ ~DecisionAt(u, i)
  BY <1>8 DEF Ease, Quiet
<1>12. \A i : DecisionAt(v, i) <=> i = k
  BY <1>4, <1>10, <1>11 DEF DecisionAt
<1>13. \A i : ~AnswerAt(v, i)
  <2>1. "made-decision" \notin Answering
    BY DEF Answering
  <2> QED
    BY <1>4, <1>10, <1>11, <2>1 DEF AnswerAt
<1>14. \A i \in 1 .. Len(v.events) : v.events[i].name # "supplier-connected"
  <2>1. "supplier-connected" \in Answering
    BY DEF Answering
  <2> QED
    BY <1>13, <2>1 DEF AnswerAt
<1>15. SearchInv(v)
  <2>1. v.finder.state = "NONE" /\ v.hire.state = "DECISION?"
    BY <1>5, <1>8, <1>9 DEF Ease, Quiet
  <2> QED
    BY <1>13, <1>14, <2>1 DEF SearchInv
<1>16. OrderInv(v)
  <2>1. \A i \in 1 .. Len(v.events) : v.events[i].name = Changed => i < k
    BY <1>4, <1>10 DEF Changed
  <2> QED
    BY <1>5, <1>9, <1>12, <2>1 DEF OrderInv
<1>17. EchoInv(v) /\ OnceIn(v)
  BY <1>5, <1>8, <1>9 DEF EchoInv, Ease, OnceIn
<1>18. WorldInv(v)
  BY <1>9, <1>15, <1>16, <1>17 DEF WorldInv
<1>19. ASSUME Room(w) PROVE SizeInv(v)
  <2>1. Room(u) /\ Len(First) \in Nat
    BY <1>2, <1>8, <1>19, FirstLen
  <2>2. v.finder.state = "NONE" /\ \A i : ~ConnectedAt(v, i)
    BY <1>8, <1>9, <1>14 DEF Ease, Quiet, ConnectedAt
  <2>3. Bound(v, Len(First))
    BY <1>4, <1>9, <1>10, <2>1 DEF Bound, Room
  <2> QED
    BY <1>9, <2>1, <2>2, <2>3 DEF Room, SizeInv
<1> QED
  BY <1>18, <1>19 DEF Ends

LEMMA MinFacts ==
  ASSUME NEW S \in SUBSET Nat, S # {}
  PROVE  Min(S) \in S /\ \A y \in S : Min(S) <= y
<1> DEFINE R == OpToRel(<, Nat)
<1>1. IsWellFoundedOn(R, Nat)
  BY NatLessThanWellFounded
<1>2. \A k, m \in Nat : k < m => <<k, m>> \in R
  BY DEF OpToRel
<1> HIDE DEF R
<1>3. PICK m \in S : \A k \in S : ~(<<k, m>> \in R)
  BY <1>1, WFMin
<1>4. \A y \in S : m <= y
  <2> TAKE y \in S
  <2>1. y \in Nat /\ m \in Nat /\ ~(y < m)
    BY <1>2, <1>3
  <2> QED
    BY <2>1
<1> QED
  BY <1>3, <1>4 DEF Min

LEMMA TwoFacts ==
  ASSUME NEW a \in Nat, NEW b \in Nat
  PROVE  /\ Min({a, b}) \in Nat /\ Min({a, b}) <= a /\ Min({a, b}) <= b
         /\ a = b => Min({a, b}) = a
         /\ Max({a, b}) \in {a, b} /\ Max({a, b}) >= a /\ Max({a, b}) >= b
<1>1. Min({a, b}) \in {a, b} /\ \A y \in {a, b} : Min({a, b}) <= y
  <2>1. {a, b} \in SUBSET Nat /\ {a, b} # {}
    OBVIOUS
  <2> QED
    BY <2>1, MinFacts
<1>2. \E x \in {a, b} : \A y \in {a, b} : x >= y
  OBVIOUS
<1>3. Max({a, b}) \in {a, b} /\ \A y \in {a, b} : Max({a, b}) >= y
  BY <1>2 DEF Max
<1> QED
  BY <1>1, <1>3

LEMMA SearchStart ==
  ASSUME NEW m \in Nat, NEW w \in Worlds
  PROVE  LET f == [NoFinder EXCEPT !.state = "RANDOM_USER", !.place = m] IN
         f \in Finders /\ f.state = "RANDOM_USER" /\ f.place = m
<1> DEFINE f == [NoFinder EXCEPT !.state = "RANDOM_USER", !.place = m]
<1>1. MaxAttempts \in Nat /\ MaxAttempts > 0
  BY DEF Worlds, Numbers, Parameters
<1>2. NoFinder \in FinderValues /\ NoFinder.attempts = 0
  BY DEF NoFinder, FinderValues, Someone
<1>3. /\ f \in FinderValues /\ f.state = "RANDOM_USER" /\ f.place = m /\ f.attempts = 0
  BY <1>2 DEF FinderValues
<1>4. f \in Finders
  <2> HIDE DEF f
  <2>1. f.state \notin {"ACK?", "SERVICE?"} /\ f.attempts <= MaxAttempts
        /\ f.attempts < MaxAttempts
    BY <1>1, <1>3
  <2> QED
    BY <1>3, <2>1 DEF Finders
<1> QED
  BY <1>3, <1>4

\* doFindNewSupplier(): a search, or the answer that there is no place.
LEMMA FindNewEnds ==
  ASSUME NEW w, Ease(w), NoReports(w), w.hire.state = "HIRE_ONE"
  PROVE  Ends(w, FindNew(w))
<1> DEFINE free == {i \in 1 .. w.desired : /\ i \notin w.hire.hiring
                                           /\ i <= Len(w.suppliers) => Vacant(w, i)}
           v == FindNew(w)
<1>1. /\ w \in Worlds /\ w.hire \in Hires /\ w.desired \in Nat
      /\ \A i : ~AnswerAt(w, i) /\ ~DecisionAt(w, i)
      /\ w.finder.state = "NONE"
  BY HireType DEF Ease, Quiet
<1>2. CASE free = {}
  <2> DEFINE e == Event("search-failed")
             k == Len(w.events) + 1
  <2>1. v = Queue(w, e)
    BY <1>2 DEF FindNew
  <2>2. e \in Mails /\ e.name = "search-failed" /\ e.place = 0
    BY EventMails DEF Names
  <2>3. "search-failed" \in Answering /\ "supplier-connected" \in Answering
    BY DEF Answering
  <2> HIDE DEF e, v
  <2>4. /\ v \in Worlds /\ v.events = Append(w.events, e)
        /\ v.hire = w.hire /\ v.conn = w.conn
        /\ v.suppliers = w.suppliers /\ v.finder = w.finder
        /\ v.monitor = w.monitor /\ v.desired = w.desired
        /\ v.raised = w.raised /\ v.echoed = w.echoed
    BY <1>1, <2>1, <2>2, QueueOne
  <2>5. /\ Len(w.events) \in Nat /\ Len(v.events) = k /\ v.events[k] = e
        /\ \A i \in 1 .. Len(w.events) : v.events[i] = w.events[i]
        /\ \A i \in 1 .. Len(v.events) : i \in 1 .. Len(w.events) \/ i = k
        /\ k \in 1 .. Len(v.events)
    <3>1. w.events \in Queues
      BY <1>1 DEF Worlds
    <3>2. Len(w.events) \in Nat
      BY <3>1, QueueFacts
    <3> QED
      BY <2>2, <2>4, <3>1, <3>2, AppendFacts
  <2> HIDE DEF k
  <2>6. \A i : AnswerAt(v, i) <=> i = k
    BY <1>1, <2>2, <2>3, <2>5 DEF AnswerAt
  <2>7. \A i : ~DecisionAt(v, i)
    BY <1>1, <2>2, <2>5 DEF DecisionAt
  <2>8. \A i \in 1 .. Len(v.events) : v.events[i].name # "supplier-connected"
    <3> SUFFICES ASSUME NEW i \in 1 .. Len(v.events), v.events[i].name = "supplier-connected"
                 PROVE  FALSE
      OBVIOUS
    <3>1. AnswerAt(v, i)
      BY <2>3 DEF AnswerAt
    <3> QED
      BY <2>2, <2>5, <2>6, <3>1
  <2>9. \A i \in 1 .. Len(v.events) : v.events[i].name # Changed
    BY <2>2, <2>5 DEF NoReports, Changed
  <2>10. SearchInv(v)
    BY <1>1, <2>4, <2>6, <2>8 DEF SearchInv
  <2>11. OrderInv(v)
    BY <2>4, <2>7, <2>9 DEF OrderInv
  <2>12. EchoInv(v) /\ OnceIn(v)
    BY <2>4 DEF EchoInv, Ease, OnceIn
  <2>13. WorldInv(v)
    BY <2>4, <2>10, <2>11, <2>12 DEF WorldInv
  <2>14. ASSUME Room(w) PROVE SizeInv(v)
    <3>1. Len(First) \in Nat
      BY <1>1, FirstLen
    <3>2. v.finder.state = "NONE" /\ \A i : ~ConnectedAt(v, i)
      BY <1>1, <2>4, <2>8 DEF ConnectedAt
    <3>3. Bound(v, Len(First))
      BY <2>2, <2>4, <2>5, <2>14, <3>1 DEF Bound, Room
    <3> QED
      BY <2>4, <2>14, <3>2, <3>3 DEF Room, SizeInv
  <2> QED
    BY <2>13, <2>14 DEF Ends, v
<1>3. CASE free # {}
  <2> DEFINE m == Min(free)
             h == [w.hire EXCEPT !.hiring = @ \cup {m}]
             f == [NoFinder EXCEPT !.state = "RANDOM_USER", !.place = m]
  <2>1. m \in free
    <3>1. free \in SUBSET Nat
      OBVIOUS
    <3> HIDE DEF free
    <3> QED
      BY <1>3, <3>1, MinFacts
  <2>2. m \in Nat /\ m \in 1 .. w.desired /\ (m <= Len(w.suppliers) => Vacant(w, m))
    <3> HIDE DEF m
    <3> QED
      BY <1>1, <2>1
  <2>3. v = [w EXCEPT !.hire.hiring = @ \cup {m}, !.finder = f]
    <3>1. FindNew(w) = IF free = {} THEN Queue(w, Event("search-failed"))
                       ELSE [w EXCEPT !.hire.hiring = @ \cup {Min(free)},
                                      !.finder = [NoFinder EXCEPT !.state = "RANDOM_USER",
                                                                  !.place = Min(free)]]
      BY DEF FindNew
    <3> HIDE DEF free
    <3> QED
      BY <1>3, <3>1
  <2> HIDE DEF m, free, v
  <2>4. h \in Hires /\ h.state = "HIRE_ONE" /\ h.dismissing = w.hire.dismissing
    BY <1>1, <2>2 DEF Hires
  <2>5. f \in Finders /\ f.state = "RANDOM_USER" /\ f.place = m
    BY <1>1, <2>2, SearchStart
  <2>6. v = [w EXCEPT !.hire = h, !.finder = f]
    BY <1>1, <2>3 DEF Worlds
  <2> HIDE DEF h, f
  <2>7. /\ v \in Worlds /\ v.events = w.events
        /\ v.hire = h /\ v.conn = w.conn
        /\ v.suppliers = w.suppliers /\ v.finder = f
        /\ v.monitor = w.monitor /\ v.desired = w.desired
        /\ v.raised = w.raised /\ v.echoed = w.echoed
    BY <1>1, <2>4, <2>5, <2>6 DEF Worlds
  <2>8. \A i : ~AnswerAt(v, i) /\ ~DecisionAt(v, i)
    BY <1>1, <2>7 DEF AnswerAt, DecisionAt
  <2>9. \A i \in 1 .. Len(v.events) : v.events[i].name # "supplier-connected"
    <3>1. "supplier-connected" \in Answering
      BY DEF Answering
    <3> QED
      BY <2>8, <3>1 DEF AnswerAt
  <2>10. SearchInv(v)
    BY <2>4, <2>5, <2>7, <2>8, <2>9 DEF SearchInv
  <2>11. OrderInv(v)
    BY <2>4, <2>7, <2>8 DEF OrderInv, NoReports
  <2>12. EchoInv(v) /\ OnceIn(v)
    BY <2>4, <2>7 DEF EchoInv, Ease, OnceIn
  <2>13. WorldInv(v)
    BY <2>7, <2>10, <2>11, <2>12 DEF WorldInv
  <2>14. ASSUME Room(w) PROVE SizeInv(v)
    <3> DEFINE n == Len(First)
    <3>1. w.desired = n /\ Len(w.suppliers) = n /\ n \in Nat
      BY <1>1, <2>14, FirstLen DEF Room
    <3>2. m \in 1 .. n /\ Vacant(w, m) /\ m <= n
      BY <2>2, <3>1
    <3>3. Vacant(v, m)
      BY <2>4, <2>7, <3>2 DEF Vacant, Dismissed
    <3>4. Bound(v, n)
      BY <2>5, <2>7, <2>14, <3>2 DEF Bound, Room
    <3> HIDE DEF n
    <3>5. v.desired = n /\ Len(v.suppliers) = n /\ Len(v.monitor.known) = n
          /\ v.monitor.erased = 0
      BY <2>7, <2>14 DEF Room, n
    <3> QED
      BY <3>2, <3>3, <3>4, <3>5 DEF SizeInv, n
  <2> QED
    BY <2>13, <2>14 DEF Ends, v
<1> QED
  BY <1>2, <1>3

\* contactsdb.add_supplier(): a node that is no supplier yet takes a place.
LEMMA AddFacts ==
  ASSUME NEW l \in Rows, NEW s \in Node, NEW p \in Nat, Nobody \notin Node
  PROVE  LET r == AddSupplier(l, s, p) IN
         /\ r \in Rows /\ Len(l) \in Nat /\ Len(r) \in Nat
         /\ p \in 1 .. Len(l) => Len(r) = Len(l)
         /\ \A i \in 1 .. Len(r) :
               r[i] \in {s, Nobody} \/ (i \in 1 .. Len(l) /\ r[i] = l[i])
         /\ \A i, j \in 1 .. Len(r) : r[i] = s /\ r[j] = s =>
               i = j \/ \E k \in 1 .. Len(l) : l[k] = s
<1> DEFINE r == AddSupplier(l, s, p)
<1> HIDE DEF Someone
<1>1. l \in Seq(Someone) /\ Len(l) \in Nat /\ s \in Someone /\ Nobody \in Someone /\ s # Nobody
      /\ \A i \in 1 .. Len(l) : l[i] \in Someone
  BY DEF Rows, Someone
<1>2. CASE p = 0
  <2> DEFINE a == Append(l, s)
  <2>1. r = a
    BY <1>2 DEF AddSupplier
  <2>2. /\ a \in Seq(Someone) /\ Len(a) = Len(l) + 1 /\ a[Len(l) + 1] = s
        /\ \A i \in 1 .. Len(l) : a[i] = l[i]
    BY <1>1
  <2> HIDE DEF a, r
  <2>3. \A i \in 1 .. Len(a) : i = Len(l) + 1 \/ i \in 1 .. Len(l)
    BY <1>1, <2>2
  <2>4. \A i \in 1 .. Len(a) : a[i] = s \/ (i \in 1 .. Len(l) /\ a[i] = l[i])
    BY <2>2, <2>3
  <2>5. \A i, j \in 1 .. Len(a) : a[i] = s /\ a[j] = s =>
           i = j \/ \E k \in 1 .. Len(l) : l[k] = s
    BY <2>2, <2>3
  <2>6. a \in Rows /\ Len(a) \in Nat
    BY <1>1, <2>2 DEF Rows
  <2>7. p \notin 1 .. Len(l)
    BY <1>2
  <2> QED
    BY <1>1, <2>1, <2>4, <2>5, <2>6, <2>7 DEF r
<1>3. CASE p # 0
  <2> DEFINE m == Max({p, Len(l)})
             g == [i \in 1 .. m |-> IF i = p THEN s ELSE IF i <= Len(l) THEN l[i] ELSE Nobody]
  <2>1. r = g
    BY <1>3 DEF AddSupplier
  <2>2. m \in Nat /\ m \in {p, Len(l)} /\ m >= p /\ m >= Len(l)
    BY <1>1, TwoFacts
  <2> HIDE DEF m, r
  <2>3. \A i \in 1 .. m : g[i] \in Someone
    <3> TAKE i \in 1 .. m
    <3>1. CASE i <= Len(l)
      BY <1>1, <3>1
    <3>2. CASE ~(i <= Len(l))
      BY <1>1, <3>2
    <3> QED
      BY <3>1, <3>2
  <2>4. g \in Seq(Someone) /\ Len(g) = m
    <3>1. g \in [1 .. m -> Someone]
      BY <2>3
    <3> HIDE DEF g
    <3> QED
      BY <2>2, <3>1
  <2>5. \A i \in 1 .. m : IF i = p THEN g[i] = s ELSE
           IF i <= Len(l) THEN g[i] = l[i] ELSE g[i] = Nobody
    OBVIOUS
  <2> HIDE DEF g
  <2>6. \A i \in 1 .. m : i <= Len(l) => i \in 1 .. Len(l)
    BY <1>1
  <2>7. \A i \in 1 .. m : g[i] \in {s, Nobody} \/ (i \in 1 .. Len(l) /\ g[i] = l[i])
    BY <2>5, <2>6
  <2>8. \A i \in 1 .. m : g[i] = s => i = p \/ \E k \in 1 .. Len(l) : l[k] = s
    BY <1>1, <2>5, <2>6
  <2>9. \A i, j \in 1 .. m : g[i] = s /\ g[j] = s =>
           i = j \/ \E k \in 1 .. Len(l) : l[k] = s
    BY <2>8
  <2>10. p \in 1 .. Len(l) => m = Len(l)
    BY <1>1, <2>2
  <2>11. g \in Rows
    BY <2>4 DEF Rows
  <2> QED
    BY <1>1, <2>1, <2>2, <2>4, <2>7, <2>9, <2>10, <2>11 DEF r
<1> QED
  BY <1>2, <1>3

\* Only the list and fire_hire() change.
Relists(w, v, list) ==
  /\ v \in Worlds /\ v.suppliers = list
  /\ v.events = w.events /\ v.conn = w.conn
  /\ v.finder = w.finder /\ v.monitor = w.monitor /\ v.desired = w.desired
  /\ v.raised = w.raised /\ v.echoed = w.echoed
  /\ v.hire.state = w.hire.state /\ v.hire.dismissing = w.hire.dismissing
LEMMA RelistsOn ==
  ASSUME NEW w, Ease(w), NEW v, NEW list \in Rows, Relists(w, v, list),
         \A i, j \in 1 .. Len(list) : list[i] = list[j] /\ list[i] # Nobody => i = j
  PROVE  /\ Ease(v) /\ (NoReports(w) => NoReports(v))
         /\ Room(w) /\ Len(list) = Len(w.suppliers) => Room(v)
<1>1. Ease(v)
  BY DEF Relists, Ease, Quiet, AnswerAt, DecisionAt, OnceIn
<1>2. NoReports(w) => NoReports(v)
  BY DEF Relists, NoReports
<1>3. Room(w) /\ Len(list) = Len(w.suppliers) => Room(v)
  BY DEF Relists, Room, Bound
<1> QED
  BY <1>1, <1>2, <1>3

\* doSubstituteSupplier(): the new supplier is not in the list yet, so nothing is raised.
LEMMA SubstituteOn ==
  ASSUME NEW w, Ease(w), NEW s \in Node, s \notin Supplied(w), NEW place \in Nat
  PROVE  LET v == Substitute(w, s, place) IN
         /\ Ease(v) /\ (NoReports(w) => NoReports(v))
         /\ v.hire.state = w.hire.state /\ v.hire.dismissing = w.hire.dismissing
         /\ Room(w) /\ place <= Len(First) /\ (\E i \in 1 .. Len(First) : Vacant(w, i)) => Room(v)
<1> DEFINE vacant == {i \in DOMAIN w.suppliers : Vacant(w, i)}
           p == IF place # 0 THEN place ELSE IF vacant = {} THEN 0 ELSE Min(vacant)
           list == AddSupplier(w.suppliers, s, p)
           h == [w.hire EXCEPT !.hiring = @ \ {place}]
           v == Substitute(w, s, place)
<1>1. /\ w \in Worlds /\ w.hire \in Hires /\ w.suppliers \in Rows
      /\ Len(w.suppliers) \in Nat /\ DOMAIN w.suppliers = 1 .. Len(w.suppliers)
      /\ Nobody \notin Node
      /\ \A i \in 1 .. Len(w.suppliers) :
               w.suppliers[i] # Nobody => w.suppliers[i] \in Supplied(w)
  BY HireType, RowFacts DEF Ease
<1>2. vacant \in SUBSET Nat
  BY <1>1
<1>3. p \in Nat /\ (place = 0 /\ vacant # {} => p \in vacant)
  <2> HIDE DEF vacant
  <2> QED
    BY <1>2, MinFacts
<1>4. v = [w EXCEPT !.suppliers = list, !.hire.hiring = @ \ {place}]
  BY DEF Substitute
<1> HIDE DEF p, v, vacant
<1>5. /\ list \in Rows /\ Len(list) \in Nat
      /\ p \in 1 .. Len(w.suppliers) => Len(list) = Len(w.suppliers)
      /\ \A i \in 1 .. Len(list) :
            list[i] \in {s, Nobody} \/ (i \in 1 .. Len(w.suppliers) /\ list[i] = w.suppliers[i])
      /\ \A i, j \in 1 .. Len(list) : list[i] = s /\ list[j] = s =>
            i = j \/ \E k \in 1 .. Len(w.suppliers) : w.suppliers[k] = s
  BY <1>1, <1>3, AddFacts
<1> HIDE DEF list
<1>6. \A k \in 1 .. Len(w.suppliers) : w.suppliers[k] # s
  BY <1>1
<1>7. \A i, j \in 1 .. Len(list) : list[i] = list[j] /\ list[i] # Nobody => i = j
  <2> SUFFICES ASSUME NEW i \in 1 .. Len(list), NEW j \in 1 .. Len(list),
                      list[i] = list[j], list[i] # Nobody
               PROVE  i = j
    OBVIOUS
  <2>1. CASE list[i] = s
    BY <1>5, <1>6, <2>1
  <2>2. CASE list[i] # s
    <3>1. /\ i \in 1 .. Len(w.suppliers) /\ list[i] = w.suppliers[i]
          /\ j \in 1 .. Len(w.suppliers) /\ list[j] = w.suppliers[j]
      BY <1>5, <2>2
    <3> QED
      BY <3>1 DEF Ease, OnceIn
  <2> QED
    BY <2>1, <2>2
<1>8. h \in Hires /\ h.state = w.hire.state /\ h.dismissing = w.hire.dismissing
  BY <1>1 DEF Hires
<1>9. v = [w EXCEPT !.suppliers = list, !.hire = h]
  BY <1>1, <1>4 DEF Worlds
<1> HIDE DEF h
<1>10. Relists(w, v, list)
  BY <1>1, <1>5, <1>8, <1>9 DEF Relists, Worlds
<1>11. /\ Ease(v) /\ (NoReports(w) => NoReports(v))
       /\ Room(w) /\ Len(list) = Len(w.suppliers) => Room(v)
  BY <1>5, <1>7, <1>10, RelistsOn
<1>12. ASSUME Room(w), place <= Len(First), \E i \in 1 .. Len(First) : Vacant(w, i)
       PROVE  Len(list) = Len(w.suppliers)
  <2>1. Len(w.suppliers) = Len(First)
    BY <1>12 DEF Room
  <2>2. vacant # {}
    BY <1>1, <1>12, <2>1 DEF vacant
  <2>3. CASE place = 0
    BY <1>1, <1>3, <1>5, <2>2, <2>3 DEF vacant
  <2>4. CASE place # 0
    <3>1. p = place
      BY <2>4 DEF p
    <3>2. place \in 1 .. Len(w.suppliers)
      BY <1>1, <1>12, <2>1, <2>4
    <3> QED
      BY <1>5, <3>1, <3>2
  <2> QED
    BY <2>3, <2>4
<1>13. v.hire.state = w.hire.state /\ v.hire.dismissing = w.hire.dismissing
  BY <1>10 DEF Relists
<1> QED
  BY <1>11, <1>12, <1>13 DEF v

\* doRemoveSuppliers(): who is dismissed leaves the list, and the list is cut.
LEMMA RemoveOn ==
  ASSUME NEW w, Ease(w)
  PROVE  LET v == RemoveSuppliers(w) IN
         /\ Ease(v) /\ (NoReports(w) => NoReports(v)) /\ (Room(w) => Room(v))
         /\ v.hire = w.hire /\ v.echoed = w.echoed /\ (Calm(w) => Calm(v))
<1> DEFINE n == Min({w.desired, Len(w.suppliers)})
           list == [i \in 1 .. n |->
                      IF w.suppliers[i] \in Dismissed(w) THEN Nobody ELSE w.suppliers[i]]
           v == RemoveSuppliers(w)
<1>1. /\ w \in Worlds /\ Len(w.suppliers) \in Nat /\ w.desired \in Nat
      /\ \A i \in 1 .. Len(w.suppliers) : w.suppliers[i] \in Someone
  BY HireType, RowFacts DEF Ease
<1>2. /\ n \in Nat /\ n <= Len(w.suppliers)
      /\ w.desired = Len(w.suppliers) => n = Len(w.suppliers)
  BY <1>1, TwoFacts
<1>3. v = [w EXCEPT !.suppliers = list]
  BY DEF RemoveSuppliers
<1> HIDE DEF n, v
<1>4. \A i \in 1 .. n : i \in 1 .. Len(w.suppliers)
  BY <1>1, <1>2
<1>5. \A i \in 1 .. n : /\ list[i] \in Someone
                        /\ list[i] = Nobody \/ list[i] = w.suppliers[i]
  BY <1>1, <1>4 DEF Someone
<1>6. list \in Rows /\ Len(list) = n
  <2>1. list \in [1 .. n -> Someone]
    BY <1>5
  <2> HIDE DEF list
  <2> QED
    BY <1>2, <2>1 DEF Rows
<1> HIDE DEF list
<1>7. \A i, j \in 1 .. Len(list) : list[i] = list[j] /\ list[i] # Nobody => i = j
  BY <1>4, <1>5, <1>6 DEF Ease, OnceIn
<1>8. Relists(w, v, list) /\ v.hire = w.hire
  BY <1>1, <1>3, <1>6 DEF Relists, Worlds
<1>9. /\ Ease(v) /\ (NoReports(w) => NoReports(v))
      /\ Room(w) /\ Len(list) = Len(w.suppliers) => Room(v)
  BY <1>6, <1>7, <1>8, RelistsOn
<1>10. Room(w) => Len(list) = Len(w.suppliers)
  BY <1>2, <1>6 DEF Room
<1>11. v.echoed = w.echoed /\ (Calm(w) => Calm(v))
  BY <1>8 DEF Relists, Calm
<1> QED
  BY <1>8, <1>9, <1>10, <1>11 DEF v

-----------------------------------------------------------------------------
(* A dismissal *)

\* What a walk over a list computes step by step
Keeps(N, T, g) == g[0] \in T /\ \A n \in 1 .. N : g[n - 1] \in T => g[n] \in T
Steps(N, T, b, step) == b \in T /\ \A n \in 1 .. N : \A x \in T : step[n][x] \in T

\* What holds at the beginning and is kept by each step holds all the way.
LEMMA AllTheWay ==
  ASSUME NEW N \in Nat, NEW T, NEW g, Keeps(N, T, g)
  PROVE  \A n \in 0 .. N : g[n] \in T
<1> USE DEF Keeps
<1> DEFINE S == {n \in 0 .. N : g[n] \notin T}
<1>1. CASE S = {}
  BY <1>1
<1>2. CASE S # {}
  <2>1. S \in SUBSET Nat
    OBVIOUS
  <2> DEFINE m == Min(S)
  <2>2. m \in S /\ \A k \in S : m <= k
    BY <1>2, <2>1, MinFacts
  <2> HIDE DEF m
  <2>3. m \in 1 .. N /\ m - 1 \in 0 .. N /\ ~(m <= m - 1)
    BY <2>2
  <2>4. m - 1 \notin S
    BY <2>2, <2>3
  <2> QED
    BY <2>2, <2>3, <2>4
<1> QED
  BY <1>1, <1>2

\* There is a function that takes the steps.
LEMMA WalkExists ==
  ASSUME NEW N \in Nat, NEW T, NEW b, NEW step, Steps(N, T, b, step)
  PROVE  \E f \in [0 .. N -> T] : f[0] = b /\ \A n \in 1 .. N : f[n] = step[n][f[n - 1]]
<1> DEFINE Walks(m) == {f \in [0 .. m -> T] : /\ f[0] = b
                                               /\ \A n \in 1 .. m : f[n] = step[n][f[n - 1]]}
           Reached == {m \in 0 .. N : Walks(m) # {}}
           g == [m \in 0 .. N |-> m]
<1> USE DEF Steps
<1>1. [n \in 0 .. 0 |-> b] \in Walks(0)
  OBVIOUS
<1>2. ASSUME NEW m \in 1 .. N, NEW f \in Walks(m - 1)
      PROVE  Walks(m) # {}
  <2> DEFINE h == [n \in 0 .. m |-> IF n = m THEN step[m][f[m - 1]] ELSE f[n]]
  <2>0. /\ f \in [0 .. m - 1 -> T] /\ f[0] = b
        /\ \A n \in 1 .. m - 1 : f[n] = step[n][f[n - 1]]
    BY <1>2
  <2>1. f[m - 1] \in T /\ step[m][f[m - 1]] \in T
    BY <2>0
  <2>2. h \in [0 .. m -> T]
    BY <2>0, <2>1
  <2>3. h[0] = b
    BY <2>0
  <2>4. ASSUME NEW n \in 1 .. m PROVE h[n] = step[n][h[n - 1]]
    <3>1. CASE n = m
      BY <3>1
    <3>2. CASE n # m
      <4>1. n \in 1 .. m - 1 /\ h[n] = f[n] /\ h[n - 1] = f[n - 1]
        BY <3>2
      <4> QED
        BY <2>0, <4>1
    <3> QED
      BY <3>1, <3>2
  <2> HIDE DEF h
  <2>5. h \in Walks(m)
    BY <2>2, <2>3, <2>4
  <2> QED
    BY <2>5
<1> HIDE DEF Walks
<1>3. 0 \in Reached
  BY <1>1
<1>4. ASSUME NEW m \in 1 .. N, m - 1 \in Reached
      PROVE  m \in Reached
  <2>1. PICK f : f \in Walks(m - 1)
    BY <1>4
  <2> QED
    BY <1>2, <2>1
<1>5. N \in Reached
  <2> HIDE DEF Reached
  <2>1. g[0] = 0 /\ g[N] = N /\ \A m \in 1 .. N : g[m] = m /\ g[m - 1] = m - 1
    OBVIOUS
  <2>2. Keeps(N, Reached, g)
    BY <1>3, <1>4, <2>1 DEF Keeps
  <2> HIDE DEF g
  <2>3. g[N] \in Reached
    BY <2>2, AllTheWay
  <2> QED
    BY <2>1, <2>3
<1>6. PICK f : f \in Walks(N)
  BY <1>5
<1> QED
  BY <1>6 DEF Walks

\* A dismissal that has come to its n-th supplier
Walked(x, n, u) ==
  /\ Ease(u) /\ u.hire.state = "FIRE_MANY" /\ u.hire.dismissing = x.hire.dismissing
  /\ ~u.echoed => Calm(u)
  /\ Room(x) => Room(u)
  /\ \A i \in 1 .. Len(u.events) : u.events[i].name = Changed =>
        \E k \in 1 .. n : x.hire.dismissing[k] = u.events[i].who

LEMMA ListFacts ==
  ASSUME NEW l \in Lists
  PROVE  /\ Len(l) \in Nat /\ DOMAIN l = 1 .. Len(l)
         /\ \A i \in 1 .. Len(l) : l[i] \in Node
         /\ \A i, j \in 1 .. Len(l) : l[i] = l[j] => i = j
<1>1. l \in Seq(Node) /\ IsInjective(l)
  BY DEF Lists
<1>2. /\ Len(l) \in Nat /\ DOMAIN l = 1 .. Len(l)
      /\ \A i \in 1 .. Len(l) : l[i] \in Node
  BY <1>1
<1> QED
  BY <1>1, <1>2 DEF IsInjective

LEMMA LeaveType ==
  ASSUME NEW w \in Worlds, NEW s \in Node
  PROVE  Leave(w, s) \in Worlds
<1>1. CASE w.conn[s].state = "NONE"
  <2> DEFINE h == [w.hire EXCEPT !.results = @ \cup {s}]
  <2>1. h \in Hires
    BY HireType DEF Hires
  <2>2. Leave(w, s) = [w EXCEPT !.hire = h]
    BY <1>1 DEF Leave, Worlds
  <2> HIDE DEF h
  <2> QED
    BY <2>1, <2>2, SetHire DEF Apart
<1>2. CASE w.conn[s].state # "NONE"
  <2> DEFINE c == [w.conn[s] EXCEPT !.watched = @ + 1]
             y == [w EXCEPT !.conn[s] = c]
  <2>1. c \in Conns /\ c.state # "NONE"
    BY <1>2, ConnType DEF Conns
  <2>2. Leave(w, s) = Disconnect(y, s)
    <3>1. [w EXCEPT !.conn[s].watched = @ + 1] = y
      BY DEF Worlds
    <3> QED
      BY <1>2, <3>1 DEF Leave
  <2> HIDE DEF c
  <2>3. y \in Worlds /\ y.conn[s].state # "NONE"
    BY <2>1, SetOne
  <2> HIDE DEF y
  <2> QED
    BY <2>2, <2>3, DisconnectHeard DEF Heard, Stays
<1> QED
  BY <1>1, <1>2

LEMMA LeaveWalks ==
  ASSUME NEW x \in Worlds, NEW n \in 1 .. Len(x.hire.dismissing), NEW u, Walked(x, n - 1, u)
  PROVE  Walked(x, n, Leave(u, x.hire.dismissing[n]))
<1> DEFINE list == x.hire.dismissing
           s == list[n]
           v == Leave(u, s)
<1>1. /\ Len(list) \in Nat /\ n \in Nat /\ n - 1 \in Nat
      /\ \A i \in 1 .. Len(list) : list[i] \in Node
      /\ \A i, j \in 1 .. Len(list) : list[i] = list[j] => i = j
  <2>1. list \in Lists
    BY HireType DEF Hires
  <2>2. /\ Len(list) \in Nat
        /\ \A i \in 1 .. Len(list) : list[i] \in Node
        /\ \A i, j \in 1 .. Len(list) : list[i] = list[j] => i = j
    BY <2>1, ListFacts
  <2> QED
    BY <2>2
<1>2. s \in Node /\ u \in Worlds
  BY <1>1 DEF Walked, Ease
<1>3. \A k \in 1 .. n - 1 : k \in 1 .. n /\ k \in 1 .. Len(list) /\ k # n
  BY <1>1
<1>4. \A i \in 1 .. Len(u.events) : ~About(u.events, i, s)
  BY <1>1, <1>3 DEF Walked, About
<1>5. n \in 1 .. n
  BY <1>1
<1> HIDE DEF s
<1>6. CASE u.conn[s].state = "NONE"
  <2> DEFINE h == [u.hire EXCEPT !.results = @ \cup {s}]
  <2>1. h \in Hires /\ h.state = u.hire.state /\ h.dismissing = u.hire.dismissing
    BY <1>2, HireType DEF Hires
  <2>2. v = [u EXCEPT !.hire = h]
    BY <1>2, <1>6 DEF Leave, Worlds
  <2> HIDE DEF h, v
  <2>3. Apart(u, v) /\ v.hire = h
    BY <1>2, <2>1, <2>2, SetHire
  <2>4. Ease(v) /\ (Room(u) => Room(v))
    BY <2>3, ApartOn DEF Walked
  <2>5. v.echoed = u.echoed /\ (Calm(u) => Calm(v))
    BY <2>3 DEF Apart, Calm
  <2>6. \A i \in 1 .. Len(v.events) : v.events[i].name = Changed =>
        \E k \in 1 .. n : x.hire.dismissing[k] = v.events[i].who
    BY <1>3, <2>3 DEF Apart, Walked
  <2>7. Walked(x, n, v)
    BY <2>1, <2>3, <2>4, <2>5, <2>6 DEF Walked
  <2> QED
    BY <2>7 DEF v, s
<1>7. CASE u.conn[s].state # "NONE"
  <2> DEFINE c == [u.conn[s] EXCEPT !.watched = @ + 1]
             y == [u EXCEPT !.conn[s] = c]
  <2>1. /\ c \in Conns /\ c.state # "NONE" /\ c.place = u.conn[s].place
        /\ c.pings = u.conn[s].pings
    BY <1>2, <1>7, ConnType DEF Conns
  <2>2. v = Disconnect(y, s)
    <3>1. [u EXCEPT !.conn[s].watched = @ + 1] = y
      BY <1>2 DEF Worlds
    <3> QED
      BY <1>7, <3>1 DEF Leave
  <2> HIDE DEF c
  <2>3. /\ y \in Worlds /\ y.conn[s] = c /\ \A t \in Node \ {s} : y.conn[t] = u.conn[t]
        /\ y.hire = u.hire /\ y.events = u.events /\ y.suppliers = u.suppliers
        /\ y.finder = u.finder /\ y.monitor = u.monitor /\ y.desired = u.desired
        /\ y.raised = u.raised /\ y.echoed = u.echoed
    BY <1>2, <2>1, SetOne
  <2> HIDE DEF y, v
  <2>4. Ease(y)
    BY <2>3 DEF Walked, Ease, Quiet, AnswerAt, DecisionAt, OnceIn
  <2>5. Calm(u) => Calm(y)
    BY <1>4, <2>3 DEF Calm, About
  <2>6. Room(u) => Room(y)
    <3>1. \A t \in Node : y.conn[t].place = u.conn[t].place /\ y.conn[t].pings = u.conn[t].pings
      BY <2>1, <2>3
    <3> QED
      BY <2>3, <3>1 DEF Room, Bound
  <2>7. WorldInv(y) /\ (Room(y) => SizeInv(y))
    <3>1. y.hire.state = "FIRE_MANY" /\ (~y.echoed => Calm(y))
      BY <2>3, <2>5 DEF Walked
    <3> QED
      BY <2>4, <3>1, FiringInv
  <2>8. Heard(y, v) /\ Sizes(y, v)
    BY <1>2, <2>1, <2>2, <2>3, DisconnectHeard
  <2>9. WorldInv(v) /\ (Room(y) => SizeInv(v))
    BY <2>3, <2>7, <2>8, WorldKept, SizeKept, FirstLen
  <2>10. v.hire.state = "FIRE_MANY" /\ v.hire.dismissing = x.hire.dismissing
    BY <2>3, <2>8 DEF Heard, Stays, Walked
  <2>11. Ease(v) /\ (SizeInv(v) => Room(v))
    BY <2>9, <2>10, InvEase
  <2>12. ~v.echoed => Calm(v)
    BY <2>9, <2>10 DEF WorldInv, EchoInv
  <2>13. Only(y, v, s)
    <3>1. y.finder.state = "NONE"
      BY <2>4 DEF Ease, Quiet
    <3> QED
      BY <1>2, <2>1, <2>2, <2>3, <3>1, DisconnectOnly
  <2>14. \A i \in 1 .. Len(v.events) : v.events[i].name = Changed =>
           \E k \in 1 .. n : x.hire.dismissing[k] = v.events[i].who
    <3>1. /\ \A i \in 1 .. Len(y.events) : v.events[i] = y.events[i]
          /\ \A i \in 1 .. Len(v.events) :
                i \in 1 .. Len(y.events) \/ i \in Fresh(y.events, v.events)
      BY <2>8, EventsAre
    <3> SUFFICES ASSUME NEW i \in 1 .. Len(v.events), v.events[i].name = Changed
                 PROVE  \E k \in 1 .. n : x.hire.dismissing[k] = v.events[i].who
      OBVIOUS
    <3>2. CASE i \in 1 .. Len(y.events)
      <4>1. PICK k \in 1 .. n - 1 : x.hire.dismissing[k] = v.events[i].who
        BY <2>3, <3>1, <3>2 DEF Walked
      <4> QED
        BY <1>3, <4>1
    <3>3. CASE i \in Fresh(y.events, v.events)
      BY <1>5, <2>13, <3>3 DEF Only, s
    <3> QED
      BY <3>1, <3>2, <3>3
  <2>15. Room(x) => Room(v)
    BY <2>6, <2>9, <2>11 DEF Walked
  <2>16. Walked(x, n, v)
    BY <2>10, <2>11, <2>12, <2>14, <2>15 DEF Walked
  <2> QED
    BY <2>16 DEF v, s
<1> QED
  BY <1>6, <1>7 DEF s

\* doDisconnectSuppliers(): everybody on the list is asked to go.
LEMMA DisconnectAllOn ==
  ASSUME NEW x, Ease(x), NoReports(x), x.hire.state = "FIRE_MANY"
  PROVE  LET v == DisconnectAll(x) IN
         /\ Ease(v) /\ v.hire.state = "FIRE_MANY" /\ (~v.echoed => Calm(v))
         /\ Room(x) => Room(v)
<1> DEFINE list == x.hire.dismissing
           h == [x.hire EXCEPT !.results = {}]
           b == [x EXCEPT !.hire.results = {}]
           T == Worlds
<1>1. x \in Worlds /\ x.hire \in Hires /\ list \in Lists
  BY HireType DEF Ease, Hires
<1>2. PICK N \in Nat : N = Len(list) /\ DOMAIN list = 1 .. N /\ \A i \in 1 .. N : list[i] \in Node
  <2> HIDE DEF list
  <2> QED
    BY <1>1, ListFacts
<1> DEFINE step == [n \in 1 .. N |-> [y \in T |-> Leave(y, list[n])]]
           told[n \in 0 .. N] == IF n = 0 THEN b ELSE Leave(told[n - 1], list[n])
           F == [n \in 0 .. N |-> IF n = 0 THEN b ELSE Leave(told[n - 1], list[n])]
<1>3. h \in Hires /\ h.state = "FIRE_MANY" /\ h.dismissing = list
  BY <1>1 DEF Hires
<1>4. b = [x EXCEPT !.hire = h]
  BY <1>1 DEF Worlds
<1>5. DisconnectAll(x) = told[N]
  BY <1>2 DEF DisconnectAll, told, b, list
<1> HIDE DEF h
<1> HIDE DEF b
<1>6. Apart(x, b) /\ b.hire = h
  BY <1>1, <1>3, <1>4, SetHire
<1>7. Walked(x, 0, b)
  <2>1. Ease(b) /\ (Room(x) => Room(b)) /\ NoReports(b)
    BY <1>6, ApartOn
  <2>2. ~b.echoed => Calm(b)
    BY <2>1 DEF NoReports, Calm, About
  <2>3. \A i \in 1 .. Len(b.events) : b.events[i].name # Changed
    BY <2>1 DEF NoReports
  <2> QED
    BY <1>3, <1>6, <2>1, <2>2, <2>3 DEF Walked
<1>8. b \in T
  BY <1>6 DEF Apart
<1>9. \A n \in 1 .. N : \A y \in T : Leave(y, list[n]) \in T
  BY <1>2, LeaveType
<1> HIDE DEF T, list
<1>10. \A n \in 1 .. N : \A y \in T : step[n][y] = Leave(y, list[n])
  OBVIOUS
<1> HIDE DEF step
<1>11. \E f \in [0 .. N -> T] : f[0] = b /\ \A n \in 1 .. N : f[n] = step[n][f[n - 1]]
  <2>1. Steps(N, T, b, step)
    BY <1>8, <1>9, <1>10 DEF Steps
  <2> QED
    BY <2>1, WalkExists
<1>12. PICK f \in [0 .. N -> T] : f[0] = b /\ \A n \in 1 .. N : f[n] = step[n][f[n - 1]]
  BY <1>11
<1>13. f = [n \in 0 .. N |-> IF n = 0 THEN b ELSE Leave(f[n - 1], list[n])]
  <2> SUFFICES ASSUME NEW n \in 0 .. N
               PROVE  f[n] = IF n = 0 THEN b ELSE Leave(f[n - 1], list[n])
    BY <1>12
  <2>1. CASE n = 0
    BY <1>12, <2>1
  <2>2. CASE n # 0
    <3>1. n \in 1 .. N /\ n - 1 \in 0 .. N
      BY <2>2
    <3> QED
      BY <1>10, <1>12, <2>2, <3>1
  <2> QED
    BY <2>1, <2>2
<1>14. told = F
  BY <1>13 DEF told, F
<1> HIDE DEF told
<1>15. told[0] = b /\ \A n \in 1 .. N : told[n] = Leave(told[n - 1], list[n])
  <2>1. F[0] = b /\ \A n \in 1 .. N : F[n] = Leave(told[n - 1], list[n])
    OBVIOUS
  <2> HIDE DEF F
  <2> QED
    BY <1>14, <2>1
<1> HIDE DEF F
<1> DEFINE g == [n \in 0 .. N |-> Walked(x, n, told[n])]
<1>16. /\ g[0] = Walked(x, 0, told[0]) /\ g[N] = Walked(x, N, told[N])
       /\ \A n \in 1 .. N : /\ g[n] = Walked(x, n, told[n])
                            /\ g[n - 1] = Walked(x, n - 1, told[n - 1])
  OBVIOUS
<1> HIDE DEF g
<1>17. Keeps(N, {TRUE}, g)
  <2>1. g[0] \in {TRUE}
    BY <1>7, <1>15, <1>16
  <2>2. ASSUME NEW n \in 1 .. N, g[n - 1] \in {TRUE} PROVE g[n] \in {TRUE}
    <3>1. Walked(x, n - 1, told[n - 1])
      BY <1>16, <2>2
    <3>2. Walked(x, n, Leave(told[n - 1], list[n]))
      BY <1>1, <1>2, <3>1, LeaveWalks DEF list
    <3> QED
      BY <1>15, <1>16, <3>2
  <2> QED
    BY <2>1, <2>2 DEF Keeps
<1>18. Walked(x, N, told[N])
  <2>1. \A n \in 0 .. N : g[n] \in {TRUE}
    BY <1>17, AllTheWay
  <2>2. N \in 0 .. N
    OBVIOUS
  <2>3. g[N] \in {TRUE}
    BY <2>1, <2>2
  <2>4. g[N] = Walked(x, N, told[N])
    BY <1>16
  <2> QED
    BY <2>3, <2>4
<1> QED
  BY <1>5, <1>18 DEF Walked

-----------------------------------------------------------------------------
(* The connectors of a list *)

\* The connectors change, and fire_hire(), but no event and no place of a search
Rewires(w, v) ==
  /\ v \in Worlds /\ v.suppliers = w.suppliers /\ v.events = w.events
  /\ v.monitor = w.monitor /\ v.desired = w.desired
  /\ v.finder.state = w.finder.state /\ v.finder.place = w.finder.place
  /\ v.raised => v.echoed
  /\ \A s \in Node : /\ v.conn[s].place \in {0, w.conn[s].place}
                     /\ \A p \in v.conn[s].pings : p \in w.conn[s].pings \/ p <= w.desired
LEMMA RewiresOn ==
  ASSUME NEW w, Ease(w), NEW v, Rewires(w, v)
  PROVE  /\ Ease(v) /\ (NoReports(w) => NoReports(v)) /\ (Room(w) => Room(v))
<1>1. Ease(v)
  BY DEF Rewires, Ease, Quiet, AnswerAt, DecisionAt, OnceIn
<1>2. NoReports(w) => NoReports(v)
  BY DEF Rewires, NoReports
<1>3. ASSUME Room(w) PROVE Room(v)
  <2>1. Len(First) \in Nat
    BY FirstLen DEF Ease
  <2>2. Bound(v, Len(First))
    BY <1>3, <2>1 DEF Rewires, Room, Bound
  <2> QED
    BY <1>3, <2>2 DEF Rewires, Room
<1> QED
  BY <1>1, <1>2, <1>3

\* doConnectSuppliers()
LEMMA ConnectAllEnds ==
  ASSUME NEW w, Ease(w), w.hire.state = "SUPPLIERS?"
  PROVE  Ends(w, ConnectAll(w))
<1> DEFINE asked == {i \in DOMAIN w.suppliers : i <= w.desired /\ w.suppliers[i] # Nobody}
           named == {w.suppliers[i] : i \in asked}
           watched(c) == [Created(c) EXCEPT !.watched = @ + 1]
           place(s) == CHOOSE i \in asked : w.suppliers[i] = s
           one(s) == IF \E i \in asked : w.suppliers[i] = s
                     THEN Connected(watched(w.conn[s]), place(s)) ELSE w.conn[s]
           conns == [s \in Node |-> one(s)]
           h == [w.hire EXCEPT !.connecting = named]
           v == ConnectAll(w)
<1>1. /\ w \in Worlds /\ w.hire \in Hires /\ w.desired \in Nat
      /\ Len(w.suppliers) \in Nat /\ DOMAIN w.suppliers = 1 .. Len(w.suppliers)
      /\ \A i \in 1 .. Len(w.suppliers) : w.suppliers[i] \in Someone
  BY HireType, RowFacts DEF Ease
<1>2. named \in SUBSET Node /\ \A i \in asked : i \in Nat /\ i <= w.desired
  BY <1>1 DEF Someone
<1>3. v = [w EXCEPT !.hire.connecting = named, !.conn = conns]
  BY DEF ConnectAll
<1> HIDE DEF named, v
<1>4. ASSUME NEW s \in Node
      PROVE  /\ one(s) \in Conns /\ one(s).place \in {0, w.conn[s].place}
             /\ \A p \in one(s).pings : p \in w.conn[s].pings \/ p <= w.desired
  <2>1. w.conn[s] \in Conns
    BY <1>1, ConnType
  <2>2. CASE \E i \in asked : w.suppliers[i] = s
    <3> DEFINE c == Created(w.conn[s])
               d == watched(w.conn[s])
               q == place(s)
    <3>1. q \in asked
      BY <2>2
    <3> HIDE DEF q
    <3>2. q \in Nat /\ q <= w.desired
      BY <1>2, <3>1
    <3>3. c \in Conns /\ c.place = w.conn[s].place /\ c.pings = w.conn[s].pings
      BY <2>1, CreatedIs
    <3>4. d = [c EXCEPT !.watched = @ + 1]
      OBVIOUS
    <3> HIDE DEF c, d
    <3>5. d \in Conns /\ d.place = c.place /\ d.pings = c.pings
      BY <3>3, <3>4 DEF Conns
    <3>6. /\ Connected(d, q) \in Conns /\ Connected(d, q).place = d.place
          /\ Connected(d, q).pings \subseteq d.pings \cup {q}
      BY <3>2, <3>5, ConnectedIs
    <3>7. one(s) = Connected(d, q)
      BY <2>2 DEF d, q
    <3> HIDE DEF one
    <3> QED
      BY <3>2, <3>3, <3>5, <3>6, <3>7
  <2>3. CASE ~\E i \in asked : w.suppliers[i] = s
    <3>1. one(s) = w.conn[s]
      BY <2>3
    <3> HIDE DEF one
    <3> QED
      BY <2>1, <3>1
  <2> QED
    BY <2>2, <2>3
<1> HIDE DEF one
<1>5. conns \in Connectors /\ \A s \in Node : conns[s] = one(s)
  BY <1>4 DEF Connectors
<1> HIDE DEF conns
<1>6. h \in Hires /\ h.state = "SUPPLIERS?"
  BY <1>1, <1>2 DEF Hires
<1>7. v = [w EXCEPT !.hire = h, !.conn = conns]
  BY <1>1, <1>3 DEF Worlds
<1> HIDE DEF h
<1>8. /\ v \in Worlds /\ v.suppliers = w.suppliers /\ v.events = w.events
      /\ v.monitor = w.monitor /\ v.desired = w.desired /\ v.finder = w.finder
      /\ v.raised = w.raised /\ v.echoed = w.echoed /\ v.conn = conns /\ v.hire = h
  BY <1>1, <1>5, <1>6, <1>7 DEF Worlds
<1>9. Rewires(w, v)
  BY <1>4, <1>5, <1>8 DEF Rewires, Ease
<1>10. Ease(v) /\ (Room(w) => Room(v))
  BY <1>9, RewiresOn
<1>11. WorldInv(v) /\ (Room(v) => SizeInv(v))
  BY <1>6, <1>8, <1>10, RestingInv
<1> QED
  BY <1>10, <1>11 DEF Ends, v

-----------------------------------------------------------------------------
(* The handlers of fire_hire() *)

\* What was true of the numbers is true after the event was taken.
LEMMA PopSize ==
  ASSUME NEW w \in Worlds, w.events # <<>>, SizeInv(w)
  PROVE  LET p == Popped(w)
             e == w.events[1]
         IN /\ SizeInv(p) /\ Room(p) /\ e.place <= Len(First)
            /\ e.name = "supplier-connected" => \E i \in 1 .. Len(First) : Vacant(p, i)
<1> DEFINE p == Popped(w)
           e == w.events[1]
           n == Len(First)
<1>1. /\ p \in Worlds /\ e \in Mails /\ 1 \in 1 .. Len(w.events)
      /\ \A i \in 1 .. Len(p.events) :
            i + 1 \in 1 .. Len(w.events) /\ p.events[i] = w.events[i + 1]
      /\ p.hire = w.hire /\ p.conn = w.conn /\ p.suppliers = w.suppliers
      /\ p.finder = w.finder /\ p.monitor = w.monitor /\ p.desired = w.desired
  BY PopIs
<1> HIDE DEF p
<1>2. /\ w.desired = n /\ Len(w.suppliers) = n /\ Len(w.monitor.known) = n
      /\ w.monitor.erased = 0 /\ Bound(w, n)
      /\ w.finder.state # "NONE" \/ (\E i : ConnectedAt(w, i)) => \E i \in 1 .. n : Vacant(w, i)
  BY DEF SizeInv
<1> HIDE DEF n
<1>3. Bound(p, n)
  BY <1>1, <1>2 DEF Bound
<1>4. \A i : Vacant(w, i) <=> Vacant(p, i)
  BY <1>1 DEF Vacant, Dismissed
<1>5. \A i : ConnectedAt(p, i) => ConnectedAt(w, i + 1)
  BY <1>1 DEF ConnectedAt
<1>6. e.name = "supplier-connected" => ConnectedAt(w, 1)
  BY <1>1 DEF ConnectedAt
<1>7. e.place <= n
  BY <1>1, <1>2 DEF Bound
<1>8. e.name = "supplier-connected" => \E i \in 1 .. n : Vacant(p, i)
  BY <1>2, <1>4, <1>6
<1>9. p.finder.state # "NONE" \/ (\E i : ConnectedAt(p, i)) => \E i \in 1 .. n : Vacant(p, i)
  BY <1>1, <1>2, <1>4, <1>5
<1>10. Room(p)
  BY <1>1, <1>2, <1>3 DEF Room, n
<1>11. SizeInv(p)
  BY <1>1, <1>2, <1>3, <1>9 DEF SizeInv, n
<1> QED
  BY <1>7, <1>8, <1>10, <1>11 DEF p, n

\* list.remove() leaves a list of different nodes.
LEMMA RemovedIs ==
  ASSUME NEW l \in Lists, NEW s \in Node
  PROVE  Removed(l, s) \in Lists
<1>1. CASE s \notin Range(l)
  BY <1>1 DEF Removed
<1>2. CASE s \in Range(l)
  <2> DEFINE k == CHOOSE i \in DOMAIN l : l[i] = s
             r == RemoveAt(l, k)
  <2>1. PICK N \in Nat : /\ N = Len(l) /\ DOMAIN l = 1 .. N
                         /\ \A i \in 1 .. N : l[i] \in Node
    BY ListFacts
  <2>2. l \in Seq(Node)
    BY DEF Lists
  <2>3. \A i, j \in 1 .. N : l[i] = l[j] => i = j
    BY <2>1 DEF Lists, IsInjective
  <2>4. k \in 1 .. N
    BY <1>2, <2>1 DEF Range
  <2>5. Removed(l, s) = r
    BY <1>2 DEF Removed
  <2> HIDE DEF k
  <2> DEFINE a == SubSeq(l, 1, k - 1)
             b == SubSeq(l, k + 1, Len(l))
  <2>6. a \in Seq(Node) /\ Len(a) = k - 1 /\ \A i \in 1 .. k - 1 : a[i] = l[i]
    BY <2>1, <2>2, <2>4
  <2>7. b \in Seq(Node) /\ Len(b) = N - k /\ \A i \in 1 .. N - k : b[i] = l[k + i]
    BY <2>1, <2>2, <2>4
  <2>8. r = a \o b
    BY DEF RemoveAt
  <2> HIDE DEF a, b, r
  <2>9. r \in Seq(Node) /\ Len(r) = N - 1 /\ DOMAIN r = 1 .. N - 1
    BY <2>1, <2>4, <2>6, <2>7, <2>8
  <2>10. \A i \in 1 .. N - 1 : r[i] = IF i < k THEN l[i] ELSE l[i + 1]
    <3> TAKE i \in 1 .. N - 1
    <3>1. CASE i < k
      <4>1. i \in 1 .. k - 1 /\ i \in 1 .. Len(a)
        BY <2>1, <2>4, <2>6, <3>1
      <4>2. r[i] = a[i]
        BY <2>6, <2>7, <2>8, <4>1
      <4> QED
        BY <2>6, <3>1, <4>1, <4>2
    <3>2. CASE ~(i < k)
      <4> DEFINE j == i - (k - 1)
      <4>1. j \in 1 .. N - k /\ k + j = i + 1 /\ i > k - 1 /\ i <= (k - 1) + (N - k)
        BY <2>1, <2>4, <3>2
      <4>2. r[i] = b[j]
        BY <2>6, <2>7, <2>8, <4>1
      <4> QED
        BY <2>7, <3>2, <4>1, <4>2
    <3> QED
      BY <3>1, <3>2
  <2>11. \A i, j \in 1 .. N - 1 : r[i] = r[j] => i = j
    BY <2>1, <2>3, <2>4, <2>10
  <2>12. IsInjective(r)
    BY <2>9, <2>11 DEF IsInjective
  <2> QED
    BY <2>5, <2>9, <2>12 DEF Lists
<1> QED
  BY <1>1, <1>2

LEMMA UnlinkIs ==
  ASSUME NEW f \in Finders, NEW b \in BOOLEAN
  PROVE  LET g == [f EXCEPT !.linked = b] IN
         g \in Finders /\ g.state = f.state /\ g.place = f.place
<1> DEFINE g == [f EXCEPT !.linked = b]
<1>1. f \in FinderValues
  BY DEF Finders
<1>2. /\ g \in FinderValues /\ g.state = f.state /\ g.place = f.place
      /\ g.attempts = f.attempts /\ g.target = f.target
  BY <1>1 DEF FinderValues
<1> HIDE DEF g
<1> QED
  BY <1>2 DEF Finders, g

LEMMA ClosedIs == NoConnector \in Conns /\ NoConnector.place = 0 /\ NoConnector.pings = {}
                  /\ NoConnector.watched = 0
<1>1. {} \in CallSets
  BY DEF CallSets, Current
<1> HIDE DEF CallSets
<1> QED
  BY <1>1 DEF NoConnector, Conns, ConnectorStates

\* doCloseConnector(): the connector of the one that reported.  It is there, unless
\* an old callback was heard.
LEMMA CloseOneOn ==
  ASSUME NEW w, Ease(w), w.hire.state = "FIRE_MANY", NEW s \in Node,
         ~w.echoed => /\ Calm(w) /\ w.conn[s].state # "NONE"
                      /\ \A i \in 1 .. Len(w.events) : ~About(w.events, i, s)
  PROVE  LET v == CloseOne(w, s) IN
         /\ Ease(v) /\ v.hire.state = "FIRE_MANY" /\ (~v.echoed => Calm(v))
         /\ Room(w) => Room(v)
<1> DEFINE v == CloseOne(w, s)
<1>1. w \in Worlds /\ w.hire \in Hires /\ w.finder \in Finders /\ w.conn \in Connectors
  BY HireType DEF Ease
<1>2. CASE w.conn[s].state = "NONE"
  <2>1. v = [w EXCEPT !.raised = TRUE]
    BY <1>2 DEF CloseOne
  <2> HIDE DEF v
  <2>2. w.echoed
    BY <1>2
  <2>3. /\ v \in Worlds /\ v.suppliers = w.suppliers /\ v.events = w.events
        /\ v.monitor = w.monitor /\ v.desired = w.desired /\ v.finder = w.finder
        /\ v.echoed = w.echoed /\ v.conn = w.conn /\ v.hire = w.hire
    BY <1>1, <2>1 DEF Worlds
  <2>4. Rewires(w, v)
    BY <2>2, <2>3 DEF Rewires
  <2>5. Ease(v) /\ (Room(w) => Room(v))
    BY <2>4, RewiresOn
  <2> QED
    BY <2>2, <2>3, <2>5 DEF v
<1>3. CASE w.conn[s].state # "NONE"
  <2> DEFINE d == Removed(w.hire.dismissing, s)
             h == [w.hire EXCEPT !.dismissing = d]
             b == (w.finder.linked /\ w.finder.target # s)
             f == [w.finder EXCEPT !.linked = b]
             c == [w.conn EXCEPT ![s] = NoConnector]
  <2>1. v = Close([w EXCEPT !.hire.dismissing = d], s)
    BY <1>3, <1>1 DEF CloseOne, Worlds, Hires
  <2>2. d \in Lists
    BY <1>1, RemovedIs DEF Hires
  <2> HIDE DEF d
  <2>3. h \in Hires /\ h.state = "FIRE_MANY"
    BY <1>1, <2>2 DEF Hires
  <2>4. [w EXCEPT !.hire.dismissing = d] = [w EXCEPT !.hire = h]
    BY <1>1 DEF Worlds
  <2> HIDE DEF h
  <2>5. v = [w EXCEPT !.hire = h, !.conn = c, !.finder = f]
    BY <1>1, <2>1, <2>4 DEF Close, Worlds
  <2>6. b \in BOOLEAN
    OBVIOUS
  <2> HIDE DEF b
  <2>7. f \in Finders /\ f.state = w.finder.state /\ f.place = w.finder.place
    BY <1>1, <2>6, UnlinkIs
  <2> HIDE DEF f
  <2>8. c \in Connectors /\ c[s] = NoConnector /\ \A t \in Node \ {s} : c[t] = w.conn[t]
    BY <1>1, ClosedIs DEF Connectors
  <2> HIDE DEF c, v
  <2>9. /\ v \in Worlds /\ v.suppliers = w.suppliers /\ v.events = w.events
        /\ v.monitor = w.monitor /\ v.desired = w.desired /\ v.finder = f
        /\ v.raised = w.raised /\ v.echoed = w.echoed /\ v.conn = c /\ v.hire = h
    BY <1>1, <2>3, <2>5, <2>7, <2>8 DEF Worlds
  <2>10. \A t \in Node : /\ c[t].place \in {0, w.conn[t].place}
                         /\ \A p \in c[t].pings : p \in w.conn[t].pings
    BY <2>8, ClosedIs
  <2>11. Rewires(w, v)
    BY <2>7, <2>9, <2>10 DEF Rewires, Ease
  <2>12. Ease(v) /\ (Room(w) => Room(v))
    BY <2>11, RewiresOn
  <2>13. ASSUME ~v.echoed PROVE Calm(v)
    <3>1. Calm(w) /\ \A i \in 1 .. Len(w.events) : ~About(w.events, i, s)
      BY <2>9, <2>13
    <3> SUFFICES ASSUME NEW i \in 1 .. Len(w.events), NEW t \in Node, About(w.events, i, t)
                 PROVE  /\ c[t].watched = 0 /\ c[t].state # "NONE"
                        /\ \A j \in 1 .. Len(w.events) : About(w.events, j, t) => j = i
      BY <2>9 DEF Calm
    <3>2. t # s
      BY <3>1
    <3> QED
      BY <2>8, <3>1, <3>2 DEF Calm
  <2> QED
    BY <2>3, <2>9, <2>12, <2>13 DEF v
<1> QED
  BY <1>2, <1>3

\* doClearDismissList() and doNotifySuppliersChanged().
LEMMA DismissEnds ==
  ASSUME NEW w, Ease(w)
  PROVE  Ends(w, Dismiss(w))
<1> DEFINE h == [w.hire EXCEPT !.state = "READY", !.dismissing = <<>>, !.results = {}]
           x == [w EXCEPT !.hire = h]
<1>1. w \in Worlds /\ w.hire \in Hires
  BY HireType DEF Ease
<1>2. <<>> \in Lists
  BY DEF Lists, IsInjective
<1>3. h \in Hires /\ h.state = "READY"
  BY <1>1, <1>2 DEF Hires, HireStates
<1>4. Dismiss(w) = Ready(Notify(x, "suppliers-changed"))
  BY <1>1 DEF Dismiss, Worlds
<1> HIDE DEF h
<1>5. Apart(w, x) /\ x.hire = h
  BY <1>1, <1>3, SetHire
<1> HIDE DEF x
<1>6. Ease(x) /\ (Room(w) => Room(x))
  BY <1>5, ApartOn
<1>7. Ends(x, Ready(Notify(x, "suppliers-changed")))
  BY <1>3, <1>5, <1>6, EndRound
<1> QED
  BY <1>4, <1>6, <1>7 DEF Ends

\* 'supplier-state-changed' in FIRE_MANY.
LEMMA LeftEnds ==
  ASSUME NEW w, Ease(w), w.hire.state = "FIRE_MANY", NEW s \in Node,
         ~w.echoed => /\ Calm(w) /\ w.conn[s].state # "NONE"
                      /\ \A i \in 1 .. Len(w.events) : ~About(w.events, i, s)
  PROVE  Ends(w, Left(w, s))
<1> DEFINE x == CloseOne(w, s)
<1>1. /\ Ease(x) /\ x.hire.state = "FIRE_MANY" /\ (~x.echoed => Calm(x))
      /\ Room(w) => Room(x)
  BY CloseOneOn
<1>2. Left(w, s) \in {x, Dismiss(x)}
  BY DEF Left
<1> HIDE DEF x
<1>3. WorldInv(x) /\ (Room(x) => SizeInv(x))
  BY <1>1, FiringInv
<1>4. Ends(x, Dismiss(x))
  BY <1>1, DismissEnds
<1> QED
  BY <1>1, <1>2, <1>3, <1>4 DEF Ends

\* doCloseConnectors(), and the round is over.
LEMMA TimedOutEnds ==
  ASSUME NEW w, Ease(w)
  PROVE  Ends(w, TimedOut(w))
<1> DEFINE list == w.hire.dismissing
           closed == {list[i] : i \in {j \in DOMAIN list : j % 2 = 1}}
           c == [s \in Node |-> IF s \in closed THEN NoConnector ELSE w.conn[s]]
           b == (w.finder.linked /\ w.finder.target \notin closed)
           f == [w.finder EXCEPT !.linked = b]
           x == [w EXCEPT !.conn = c, !.finder = f]
<1>1. w \in Worlds /\ w.hire \in Hires /\ w.finder \in Finders /\ w.conn \in Connectors
  BY HireType DEF Ease
<1>2. TimedOut(w) = Dismiss(x)
  BY <1>1 DEF TimedOut, Worlds
<1> HIDE DEF closed
<1>3. b \in BOOLEAN
  OBVIOUS
<1> HIDE DEF b
<1>4. f \in Finders /\ f.state = w.finder.state /\ f.place = w.finder.place
  BY <1>1, <1>3, UnlinkIs
<1> HIDE DEF f
<1>5. c \in Connectors /\ \A s \in Node : c[s] \in {NoConnector, w.conn[s]}
  BY <1>1, ClosedIs DEF Connectors
<1>6. \A t \in Node : /\ c[t].place \in {0, w.conn[t].place}
                      /\ \A p \in c[t].pings : p \in w.conn[t].pings
  BY <1>5, ClosedIs
<1> HIDE DEF c
<1>7. /\ x \in Worlds /\ x.suppliers = w.suppliers /\ x.events = w.events
      /\ x.monitor = w.monitor /\ x.desired = w.desired /\ x.finder = f
      /\ x.raised = w.raised /\ x.echoed = w.echoed /\ x.conn = c
  BY <1>1, <1>4, <1>5 DEF Worlds
<1> HIDE DEF x
<1>8. Rewires(w, x)
  BY <1>4, <1>6, <1>7 DEF Rewires, Ease
<1>9. Ease(x) /\ (Room(w) => Room(x))
  BY <1>8, RewiresOn
<1>10. Ends(x, Dismiss(x))
  BY <1>9, DismissEnds
<1> QED
  BY <1>2, <1>9, <1>10 DEF Ends

\* Only the state of fire_hire() and the list of the dismissed change.
LEMMA EnterIs ==
  ASSUME NEW w \in Worlds, NEW phase \in HireStates
  PROVE  LET v == [w EXCEPT !.hire.state = phase] IN
         /\ Apart(w, v) /\ v.hire.state = phase /\ v.hire.dismissing = w.hire.dismissing
<1> DEFINE h == [w.hire EXCEPT !.state = phase]
           v == [w EXCEPT !.hire = h]
<1>1. w.hire \in Hires
  BY HireType
<1>2. h \in Hires /\ h.state = phase /\ h.dismissing = w.hire.dismissing
  BY <1>1 DEF Hires
<1>3. [w EXCEPT !.hire.state = phase] = v
  BY DEF Worlds
<1> HIDE DEF h
<1>4. Apart(w, v) /\ v.hire = h
  BY <1>2, SetHire
<1> HIDE DEF v
<1> QED
  BY <1>2, <1>3, <1>4
LEMMA DismissingIs ==
  ASSUME NEW w \in Worlds, NEW list \in Lists
  PROVE  LET v == [w EXCEPT !.hire.dismissing = list] IN
         /\ Apart(w, v) /\ v.hire.state = w.hire.state
<1> DEFINE h == [w.hire EXCEPT !.dismissing = list]
           v == [w EXCEPT !.hire = h]
<1>1. w.hire \in Hires
  BY HireType
<1>2. h \in Hires /\ h.state = w.hire.state
  BY <1>1 DEF Hires
<1>3. [w EXCEPT !.hire.dismissing = list] = v
  BY DEF Worlds
<1> HIDE DEF h
<1>4. Apart(w, v) /\ v.hire = h
  BY <1>2, SetHire
<1> HIDE DEF v
<1> QED
  BY <1>2, <1>3, <1>4
LEMMA ScheduleIs ==
  ASSUME NEW w \in Worlds
  PROVE  Apart(w, Schedule(w)) /\ Schedule(w).hire.state = w.hire.state
<1> DEFINE h == [w.hire EXCEPT !.hiring = {}]
           v == [w EXCEPT !.hire = h, !.scheduled = TRUE]
<1>1. w.hire \in Hires
  BY HireType
<1>2. h \in Hires /\ h.state = w.hire.state
  BY <1>1 DEF Hires
<1>3. Schedule(w) = v
  BY DEF Schedule, Worlds
<1> HIDE DEF h
<1>4. Apart(w, v) /\ v.hire = h
  BY <1>2, SetHire
<1> HIDE DEF v
<1> QED
  BY <1>2, <1>3, <1>4
LEMMA ApartCalm ==
  ASSUME NEW w, NEW v, Apart(w, v), ~w.echoed => Calm(w)
  PROVE  ~v.echoed => Calm(v)
  BY DEF Apart, Calm, About

LEMMA Dismissals ==
  ASSUME NEW w, Ease(w), NoReports(w)
  PROVE  LET x == [w EXCEPT !.hire.state = "FIRE_MANY"]
             v == DisconnectAll(x)
         IN /\ Ease(v) /\ v.hire.state = "FIRE_MANY" /\ (~v.echoed => Calm(v))
            /\ Room(w) => Room(v)
<1> DEFINE x == [w EXCEPT !.hire.state = "FIRE_MANY"]
<1>1. Apart(w, x) /\ x.hire.state = "FIRE_MANY"
  BY EnterIs DEF Ease, HireStates
<1> HIDE DEF x
<1>2. Ease(x) /\ NoReports(x) /\ (Room(w) => Room(x))
  BY <1>1, ApartOn
<1>3. LET v == DisconnectAll(x) IN
      /\ Ease(v) /\ v.hire.state = "FIRE_MANY" /\ (~v.echoed => Calm(v))
      /\ Room(x) => Room(v)
  BY <1>1, <1>2, DisconnectAllOn
<1> QED
  BY <1>2, <1>3 DEF x

LEMMA RestEnds ==
  ASSUME NEW w, Ease(w), NEW news
  PROVE  Ends(w, Ready(Notify([w EXCEPT !.hire.state = "READY"], news)))
<1> DEFINE x == [w EXCEPT !.hire.state = "READY"]
<1>1. Apart(w, x) /\ x.hire.state = "READY"
  BY EnterIs DEF Ease, HireStates
<1> HIDE DEF x
<1>2. Ease(x) /\ (Room(w) => Room(x))
  BY <1>1, ApartOn
<1>3. Ends(x, Ready(Notify(x, news)))
  BY <1>1, <1>2, EndRound
<1> QED
  BY <1>2, <1>3 DEF Ends, x

\* 'search-failed'.
LEMMA SearchFailedEnds ==
  ASSUME NEW w, Ease(w), NoReports(w)
  PROVE  Ends(w, SearchFailed(w))
<1>1. CASE w.hire.dismissing = <<>>
  <2> DEFINE x == [w EXCEPT !.hire.state = "READY"]
             y == Schedule(x)
  <2>1. Apart(w, x) /\ x.hire.state = "READY"
    BY EnterIs DEF Ease, HireStates
  <2>2. SearchFailed(w) = Ready(Notify(y, "suppliers-changed"))
    BY <1>1 DEF SearchFailed
  <2> HIDE DEF x
  <2>3. Ease(x) /\ (Room(w) => Room(x))
    BY <2>1, ApartOn
  <2>4. Apart(x, y) /\ y.hire.state = "READY"
    BY <2>1, <2>3, ScheduleIs DEF Ease
  <2> HIDE DEF y
  <2>5. Ease(y) /\ (Room(x) => Room(y))
    BY <2>3, <2>4, ApartOn
  <2>6. Ends(y, Ready(Notify(y, "suppliers-changed")))
    BY <2>4, <2>5, EndRound
  <2> QED
    BY <2>2, <2>3, <2>5, <2>6 DEF Ends
<1>2. CASE w.hire.dismissing # <<>>
  <2> DEFINE x == DisconnectAll([w EXCEPT !.hire.state = "FIRE_MANY"])
             y == RemoveSuppliers(x)
             v == Schedule(y)
  <2>1. /\ Ease(x) /\ x.hire.state = "FIRE_MANY" /\ (~x.echoed => Calm(x))
        /\ Room(w) => Room(x)
    BY Dismissals
  <2>2. SearchFailed(w) = v
    BY <1>2 DEF SearchFailed
  <2> HIDE DEF x
  <2>3. /\ Ease(y) /\ (Room(x) => Room(y)) /\ y.hire = x.hire /\ y.echoed = x.echoed
        /\ Calm(x) => Calm(y)
    BY <2>1, RemoveOn
  <2> HIDE DEF y
  <2>4. Apart(y, v) /\ v.hire.state = "FIRE_MANY"
    BY <2>1, <2>3, ScheduleIs DEF Ease
  <2> HIDE DEF v
  <2>5. Ease(v) /\ (Room(y) => Room(v))
    BY <2>3, <2>4, ApartOn
  <2>6. ~v.echoed => Calm(v)
    BY <2>1, <2>3, <2>4, ApartCalm
  <2>7. WorldInv(v) /\ (Room(v) => SizeInv(v))
    BY <2>4, <2>5, <2>6, FiringInv
  <2> QED
    BY <2>1, <2>2, <2>3, <2>5, <2>7 DEF Ends
<1> QED
  BY <1>1, <1>2

\* 'supplier-connected': nothing is raised, for the node is no supplier yet.
Fits(w, place) ==
  Room(w) /\ place <= Len(First) /\ \E i \in 1 .. Len(First) : Vacant(w, i)
LEMMA HiredEnds ==
  ASSUME NEW w, Ease(w), NoReports(w), w.hire.state = "HIRE_ONE",
         NEW s \in Node, s \notin Supplied(w), NEW place \in Nat
  PROVE  /\ WorldInv(Hired(w, s, place))
         /\ Fits(w, place) => SizeInv(Hired(w, s, place))
<1>1. CASE StillNeeded(w, s)
  <2> DEFINE x == Substitute(w, s, place)
  <2>1. /\ Ease(x) /\ NoReports(x) /\ x.hire.state = "HIRE_ONE"
        /\ (Fits(w, place) => Room(x))
    BY SubstituteOn DEF Fits
  <2>2. Hired(w, s, place) = FindNew(x)
    BY <1>1 DEF Hired
  <2> HIDE DEF x
  <2>3. Ends(x, FindNew(x))
    BY <2>1, FindNewEnds
  <2> QED
    BY <2>1, <2>2, <2>3 DEF Ends
<1> DEFINE enter(phase) == [w EXCEPT !.hire.state = phase]
<1>2. ASSUME NEW phase \in HireStates
      PROVE  LET x == Substitute(enter(phase), s, place) IN
             /\ Ease(x) /\ NoReports(x) /\ x.hire.state = phase /\ (Fits(w, place) => Room(x))
  <2> DEFINE y == enter(phase)
  <2>1. Apart(w, y) /\ y.hire.state = phase /\ y.hire.dismissing = w.hire.dismissing
    BY EnterIs DEF Ease
  <2> HIDE DEF enter
  <2>2. Ease(y) /\ NoReports(y) /\ (Room(w) => Room(y)) /\ y.suppliers = w.suppliers
    BY <2>1, ApartOn DEF Apart
  <2>3. s \notin Supplied(y) /\ \A i : Vacant(w, i) => Vacant(y, i)
    BY <2>1, <2>2 DEF Supplied, Vacant, Dismissed
  <2> QED
    BY <2>1, <2>2, <2>3, SubstituteOn DEF Fits
<1>3. CASE ~StillNeeded(w, s) /\ w.hire.dismissing # <<>>
  <2> DEFINE x == Substitute(enter("FIRE_MANY"), s, place)
             v == DisconnectAll(x)
  <2>1. Hired(w, s, place) = v
    BY <1>3 DEF Hired
  <2>2. Ease(x) /\ NoReports(x) /\ x.hire.state = "FIRE_MANY" /\ (Fits(w, place) => Room(x))
    BY <1>2 DEF HireStates
  <2> HIDE DEF x
  <2>3. /\ Ease(v) /\ v.hire.state = "FIRE_MANY" /\ (~v.echoed => Calm(v))
        /\ Room(x) => Room(v)
    BY <2>2, DisconnectAllOn
  <2> HIDE DEF v
  <2>4. WorldInv(v) /\ (Room(v) => SizeInv(v))
    BY <2>3, FiringInv
  <2> QED
    BY <2>1, <2>2, <2>3, <2>4 DEF Ends
<1>4. CASE ~StillNeeded(w, s) /\ w.hire.dismissing = <<>>
  <2> DEFINE x == Substitute(enter("READY"), s, place)
  <2>1. Hired(w, s, place) = Ready(Notify(x, "suppliers-changed"))
    BY <1>4 DEF Hired
  <2>2. Ease(x) /\ x.hire.state = "READY" /\ (Fits(w, place) => Room(x))
    BY <1>2 DEF HireStates
  <2> HIDE DEF x
  <2>3. Ends(x, Ready(Notify(x, "suppliers-changed")))
    BY <2>2, EndRound
  <2> QED
    BY <2>1, <2>2, <2>3 DEF Ends
<1> QED
  BY <1>1, <1>3, <1>4

\* 'made-decision'.
LEMMA DecidedEnds ==
  ASSUME NEW w, Ease(w), NoReports(w), NEW list \in Lists
  PROVE  Ends(w, Decided(w, list))
<1> DEFINE y == [w EXCEPT !.hire.dismissing = list]
           more == MoreNeeded(w, Range(list))
           enter(phase) == [y EXCEPT !.hire.state = phase]
<1>1. Apart(w, y)
  BY DismissingIs DEF Ease
<1>2. Decided(w, list) =
        CASE more -> FindNew(enter("HIRE_ONE"))
          [] ~more /\ list # <<>> -> DisconnectAll(RemoveSuppliers(enter("FIRE_MANY")))
          [] OTHER -> Ready(Notify([w EXCEPT !.hire.state = "READY"], "fire-hire-finished"))
  BY DEF Decided
<1> HIDE DEF y, more
<1>3. Ease(y) /\ NoReports(y) /\ (Room(w) => Room(y))
  BY <1>1, ApartOn
<1>4. ASSUME NEW phase \in HireStates
      PROVE  LET x == enter(phase) IN
             Ease(x) /\ NoReports(x) /\ x.hire.state = phase /\ (Room(w) => Room(x))
  <2> DEFINE x == enter(phase)
  <2>1. Apart(y, x) /\ x.hire.state = phase
    BY <1>3, EnterIs DEF Ease
  <2> HIDE DEF enter
  <2>2. Ease(x) /\ NoReports(x) /\ (Room(y) => Room(x))
    BY <1>3, <2>1, ApartOn
  <2> QED
    BY <1>3, <2>1, <2>2
<1> HIDE DEF enter
<1>5. CASE more
  <2> DEFINE x == enter("HIRE_ONE")
  <2>1. Ease(x) /\ NoReports(x) /\ x.hire.state = "HIRE_ONE" /\ (Room(w) => Room(x))
    BY <1>4 DEF HireStates
  <2>2. Decided(w, list) = FindNew(x)
    BY <1>2, <1>5
  <2> HIDE DEF x
  <2>3. Ends(x, FindNew(x))
    BY <2>1, FindNewEnds
  <2> QED
    BY <2>1, <2>2, <2>3 DEF Ends
<1>6. CASE ~more /\ list # <<>>
  <2> DEFINE x == enter("FIRE_MANY")
             z == RemoveSuppliers(x)
             v == DisconnectAll(z)
  <2>1. Ease(x) /\ NoReports(x) /\ x.hire.state = "FIRE_MANY" /\ (Room(w) => Room(x))
    BY <1>4 DEF HireStates
  <2>2. Decided(w, list) = v
    BY <1>2, <1>6
  <2> HIDE DEF x
  <2>3. Ease(z) /\ NoReports(z) /\ z.hire = x.hire /\ (Room(x) => Room(z))
    BY <2>1, RemoveOn
  <2> HIDE DEF z
  <2>4. /\ Ease(v) /\ v.hire.state = "FIRE_MANY" /\ (~v.echoed => Calm(v))
        /\ Room(z) => Room(v)
    BY <2>1, <2>3, DisconnectAllOn
  <2> HIDE DEF v
  <2>5. WorldInv(v) /\ (Room(v) => SizeInv(v))
    BY <2>4, FiringInv
  <2> QED
    BY <2>1, <2>2, <2>3, <2>4, <2>5 DEF Ends
<1>7. CASE ~more /\ list = <<>>
  <2>1. Decided(w, list) = Ready(Notify([w EXCEPT !.hire.state = "READY"], "fire-hire-finished"))
    BY <1>2, <1>7
  <2> QED
    BY <2>1, RestEnds
<1> QED
  BY <1>5, <1>6, <1>7

\* 'restart' in READY: the suppliers are connected again, or the decision is made at once.
LEMMA RestartedEnds ==
  ASSUME NEW w, Ease(w), NEW v \in Restarted(w)
  PROVE  Ends(w, v)
<1> DEFINE h == [w.hire EXCEPT !.again = FALSE]
           x == [w EXCEPT !.hire = h]
           k == [x.hire EXCEPT !.state = "SUPPLIERS?", !.saved = x.desired]
           y == [x EXCEPT !.hire = k]
<1>1. w \in Worlds /\ w.hire \in Hires
  BY HireType DEF Ease
<1>2. h \in Hires
  BY <1>1 DEF Hires
<1>3. [w EXCEPT !.hire.again = FALSE] = x
  BY <1>1 DEF Worlds
<1> HIDE DEF h
<1>4. Apart(w, x)
  BY <1>1, <1>2, SetHire
<1> HIDE DEF x
<1>5. Ease(x) /\ (Room(w) => Room(x))
  BY <1>4, ApartOn
<1>6. Restarted(w) =
        IF MustConnect(x)
        THEN {ConnectAll([x EXCEPT !.hire.state = "SUPPLIERS?", !.hire.saved = x.desired])}
        ELSE Decide(x)
  BY <1>3 DEF Restarted
<1>7. x \in Worlds /\ x.hire \in Hires /\ x.desired \in Number
  BY <1>5, HireType DEF Ease
<1>8. k \in Hires /\ k.state = "SUPPLIERS?"
  BY <1>7 DEF Hires, HireStates
<1>9. [x EXCEPT !.hire.state = "SUPPLIERS?", !.hire.saved = x.desired] = y
  BY <1>7 DEF Worlds, Hires
<1> HIDE DEF k
<1>10. Apart(x, y) /\ y.hire = k
  BY <1>7, <1>8, SetHire
<1> HIDE DEF y
<1>11. Ease(y) /\ y.hire.state = "SUPPLIERS?" /\ (Room(x) => Room(y))
  BY <1>5, <1>8, <1>10, ApartOn
<1>12. CASE MustConnect(x)
  <2>1. v = ConnectAll(y)
    BY <1>6, <1>9, <1>12
  <2>2. Ends(y, v)
    BY <1>11, <2>1, ConnectAllEnds
  <2> QED
    BY <1>5, <1>11, <2>2 DEF Ends
<1>13. CASE ~MustConnect(x)
  <2>1. v \in Decide(x)
    BY <1>6, <1>13
  <2>2. Ends(x, v)
    BY <1>5, <2>1, DecideEnds
  <2> QED
    BY <1>5, <2>2 DEF Ends
<1> QED
  BY <1>12, <1>13

\* NeedRestart
LEMMA PostponeHeard ==
  ASSUME NEW w \in Worlds
  PROVE  Heard(w, Postpone(w)) /\ Sizes(w, Postpone(w))
<1> DEFINE h == [w.hire EXCEPT !.again = TRUE]
           v == [w EXCEPT !.hire = h]
<1>1. w.hire \in Hires
  BY HireType
<1>2. h \in Hires /\ h.state = w.hire.state /\ h.dismissing = w.hire.dismissing
  BY <1>1 DEF Hires
<1>3. Postpone(w) = v
  BY DEF Postpone, Worlds
<1> HIDE DEF h
<1>4. Apart(w, v) /\ v.hire = h
  BY <1>2, SetHire
<1> HIDE DEF v
<1>5. Same(w, v) /\ v \in Worlds /\ v.monitor = w.monitor /\ v.desired = w.desired
  BY <1>2, <1>4 DEF Same, Apart
<1> QED
  BY <1>3, <1>5, SameHeard

\* Whatever event fire_hire() takes, the invariant holds afterwards.
LEMMA HandleKept ==
  ASSUME NEW w, WorldInv(w), w.events # <<>>, NEW v \in Handle(Popped(w), w.events[1])
  PROVE  WorldInv(v) /\ (SizeInv(w) => SizeInv(v))
<1> DEFINE p == Popped(w)
           e == w.events[1]
           s == p.hire.state
<1>1. w \in Worlds /\ p \in Worlds /\ e \in Mails
  BY PopIs DEF WorldInv
<1>2. /\ e.name \in Names /\ e.place \in Nat /\ e.list \in Lists
      /\ e.name = Changed => e.who \in Node
  BY <1>1 DEF Mails, Letters, Changed
<1>3. /\ e.name \notin Answering => SearchInv(p)
      /\ e.name \in Answering =>
            /\ s = "HIRE_ONE" /\ p.finder.state = "NONE"
            /\ \A i : ~AnswerAt(p, i)
      /\ e.name = "supplier-connected" => e.who \in Node \ Supplied(p)
      /\ e.name # "made-decision" => OrderInv(p)
      /\ e.name = "made-decision" =>
            /\ s = "DECISION?" /\ NoReports(p)
            /\ \A i : ~DecisionAt(p, i)
      /\ EchoInv(p) /\ OnceIn(p)
      /\ s = "FIRE_MANY" /\ ~p.echoed => \A t \in Node :
            e.name = Changed /\ e.who = t =>
              /\ p.conn[t].watched = 0 /\ p.conn[t].state # "NONE"
              /\ \A i \in 1 .. Len(p.events) : ~About(p.events, i, t)
  BY PopInv
<1>4. SizeInv(w) => SizeInv(p) /\ Room(p) /\ e.place <= Len(First)
  BY <1>1, PopSize
<1>5. SizeInv(w) /\ e.name = "supplier-connected" => Fits(p, e.place)
  BY <1>1, PopSize DEF Fits
<1>6. \A x : Ends(p, x) => WorldInv(x) /\ (SizeInv(w) => SizeInv(x))
  BY <1>4 DEF Ends
<1>7. v \in Handle(p, e)
  OBVIOUS
<1> HIDE DEF p, e
<1>8. e.name \notin Answering \cup {"made-decision"} => WorldInv(p)
  BY <1>1, <1>3 DEF WorldInv
<1>9. e.name \notin Answering \cup {"made-decision"}
      /\ s \in {"READY", "SUPPLIERS?", "FIRE_MANY"} => Ease(p)
  BY <1>8, InvEase
<1>10. "made-decision" \notin Answering
  BY DEF Answering
<1>11. e.name = "made-decision" => Ease(p)
  BY <1>1, <1>3, <1>10 DEF Ease, Quiet, SearchInv, EchoInv
<1>12. e.name \in Answering => Ease(p) /\ NoReports(p)
  BY <1>1, <1>3, <1>10 DEF Ease, Quiet, OrderInv, EchoInv, NoReports
<1>13. /\ "restart" \notin Answering /\ "instant" \notin Answering
       /\ Changed \notin Answering /\ "timer-15sec" \notin Answering
       /\ "supplier-connected" \in Answering /\ "search-failed" \in Answering
       /\ \A n \in Answering : n \in {"supplier-connected", "search-failed"}
       /\ Changed = "supplier-state-changed"
  BY DEF Answering, Changed
<1>14. CASE s = "READY" /\ (e.name = "restart" \/ (e.name = "instant" /\ p.hire.again))
  <2>1. v \in Restarted(p)
    BY <1>7, <1>14 DEF Handle
  <2>2. Ease(p)
    BY <1>9, <1>13, <1>14
  <2> QED
    BY <1>6, <2>1, <2>2, RestartedEnds
<1>15. CASE s # "READY" /\ e.name = "restart"
  <2>1. v = Postpone(p)
    BY <1>7, <1>15 DEF Handle
  <2>2. WorldInv(p)
    BY <1>8, <1>13, <1>15
  <2>3. Heard(p, v) /\ Sizes(p, v)
    BY <1>1, <2>1, PostponeHeard
  <2>4. SizeInv(w) => SizeInv(v)
    BY <1>1, <1>4, <2>3, FirstLen, SizeKept
  <2> QED
    BY <2>2, <2>3, <2>4, WorldKept
<1>16. CASE s = "DECISION?" /\ e.name = "made-decision"
  <2>1. v = Decided(p, e.list)
    BY <1>7, <1>16 DEF Handle
  <2>2. Ends(p, v)
    BY <1>2, <1>3, <1>11, <1>16, <2>1, DecidedEnds
  <2> QED
    BY <1>6, <2>2
<1>17. CASE s = "HIRE_ONE" /\ e.name = "supplier-connected"
  <2>1. v = Hired(p, e.who, e.place)
    BY <1>7, <1>17 DEF Handle
  <2>2. Ease(p) /\ NoReports(p)
    BY <1>12, <1>13, <1>17
  <2>3. e.who \in Node /\ e.who \notin Supplied(p)
    BY <1>3, <1>17
  <2>4. WorldInv(v) /\ (Fits(p, e.place) => SizeInv(v))
    BY <1>2, <1>17, <2>1, <2>2, <2>3, HiredEnds
  <2> QED
    BY <1>5, <1>17, <2>4
<1>18. CASE s = "HIRE_ONE" /\ e.name = "search-failed"
  <2>1. v = SearchFailed(p)
    BY <1>7, <1>18 DEF Handle
  <2>2. Ends(p, v)
    BY <1>12, <1>13, <1>18, <2>1, SearchFailedEnds
  <2> QED
    BY <1>6, <2>2
<1>19. CASE s = "FIRE_MANY" /\ e.name = "supplier-state-changed"
  <2>1. v = Left(p, e.who)
    BY <1>7, <1>19 DEF Handle
  <2>2. Ease(p)
    BY <1>9, <1>13, <1>19
  <2>3. ~p.echoed => /\ Calm(p) /\ p.conn[e.who].state # "NONE"
                     /\ \A i \in 1 .. Len(p.events) : ~About(p.events, i, e.who)
    BY <1>2, <1>3, <1>13, <1>19 DEF EchoInv
  <2>4. Ends(p, v)
    BY <1>2, <1>13, <1>19, <2>1, <2>2, <2>3, LeftEnds
  <2> QED
    BY <1>6, <2>4
<1>20. CASE s = "SUPPLIERS?" /\ e.name \in {"supplier-state-changed", "timer-15sec"} /\ v # p
  <2>1. v \in Decide(p)
    BY <1>7, <1>20 DEF Handle
  <2>2. Ease(p)
    BY <1>9, <1>13, <1>20
  <2> QED
    BY <1>6, <2>1, <2>2, DecideEnds
<1>21. CASE s = "FIRE_MANY" /\ e.name = "timer-15sec"
  <2>1. v = TimedOut(p)
    BY <1>7, <1>21 DEF Handle
  <2>2. Ease(p)
    BY <1>9, <1>13, <1>21
  <2> QED
    BY <1>6, <2>1, <2>2, TimedOutEnds
<1>22. CASE v = p /\ e.name \notin Answering \cup {"made-decision"}
  BY <1>4, <1>8, <1>22
<1>23. e.name \in Answering => s = "HIRE_ONE" /\ e.name \in {"supplier-connected", "search-failed"}
  BY <1>3, <1>13
<1>24. e.name = "made-decision" => s = "DECISION?"
  BY <1>3
<1>25. CASE /\ ~(s = "READY" /\ (e.name = "restart" \/ (e.name = "instant" /\ p.hire.again)))
            /\ ~(s # "READY" /\ e.name = "restart")
            /\ ~(s = "DECISION?" /\ e.name = "made-decision")
            /\ ~(s = "HIRE_ONE" /\ e.name = "supplier-connected")
            /\ ~(s = "HIRE_ONE" /\ e.name = "search-failed")
            /\ ~(s = "FIRE_MANY" /\ e.name = "supplier-state-changed")
            /\ ~(s = "SUPPLIERS?" /\ e.name \in {"supplier-state-changed", "timer-15sec"} /\ v # p)
            /\ ~(s = "FIRE_MANY" /\ e.name = "timer-15sec")
  <2>1. e.name \notin Answering \cup {"made-decision"}
    BY <1>23, <1>24, <1>25
  <2>2. v = p
    BY <1>7, <1>25 DEF Handle
  <2> QED
    BY <1>22, <2>1, <2>2
<1> QED
  BY <1>14, <1>15, <1>16, <1>17, <1>18, <1>19, <1>20, <1>21, <1>25

-----------------------------------------------------------------------------
(* The steps of the other machines *)

\* Some events and orders of the user concern no round.
LEMMA OrdersHeard ==
  ASSUME NEW w \in Worlds, NEW f \in SUBSET Node, NEW b \in BOOLEAN
  PROVE  LET x == [w EXCEPT !.toFire = f]
             y == [w EXCEPT !.scheduled = b]
         IN /\ x \in Worlds /\ Heard(w, x) /\ Sizes(w, x)
            /\ y \in Worlds /\ Heard(w, y) /\ Sizes(w, y)
<1> DEFINE x == [w EXCEPT !.toFire = f]
           y == [w EXCEPT !.scheduled = b]
<1>1. x \in Worlds /\ Same(w, x) /\ x.monitor = w.monitor /\ x.desired = w.desired
  BY DEF Same, Worlds
<1>2. y \in Worlds /\ Same(w, y) /\ y.monitor = w.monitor /\ y.desired = w.desired
  BY DEF Same, Worlds
<1> HIDE DEF x, y
<1> QED
  BY <1>1, <1>2, SameHeard DEF x, y

\* Another number of suppliers: the round goes on, whatever the numbers are.
LEMMA ResizeHeard ==
  ASSUME NEW w \in Worlds, NEW n \in Number
  PROVE  Heard(w, Queue([w EXCEPT !.desired = n], Event("restart")))
<1> DEFINE x == [w EXCEPT !.desired = n]
<1>1. n \in Numbers
  BY DEF Worlds, Numbers
<1>2. x \in Worlds /\ Same(w, x)
  BY <1>1 DEF Same, Worlds
<1> HIDE DEF x
<1>3. Heard(w, x)
  BY <1>2, SameHeard
<1>4. Heard(x, Queue(x, Event("restart")))
  BY <1>2, QueueHeard DEF Silent
<1> QED
  BY <1>3, <1>4, HeardOn DEF x

\* A packet or a ping is not waited for any more.
LEMMA TakenHeard ==
  ASSUME NEW w \in Worlds, NEW s \in Node, NEW p, NEW call
  PROVE  LET x == [w EXCEPT !.conn[s].pings = @ \ {p}]
             y == [w EXCEPT !.conn[s].calls = @ \ {call}]
         IN /\ x \in Worlds /\ Heard(w, x) /\ Sizes(w, x)
            /\ y \in Worlds /\ Heard(w, y) /\ Sizes(w, y)
<1> DEFINE c == [w.conn[s] EXCEPT !.pings = @ \ {p}]
           d == [w.conn[s] EXCEPT !.calls = @ \ {call}]
<1>1. w.conn[s] \in Conns
  BY ConnType
<1>2. w.conn[s].calls \ {call} \in CallSets
  BY <1>1 DEF Conns, CallSets
<1>3. /\ c \in Conns /\ c.watched = w.conn[s].watched /\ c.state = w.conn[s].state
      /\ c.place = w.conn[s].place /\ c.pings \subseteq w.conn[s].pings
  <2> HIDE DEF CallSets
  <2> QED
    BY <1>1 DEF Conns
<1>4. /\ d \in Conns /\ d.watched = w.conn[s].watched /\ d.state = w.conn[s].state
      /\ d.place = w.conn[s].place /\ d.pings = w.conn[s].pings
  <2> HIDE DEF CallSets
  <2> QED
    BY <1>1, <1>2 DEF Conns
<1>5. /\ [w EXCEPT !.conn[s].pings = @ \ {p}] = [w EXCEPT !.conn[s] = c]
      /\ [w EXCEPT !.conn[s].calls = @ \ {call}] = [w EXCEPT !.conn[s] = d]
  BY DEF Worlds
<1> HIDE DEF c, d
<1> QED
  BY <1>3, <1>4, <1>5, OneHeard

\* _do_request_supplier_service(): the position of the ping becomes the one of the request.
LEMMA PingHeard ==
  ASSUME NEW w \in Worlds, NEW s \in Node, NEW p \in w.conn[s].pings
  PROVE  LET x == [w EXCEPT !.conn[s] =
                      Send([w.conn[s] EXCEPT !.pings = @ \ {p}, !.place = p], "service")]
         IN Heard(w, x) /\ Sizes(w, x)
<1> DEFINE b == [w.conn[s] EXCEPT !.pings = @ \ {p}, !.place = p]
           c == Send(b, "service")
<1>1. w.conn[s] \in Conns
  BY ConnType
<1>2. /\ b \in Conns /\ b.watched = w.conn[s].watched /\ b.state = w.conn[s].state
      /\ b.place = p /\ b.pings \subseteq w.conn[s].pings
  BY <1>1 DEF Conns
<1> HIDE DEF b
<1>3. /\ c \in Conns /\ c.watched = b.watched /\ c.state = b.state
      /\ c.place = b.place /\ c.pings = b.pings
  BY <1>2, SendIs DEF Current
<1> HIDE DEF c
<1>4. Turns(w, s, c)
  BY <1>2, <1>3 DEF Turns, Bound
<1> QED
  BY <1>4, TurnsHeard DEF c, b

\* The search goes on.
LEMMA SearchHeard ==
  ASSUME NEW w \in Worlds, NEW f \in Finders, f.state # "NONE", w.finder.state # "NONE",
         f.place = w.finder.place
  PROVE  LET x == [w EXCEPT !.finder = f] IN
         x \in Worlds /\ Heard(w, x) /\ Sizes(w, x)
<1> DEFINE x == [w EXCEPT !.finder = f]
<1>1. /\ x \in Worlds /\ x.conn = w.conn /\ x.hire = w.hire /\ x.events = w.events
      /\ x.suppliers = w.suppliers /\ x.finder = f /\ x.monitor = w.monitor
      /\ x.desired = w.desired /\ x.raised = w.raised /\ x.echoed = w.echoed
  BY DEF Worlds
<1> HIDE DEF x
<1>2. Fresh(w.events, x.events) = {} /\ Grown(w.events, x.events)
  <2>1. w.events \in Queues
    BY DEF Worlds
  <2> QED
    BY <1>1, <2>1, QueueFacts DEF Fresh, Grown
<1>3. Heard(w, x)
  BY <1>1, <1>2 DEF Heard, Stays, Adds, Searches, Calms, NoFresh
<1>4. Sizes(w, x)
  BY <1>1 DEF Sizes, Bound
<1> QED
  BY <1>1, <1>3, <1>4 DEF x

\* The lookup found a node: one attempt more, and never more than MaxAttempts.
LEMMA FoundHeard ==
  ASSUME NEW w \in Worlds, NEW s \in Node, w.finder.state = "RANDOM_USER"
  PROVE  LET x == [w EXCEPT !.finder = [w.finder EXCEPT !.state = "ACK?", !.target = s,
                                           !.attempts = @ + 1, !.linked = FALSE]]
         IN Heard(w, x) /\ Sizes(w, x)
<1> DEFINE f == [w.finder EXCEPT !.state = "ACK?", !.target = s,
                                 !.attempts = @ + 1, !.linked = FALSE]
<1>1. w.finder \in FinderValues /\ w.finder.attempts < MaxAttempts
  BY FinderType DEF Finders
<1>2. s \in Someone /\ w.finder.attempts + 1 \in Nat
  BY <1>1 DEF FinderValues, Someone
<1>3. /\ f \in FinderValues /\ f.state = "ACK?" /\ f.target = s
      /\ f.attempts = w.finder.attempts + 1 /\ f.place = w.finder.place
  <2> HIDE DEF Someone
  <2> QED
    BY <1>1, <1>2 DEF FinderValues
<1> HIDE DEF f
<1>4. w.finder.attempts \in Nat /\ MaxAttempts \in Nat
  BY <1>1 DEF FinderValues, Worlds, Numbers, Parameters
<1>5. f.attempts <= MaxAttempts
  BY <1>1, <1>3, <1>4
<1>6. f \in Finders
  BY <1>3, <1>5 DEF Finders
<1> QED
  BY <1>3, <1>6, SearchHeard DEF f

\* doSupplierConnect(): the node is asked for the position that is looked for.
LEMMA AskedHeard ==
  ASSUME NEW w \in Worlds, w.finder.state = "ACK?"
  PROVE  LET x == [w EXCEPT !.conn[w.finder.target] = Connected(Created(@), w.finder.place),
                            !.finder.state = "SERVICE?", !.finder.linked = TRUE]
         IN Heard(w, x) /\ Sizes(w, x)
<1> DEFINE s == w.finder.target
           b == Created(w.conn[s])
           c == Connected(b, w.finder.place)
           f == [w.finder EXCEPT !.state = "SERVICE?", !.linked = TRUE]
           u == [w EXCEPT !.conn[s] = c]
<1>1. w.finder \in FinderValues /\ s \in Node /\ w.finder.attempts <= MaxAttempts
  BY FinderType DEF Finders
<1>2. w.finder.place \in Nat /\ w.conn[s] \in Conns
  BY <1>1, ConnType DEF FinderValues
<1>3. /\ f \in FinderValues /\ f.state = "SERVICE?" /\ f.target = s
      /\ f.attempts = w.finder.attempts /\ f.place = w.finder.place
  BY <1>1 DEF FinderValues
<1>4. [w EXCEPT !.conn[w.finder.target] = Connected(Created(@), w.finder.place),
                !.finder.state = "SERVICE?", !.finder.linked = TRUE]
      = [u EXCEPT !.finder = f]
  BY <1>1 DEF Worlds
<1> HIDE DEF f
<1>5. f \in Finders
  BY <1>1, <1>3 DEF Finders
<1> HIDE DEF s
<1>6. /\ b \in Conns /\ b.watched = w.conn[s].watched /\ b.state # "NONE"
      /\ b.place = w.conn[s].place /\ b.pings = w.conn[s].pings
  BY <1>2, CreatedIs
<1> HIDE DEF b
<1>7. /\ c \in Conns /\ c.watched = b.watched /\ c.state # "NONE"
      /\ c.place = b.place /\ c.pings \subseteq b.pings \cup {w.finder.place}
  BY <1>2, <1>6, ConnectedIs
<1> HIDE DEF c
<1>8. Turns(w, s, c)
  BY <1>1, <1>6, <1>7 DEF Turns, Bound
<1>9. u \in Worlds /\ Heard(w, u) /\ Sizes(w, u) /\ u.finder = w.finder
  BY <1>1, <1>7, <1>8, TurnsHeard, SetOne
<1> HIDE DEF u
<1>10. LET x == [u EXCEPT !.finder = f] IN Heard(u, x) /\ Sizes(u, x)
  BY <1>3, <1>5, <1>9, SearchHeard
<1> QED
  BY <1>4, <1>9, <1>10, Chain

\* The monitor goes on with its own work.
LEMMA WorksHeard ==
  ASSUME NEW w \in Worlds, NEW phase \in {"LIST_BACKUPS", "REBUILDING"}
  PROVE  LET x == [w EXCEPT !.monitor.state = phase] IN Heard(w, x) /\ Sizes(w, x)
<1> DEFINE m == [w.monitor EXCEPT !.state = phase]
<1>1. w.monitor \in Monitors
  BY MonitorType
<1>2. Notes(w, m)
  BY <1>1 DEF Notes, Monitors
<1>3. [w EXCEPT !.monitor.state = phase] = [w EXCEPT !.monitor = m]
  BY DEF Worlds
<1> HIDE DEF m
<1> QED
  BY <1>2, <1>3, WatchHeard

-----------------------------------------------------------------------------
(* The invariant *)

HiringInv == WorldInv(World) /\ resized \in Nat /\ (resized = 0 => SizeInv(World))

\* What a step makes of the variables.
LEMMA NextWorld ==
  ASSUME NEW v \in Worlds, Becomes(v)
  PROVE  World' = v
  BY DEF World, Becomes, Worlds

\* A step of the other machines.
LEMMA HeardStep ==
  ASSUME HiringInv, NEW v, Heard(World, v), Becomes(v),
         \/ UNCHANGED resized /\ Sizes(World, v)
         \/ resized' = resized + 1
  PROVE  HiringInv'
<1>1. v \in Worlds /\ World \in Worlds
  BY DEF Heard, Stays
<1>2. World' = v
  BY <1>1, NextWorld
<1>3. WorldInv(v)
  BY WorldKept DEF HiringInv
<1>4. resized \in Nat /\ resized' \in Nat
  BY DEF HiringInv
<1>5. ASSUME resized' = 0 PROVE SizeInv(v)
  <2>1. UNCHANGED resized /\ Sizes(World, v) /\ SizeInv(World)
    BY <1>4, <1>5 DEF HiringInv
  <2>2. Len(First) \in Nat
    BY <1>1, FirstLen
  <2> QED
    BY <2>1, <2>2, SizeKept
<1> QED
  BY <1>2, <1>3, <1>4, <1>5 DEF HiringInv

\* fire_hire() takes its next event.
LEMMA HandleStep ==
  ASSUME HiringInv, HandleEvent
  PROVE  HiringInv'
<1>1. /\ World.events # <<>> /\ UNCHANGED resized
      /\ Popped(World) = [World EXCEPT !.events = Tail(@)]
      /\ World.events = events
  BY DEF HandleEvent, World, Popped
<1>2. WorldInv(World) /\ World \in Worlds
  BY DEF HiringInv, WorldInv
<1>3. Head(events) = World.events[1]
  BY <1>1, <1>2, PopIs
<1>4. PICK v \in Handle(Popped(World), World.events[1]) : Becomes(v)
  BY <1>1, <1>3 DEF HandleEvent
<1>5. WorldInv(v) /\ (SizeInv(World) => SizeInv(v))
  BY <1>1, <1>2, <1>4, HandleKept
<1>6. World' = v
  BY <1>4, <1>5, NextWorld DEF WorldInv
<1> QED
  BY <1>1, <1>5, <1>6 DEF HiringInv

LEMMA ConnectorStep ==
  ASSUME HiringInv, NEW s \in Node, Connector(s)
  PROVE  HiringInv'
<1>1. World \in Worlds /\ World.conn = conn
  BY DEF HiringInv, WorldInv, World
<1>2. CASE PingAnswered(s)
  <2>1. PICK p \in conn[s].pings :
          Becomes([World EXCEPT !.conn[s] =
                      Send([conn[s] EXCEPT !.pings = @ \ {p}, !.place = p], "service")])
    BY <1>2 DEF PingAnswered
  <2> DEFINE v == [World EXCEPT !.conn[s] =
                      Send([World.conn[s] EXCEPT !.pings = @ \ {p}, !.place = p], "service")]
  <2>2. Heard(World, v) /\ Sizes(World, v)
    BY <1>1, <2>1, PingHeard
  <2>3. Becomes(v)
    BY <1>1, <2>1
  <2> HIDE DEF v
  <2> QED
    BY <1>2, <2>2, <2>3, HeardStep DEF PingAnswered
<1>3. CASE PingFailed(s)
  <2>1. PICK p \in conn[s].pings : Becomes(Failed([World EXCEPT !.conn[s].pings = @ \ {p}], s))
    BY <1>3 DEF PingFailed
  <2> DEFINE u == [World EXCEPT !.conn[s].pings = @ \ {p}]
             v == Failed(u, s)
  <2>2. u \in Worlds /\ Heard(World, u) /\ Sizes(World, u)
    BY <1>1, TakenHeard
  <2>3. Becomes(v)
    BY <2>1
  <2> HIDE DEF u
  <2>4. Heard(u, v) /\ Sizes(u, v)
    BY <2>2, FailedHeard
  <2> HIDE DEF v
  <2>5. Heard(World, v) /\ Sizes(World, v)
    BY <2>2, <2>4, Chain
  <2> QED
    BY <1>3, <2>3, <2>5, HeardStep DEF PingFailed
<1>4. CASE Answered(s)
  <2>1. PICK call \in conn[s].calls \cap Current, accepted \in BOOLEAN :
          Becomes(Acked([World EXCEPT !.conn[s].calls = @ \ {call}], s, accepted))
    BY <1>4 DEF Answered
  <2> DEFINE u == [World EXCEPT !.conn[s].calls = @ \ {call}]
             v == Acked(u, s, accepted)
  <2>2. u \in Worlds /\ Heard(World, u) /\ Sizes(World, u)
    BY <1>1, TakenHeard
  <2>3. Becomes(v)
    BY <2>1
  <2> HIDE DEF u
  <2>4. Heard(u, v) /\ Sizes(u, v)
    BY <2>2, AckedHeard
  <2> HIDE DEF v
  <2>5. Heard(World, v) /\ Sizes(World, v)
    BY <2>2, <2>4, Chain
  <2> QED
    BY <1>4, <2>3, <2>5, HeardStep DEF Answered
<1>5. CASE AnswerFailed(s)
  <2>1. PICK call \in conn[s].calls :
          Becomes(Failed([World EXCEPT !.conn[s].calls = @ \ {call}], s))
    BY <1>5 DEF AnswerFailed
  <2> DEFINE u == [World EXCEPT !.conn[s].calls = @ \ {call}]
             v == Failed(u, s)
  <2>2. u \in Worlds /\ Heard(World, u) /\ Sizes(World, u)
    BY <1>1, TakenHeard
  <2>3. Becomes(v)
    BY <2>1
  <2> HIDE DEF u
  <2>4. Heard(u, v) /\ Sizes(u, v)
    BY <2>2, FailedHeard
  <2> HIDE DEF v
  <2>5. Heard(World, v) /\ Sizes(World, v)
    BY <2>2, <2>4, Chain
  <2> QED
    BY <1>5, <2>3, <2>5, HeardStep DEF AnswerFailed
<1>6. CASE QueueAnswered(s)
  <2> DEFINE v == IF conn[s].leaving THEN Refuse(World, s) ELSE Turn(World, s, "CONNECTED")
  <2>1. Becomes(v)
    BY <1>6 DEF QueueAnswered
  <2>2. /\ Heard(World, Refuse(World, s)) /\ Sizes(World, Refuse(World, s))
        /\ Heard(World, Turn(World, s, "CONNECTED")) /\ Sizes(World, Turn(World, s, "CONNECTED"))
    BY <1>1, RefuseHeard, TurnHeard DEF Answered_
  <2>3. Heard(World, v) /\ Sizes(World, v)
    BY <2>2
  <2> HIDE DEF v
  <2> QED
    BY <1>6, <2>1, <2>3, HeardStep DEF QueueAnswered
<1>7. CASE RequestExpires(s)
  <2> DEFINE v == Turn([World EXCEPT !.conn[s] = Clean(@)], s, "DISCONNECTED")
  <2>1. Becomes(v)
    BY <1>7 DEF RequestExpires
  <2>2. Heard(World, v) /\ Sizes(World, v)
    BY <1>1, CleanTurnHeard DEF Answered_
  <2> HIDE DEF v
  <2> QED
    BY <1>7, <2>1, <2>2, HeardStep DEF RequestExpires
<1>8. CASE RefuseExpires(s)
  <2> DEFINE v == Turn([World EXCEPT !.conn[s] = Clean(@)], s, "NO_SERVICE")
  <2>1. Becomes(v)
    BY <1>8 DEF RefuseExpires
  <2>2. Heard(World, v) /\ Sizes(World, v)
    BY <1>1, CleanTurnHeard DEF Answered_
  <2> HIDE DEF v
  <2> QED
    BY <1>8, <2>1, <2>2, HeardStep DEF RefuseExpires
<1> QED
  BY <1>2, <1>3, <1>4, <1>5, <1>6, <1>7, <1>8 DEF Connector

LEMMA FinderStep ==
  ASSUME HiringInv, Finder
  PROVE  HiringInv'
<1>1. World \in Worlds /\ World.conn = conn /\ World.finder = finder
  BY DEF HiringInv, WorldInv, World
<1>2. CASE UserFound
  <2>1. PICK s \in Node :
          Becomes([World EXCEPT !.finder = [finder EXCEPT !.state = "ACK?", !.target = s,
                                               !.attempts = @ + 1, !.linked = FALSE]])
    BY <1>2 DEF UserFound
  <2> DEFINE v == [World EXCEPT !.finder = [World.finder EXCEPT !.state = "ACK?", !.target = s,
                                               !.attempts = @ + 1, !.linked = FALSE]]
  <2>2. World.finder.state = "RANDOM_USER"
    BY <1>1, <1>2 DEF UserFound
  <2>3. Heard(World, v) /\ Sizes(World, v)
    BY <1>1, <2>2, FoundHeard
  <2>4. Becomes(v)
    BY <1>1, <2>1
  <2> HIDE DEF v
  <2> QED
    BY <1>2, <2>3, <2>4, HeardStep DEF UserFound
<1>3. CASE UserNotFound
  <2> DEFINE e == Event("search-failed")
             v == FinderDone(World, e)
  <2>1. e \in Mails /\ e.name = "search-failed" /\ e.place = 0
    BY EventMails DEF Names
  <2>2. World.finder.state # "NONE"
    BY <1>1, <1>3 DEF UserNotFound
  <2>3. Heard(World, v) /\ Sizes(World, v)
    <3> HIDE DEF e
    <3>1. e.name \in Answering /\ e.name # "supplier-connected" /\ \A n \in Nat : e.place <= n
      BY <2>1 DEF Answering
    <3> QED
      BY <1>1, <2>1, <2>2, <3>1, DoneHeard
  <2>4. Becomes(v)
    BY <1>3 DEF UserNotFound
  <2> HIDE DEF v
  <2> QED
    BY <1>3, <2>3, <2>4, HeardStep DEF UserNotFound
<1>4. CASE UserAnswered
  <2> DEFINE v == [World EXCEPT
                      !.conn[World.finder.target] = Connected(Created(@), World.finder.place),
                      !.finder.state = "SERVICE?", !.finder.linked = TRUE]
  <2>1. World.finder.state = "ACK?"
    BY <1>1, <1>4 DEF UserAnswered
  <2>2. Heard(World, v) /\ Sizes(World, v)
    BY <1>1, <2>1, AskedHeard
  <2>3. Becomes(v)
    BY <1>1, <1>4 DEF UserAnswered
  <2> HIDE DEF v
  <2> QED
    BY <1>4, <2>2, <2>3, HeardStep DEF UserAnswered
<1>5. CASE UserSilent \/ ServiceExpires
  <2> DEFINE v == NextUser(World)
  <2>1. World.finder.state # "NONE"
    BY <1>1, <1>5 DEF UserSilent, ServiceExpires
  <2>2. Heard(World, v) /\ Sizes(World, v)
    BY <1>1, <2>1, NextUserHeard
  <2>3. Becomes(v) /\ UNCHANGED resized
    BY <1>5 DEF UserSilent, ServiceExpires
  <2> HIDE DEF v
  <2> QED
    BY <2>2, <2>3, HeardStep
<1> QED
  BY <1>2, <1>3, <1>4, <1>5 DEF Finder

LEMMA MonitorStep ==
  ASSUME HiringInv, Monitor
  PROVE  HiringInv'
<1>1. World \in Worlds
  BY DEF HiringInv, WorldInv
<1>2. \A v : Heard(World, v) /\ Sizes(World, v) /\ Becomes(v) /\ UNCHANGED resized => HiringInv'
  BY HeardStep
<1>3. /\ UNCHANGED resized
      /\ \/ Becomes(Rest(World))
         \/ Becomes([World EXCEPT !.monitor.state = "LIST_BACKUPS"])
         \/ Becomes([World EXCEPT !.monitor.state = "REBUILDING"])
  BY DEF Monitor, FilesListed, BackupsListed, Rebuilt
<1>4. Heard(World, Rest(World)) /\ Sizes(World, Rest(World))
  BY <1>1, RestHeard
<1>5. ASSUME NEW phase \in {"LIST_BACKUPS", "REBUILDING"}
      PROVE  LET x == [World EXCEPT !.monitor.state = phase] IN
             Heard(World, x) /\ Sizes(World, x)
  BY <1>1, WorksHeard
<1> QED
  BY <1>2, <1>3, <1>4, <1>5

\* The timers, the user and the network.
LEMMA OtherStep ==
  ASSUME HiringInv,
         \/ HireTimer \/ ScheduledRestart \/ Resize \/ Check
         \/ \E s \in Node : Fire(s) \/ StatusChanged(s)
  PROVE  HiringInv'
<1>1. World \in Worlds /\ World.toFire \in SUBSET Node
  BY HireType DEF HiringInv, WorldInv
<1>2. CASE HireTimer
  <2> DEFINE v == Queue(World, Event("timer-15sec"))
  <2>1. Heard(World, v) /\ Sizes(World, v)
    BY <1>1, QueueHeard DEF Silent
  <2>2. Becomes(v) /\ UNCHANGED resized
    BY <1>2 DEF HireTimer
  <2> HIDE DEF v
  <2> QED
    BY <2>1, <2>2, HeardStep
<1>3. CASE ScheduledRestart
  <2> DEFINE u == [World EXCEPT !.scheduled = FALSE]
             v == Queue(u, Event("restart"))
  <2>1. u \in Worlds /\ Heard(World, u) /\ Sizes(World, u)
    BY <1>1, OrdersHeard
  <2>2. Becomes(v) /\ UNCHANGED resized
    BY <1>3 DEF ScheduledRestart
  <2> HIDE DEF u
  <2>3. Heard(u, v) /\ Sizes(u, v)
    BY <2>1, QueueHeard DEF Silent
  <2> HIDE DEF v
  <2>4. Heard(World, v) /\ Sizes(World, v)
    BY <2>1, <2>3, Chain
  <2> QED
    BY <2>2, <2>4, HeardStep
<1>4. CASE Resize
  <2>1. PICK n \in Number : Becomes(Queue([World EXCEPT !.desired = n], Event("restart")))
    BY <1>4 DEF Resize
  <2> DEFINE v == Queue([World EXCEPT !.desired = n], Event("restart"))
  <2>2. Heard(World, v)
    BY <1>1, ResizeHeard
  <2>3. Becomes(v) /\ resized' = resized + 1
    BY <1>4, <2>1 DEF Resize
  <2> HIDE DEF v
  <2> QED
    BY <2>2, <2>3, HeardStep
<1>5. CASE Check
  <2> DEFINE v == MonitorTold(World, "restart")
  <2>1. Heard(World, v) /\ Sizes(World, v)
    BY <1>1, MonitorHeard
  <2>2. Becomes(v) /\ UNCHANGED resized
    BY <1>5 DEF Check
  <2> HIDE DEF v
  <2> QED
    BY <2>1, <2>2, HeardStep
<1>6. ASSUME NEW s \in Node, Fire(s) PROVE HiringInv'
  <2> DEFINE u == [World EXCEPT !.toFire = @ \cup {s}]
             v == Queue(u, Event("restart"))
  <2>1. World.toFire \cup {s} \in SUBSET Node
    BY <1>1
  <2>2. u \in Worlds /\ Heard(World, u) /\ Sizes(World, u)
    BY <1>1, <2>1, OrdersHeard
  <2>3. Becomes(v) /\ UNCHANGED resized
    BY <1>6 DEF Fire
  <2> HIDE DEF u
  <2>4. Heard(u, v) /\ Sizes(u, v)
    BY <2>2, QueueHeard DEF Silent
  <2> HIDE DEF v
  <2>5. Heard(World, v) /\ Sizes(World, v)
    BY <2>2, <2>4, Chain
  <2> QED
    BY <2>3, <2>5, HeardStep
<1>7. ASSUME NEW s \in Node, StatusChanged(s) PROVE HiringInv'
  <2>1. PICK u \in {World, Queue(World, Event("restart"))} : Becomes(Connect(u, s, 0))
    BY <1>7 DEF StatusChanged
  <2>2. /\ Heard(World, World) /\ Sizes(World, World)
        /\ Heard(World, Queue(World, Event("restart")))
        /\ Sizes(World, Queue(World, Event("restart")))
    BY <1>1, HeardSelf, QueueHeard DEF Silent
  <2>3. Heard(World, u) /\ Sizes(World, u) /\ u \in Worlds
    BY <2>2 DEF Heard, Stays
  <2>4. Heard(u, Connect(u, s, 0)) /\ Sizes(u, Connect(u, s, 0))
    BY <2>3, ConnectHeard
  <2>5. Heard(World, Connect(u, s, 0)) /\ Sizes(World, Connect(u, s, 0))
    BY <2>3, <2>4, Chain
  <2>6. UNCHANGED resized
    BY <1>7 DEF StatusChanged
  <2> QED
    BY <2>1, <2>5, <2>6, HeardStep
<1> QED
  BY <1>2, <1>3, <1>4, <1>5, <1>6, <1>7

LEMMA HiringStart ==
  ASSUME HireInit
  PROVE  HiringInv
<1> DEFINE n == Len(First)
<1>1. /\ Parameters /\ First \in Seq(Node) /\ IsInjective(First) /\ n \in Number /\ n \in Nat
      /\ DOMAIN First = 1 .. n /\ \A i \in 1 .. n : First[i] \in Node
  BY HireAssumption DEF Parameters
<1>2. \A i, j \in 1 .. n : First[i] = First[j] => i = j
  BY <1>1 DEF IsInjective
<1>3. PICK phase \in [Range(First) -> {"CONNECTED", "NO_SERVICE"}] :
          conn = [s \in Node |-> IF s \in Range(First)
                                THEN [NoConnector EXCEPT !.state = phase[s]]
                                ELSE NoConnector]
  BY DEF HireInit
<1>4. /\ suppliers = First /\ desired = n /\ events = <<>> /\ finder = NoFinder
      /\ hire = [state |-> "READY", again |-> FALSE, connecting |-> {}, dismissing |-> <<>>,
                 results |-> {}, hiring |-> {}, saved |-> n]
      /\ monitor = [state |-> "READY", again |-> FALSE, known |-> First, erased |-> 0]
      /\ toFire = {} /\ scheduled = FALSE /\ raised = FALSE /\ echoed = FALSE /\ resized = 0
  BY DEF HireInit
<1> HIDE DEF n
<1>5. First \in Rows
  BY <1>1 DEF Rows, Someone
<1>6. n \in Numbers
  BY <1>1 DEF Numbers
<1>7. ASSUME NEW s \in Node
      PROVE  conn[s] \in Conns /\ conn[s].place = 0 /\ conn[s].pings = {}
  <2> DEFINE c == [NoConnector EXCEPT !.state = phase[s]]
  <2>1. CASE s \in Range(First)
    <3>1. conn[s] = c /\ phase[s] \in {"CONNECTED", "NO_SERVICE"}
      BY <1>3, <2>1
    <3>2. c \in Conns /\ c.place = 0 /\ c.pings = {}
      <4> HIDE DEF CallSets
      <4>1. NoConnector \in Conns /\ NoConnector.place = 0 /\ NoConnector.pings = {}
        BY ClosedIs
      <4>2. phase[s] \in ConnectorStates
        BY <3>1 DEF ConnectorStates
      <4> HIDE DEF NoConnector, ConnectorStates
      <4> QED
        BY <4>1, <4>2 DEF Conns
    <3> QED
      BY <3>1, <3>2
  <2>2. CASE s \notin Range(First)
    <3>1. conn[s] = NoConnector
      BY <1>3, <2>2
    <3> QED
      BY <3>1, ClosedIs
  <2> QED
    BY <2>1, <2>2
<1>8. conn \in Connectors
  <2> HIDE DEF Conns
  <2>1. conn = [s \in Node |-> conn[s]]
    BY <1>3
  <2> QED
    BY <1>7, <2>1 DEF Connectors
<1>9. hire \in Hires /\ hire.state = "READY" /\ hire.dismissing = <<>>
  <2>1. <<>> \in Lists
    BY DEF Lists, IsInjective
  <2> QED
    BY <1>1, <1>4, <2>1 DEF Hires, HireStates
<1>10. monitor \in Monitors /\ monitor.known = First /\ monitor.erased = 0
  BY <1>4, <1>5 DEF Monitors
<1>11. finder \in Finders /\ finder.state = "NONE" /\ finder.place = 0
  <2>1. finder \in FinderValues /\ finder.state = "NONE" /\ finder.place = 0
        /\ finder.attempts = 0
    BY <1>4 DEF NoFinder, FinderValues, Someone
  <2>2. finder.attempts <= MaxAttempts
    BY <1>1, <2>1 DEF Parameters
  <2> QED
    BY <2>1, <2>2 DEF Finders
<1>12. events \in Queues /\ Len(events) = 0
  <2> HIDE DEF Mails
  <2> QED
    BY <1>4 DEF Queues
<1>13. World \in Worlds
  BY <1>4, <1>5, <1>6, <1>8, <1>9, <1>10, <1>11, <1>12 DEF World, Worlds
<1>14. /\ World.events = events /\ World.suppliers = First /\ World.hire = hire
       /\ World.finder = finder /\ World.raised = FALSE /\ World.desired = n
       /\ World.monitor = monitor /\ World.conn = conn /\ World.echoed = FALSE
  BY <1>4 DEF World
<1>15. Ease(World)
  BY <1>2, <1>11, <1>12, <1>13, <1>14 DEF Ease, Quiet, AnswerAt, DecisionAt, OnceIn, n
<1>16. Room(World)
  BY <1>7, <1>10, <1>11, <1>12, <1>14, <1>1 DEF Room, Bound, n
<1>17. WorldInv(World) /\ SizeInv(World)
  BY <1>9, <1>14, <1>15, <1>16, RestingInv
<1> QED
  BY <1>4, <1>17 DEF HiringInv

LEMMA HiringNext ==
  ASSUME HiringInv, [HireNext]_hireVars
  PROVE  HiringInv'
<1>1. CASE UNCHANGED hireVars
  BY <1>1 DEF HiringInv, World, hireVars
<1>2. CASE HireNext
  BY <1>2, HandleStep, ConnectorStep, FinderStep, MonitorStep, OtherStep DEF HireNext
<1> QED
  BY <1>1, <1>2

\* The rounds of fire_hire() keep the invariant.
THEOREM Rounds == HireSpec => []HiringInv
  BY HiringStart, HiringNext, PTL DEF HireSpec

\* However the machines call each other, their states and lists have the types the
\* code gives them, and no connector waits for a request and a cancellation at once.
THEOREM HireTypes == HireSpec => []HireTypeOK
<1>1. HiringInv => HireTypeOK
  <2> SUFFICES ASSUME HiringInv PROVE HireTypeOK
    OBVIOUS
  <2>1. /\ hire \in Hires /\ suppliers \in Rows /\ conn \in Connectors
        /\ finder \in Finders /\ toFire \in SUBSET Node
    BY DEF HiringInv, WorldInv, World, Worlds
  <2>2. /\ hire.state \in HireStates /\ hire.again \in BOOLEAN /\ hire.connecting \subseteq Node
        /\ hire.dismissing \in Lists /\ hire.results \subseteq Node /\ hire.saved \in Number
    BY <2>1 DEF Hires
  <2>3. hire.dismissing \in Seq(Node) /\ IsInjective(hire.dismissing)
    BY <2>2 DEF Lists
  <2>4. suppliers \in Seq(Node \cup {Nobody})
    BY <2>1 DEF Rows, Someone
  <2>5. \A s \in Node : /\ conn[s].state \in ConnectorStates
                        /\ conn[s].calls \subseteq Current \cup {"stale"}
                        /\ ~(Current \subseteq conn[s].calls)
    <3>1. \A s \in Node : conn[s] \in Conns
      BY <2>1 DEF Connectors
    <3>2. \A s \in Node : conn[s].state \in ConnectorStates /\ conn[s].calls \in CallSets
      <4> HIDE DEF CallSets
      <4> QED
        BY <3>1 DEF Conns
    <3> QED
      BY <3>2 DEF CallSets
  <2>6. /\ finder.state \in {"NONE", "RANDOM_USER", "ACK?", "SERVICE?"}
        /\ finder.attempts <= MaxAttempts
    BY <2>1 DEF Finders, FinderValues
  <2> HIDE DEF HiringInv
  <2> QED
    BY <2>1, <2>2, <2>3, <2>4, <2>5, <2>6 DEF HireTypeOK, HireStates
<1> QED
  BY <1>1, Rounds, PTL

\* In HIRE_ONE there is one search or one answer of it on the way, and in no other
\* state one of them; and no action of fire_hire() raises, unless a dismissal has
\* heard a callback of an earlier round.
THEOREM RoundsGoOn == HireSpec => []RoundGoesOn
<1>1. HiringInv => RoundGoesOn
  <2> SUFFICES ASSUME HiringInv PROVE RoundGoesOn
    OBVIOUS
  <2>1. /\ World.events = events /\ World.hire = hire /\ World.finder = finder
        /\ World.raised = raised /\ World.echoed = echoed
    BY DEF World
  <2>2. /\ World \in Worlds /\ SearchInv(World) /\ (raised => echoed)
    BY <2>1 DEF HiringInv, WorldInv, EchoInv
  <2>3. DOMAIN events = 1 .. Len(events)
    <3>1. events \in Queues
      BY <2>1, <2>2 DEF Worlds
    <3> QED
      BY <3>1, QueueFacts
  <2>4. \A i : i \in Answers <=> AnswerAt(World, i)
    BY <2>1, <2>3 DEF Answers, AnswerAt, Answering
  <2>5. OneSearch
    BY <2>1, <2>2, <2>4 DEF SearchInv, OneSearch
  <2> QED
    BY <2>2, <2>5 DEF RoundGoesOn
<1> QED
  BY <1>1, Rounds, PTL

\* Whoever is dismissed and hired, in whatever order, no supplier has two places.
THEOREM NobodyTwice == HireSpec => []HiredOnce
<1>1. HiringInv => HiredOnce
  <2> SUFFICES ASSUME HiringInv PROVE HiredOnce
    OBVIOUS
  <2>1. World.suppliers = suppliers /\ World \in Worlds /\ OnceIn(World)
    BY DEF HiringInv, WorldInv, World
  <2>2. DOMAIN suppliers = 1 .. Len(suppliers)
    BY <2>1, RowFacts
  <2> QED
    BY <2>1, <2>2 DEF OnceIn, HiredOnce
<1> QED
  BY <1>1, Rounds, PTL

\* Rounds alone never change the number of suppliers: backup_monitor() erases the
\* backups only if the user has asked for another number.
THEOREM BackupsKept == HireSpec => []ErasedOnResize
<1>1. HiringInv => ErasedOnResize
  <2> SUFFICES ASSUME HiringInv, resized = 0 PROVE monitor.erased = 0
    BY DEF HiringInv, ErasedOnResize
  <2>1. SizeInv(World) /\ World.monitor = monitor
    BY DEF HiringInv, World
  <2> QED
    BY <2>1 DEF SizeInv
<1> QED
  BY <1>1, Rounds, PTL
===============================================================================
