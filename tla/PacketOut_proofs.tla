---------------------------- MODULE PacketOut_proofs ----------------------------
(***************************************************************************)
(* The safety properties of PacketOut, for every set of machines, contacts *)
(* and callers and all their timeouts.                                     *)
(***************************************************************************)
EXTENDS PacketOut, SequenceTheorems, FiniteSetTheorems, TLAPS

USE OutAssumption, KindAssumption, TimeoutAssumption, ContactAssumption, StrayAssumption

-----------------------------------------------------------------------------
(* The inductive invariant.  The checked properties count machines; what   *)
(* makes the counts right is said here without counting, and the counts    *)
(* are derived from it at the end.                                         *)

QueuedOnce == \A i, j \in DOMAIN queue : queue[i] = queue[j] => i = j

\* A machine that has reported its end is not in the queue, any other that was
\* created is.
LivesUntilReported ==
  \A o \in Out : outcomes[o] = IF state[o] = "none" \/ Live(o) THEN 0 ELSE 1

\* Nothing leaves the queue that could still take a transition.
OnlyCreatedLive == \A o \in Out : state[o] = "none" => ~Live(o)
PendingLives    == \A o \in Out : state[o] \in Pending => Live(o)

\* The machines that are reporting their end have ended, each once, and are in
\* the queue: a cancel that comes out of a report finds them CANCEL, SENT or
\* FAILED and does nothing, whichever of them it is for.
EndingOnce == \A i, j \in DOMAIN ending : ending[i] = ending[j] => i = j
EndingEnded ==
  \A i \in DOMAIN ending : Live(ending[i]) /\ state[ending[i]] \in Terminal

QueueInv ==
  /\ QueuedOnce
  /\ LivesUntilReported
  /\ OnlyCreatedLive
  /\ PendingLives
  /\ EndingOnce
  /\ EndingEnded

\* The callbacks of a call are held by one machine, which is in the queue, from the
\* call until it was answered.
HoldersLive == \A o \in Out : callbacks[o] # {} => Live(o)
OneHolder ==
  \A o, x \in Out, k \in Caller : k \in callbacks[o] /\ k \in callbacks[x] => o = x
HeldUntilHeard ==
  \A k \in Caller : (\E o \in Out : k \in callbacks[o]) <=> (k \in calls /\ heard[k] = "no")
UncalledUnheard == \A k \in Caller : k \notin calls => heard[k] = "no"

CallInv == HoldersLive /\ OneHolder /\ HeldUntilHeard /\ UncalledUnheard

\* No transport knows of an item before the machine has one.
RegisteredLater ==
  \A o \in Out : state[o] \in {"none", "CACHING"} => registered[o] = {}

ItemInv == PendingHasItems /\ RegisteredLater

IInv == TypeOK /\ QueueInv /\ CallInv /\ ItemInv

-----------------------------------------------------------------------------
(* Lemmas about the queue. *)

\* Removing p from a queue without duplicates keeps the others, each at its
\* place or one place earlier.
LEMMA WithoutProps ==
  ASSUME NEW S, NEW q \in Seq(S), NEW k \in DOMAIN q,
         \A i, j \in DOMAIN q : q[i] = q[j] => i = j
  PROVE  LET w == Without(q, q[k]) IN
         /\ w \in Seq(S)
         /\ Len(w) = Len(q) - 1
         /\ DOMAIN w = 1 .. Len(q) - 1
         /\ \A i \in DOMAIN w : w[i] = IF i < k THEN q[i] ELSE q[i + 1]
<1>1. Position(q, q[k]) = k
  BY DEF Position
<1>2. Without(q, q[k]) = [i \in 1 .. Len(q) - 1 |-> IF i < k THEN q[i] ELSE q[i + 1]]
  BY <1>1 DEF Without
<1>3. Len(q) - 1 \in Nat
  OBVIOUS
<1>4. \A i \in 1 .. Len(q) - 1 : (IF i < k THEN q[i] ELSE q[i + 1]) \in S
  OBVIOUS
<1> QED
  BY <1>2, <1>3, <1>4

\* The same, as a relation between the two queues.
LEMMA WithoutKeeps ==
  ASSUME NEW S, NEW q \in Seq(S), NEW k \in DOMAIN q,
         \A i, j \in DOMAIN q : q[i] = q[j] => i = j
  PROVE  LET w == Without(q, q[k]) IN
         /\ \A i, j \in DOMAIN w : w[i] = w[j] => i = j
         /\ \A i \in DOMAIN w : /\ w[i] # q[k]
                                /\ \E j \in DOMAIN q : i <= j /\ w[i] = q[j]
         /\ \A j \in DOMAIN q : q[j] # q[k] =>
              \E i \in DOMAIN w : i <= j /\ w[i] = q[j]
<1> DEFINE w == Without(q, q[k])
<1>1. /\ w \in Seq(S) /\ DOMAIN w = 1 .. Len(q) - 1
      /\ \A i \in DOMAIN w : w[i] = IF i < k THEN q[i] ELSE q[i + 1]
  BY WithoutProps
<1> HIDE DEF w
<1>2. DOMAIN q = 1 .. Len(q) /\ Len(q) \in Nat /\ k \in 1 .. Len(q)
  OBVIOUS
<1>3. \A i, j \in DOMAIN w : w[i] = w[j] => i = j
  <2> SUFFICES ASSUME NEW i \in DOMAIN w, NEW j \in DOMAIN w, w[i] = w[j]
               PROVE  i = j
    OBVIOUS
  <2>1. CASE i < k /\ j < k
    BY <1>1, <1>2, <2>1
  <2>2. CASE i < k /\ ~(j < k)
    BY <1>1, <1>2, <2>2
  <2>3. CASE ~(i < k) /\ j < k
    BY <1>1, <1>2, <2>3
  <2>4. CASE ~(i < k) /\ ~(j < k)
    <3>1. i \in Nat /\ j \in Nat /\ i + 1 \in DOMAIN q /\ j + 1 \in DOMAIN q
      BY <1>1, <1>2
    <3>2. q[i + 1] = q[j + 1]
      BY <1>1, <2>4
    <3> QED
      BY <3>1, <3>2
  <2> QED
    BY <2>1, <2>2, <2>3, <2>4
<1>4. ASSUME NEW i \in DOMAIN w
      PROVE  w[i] # q[k] /\ \E j \in DOMAIN q : i <= j /\ w[i] = q[j]
  <2>1. CASE i < k
    BY <1>1, <1>2, <2>1
  <2>2. CASE ~(i < k)
    BY <1>1, <1>2, <2>2
  <2> QED
    BY <2>1, <2>2
<1>5. ASSUME NEW j \in DOMAIN q, q[j] # q[k]
      PROVE  \E i \in DOMAIN w : i <= j /\ w[i] = q[j]
  <2>1. CASE j < k
    BY <1>1, <1>2, <2>1
  <2>2. CASE j > k
    <3>1. j - 1 \in DOMAIN w /\ w[j - 1] = q[j]
      BY <1>1, <1>2, <2>2
    <3> QED
      BY <3>1, <1>2
  <2>3. j # k
    BY <1>5
  <2> QED
    BY <2>1, <2>2, <2>3, <1>2
<1> QED
  BY <1>3, <1>4, <1>5 DEF w

\* A queue without duplicates is not longer than there are machines: that keeps
\* the position of packets_timeout_loop in bounds.
LEMMA QueueFits ==
  ASSUME queue \in Seq(Out), QueuedOnce
  PROVE  Len(queue) \in Nat /\ Len(queue) <= Cardinality(Out) /\ Cardinality(Out) \in Nat
<1>1. Len(queue) \in Nat /\ DOMAIN queue = 1 .. Len(queue) /\ queue \in [1 .. Len(queue) -> Out]
  OBVIOUS
<1>2. queue \in Injection(1 .. Len(queue), Out)
  BY <1>1 DEF Injection, IsInjective, QueuedOnce
<1>3. Cardinality(1 .. Len(queue)) <= Cardinality(Out)
  BY <1>2, FS_Injection
<1>4. Cardinality(1 .. Len(queue)) = Len(queue)
  <2>1. 1 \in Int /\ Len(queue) \in Int
    BY <1>1
  <2>2. Cardinality(1 .. Len(queue)) = IF 1 > Len(queue) THEN 0 ELSE Len(queue) - 1 + 1
    BY <2>1, FS_Interval
  <2> QED
    BY <1>1, <2>2
<1>5. Cardinality(Out) \in Nat
  BY FS_CardinalityType
<1> QED
  BY <1>1, <1>3, <1>4, <1>5

-----------------------------------------------------------------------------
(* The invariant in parts, each with the variables it speaks of.           *)

QueueTyped ==
  /\ state \in [Out -> {"none"} \cup Pending \cup Terminal]
  /\ queue \in Seq(Out) /\ ending \in Seq(Out)
  /\ outcomes \in [Out -> Nat]

ItemTyped ==
  /\ items \in [Out -> SUBSET Contact]
  /\ \A o \in Out \ Wide : Cardinality(items[o]) <= 1
  /\ registered \in [Out -> SUBSET Contact]

CallTyped ==
  /\ calls \subseteq Caller
  /\ callbacks \in [Out -> SUBSET Caller]
  /\ heard \in [Caller -> {"no", "response", "status"}]

TimeTyped ==
  /\ late \subseteq Out
  /\ shared \in Nat /\ armed \in [Out -> Nat]
  /\ walk \in 0 .. Cardinality(Out) + 1

QueuePart == QueueTyped /\ QueueInv
ItemPart  == ItemTyped /\ ItemInv
CallPart  == CallTyped /\ CallInv

LEMMA Parts == IInv => QueuePart /\ ItemPart /\ CallPart /\ TimeTyped
BY DEF IInv, TypeOK, QueuePart, ItemPart, CallPart, QueueTyped, ItemTyped, CallTyped,
       TimeTyped

LEMMA PartsInv ==
  ASSUME QueuePart', ItemPart', CallPart', TimeTyped' PROVE IInv'
BY DEF IInv, TypeOK, QueuePart, ItemPart, CallPart, QueueTyped, ItemTyped, CallTyped,
       TimeTyped

LEMMA QueueStutter ==
  ASSUME QueuePart, UNCHANGED <<state, queue, ending, outcomes>> PROVE QueuePart'
BY DEF QueuePart, QueueTyped, QueueInv, QueuedOnce, LivesUntilReported, OnlyCreatedLive,
       PendingLives, EndingOnce, EndingEnded, Live

LEMMA ItemStutter ==
  ASSUME ItemPart, UNCHANGED <<state, itemVars>> PROVE ItemPart'
BY DEF ItemPart, ItemTyped, ItemInv, PendingHasItems, RegisteredLater, itemVars

LEMMA CallStutter ==
  ASSUME CallPart, UNCHANGED <<queue, callbacks, calls, heard>> PROVE CallPart'
BY DEF CallPart, CallTyped, CallInv, HoldersLive, OneHolder, HeldUntilHeard,
       UncalledUnheard, Live

LEMMA TimeStutter ==
  ASSUME TimeTyped, UNCHANGED <<late, shared, armed, walk>> PROVE TimeTyped'
BY DEF TimeTyped

-----------------------------------------------------------------------------
(* The queue and the ends.                                                 *)

LEMMA StateNames ==
  /\ "none" \notin Pending /\ "none" \notin Terminal
  /\ Pending \cap Terminal = {}
  /\ \A s \in Pending \cup Terminal : s # "none"
BY DEF Pending, Terminal, Sending

\* A machine that has not ended is not among those that report their end.
LEMMA NotEnding ==
  ASSUME QueuePart, NEW o \in Out, state[o] \notin Terminal
  PROVE  \A i \in DOMAIN ending : ending[i] # o
BY DEF QueuePart, QueueInv, EndingEnded

LEMMA EndingAppended ==
  ASSUME NEW e \in Seq(Out), NEW o \in Out
  PROVE  /\ Append(e, o) \in Seq(Out)
         /\ \A i \in DOMAIN Append(e, o) :
              \/ i \in DOMAIN e /\ Append(e, o)[i] = e[i]
              \/ i = Len(e) + 1 /\ Append(e, o)[i] = o
<1>1. /\ Len(e) \in Nat /\ DOMAIN e = 1 .. Len(e)
      /\ DOMAIN Append(e, o) = 1 .. Len(e) + 1
      /\ \A i \in 1 .. Len(e) : Append(e, o)[i] = e[i]
      /\ Append(e, o)[Len(e) + 1] = o
      /\ Append(e, o) \in Seq(Out)
  BY AppendProperties
<1> QED
  BY <1>1

\* A transition of one machine, to a state it goes on from or to its end.
LEMMA MoveInv ==
  ASSUME QueuePart, NEW o \in Out, state[o] \in Pending,
         NEW s \in Pending \cup Terminal,
         state' = [state EXCEPT ![o] = s], UNCHANGED <<queue, outcomes>>,
         ending' = ending \/ (s \in Terminal /\ ending' = Append(ending, o))
  PROVE  QueuePart'
<1>1. QueueTyped /\ QueueInv /\ Live(o)
  BY DEF QueuePart, QueueInv, PendingLives
<1>2. \A x \in Out : state'[x] = IF x = o THEN s ELSE state[x]
  BY <1>1 DEF QueueTyped
<1>3. \A x \in Out : Live(x)' <=> Live(x)
  BY DEF Live
<1>4. state[o] # "none" /\ s # "none" /\ state[o] \notin Terminal
  BY StateNames
<1>5. \A i \in DOMAIN ending : ending[i] # o /\ ending[i] \in Out
  BY <1>1, <1>4, NotEnding DEF QueueTyped
<1>6. /\ ending' \in Seq(Out)
      /\ \A i \in DOMAIN ending' :
           \/ i \in DOMAIN ending /\ ending'[i] = ending[i]
           \/ i = Len(ending) + 1 /\ ending'[i] = o /\ s \in Terminal
  BY <1>1, EndingAppended DEF QueueTyped
<1>7. QueueTyped'
  BY <1>1, <1>6 DEF QueueTyped
<1>8. QueuedOnce'
  BY <1>1 DEF QueueInv, QueuedOnce
<1>9. LivesUntilReported'
  BY <1>1, <1>2, <1>3, <1>4 DEF QueueInv, LivesUntilReported
<1>10. OnlyCreatedLive' /\ PendingLives'
  BY <1>1, <1>2, <1>3, <1>4 DEF QueueInv, OnlyCreatedLive, PendingLives
<1>11. EndingOnce'
  BY <1>1, <1>5, <1>6 DEF QueueInv, EndingOnce
<1>12. EndingEnded'
  <2> SUFFICES ASSUME NEW i \in DOMAIN ending', NEW x \in Out, x = ending'[i]
               PROVE  Live(x)' /\ state'[x] \in Terminal
    <3>1. \A i \in DOMAIN ending' : ending'[i] \in Out
      BY <1>7 DEF QueueTyped
    <3> QED
      BY <3>1 DEF EndingEnded, Live
  <2>1. CASE i \in DOMAIN ending /\ ending'[i] = ending[i]
    BY <1>1, <1>2, <1>3, <1>5, <2>1 DEF QueueInv, EndingEnded
  <2>2. CASE ending'[i] = o /\ s \in Terminal
    BY <1>1, <1>2, <1>3, <2>2
  <2> QED
    BY <1>6, <2>1, <2>2
<1> QED
  BY <1>7, <1>8, <1>9, <1>10, <1>11, <1>12 DEF QueuePart, QueueInv

\* A machine is created and appended to the queue.
LEMMA EnterInv ==
  ASSUME QueuePart, NEW o \in Out, state[o] = "none",
         NEW s \in Pending \cup Terminal,
         state' = [state EXCEPT ![o] = s], queue' = Append(queue, o), UNCHANGED outcomes,
         ending' = ending \/ (s \in Terminal /\ ending' = Append(ending, o))
  PROVE  QueuePart' /\ (\A x \in Out : Live(x)' <=> (x = o \/ Live(x)))
<1>1. QueueTyped /\ QueueInv /\ ~Live(o)
  BY DEF QueuePart, QueueInv, OnlyCreatedLive
<1>2. \A x \in Out : state'[x] = IF x = o THEN s ELSE state[x]
  BY <1>1 DEF QueueTyped
<1>3. /\ queue \in Seq(Out) /\ queue' \in Seq(Out)
      /\ DOMAIN queue = 1 .. Len(queue) /\ DOMAIN queue' = 1 .. Len(queue) + 1
      /\ Len(queue) \in Nat
      /\ \A i \in DOMAIN queue : queue'[i] = queue[i]
      /\ queue'[Len(queue) + 1] = o
  BY <1>1, AppendProperties DEF QueueTyped
<1>4. \A x \in Out : Live(x)' <=> (x = o \/ Live(x))
  <2>1. \A i \in DOMAIN queue : i \in DOMAIN queue'
    BY <1>3
  <2>2. Len(queue) + 1 \in DOMAIN queue'
    BY <1>3
  <2>3. \A i \in DOMAIN queue' : i \in DOMAIN queue \/ i = Len(queue) + 1
    BY <1>3
  <2> QED
    BY <1>3, <2>1, <2>2, <2>3 DEF Live
<1>5. s # "none" /\ state[o] \notin Terminal
  BY StateNames
<1>6. \A i \in DOMAIN ending : ending[i] # o /\ ending[i] \in Out
  BY <1>1, <1>5, NotEnding DEF QueueTyped
<1>7. /\ ending' \in Seq(Out)
      /\ \A i \in DOMAIN ending' :
           \/ i \in DOMAIN ending /\ ending'[i] = ending[i]
           \/ i = Len(ending) + 1 /\ ending'[i] = o /\ s \in Terminal
  BY <1>1, EndingAppended DEF QueueTyped
<1>8. QueueTyped'
  BY <1>1, <1>3, <1>7 DEF QueueTyped
<1>9. QueuedOnce'
  <2> SUFFICES ASSUME NEW i \in DOMAIN queue', NEW j \in DOMAIN queue', queue'[i] = queue'[j]
               PROVE  i = j
    BY DEF QueuedOnce
  <2>1. \A k \in DOMAIN queue : queue[k] # o
    BY <1>1 DEF Live
  <2>2. \A k \in DOMAIN queue' : k \in DOMAIN queue \/ k = Len(queue) + 1
    BY <1>3
  <2> QED
    BY <1>1, <1>3, <2>1, <2>2 DEF QueueInv, QueuedOnce
<1>10. LivesUntilReported'
  BY <1>1, <1>2, <1>4, <1>5 DEF QueueInv, LivesUntilReported
<1>11. OnlyCreatedLive' /\ PendingLives'
  BY <1>1, <1>2, <1>4, <1>5 DEF QueueInv, OnlyCreatedLive, PendingLives
<1>12. EndingOnce'
  BY <1>1, <1>6, <1>7 DEF QueueInv, EndingOnce
<1>13. EndingEnded'
  <2> SUFFICES ASSUME NEW i \in DOMAIN ending', NEW x \in Out, x = ending'[i]
               PROVE  Live(x)' /\ state'[x] \in Terminal
    <3>1. \A i \in DOMAIN ending' : ending'[i] \in Out
      BY <1>8 DEF QueueTyped
    <3> QED
      BY <3>1 DEF EndingEnded, Live
  <2>1. CASE i \in DOMAIN ending /\ ending'[i] = ending[i]
    BY <1>1, <1>2, <1>4, <1>6, <2>1 DEF QueueInv, EndingEnded
  <2>2. CASE ending'[i] = o /\ s \in Terminal
    BY <1>2, <1>4, <2>2
  <2> QED
    BY <1>7, <2>1, <2>2
<1> QED
  BY <1>4, <1>8, <1>9, <1>10, <1>11, <1>12, <1>13 DEF QueuePart, QueueInv

\* The innermost report is over: the machine leaves the queue, the others stay.
LEMMA LeaveInv ==
  ASSUME QueuePart, NEW o \in Out, ending # << >>, o = ending[Len(ending)],
         queue' = Without(queue, o), outcomes' = [outcomes EXCEPT ![o] = @ + 1],
         ending' = SubSeq(ending, 1, Len(ending) - 1), UNCHANGED state
  PROVE  QueuePart' /\ (\A x \in Out : Live(x)' <=> (x # o /\ Live(x)))
<1>1. QueueTyped /\ QueueInv
  BY DEF QueuePart
<1>2. Len(ending) \in Nat \ {0} /\ Len(ending) \in DOMAIN ending
  BY <1>1, EmptySeq DEF QueueTyped
<1>3. Live(o) /\ state[o] \in Terminal /\ state[o] # "none" /\ state[o] \notin Pending
  BY <1>1, <1>2, StateNames DEF QueueInv, EndingEnded
<1>4. PICK k \in DOMAIN queue : queue[k] = o
  BY <1>3 DEF Live
<1>5. queue \in Seq(Out) /\ \A i, j \in DOMAIN queue : queue[i] = queue[j] => i = j
  BY <1>1 DEF QueueTyped, QueueInv, QueuedOnce
<1>6. queue' \in Seq(Out)
  BY <1>4, <1>5, WithoutProps
<1>7. /\ \A i, j \in DOMAIN queue' : queue'[i] = queue'[j] => i = j
      /\ \A i \in DOMAIN queue' : queue'[i] # o /\ \E j \in DOMAIN queue : queue'[i] = queue[j]
      /\ \A j \in DOMAIN queue : queue[j] # o => \E i \in DOMAIN queue' : queue'[i] = queue[j]
  <2> DEFINE w == Without(queue, queue[k])
  <2>1. /\ \A i, j \in DOMAIN w : w[i] = w[j] => i = j
        /\ \A i \in DOMAIN w : /\ w[i] # queue[k]
                               /\ \E j \in DOMAIN queue : i <= j /\ w[i] = queue[j]
        /\ \A j \in DOMAIN queue : queue[j] # queue[k] =>
             \E i \in DOMAIN w : i <= j /\ w[i] = queue[j]
    BY <1>5, WithoutKeeps
  <2>2. queue' = w
    BY <1>4
  <2> HIDE DEF w
  <2> QED
    BY <1>4, <2>1, <2>2
<1>8. \A x \in Out : Live(x)' <=> (x # o /\ Live(x))
  BY <1>7 DEF Live
<1>9. /\ ending' \in Seq(Out)
      /\ \A i \in DOMAIN ending' :
           i \in DOMAIN ending /\ ending'[i] = ending[i] /\ i # Len(ending)
  <2> DEFINE n == Len(ending) - 1
  <2>1. n \in Nat /\ \A i \in 1 .. n : ending[i] \in Out
    BY <1>1, <1>2 DEF QueueTyped
  <2>2. /\ ending' \in Seq(Out) /\ Len(ending') = n
        /\ \A i \in 1 .. n : ending'[i] = ending[i]
    <3>1. ending' = SubSeq(ending, 1, n)
      OBVIOUS
    <3> HIDE DEF n
    <3>2. /\ SubSeq(ending, 1, n) \in Seq(Out)
          /\ Len(SubSeq(ending, 1, n)) = IF 1 <= n THEN n - 1 + 1 ELSE 0
          /\ \A i \in 1 .. n - 1 + 1 : SubSeq(ending, 1, n)[i] = ending[1 + i - 1]
      BY <2>1, SubSeqProperties
    <3> QED
      BY <2>1, <3>1, <3>2
  <2>3. DOMAIN ending' = 1 .. n /\ DOMAIN ending = 1 .. n + 1
    BY <1>1, <1>2, <2>2 DEF QueueTyped
  <2> QED
    BY <2>1, <2>2, <2>3
<1>10. \A x \in Out : outcomes'[x] = IF x = o THEN outcomes[x] + 1 ELSE outcomes[x]
  BY <1>1 DEF QueueTyped
<1>11. QueueTyped'
  <2>1. outcomes' \in [Out -> Nat]
    BY <1>1 DEF QueueTyped
  <2>2. state' = state /\ ending' \in Seq(Out)
    BY <1>9
  <2> QED
    BY <1>1, <1>6, <2>1, <2>2 DEF QueueTyped
<1>12. QueuedOnce'
  BY <1>7 DEF QueuedOnce
<1>13. LivesUntilReported'
  BY <1>1, <1>3, <1>8, <1>10 DEF QueueInv, LivesUntilReported
<1>14. OnlyCreatedLive' /\ PendingLives'
  BY <1>1, <1>3, <1>8 DEF QueueInv, OnlyCreatedLive, PendingLives
<1>15. EndingOnce'
  BY <1>1, <1>9 DEF QueueInv, EndingOnce
<1>16. EndingEnded'
  <2> SUFFICES ASSUME NEW i \in DOMAIN ending', NEW x \in Out, x = ending'[i]
               PROVE  Live(x)' /\ state'[x] \in Terminal
    <3>1. \A i \in DOMAIN ending' : ending'[i] \in Out
      BY <1>9
    <3> QED
      BY <3>1 DEF EndingEnded, Live
  <2>1. x # o
    BY <1>1, <1>2, <1>9 DEF QueueInv, EndingOnce
  <2> QED
    BY <1>1, <1>8, <1>9, <2>1 DEF QueueInv, EndingEnded
<1> QED
  BY <1>8, <1>11, <1>12, <1>13, <1>14, <1>15, <1>16 DEF QueuePart, QueueInv

-----------------------------------------------------------------------------
(* The items.                                                              *)

\* One machine moves to a state s, with the items I, of which R are registered.
ItemsBecome(o, s, I, R) ==
  /\ I \in SUBSET Contact /\ R \in SUBSET I
  /\ state' = [state EXCEPT ![o] = s]
  /\ items' = [items EXCEPT ![o] = I]
  /\ registered' = [registered EXCEPT ![o] = R]
  /\ o \notin Wide => Cardinality(I) <= 1
  /\ s \in {"IN_QUEUE", "SENDING"} => I # {}
  /\ s \in {"none", "CACHING", "IN_QUEUE"} => R = {}

LEMMA ItemsInv ==
  ASSUME ItemPart, state \in [Out -> {"none"} \cup Pending \cup Terminal],
         NEW o \in Out, NEW s, NEW I, NEW R, ItemsBecome(o, s, I, R)
  PROVE  ItemPart'
<1> USE DEF ItemsBecome
<1>1. ItemTyped /\ PendingHasItems /\ RegisteredLater
  BY DEF ItemPart, ItemInv
<1>2. \A x \in Out : /\ state'[x] = IF x = o THEN s ELSE state[x]
                     /\ items'[x] = IF x = o THEN I ELSE items[x]
                     /\ registered'[x] = IF x = o THEN R ELSE registered[x]
  BY <1>1 DEF ItemTyped
<1>3. items' \in [Out -> SUBSET Contact] /\ registered' \in [Out -> SUBSET Contact]
  BY <1>1 DEF ItemTyped
<1>4. \A x \in Out \ Wide : Cardinality(items'[x]) <= 1
  BY <1>1, <1>2 DEF ItemTyped
<1>5. PendingHasItems'
  BY <1>1, <1>2 DEF PendingHasItems
<1>6. RegisteredLater'
  BY <1>1, <1>2 DEF RegisteredLater
<1> QED
  BY <1>3, <1>4, <1>5, <1>6 DEF ItemPart, ItemTyped, ItemInv

\* One machine moves on and its items stay.
LEMMA ItemsStay ==
  ASSUME ItemPart, NEW o \in Out, NEW s,
         state' = [state EXCEPT ![o] = s], state \in [Out -> {"none"} \cup Pending \cup Terminal],
         UNCHANGED itemVars,
         s \in {"RESPONSE?"} \cup Terminal \/ (s = "CACHING" /\ state[o] = "none")
  PROVE  ItemPart'
<1>1. ItemTyped /\ PendingHasItems /\ RegisteredLater
  BY DEF ItemPart, ItemInv
<1>2. \A x \in Out : state'[x] = IF x = o THEN s ELSE state[x]
  OBVIOUS
<1>3. s \notin {"IN_QUEUE", "SENDING"}
  BY DEF Terminal
<1>4. s \notin {"none", "CACHING"} \/ registered[o] = {}
  BY <1>1 DEF Terminal, RegisteredLater
<1>5. PendingHasItems'
  BY <1>1, <1>2, <1>3 DEF PendingHasItems, itemVars
<1>6. RegisteredLater'
  BY <1>1, <1>2, <1>4 DEF RegisteredLater, itemVars
<1> QED
  BY <1>1, <1>5, <1>6 DEF ItemPart, ItemTyped, ItemInv, itemVars

\* Items that are popped: fewer contacts are not more than one.
LEMMA FewerItems ==
  ASSUME ItemTyped, NEW o \in Out, NEW I \in SUBSET items[o], o \notin Wide
  PROVE  Cardinality(I) <= 1
<1>1. items[o] \in SUBSET Contact /\ IsFiniteSet(items[o])
  BY FS_Subset DEF ItemTyped
<1>2. Cardinality(I) <= Cardinality(items[o]) /\ Cardinality(items[o]) <= 1 /\ IsFiniteSet(I)
  BY <1>1, FS_Subset DEF ItemTyped
<1>3. Cardinality(I) \in Nat /\ Cardinality(items[o]) \in Nat
  BY <1>1, <1>2, FS_CardinalityType
<1> QED
  BY <1>2, <1>3

\* An item is popped, and another one is left when there were more.
LEMMA OneOfMore ==
  ASSUME ItemTyped, NEW o \in Out, isMoreItems(o), NEW c
  PROVE  items[o] \ {c} # {}
<1>1. IsFiniteSet(items[o])
  BY FS_Subset DEF ItemTyped
<1>2. Cardinality(items[o]) > 1
  BY DEF isMoreItems
<1>3. Cardinality({}) = 0 /\ Cardinality({c}) = 1 /\ IsFiniteSet({c})
  BY FS_EmptySet, FS_Singleton
<1>4. items[o] \ {c} = {} => items[o] = {} \/ items[o] = {c}
  OBVIOUS
<1> QED
  BY <1>2, <1>3, <1>4

-----------------------------------------------------------------------------
(* The calls.                                                              *)

\* A machine takes the callbacks of a new call.
LEMMA JoinInv ==
  ASSUME CallPart, NEW k \in Caller, NEW o \in Out, k \notin calls, calls' = calls \cup {k},
         callbacks' = [callbacks EXCEPT ![o] = callbacks[o] \cup {k}], UNCHANGED heard,
         Live(o)', \A x \in Out : Live(x) => Live(x)'
  PROVE  CallPart'
<1>1. CallTyped /\ HoldersLive /\ OneHolder /\ HeldUntilHeard /\ UncalledUnheard
  BY DEF CallPart, CallInv
<1>2. \A x \in Out : callbacks'[x] = IF x = o THEN callbacks[o] \cup {k} ELSE callbacks[x]
  BY <1>1 DEF CallTyped
<1>3. \A x \in Out : k \notin callbacks[x]
  BY <1>1 DEF HeldUntilHeard
<1>4. CallTyped'
  BY <1>1 DEF CallTyped
<1>5. HoldersLive'
  BY <1>1, <1>2 DEF HoldersLive
<1>6. OneHolder'
  BY <1>1, <1>2, <1>3 DEF OneHolder
<1>7. HeldUntilHeard'
  <2> SUFFICES ASSUME NEW j \in Caller
               PROVE  (\E x \in Out : j \in callbacks'[x]) <=> (j \in calls' /\ heard'[j] = "no")
    BY DEF HeldUntilHeard
  <2>1. CASE j = k
    BY <1>1, <1>2, <2>1 DEF UncalledUnheard
  <2>2. CASE j # k
    <3>1. (\E x \in Out : j \in callbacks'[x]) <=> (\E x \in Out : j \in callbacks[x])
      BY <1>2, <2>2
    <3> QED
      BY <1>1, <2>2, <3>1 DEF HeldUntilHeard
  <2> QED
    BY <2>1, <2>2
<1>8. UncalledUnheard'
  BY <1>1 DEF UncalledUnheard
<1> QED
  BY <1>4, <1>5, <1>6, <1>7, <1>8 DEF CallPart, CallInv

\* A machine calls the callbacks it holds and forgets them.
LEMMA AnswerInv ==
  ASSUME CallPart, NEW o \in Out, NEW h \in {"response", "status"}, UNCHANGED calls,
         heard' = [k \in Caller |-> IF k \in callbacks[o] THEN h ELSE heard[k]],
         callbacks' = [callbacks EXCEPT ![o] = {}],
         \A x \in Out : x # o /\ Live(x) => Live(x)'
  PROVE  CallPart'
<1>1. CallTyped /\ HoldersLive /\ OneHolder /\ HeldUntilHeard /\ UncalledUnheard
  BY DEF CallPart, CallInv
<1>2. \A x \in Out : callbacks'[x] = IF x = o THEN {} ELSE callbacks[x]
  BY <1>1 DEF CallTyped
<1>3. CallTyped'
  BY <1>1 DEF CallTyped
<1>4. HoldersLive'
  BY <1>1, <1>2 DEF HoldersLive
<1>5. OneHolder'
  BY <1>1, <1>2 DEF OneHolder
<1>6. HeldUntilHeard'
  <2> SUFFICES ASSUME NEW j \in Caller
               PROVE  (\E x \in Out : j \in callbacks'[x]) <=> (j \in calls /\ heard'[j] = "no")
    BY DEF HeldUntilHeard
  <2>1. CASE j \in callbacks[o]
    <3>1. \A x \in Out : j \notin callbacks'[x]
      BY <1>1, <1>2, <2>1 DEF OneHolder
    <3>2. heard'[j] = h
      BY <2>1
    <3> QED
      BY <3>1, <3>2
  <2>2. CASE j \notin callbacks[o]
    <3>1. (\E x \in Out : j \in callbacks'[x]) <=> (\E x \in Out : j \in callbacks[x])
      BY <1>2, <2>2
    <3> QED
      BY <1>1, <2>2, <3>1 DEF HeldUntilHeard
  <2> QED
    BY <2>1, <2>2
<1>7. UncalledUnheard'
  BY <1>1 DEF UncalledUnheard, HeldUntilHeard
<1> QED
  BY <1>3, <1>4, <1>5, <1>6, <1>7 DEF CallPart, CallInv

-----------------------------------------------------------------------------
(* The invariant holds at first and is kept by every action.               *)

LEMMA InitInv == Init => IInv
<1> SUFFICES ASSUME Init PROVE IInv
  OBVIOUS
<1>1. queue = << >> /\ ending = << >> /\ << >> \in Seq(Out) /\ DOMAIN << >> = {}
  BY DEF Init
<1>2. Cardinality(Out) \in Nat /\ Cardinality({}) = 0
  BY FS_CardinalityType, FS_EmptySet
<1>3. TypeOK
  BY <1>1, <1>2 DEF Init, TypeOK
<1>4. QueueInv
  BY <1>1, StateNames
     DEF Init, QueueInv, QueuedOnce, LivesUntilReported, OnlyCreatedLive, PendingLives,
         EndingOnce, EndingEnded, Live
<1>5. CallInv
  BY DEF Init, CallInv, HoldersLive, OneHolder, HeldUntilHeard, UncalledUnheard
<1>6. ItemInv
  BY DEF Init, ItemInv, PendingHasItems, RegisteredLater
<1> QED
  BY <1>3, <1>4, <1>5, <1>6 DEF IInv

\* gateway.outbox finds a machine that carries the packet already.
LEMMA MergeInv ==
  \A k \in Caller, com \in Command : IInv /\ Merge(k, com) => IInv'
<1> SUFFICES ASSUME NEW k \in Caller, NEW com \in Command, IInv, Merge(k, com)
             PROVE  IInv'
  OBVIOUS
<1>1. QueuePart /\ ItemPart /\ CallPart /\ TimeTyped
  BY Parts
<1>2. UNCHANGED <<state, queue, itemVars, late, shared, armed, ending, walk, heard,
                  outcomes>>
  BY DEF Merge
<1>3. k \notin calls /\ calls' = calls \cup {k}
  BY DEF Merge, Call
<1>4. PICK o \in FirstSimilar(com) : callbacks' = [callbacks EXCEPT ![o] = @ \cup {k}]
  BY DEF Merge
<1>5. o \in Out /\ Live(o)
  BY <1>1 DEF FirstSimilar, Similar, Live, QueuePart, QueueTyped
<1>6. CallPart'
  BY <1>1, <1>2, <1>3, <1>4, <1>5, JoinInv DEF Live
<1> QED
  BY <1>1, <1>2, <1>6, QueueStutter, ItemStutter, TimeStutter, PartsInv

\* _push: the machine gets its items, or fails.
LEMMA PushProps ==
  ASSUME QueuePart, ItemPart, NEW o \in Out, state[o] \in {"none", "CACHING"}, Push(o),
         UNCHANGED registered
  PROVE  /\ ItemPart'
         /\ \E s \in Pending \cup Terminal :
              /\ state' = [state EXCEPT ![o] = s]
              /\ ending' = ending \/ (s \in Terminal /\ ending' = Append(ending, o))
<1>1. state \in [Out -> {"none"} \cup Pending \cup Terminal]
  BY DEF QueuePart, QueueTyped
<1>2. ASSUME NEW taken \in (SUBSET Contact) \ {{}}, o \in Wide \/ Cardinality(taken) = 1,
             state' = [state EXCEPT ![o] = "IN_QUEUE"],
             items' = [items EXCEPT ![o] = taken]
      PROVE  ItemPart'
  <2>1. registered[o] = {} /\ registered \in [Out -> SUBSET Contact]
    BY DEF ItemPart, ItemInv, RegisteredLater, ItemTyped
  <2>2. registered' = [registered EXCEPT ![o] = {}]
    BY <2>1
  <2>3. taken \in SUBSET Contact /\ {} \in SUBSET taken /\ taken # {}
    OBVIOUS
  <2>4. o \notin Wide => Cardinality(taken) <= 1
    BY <1>2
  <2>5. ItemsBecome(o, "IN_QUEUE", taken, {})
    BY <1>2, <2>2, <2>3, <2>4 DEF ItemsBecome
  <2> QED
    BY <1>1, <2>5, ItemsInv
<1>3. CASE End(o, "FAILED") /\ UNCHANGED items
  <2>1. ItemPart'
    BY <1>1, <1>3, ItemsStay DEF End, Terminal, itemVars
  <2> QED
    BY <1>3, <2>1 DEF End, Terminal
<1>4. "IN_QUEUE" \in Pending
  BY DEF Pending, Sending
<1> QED
  BY <1>2, <1>3, <1>4 DEF Push

LEMMA CreateInv == \A k \in Caller, o \in Out : IInv /\ Create(k, o) => IInv'
<1> SUFFICES ASSUME NEW k \in Caller, NEW o \in Out, IInv, Create(k, o) PROVE IInv'
  OBVIOUS
<1>1. QueuePart /\ ItemPart /\ CallPart /\ TimeTyped
  BY Parts
<1>2. /\ state[o] = "none" /\ k \notin calls /\ calls' = calls \cup {k}
      /\ queue' = Append(queue, o) /\ callbacks' = [callbacks EXCEPT ![o] = {k}]
      /\ UNCHANGED <<registered, late, armed, walk, heard, outcomes>>
  BY DEF Create, Call
<1>3. ItemPart' /\ \E s \in Pending \cup Terminal :
        /\ state' = [state EXCEPT ![o] = s]
        /\ ending' = ending \/ (s \in Terminal /\ ending' = Append(ending, o))
  <2>1. CASE Push(o)
    BY <1>1, <1>2, <2>1, PushProps
  <2>2. CASE state' = [state EXCEPT ![o] = "CACHING"] /\ UNCHANGED <<items, ending>>
    <3>1. state \in [Out -> {"none"} \cup Pending \cup Terminal]
      BY <1>1 DEF QueuePart, QueueTyped
    <3>2. ItemPart'
      BY <1>1, <1>2, <2>2, <3>1, ItemsStay DEF itemVars
    <3> QED
      BY <2>2, <3>2 DEF Pending, Sending
  <2> QED
    BY <2>1, <2>2 DEF Create
<1>4. QueuePart' /\ (\A x \in Out : Live(x)' <=> (x = o \/ Live(x)))
  BY <1>1, <1>2, <1>3, EnterInv
<1>5. callbacks[o] = {}
  BY <1>1, <1>2 DEF CallPart, CallInv, HoldersLive, QueuePart, QueueInv, OnlyCreatedLive
<1>6. CallPart'
  <2>1. callbacks' = [callbacks EXCEPT ![o] = callbacks[o] \cup {k}]
    BY <1>2, <1>5
  <2> QED
    BY <1>1, <1>2, <1>4, <2>1, JoinInv
<1>7. TimeTyped'
  BY <1>1, <1>2 DEF TimeTyped, Create
<1> QED
  BY <1>3, <1>4, <1>6, <1>7, PartsInv

LEMMA CachingEndsInv == \A o \in Out : IInv /\ CachingEnds(o) => IInv'
<1> SUFFICES ASSUME NEW o \in Out, IInv, CachingEnds(o) PROVE IInv'
  OBVIOUS
<1>1. QueuePart /\ ItemPart /\ CallPart /\ TimeTyped
  BY Parts
<1>2. /\ state[o] = "CACHING" /\ Push(o)
      /\ UNCHANGED <<queue, registered, late, callbacks, shared, armed, walk, heard,
                     calls, outcomes>>
  BY DEF CachingEnds
<1>3. ItemPart' /\ \E s \in Pending \cup Terminal :
        /\ state' = [state EXCEPT ![o] = s]
        /\ ending' = ending \/ (s \in Terminal /\ ending' = Append(ending, o))
  BY <1>1, <1>2, PushProps
<1>4. QueuePart'
  BY <1>1, <1>2, <1>3, MoveInv DEF Pending, Sending
<1> QED
  BY <1>1, <1>2, <1>3, <1>4, CallStutter, TimeStutter, PartsInv

-----------------------------------------------------------------------------
(* What the transports report.                                             *)

LEMMA RegisterItemInv ==
  \A o \in Out, c \in Contact : IInv /\ RegisterItem(o, c) => IInv'
<1> SUFFICES ASSUME NEW o \in Out, NEW c \in Contact, IInv, RegisterItem(o, c)
             PROVE  IInv'
  OBVIOUS
<1>1. QueuePart /\ ItemPart /\ CallPart /\ TimeTyped
  BY Parts
<1>2. /\ c \in items[o] /\ state[o] \in {"IN_QUEUE", "SENDING"}
      /\ state' = [state EXCEPT ![o] = "SENDING"]
      /\ registered' = [registered EXCEPT ![o] = registered[o] \cup {c}]
      /\ UNCHANGED <<queue, items, late, callbacks, shared, armed, ending, walk, heard,
                     calls, outcomes>>
  BY DEF RegisterItem
<1>3. QueuePart'
  <2>1. state[o] \in Pending /\ "SENDING" \in Pending
    BY <1>2 DEF Pending, Sending
  <2> QED
    BY <1>1, <1>2, <2>1, MoveInv
<1>4. ItemPart'
  <2>1. /\ state \in [Out -> {"none"} \cup Pending \cup Terminal]
        /\ items \in [Out -> SUBSET Contact]
        /\ items[o] \in SUBSET Contact /\ registered[o] \cup {c} \in SUBSET items[o]
        /\ items[o] # {} /\ (o \notin Wide => Cardinality(items[o]) <= 1)
    BY <1>1, <1>2 DEF QueuePart, QueueTyped, ItemPart, ItemTyped, ItemInv, PendingHasItems
  <2>2. items' = [items EXCEPT ![o] = items[o]]
    BY <1>2, <2>1
  <2>3. ItemsBecome(o, "SENDING", items[o], registered[o] \cup {c})
    BY <1>2, <2>1, <2>2 DEF ItemsBecome
  <2> QED
    BY <1>1, <2>1, <2>3, ItemsInv
<1> QED
  BY <1>1, <1>2, <1>3, <1>4, CallStutter, TimeStutter, PartsInv

\* ItemFinished, ItemFailed, ItemCancelled and LateItem: an item is popped, and the
\* machine stays, waits for its response or ends.
LEMMA PopInv ==
  ASSUME IInv, NEW o \in Out, NEW c \in Contact, PopItem(o, c), state[o] \in Pending,
         NEW s \in {state[o], "RESPONSE?"} \cup Terminal,
         state' = [state EXCEPT ![o] = s],
         ending' = ending \/ (s \in Terminal /\ ending' = Append(ending, o)),
         s \in {"IN_QUEUE", "SENDING"} => items[o] \ {c} # {},
         state[o] # "CACHING",
         UNCHANGED <<queue, late, callbacks, shared, walk, heard, calls, outcomes>>,
         armed' \in [Out -> Nat]
  PROVE  IInv'
<1>1. QueuePart /\ ItemPart /\ CallPart /\ TimeTyped
  BY Parts
<1>2. QueuePart'
  <2>1. s \in Pending \cup Terminal
    BY DEF Pending
  <2> QED
    BY <1>1, <2>1, MoveInv
<1>3. ItemPart'
  <2>1. /\ state \in [Out -> {"none"} \cup Pending \cup Terminal]
        /\ items[o] \in SUBSET Contact /\ registered[o] \subseteq items[o]
        /\ (state[o] = "IN_QUEUE" => registered[o] = {})
    BY <1>1 DEF QueuePart, QueueTyped, ItemPart, ItemTyped, ItemInv, PendingHasItems
  <2>2. /\ items[o] \ {c} \in SUBSET Contact
        /\ registered[o] \ {c} \in SUBSET (items[o] \ {c})
    BY <2>1
  <2>3. o \notin Wide => Cardinality(items[o] \ {c}) <= 1
    BY <1>1, FewerItems DEF ItemPart
  <2>4. s \in {"none", "CACHING", "IN_QUEUE"} => registered[o] \ {c} = {}
    BY <2>1, StateNames DEF Terminal
  <2>5. /\ items' = [items EXCEPT ![o] = items[o] \ {c}]
        /\ registered' = [registered EXCEPT ![o] = registered[o] \ {c}]
    BY DEF PopItem
  <2>6. ItemsBecome(o, s, items[o] \ {c}, registered[o] \ {c})
    BY <2>1, <2>2, <2>3, <2>4, <2>5 DEF ItemsBecome
  <2> QED
    BY <1>1, <2>1, <2>6, ItemsInv
<1>4. CallPart'
  BY <1>1, CallStutter
<1>5. TimeTyped'
  BY <1>1 DEF TimeTyped
<1> QED
  BY <1>2, <1>3, <1>4, <1>5, PartsInv

LEMMA ItemEndsInv ==
  \A o \in Out, c \in Contact :
    IInv /\ (ItemFinished(o, c) \/ ItemFailed(o, c) \/ ItemCancelled(o, c)
               \/ LateItem(o, c)) => IInv'
<1> SUFFICES ASSUME NEW o \in Out, NEW c \in Contact, IInv,
                    ItemFinished(o, c) \/ ItemFailed(o, c) \/ ItemCancelled(o, c)
                      \/ LateItem(o, c)
             PROVE  IInv'
  OBVIOUS
<1>1. /\ state \in [Out -> {"none"} \cup Pending \cup Terminal] /\ ItemTyped
      /\ armed \in [Out -> Nat] /\ shared \in Nat
  BY Parts DEF QueuePart, QueueTyped, ItemPart, TimeTyped
<1>2. state[o] \in {"IN_QUEUE", "SENDING", "RESPONSE?"}
  BY DEF ItemFinished, ItemFailed, ItemCancelled, LateItem
<1>3. /\ state[o] \in Pending /\ state[o] # "CACHING" /\ PopItem(o, c)
      /\ UNCHANGED <<queue, late, callbacks, shared, walk, heard, calls, outcomes>>
  BY <1>2 DEF ItemFinished, ItemFailed, ItemCancelled, LateItem, Pending, Sending
<1>4. ASSUME NEW s \in Terminal, End(o, s), armed' = armed PROVE IInv'
  <2>1. s \notin {"IN_QUEUE", "SENDING"} /\ armed' \in [Out -> Nat]
        /\ s \in {state[o], "RESPONSE?"} \cup Terminal
    BY <1>1, <1>4 DEF Terminal
  <2> QED
    BY <1>3, <1>4, <2>1, PopInv DEF End
<1>5. CASE ItemFinished(o, c)
  <2>1. CASE isAckNeeded(o)
    <3>1. /\ state' = [state EXCEPT ![o] = "RESPONSE?"] /\ ending' = ending
          /\ armed' \in [Out -> Nat]
      BY <1>1, <1>5, <2>1 DEF ItemFinished
    <3> QED
      BY <1>3, <3>1, PopInv
  <2>2. CASE ~isAckNeeded(o)
    BY <1>4, <1>5, <2>2 DEF ItemFinished, Terminal
  <2> QED
    BY <2>1, <2>2
<1>6. CASE ItemFailed(o, c)
  BY <1>4, <1>6 DEF ItemFailed, Terminal
<1>7. ASSUME UNCHANGED <<state, ending, armed>>,
             state[o] \in {"IN_QUEUE", "SENDING"} => items[o] \ {c} # {}
      PROVE  IInv'
  <2>1. /\ state' = [state EXCEPT ![o] = state[o]] /\ ending' = ending
        /\ armed' \in [Out -> Nat]
    BY <1>1, <1>7
  <2> QED
    BY <1>3, <1>7, <2>1, PopInv
<1>8. CASE ItemCancelled(o, c)
  <2>1. CASE isMoreItems(o)
    BY <1>1, <1>7, <1>8, <2>1, OneOfMore DEF ItemCancelled
  <2>2. CASE ~isMoreItems(o)
    BY <1>4, <1>8, <2>2 DEF ItemCancelled, Terminal
  <2> QED
    BY <2>1, <2>2
<1>9. CASE LateItem(o, c)
  BY <1>7, <1>9 DEF LateItem
<1> QED
  BY <1>5, <1>6, <1>8, <1>9

LEMMA StrayItemCancelledInv ==
  \A o \in Out : IInv /\ StrayItemCancelled(o) => IInv'
<1> SUFFICES ASSUME NEW o \in Out, IInv, StrayItemCancelled(o) PROVE IInv'
  OBVIOUS
<1>1. QueuePart /\ ItemPart /\ CallPart /\ TimeTyped
  BY Parts
<1>2. /\ state[o] \in {"IN_QUEUE", "SENDING"} /\ state' = [state EXCEPT ![o] = "FAILED"]
      /\ UNCHANGED <<queue, itemVars, late, callbacks, shared, armed, ending, walk, heard,
                     calls, outcomes>>
  BY DEF StrayItemCancelled
<1>3. state[o] \in Pending /\ "FAILED" \in Terminal
  BY <1>2 DEF Pending, Sending, Terminal
<1>4. QueuePart'
  BY <1>1, <1>2, <1>3, MoveInv
<1>5. ItemPart'
  BY <1>1, <1>2, <1>3, ItemsStay DEF QueuePart, QueueTyped
<1> QED
  BY <1>1, <1>2, <1>4, <1>5, CallStutter, TimeStutter, PartsInv

-----------------------------------------------------------------------------
(* The end of a machine and its report.                                    *)

\* A machine ends and keeps its items: its part of the queue and of the items.
LEMMA EndInv ==
  ASSUME QueuePart, ItemPart, NEW o \in Out, NEW s \in Terminal, state[o] \in Pending,
         End(o, s), UNCHANGED <<queue, itemVars, outcomes>>
  PROVE  QueuePart' /\ ItemPart'
<1>1. state' = [state EXCEPT ![o] = s] /\ ending' = Append(ending, o)
  BY DEF End
<1>2. QueuePart'
  BY <1>1, MoveInv
<1>3. state \in [Out -> {"none"} \cup Pending \cup Terminal]
  BY DEF QueuePart, QueueTyped
<1>4. ItemPart'
  BY <1>1, <1>3, ItemsStay
<1> QED
  BY <1>2, <1>4

LEMMA InboxPacketInv == \A o \in Out : IInv /\ InboxPacket(o) => IInv'
<1> SUFFICES ASSUME NEW o \in Out, IInv, InboxPacket(o) PROVE IInv'
  OBVIOUS
<1>1. QueuePart /\ ItemPart /\ CallPart /\ TimeTyped
  BY Parts
<1>2. /\ state[o] = "RESPONSE?" /\ End(o, "SENT")
      /\ heard' = [k \in Caller |-> IF k \in callbacks[o] THEN "response" ELSE heard[k]]
      /\ callbacks' = [callbacks EXCEPT ![o] = {}]
      /\ UNCHANGED <<queue, itemVars, late, shared, armed, walk, calls, outcomes>>
  BY DEF InboxPacket
<1>3. state[o] \in Pending /\ "SENT" \in Terminal
  BY <1>2 DEF Pending, Terminal
<1>4. QueuePart' /\ ItemPart'
  BY <1>1, <1>2, <1>3, EndInv
<1>5. CallPart'
  <2>1. \A x \in Out : Live(x) => Live(x)'
    BY <1>2 DEF Live
  <2> QED
    BY <1>1, <1>2, <2>1, AnswerInv
<1> QED
  BY <1>1, <1>2, <1>4, <1>5, TimeStutter, PartsInv

\* ResponseTimeout and RequestFailed.
LEMMA NoAnswerInv == \A o \in Out : IInv /\ NoAnswer(o) => IInv'
<1> SUFFICES ASSUME NEW o \in Out, IInv, NoAnswer(o) PROVE IInv'
  OBVIOUS
<1>1. QueuePart /\ ItemPart /\ CallPart /\ TimeTyped
  BY Parts
<1>2. /\ state[o] = "RESPONSE?" /\ \E s \in Terminal : End(o, s)
      /\ UNCHANGED <<queue, itemVars, late, callbacks, shared, armed, walk, heard, calls,
                     outcomes>>
  BY DEF NoAnswer, Terminal
<1>3. state[o] \in Pending
  BY <1>2 DEF Pending
<1>4. QueuePart' /\ ItemPart'
  BY <1>1, <1>2, <1>3, EndInv
<1> QED
  BY <1>1, <1>2, <1>4, CallStutter, TimeStutter, PartsInv

\* Cancel, and the cancels of packets_timeout_loop.
LEMMA DoCancelInv ==
  ASSUME IInv, NEW o \in Out, DoCancel(o), walk' \in 0 .. Cardinality(Out) + 1
  PROVE  IInv'
<1>1. QueuePart /\ ItemPart /\ CallPart /\ TimeTyped
  BY Parts
<1>2. /\ state[o] \in Pending /\ End(o, "CANCEL") /\ "CANCEL" \in Terminal
      /\ UNCHANGED <<queue, late, callbacks, shared, armed, heard, calls, outcomes>>
  BY DEF DoCancel, Cancellable, Terminal
<1>3. QueuePart'
  BY <1>1, <1>2, MoveInv DEF End
<1>4. ItemPart'
  <2>1. CASE state[o] \in {"IN_QUEUE", "SENDING"}
    <3>1. /\ items' = [items EXCEPT ![o] = {}] /\ registered' = [registered EXCEPT ![o] = {}]
          /\ state' = [state EXCEPT ![o] = "CANCEL"]
      BY <1>2, <2>1 DEF DoCancel, End
    <3>2. Cardinality({}) <= 1
      BY FS_EmptySet
    <3>3. ItemsBecome(o, "CANCEL", {}, {})
      BY <3>1, <3>2 DEF ItemsBecome
    <3> QED
      BY <1>1, <3>3, ItemsInv DEF QueuePart, QueueTyped
  <2>2. CASE state[o] \notin {"IN_QUEUE", "SENDING"}
    <3>1. UNCHANGED itemVars
      BY <2>2 DEF DoCancel
    <3> QED
      BY <1>1, <1>2, <3>1, EndInv
  <2> QED
    BY <2>1, <2>2
<1>5. CallPart'
  BY <1>1, <1>2, CallStutter
<1>6. TimeTyped'
  BY <1>1, <1>2 DEF TimeTyped
<1> QED
  BY <1>3, <1>4, <1>5, <1>6, PartsInv

LEMMA CancelInv == \A o \in Out : IInv /\ Cancel(o) => IInv'
<1> SUFFICES ASSUME NEW o \in Out, IInv, Cancel(o) PROVE IInv'
  OBVIOUS
<1>1. DoCancel(o) /\ walk' = walk /\ walk \in 0 .. Cardinality(Out) + 1
  BY Parts DEF Cancel, TimeTyped
<1> QED
  BY <1>1, DoCancelInv

LEMMA DestroyInv == IInv /\ Destroy => IInv'
<1> SUFFICES ASSUME IInv, Destroy PROVE IInv'
  OBVIOUS
<1>1. QueuePart /\ ItemPart /\ CallPart /\ TimeTyped
  BY Parts
<1>2. ending \in Seq(Out) /\ ending # << >>
  BY <1>1 DEF Destroy, QueuePart, QueueTyped
<1>3. ending[Len(ending)] \in Out
  BY <1>2, EmptySeq
<1>4. PICK o \in Out : o = ending[Len(ending)]
  BY <1>3
<1>5. /\ queue' = Without(queue, o)
      /\ heard' = [k \in Caller |-> IF k \in callbacks[o] THEN "status" ELSE heard[k]]
      /\ callbacks' = [callbacks EXCEPT ![o] = {}]
      /\ outcomes' = [outcomes EXCEPT ![o] = @ + 1]
      /\ ending' = SubSeq(ending, 1, Len(ending) - 1)
      /\ UNCHANGED <<state, itemVars, late, shared, armed, walk, calls>>
  BY <1>4 DEF Destroy
<1>6. QueuePart' /\ (\A x \in Out : Live(x)' <=> (x # o /\ Live(x)))
  BY <1>1, <1>2, <1>4, <1>5, LeaveInv
<1>7. CallPart'
  BY <1>1, <1>5, <1>6, AnswerInv
<1> QED
  BY <1>1, <1>5, <1>6, <1>7, ItemStutter, TimeStutter, PartsInv

-----------------------------------------------------------------------------
(* gateway.packets_timeout_loop.                                           *)

\* Only the loop or the clock moves.
LEMMA TickInv ==
  ASSUME IInv, UNCHANGED <<state, queue, itemVars, callbacks, shared, armed, ending, heard,
                           calls, outcomes>>,
         late' \subseteq Out, walk' \in 0 .. Cardinality(Out) + 1
  PROVE  IInv'
<1>1. QueuePart /\ ItemPart /\ CallPart /\ TimeTyped
  BY Parts
<1>2. TimeTyped'
  BY <1>1 DEF TimeTyped
<1> QED
  BY <1>1, <1>2, QueueStutter, ItemStutter, CallStutter, PartsInv

LEMMA TimePassesInv == \A o \in Out : IInv /\ TimePasses(o) => IInv'
<1> SUFFICES ASSUME NEW o \in Out, IInv, TimePasses(o) PROVE IInv'
  OBVIOUS
<1>1. late' \subseteq Out /\ walk' \in 0 .. Cardinality(Out) + 1
  BY Parts DEF TimePasses, TimeTyped
<1> QED
  BY <1>1, TickInv DEF TimePasses

LEMMA StartWalkInv == IInv /\ StartWalk => IInv'
<1> SUFFICES ASSUME IInv, StartWalk PROVE IInv'
  OBVIOUS
<1>1. 1 \in 0 .. Cardinality(Out) + 1
  BY FS_CardinalityType
<1>2. late' \subseteq Out /\ walk' \in 0 .. Cardinality(Out) + 1
  BY <1>1, Parts DEF StartWalk, TimeTyped
<1> QED
  BY <1>2, TickInv DEF StartWalk

\* The position stays in bounds because the queue does, even as the cancels of the
\* loop shorten it.
LEMMA WalkNextInv == IInv /\ WalkNext => IInv'
<1> SUFFICES ASSUME IInv, WalkNext PROVE IInv'
  OBVIOUS
<1>1. /\ queue \in Seq(Out) /\ QueuedOnce /\ late \subseteq Out
      /\ walk \in 0 .. Cardinality(Out) + 1 /\ walk > 0
  BY Parts DEF WalkNext, QueuePart, QueueTyped, QueueInv, TimeTyped
<1>2. Len(queue) \in Nat /\ Len(queue) <= Cardinality(Out) /\ Cardinality(Out) \in Nat
  BY <1>1, QueueFits
<1>3. CASE walk > Len(queue)
  <2>1. walk' = 0 /\ late' = late
    BY <1>3 DEF WalkNext
  <2>2. late' \subseteq Out /\ walk' \in 0 .. Cardinality(Out) + 1
    BY <1>1, <1>2, <2>1
  <2> QED
    BY <1>3, <2>2, TickInv DEF WalkNext
<1>4. CASE ~(walk > Len(queue))
  <2>1. walk' = walk + 1
    BY <1>4 DEF WalkNext
  <2>2. walk' \in 0 .. Cardinality(Out) + 1
    BY <1>1, <1>2, <1>4, <2>1
  <2>3. queue[walk] \in Out
    BY <1>1, <1>2, <1>4
  <2>4. CASE DoCancel(queue[walk])
    BY <2>2, <2>3, <2>4, DoCancelInv
  <2>5. CASE UNCHANGED <<state, queue, itemVars, late, callbacks, shared, armed, ending,
                         heard, calls, outcomes>>
    <3>1. late' \subseteq Out
      BY <1>1, <2>5
    <3> QED
      BY <2>2, <2>5, <3>1, TickInv
  <2> QED
    BY <1>4, <2>4, <2>5 DEF WalkNext
<1> QED
  BY <1>3, <1>4

-----------------------------------------------------------------------------
LEMMA NextInv == IInv /\ [Next]_vars => IInv'
<1> SUFFICES ASSUME IInv, [Next]_vars PROVE IInv'
  OBVIOUS
<1>1. ASSUME NEW k \in Caller, NEW com \in Command, Merge(k, com) PROVE IInv'
  BY <1>1, MergeInv
<1>2. ASSUME NEW k \in Caller, NEW o \in Out, Create(k, o) PROVE IInv'
  BY <1>2, CreateInv
<1>3. ASSUME NEW o \in Out, NEW c \in Contact,
             RegisterItem(o, c) \/ ItemFinished(o, c) \/ ItemFailed(o, c)
               \/ ItemCancelled(o, c) \/ LateItem(o, c)
      PROVE  IInv'
  BY <1>3, RegisterItemInv, ItemEndsInv
<1>4. ASSUME NEW o \in Out,
             CachingEnds(o) \/ StrayItemCancelled(o) \/ InboxPacket(o)
               \/ ResponseTimeout(o) \/ RequestFailed(o) \/ Cancel(o) \/ TimePasses(o)
      PROVE  IInv'
  <2>1. CASE ResponseTimeout(o) \/ RequestFailed(o)
    BY <2>1, NoAnswerInv DEF ResponseTimeout, RequestFailed
  <2> QED
    BY <1>4, <2>1, CachingEndsInv, StrayItemCancelledInv, InboxPacketInv, CancelInv,
       TimePassesInv
<1>5. CASE Destroy \/ StartWalk \/ WalkNext
  BY <1>5, DestroyInv, StartWalkInv, WalkNextInv
<1>6. CASE UNCHANGED vars
  BY <1>6, Parts, QueueStutter, ItemStutter, CallStutter, TimeStutter, PartsInv DEF vars
<1> QED
  BY <1>1, <1>2, <1>3, <1>4, <1>5, <1>6 DEF Next

\* The invariant holds in every state the outbox reaches.
THEOREM Invariance == Spec => []IInv
<1> QED
  BY InitInv, NextInv, PTL DEF Spec

\* Every variable keeps its type, and the position of the timeout loop its bound:
\* however the queue shrinks while the loop walks it, the loop reaches its end.
THEOREM TypeCorrect == Spec => []TypeOK
<1>1. IInv => TypeOK
  BY DEF IInv
<1> QED
  BY <1>1, Invariance, PTL

-----------------------------------------------------------------------------
(* The counts of the checked property follow.                              *)

LEMMA OneOutcomeHolds == IInv => OneOutcome
<1> SUFFICES ASSUME IInv, NEW o \in Out
             PROVE  Cardinality({i \in DOMAIN queue : queue[i] = o}) + outcomes[o] =
                      IF state[o] = "none" THEN 0 ELSE 1
  BY DEF OneOutcome
<1> DEFINE P == {i \in DOMAIN queue : queue[i] = o}
<1>1. /\ QueuedOnce /\ (state[o] = "none" => ~Live(o))
      /\ outcomes[o] = IF state[o] = "none" \/ Live(o) THEN 0 ELSE 1
  BY Parts DEF QueuePart, QueueInv, LivesUntilReported, OnlyCreatedLive
<1>2. CASE Live(o)
  <2>1. PICK i \in DOMAIN queue : queue[i] = o
    BY <1>2 DEF Live
  <2>2. P = {i}
    BY <1>1, <2>1 DEF QueuedOnce
  <2>3. Cardinality(P) = 1
    BY <2>2, FS_Singleton
  <2> QED
    BY <1>1, <1>2, <2>3
<1>3. CASE ~Live(o)
  <2>1. P = {}
    BY <1>3 DEF Live
  <2>2. Cardinality(P) = 0
    BY <2>1, FS_EmptySet
  <2> QED
    BY <1>1, <1>3, <2>2
<1> QED
  BY <1>2, <1>3

LEMMA CallersKeptHolds == IInv => CallersKept
<1> SUFFICES ASSUME IInv, NEW k \in calls
             PROVE  Cardinality({o \in Out : k \in callbacks[o] /\ Live(o)}) =
                      IF heard[k] = "no" THEN 1 ELSE 0
  BY DEF CallersKept
<1> DEFINE H == {o \in Out : k \in callbacks[o] /\ Live(o)}
<1>1. k \in Caller /\ HoldersLive /\ OneHolder /\ HeldUntilHeard
  BY Parts DEF CallPart, CallTyped, CallInv
<1>2. CASE heard[k] = "no"
  <2>1. PICK o \in Out : k \in callbacks[o]
    BY <1>1, <1>2 DEF HeldUntilHeard
  <2>2. H = {o}
    BY <1>1, <2>1 DEF HoldersLive, OneHolder
  <2> QED
    BY <1>2, <2>2, FS_Singleton
<1>3. CASE heard[k] # "no"
  <2>1. H = {}
    BY <1>1, <1>3 DEF HeldUntilHeard
  <2> QED
    BY <1>3, <2>1, FS_EmptySet
<1> QED
  BY <1>2, <1>3

\* The end of every call of gateway.outbox is reported once, by the one machine that
\* holds its callbacks, in whatever order reports cancel other machines, packets are
\* merged and the timeout loop passes.
THEOREM OutcomesAreReported == Spec => []OutcomesReported
<1>1. IInv => OutcomesReported
  BY OneOutcomeHolds, CallersKeptHolds DEF OutcomesReported, IInv, ItemInv
<1> QED
  BY <1>1, Invariance, PTL

=============================================================================
