-------------------------- MODULE MessagePeddler_proofs --------------------------
(***************************************************************************)
(* The safety properties of MessagePeddler, for every set of queues,       *)
(* groups, consumers and producers, every limit of a queue and every       *)
(* number of messages and changes.                                         *)
(***************************************************************************)
EXTENDS MessagePeddler, WellFoundedInduction, FiniteSetTheorems, SequenceTheorems, TLAPS

USE QueueAssumption, CountAssumption, LimitAssumption, GroupAssumption, NewIdAssumption,
    ReachAssumption

-----------------------------------------------------------------------------
(* The inductive invariant, in two parts.  The first is about the messages *)
(* and what became of their notifications, whoever is subscribed.          *)

MessageTyped ==
    /\ DOMAIN queues \subseteq Queue
    /\ \A q \in DOMAIN queues :
          queues[q] \subseteq 1 .. written /\ Cardinality(queues[q]) <= MAX_QUEUE_LENGTH
    /\ consumers \in [Message -> SUBSET Consumer]
    /\ notes \in [Message -> [Consumer -> Note]]
    /\ chain \in [Message -> [Consumer -> Seq(Queue)]]
    /\ messages \in [Queue -> SUBSET Message]
    /\ archive \in [Queue -> SUBSET Message]
    /\ written \in 0 .. MaxMessages

\* What one clean-up takes out of a queue is in no other.
MessageOnce ==
    \A x, y \in DOMAIN queues : \A m \in queues[x] : m \in queues[y] => x = y

\* So that a message with an answer missing never counts as finished, although the
\* answers are compared in number with the consumers it was for.
ToldWasMeant ==
    \A m \in Message, c \in Consumer : notes[m][c] # "none" => c \in consumers[m]

UnwrittenUntold ==
    \A m \in Message, c \in Consumer : m > written => notes[m][c] = "none"

\* An answer has a queue to report to.
PendingHasChain ==
    \A m \in Message, c \in Consumer : notes[m][c] = "pending" => chain[m][c] # <<>>

\* What is archived under any id is not queued under another one, and was written.
ArchivedIsGone ==
    \A x \in Queue : \A m \in archive[x] :
        m <= written /\ \A y \in DOMAIN queues : m \notin queues[y]

MessageInv ==
    /\ MessageOnce
    /\ ToldWasMeant
    /\ UnwrittenUntold
    /\ PendingHasChain
    /\ ArchivedIsGone
    /\ PendingIsQueued
    /\ NothingFinishedStays
    /\ NoneOvertaken
    /\ FiledOnce

(* The second is about the members, and which queues are open for them.    *)

MemberTyped ==
    /\ subs \in [Consumer -> SUBSET Queue]
    /\ pass \subseteq commands /\ commands \subseteq {c \in Consumer : Exists(subs, c)}
    /\ ready \in {"yes", "stopping"}
    /\ readers \in [Queue -> SUBSET Consumer]
    /\ writers \in [Queue -> SUBSET Producer]

\* No pass of do_consume is cut in two by the end of the streams.
StoppedIsIdle == ready = "stopping" => pass = {}

MemberInv == OneQueuePerGroup /\ SubscribedIsMember /\ StoppedIsIdle

MessagePart == MessageTyped /\ MessageInv
MemberPart  == MemberTyped /\ MemberInv

IInv == MessagePart /\ MemberPart

-----------------------------------------------------------------------------
(* Lemmas about the operators of P2PQueue and MessagePeddler.              *)

LEMMA MessageType == Message \subseteq Nat /\ \A w \in 0 .. MaxMessages : 1 .. w \subseteq Message
BY DEF Message

\* The first of some messages is one of them, and not later than any other.
LEMMA FirstProps ==
  ASSUME NEW S, S \subseteq Message, S # {}
  PROVE  First(S) \in S /\ \A k \in S : First(S) <= k
<1>1. S \subseteq Nat
  BY MessageType
<1> DEFINE R == OpToRel(<, Nat)
<1>2. IsWellFoundedOn(R, Nat)
  BY NatLessThanWellFounded
<1>3. \A k, m \in Nat : k < m => <<k, m>> \in R
  BY DEF OpToRel
<1> HIDE DEF R
<1>4. PICK m \in S : \A k \in S : ~(<<k, m>> \in R)
  BY <1>1, <1>2, WFMin
<1>5. ASSUME NEW k \in S PROVE m <= k
  <2>1. k \in Nat /\ m \in Nat
    BY <1>1
  <2>2. ~(k < m)
    BY <1>3, <1>4, <2>1
  <2> QED
    BY <2>1, <2>2
<1> QED
  BY <1>5 DEF First

\* Notifications n that went to the consumers a message was for.
WellTold(n) ==
    /\ n \in [Message -> [Consumer -> Note]]
    /\ \A m \in Message, c \in Consumer : n[m][c] # "none" => c \in consumers[m]

\* What do_cleanup takes for finished is what was for nobody, or was told and waits
\* for no answer: while one is missing there are fewer answers than consumers.
LEMMA FinishedIs ==
  ASSUME consumers \in [Message -> SUBSET Consumer], NEW n, WellTold(n),
         NEW S, S \subseteq Message
  PROVE  \A m \in S :
           m \in Finished(n, S) <=>
             consumers[m] = {} \/ (SentOrLater(n, m) /\ ~IsPending(n, m))
<1> SUFFICES ASSUME NEW m \in S, IsPending(n, m)
             PROVE  ~(Cardinality(Results(n, m)) >= Cardinality(consumers[m]))
  BY DEF Finished
<1>1. PICK d \in Consumer : n[m][d] = "pending"
  BY DEF IsPending
<1>2. /\ d \in consumers[m] /\ consumers[m] \in SUBSET Consumer
      /\ Results(n, m) \subseteq consumers[m] \ {d}
  BY <1>1 DEF WellTold, Results
<1>3. /\ IsFiniteSet(consumers[m]) /\ IsFiniteSet(consumers[m] \ {d})
      /\ Cardinality(consumers[m] \ {d}) = Cardinality(consumers[m]) - 1
  BY <1>2, FS_Subset, FS_RemoveElement
<1>4. /\ IsFiniteSet(Results(n, m))
      /\ Cardinality(Results(n, m)) <= Cardinality(consumers[m] \ {d})
  BY <1>2, <1>3, FS_Subset
<1>5. /\ Cardinality(Results(n, m)) \in Nat /\ Cardinality(consumers[m]) \in Nat
  BY <1>3, <1>4, FS_CardinalityType
<1> QED
  BY <1>3, <1>4, <1>5

LEMMA FinishType ==
  \A m, c, ch, s, ok : /\ Finish(m, c, ch, s, ok) \in Note
                       /\ Finish(m, c, ch, s, ok) \notin {"none", "pending"}
                       /\ ok => Finish(m, c, ch, s, ok) # "bad"
BY DEF Finish, Note

LEMMA QueuesFinite ==
  ASSUME MessageTyped, NEW q \in DOMAIN queues
  PROVE  IsFiniteSet(queues[q])
<1>1. 1 \in Int /\ written \in Int /\ queues[q] \subseteq 1 .. written
  BY DEF MessageTyped
<1>2. IsFiniteSet(1 .. written)
  BY <1>1, FS_Interval
<1> QED
  BY <1>1, <1>2, FS_Subset

-----------------------------------------------------------------------------
LEMMA Parts == IInv <=> MessageTyped /\ MessageInv /\ MemberTyped /\ MemberInv
BY DEF IInv, MessagePart, MemberPart

LEMMA PartsInv == ASSUME MessagePart', MemberPart' PROVE IInv'
BY DEF IInv

LEMMA MessageStutter ==
  ASSUME MessagePart,
         UNCHANGED <<queues, consumers, notes, chain, messages, archive, written>>
  PROVE  MessagePart'
BY DEF MessagePart, MessageTyped, MessageInv, MessageOnce, ToldWasMeant, UnwrittenUntold,
       PendingHasChain, ArchivedIsGone, PendingIsQueued, NothingFinishedStays,
       NoneOvertaken, FiledOnce, SentOrLater, IsPending

LEMMA MemberStutter ==
  ASSUME MemberPart, DOMAIN queues' = DOMAIN queues,
         UNCHANGED <<subs, commands, pass, ready, readers, writers>>
  PROVE  MemberPart'
BY DEF MemberPart, MemberTyped, MemberInv, OneQueuePerGroup, SubscribedIsMember,
       StoppedIsIdle, Exists

-----------------------------------------------------------------------------
(* Cleaning up, the one place where messages leave their queues: the       *)
(* notifications become n, the queues X are cleaned up, the queues Open    *)
(* stay open and the streams D are closed.                                 *)

CleansUp(n, X, Open, D) ==
    /\ Open \subseteq DOMAIN queues /\ D \cap Open = {}
    /\ notes' = n
    /\ queues' = [x \in Open |-> Cleaned(n, X)[x]]
    /\ OnMessageProcessed(PulledFrom(n, X), n, D)
    /\ UNCHANGED <<consumers, written>>

\* What makes that sound: answers come for messages of the queues that are cleaned up
\* or closed, nothing of a closed queue stays pending, and nobody was overtaken.
Answers(n, X, Open) ==
    /\ WellTold(n)
    /\ \A m \in Message, c \in Consumer :
          n[m][c] = "pending" =>
              /\ notes[m][c] = "pending"
              /\ \A x \in DOMAIN queues : m \in queues[x] => x \in Open
    /\ \A m \in Message, c \in Consumer :
          n[m][c] # notes[m][c] =>
              \E x \in DOMAIN queues : m \in queues[x] /\ (x \in X \/ x \notin Open)
    /\ \A q \in Open : \A k, m \in queues[q] : \A c \in consumers[k] :
          k < m /\ n[m][c] # "none" => n[k][c] # "none"

LEMMA CleanInv ==
  ASSUME MessagePart, NEW n, NEW X, NEW Open, NEW D, CleansUp(n, X, Open, D),
         Answers(n, X, Open), chain' \in [Message -> [Consumer -> Seq(Queue)]],
         \A m \in Message, c \in Consumer :
           n[m][c] = "pending" => chain'[m][c] = chain[m][c]
  PROVE  MessagePart'
<1>1. /\ MessageTyped /\ MessageOnce /\ ToldWasMeant /\ UnwrittenUntold /\ PendingHasChain
      /\ ArchivedIsGone /\ PendingIsQueued /\ NothingFinishedStays /\ NoneOvertaken
      /\ FiledOnce
  BY DEF MessagePart, MessageInv
<1>2. /\ Open \subseteq DOMAIN queues /\ D \cap Open = {} /\ notes' = n
      /\ consumers' = consumers /\ written' = written
  BY DEF CleansUp
<1>3. \A x \in DOMAIN queues : queues[x] \subseteq 1 .. written /\ queues[x] \subseteq Message
  BY <1>1, MessageType DEF MessageTyped
<1>4. WellTold(n)
  BY DEF Answers
<1> DEFINE Done(m) == consumers[m] = {} \/ (SentOrLater(n, m) /\ ~IsPending(n, m))
<1>5. \A x \in DOMAIN queues : \A m \in queues[x] : m \in Finished(n, queues[x]) <=> Done(m)
  BY <1>1, <1>3, <1>4, FinishedIs DEF MessageTyped
<1>6. \A x \in DOMAIN queues : Finished(n, queues[x]) \subseteq queues[x]
  BY DEF Finished
<1>7. \A m \in Message, c \in Consumer : n[m][c] = "pending" => ~Done(m)
  BY <1>4 DEF WellTold, IsPending
<1> HIDE DEF Done
<1>8. /\ DOMAIN queues' = Open
      /\ \A x \in Open : queues'[x] = IF x \in X THEN queues[x] \ Finished(n, queues[x])
                                      ELSE queues[x]
  BY <1>2 DEF CleansUp, Cleaned
<1>9. \A x \in Open : \A m \in queues'[x] : m \in queues[x] /\ (x \in X => ~Done(m))
  BY <1>2, <1>5, <1>8
<1>10. \A x \in Open : \A m \in queues[x] : ~Done(m) => m \in queues'[x]
  BY <1>2, <1>5, <1>8
<1> DEFINE Filed(q) == Processed(q, PulledFrom(n, X), n)
<1>11. \A q \in Queue :
         /\ messages'[q] = IF q \in D THEN {} ELSE messages[q] \ Filed(q)
         /\ archive'[q] = IF q \in D THEN {} ELSE archive[q] \cup Filed(q)
  BY DEF CleansUp, OnMessageProcessed
<1>12. /\ messages' = [q \in Queue |-> messages'[q]]
       /\ archive' = [q \in Queue |-> archive'[q]]
  BY DEF CleansUp, OnMessageProcessed
<1>13. \A q \in Queue : \A m \in Filed(q) :
         /\ m \in messages[q] /\ \A c \in Consumer : n[m][c] # "bad"
         /\ \E x \in DOMAIN queues : x \in X /\ m \in queues[x] /\ Done(m)
  <2> SUFFICES ASSUME NEW q \in Queue, NEW m \in Filed(q)
               PROVE  /\ m \in messages[q] /\ \A c \in Consumer : n[m][c] # "bad"
                      /\ \E x \in DOMAIN queues : x \in X /\ m \in queues[x] /\ Done(m)
    OBVIOUS
  <2>1. m \in PulledFrom(n, X) /\ m \in messages[q] /\ \A c \in Consumer : n[m][c] # "bad"
    BY DEF Processed
  <2>2. PICK x \in X \cap DOMAIN queues : m \in Finished(n, queues[x])
    BY <2>1 DEF PulledFrom
  <2> QED
    BY <1>5, <1>6, <2>1, <2>2
<1> HIDE DEF Filed
\* What is filed as processed is in no queue any more.
<1>14. \A q \in Queue : \A m \in Filed(q) : \A y \in Open : m \notin queues'[y]
  <2> SUFFICES ASSUME NEW q \in Queue, NEW m \in Filed(q), NEW y \in Open, m \in queues'[y]
               PROVE  FALSE
    OBVIOUS
  <2>1. PICK x \in DOMAIN queues : x \in X /\ m \in queues[x] /\ Done(m)
    BY <1>13
  <2>2. m \in queues[y] /\ y \in DOMAIN queues
    BY <1>2, <1>9
  <2>3. x = y
    BY <1>1, <2>1, <2>2 DEF MessageOnce
  <2> QED
    BY <1>9, <2>1, <2>3
<1>15. MessageTyped'
  <2>1. \A q \in Open : queues'[q] \subseteq 1 .. written
                        /\ Cardinality(queues'[q]) <= MAX_QUEUE_LENGTH
    <3> SUFFICES ASSUME NEW q \in Open
                 PROVE  queues'[q] \subseteq 1 .. written
                        /\ Cardinality(queues'[q]) <= MAX_QUEUE_LENGTH
      OBVIOUS
    <3>1. /\ queues'[q] \subseteq queues[q] /\ queues[q] \subseteq 1 .. written
          /\ Cardinality(queues[q]) <= MAX_QUEUE_LENGTH
      BY <1>1, <1>2, <1>9 DEF MessageTyped
    <3>2. IsFiniteSet(queues[q])
      BY <1>1, <1>2, QueuesFinite
    <3>3. /\ Cardinality(queues'[q]) <= Cardinality(queues[q])
          /\ Cardinality(queues'[q]) \in Nat /\ Cardinality(queues[q]) \in Nat
      BY <3>1, <3>2, FS_Subset, FS_CardinalityType
    <3> QED
      BY <3>1, <3>3
  <2>2. \A q \in Queue : messages'[q] \subseteq Message /\ archive'[q] \subseteq Message
    <3> SUFFICES ASSUME NEW q \in Queue
                 PROVE  messages'[q] \subseteq Message /\ archive'[q] \subseteq Message
      OBVIOUS
    <3>1. messages[q] \subseteq Message /\ archive[q] \subseteq Message
      BY <1>1 DEF MessageTyped
    <3>2. Filed(q) \subseteq messages[q]
      BY <1>13
    <3> QED
      BY <1>11, <3>1, <3>2
  <2>3. messages' \in [Queue -> SUBSET Message] /\ archive' \in [Queue -> SUBSET Message]
    BY <1>12, <2>2
  <2>4. notes' \in [Message -> [Consumer -> Note]]
    BY <1>2, <1>4 DEF WellTold
  <2> QED
    BY <1>1, <1>2, <1>8, <2>1, <2>3, <2>4 DEF MessageTyped
<1>16. MessageOnce'
  BY <1>1, <1>2, <1>8, <1>9 DEF MessageOnce
<1>17. ToldWasMeant'
  BY <1>2, <1>4 DEF WellTold, ToldWasMeant
<1>18. UnwrittenUntold'
  <2> SUFFICES ASSUME NEW m \in Message, NEW c \in Consumer, m > written
               PROVE  n[m][c] = "none"
    BY <1>2 DEF UnwrittenUntold
  <2>1. \A x \in DOMAIN queues : m \notin queues[x]
    BY <1>1, <1>3 DEF MessageTyped
  <2>2. n[m][c] = notes[m][c]
    BY <2>1 DEF Answers
  <2> QED
    BY <1>1, <2>2 DEF UnwrittenUntold
<1>19. PendingHasChain'
  BY <1>1, <1>2 DEF PendingHasChain, Answers
<1>20. ArchivedIsGone'
  <2> SUFFICES ASSUME NEW q \in Queue, NEW m \in archive'[q]
               PROVE  m <= written /\ \A y \in Open : m \notin queues'[y]
    BY <1>2, <1>8 DEF ArchivedIsGone
  <2>1. CASE m \in archive[q]
    BY <1>1, <1>2, <1>9, <2>1 DEF ArchivedIsGone
  <2>2. CASE m \in Filed(q)
    <3>1. PICK x \in DOMAIN queues : m \in queues[x]
      BY <1>13, <2>2
    <3>2. m <= written
      BY <1>1, <1>3, <3>1 DEF MessageTyped
    <3> QED
      BY <1>14, <2>2, <3>2
  <2> QED
    BY <1>11, <2>1, <2>2
<1>21. PendingIsQueued'
  <2> SUFFICES ASSUME NEW m \in Message, NEW c \in Consumer, n[m][c] = "pending"
               PROVE  \E q \in Open : m \in queues'[q]
                                      /\ chain'[m][c][Len(chain'[m][c])] = q
    BY <1>2, <1>8 DEF PendingIsQueued
  <2>1. notes[m][c] = "pending" /\ chain'[m][c] = chain[m][c]
    BY DEF Answers
  <2>2. PICK q \in DOMAIN queues : m \in queues[q] /\ chain[m][c][Len(chain[m][c])] = q
    BY <1>1, <2>1 DEF PendingIsQueued
  <2>3. q \in Open
    BY <2>2 DEF Answers
  <2>4. m \in queues'[q]
    BY <1>7, <1>10, <2>2, <2>3
  <2> QED
    BY <2>1, <2>2, <2>3, <2>4
<1>22. NothingFinishedStays'
  <2> SUFFICES ASSUME NEW q \in Open, NEW m \in queues'[q], SentOrLater(n, m)
               PROVE  IsPending(n, m)
    BY <1>2, <1>8 DEF NothingFinishedStays, SentOrLater, IsPending
  <2>1. m \in queues[q] /\ q \in DOMAIN queues /\ m \in Message
    BY <1>2, <1>3, <1>9
  <2>2. CASE \E c \in Consumer : n[m][c] # notes[m][c]
    <3>1. PICK x \in DOMAIN queues : m \in queues[x] /\ (x \in X \/ x \notin Open)
      BY <2>1, <2>2 DEF Answers
    <3>2. x = q
      BY <1>1, <2>1, <3>1 DEF MessageOnce
    <3>3. ~Done(m)
      BY <1>9, <3>1, <3>2
    <3> QED
      BY <3>3 DEF Done
  <2>3. CASE \A c \in Consumer : n[m][c] = notes[m][c]
    <3>1. SentOrLater(notes, m)
      BY <2>3 DEF SentOrLater
    <3>2. IsPending(notes, m)
      BY <1>1, <2>1, <3>1 DEF NothingFinishedStays
    <3> QED
      BY <2>3, <3>2 DEF IsPending
  <2> QED
    BY <2>2, <2>3
<1>23. NoneOvertaken'
  BY <1>2, <1>8, <1>9 DEF NoneOvertaken, Answers
<1>24. FiledOnce'
  <2>1. \A q \in Open : queues'[q] \subseteq messages'[q]
    <3> SUFFICES ASSUME NEW q \in Open, NEW m \in queues'[q] PROVE m \in messages'[q]
      OBVIOUS
    <3>1. m \in messages[q] /\ q \in Queue /\ q \notin D
      BY <1>1, <1>2, <1>9 DEF FiledOnce, MessageTyped
    <3>2. m \notin Filed(q)
      BY <1>14, <3>1
    <3> QED
      BY <1>11, <3>1, <3>2
  <2>2. ASSUME NEW q \in Queue, NEW m \in archive'[q]
        PROVE  m \notin messages'[q] /\ \A c \in Consumer : n[m][c] \notin {"pending", "bad"}
    <3>1. q \notin D /\ (m \in archive[q] \/ m \in Filed(q))
      BY <1>11, <2>2
    <3>2. CASE m \in archive[q]
      <4>1. m \in Message /\ \A y \in DOMAIN queues : m \notin queues[y]
        BY <1>1, <3>2 DEF ArchivedIsGone, MessageTyped
      <4>2. \A c \in Consumer : n[m][c] = notes[m][c]
        BY <4>1 DEF Answers
      <4>3. m \notin messages[q] /\ \A c \in Consumer : notes[m][c] \notin {"pending", "bad"}
        BY <1>1, <3>2 DEF FiledOnce
      <4> QED
        BY <1>11, <4>2, <4>3
    <3>3. CASE m \in Filed(q)
      <4>1. m \notin messages'[q] /\ \A c \in Consumer : n[m][c] # "bad"
        BY <1>11, <1>13, <3>3
      <4>2. Done(m) /\ m \in Message
        BY <1>3, <1>13, <3>3
      <4> QED
        BY <1>7, <4>1, <4>2
    <3> QED
      BY <3>1, <3>2, <3>3
  <2> QED
    BY <1>2, <1>8, <2>1, <2>2 DEF FiledOnce
<1> QED
  BY <1>15, <1>16, <1>17, <1>18, <1>19, <1>20, <1>21, <1>22, <1>23, <1>24
     DEF MessagePart, MessageInv

-----------------------------------------------------------------------------
(* The invariant holds at first and is kept by every action.               *)

LEMMA InitInv == Init => IInv
<1> SUFFICES ASSUME Init PROVE IInv
  OBVIOUS
<1>1. DOMAIN queues = {} /\ written = 0 /\ << >> \in Seq(Queue)
  BY DEF Init
<1>2. \A m \in Message, c \in Consumer : notes[m][c] = "none"
  BY DEF Init
<1>3. MessageTyped
  BY <1>1 DEF Init, MessageTyped, Note
<1>4. MessageInv
  BY <1>1, <1>2
     DEF Init, MessageInv, MessageOnce, ToldWasMeant, UnwrittenUntold, PendingHasChain,
         ArchivedIsGone, PendingIsQueued, NothingFinishedStays, NoneOvertaken, FiledOnce
<1>5. MemberTyped /\ MemberInv
  BY <1>1
     DEF Init, MemberTyped, MemberInv, OneQueuePerGroup, SubscribedIsMember, StoppedIsIdle
<1> QED
  BY <1>3, <1>4, <1>5, Parts

\* A new message is behind all others of its queue; one that does not fit in is only
\* stored.
LEMMA PushInv == \A q \in Queue : IInv /\ Push(q) => IInv'
<1> SUFFICES ASSUME NEW q \in Queue, IInv, Push(q) PROVE IInv'
  OBVIOUS
<1>1. /\ MessageTyped /\ MessageOnce /\ ToldWasMeant /\ UnwrittenUntold /\ PendingHasChain
      /\ ArchivedIsGone /\ PendingIsQueued /\ NothingFinishedStays /\ NoneOvertaken
      /\ FiledOnce
  BY Parts DEF MessageInv
<1> DEFINE new == written + 1
           to  == {c \in Consumer : q \in subs[c]}
<1>2. /\ q \in DOMAIN queues /\ written < MaxMessages /\ written' = new
      /\ messages' = [messages EXCEPT ![q] = messages[q] \cup {new}]
      /\ queues' = IF Fits(q) THEN [queues EXCEPT ![q] = queues[q] \cup {new}] ELSE queues
      /\ consumers' = IF Fits(q) THEN [consumers EXCEPT ![new] = to] ELSE consumers
      /\ UNCHANGED <<notes, chain, subs, commands, pass, ready, readers, writers, archive>>
  BY DEF Push
<1>3. new \in Message /\ written \in Nat /\ written < new /\ new \in 0 .. MaxMessages
  BY <1>1, <1>2 DEF MessageTyped, Message
<1>4. to \subseteq Consumer
  OBVIOUS
<1> HIDE DEF new, to
<1>5. /\ DOMAIN queues' = DOMAIN queues
      /\ \A x \in DOMAIN queues :
           queues'[x] = IF x = q /\ Fits(q) THEN queues[q] \cup {new} ELSE queues[x]
  BY <1>2
<1>6. \A k \in Message : consumers'[k] = IF k = new /\ Fits(q) THEN to ELSE consumers[k]
  BY <1>1, <1>2, <1>3 DEF MessageTyped
<1>7. \A x \in Queue :
        messages'[x] = IF x = q THEN messages[q] \cup {new} ELSE messages[x]
  BY <1>1, <1>2 DEF MessageTyped
<1>8. \A c \in Consumer : notes[new][c] = "none"
  BY <1>1, <1>3 DEF UnwrittenUntold
<1>9. \A x \in DOMAIN queues : \A k \in queues[x] :
        k # new /\ k \in Message /\ k \in 1 .. written /\ k < new
  BY <1>1, <1>3, MessageType DEF MessageTyped
<1>10. \A x \in DOMAIN queues : \A k \in queues'[x] :
         k \in queues[x] \/ (k = new /\ x = q /\ Fits(q))
  BY <1>5
<1>11. MessageTyped'
  <2>1. \A x \in DOMAIN queues : queues'[x] \subseteq 1 .. new
    BY <1>3, <1>9, <1>10
  <2>2. \A x \in DOMAIN queues : Cardinality(queues'[x]) <= MAX_QUEUE_LENGTH
    <3>1. CASE Fits(q)
      <4>1. IsFiniteSet(queues[q]) /\ new \notin queues[q]
        BY <1>1, <1>2, <1>9, QueuesFinite
      <4>2. /\ Cardinality(queues[q] \cup {new}) = Cardinality(queues[q]) + 1
            /\ Cardinality(queues[q]) \in Nat
        BY <4>1, FS_AddElement, FS_CardinalityType
      <4>3. Cardinality(queues[q]) < MAX_QUEUE_LENGTH
        BY <3>1 DEF Fits
      <4>4. Cardinality(queues[q] \cup {new}) <= MAX_QUEUE_LENGTH
        BY <4>2, <4>3
      <4> QED
        BY <1>1, <1>5, <4>4 DEF MessageTyped
    <3>2. CASE ~Fits(q)
      BY <1>1, <1>5, <3>2 DEF MessageTyped
    <3> QED
      BY <3>1, <3>2
  <2>3. consumers' \in [Message -> SUBSET Consumer]
    BY <1>1, <1>2, <1>4 DEF MessageTyped
  <2>4. messages' \in [Queue -> SUBSET Message]
    BY <1>1, <1>2, <1>3 DEF MessageTyped
  <2> QED
    BY <1>1, <1>2, <1>3, <1>5, <2>1, <2>2, <2>3, <2>4 DEF MessageTyped
<1>12. MessageOnce'
  BY <1>1, <1>5, <1>9, <1>10 DEF MessageOnce
<1>13. ToldWasMeant'
  BY <1>1, <1>2, <1>6, <1>8 DEF ToldWasMeant
<1>14. UnwrittenUntold'
  <2>1. \A m \in Message : m > new => m > written
    BY <1>3, MessageType
  <2> QED
    BY <1>1, <1>2, <2>1 DEF UnwrittenUntold
<1>15. PendingHasChain'
  BY <1>1, <1>2 DEF PendingHasChain
<1>16. \A x \in Queue : \A m \in archive[x] : m \in Message /\ m <= written
  BY <1>1 DEF ArchivedIsGone, MessageTyped
<1>17. ArchivedIsGone'
  <2> SUFFICES ASSUME NEW x \in Queue, NEW m \in archive[x]
               PROVE  m <= new /\ \A y \in DOMAIN queues : m \notin queues'[y]
    BY <1>2, <1>5 DEF ArchivedIsGone
  <2>1. m <= new /\ m # new
    <3>1. m \in Nat /\ m <= written
      BY <1>16, MessageType
    <3>2. new \in Nat
      BY <1>3, MessageType
    <3> QED
      BY <1>3, <3>1, <3>2
  <2> QED
    BY <1>1, <1>10, <2>1 DEF ArchivedIsGone
<1>18. PendingIsQueued'
  BY <1>1, <1>2, <1>5 DEF PendingIsQueued
<1>19. NothingFinishedStays'
  <2> SUFFICES ASSUME NEW x \in DOMAIN queues, NEW m \in queues'[x], SentOrLater(notes, m)
               PROVE  IsPending(notes, m)
    BY <1>2, <1>5 DEF NothingFinishedStays, SentOrLater, IsPending
  <2>1. m # new
    BY <1>8 DEF SentOrLater
  <2> QED
    BY <1>1, <1>10, <2>1 DEF NothingFinishedStays
<1>20. NoneOvertaken'
  <2> SUFFICES ASSUME NEW x \in DOMAIN queues, NEW k \in queues'[x], NEW m \in queues'[x],
                      NEW c \in consumers'[k], k < m, notes[m][c] # "none", c \in Consumer
               PROVE  notes[k][c] # "none"
    <3>1. \A x \in DOMAIN queues : \A k \in queues'[x] : consumers'[k] \subseteq Consumer
      BY <1>3, <1>5, <1>9, <1>10, <1>11 DEF MessageTyped
    <3> QED
      BY <1>2, <1>5, <3>1 DEF NoneOvertaken
  <2>1. m # new
    BY <1>8
  <2>2. m \in queues[x] /\ k # new
    BY <1>3, <1>9, <1>10, <2>1, MessageType
  <2>3. k \in queues[x] /\ c \in consumers[k]
    BY <1>6, <1>9, <1>10, <2>2
  <2> QED
    BY <1>1, <2>2, <2>3 DEF NoneOvertaken
<1>21. FiledOnce'
  <2>1. \A x \in DOMAIN queues : queues'[x] \subseteq messages'[x]
    <3> SUFFICES ASSUME NEW x \in DOMAIN queues, NEW m \in queues'[x]
                 PROVE  m \in messages'[x]
      OBVIOUS
    <3>1. x \in Queue /\ queues[x] \subseteq messages[x]
      BY <1>1 DEF FiledOnce, MessageTyped
    <3> QED
      BY <1>7, <1>10, <3>1
  <2>2. \A x \in Queue : \A m \in archive[x] : m # new
    BY <1>3, <1>16, MessageType
  <2> QED
    BY <1>1, <1>2, <1>5, <1>7, <2>1, <2>2 DEF FiledOnce
<1>22. MessagePart'
  BY <1>11, <1>12, <1>13, <1>14, <1>15, <1>17, <1>18, <1>19, <1>20, <1>21
     DEF MessagePart, MessageInv
<1>23. MemberPart'
  BY <1>2, <1>5, MemberStutter DEF IInv
<1> QED
  BY <1>22, <1>23, PartsInv

LEMMA ProcessInv == IInv /\ Process => IInv'
<1> SUFFICES ASSUME IInv, Process PROVE IInv'
  OBVIOUS
<1>1. MessagePart'
  BY MessageStutter DEF IInv, Process, streamVars
<1>2. MemberPart'
  BY DEF IInv, Process, streamVars, Idle, MemberPart, MemberTyped, MemberInv,
         OneQueuePerGroup, SubscribedIsMember, StoppedIsIdle, Exists
<1> QED
  BY <1>1, <1>2, PartsInv

-----------------------------------------------------------------------------
(* Notifications and their answers.                                        *)

\* One notification changes.
LEMMA NoteChanges ==
  ASSUME notes \in [Message -> [Consumer -> Note]], NEW m \in Message, NEW c \in Consumer,
         NEW v \in Note
  PROVE  LET n == [notes EXCEPT ![m][c] = v] IN
         /\ n \in [Message -> [Consumer -> Note]]
         /\ n[m][c] = v
         /\ \A k \in Message, d \in Consumer : ~(k = m /\ d = c) => n[k][d] = notes[k][d]
OBVIOUS

LEMMA ChainChanges ==
  ASSUME chain \in [Message -> [Consumer -> Seq(Queue)]], NEW m \in Message,
         NEW c \in Consumer, NEW v \in Seq(Queue)
  PROVE  LET n == [chain EXCEPT ![m][c] = v] IN
         /\ n \in [Message -> [Consumer -> Seq(Queue)]]
         /\ n[m][c] = v
         /\ \A k \in Message, d \in Consumer : ~(k = m /\ d = c) => n[k][d] = chain[k][d]
OBVIOUS

\* The message told to a consumer is the first of the queue that is meant for it and
\* was not told, so that nothing is overtaken whatever becomes of it.
LEMMA NotifyOrder ==
  ASSUME MessagePart, NEW q \in DOMAIN queues, NEW c \in Consumer,
         Untold(queues[q], c) # {}, NEW m, m = First(Untold(queues[q], c)),
         NEW n, \A k \in Message, d \in Consumer :
                  ~(k = m /\ d = c) => n[k][d] = notes[k][d],
         n[m][c] # "none"
  PROVE  /\ m \in Message /\ m \in queues[q] /\ c \in consumers[m] /\ notes[m][c] = "none"
         /\ \A x \in DOMAIN queues : \A j, k \in queues[x] : \A d \in consumers[j] :
              j < k /\ n[k][d] # "none" => n[j][d] # "none"
<1>1. MessageTyped /\ MessageOnce /\ NoneOvertaken
  BY DEF MessagePart, MessageInv
<1>2. \A x \in DOMAIN queues : queues[x] \subseteq Message
  BY <1>1, MessageType DEF MessageTyped
<1>3. Untold(queues[q], c) \subseteq Message
  BY <1>2 DEF Untold
<1>4. m \in Untold(queues[q], c) /\ \A k \in Untold(queues[q], c) : m <= k
  BY <1>3, FirstProps
<1>5. m \in Message /\ m \in queues[q] /\ c \in consumers[m] /\ notes[m][c] = "none"
  BY <1>3, <1>4 DEF Untold
<1>6. ASSUME NEW x \in DOMAIN queues, NEW j \in queues[x], NEW k \in queues[x],
             NEW d \in consumers[j], j < k, n[k][d] # "none"
      PROVE  n[j][d] # "none"
  <2>1. j \in Message /\ k \in Message /\ d \in Consumer
    BY <1>1, <1>2 DEF MessageTyped
  <2>2. CASE k = m /\ d = c
    <3>1. x = q
      BY <1>1, <1>5, <2>2 DEF MessageOnce
    <3>2. j \notin Untold(queues[q], c)
      BY <1>4, <1>5, <1>6, <2>1, <2>2, MessageType
    <3>3. notes[j][c] # "none"
      BY <2>2, <3>1, <3>2 DEF Untold
    <3>4. j # m
      BY <1>5, <3>3
    <3> QED
      BY <2>1, <2>2, <3>3, <3>4
  <2>3. CASE ~(k = m /\ d = c)
    <3>1. notes[j][d] # "none"
      BY <1>1, <1>6, <2>1, <2>3 DEF NoneOvertaken
    <3> QED
      BY <2>1, <3>1
  <2> QED
    BY <2>2, <2>3
<1> QED
  BY <1>5, <1>6

LEMMA NotifyInv == \A c \in Consumer, q \in Queue : IInv /\ Notify(c, q) => IInv'
<1> SUFFICES ASSUME NEW c \in Consumer, NEW q \in Queue, IInv, Notify(c, q) PROVE IInv'
  OBVIOUS
<1>1. /\ MessagePart /\ MessageTyped /\ MessageOnce /\ ToldWasMeant /\ UnwrittenUntold
      /\ PendingHasChain /\ ArchivedIsGone /\ PendingIsQueued /\ NothingFinishedStays
      /\ NoneOvertaken /\ FiledOnce
  BY Parts DEF MessageInv, IInv
<1> DEFINE m == First(Untold(queues[q], c))
           v == Finish(m, c, <<q>>, subs, TRUE)
<1>2. /\ c \in pass /\ q \in subs[c] /\ Untold(queues[q], c) # {}
      /\ pass' = {d \in pass \ {c} : HasUntold(queues', d)}
      /\ UNCHANGED <<consumers, subs, commands, ready, readers, writers, origin, written,
                     changes>>
  BY DEF Notify
<1>3. \/ /\ notes' = [notes EXCEPT ![m][c] = "pending"]
         /\ chain' = [chain EXCEPT ![m][c] = <<q>>]
         /\ UNCHANGED <<queues, messages, archive>>
      \/ /\ CleanUp([notes EXCEPT ![m][c] = v], {q})
         /\ UNCHANGED chain
  BY DEF Notify
<1>4. v \in Note \ {"none", "pending", "bad"}
  BY FinishType
<1> HIDE DEF v, m
<1>5. q \in DOMAIN queues
  BY <1>2, Parts DEF MemberInv, SubscribedIsMember
<1>6. /\ m \in Message /\ m \in queues[q] /\ c \in consumers[m] /\ notes[m][c] = "none"
  <2>1. m \in Untold(queues[q], c) /\ Untold(queues[q], c) \subseteq Message
    <3>1. queues[q] \subseteq Message
      BY <1>1, <1>5, MessageType DEF MessageTyped
    <3>2. Untold(queues[q], c) \subseteq Message
      BY <3>1 DEF Untold
    <3> QED
      BY <1>2, <3>2, FirstProps DEF m
  <2> QED
    BY <2>1 DEF Untold
<1>7. MemberPart'
  <2>1. DOMAIN queues' = DOMAIN queues
    BY <1>3 DEF CleanUp, Cleaned
  <2>2. MemberTyped'
    BY <1>2, Parts DEF MemberTyped, Exists
  <2>3. MemberInv'
    BY <1>2, <2>1, Parts DEF MemberInv, OneQueuePerGroup, SubscribedIsMember, StoppedIsIdle
  <2> QED
    BY <2>2, <2>3 DEF MemberPart
\* The consumer is told and its answer is awaited.
<1>8. CASE /\ notes' = [notes EXCEPT ![m][c] = "pending"]
           /\ chain' = [chain EXCEPT ![m][c] = <<q>>]
           /\ UNCHANGED <<queues, messages, archive>>
  <2>1. /\ notes' \in [Message -> [Consumer -> Note]] /\ notes'[m][c] = "pending"
        /\ \A k \in Message, d \in Consumer :
             ~(k = m /\ d = c) => notes'[k][d] = notes[k][d]
    BY <1>1, <1>6, <1>8, NoteChanges DEF MessageTyped, Note
  <2>2. /\ chain' \in [Message -> [Consumer -> Seq(Queue)]] /\ chain'[m][c] = <<q>>
        /\ \A k \in Message, d \in Consumer :
             ~(k = m /\ d = c) => chain'[k][d] = chain[k][d]
    BY <1>1, <1>6, <1>8, ChainChanges DEF MessageTyped
  <2>3. MessageTyped'
    BY <1>1, <1>2, <1>8, <2>1, <2>2 DEF MessageTyped
  <2>4. MessageOnce' /\ ToldWasMeant'
    BY <1>1, <1>2, <1>6, <1>8, <2>1 DEF MessageOnce, ToldWasMeant
  <2>5. UnwrittenUntold'
    <3>1. ~(m > written)
      BY <1>1, <1>5, <1>6 DEF MessageTyped
    <3> QED
      BY <1>1, <1>2, <2>1, <3>1 DEF UnwrittenUntold
  <2>6. PendingHasChain'
    <3>1. <<q>> # << >>
      OBVIOUS
    <3> QED
      BY <1>1, <2>1, <2>2, <3>1 DEF PendingHasChain
  <2>7. ArchivedIsGone'
    BY <1>1, <1>2, <1>8 DEF ArchivedIsGone
  <2>8. PendingIsQueued'
    <3> SUFFICES ASSUME NEW k \in Message, NEW d \in Consumer, notes'[k][d] = "pending"
                 PROVE  \E x \in DOMAIN queues : k \in queues[x]
                                               /\ chain'[k][d][Len(chain'[k][d])] = x
      BY <1>8 DEF PendingIsQueued
    <3>1. CASE k = m /\ d = c
      <4>1. chain'[k][d] = <<q>> /\ <<q>>[Len(<<q>>)] = q
        BY <2>2, <3>1
      <4> QED
        BY <1>5, <1>6, <3>1, <4>1
    <3>2. CASE ~(k = m /\ d = c)
      <4>1. notes[k][d] = "pending" /\ chain'[k][d] = chain[k][d]
        BY <2>1, <2>2, <3>2
      <4> QED
        BY <1>1, <4>1 DEF PendingIsQueued
    <3> QED
      BY <3>1, <3>2
  <2>9. NothingFinishedStays'
    <3> SUFFICES ASSUME NEW x \in DOMAIN queues, NEW k \in queues[x], SentOrLater(notes', k)
                 PROVE  IsPending(notes', k)
      BY <1>8 DEF NothingFinishedStays, SentOrLater, IsPending
    <3>1. k \in Message
      BY <1>1, MessageType DEF MessageTyped
    <3>2. CASE k = m
      BY <2>1, <3>2 DEF IsPending
    <3>3. CASE k # m
      <4>1. SentOrLater(notes, k)
        BY <2>1, <3>1, <3>3 DEF SentOrLater
      <4>2. IsPending(notes, k)
        BY <1>1, <4>1 DEF NothingFinishedStays
      <4> QED
        BY <2>1, <3>1, <3>3, <4>2 DEF IsPending
    <3> QED
      BY <3>2, <3>3
  <2>10. NoneOvertaken'
    <3>1. \A x \in DOMAIN queues : \A j, k \in queues[x] : \A d \in consumers[j] :
            j < k /\ notes'[k][d] # "none" => notes'[j][d] # "none"
      BY <1>1, <1>2, <1>5, <2>1, NotifyOrder DEF m
    <3> QED
      BY <1>2, <1>8, <3>1 DEF NoneOvertaken
  <2>11. FiledOnce'
    <3>1. \A x \in Queue : \A k \in archive[x] : k # m /\ k \in Message
      BY <1>1, <1>5, <1>6 DEF ArchivedIsGone, MessageTyped
    <3> QED
      BY <1>1, <1>8, <2>1, <3>1 DEF FiledOnce
  <2>12. MessagePart'
    BY <2>3, <2>4, <2>5, <2>6, <2>7, <2>8, <2>9, <2>10, <2>11 DEF MessagePart, MessageInv
  <2> QED
    BY <1>7, <2>12, PartsInv
\* It could not be told, and its queue is cleaned up.
<1>9. CASE /\ CleanUp([notes EXCEPT ![m][c] = v], {q})
            /\ UNCHANGED chain
  <2> DEFINE n == [notes EXCEPT ![m][c] = v]
  <2>1. /\ n \in [Message -> [Consumer -> Note]] /\ n[m][c] = v
        /\ \A k \in Message, d \in Consumer : ~(k = m /\ d = c) => n[k][d] = notes[k][d]
    BY <1>1, <1>4, <1>6, NoteChanges DEF MessageTyped
  <2>2. CleanUp(n, {q})
    BY <1>9
  <2> HIDE DEF n
  <2>3. CleansUp(n, {q}, DOMAIN queues, {})
    BY <1>2, <2>2 DEF CleanUp, CleansUp, Cleaned
  <2>4. Answers(n, {q}, DOMAIN queues)
    <3>1. WellTold(n)
      BY <1>1, <1>6, <2>1 DEF WellTold, ToldWasMeant
    <3>2. \A k \in Message, d \in Consumer : n[k][d] = "pending" => notes[k][d] = "pending"
      BY <1>4, <2>1
    <3>3. \A k \in Message, d \in Consumer : n[k][d] # notes[k][d] => k = m
      BY <2>1
    <3>4. \A x \in DOMAIN queues : \A j, k \in queues[x] : \A d \in consumers[j] :
            j < k /\ n[k][d] # "none" => n[j][d] # "none"
      BY <1>1, <1>2, <1>4, <1>5, <2>1, NotifyOrder DEF m
    <3> QED
      BY <1>5, <1>6, <3>1, <3>2, <3>3, <3>4 DEF Answers
  <2>5. chain' \in [Message -> [Consumer -> Seq(Queue)]] /\ chain' = chain
    BY <1>1, <1>9 DEF MessageTyped
  <2>6. MessagePart'
    BY <1>1, <2>3, <2>4, <2>5, CleanInv
  <2> QED
    BY <1>7, <2>6, PartsInv
<1> QED
  BY <1>3, <1>8, <1>9

LEMMA AnswerInv == \A m \in Message, c \in Consumer : IInv /\ Answer(m, c) => IInv'
<1> SUFFICES ASSUME NEW m \in Message, NEW c \in Consumer, IInv, Answer(m, c) PROVE IInv'
  OBVIOUS
<1>1. /\ MessagePart /\ MessageTyped /\ ToldWasMeant /\ PendingHasChain /\ PendingIsQueued
      /\ NoneOvertaken
  BY Parts DEF MessageInv, IInv
<1> DEFINE v == Finish(m, c, chain[m][c], subs, TRUE)
           n == [notes EXCEPT ![m][c] = v]
           X == Ids(chain[m][c])
<1>2. /\ notes[m][c] = "pending" /\ CleanUp(n, X) /\ chain' = [chain EXCEPT ![m][c] = << >>]
      /\ UNCHANGED <<consumers, subs, commands, pass, ready, readers, writers, origin,
                     written, changes>>
  BY DEF Answer
<1>3. v \in Note \ {"none", "pending", "bad"}
  BY FinishType
<1> HIDE DEF v
<1>4. /\ n \in [Message -> [Consumer -> Note]] /\ n[m][c] = v
      /\ \A k \in Message, d \in Consumer : ~(k = m /\ d = c) => n[k][d] = notes[k][d]
  BY <1>1, <1>3, NoteChanges DEF MessageTyped
<1> HIDE DEF n
\* The queue that holds the message is the last one its Deferred reports to.
<1>5. PICK q \in DOMAIN queues : m \in queues[q] /\ q \in X
  <2>1. PICK q \in DOMAIN queues : m \in queues[q] /\ chain[m][c][Len(chain[m][c])] = q
    BY <1>1, <1>2 DEF PendingIsQueued
  <2>2. chain[m][c] \in Seq(Queue) /\ chain[m][c] # << >>
    BY <1>1, <1>2 DEF MessageTyped, PendingHasChain
  <2>3. Len(chain[m][c]) \in DOMAIN chain[m][c]
    BY <2>2, EmptySeq
  <2> QED
    BY <2>1, <2>3 DEF Ids
<1> HIDE DEF X
<1>6. CleansUp(n, X, DOMAIN queues, {})
  BY <1>2 DEF CleanUp, CleansUp, Cleaned
<1>7. Answers(n, X, DOMAIN queues)
  <2>1. WellTold(n)
    BY <1>1, <1>2, <1>4 DEF WellTold, ToldWasMeant
  <2>2. \A k \in Message, d \in Consumer :
          /\ n[k][d] = "pending" => notes[k][d] = "pending"
          /\ n[k][d] = "none" <=> notes[k][d] = "none"
    BY <1>2, <1>3, <1>4
  <2>3. \A k \in Message, d \in Consumer : n[k][d] # notes[k][d] => k = m
    BY <1>4
  <2>4. \A x \in DOMAIN queues : \A j, k \in queues[x] : \A d \in consumers[j] :
          j < k /\ n[k][d] # "none" => n[j][d] # "none"
    <3>1. \A x \in DOMAIN queues : \A j \in queues[x] :
            j \in Message /\ consumers[j] \subseteq Consumer
      BY <1>1, MessageType DEF MessageTyped
    <3> QED
      BY <1>1, <2>2, <3>1 DEF NoneOvertaken
  <2> QED
    BY <1>5, <2>1, <2>2, <2>3, <2>4 DEF Answers
<1>8. /\ chain' \in [Message -> [Consumer -> Seq(Queue)]]
      /\ \A k \in Message, d \in Consumer :
           ~(k = m /\ d = c) => chain'[k][d] = chain[k][d]
  <2>1. << >> \in Seq(Queue)
    OBVIOUS
  <2> QED
    BY <1>1, <1>2, <2>1, ChainChanges DEF MessageTyped
<1>9. MessagePart'
  <2>1. \A k \in Message, d \in Consumer : n[k][d] = "pending" => chain'[k][d] = chain[k][d]
    BY <1>3, <1>4, <1>8
  <2> QED
    BY <1>1, <1>6, <1>7, <1>8, <2>1, CleanInv
<1>10. MemberPart'
  <2>1. DOMAIN queues' = DOMAIN queues
    BY <1>6 DEF CleansUp
  <2> QED
    BY <1>2, <2>1, MemberStutter DEF IInv
<1> QED
  BY <1>9, <1>10, PartsInv

-----------------------------------------------------------------------------
(* Members leave, rotate their identities, and the broker stops.           *)

\* A stream is stopped: what was pending in its queue is cancelled, other queues are
\* cleaned up of what that finishes.
LEMMA StopStreamInv ==
  ASSUME IInv, NEW q \in DOMAIN queues, NEW D \in {{}, {q}}, StopStream(q, D),
         pass = {}, UNCHANGED ready
  PROVE  IInv'
<1>1. /\ MessagePart /\ MessageTyped /\ MessageOnce /\ ToldWasMeant /\ NoneOvertaken
      /\ MemberTyped /\ OneQueuePerGroup /\ SubscribedIsMember /\ StoppedIsIdle
  BY Parts DEF MessageInv, MemberInv, IInv
<1> DEFINE left == Unsubscribed(q, Consumer)
           n == Cancelled(q, left)
           X == CancelledIds(q)
           Open == DOMAIN queues \ {q}
<1>2. /\ subs' = left /\ commands' = {c \in commands \ readers[q] : Exists(left, c)}
      /\ notes' = n
      /\ chain' = [m \in Message |-> [c \in Consumer |->
                     IF n[m][c] = "pending" THEN chain[m][c] ELSE << >>]]
      /\ queues' = [x \in Open |-> Cleaned(n, X)[x]]
      /\ OnMessageProcessed(PulledFrom(n, X), n, D)
      /\ readers' = [x \in Queue |-> IF x \in D THEN {} ELSE readers[x]]
      /\ writers' = [x \in Queue |-> IF x \in D THEN {} ELSE writers[x]]
      /\ UNCHANGED <<consumers, pass, origin, written>>
  BY DEF StopStream
<1>3. \A c \in Consumer : left[c] = subs[c] \ {q}
  BY DEF Unsubscribed
<1>4. left \in [Consumer -> SUBSET Queue]
  BY <1>1 DEF Unsubscribed, MemberTyped
<1> HIDE DEF left
<1>5. \A m \in Message, c \in Consumer :
        /\ n[m][c] \in Note
        /\ n[m][c] = "none" <=> notes[m][c] = "none"
        /\ n[m][c] # notes[m][c] => m \in queues[q]
        /\ n[m][c] = "pending" => notes[m][c] = "pending" /\ m \notin queues[q]
  <2> SUFFICES ASSUME NEW m \in Message, NEW c \in Consumer
               PROVE  /\ n[m][c] \in Note
                      /\ n[m][c] = "none" <=> notes[m][c] = "none"
                      /\ n[m][c] # notes[m][c] => m \in queues[q]
                      /\ n[m][c] = "pending" => notes[m][c] = "pending" /\ m \notin queues[q]
    OBVIOUS
  <2> DEFINE v == Finish(m, c, chain[m][c], left, FALSE)
  <2>1. n[m][c] = IF m \in queues[q] /\ notes[m][c] = "pending" THEN v ELSE notes[m][c]
    BY DEF Cancelled
  <2>2. v \in Note \ {"none", "pending"}
    BY FinishType
  <2>3. notes[m][c] \in Note
    BY <1>1 DEF MessageTyped
  <2> HIDE DEF v, n
  <2> QED
    BY <2>1, <2>2, <2>3
<1>6. n = [m \in Message |-> [c \in Consumer |-> n[m][c]]]
  BY DEF Cancelled
<1> HIDE DEF n, X
<1>7. n \in [Message -> [Consumer -> Note]]
  BY <1>5, <1>6
<1>8. CleansUp(n, X, Open, D)
  BY <1>2 DEF CleansUp
<1>9. Answers(n, X, Open)
  <2>1. WellTold(n)
    BY <1>1, <1>5, <1>7 DEF WellTold, ToldWasMeant
  <2>2. \A x \in Open : \A j, k \in queues[x] : \A d \in consumers[j] :
          j < k /\ n[k][d] # "none" => n[j][d] # "none"
    <3>1. \A x \in DOMAIN queues : \A j \in queues[x] :
            j \in Message /\ consumers[j] \subseteq Consumer
      BY <1>1, MessageType DEF MessageTyped
    <3> QED
      BY <1>1, <1>5, <3>1 DEF NoneOvertaken
  <2> QED
    BY <1>5, <2>1, <2>2 DEF Answers
<1>10. /\ chain' \in [Message -> [Consumer -> Seq(Queue)]]
       /\ \A m \in Message, c \in Consumer :
            n[m][c] = "pending" => chain'[m][c] = chain[m][c]
  <2>1. << >> \in Seq(Queue)
    OBVIOUS
  <2> QED
    BY <1>1, <1>2, <2>1 DEF MessageTyped
<1>11. MessagePart'
  BY <1>1, <1>8, <1>9, <1>10, CleanInv
<1>12. DOMAIN queues' = Open
  BY <1>2
<1>13. \A x \in Queue : readers'[x] = IF x \in D THEN {} ELSE readers[x]
  BY <1>2
<1>14. MemberTyped'
  <2>1. readers' \in [Queue -> SUBSET Consumer] /\ writers' \in [Queue -> SUBSET Producer]
    BY <1>1, <1>2 DEF MemberTyped
  <2>2. pass' = {} /\ commands' \subseteq {c \in Consumer : Exists(subs', c)}
    BY <1>1, <1>2 DEF MemberTyped
  <2> QED
    BY <1>1, <1>2, <1>4, <2>1, <2>2 DEF MemberTyped
<1>15. SubscribedIsMember'
  <2> SUFFICES ASSUME NEW c \in Consumer, NEW x \in left[c]
               PROVE  x \in Open /\ c \in readers'[x]
    BY <1>2, <1>12 DEF SubscribedIsMember
  <2>1. x \in subs[c] /\ x # q
    BY <1>3
  <2>2. x \in DOMAIN queues /\ c \in readers[x] /\ x \in Queue
    BY <1>1, <2>1 DEF SubscribedIsMember, MemberTyped
  <2> QED
    BY <1>13, <2>1, <2>2
<1>16. OneQueuePerGroup' /\ StoppedIsIdle'
  BY <1>1, <1>2, <1>12 DEF OneQueuePerGroup, StoppedIsIdle
<1> QED
  BY <1>11, <1>14, <1>15, <1>16, PartsInv DEF MemberPart, MemberInv

LEMMA LeaveInv ==
  \A q \in Queue, C \in SUBSET Consumer, P \in SUBSET Producer : IInv /\ Leave(q, C, P) => IInv'
<1> SUFFICES ASSUME NEW q \in Queue, NEW C \in SUBSET Consumer,
                    NEW P \in SUBSET Producer, IInv, Leave(q, C, P)
             PROVE  IInv'
  OBVIOUS
<1>1. q \in DOMAIN queues /\ pass = {} /\ UNCHANGED ready
  BY DEF Leave, Idle
<1>2. CASE StopStream(q, {q})
  BY <1>1, <1>2, StopStreamInv
<1>3. CASE /\ subs' = Unsubscribed(q, C)
           /\ commands' = commands \ C
           /\ readers' = [readers EXCEPT ![q] = @ \ C]
           /\ writers' = [writers EXCEPT ![q] = @ \ P]
           /\ UNCHANGED <<queues, consumers, notes, chain, pass, messages, archive, origin,
                          written>>
  <2>1. MessagePart'
    BY <1>3, MessageStutter DEF IInv
  <2>2. MemberTyped /\ OneQueuePerGroup /\ SubscribedIsMember /\ StoppedIsIdle
    BY Parts DEF MemberInv
  <2>3. \A c \in Consumer : subs'[c] = IF c \in C THEN subs[c] \ {q} ELSE subs[c]
    BY <1>3 DEF Unsubscribed
  <2>4. \A x \in Queue : readers'[x] = IF x = q THEN readers[q] \ C ELSE readers[x]
    BY <1>3, <2>2 DEF MemberTyped
  <2>5. MemberTyped'
    <3>1. /\ subs' \in [Consumer -> SUBSET Queue]
          /\ readers' \in [Queue -> SUBSET Consumer]
          /\ writers' \in [Queue -> SUBSET Producer]
      BY <1>3, <2>2 DEF MemberTyped, Unsubscribed
    <3>2. commands' \subseteq {c \in Consumer : Exists(subs', c)}
      BY <1>3, <2>2, <2>3 DEF MemberTyped, Exists
    <3> QED
      BY <1>1, <1>3, <2>2, <3>1, <3>2 DEF MemberTyped
  <2>6. SubscribedIsMember'
    <3> SUFFICES ASSUME NEW c \in Consumer, NEW x \in subs'[c]
                 PROVE  x \in DOMAIN queues /\ c \in readers'[x]
      BY <1>3 DEF SubscribedIsMember
    <3>1. x \in subs[c] /\ (x = q => c \notin C)
      BY <2>3
    <3>2. x \in DOMAIN queues /\ c \in readers[x] /\ x \in Queue
      BY <2>2, <3>1 DEF SubscribedIsMember, MemberTyped
    <3> QED
      BY <2>4, <3>1, <3>2
  <2>7. OneQueuePerGroup' /\ StoppedIsIdle'
    BY <1>1, <1>3, <2>2 DEF OneQueuePerGroup, StoppedIsIdle
  <2> QED
    BY <2>1, <2>5, <2>6, <2>7, PartsInv DEF MemberPart, MemberInv
<1> QED
  BY <1>2, <1>3 DEF Leave

\* OwnerRotated and StopNext.
LEMMA StopsInv ==
  \A q \in Queue : IInv /\ (OwnerRotated(q) \/ StopNext(q)) => IInv'
<1> SUFFICES ASSUME NEW q \in Queue, IInv, OwnerRotated(q) \/ StopNext(q) PROVE IInv'
  OBVIOUS
<1>1. q \in DOMAIN queues /\ UNCHANGED ready /\ \E D \in {{}, {q}} : StopStream(q, D)
  BY DEF OwnerRotated, StopNext
<1>2. pass = {}
  BY Parts DEF OwnerRotated, StopNext, Idle, MemberInv, StoppedIsIdle
<1> QED
  BY <1>1, <1>2, StopStreamInv

LEMMA ConsumerRotatedInv == \A c \in Consumer : IInv /\ ConsumerRotated(c) => IInv'
<1> SUFFICES ASSUME NEW c \in Consumer, IInv, ConsumerRotated(c) PROVE IInv'
  OBVIOUS
<1>1. /\ pass = {} /\ NewId[c] # c /\ NewId[c] \in Consumer
      /\ readers' = [q \in Queue |-> IF c \in readers[q]
                       THEN (readers[q] \ {c}) \cup {NewId[c]} ELSE readers[q]]
      /\ subs' = [subs EXCEPT ![c] = {}]
      /\ commands' = commands \ {c}
      /\ UNCHANGED <<queues, consumers, notes, chain, pass, ready, writers, messages,
                     archive, origin, written>>
  BY DEF ConsumerRotated, Idle
<1>2. MessagePart'
  BY <1>1, MessageStutter DEF IInv
<1>3. MemberTyped /\ OneQueuePerGroup /\ SubscribedIsMember /\ StoppedIsIdle
  BY Parts DEF MemberInv
<1>4. \A d \in Consumer : subs'[d] = IF d = c THEN {} ELSE subs[d]
  BY <1>1, <1>3 DEF MemberTyped
<1>5. MemberTyped'
  <2>1. subs' \in [Consumer -> SUBSET Queue] /\ readers' \in [Queue -> SUBSET Consumer]
    BY <1>1, <1>3 DEF MemberTyped
  <2>2. commands' \subseteq {d \in Consumer : Exists(subs', d)}
    BY <1>1, <1>3, <1>4 DEF MemberTyped, Exists
  <2> QED
    BY <1>1, <1>3, <2>1, <2>2 DEF MemberTyped
<1>6. SubscribedIsMember'
  <2> SUFFICES ASSUME NEW d \in Consumer, NEW x \in subs'[d]
               PROVE  x \in DOMAIN queues /\ d \in readers'[x]
    BY <1>1 DEF SubscribedIsMember
  <2>1. d # c /\ x \in subs[d]
    BY <1>4
  <2>2. x \in DOMAIN queues /\ d \in readers[x] /\ x \in Queue
    BY <1>3, <2>1 DEF SubscribedIsMember, MemberTyped
  <2> QED
    BY <1>1, <2>1, <2>2
<1>7. OneQueuePerGroup' /\ StoppedIsIdle'
  BY <1>1, <1>3 DEF OneQueuePerGroup, StoppedIsIdle
<1> QED
  BY <1>2, <1>5, <1>6, <1>7, PartsInv DEF MemberPart, MemberInv

LEMMA StopInv == IInv /\ Stop => IInv'
<1> SUFFICES ASSUME IInv, Stop PROVE IInv'
  OBVIOUS
<1>1. pass = {} /\ ready' = "stopping" /\ UNCHANGED <<queueVars, streamVars>>
  BY DEF Stop, Idle
<1>2. MessagePart'
  BY <1>1, MessageStutter DEF IInv, queueVars, streamVars
<1>3. MemberPart'
  BY <1>1 DEF IInv, MemberPart, MemberTyped, MemberInv, OneQueuePerGroup,
              SubscribedIsMember, StoppedIsIdle, Exists, queueVars, streamVars
<1> QED
  BY <1>2, <1>3, PartsInv

-----------------------------------------------------------------------------
(* Members join, and the queue of a group gets a new id.                   *)

\* What Join does to the queues, the streams and the members, for the queue old of
\* the group, which is q itself or gives its content to q.
Joins(q, old, C, P) ==
    /\ queues' = [x \in (DOMAIN queues \ {old}) \cup {q} |->
                     IF x = q THEN Held(old) ELSE queues[x]]
    /\ chain' = Rechained(old, q)
    /\ subs' = [c \in Consumer |->
                   (IF old \in subs[c] THEN (subs[c] \ {old}) \cup {q} ELSE subs[c])
                   \cup (IF c \in C THEN {q} ELSE {})]
    /\ readers' = [Moved(readers, old, q) EXCEPT ![q] = @ \cup C]
    /\ writers' = [Moved(writers, old, q) EXCEPT ![q] = @ \cup P]
    /\ messages' = Moved(messages, old, q)
    /\ archive' = Moved(archive, old, q)
    /\ commands' = commands \cup C
    /\ pass = {}
    /\ UNCHANGED <<consumers, notes, pass, ready, written>>

\* q was not open when it takes the place of another queue, as the group has one.
TakesOver(q, old) ==
    \/ q = old
    \/ q # old /\ old \in DOMAIN queues /\ Group[old] = Group[q] /\ q \notin DOMAIN queues

\* The messages follow their queue.
LEMMA JoinMessages ==
  ASSUME IInv, NEW q \in Queue, NEW old \in Queue, NEW C, NEW P,
         TakesOver(q, old), Joins(q, old, C, P)
  PROVE  MessagePart'
<1>1. /\ MessageTyped /\ MessageOnce /\ ToldWasMeant /\ UnwrittenUntold /\ PendingHasChain
      /\ ArchivedIsGone /\ PendingIsQueued /\ NothingFinishedStays /\ NoneOvertaken
      /\ FiledOnce
  BY Parts DEF MessageInv
<1>2. /\ UNCHANGED <<consumers, notes, written>>
      /\ DOMAIN queues' = (DOMAIN queues \ {old}) \cup {q}
      /\ \A x \in DOMAIN queues' : queues'[x] = IF x = q THEN Held(old) ELSE queues[x]
  BY DEF Joins
\* Where a queue has its content from.
<1>3. \A x \in DOMAIN queues' : \A m \in queues'[x] :
        \/ x = q /\ old \in DOMAIN queues /\ m \in queues[old]
        \/ x # q /\ x # old /\ x \in DOMAIN queues /\ m \in queues[x]
  BY <1>2 DEF Held
\* Where the content of a queue goes to.
<1>4. \A y \in DOMAIN queues :
        \/ y = old /\ q \in DOMAIN queues' /\ queues'[q] = queues[y]
        \/ y # old /\ y # q /\ y \in DOMAIN queues' /\ queues'[y] = queues[y]
  BY <1>2 DEF Held, TakesOver
<1>5. /\ messages' \in [Queue -> SUBSET Message] /\ archive' \in [Queue -> SUBSET Message]
      /\ \A x \in Queue :
           /\ messages'[x] = IF x = q THEN messages[old]
                             ELSE IF x = old THEN {} ELSE messages[x]
           /\ archive'[x] = IF x = q THEN archive[old]
                            ELSE IF x = old THEN {} ELSE archive[x]
  <2>1. /\ messages \in [Queue -> SUBSET Message] /\ archive \in [Queue -> SUBSET Message]
        /\ messages' = Moved(messages, old, q) /\ archive' = Moved(archive, old, q)
    BY <1>1 DEF Joins, MessageTyped
  <2>2. messages' \in [Queue -> SUBSET Message] /\ archive' \in [Queue -> SUBSET Message]
    BY <2>1 DEF Moved
  <2>3. \A x \in Queue :
          messages'[x] = IF x = q THEN messages[old]
                         ELSE IF x = old THEN {} ELSE messages[x]
    BY <2>1 DEF Moved
  <2>4. \A x \in Queue :
          archive'[x] = IF x = q THEN archive[old]
                        ELSE IF x = old THEN {} ELSE archive[x]
    BY <2>1 DEF Moved
  <2> QED
    BY <2>2, <2>3, <2>4
<1>6. \A m \in Message, c \in Consumer :
        chain'[m][c] = IF old # q /\ m \in Held(old) /\ notes[m][c] = "pending"
                       THEN Append(chain[m][c], q) ELSE chain[m][c]
  BY DEF Joins, Rechained
<1>7. \A m \in Message, c \in Consumer :
        /\ chain[m][c] \in Seq(Queue)
        /\ Append(chain[m][c], q) \in Seq(Queue) /\ Append(chain[m][c], q) # << >>
        /\ Append(chain[m][c], q)[Len(Append(chain[m][c], q))] = q
  <2>1. \A s \in Seq(Queue) :
          /\ Append(s, q) \in Seq(Queue) /\ Append(s, q) # << >>
          /\ Append(s, q)[Len(Append(s, q))] = q
    BY AppendProperties
  <2>2. \A m \in Message, c \in Consumer : chain[m][c] \in Seq(Queue)
    BY <1>1 DEF MessageTyped
  <2> QED
    BY <2>1, <2>2
<1>8. MessageTyped'
  <2>1. chain' \in [Message -> [Consumer -> Seq(Queue)]]
    BY <1>7 DEF Joins, Rechained
  <2>2. Held(old) \subseteq 1 .. written /\ Cardinality(Held(old)) <= MAX_QUEUE_LENGTH
    <3>1. CASE old \in DOMAIN queues
      BY <1>1, <3>1 DEF Held, MessageTyped
    <3>2. CASE old \notin DOMAIN queues
      BY <3>2, FS_EmptySet DEF Held
    <3> QED
      BY <3>1, <3>2
  <2> QED
    BY <1>1, <1>2, <1>5, <2>1, <2>2 DEF MessageTyped
<1>9. MessageOnce'
  BY <1>1, <1>3 DEF MessageOnce
<1>10. ToldWasMeant' /\ UnwrittenUntold'
  BY <1>1, <1>2 DEF ToldWasMeant, UnwrittenUntold
<1>11. PendingHasChain'
  <2> SUFFICES ASSUME NEW m \in Message, NEW c \in Consumer, notes[m][c] = "pending"
               PROVE  chain'[m][c] # << >>
    BY <1>2 DEF PendingHasChain
  <2>1. chain'[m][c] = Append(chain[m][c], q) \/ chain'[m][c] = chain[m][c]
    BY <1>6
  <2> QED
    BY <1>1, <1>7, <2>1 DEF PendingHasChain
<1>12. ArchivedIsGone'
  BY <1>1, <1>2, <1>3, <1>5 DEF ArchivedIsGone
<1>13. PendingIsQueued'
  <2> SUFFICES ASSUME NEW m \in Message, NEW c \in Consumer, notes[m][c] = "pending"
               PROVE  \E x \in DOMAIN queues' : m \in queues'[x]
                                              /\ chain'[m][c][Len(chain'[m][c])] = x
    BY <1>2 DEF PendingIsQueued
  <2>1. PICK y \in DOMAIN queues : m \in queues[y] /\ chain[m][c][Len(chain[m][c])] = y
    BY <1>1 DEF PendingIsQueued
  <2>2. CASE y = old /\ old # q
    <3>1. m \in Held(old)
      BY <2>1, <2>2 DEF Held
    <3>2. chain'[m][c] = Append(chain[m][c], q)
      BY <1>6, <2>2, <3>1
    <3>3. chain'[m][c][Len(chain'[m][c])] = q
      BY <1>7, <3>2
    <3> QED
      BY <1>4, <2>1, <2>2, <3>3
  <2>3. CASE ~(y = old /\ old # q)
    <3>1. old # q => m \notin Held(old)
      BY <1>1, <2>1, <2>3 DEF MessageOnce, Held
    <3>2. chain'[m][c] = chain[m][c]
      BY <1>6, <3>1
    <3>3. y \in DOMAIN queues' /\ queues'[y] = queues[y]
      BY <1>4, <2>3
    <3> QED
      BY <2>1, <3>2, <3>3
  <2> QED
    BY <2>2, <2>3
<1>14. NothingFinishedStays'
  BY <1>1, <1>2, <1>3 DEF NothingFinishedStays, SentOrLater, IsPending
<1>15. NoneOvertaken'
  BY <1>1, <1>2, <1>3 DEF NoneOvertaken
<1>16. FiledOnce'
  <2>1. \A x \in DOMAIN queues' : queues'[x] \subseteq messages'[x]
    BY <1>1, <1>3, <1>5, <1>8 DEF FiledOnce, MessageTyped
  <2>2. ASSUME NEW x \in Queue, NEW m \in archive'[x]
        PROVE  m \notin messages'[x] /\ \A c \in Consumer : notes[m][c] \notin {"pending", "bad"}
    BY <1>1, <1>5, <2>2 DEF FiledOnce
  <2> QED
    BY <1>2, <2>1, <2>2 DEF FiledOnce
<1> QED
  BY <1>8, <1>9, <1>10, <1>11, <1>12, <1>13, <1>14, <1>15, <1>16 DEF MessagePart, MessageInv

\* The members follow their queue, and the new ones are in.
LEMMA JoinMembers ==
  ASSUME IInv, NEW q \in Queue, NEW old \in Queue, NEW C \in SUBSET Consumer,
         NEW P \in SUBSET Producer, TakesOver(q, old), Joins(q, old, C, P),
         old = q => \A x \in DOMAIN queues : Group[x] = Group[q] => x = q
  PROVE  MemberPart'
<1>1. MemberTyped /\ OneQueuePerGroup /\ SubscribedIsMember /\ StoppedIsIdle
  BY Parts DEF MemberInv
<1>2. /\ pass = {} /\ UNCHANGED <<pass, ready>> /\ commands' = commands \cup C
      /\ DOMAIN queues' = (DOMAIN queues \ {old}) \cup {q}
  BY DEF Joins
<1>3. \A c \in Consumer : subs'[c] =
        (IF old \in subs[c] THEN (subs[c] \ {old}) \cup {q} ELSE subs[c])
        \cup (IF c \in C THEN {q} ELSE {})
  BY DEF Joins
<1>4. /\ readers' \in [Queue -> SUBSET Consumer] /\ writers' \in [Queue -> SUBSET Producer]
      /\ \A x \in Queue :
           readers'[x] = IF x = q THEN readers[old] \cup C
                         ELSE IF x = old THEN {} ELSE readers[x]
  <2>1. /\ Moved(readers, old, q) \in [Queue -> SUBSET Consumer]
        /\ Moved(writers, old, q) \in [Queue -> SUBSET Producer]
        /\ \A x \in Queue : Moved(readers, old, q)[x] =
             IF x = q THEN readers[old] ELSE IF x = old THEN {} ELSE readers[x]
    <3>1. readers \in [Queue -> SUBSET Consumer] /\ writers \in [Queue -> SUBSET Producer]
      BY <1>1 DEF MemberTyped
    <3>2. \A x \in Queue : Moved(readers, old, q)[x] =
            IF x = q THEN readers[old] ELSE IF x = old THEN {} ELSE readers[x]
      BY <3>1 DEF Moved
    <3>3. /\ Moved(readers, old, q) \in [Queue -> SUBSET Consumer]
          /\ Moved(writers, old, q) \in [Queue -> SUBSET Producer]
      BY <3>1 DEF Moved
    <3> QED
      BY <3>2, <3>3
  <2> QED
    BY <2>1 DEF Joins
<1>5. MemberTyped'
  <2>1. subs' \in [Consumer -> SUBSET Queue]
    BY <1>1 DEF Joins, MemberTyped
  <2>2. commands' \subseteq {c \in Consumer : Exists(subs', c)}
    BY <1>1, <1>2, <1>3 DEF MemberTyped, Exists
  <2> QED
    BY <1>1, <1>2, <1>4, <2>1, <2>2 DEF MemberTyped
<1>6. SubscribedIsMember'
  <2> SUFFICES ASSUME NEW c \in Consumer, NEW x \in subs'[c]
               PROVE  x \in DOMAIN queues' /\ c \in readers'[x]
    BY DEF SubscribedIsMember
  <2>1. \A y \in subs[c] : y \in DOMAIN queues /\ y \in Queue /\ c \in readers[y]
    BY <1>1 DEF SubscribedIsMember, MemberTyped
  <2>2. CASE x = q
    <3>1. old \in subs[c] \/ c \in C \/ q \in subs[c]
      BY <1>3, <2>2
    <3>2. q \in subs[c] => q = old
      BY <2>1 DEF TakesOver
    <3> QED
      BY <1>2, <1>4, <2>1, <2>2, <3>1, <3>2
  <2>3. CASE x # q
    <3>1. x \in subs[c] /\ x # old
      BY <1>3, <2>3
    <3> QED
      BY <1>2, <1>4, <2>1, <2>3, <3>1
  <2> QED
    BY <2>2, <2>3
<1>7. OneQueuePerGroup'
  <2>1. \A x \in DOMAIN queues : x # old /\ Group[x] = Group[q] => x = q
    BY <1>1 DEF OneQueuePerGroup, TakesOver
  <2> QED
    BY <1>1, <1>2, <2>1 DEF OneQueuePerGroup
<1>8. StoppedIsIdle'
  BY <1>2 DEF StoppedIsIdle
<1> QED
  BY <1>5, <1>6, <1>7, <1>8 DEF MemberPart, MemberInv

LEMMA JoinInv ==
  \A q \in Queue, C \in SUBSET Consumer, P \in SUBSET Producer :
    IInv /\ Join(q, C, P) => IInv'
<1> SUFFICES ASSUME NEW q \in Queue, NEW C \in SUBSET Consumer, NEW P \in SUBSET Producer,
                    IInv, Join(q, C, P)
             PROVE  IInv'
  OBVIOUS
<1>1. PICK old \in IF Former(q) = {} THEN {q} ELSE Former(q) : Joins(q, old, C, P)
  BY DEF Join, Joins, Idle
<1>2. /\ OneQueuePerGroup /\ DOMAIN queues \subseteq Queue
  BY Parts DEF MemberInv, MessageTyped
<1>3. old \in Queue /\ TakesOver(q, old)
  <2>1. CASE Former(q) = {}
    BY <1>1, <2>1 DEF TakesOver
  <2>2. CASE Former(q) # {}
    <3>1. old \in DOMAIN queues /\ Group[old] = Group[q] /\ old # q
      BY <1>1, <2>2 DEF Former
    <3> QED
      BY <1>2, <3>1 DEF TakesOver, OneQueuePerGroup
  <2> QED
    BY <2>1, <2>2
<1>4. old = q => \A x \in DOMAIN queues : Group[x] = Group[q] => x = q
  BY <1>1 DEF Former
<1> QED
  BY <1>1, <1>3, <1>4, JoinMessages, JoinMembers, PartsInv

-----------------------------------------------------------------------------
LEMMA NextInv == IInv /\ [Next]_vars => IInv'
<1> SUFFICES ASSUME IInv, [Next]_vars PROVE IInv'
  OBVIOUS
<1>1. CASE Process
  BY <1>1, ProcessInv
<1>2. ASSUME NEW c \in Consumer, NEW q \in Queue, Notify(c, q) PROVE IInv'
  BY <1>2, NotifyInv
<1>3. ASSUME NEW q \in Queue, Push(q) \/ OwnerRotated(q) \/ StopNext(q) PROVE IInv'
  BY <1>3, PushInv, StopsInv
<1>4. ASSUME NEW m \in Message, NEW c \in Consumer, Answer(m, c) PROVE IInv'
  BY <1>4, AnswerInv
<1>5. ASSUME NEW q \in Queue, NEW C \in AtMostOne(Consumer), NEW P \in AtMostOne(Producer),
             Join(q, C, P) \/ Leave(q, C, P)
      PROVE  IInv'
  <2>1. C \in SUBSET Consumer /\ P \in SUBSET Producer
    BY DEF AtMostOne
  <2> QED
    BY <1>5, <2>1, JoinInv, LeaveInv
<1>6. ASSUME NEW c \in Consumer, ConsumerRotated(c) PROVE IInv'
  BY <1>6, ConsumerRotatedInv
<1>7. CASE Stop
  BY <1>7, StopInv
<1>8. CASE UNCHANGED vars
  BY <1>8, MessageStutter, MemberStutter, PartsInv DEF IInv, vars, queueVars, streamVars
<1> QED
  BY <1>1, <1>2, <1>3, <1>4, <1>5, <1>6, <1>7, <1>8 DEF Next, Consume

\* The invariant holds in every state the broker reaches.
THEOREM Invariance == Spec => []IInv
<1> QED
  BY InitInv, NextInv, PTL DEF Spec

\* Every variable keeps its type, and no queue grows over MAX_QUEUE_LENGTH, although
\* messages go on being stored when it is full.
THEOREM TypeCorrect == Spec => []TypeOK
<1>1. IInv => TypeOK
  BY Parts DEF TypeOK, MessageTyped, MemberTyped
<1> QED
  BY <1>1, Invariance, PTL

\* A group has one open queue, whatever ids its members come with; p2p_queue and the
\* streams agree on who reads it; and what is asked of a consumer is answered to the
\* queue that still holds the message, or the message is gone.
THEOREM QueuesAreSound == Spec => []QueuesSound
<1>1. IInv => QueuesSound
  BY Parts DEF QueuesSound, MessageInv, MemberInv
<1> QED
  BY <1>1, Invariance, PTL

\* A consumer is told the messages of a queue in the order they were written, and what
\* is archived waits for nobody and failed for nobody.
THEOREM MessagesAreSound == Spec => []MessagesSound
<1>1. IInv => MessagesSound
  BY Parts DEF MessagesSound, MessageInv
<1> QED
  BY <1>1, Invariance, PTL
=============================================================================
