---------------------------- MODULE Services_proofs ----------------------------
(***************************************************************************)
(* For every set of services, whatever depends on what, is slow or fails,  *)
(* and any number of restarts and requests: the types of the machines and  *)
(* of the driver, and that no service runs on one that is down.  If every  *)
(* start succeeds and no service depends on itself, no machine stops half  *)
(* way; without a restart no Deferred of the driver is forgotten.          *)
(***************************************************************************)
EXTENDS Services, WellFoundedInduction, FiniteSetTheorems, SequenceTheorems, TLAPS

USE ServicesAssumption

-----------------------------------------------------------------------------
(* The inductive invariant.  The handlers of the driver are chains over    *)
(* its record d, so what it may hold is said of the record.                *)

Mail == {FinishStartingCall, FinishStopingCall}
        \cup [ev : Events, to : Service, cb : Waiters \cup {NoWaiter}]
Subscribers == {"own", "dep"} \X Restart
Deferreds == [state : {"none", "pending", "fired"}, left : SUBSET Service,
              subs : Seq(Subscribers)]
Phases == {"idle", "waiting", "stopping", "starting", "done", "failed"}
Rounds == [phase : Phases, svc : Service \cup {Idle.svc},
           waits : SUBSET {"stop", "start", "timer"}]
Drivers == [mail : Seq(Mail), state : [Service -> States], starting : Deferreds,
            stoping : Deferreds, restarts : [Restart -> Rounds]]

\* A group's Deferred is pending exactly while it waits for a service; a restart
\* that was begun has a service, and waits for nothing once it acts.
Groups(x) == x.state = "pending" <=> x.left # {}
Begun(x) == x.phase # "idle"
Acts(x) == Begun(x) /\ x.waits = {}
Round(x) == (Begun(x) => x.svc \in Service) /\ (x.waits # {} => x.phase = "waiting")

\* Who subscribed to a Deferred has begun, and acts if the callback is its own.
Awaited(restart, subs) ==
    \A i \in DOMAIN subs : /\ Begun(restart[subs[i][2]])
                           /\ subs[i][1] = "own" => Acts(restart[subs[i][2]])

Fine(d) ==
    /\ d \in Drivers
    /\ Groups(d.starting) /\ Groups(d.stoping)
    /\ \A r \in Restart : Round(d.restarts[r])
    /\ Awaited(d.restarts, d.starting.subs) /\ Awaited(d.restarts, d.stoping.subs)

\* The events doStartService() sends.
Outcomes == {"service-started", "service-failed", "service-not-installed",
             "service-depend-off"}

\* What the driver adds to the mail is no such event.
Follows(q, p) ==
    /\ Len(q) <= Len(p)
    /\ \A i \in 1 .. Len(q) : p[i] = q[i]
    /\ \A i \in 1 .. Len(p) : i > Len(q) => p[i].ev \notin Outcomes

\* What a chain of handlers makes of d: the machines stay, who has begun stays so.
From(d, e) ==
    /\ e.state = d.state
    /\ Follows(d.mail, e.mail)
    /\ \A r \in Restart : /\ Begun(d.restarts[r]) => Begun(e.restarts[r])
                          /\ Acts(d.restarts[r]) => Acts(e.restarts[r])

IsOutcome(q, s, i) == q[i].ev \in Outcomes /\ q[i].to = s
NoOutcome(q, s) == \A i \in DOMAIN q : ~IsOutcome(q, s, i)
OneOutcome(q, s, ev) ==
    \E i \in DOMAIN q : q[i] = Tell(s, ev) /\ \A j \in DOMAIN q : IsOutcome(q, s, j) => j = i

\* While a machine is STARTING either the Deferred of its start() has not fired or
\* one event on its way tells what came of it; in the other states neither is
\* there, and the service runs if the machine says so.
Machine(st, isUp, isOpening, q, s) ==
    \/ st \in {"ON", "INFLUENCE"} /\ isUp /\ ~isOpening /\ NoOutcome(q, s)
    \/ st \in Down \cup {"STOPPING"} /\ ~isUp /\ ~isOpening /\ NoOutcome(q, s)
    \/ st = "STARTING" /\ isOpening /\ ~isUp /\ NoOutcome(q, s)
    \/ /\ st = "STARTING" /\ ~isOpening
       /\ \E ev \in Outcomes : OneOutcome(q, s, ev) /\ (ev = "service-started" <=> isUp)

MachineInv == \A s \in Service : Machine(state[s], s \in up, s \in opening, mail, s)

RestPart ==
    /\ needStart \in [Service -> BOOLEAN] /\ needStop \in [Service -> BOOLEAN]
    /\ waiters \in [Service -> Seq(Waiters)]
    /\ enabled \subseteq Service /\ up \subseteq Service /\ opening \subseteq Service
    /\ requests \in 0 .. MaxRequests

IInv == Fine(Driver(mail, state)) /\ RestPart /\ MachineInv /\ DependenciesUp

-----------------------------------------------------------------------------
(* What a walk over a list computes step by step.                          *)

Keeps(N, T, g) == g[0] \in T /\ \A n \in 1 .. N : g[n - 1] \in T => g[n] \in T
Steps(N, T, b, step) == b \in T /\ \A n \in 1 .. N : \A x \in T : step[n][x] \in T

\* What holds at the beginning and is kept by each step holds all the way.
LEMMA AllTheWay ==
  ASSUME NEW N \in Nat, NEW T, NEW g, Keeps(N, T, g)
  PROVE  \A n \in 0 .. N : g[n] \in T
<1> USE DEF Keeps
<1> DEFINE S == {n \in 0 .. N : g[n] \notin T}
           R == OpToRel(<, Nat)
<1>1. IsWellFoundedOn(R, Nat)
  BY NatLessThanWellFounded
<1>2. \A k, m \in Nat : k < m => <<k, m>> \in R
  BY DEF OpToRel
<1> HIDE DEF R
<1>3. CASE S = {}
  BY <1>3
<1>4. CASE S # {}
  <2>1. S \subseteq Nat
    OBVIOUS
  <2>2. PICK m \in S : \A k \in S : ~(<<k, m>> \in R)
    BY <1>1, <1>4, <2>1, WFMin
  <2>3. m \in 1 .. N /\ m - 1 \in 0 .. N /\ m - 1 < m /\ m - 1 \in Nat /\ m \in Nat
    BY <2>2
  <2>4. m - 1 \notin S
    BY <1>2, <2>2, <2>3
  <2> QED
    BY <2>2, <2>3, <2>4
<1> QED
  BY <1>3, <1>4

\* There is a function that takes the steps.
LEMMA WalkExists ==
  ASSUME NEW N \in Nat, NEW T, NEW b, NEW step, Steps(N, T, b, step)
  PROVE  \E f \in [0 .. N -> T] : f[0] = b /\ \A n \in 1 .. N : f[n] = step[n][f[n - 1]]
<1> DEFINE Walks(m) == {f \in [0 .. m -> T] : /\ f[0] = b
                                               /\ \A n \in 1 .. m : f[n] = step[n][f[n - 1]]}
           Reached == {m \in 0 .. N : Walks(m) # {}}
           g == [m \in 0 .. N |-> m]
<1> USE DEF Steps
<1>1. [n \in 0 .. 0 |-> b] \in Walks(0)
  OBVIOUS
<1>2. ASSUME NEW m \in 1 .. N, NEW f \in Walks(m - 1)
      PROVE  Walks(m) # {}
  <2> DEFINE h == [n \in 0 .. m |-> IF n = m THEN step[m][f[m - 1]] ELSE f[n]]
  <2>0. /\ f \in [0 .. m - 1 -> T] /\ f[0] = b
        /\ \A n \in 1 .. m - 1 : f[n] = step[n][f[n - 1]]
    BY <1>2
  <2>1. f[m - 1] \in T /\ step[m][f[m - 1]] \in T
    BY <2>0
  <2>2. h \in [0 .. m -> T]
    BY <2>0, <2>1
  <2>3. h[0] = b
    BY <2>0
  <2>4. ASSUME NEW n \in 1 .. m PROVE h[n] = step[n][h[n - 1]]
    <3>1. CASE n = m
      BY <3>1
    <3>2. CASE n # m
      <4>1. n \in 1 .. m - 1 /\ h[n] = f[n] /\ h[n - 1] = f[n - 1]
        BY <3>2
      <4> QED
        BY <2>0, <4>1
    <3> QED
      BY <3>1, <3>2
  <2> HIDE DEF h
  <2>5. h \in Walks(m)
    BY <2>2, <2>3, <2>4
  <2> QED
    BY <2>5
<1> HIDE DEF Walks
<1>3. 0 \in Reached
  BY <1>1
<1>4. ASSUME NEW m \in 1 .. N, m - 1 \in Reached
      PROVE  m \in Reached
  <2>1. PICK f : f \in Walks(m - 1)
    BY <1>4
  <2> QED
    BY <1>2, <2>1
<1>5. N \in Reached
  <2> HIDE DEF Reached
  <2>1. g[0] = 0 /\ g[N] = N /\ \A m \in 1 .. N : g[m] = m /\ g[m - 1] = m - 1
    OBVIOUS
  <2>2. Keeps(N, Reached, g)
    BY <1>3, <1>4, <2>1 DEF Keeps
  <2> HIDE DEF g
  <2>3. \A n \in 0 .. N : g[n] \in Reached
    BY <2>2, AllTheWay
  <2> QED
    BY <2>1, <2>3
<1>6. Walks(N) # {}
  BY <1>5
<1> QED
  BY <1>6 DEF Walks

\* Some services in the order of services() are a list of those services.
LEMMA InOrderIs ==
  \A some : /\ InOrder(some) \in Seq(Service)
            /\ \A s \in some \cap Service :
                 \E i \in DOMAIN InOrder(some) : InOrder(some)[i] = s
<1> SUFFICES ASSUME NEW some
             PROVE  /\ InOrder(some) \in Seq(Service)
                    /\ \A s \in some \cap Service :
                         \E i \in DOMAIN InOrder(some) : InOrder(some)[i] = s
  OBVIOUS
<1>0. PICK N \in Nat : N = Len(Loaded)
  OBVIOUS
<1>1. /\ \A n \in 1 .. N : Loaded[n] \in Service
      /\ \A s \in Service : \E n \in 1 .. N : Loaded[n] = s
  <2>1. \A s \in Range(Loaded) : \E n \in DOMAIN Loaded : Loaded[n] = s
    BY DEF Range
  <2>2. DOMAIN Loaded = 1 .. N
    BY <1>0
  <2> QED
    BY <2>1, <2>2
<1> DEFINE T == Seq(Service)
           Step(n, x) == IF Loaded[n] \in some THEN Append(x, Loaded[n]) ELSE x
           step == [n \in 1 .. N |-> [x \in T |-> Step(n, x)]]
           chosen[n \in 0 .. N] ==
             IF n = 0 THEN <<>>
             ELSE IF Loaded[n] \in some THEN Append(chosen[n - 1], Loaded[n])
             ELSE chosen[n - 1]
           In(s, l) == \E i \in DOMAIN l : l[i] = s
<1>2. \A n \in 1 .. N : \A x \in T : Step(n, x) \in T
  BY <1>1
<1>3. \E f \in [0 .. N -> T] : f[0] = <<>> /\ \A n \in 1 .. N : f[n] = step[n][f[n - 1]]
  <2>1. Steps(N, T, <<>>, step)
    BY <1>2 DEF Steps
  <2> HIDE DEF step, T
  <2> QED
    BY <2>1, WalkExists
<1>4. PICK f \in [0 .. N -> T] : f[0] = <<>> /\ \A n \in 1 .. N : f[n] = step[n][f[n - 1]]
  BY <1>3
<1>5. f = [n \in 0 .. N |-> IF n = 0 THEN <<>>
                            ELSE IF Loaded[n] \in some THEN Append(f[n - 1], Loaded[n])
                            ELSE f[n - 1]]
  <2> SUFFICES ASSUME NEW n \in 0 .. N
               PROVE  f[n] = IF n = 0 THEN <<>>
                             ELSE IF Loaded[n] \in some THEN Append(f[n - 1], Loaded[n])
                             ELSE f[n - 1]
    BY <1>4
  <2>1. CASE n = 0
    BY <1>4, <2>1
  <2>2. CASE n # 0
    <3>1. n \in 1 .. N /\ f[n - 1] \in T
      BY <1>4, <2>2
    <3>2. f[n] = Step(n, f[n - 1])
      BY <1>4, <3>1
    <3> QED
      BY <2>2, <3>2
  <2> QED
    BY <2>1, <2>2
<1> DEFINE F == [n \in 0 .. N |-> IF n = 0 THEN <<>>
                                  ELSE IF Loaded[n] \in some
                                  THEN Append(chosen[n - 1], Loaded[n])
                                  ELSE chosen[n - 1]]
<1>6. chosen = F
  BY <1>5 DEF chosen
<1>7. InOrder(some) = chosen[N]
  BY <1>0 DEF InOrder, chosen
<1> HIDE DEF chosen
<1>8. /\ chosen[0] = <<>>
      /\ \A n \in 1 .. N : chosen[n] = IF Loaded[n] \in some
                                       THEN Append(chosen[n - 1], Loaded[n])
                                       ELSE chosen[n - 1]
  <2>1. F[0] = <<>> /\ \A n \in 1 .. N : F[n] = IF Loaded[n] \in some
                                                THEN Append(chosen[n - 1], Loaded[n])
                                                ELSE chosen[n - 1]
    OBVIOUS
  <2> HIDE DEF F
  <2> QED
    BY <1>6, <2>1
<1> DEFINE Holds(n) == /\ chosen[n] \in Seq(Service)
                       /\ \A k \in 1 .. n : Loaded[k] \in some => In(Loaded[k], chosen[n])
           Reached == {n \in 0 .. N : Holds(n)}
           g == [n \in 0 .. N |-> n]
<1>9. Holds(0)
  BY <1>8, EmptySeq
<1>10. ASSUME NEW n \in 1 .. N, Holds(n - 1) PROVE Holds(n)
  <2> DEFINE l == chosen[n - 1]
             x == Loaded[n]
  <2>1. l \in Seq(Service) /\ x \in Service /\ n \in Nat
    BY <1>1, <1>10
  <2>2. \A k \in 1 .. n - 1 : Loaded[k] \in some => In(Loaded[k], l)
    BY <1>10
  <2>3. chosen[n] = IF x \in some THEN Append(l, x) ELSE l
    BY <1>8
  <2> HIDE DEF l, x
  <2>4. /\ Append(l, x) \in Seq(Service) /\ In(x, Append(l, x))
        /\ \A s : In(s, l) => In(s, Append(l, x))
    <3>1. PICK m \in Nat : m = Len(l) /\ DOMAIN l = 1 .. m
      BY <2>1
    <3>2. /\ Append(l, x) \in Seq(Service) /\ DOMAIN Append(l, x) = 1 .. m + 1
          /\ Append(l, x)[m + 1] = x /\ \A i \in 1 .. m : Append(l, x)[i] = l[i]
      BY <2>1, <3>1
    <3>3. m + 1 \in 1 .. m + 1 /\ \A i \in 1 .. m : i \in 1 .. m + 1
      OBVIOUS
    <3> QED
      BY <3>1, <3>2, <3>3
  <2>5. chosen[n] \in Seq(Service) /\ \A s : In(s, l) => In(s, chosen[n])
    BY <2>1, <2>3, <2>4
  <2>6. x \in some => In(x, chosen[n])
    BY <2>3, <2>4
  <2> HIDE DEF In
  <2>7. ASSUME NEW k \in 1 .. n, Loaded[k] \in some PROVE In(Loaded[k], chosen[n])
    <3>1. CASE k = n
      BY <2>6, <2>7, <3>1 DEF x
    <3>2. CASE k # n
      <4>1. k \in 1 .. n - 1
        BY <2>1, <3>2
      <4> QED
        BY <2>2, <2>5, <2>7, <4>1
    <3> QED
      BY <3>1, <3>2
  <2> QED
    BY <2>5, <2>7
<1>11. Holds(N)
  <2> HIDE DEF Holds
  <2>1. 0 \in Reached
    BY <1>9
  <2>2. \A n \in 1 .. N : n - 1 \in Reached => n \in Reached
    BY <1>10
  <2> HIDE DEF Reached
  <2>3. Keeps(N, Reached, g)
    <3>1. g[0] = 0 /\ \A n \in 1 .. N : g[n] = n /\ g[n - 1] = n - 1
      OBVIOUS
    <3> HIDE DEF g
    <3> QED
      BY <2>1, <2>2, <3>1 DEF Keeps
  <2>4. g[N] = N /\ N \in 0 .. N
    OBVIOUS
  <2> HIDE DEF g
  <2>5. N \in Reached
    BY <2>3, <2>4, AllTheWay
  <2> QED
    BY <2>5 DEF Reached
<1>12. ASSUME NEW s \in some \cap Service PROVE In(s, chosen[N])
  <2>1. PICK n \in 1 .. N : Loaded[n] = s
    BY <1>1
  <2> QED
    BY <1>11, <2>1
<1> QED
  BY <1>7, <1>11, <1>12

LEMMA InOrderType == \A some : InOrder(some) \in Seq(Service)
  BY InOrderIs

-----------------------------------------------------------------------------
(* The lists of the driver.                                                *)

\* To follow is to stay the same or to add events that are no outcome, and
\* what follows what follows follows.
LEMMA FollowsSelf == \A q \in Seq(Mail) : Follows(q, q)
  BY DEF Follows

LEMMA FollowsOn ==
  ASSUME NEW p \in Seq(Mail), NEW q \in Seq(Mail), NEW t \in Seq(Mail),
         Follows(p, q), Follows(q, t)
  PROVE  Follows(p, t)
<1>1. Len(p) <= Len(q) /\ Len(q) <= Len(t) /\ Len(p) \in Nat /\ Len(q) \in Nat /\ Len(t) \in Nat
  BY DEF Follows
<1>2. ASSUME NEW i \in 1 .. Len(p) PROVE t[i] = p[i]
  <2>1. i \in 1 .. Len(q)
    BY <1>1
  <2> QED
    BY <2>1 DEF Follows
<1>3. ASSUME NEW i \in 1 .. Len(t), i > Len(p) PROVE t[i].ev \notin Outcomes
  <2>1. CASE i <= Len(q)
    <3>1. i \in 1 .. Len(q) /\ t[i] = q[i]
      BY <1>1, <2>1 DEF Follows
    <3> QED
      BY <1>3, <3>1 DEF Follows
  <2>2. CASE ~(i <= Len(q))
    BY <1>1, <2>2 DEF Follows
  <2> QED
    BY <2>1, <2>2
<1> QED
  BY <1>1, <1>2, <1>3 DEF Follows

LEMMA MailAppend ==
  ASSUME NEW q \in Seq(Mail), NEW x \in Mail, x.ev \notin Outcomes
  PROVE  Append(q, x) \in Seq(Mail) /\ Follows(q, Append(q, x))
<1>1. Append(q, x) \in Seq(Mail) /\ Len(Append(q, x)) = Len(q) + 1 /\ Len(q) \in Nat
  OBVIOUS
<1>2. \A i \in 1 .. Len(q) : Append(q, x)[i] = q[i]
  OBVIOUS
<1>3. Append(q, x)[Len(q) + 1] = x
  OBVIOUS
<1>4. ASSUME NEW i \in 1 .. Len(q) + 1, i > Len(q) PROVE Append(q, x)[i].ev \notin Outcomes
  <2>1. i = Len(q) + 1
    BY <1>1, <1>4
  <2> QED
    BY <1>3, <2>1
<1> QED
  BY <1>1, <1>2, <1>4 DEF Follows

LEMMA MailConcat ==
  ASSUME NEW q \in Seq(Mail), NEW p \in Seq(Mail),
         \A i \in 1 .. Len(p) : p[i].ev \notin Outcomes
  PROVE  q \o p \in Seq(Mail) /\ Follows(q, q \o p)
<1>1. /\ q \o p \in Seq(Mail) /\ Len(q \o p) = Len(q) + Len(p)
      /\ \A i \in 1 .. Len(q) + Len(p) :
           (q \o p)[i] = IF i <= Len(q) THEN q[i] ELSE p[i - Len(q)]
  BY ConcatProperties
<1>2. Len(q) \in Nat /\ Len(p) \in Nat
  OBVIOUS
<1>3. ASSUME NEW i \in 1 .. Len(q) PROVE (q \o p)[i] = q[i]
  BY <1>1, <1>2
<1>4. ASSUME NEW i \in 1 .. Len(q) + Len(p), i > Len(q)
      PROVE  (q \o p)[i].ev \notin Outcomes
  <2>1. i - Len(q) \in 1 .. Len(p)
    BY <1>2, <1>4
  <2>2. (q \o p)[i] = p[i - Len(q)]
    BY <1>1, <1>2, <1>4
  <2> QED
    BY <2>1, <2>2
<1>5. Len(q) <= Len(q \o p)
  BY <1>1, <1>2
<1> QED
  BY <1>1, <1>3, <1>4, <1>5 DEF Follows

\* An event for each service of a list.
LEMMA TellAllIs ==
  ASSUME NEW order \in Seq(Service), NEW ev \in Events \ Outcomes
  PROVE  /\ TellAll(order, ev) \in Seq(Mail)
         /\ \A i \in 1 .. Len(TellAll(order, ev)) : TellAll(order, ev)[i].ev \notin Outcomes
<1>1. PICK n \in Nat : n = Len(order) /\ DOMAIN order = 1 .. n
  OBVIOUS
<1>2. \A s \in Service : Tell(s, ev) \in Mail /\ Tell(s, ev).ev = ev
  BY DEF Tell, Event, Mail
<1>3. TellAll(order, ev) = [i \in 1 .. n |-> Tell(order[i], ev)]
  BY <1>1 DEF TellAll
<1>4. \A i \in 1 .. n : order[i] \in Service
  BY <1>1
<1> HIDE DEF Mail
<1>5. [i \in 1 .. n |-> Tell(order[i], ev)] \in Seq(Mail)
  BY <1>2, <1>4
<1>6. Len(TellAll(order, ev)) = n
  BY <1>3
<1> QED
  BY <1>2, <1>3, <1>4, <1>5, <1>6

\* What the driver sends itself and the services.
LEMMA CallsInMail ==
  /\ FinishStartingCall \in Mail /\ FinishStartingCall.ev \notin Outcomes
  /\ FinishStopingCall \in Mail /\ FinishStopingCall.ev \notin Outcomes
  /\ \A ev \in Events, s \in Service, w \in Waiters \cup {NoWaiter} :
       /\ Event(ev, s, w) \in Mail /\ Event(ev, s, w).ev = ev /\ Event(ev, s, w).to = s
  BY DEF Mail, FinishStartingCall, FinishStopingCall, Event, Outcomes

-----------------------------------------------------------------------------
(* What each handler of the driver makes of its record.                    *)

Onward(d, e) == Fine(e) /\ From(d, e)

LEMMA FromSelf == \A d : Fine(d) => Onward(d, d)
<1> SUFFICES ASSUME NEW d, Fine(d) PROVE From(d, d)
  BY DEF Onward
<1>1. d.mail \in Seq(Mail)
  BY DEF Fine, Drivers
<1> QED
  BY <1>1, FollowsSelf DEF From

LEMMA FromOn ==
  ASSUME NEW d, NEW e, NEW f, Fine(d), Onward(d, e), Onward(e, f)
  PROVE  Onward(d, f)
<1>1. d.mail \in Seq(Mail) /\ e.mail \in Seq(Mail) /\ f.mail \in Seq(Mail)
  BY DEF Onward, Fine, Drivers
<1>2. Follows(d.mail, f.mail)
  BY <1>1, FollowsOn DEF Onward, From
<1> QED
  BY <1>2 DEF Onward, From

\* Who is on a list after restart r moved: who was there, or r.
Joined(x, r, old, new) ==
    \A i \in DOMAIN new : \/ i \in DOMAIN old /\ new[i] = old[i]
                          \/ new[i] = <<"dep", r>>
                          \/ new[i] = <<"own", r>> /\ Acts(x)

\* Restart r moves and the others stay.
Moved(d, e, r) ==
    /\ e.state = d.state /\ Follows(d.mail, e.mail)
    /\ \A q \in Restart : q # r => e.restarts[q] = d.restarts[q]
    /\ Begun(e.restarts[r]) /\ Round(e.restarts[r])
    /\ Acts(d.restarts[r]) => Acts(e.restarts[r])
    /\ Groups(e.starting) /\ Groups(e.stoping)
    /\ Joined(e.restarts[r], r, d.starting.subs, e.starting.subs)
    /\ Joined(e.restarts[r], r, d.stoping.subs, e.stoping.subs)

LEMMA SubscribersAre ==
  ASSUME NEW d \in Drivers
  PROVE  /\ \A i \in DOMAIN d.starting.subs : /\ d.starting.subs[i] \in Subscribers
                                              /\ d.starting.subs[i][2] \in Restart
         /\ \A i \in DOMAIN d.stoping.subs : /\ d.stoping.subs[i] \in Subscribers
                                             /\ d.stoping.subs[i][2] \in Restart
<1>1. d.starting.subs \in Seq(Subscribers) /\ d.stoping.subs \in Seq(Subscribers)
  BY DEF Drivers, Deferreds
<1>2. \A u \in Subscribers : u[2] \in Restart
  BY DEF Subscribers
<1> HIDE DEF Subscribers
<1> QED
  BY <1>1, <1>2

LEMMA MovedOn ==
  ASSUME NEW d, Fine(d), NEW e \in Drivers, NEW r \in Restart, Moved(d, e, r)
  PROVE  Onward(d, e)
<1>1. \A q \in Restart : /\ Begun(d.restarts[q]) => Begun(e.restarts[q])
                         /\ Acts(d.restarts[q]) => Acts(e.restarts[q])
                         /\ Round(e.restarts[q])
  BY DEF Moved, Fine
<1>2. From(d, e)
  BY <1>1 DEF From, Moved
<1>3. d \in Drivers
  BY DEF Fine
<1>4. ASSUME NEW old, NEW new, Awaited(d.restarts, old),
             \A i \in DOMAIN old : old[i][2] \in Restart,
             Joined(e.restarts[r], r, old, new)
      PROVE  Awaited(e.restarts, new)
  BY <1>1, <1>4 DEF Awaited, Joined, Moved
<1>5. Awaited(e.restarts, e.starting.subs)
  BY <1>3, <1>4, SubscribersAre DEF Moved, Fine
<1>6. Awaited(e.restarts, e.stoping.subs)
  BY <1>3, <1>4, SubscribersAre DEF Moved, Fine
<1> QED
  BY <1>1, <1>2, <1>5, <1>6 DEF Onward, Fine, Moved

\* A restart ends.
LEMMA EndsOn ==
  ASSUME NEW d, Fine(d), NEW r \in Restart, Begun(d.restarts[r]), NEW how \in {"done", "failed"}
  PROVE  Onward(d, Ends(d, r, how))
<1> DEFINE e == Ends(d, r, how)
<1>1. d \in Drivers
  BY DEF Fine
<1>2. /\ e.mail = d.mail /\ e.state = d.state /\ e.starting = d.starting
      /\ e.stoping = d.stoping
      /\ \A q \in Restart : q # r => e.restarts[q] = d.restarts[q]
      /\ e.restarts[r].phase = how /\ e.restarts[r].waits = {}
      /\ e.restarts[r].svc = d.restarts[r].svc
  BY <1>1 DEF Ends, Drivers, Rounds
<1>3. e \in Drivers
  <2> DEFINE x == [d.restarts[r] EXCEPT !.phase = how, !.waits = {}]
  <2>1. d.restarts \in [Restart -> Rounds]
    BY <1>1 DEF Drivers
  <2>2. x \in Rounds
    <3>1. d.restarts[r] \in Rounds
      BY <2>1
    <3> QED
      BY <3>1 DEF Rounds, Phases
  <2>3. e = [d EXCEPT !.restarts = [@ EXCEPT ![r] = x]]
    BY DEF Ends
  <2> HIDE DEF x
  <2>4. [d.restarts EXCEPT ![r] = x] \in [Restart -> Rounds]
    BY <2>1, <2>2
  <2> HIDE DEF e
  <2> QED
    BY <1>1, <2>3, <2>4 DEF Drivers
<1> HIDE DEF e
<1>4. Begun(e.restarts[r]) /\ Round(e.restarts[r]) /\ Acts(e.restarts[r])
  BY <1>2 DEF Begun, Round, Acts, Fine
<1>5. Moved(d, e, r)
  <2>1. Follows(d.mail, e.mail)
    BY <1>1, <1>2, FollowsSelf DEF Drivers
  <2> QED
    BY <1>2, <1>4, <2>1 DEF Moved, Joined, Fine
<1> QED
  BY <1>3, <1>5, MovedOn DEF e

\* One restart moves, with the mail and the Deferreds.
LEMMA SetOn ==
  ASSUME NEW d, Fine(d), NEW r \in Restart, NEW x \in Rounds,
         NEW m \in Seq(Mail), NEW a \in Deferreds, NEW b \in Deferreds,
         Follows(d.mail, m), Begun(x), Round(x), Acts(d.restarts[r]) => Acts(x),
         Groups(a), Groups(b),
         Joined(x, r, d.starting.subs, a.subs), Joined(x, r, d.stoping.subs, b.subs)
  PROVE  Onward(d, [d EXCEPT !.mail = m, !.starting = a, !.stoping = b,
                             !.restarts = [@ EXCEPT ![r] = x]])
<1> DEFINE e == [d EXCEPT !.mail = m, !.starting = a, !.stoping = b,
                          !.restarts = [@ EXCEPT ![r] = x]]
<1>1. d \in Drivers
  BY DEF Fine
<1>2. /\ e \in Drivers
      /\ e.mail = m /\ e.state = d.state /\ e.starting = a /\ e.stoping = b
      /\ e.restarts[r] = x
      /\ \A q \in Restart : q # r => e.restarts[q] = d.restarts[q]
  <2>1. d.restarts \in [Restart -> Rounds] /\ [d.restarts EXCEPT ![r] = x] \in [Restart -> Rounds]
    BY <1>1 DEF Drivers
  <2> QED
    BY <1>1, <2>1 DEF Drivers
<1> HIDE DEF e
<1>3. Moved(d, e, r)
  BY <1>2 DEF Moved
<1>4. Onward(d, e)
  BY <1>2, <1>3, MovedOn
<1> QED
  BY <1>4 DEF e

LEMMA JoinedSelf == \A x, r, old : Joined(x, r, old, old)
  BY DEF Joined

LEMMA JoinedNew ==
  ASSUME NEW x, NEW r, Acts(x), NEW old
  PROVE  Joined(x, r, old, << <<"own", r>> >>)
<1> DEFINE u == <<"own", r>>
<1>1. \A i \in DOMAIN <<u>> : <<u>>[i] = u
  OBVIOUS
<1> QED
  BY <1>1 DEF Joined

\* Restart r with another phase is one still.
LEMMA Phased ==
  ASSUME NEW x \in Rounds, NEW how \in Phases
  PROVE  LET y == [x EXCEPT !.phase = how] IN
         y \in Rounds /\ y.phase = how /\ y.waits = x.waits /\ y.svc = x.svc
  BY DEF Rounds

LEMMA Subscribed ==
  ASSUME NEW a \in Deferreds, NEW u \in Subscribers
  PROVE  LET b == [a EXCEPT !.subs = Append(@, u)] IN
         /\ b \in Deferreds /\ b.state = a.state /\ b.left = a.left
         /\ \A i \in DOMAIN b.subs : \/ i \in DOMAIN a.subs /\ b.subs[i] = a.subs[i]
                                     \/ b.subs[i] = u
<1>1. a.subs \in Seq(Subscribers)
  BY DEF Deferreds
<1>2. /\ Append(a.subs, u) \in Seq(Subscribers)
      /\ \A i \in DOMAIN Append(a.subs, u) :
           \/ i \in DOMAIN a.subs /\ Append(a.subs, u)[i] = a.subs[i]
           \/ Append(a.subs, u)[i] = u
  <2> HIDE DEF Subscribers
  <2> QED
    BY <1>1
<1> HIDE DEF Subscribers
<1> QED
  BY <1>1, <1>2 DEF Deferreds

LEMMA NewGroup ==
  ASSUME NEW s \in Service, NEW u \in Subscribers
  PROVE  LET b == Pending({s}, <<u>>) IN
         /\ b \in Deferreds /\ Groups(b) /\ b.subs = <<u>>
<1> HIDE DEF Subscribers
<1>1. <<u>> \in Seq(Subscribers)
  OBVIOUS
<1> QED
  BY <1>1 DEF Pending, Deferreds, Groups

\* A restart starts its service, or waits for the services that are starting.
LEMMA DoStartOn ==
  ASSUME NEW d, Fine(d), NEW r \in Restart, Acts(d.restarts[r])
  PROVE  Onward(d, DoStart(d, r))
<1> DEFINE e == DoStart(d, r)
           s == d.restarts[r].svc
           u == <<"own", r>>
           x == [d.restarts[r] EXCEPT !.phase = "starting"]
<1>1. /\ d \in Drivers /\ d.restarts[r] \in Rounds /\ s \in Service /\ u \in Subscribers
      /\ Begun(d.restarts[r]) /\ d.mail \in Seq(Mail) /\ d.stoping \in Deferreds
      /\ d.starting \in Deferreds /\ "starting" \in Phases
  BY DEF Fine, Drivers, Acts, Round, Subscribers, Phases
<1>2. /\ x \in Rounds /\ x.phase = "starting" /\ x.waits = d.restarts[r].waits
      /\ x.svc = s
  BY <1>1, Phased
<1>3. Begun(x) /\ Round(x) /\ Acts(x)
  BY <1>1, <1>2 DEF Begun, Round, Acts
<1>4. Groups(d.starting) /\ Groups(d.stoping)
  BY DEF Fine
<1> HIDE DEF x
<1>5. CASE d.starting.state # "none"
  <2> DEFINE a == [d.starting EXCEPT !.subs = Append(@, u)]
  <2>1. a \in Deferreds /\ Groups(a) /\ Joined(x, r, d.starting.subs, a.subs)
    <3>1. /\ a \in Deferreds /\ a.state = d.starting.state /\ a.left = d.starting.left
          /\ \A i \in DOMAIN a.subs : \/ i \in DOMAIN d.starting.subs /\ a.subs[i] = d.starting.subs[i]
                                      \/ a.subs[i] = u
      BY <1>1, Subscribed
    <3> HIDE DEF a
    <3>2. Groups(a)
      BY <1>4, <3>1 DEF Groups
    <3> QED
      BY <1>3, <3>1, <3>2 DEF Joined
  <2>2. e = [d EXCEPT !.mail = d.mail, !.starting = a, !.stoping = d.stoping,
                      !.restarts = [@ EXCEPT ![r] = x]]
    BY <1>1, <1>5 DEF DoStart, x, Drivers
  <2> HIDE DEF a, e
  <2>3. Follows(d.mail, d.mail) /\ Joined(x, r, d.stoping.subs, d.stoping.subs)
    BY <1>1, FollowsSelf, JoinedSelf
  <2>4. Onward(d, e)
    BY <1>1, <1>2, <1>3, <1>4, <2>1, <2>2, <2>3, SetOn
  <2> QED
    BY <2>4 DEF e
<1>6. CASE /\ d.starting.state = "none"
           /\ d.stoping.state = "pending" \/ s \notin enabled \/ d.state[s] = "ON"
  <2>1. e = Ends(d, r, "failed") \/ e = Ends(d, r, "done")
    BY <1>6 DEF DoStart
  <2> QED
    BY <1>1, <2>1, EndsOn
<1>7. CASE /\ d.starting.state = "none"
           /\ ~(d.stoping.state = "pending" \/ s \notin enabled \/ d.state[s] = "ON")
  <2> DEFINE a == Pending({s}, <<u>>)
             m == Append(d.mail, Event("start", s, "start-group"))
  <2>1. a \in Deferreds /\ Groups(a) /\ a.subs = <<u>>
    BY <1>1, NewGroup
  <2>2. Event("start", s, "start-group") \in Mail /\ Event("start", s, "start-group").ev \notin Outcomes
    BY <1>1, CallsInMail DEF Events, Waiters, Outcomes
  <2>3. m \in Seq(Mail) /\ Follows(d.mail, m)
    BY <1>1, <2>2, MailAppend
  <2>4. e = [d EXCEPT !.mail = m, !.starting = a, !.stoping = d.stoping,
                      !.restarts = [@ EXCEPT ![r] = x]]
    BY <1>1, <1>7 DEF DoStart, x, Drivers
  <2>5. /\ Joined(x, r, d.starting.subs, a.subs)
        /\ Joined(x, r, d.stoping.subs, d.stoping.subs)
    BY <1>3, <2>1, JoinedNew, JoinedSelf
  <2> HIDE DEF a, e, m
  <2>6. Onward(d, e)
    BY <1>1, <1>2, <1>3, <1>4, <2>1, <2>3, <2>4, <2>5, SetOn
  <2> QED
    BY <2>6 DEF e
<1> QED
  BY <1>5, <1>6, <1>7
\* A restart stops its service, or waits for the services that are stopping.
LEMMA DoStopOn ==
  ASSUME NEW d, Fine(d), NEW r \in Restart, Acts(d.restarts[r])
  PROVE  Onward(d, DoStop(d, r))
<1> DEFINE e == DoStop(d, r)
           s == d.restarts[r].svc
           u == <<"own", r>>
           x == [d.restarts[r] EXCEPT !.phase = "stopping"]
<1>1. /\ d \in Drivers /\ d.restarts[r] \in Rounds /\ s \in Service /\ u \in Subscribers
      /\ Begun(d.restarts[r]) /\ d.mail \in Seq(Mail) /\ d.stoping \in Deferreds
      /\ d.starting \in Deferreds /\ "stopping" \in Phases
  BY DEF Fine, Drivers, Acts, Round, Subscribers, Phases
<1>2. /\ x \in Rounds /\ x.phase = "stopping" /\ x.waits = d.restarts[r].waits
      /\ x.svc = s
  BY <1>1, Phased
<1>3. Begun(x) /\ Round(x) /\ Acts(x)
  BY <1>1, <1>2 DEF Begun, Round, Acts
<1>4. Groups(d.starting) /\ Groups(d.stoping)
  BY DEF Fine
<1> HIDE DEF x
<1>5. CASE d.stoping.state # "none"
  <2> DEFINE b == [d.stoping EXCEPT !.subs = Append(@, u)]
  <2>1. b \in Deferreds /\ Groups(b) /\ Joined(x, r, d.stoping.subs, b.subs)
    <3>1. /\ b \in Deferreds /\ b.state = d.stoping.state /\ b.left = d.stoping.left
          /\ \A i \in DOMAIN b.subs : \/ i \in DOMAIN d.stoping.subs /\ b.subs[i] = d.stoping.subs[i]
                                      \/ b.subs[i] = u
      BY <1>1, Subscribed
    <3> HIDE DEF b
    <3>2. Groups(b)
      BY <1>4, <3>1 DEF Groups
    <3> QED
      BY <1>3, <3>1, <3>2 DEF Joined
  <2>2. e = [d EXCEPT !.mail = d.mail, !.starting = d.starting, !.stoping = b,
                      !.restarts = [@ EXCEPT ![r] = x]]
    BY <1>1, <1>5 DEF DoStop, x, Drivers
  <2> HIDE DEF b, e
  <2>3. Follows(d.mail, d.mail) /\ Joined(x, r, d.starting.subs, d.starting.subs)
    BY <1>1, FollowsSelf, JoinedSelf
  <2>4. Onward(d, e)
    BY <1>1, <1>2, <1>3, <1>4, <2>1, <2>2, <2>3, SetOn
  <2> QED
    BY <2>4 DEF e
<1>6. CASE d.stoping.state = "none" /\ d.starting.state = "pending"
  <2>1. e = Ends(d, r, "failed")
    BY <1>6 DEF DoStop
  <2> QED
    BY <1>1, <2>1, EndsOn
<1>7. CASE d.stoping.state = "none" /\ d.starting.state # "pending"
  <2> DEFINE b == Pending({s}, <<u>>)
             m == Append(d.mail, Event("stop", s, "stop-group"))
  <2>1. b \in Deferreds /\ Groups(b) /\ b.subs = <<u>>
    BY <1>1, NewGroup
  <2>2. Event("stop", s, "stop-group") \in Mail /\ Event("stop", s, "stop-group").ev \notin Outcomes
    BY <1>1, CallsInMail DEF Events, Waiters, Outcomes
  <2>3. m \in Seq(Mail) /\ Follows(d.mail, m)
    BY <1>1, <2>2, MailAppend
  <2>4. e = [d EXCEPT !.mail = m, !.starting = d.starting, !.stoping = b,
                      !.restarts = [@ EXCEPT ![r] = x]]
    BY <1>1, <1>7 DEF DoStop, x, Drivers
  <2>5. /\ Joined(x, r, d.stoping.subs, b.subs)
        /\ Joined(x, r, d.starting.subs, d.starting.subs)
    BY <1>3, <2>1, JoinedNew, JoinedSelf
  <2> HIDE DEF b, e, m
  <2>6. Onward(d, e)
    BY <1>1, <1>2, <1>3, <1>4, <2>1, <2>3, <2>4, <2>5, SetOn
  <2> QED
    BY <2>6 DEF e
<1> QED
  BY <1>5, <1>6, <1>7

\* Restart r waits for one thing less, and stops its service when none is left.
LEMMA FiredOn ==
  ASSUME NEW d, Fine(d), NEW r \in Restart, Begun(d.restarts[r]), NEW what
  PROVE  Onward(d, Fired(d, r, what))
<1> DEFINE x == [d.restarts[r] EXCEPT !.waits = @ \ {what}]
           e == [d EXCEPT !.restarts[r].waits = @ \ {what}]
<1>1. /\ d \in Drivers /\ d.restarts[r] \in Rounds /\ Round(d.restarts[r])
      /\ d.mail \in Seq(Mail) /\ d.stoping \in Deferreds /\ d.starting \in Deferreds
      /\ d.restarts \in [Restart -> Rounds]
      /\ Groups(d.starting) /\ Groups(d.stoping)
  BY DEF Fine, Drivers
<1>2. /\ x \in Rounds /\ x.phase = d.restarts[r].phase /\ x.svc = d.restarts[r].svc
      /\ x.waits = d.restarts[r].waits \ {what}
  BY <1>1 DEF Rounds
<1>3. e = [d EXCEPT !.mail = d.mail, !.starting = d.starting, !.stoping = d.stoping,
                    !.restarts = [@ EXCEPT ![r] = x]]
  BY <1>1 DEF Drivers
<1>4. e.restarts[r] = x
  BY <1>1 DEF Drivers
<1> HIDE DEF x
<1>5. Begun(x) /\ Round(x) /\ (Acts(d.restarts[r]) => Acts(x))
  BY <1>1, <1>2 DEF Begun, Round, Acts
<1>6. /\ Follows(d.mail, d.mail) /\ Joined(x, r, d.starting.subs, d.starting.subs)
      /\ Joined(x, r, d.stoping.subs, d.stoping.subs)
  BY <1>1, FollowsSelf, JoinedSelf
<1>7. Fired(d, r, what) = IF e.restarts[r].waits = {} THEN DoStop(e, r) ELSE e
  BY DEF Fired
<1> HIDE DEF e
<1>8. Onward(d, e)
  BY <1>1, <1>2, <1>3, <1>5, <1>6, SetOn
<1>9. CASE e.restarts[r].waits = {}
  <2>1. Acts(e.restarts[r]) /\ Fine(e)
    BY <1>4, <1>5, <1>8, <1>9 DEF Acts, Onward
  <2>2. Onward(e, DoStop(e, r))
    BY <2>1, DoStopOn
  <2> QED
    BY <1>7, <1>8, <1>9, <2>2, FromOn
<1> QED
  BY <1>7, <1>8, <1>9

\* A subscriber is called.
Called(d, u) == u \in Subscribers /\ Begun(d.restarts[u[2]])
                /\ (u[1] = "own" => Acts(d.restarts[u[2]]))

LEMMA OnStopedOn ==
  ASSUME NEW d, Fine(d), NEW u, Called(d, u)
  PROVE  Onward(d, OnStoped(d, u))
<1>1. u[2] \in Restart
  BY DEF Called, Subscribers
<1> QED
  BY <1>1, DoStartOn, FiredOn DEF OnStoped, Called

LEMMA OnStartedOn ==
  ASSUME NEW d, Fine(d), NEW u, Called(d, u)
  PROVE  Onward(d, OnStarted(d, u))
<1>1. u[2] \in Restart
  BY DEF Called, Subscribers
<1> QED
  BY <1>1, EndsOn, FiredOn DEF OnStarted, Called
LEMMA NoSubscribers == \A a \in Deferreds : [a EXCEPT !.subs = <<>>] \in Deferreds
<1> SUFFICES ASSUME NEW a \in Deferreds
             PROVE  [a EXCEPT !.subs = <<>>] \in Deferreds
  OBVIOUS
<1>1. <<>> \in Seq(Subscribers)
  BY EmptySeq
<1> QED
  BY <1>1 DEF Deferreds

\* The callbacks of a group's Deferred run one after the other.
LEMMA RunStopingOn ==
  ASSUME NEW d, Fine(d)
  PROVE  Onward(d, RunStoping(d))
<1> DEFINE subs == d.stoping.subs
           b == [d EXCEPT !.stoping.subs = <<>>]
           T == {e \in Drivers : Onward(b, e)}
<1>1. d \in Drivers /\ subs \in Seq(Subscribers) /\ Awaited(d.restarts, subs)
  BY DEF Fine, Drivers, Deferreds
<1>2. PICK N \in Nat : N = Len(subs) /\ DOMAIN subs = 1 .. N
  <2> HIDE DEF subs, Subscribers
  <2> QED
    BY <1>1
<1>3. \A n \in 1 .. N : subs[n] \in Subscribers
  <2> HIDE DEF subs, Subscribers
  <2> QED
    BY <1>1, <1>2
<1> DEFINE step == [n \in 1 .. N |-> [x \in T |-> OnStoped(x, subs[n])]]
           ran[n \in 0 .. N] == IF n = 0 THEN b ELSE OnStoped(ran[n - 1], subs[n])
           F == [n \in 0 .. N |-> IF n = 0 THEN b ELSE OnStoped(ran[n - 1], subs[n])]
<1>4. /\ b \in Drivers /\ b.mail = d.mail /\ b.state = d.state
      /\ b.restarts = d.restarts /\ b.starting = d.starting /\ b.stoping.subs = <<>>
      /\ b.stoping.state = d.stoping.state /\ b.stoping.left = d.stoping.left
  <2>1. d.stoping \in Deferreds
    BY <1>1 DEF Drivers
  <2>2. [d.stoping EXCEPT !.subs = <<>>] \in Deferreds
    BY <2>1, NoSubscribers
  <2> QED
    BY <1>1, <2>1, <2>2 DEF Drivers, Deferreds
<1> HIDE DEF b, subs
<1>5. Onward(d, b)
  <2>1. Follows(d.mail, b.mail)
    BY <1>1, <1>4, FollowsSelf DEF Drivers
  <2>2. From(d, b)
    BY <1>4, <2>1 DEF From
  <2>3. Awaited(b.restarts, b.stoping.subs)
    BY <1>4 DEF Awaited
  <2>4. Awaited(b.restarts, b.starting.subs) /\ Groups(b.stoping) /\ Groups(b.starting)
    BY <1>4 DEF Fine, Groups
  <2> QED
    BY <1>4, <2>2, <2>3, <2>4 DEF Onward, Fine
<1>6. Fine(b) /\ b \in T
  BY <1>4, <1>5, FromSelf DEF Onward
<1>7. ASSUME NEW n \in 1 .. N, NEW x \in T
      PROVE  OnStoped(x, subs[n]) \in T
  <2>1. Called(x, subs[n])
    <3>1. Called(d, subs[n])
      BY <1>1, <1>2, <1>3 DEF Called, Awaited
    <3>2. subs[n][2] \in Restart
      BY <1>3 DEF Subscribers
    <3>3. b.restarts = d.restarts /\ From(b, x)
      BY <1>4 DEF Onward
    <3> QED
      BY <3>1, <3>2, <3>3 DEF Called, From
  <2>2. Onward(x, OnStoped(x, subs[n]))
    BY <2>1, OnStopedOn DEF Onward
  <2>3. Onward(b, OnStoped(x, subs[n]))
    BY <1>6, <2>2, FromOn
  <2> QED
    BY <2>3 DEF Onward, Fine
<1> HIDE DEF T
<1>8. \A n \in 1 .. N : \A x \in T : step[n][x] = OnStoped(x, subs[n])
  OBVIOUS
<1> HIDE DEF step
<1>9. \E f \in [0 .. N -> T] : f[0] = b /\ \A n \in 1 .. N : f[n] = step[n][f[n - 1]]
  <2>1. Steps(N, T, b, step)
    BY <1>6, <1>7, <1>8 DEF Steps
  <2> QED
    BY <2>1, WalkExists
<1>10. PICK f \in [0 .. N -> T] : f[0] = b /\ \A n \in 1 .. N : f[n] = step[n][f[n - 1]]
  BY <1>9
<1>11. f = [n \in 0 .. N |-> IF n = 0 THEN b ELSE OnStoped(f[n - 1], subs[n])]
  <2> SUFFICES ASSUME NEW n \in 0 .. N
               PROVE  f[n] = IF n = 0 THEN b ELSE OnStoped(f[n - 1], subs[n])
    BY <1>10
  <2>1. CASE n = 0
    BY <1>10, <2>1
  <2>2. CASE n # 0
    <3>1. n \in 1 .. N /\ n - 1 \in 0 .. N
      BY <2>2
    <3> QED
      BY <1>8, <1>10, <2>2, <3>1
  <2> QED
    BY <2>1, <2>2
<1>12. ran = F
  BY <1>11 DEF ran, F
<1>13. RunStoping(d) = IF d.stoping.state = "fired" THEN ran[N] ELSE d
  BY <1>2 DEF RunStoping, ran, b, subs
<1> HIDE DEF ran
<1>14. Keeps(N, T, ran)
  <2>1. F[0] = b /\ \A n \in 1 .. N : F[n] = OnStoped(ran[n - 1], subs[n])
    OBVIOUS
  <2> HIDE DEF F
  <2>2. ran[0] = b /\ \A n \in 1 .. N : ran[n] = OnStoped(ran[n - 1], subs[n])
    BY <1>12, <2>1
  <2> QED
    BY <1>6, <1>7, <2>2 DEF Keeps
<1>15. ran[N] \in T
  <2>1. \A n \in 0 .. N : ran[n] \in T
    BY <1>14, AllTheWay
  <2> QED
    BY <2>1
<1>16. Onward(d, ran[N])
  BY <1>5, <1>15, FromOn DEF T
<1> QED
  BY <1>13, <1>16, FromSelf

LEMMA RunStartingOn ==
  ASSUME NEW d, Fine(d)
  PROVE  Onward(d, RunStarting(d))
<1> DEFINE subs == d.starting.subs
           b == [d EXCEPT !.starting.subs = <<>>]
           T == {e \in Drivers : Onward(b, e)}
<1>1. d \in Drivers /\ subs \in Seq(Subscribers) /\ Awaited(d.restarts, subs)
  BY DEF Fine, Drivers, Deferreds
<1>2. PICK N \in Nat : N = Len(subs) /\ DOMAIN subs = 1 .. N
  <2> HIDE DEF subs, Subscribers
  <2> QED
    BY <1>1
<1>3. \A n \in 1 .. N : subs[n] \in Subscribers
  <2> HIDE DEF subs, Subscribers
  <2> QED
    BY <1>1, <1>2
<1> DEFINE step == [n \in 1 .. N |-> [x \in T |-> OnStarted(x, subs[n])]]
           ran[n \in 0 .. N] == IF n = 0 THEN b ELSE OnStarted(ran[n - 1], subs[n])
           F == [n \in 0 .. N |-> IF n = 0 THEN b ELSE OnStarted(ran[n - 1], subs[n])]
<1>4. /\ b \in Drivers /\ b.mail = d.mail /\ b.state = d.state
      /\ b.restarts = d.restarts /\ b.stoping = d.stoping /\ b.starting.subs = <<>>
      /\ b.starting.state = d.starting.state /\ b.starting.left = d.starting.left
  <2>1. d.starting \in Deferreds
    BY <1>1 DEF Drivers
  <2>2. [d.starting EXCEPT !.subs = <<>>] \in Deferreds
    BY <2>1, NoSubscribers
  <2> QED
    BY <1>1, <2>1, <2>2 DEF Drivers, Deferreds
<1> HIDE DEF b, subs
<1>5. Onward(d, b)
  <2>1. Follows(d.mail, b.mail)
    BY <1>1, <1>4, FollowsSelf DEF Drivers
  <2>2. From(d, b)
    BY <1>4, <2>1 DEF From
  <2>3. Awaited(b.restarts, b.starting.subs)
    BY <1>4 DEF Awaited
  <2>4. Awaited(b.restarts, b.stoping.subs) /\ Groups(b.starting) /\ Groups(b.stoping)
    BY <1>4 DEF Fine, Groups
  <2> QED
    BY <1>4, <2>2, <2>3, <2>4 DEF Onward, Fine
<1>6. Fine(b) /\ b \in T
  BY <1>4, <1>5, FromSelf DEF Onward
<1>7. ASSUME NEW n \in 1 .. N, NEW x \in T
      PROVE  OnStarted(x, subs[n]) \in T
  <2>1. Called(x, subs[n])
    <3>1. Called(d, subs[n])
      BY <1>1, <1>2, <1>3 DEF Called, Awaited
    <3>2. subs[n][2] \in Restart
      BY <1>3 DEF Subscribers
    <3>3. b.restarts = d.restarts /\ From(b, x)
      BY <1>4 DEF Onward
    <3> QED
      BY <3>1, <3>2, <3>3 DEF Called, From
  <2>2. Onward(x, OnStarted(x, subs[n]))
    BY <2>1, OnStartedOn DEF Onward
  <2>3. Onward(b, OnStarted(x, subs[n]))
    BY <1>6, <2>2, FromOn
  <2> QED
    BY <2>3 DEF Onward, Fine
<1> HIDE DEF T
<1>8. \A n \in 1 .. N : \A x \in T : step[n][x] = OnStarted(x, subs[n])
  OBVIOUS
<1> HIDE DEF step
<1>9. \E f \in [0 .. N -> T] : f[0] = b /\ \A n \in 1 .. N : f[n] = step[n][f[n - 1]]
  <2>1. Steps(N, T, b, step)
    BY <1>6, <1>7, <1>8 DEF Steps
  <2> QED
    BY <2>1, WalkExists
<1>10. PICK f \in [0 .. N -> T] : f[0] = b /\ \A n \in 1 .. N : f[n] = step[n][f[n - 1]]
  BY <1>9
<1>11. f = [n \in 0 .. N |-> IF n = 0 THEN b ELSE OnStarted(f[n - 1], subs[n])]
  <2> SUFFICES ASSUME NEW n \in 0 .. N
               PROVE  f[n] = IF n = 0 THEN b ELSE OnStarted(f[n - 1], subs[n])
    BY <1>10
  <2>1. CASE n = 0
    BY <1>10, <2>1
  <2>2. CASE n # 0
    <3>1. n \in 1 .. N /\ n - 1 \in 0 .. N
      BY <2>2
    <3> QED
      BY <1>8, <1>10, <2>2, <3>1
  <2> QED
    BY <2>1, <2>2
<1>12. ran = F
  BY <1>11 DEF ran, F
<1>13. RunStarting(d) = IF d.starting.state = "fired" THEN ran[N] ELSE d
  BY <1>2 DEF RunStarting, ran, b, subs
<1> HIDE DEF ran
<1>14. Keeps(N, T, ran)
  <2>1. F[0] = b /\ \A n \in 1 .. N : F[n] = OnStarted(ran[n - 1], subs[n])
    OBVIOUS
  <2> HIDE DEF F
  <2>2. ran[0] = b /\ \A n \in 1 .. N : ran[n] = OnStarted(ran[n - 1], subs[n])
    BY <1>12, <2>1
  <2> QED
    BY <1>6, <1>7, <2>2 DEF Keeps
<1>15. ran[N] \in T
  <2>1. \A n \in 0 .. N : ran[n] \in T
    BY <1>14, AllTheWay
  <2> QED
    BY <2>1
<1>16. Onward(d, ran[N])
  BY <1>5, <1>15, FromOn DEF T
<1> QED
  BY <1>13, <1>16, FromSelf

\* The callbacks of both run until none is left.
LEMMA SettleOn == \A d : Fine(d) => Onward(d, Settle(d))
<1> SUFFICES ASSUME NEW d, Fine(d) PROVE Onward(d, Settle(d))
  OBVIOUS
<1> DEFINE a == RunStarting(d)
           b == RunStoping(a)
           c == RunStoping(b)
           e == RunStarting(c)
<1>1. Onward(d, a)
  BY RunStartingOn
<1> HIDE DEF a
<1>2. Onward(a, b)
  BY <1>1, RunStopingOn DEF Onward
<1> HIDE DEF b
<1>3. Onward(b, c)
  BY <1>2, RunStopingOn DEF Onward
<1> HIDE DEF c
<1>4. Onward(c, e)
  BY <1>3, RunStartingOn DEF Onward
<1> HIDE DEF e
<1>5. Onward(d, b)
  BY <1>1, <1>2, FromOn
<1>6. Onward(d, c)
  BY <1>3, <1>5, FromOn
<1>7. Onward(d, e)
  BY <1>4, <1>6, FromOn
<1> QED
  BY <1>7 DEF Settle, a, b, c, e

\* The mail and the members of the groups change, the restarts and their
\* subscriptions stay.
LEMMA KeptOn ==
  ASSUME NEW d, Fine(d), NEW m \in Seq(Mail), Follows(d.mail, m),
         NEW a \in Deferreds, NEW b \in Deferreds, Groups(a), Groups(b),
         a.subs = d.starting.subs, b.subs = d.stoping.subs
  PROVE  Onward(d, [d EXCEPT !.mail = m, !.starting = a, !.stoping = b])
<1> DEFINE e == [d EXCEPT !.mail = m, !.starting = a, !.stoping = b]
<1>1. /\ e \in Drivers /\ e.mail = m /\ e.starting = a /\ e.stoping = b
      /\ e.state = d.state /\ e.restarts = d.restarts
  BY DEF Fine, Drivers
<1> HIDE DEF e
<1>2. Onward(d, e)
  BY <1>1 DEF Onward, Fine, From
<1> QED
  BY <1>2 DEF e

LEMMA Members ==
  ASSUME NEW a \in Deferreds, NEW st \in {"none", "pending", "fired"}, NEW left \in SUBSET Service
  PROVE  LET b == [a EXCEPT !.state = st, !.left = left] IN
         b \in Deferreds /\ b.state = st /\ b.left = left /\ b.subs = a.subs
  BY DEF Deferreds

\* A waiter hears the result.
LEMMA HearsOn ==
  ASSUME NEW d, Fine(d), NEW s \in Service, NEW w, NEW result
  PROVE  Onward(d, Hears(d, s, w, result))
<1>1. /\ d \in Drivers /\ d.mail \in Seq(Mail) /\ d.starting \in Deferreds
      /\ d.stoping \in Deferreds /\ Groups(d.starting) /\ Groups(d.stoping)
      /\ Follows(d.mail, d.mail)
  BY FollowsSelf DEF Fine, Drivers
<1>2. /\ d.starting.left \subseteq Service /\ d.stoping.left \subseteq Service
      /\ d.starting.state \in {"none", "pending", "fired"}
      /\ d.stoping.state \in {"none", "pending", "fired"}
  BY <1>1 DEF Deferreds
<1>3. CASE w = "start-group" /\ d.starting.left = {s}
  <2> DEFINE g == [d.starting EXCEPT !.state = "fired", !.left = {}]
             m == Append(d.mail, FinishStartingCall)
             e == [d EXCEPT !.mail = m, !.starting = g, !.stoping = d.stoping]
  <2>1. g \in Deferreds /\ Groups(g) /\ g.subs = d.starting.subs
    BY <1>1, Members DEF Groups
  <2>2. m \in Seq(Mail) /\ Follows(d.mail, m)
    BY <1>1, CallsInMail, MailAppend
  <2>3. Hears(d, s, w, result) = Settle(e)
    <3>1. [d EXCEPT !.starting.left = {}, !.starting.state = "fired",
                    !.mail = Append(@, FinishStartingCall)] = e
      BY <1>1 DEF Drivers, Deferreds
    <3> QED
      BY <1>3, <3>1 DEF Hears
  <2> HIDE DEF g, m
  <2>4. Onward(d, e)
    BY <1>1, <2>1, <2>2, KeptOn
  <2> HIDE DEF e
  <2>5. Onward(e, Settle(e))
    BY <2>4, SettleOn DEF Onward
  <2> QED
    BY <2>3, <2>4, <2>5, FromOn
<1>4. CASE w = "start-group" /\ d.starting.left # {s}
  <2> DEFINE g == [d.starting EXCEPT !.state = @, !.left = @ \ {s}]
             e == [d EXCEPT !.mail = d.mail, !.starting = g, !.stoping = d.stoping]
  <2>1. g \in Deferreds /\ g.state = d.starting.state /\ g.left = d.starting.left \ {s}
        /\ g.subs = d.starting.subs
    BY <1>1, <1>2 DEF Deferreds
  <2>2. g.left = {} <=> d.starting.left = {}
    BY <1>4, <2>1
  <2>3. Groups(g)
    BY <1>1, <2>1, <2>2 DEF Groups
  <2>4. Hears(d, s, w, result) = e
    <3>1. [d EXCEPT !.starting.left = @ \ {s}] = e
      BY <1>1 DEF Drivers, Deferreds
    <3> QED
      BY <1>4, <3>1 DEF Hears
  <2> HIDE DEF g
  <2>5. Onward(d, e)
    BY <1>1, <2>1, <2>3, KeptOn
  <2> QED
    BY <2>4, <2>5
<1>5. CASE w = "stop-group" /\ d.stoping.left = {s}
  <2> DEFINE g == [d.stoping EXCEPT !.state = "fired", !.left = {}]
             m == Append(d.mail, FinishStopingCall)
             e == [d EXCEPT !.mail = m, !.starting = d.starting, !.stoping = g]
  <2>1. g \in Deferreds /\ Groups(g) /\ g.subs = d.stoping.subs
    BY <1>1, Members DEF Groups
  <2>2. m \in Seq(Mail) /\ Follows(d.mail, m)
    BY <1>1, CallsInMail, MailAppend
  <2>3. Hears(d, s, w, result) = Settle(e)
    <3>1. [d EXCEPT !.stoping.left = {}, !.stoping.state = "fired",
                    !.mail = Append(@, FinishStopingCall)] = e
      BY <1>1 DEF Drivers, Deferreds
    <3> QED
      BY <1>5, <3>1 DEF Hears
  <2> HIDE DEF g, m
  <2>4. Onward(d, e)
    BY <1>1, <2>1, <2>2, KeptOn
  <2> HIDE DEF e
  <2>5. Onward(e, Settle(e))
    BY <2>4, SettleOn DEF Onward
  <2> QED
    BY <2>3, <2>4, <2>5, FromOn
<1>6. CASE w = "stop-group" /\ d.stoping.left # {s}
  <2> DEFINE g == [d.stoping EXCEPT !.state = @, !.left = @ \ {s}]
             e == [d EXCEPT !.mail = d.mail, !.starting = d.starting, !.stoping = g]
  <2>1. g \in Deferreds /\ g.state = d.stoping.state /\ g.left = d.stoping.left \ {s}
        /\ g.subs = d.stoping.subs
    BY <1>1, <1>2 DEF Deferreds
  <2>2. g.left = {} <=> d.stoping.left = {}
    BY <1>6, <2>1
  <2>3. Groups(g)
    BY <1>1, <2>1, <2>2 DEF Groups
  <2>4. Hears(d, s, w, result) = e
    <3>1. [d EXCEPT !.stoping.left = @ \ {s}] = e
      BY <1>1 DEF Drivers, Deferreds
    <3> QED
      BY <1>6, <3>1 DEF Hears
  <2> HIDE DEF g
  <2>5. Onward(d, e)
    BY <1>1, <2>1, <2>3, KeptOn
  <2> QED
    BY <2>4, <2>5
<1>7. CASE w = "then-stop" /\ result = "started"
  <2> DEFINE m == Append(d.mail, Event("stop", s, "answer"))
             e == [d EXCEPT !.mail = m, !.starting = d.starting, !.stoping = d.stoping]
  <2>1. Event("stop", s, "answer") \in Mail /\ Event("stop", s, "answer").ev \notin Outcomes
    BY CallsInMail DEF Events, Waiters, Outcomes
  <2>2. m \in Seq(Mail) /\ Follows(d.mail, m)
    BY <1>1, <2>1, MailAppend
  <2>3. Hears(d, s, w, result) = e
    <3>1. [d EXCEPT !.mail = m] = e
      BY <1>1 DEF Drivers
    <3> QED
      BY <1>7, <3>1 DEF Hears
  <2> HIDE DEF m
  <2>4. Onward(d, e)
    BY <1>1, <2>2, KeptOn
  <2> QED
    BY <2>3, <2>4
<1>8. CASE /\ w \notin {"start-group", "stop-group"}
           /\ ~(w = "then-stop" /\ result = "started")
  <2>1. Hears(d, s, w, result) = d
    BY <1>8 DEF Hears
  <2> QED
    BY <2>1, FromSelf
<1> QED
  BY <1>3, <1>4, <1>5, <1>6, <1>7, <1>8

\* The chain of waiters is called, the first with the result.
LEMMA CallWaitersIs ==
  ASSUME NEW d, Fine(d), NEW s \in Service, NEW chain \in Seq(Waiters), NEW result
  PROVE  \E heard :
           /\ heard[0] = d /\ CallWaiters(d, s, chain, result) = heard[Len(chain)]
           /\ \A n \in 0 .. Len(chain) : Onward(d, heard[n])
           /\ \A n \in 1 .. Len(chain) :
                heard[n] = Hears(heard[n - 1], s, chain[n], IF n = 1 THEN result ELSE "None")
<1> DEFINE T == {e \in Drivers : Onward(d, e)}
           one(n) == IF n = 1 THEN result ELSE "None"
<1>1. PICK N \in Nat : N = Len(chain)
  OBVIOUS
<1> DEFINE step == [n \in 1 .. N |-> [x \in T |-> Hears(x, s, chain[n], one(n))]]
           heard[n \in 0 .. N] ==
             IF n = 0 THEN d ELSE Hears(heard[n - 1], s, chain[n], one(n))
           F == [n \in 0 .. N |->
                   IF n = 0 THEN d ELSE Hears(heard[n - 1], s, chain[n], one(n))]
<1>2. d \in T
  BY FromSelf DEF Fine
<1>3. ASSUME NEW n \in 1 .. N, NEW x \in T
      PROVE  Hears(x, s, chain[n], one(n)) \in T
  <2> DEFINE y == Hears(x, s, chain[n], one(n))
  <2>1. Onward(x, y)
    BY HearsOn DEF Onward
  <2> HIDE DEF y
  <2>2. Onward(d, y)
    BY <2>1, FromOn
  <2>3. y \in T
    BY <2>2 DEF Onward, Fine
  <2> QED
    BY <2>3 DEF y
<1> HIDE DEF T, one
<1>4. \A n \in 1 .. N : \A x \in T : step[n][x] = Hears(x, s, chain[n], one(n))
  OBVIOUS
<1> HIDE DEF step
<1>5. \E f \in [0 .. N -> T] : f[0] = d /\ \A n \in 1 .. N : f[n] = step[n][f[n - 1]]
  <2>1. Steps(N, T, d, step)
    BY <1>2, <1>3, <1>4 DEF Steps
  <2> QED
    BY <2>1, WalkExists
<1>6. PICK f \in [0 .. N -> T] : f[0] = d /\ \A n \in 1 .. N : f[n] = step[n][f[n - 1]]
  BY <1>5
<1>7. f = [n \in 0 .. N |-> IF n = 0 THEN d ELSE Hears(f[n - 1], s, chain[n], one(n))]
  <2> SUFFICES ASSUME NEW n \in 0 .. N
               PROVE  f[n] = IF n = 0 THEN d ELSE Hears(f[n - 1], s, chain[n], one(n))
    BY <1>6
  <2>1. CASE n = 0
    BY <1>6, <2>1
  <2>2. CASE n # 0
    <3>1. n \in 1 .. N /\ n - 1 \in 0 .. N
      BY <2>2
    <3> QED
      BY <1>4, <1>6, <2>2, <3>1
  <2> QED
    BY <2>1, <2>2
<1>8. heard = F
  BY <1>7 DEF heard, F
<1>9. CallWaiters(d, s, chain, result) = heard[N]
  BY <1>1 DEF CallWaiters, heard, one
<1> HIDE DEF heard
<1>10. /\ heard[0] = d
       /\ \A n \in 1 .. N : heard[n] = Hears(heard[n - 1], s, chain[n], one(n))
  <2>1. F[0] = d /\ \A n \in 1 .. N : F[n] = Hears(heard[n - 1], s, chain[n], one(n))
    OBVIOUS
  <2> HIDE DEF F
  <2> QED
    BY <1>8, <2>1
<1>11. Keeps(N, T, heard)
  BY <1>2, <1>3, <1>10 DEF Keeps
<1>12. \A n \in 0 .. N : heard[n] \in T
  BY <1>11, AllTheWay
<1> QED
  BY <1>1, <1>9, <1>10, <1>12 DEF T, one

LEMMA CallWaitersOn ==
  ASSUME NEW d, Fine(d), NEW s \in Service, NEW chain \in Seq(Waiters), NEW result
  PROVE  Onward(d, CallWaiters(d, s, chain, result))
<1>1. Len(chain) \in 0 .. Len(chain)
  <2> HIDE DEF Waiters
  <2> QED
    OBVIOUS
<1> QED
  BY <1>1, CallWaitersIs

\* The driver acts on the result: events to relatives of the service.
LEMMA OnServiceCallbackOn ==
  ASSUME NEW d, Fine(d), NEW s \in Service, NEW result
  PROVE  Onward(d, OnServiceCallback(d, s, result))
<1> DEFINE Told(some, ev) == [d EXCEPT !.mail = @ \o TellAll(InOrder(some), ev)]
<1>1. /\ d \in Drivers /\ d.mail \in Seq(Mail) /\ d.starting \in Deferreds
      /\ d.stoping \in Deferreds /\ Groups(d.starting) /\ Groups(d.stoping)
  BY DEF Fine, Drivers
<1>2. ASSUME NEW some, NEW ev \in Events \ Outcomes
      PROVE  Onward(d, Told(some, ev))
  <2> DEFINE p == TellAll(InOrder(some), ev)
             m == d.mail \o p
  <2>1. p \in Seq(Mail) /\ \A i \in 1 .. Len(p) : p[i].ev \notin Outcomes
    BY InOrderType, TellAllIs
  <2> HIDE DEF p
  <2>2. m \in Seq(Mail) /\ Follows(d.mail, m)
    BY <1>1, <2>1, MailConcat
  <2>3. [d EXCEPT !.mail = d.mail \o p]
          = [d EXCEPT !.mail = m, !.starting = d.starting, !.stoping = d.stoping]
    BY <1>1 DEF Drivers
  <2> HIDE DEF m
  <2>4. Onward(d, [d EXCEPT !.mail = d.mail \o p])
    BY <1>1, <2>2, <2>3, KeptOn
  <2> QED
    BY <2>4 DEF p
<1>3. "start" \in Events \ Outcomes /\ "depend-service-stopped" \in Events \ Outcomes
  BY DEF Events, Outcomes
<1>4. CASE result = "started"
  <2>1. PICK some : OnServiceCallback(d, s, result) = Told(some, "start")
    BY <1>4 DEF OnServiceCallback
  <2> HIDE DEF Told
  <2> QED
    BY <1>2, <1>3, <2>1
<1>5. CASE result \in {"stopped", "depends_off"}
  <2>1. OnServiceCallback(d, s, result) = Told(DependsOn[s], "depend-service-stopped")
    BY <1>5 DEF OnServiceCallback
  <2> HIDE DEF Told
  <2> QED
    BY <1>2, <1>3, <2>1
<1>6. CASE result \notin {"started", "stopped", "depends_off"}
  <2>1. OnServiceCallback(d, s, result) = d
    BY <1>6 DEF OnServiceCallback
  <2> QED
    BY <2>1, FromSelf
<1> QED
  BY <1>4, <1>5, <1>6

\* The waiters of a service and the driver hear its result.
LEMMA NotifyOn ==
  ASSUME NEW q, NEW st, Fine(Driver(q, st)), NEW s \in Service,
         NEW chain \in Seq(Waiters), NEW result
  PROVE  Onward(Driver(q, st), Notify(q, st, s, chain, result))
<1> DEFINE d == Driver(q, st)
           e == CallWaiters(d, s, chain, result)
           f == OnServiceCallback(e, s, result)
<1> HIDE DEF d
<1>1. Onward(d, e)
  BY CallWaitersOn DEF d
<1> HIDE DEF e
<1>2. Onward(e, f)
  BY <1>1, OnServiceCallbackOn DEF Onward
<1> HIDE DEF f
<1>3. Onward(d, f)
  BY <1>1, <1>2, FromOn DEF d
<1> QED
  BY <1>3 DEF Notify, d, e, f

-----------------------------------------------------------------------------
(* The events that tell what came of a start.                              *)

\* What is known of the events of s in q is known of those in p.
Carries(q, p, s) ==
    /\ NoOutcome(q, s) => NoOutcome(p, s)
    /\ \A ev \in Outcomes : OneOutcome(q, s, ev) => OneOutcome(p, s, ev)

LEMMA FollowsCarries ==
  ASSUME NEW q \in Seq(Mail), NEW p \in Seq(Mail), Follows(q, p), NEW s
  PROVE  Carries(q, p, s)
<1>1. PICK n \in Nat : n = Len(q) /\ DOMAIN q = 1 .. n
  OBVIOUS
<1>2. PICK m \in Nat : m = Len(p) /\ DOMAIN p = 1 .. m
  OBVIOUS
<1>3. /\ n <= m /\ \A i \in 1 .. n : p[i] = q[i]
      /\ \A i \in 1 .. m : i > n => p[i].ev \notin Outcomes
  BY <1>1, <1>2 DEF Follows
<1>4. ASSUME NEW i \in DOMAIN p, IsOutcome(p, s, i)
      PROVE  i \in DOMAIN q /\ IsOutcome(q, s, i)
  <2>1. i \in 1 .. n
    BY <1>2, <1>3, <1>4 DEF IsOutcome
  <2> QED
    BY <1>1, <1>3, <1>4, <2>1 DEF IsOutcome
<1>5. NoOutcome(q, s) => NoOutcome(p, s)
  BY <1>4 DEF NoOutcome
<1>6. ASSUME NEW ev, OneOutcome(q, s, ev) PROVE OneOutcome(p, s, ev)
  <2>1. PICK i \in DOMAIN q : /\ q[i] = Tell(s, ev)
                              /\ \A j \in DOMAIN q : IsOutcome(q, s, j) => j = i
    BY <1>6 DEF OneOutcome
  <2>2. i \in DOMAIN p /\ p[i] = Tell(s, ev)
    BY <1>1, <1>2, <1>3, <2>1
  <2>3. \A j \in DOMAIN p : IsOutcome(p, s, j) => j = i
    BY <1>4, <2>1
  <2> QED
    BY <2>2, <2>3 DEF OneOutcome
<1> QED
  BY <1>5, <1>6 DEF Carries

\* The mail without the event that was delivered.
LEMMA TailIs ==
  ASSUME NEW q \in Seq(Mail), q # <<>>
  PROVE  /\ Tail(q) \in Seq(Mail) /\ Head(q) \in Mail
         /\ \A i \in DOMAIN Tail(q) : i + 1 \in DOMAIN q /\ Tail(q)[i] = q[i + 1]
         /\ \A i \in DOMAIN q : i # 1 => i - 1 \in DOMAIN Tail(q) /\ Tail(q)[i - 1] = q[i]
         /\ 1 \in DOMAIN q /\ q[1] = Head(q)
  OBVIOUS

LEMMA TailNone ==
  ASSUME NEW q \in Seq(Mail), q # <<>>, NEW s, NoOutcome(q, s)
  PROVE  NoOutcome(Tail(q), s)
  BY TailIs DEF NoOutcome, IsOutcome

LEMMA TailCarries ==
  ASSUME NEW q \in Seq(Mail), q # <<>>, NEW s, ~IsOutcome(q, s, 1)
  PROVE  Carries(q, Tail(q), s)
<1>1. ASSUME NEW ev, OneOutcome(q, s, ev), ev \in Outcomes PROVE OneOutcome(Tail(q), s, ev)
  <2>1. PICK i \in DOMAIN q : /\ q[i] = Tell(s, ev)
                              /\ \A j \in DOMAIN q : IsOutcome(q, s, j) => j = i
    BY <1>1 DEF OneOutcome
  <2>2. IsOutcome(q, s, i)
    BY <1>1, <2>1 DEF IsOutcome, Tell, Event
  <2>3. i # 1 /\ i \in Nat
    BY <2>2
  <2>4. i - 1 \in DOMAIN Tail(q) /\ Tail(q)[i - 1] = Tell(s, ev)
    BY <2>1, <2>3, TailIs
  <2>5. ASSUME NEW j \in DOMAIN Tail(q), IsOutcome(Tail(q), s, j) PROVE j = i - 1
    <3>1. j + 1 \in DOMAIN q /\ Tail(q)[j] = q[j + 1] /\ j \in Nat
      BY TailIs
    <3>2. IsOutcome(q, s, j + 1)
      BY <2>5, <3>1 DEF IsOutcome
    <3>3. j + 1 = i
      BY <2>1, <3>1, <3>2
    <3> QED
      BY <2>3, <3>1, <3>3
  <2> QED
    BY <2>4, <2>5 DEF OneOutcome
<1> QED
  BY <1>1, TailNone DEF Carries

\* The one event of s is the one that was delivered.
LEMMA TailTakes ==
  ASSUME NEW q \in Seq(Mail), q # <<>>, NEW s, NEW ev, OneOutcome(q, s, ev), IsOutcome(q, s, 1)
  PROVE  Head(q) = Tell(s, ev) /\ NoOutcome(Tail(q), s)
<1>1. PICK i \in DOMAIN q : /\ q[i] = Tell(s, ev)
                            /\ \A j \in DOMAIN q : IsOutcome(q, s, j) => j = i
  BY DEF OneOutcome
<1>2. i = 1 /\ 1 \in DOMAIN q /\ q[1] = Head(q)
  BY <1>1, TailIs
<1>3. ASSUME NEW j \in DOMAIN Tail(q), IsOutcome(Tail(q), s, j) PROVE FALSE
  <2>1. j + 1 \in DOMAIN q /\ Tail(q)[j] = q[j + 1] /\ j \in Nat /\ j # 0
    BY TailIs
  <2>2. IsOutcome(q, s, j + 1)
    BY <1>3, <2>1 DEF IsOutcome
  <2>3. j + 1 = 1
    BY <1>1, <1>2, <2>1, <2>2
  <2> QED
    BY <2>1, <2>3
<1> QED
  BY <1>1, <1>2, <1>3 DEF NoOutcome

\* An event of s is sent.
LEMMA SentOutcome ==
  ASSUME NEW q \in Seq(Mail), NEW s \in Service, NEW ev \in Outcomes
  PROVE  /\ Append(q, Tell(s, ev)) \in Seq(Mail)
         /\ NoOutcome(q, s) => OneOutcome(Append(q, Tell(s, ev)), s, ev)
         /\ \A t : t # s => Carries(q, Append(q, Tell(s, ev)), t)
<1> DEFINE x == Tell(s, ev)
           p == Append(q, x)
<1>1. x \in Mail /\ x.ev = ev /\ x.to = s
  BY CallsInMail DEF Tell, Outcomes, Events
<1> HIDE DEF x
<1>2. PICK n \in Nat : /\ n = Len(q) /\ DOMAIN q = 1 .. n /\ DOMAIN p = 1 .. n + 1
                       /\ p \in Seq(Mail) /\ p[n + 1] = x /\ \A i \in 1 .. n : p[i] = q[i]
  BY <1>1
<1> HIDE DEF p
<1>3. NoOutcome(q, s) => OneOutcome(p, s, ev)
  <2> SUFFICES ASSUME NoOutcome(q, s) PROVE OneOutcome(p, s, ev)
    OBVIOUS
  <2>1. \A j \in DOMAIN p : IsOutcome(p, s, j) => j = n + 1
    <3> SUFFICES ASSUME NEW j \in DOMAIN p, j # n + 1, IsOutcome(p, s, j) PROVE FALSE
      OBVIOUS
    <3>1. j \in 1 .. n
      BY <1>2
    <3> QED
      BY <1>2, <3>1 DEF NoOutcome, IsOutcome
  <2>2. n + 1 \in DOMAIN p
    BY <1>2
  <2> QED
    BY <1>2, <2>1, <2>2 DEF OneOutcome, x
<1>4. ASSUME NEW t, t # s PROVE Carries(q, p, t)
  <2>1. ASSUME NEW j \in DOMAIN p, IsOutcome(p, t, j)
        PROVE  j \in DOMAIN q /\ IsOutcome(q, t, j)
    <3>1. j # n + 1
      BY <1>1, <1>2, <1>4, <2>1 DEF IsOutcome
    <3>2. j \in 1 .. n
      BY <1>2, <3>1
    <3> QED
      BY <1>2, <2>1, <3>2 DEF IsOutcome
  <2>2. NoOutcome(q, t) => NoOutcome(p, t)
    BY <2>1 DEF NoOutcome
  <2>3. ASSUME NEW e, OneOutcome(q, t, e) PROVE OneOutcome(p, t, e)
    <3>1. PICK i \in DOMAIN q : /\ q[i] = Tell(t, e)
                                /\ \A j \in DOMAIN q : IsOutcome(q, t, j) => j = i
      BY <2>3 DEF OneOutcome
    <3>2. i \in DOMAIN p /\ p[i] = Tell(t, e)
      BY <1>2, <3>1
    <3>3. \A j \in DOMAIN p : IsOutcome(p, t, j) => j = i
      BY <2>1, <3>1
    <3> QED
      BY <3>2, <3>3 DEF OneOutcome
  <2> QED
    BY <2>2, <2>3 DEF Carries
<1> QED
  BY <1>2, <1>3, <1>4 DEF p, x

LEMMA CarriesOn ==
  ASSUME NEW q, NEW p, NEW m, NEW s, Carries(q, p, s), Carries(p, m, s)
  PROVE  Carries(q, m, s)
  BY DEF Carries

\* A machine sees of the mail what is carried on.
LEMMA MachineCarried ==
  ASSUME NEW st, NEW Up, NEW Opening, NEW q, NEW p, NEW s,
         Carries(q, p, s), Machine(st, s \in Up, s \in Opening, q, s)
  PROVE  Machine(st, s \in Up, s \in Opening, p, s)
<1>1. CASE st # "STARTING" \/ s \in Opening
  BY <1>1 DEF Machine, Carries
<1>2. CASE st = "STARTING" /\ s \notin Opening
  <2>1. PICK ev \in Outcomes : OneOutcome(q, s, ev) /\ (ev = "service-started" <=> s \in Up)
    BY <1>2 DEF Machine, Down
  <2>2. OneOutcome(p, s, ev)
    BY <2>1 DEF Carries
  <2> QED
    BY <1>2, <2>1, <2>2 DEF Machine
<1> QED
  BY <1>1, <1>2

\* Nothing happens to the other machines.
Others(s) ==
    \A t \in Service \ {s} :
        /\ state'[t] = state[t]
        /\ t \in up' <=> t \in up
        /\ t \in opening' <=> t \in opening
        /\ Carries(mail, mail', t)

LEMMA MachinesKept ==
  ASSUME MachineInv, NEW s \in Service, Others(s),
         Machine(state[s], s \in up, s \in opening, mail, s)'
  PROVE  MachineInv'
<1> SUFFICES ASSUME NEW t \in Service
             PROVE  Machine(state'[t], t \in up', t \in opening', mail', t)
  BY DEF MachineInv
<1>1. CASE t = s
  BY <1>1
<1>2. CASE t # s
  <2>1. Machine(state[t], t \in up, t \in opening, mail, t)
    BY DEF MachineInv
  <2>2. Carries(mail, mail', t) /\ state'[t] = state[t]
    BY <1>2 DEF Others
  <2>3. Machine(state[t], t \in up, t \in opening, mail', t)
    BY <2>1, <2>2, MachineCarried
  <2>4. (t \in up' <=> t \in up) /\ (t \in opening' <=> t \in opening)
    BY <1>2 DEF Others
  <2> QED
    BY <2>2, <2>3, <2>4 DEF Machine
<1> QED
  BY <1>1, <1>2

-----------------------------------------------------------------------------
(* The driver after a step.                                                *)

LEMMA DriverOf ==
  ASSUME Fine(Driver(mail, state)), NEW q \in Seq(Mail), NEW st \in [Service -> States]
  PROVE  Fine(Driver(q, st))
  BY DEF Fine, Driver, Drivers

LEMMA BecomesOn ==
  ASSUME NEW d, Fine(d), Becomes(d), state' \in [Service -> States]
  PROVE  Fine(Driver(mail, state))' /\ mail' = d.mail
<1> DEFINE e == Driver(mail, state)'
<1>1. /\ e.mail = d.mail /\ e.state = state' /\ e.starting = d.starting
      /\ e.stoping = d.stoping /\ e.restarts = d.restarts
      /\ e = [mail |-> d.mail, state |-> state', starting |-> d.starting,
              stoping |-> d.stoping, restarts |-> d.restarts]
  BY DEF Driver, Becomes
<1>2. e \in Drivers
  <2>1. /\ d.mail \in Seq(Mail) /\ d.starting \in Deferreds /\ d.stoping \in Deferreds
        /\ d.restarts \in [Restart -> Rounds]
    BY DEF Fine, Drivers
  <2> HIDE DEF e
  <2> QED
    BY <1>1, <2>1 DEF Drivers
<1> HIDE DEF e
<1>3. Fine(e)
  BY <1>1, <1>2 DEF Fine
<1>4. Fine(Driver(mail, state))'
  BY <1>3 DEF e, Fine
<1> QED
  BY <1>4 DEF Becomes

LEMMA SendsOn ==
  ASSUME Fine(Driver(mail, state)), NEW q \in Seq(Mail), Sends(q),
         state' \in [Service -> States]
  PROVE  Fine(Driver(mail, state))' /\ mail' = q
<1> DEFINE d == Driver(q, state)
<1>1. state \in [Service -> States]
  BY DEF Fine, Driver, Drivers
<1>2. Fine(d)
  BY <1>1, DriverOf
<1>3. Becomes(d)
  BY DEF d, Sends, Becomes, Driver, drv
<1>4. d.mail = q
  BY DEF d, Driver
<1> HIDE DEF d
<1> QED
  BY <1>2, <1>3, <1>4, BecomesOn

\* The waiters were called.
LEMMA NotifiedOn ==
  ASSUME Fine(Driver(mail, state)), NEW q \in Seq(Mail), NEW st \in [Service -> States],
         NEW s \in Service, NEW chain \in Seq(Waiters), NEW result,
         Becomes(Notify(q, st, s, chain, result)), state' \in [Service -> States]
  PROVE  Fine(Driver(mail, state))' /\ Follows(q, mail') /\ mail' \in Seq(Mail)
<1> DEFINE d == Driver(q, st)
           e == Notify(q, st, s, chain, result)
<1>1. Onward(d, e)
  BY DriverOf, NotifyOn
<1>2. d.mail = q
  BY DEF d, Driver
<1> HIDE DEF d, e
<1>3. Fine(e) /\ Follows(q, e.mail) /\ e.mail \in Seq(Mail)
  BY <1>1, <1>2 DEF Onward, From, Fine, Drivers
<1>4. Becomes(e)
  BY DEF e
<1> QED
  BY <1>3, <1>4, BecomesOn

\* What doStartService() may lead to.
LEMMA StartOutcomesAre ==
  ASSUME NEW s \in Service, NEW out \in StartOutcomes(s)
  PROVE  /\ \/ \E ev \in Outcomes : /\ out.sends = <<Tell(s, ev)>> /\ out.opening = {}
                                    /\ out.up = IF ev = "service-started" THEN {s} ELSE {}
            \/ out.sends = <<>> /\ out.up = {} /\ out.opening = {s}
         /\ out.up \cup out.opening # {} => \A t \in DependsOn[s] : state[t] = "ON"
<1>1. \A o : o \in {Outcome(s, "service-not-installed", FALSE),
                    Outcome(s, "service-depend-off", FALSE),
                    Outcome(s, "service-failed", FALSE)}
             => /\ o.up = {} /\ o.opening = {}
                /\ \E ev \in Outcomes : /\ o.sends = <<Tell(s, ev)>>
                                        /\ ev # "service-started"
  BY DEF Outcome, Outcomes
<1>2. LET o == Outcome(s, "service-started", TRUE) IN
      o.sends = <<Tell(s, "service-started")>> /\ o.up = {s} /\ o.opening = {}
  BY DEF Outcome
<1>3. CASE out \in {Outcome(s, "service-not-installed", FALSE),
                    Outcome(s, "service-depend-off", FALSE),
                    Outcome(s, "service-failed", FALSE)}
  BY <1>1, <1>3
<1>4. CASE ~(out \in {Outcome(s, "service-not-installed", FALSE),
                      Outcome(s, "service-depend-off", FALSE),
                      Outcome(s, "service-failed", FALSE)})
  <2>1. \A t \in DependsOn[s] : state[t] = "ON"
    BY <1>4 DEF StartOutcomes
  <2>2. \/ out = Outcome(s, "service-started", TRUE)
        \/ out = [sends |-> <<>>, up |-> {}, opening |-> {s}]
    BY <1>4 DEF StartOutcomes
  <2>3. "service-started" \in Outcomes
    BY DEF Outcomes
  <2>4. CASE out = Outcome(s, "service-started", TRUE)
    <3>1. /\ out.sends = <<Tell(s, "service-started")>> /\ out.up = {s}
          /\ out.opening = {}
      BY <1>2, <2>4
    <3>2. \E ev \in Outcomes : /\ out.sends = <<Tell(s, ev)>> /\ out.opening = {}
                               /\ out.up = IF ev = "service-started" THEN {s} ELSE {}
      BY <2>3, <3>1
    <3> QED
      BY <2>1, <3>2
  <2>5. CASE out = [sends |-> <<>>, up |-> {}, opening |-> {s}]
    <3>1. out.sends = <<>> /\ out.up = {} /\ out.opening = {s}
      BY <2>5
    <3> QED
      BY <2>1, <3>1
  <2> QED
    BY <2>2, <2>4, <2>5
<1> QED
  BY <1>3, <1>4

\* A machine that was started.
LEMMA StartedMachine ==
  ASSUME NEW q \in Seq(Mail), NEW s \in Service, NoOutcome(q, s), NEW out \in StartOutcomes(s)
  PROVE  /\ q \o out.sends \in Seq(Mail)
         /\ Machine("STARTING", s \in out.up, s \in out.opening, q \o out.sends, s)
         /\ \A t : t # s => Carries(q, q \o out.sends, t)
         /\ out.up \subseteq {s} /\ out.opening \subseteq {s}
<1>1. ASSUME NEW ev \in Outcomes, out.sends = <<Tell(s, ev)>>, out.opening = {},
             out.up = IF ev = "service-started" THEN {s} ELSE {}
      PROVE  /\ q \o out.sends \in Seq(Mail)
             /\ Machine("STARTING", s \in out.up, s \in out.opening, q \o out.sends, s)
             /\ \A t : t # s => Carries(q, q \o out.sends, t)
             /\ out.up \subseteq {s} /\ out.opening \subseteq {s}
  <2>1. Tell(s, ev) \in Mail
    BY CallsInMail DEF Tell, Outcomes, Events
  <2>2. q \o out.sends = Append(q, Tell(s, ev))
    <3> DEFINE x == Tell(s, ev)
    <3> HIDE DEF x
    <3>1. q \o <<x>> = Append(q, x)
      OBVIOUS
    <3> QED
      BY <1>1, <3>1 DEF x
  <2>3. /\ q \o out.sends \in Seq(Mail) /\ OneOutcome(q \o out.sends, s, ev)
        /\ \A t : t # s => Carries(q, q \o out.sends, t)
    BY <2>2, SentOutcome
  <2>4. (ev = "service-started" <=> s \in out.up) /\ s \notin out.opening
    BY <1>1
  <2>5. Machine("STARTING", s \in out.up, s \in out.opening, q \o out.sends, s)
    BY <2>3, <2>4 DEF Machine
  <2> QED
    BY <1>1, <2>3, <2>5
<1>2. ASSUME out.sends = <<>>, out.up = {}, out.opening = {s}
      PROVE  /\ q \o out.sends \in Seq(Mail)
             /\ Machine("STARTING", s \in out.up, s \in out.opening, q \o out.sends, s)
             /\ \A t : t # s => Carries(q, q \o out.sends, t)
             /\ out.up \subseteq {s} /\ out.opening \subseteq {s}
  <2>1. q \o out.sends = q
    BY <1>2, ConcatEmptySeq
  <2> QED
    BY <1>2, <2>1 DEF Machine, Carries
<1> QED
  BY <1>1, <1>2, StartOutcomesAre

-----------------------------------------------------------------------------
(* Each action keeps the inductive invariant.                              *)

LEMMA InvariantTypes ==
  ASSUME IInv
  PROVE  /\ mail \in Seq(Mail) /\ state \in [Service -> States]
         /\ starting \in Deferreds /\ stoping \in Deferreds
         /\ restarts \in [Restart -> Rounds]
  BY DEF IInv, Fine, Driver, Drivers

LEMMA MachineIs ==
  ASSUME MachineInv, NEW s \in Service
  PROVE  /\ state[s] \in {"ON", "INFLUENCE"} => s \in up /\ s \notin opening /\ NoOutcome(mail, s)
         /\ state[s] \in Down \cup {"STOPPING"} =>
              s \notin up /\ s \notin opening /\ NoOutcome(mail, s)
         /\ s \in opening => state[s] = "STARTING" /\ s \notin up /\ NoOutcome(mail, s)
         /\ state[s] = "STARTING" /\ s \notin opening =>
              \E ev \in Outcomes : OneOutcome(mail, s, ev) /\ (ev = "service-started" <=> s \in up)
<1>1. Machine(state[s], s \in up, s \in opening, mail, s)
  BY DEF MachineInv
<1> QED
  BY <1>1 DEF Machine, Down

\* Which event is delivered, and what is left of the mail.
LEMMA DeliveredIs ==
  ASSUME mail \in Seq(Mail), NEW s \in Service, NEW ev \in Events, Delivered(ev, s)
  PROVE  /\ mail # <<>> /\ Tail(mail) \in Seq(Mail) /\ Waiter \in Waiters \cup {NoWaiter}
         /\ \A t : t # s \/ ev \notin Outcomes => Carries(mail, Tail(mail), t)
         /\ IsOutcome(mail, s, 1) <=> ev \in Outcomes
<1>1. mail # <<>> /\ Head(mail).ev = ev /\ Head(mail).to = s
  BY DEF Delivered
<1>2. Tail(mail) \in Seq(Mail) /\ Head(mail) \in Mail /\ mail[1] = Head(mail)
  BY <1>1, TailIs
<1>3. Head(mail) \in [ev : Events, to : Service, cb : Waiters \cup {NoWaiter}]
  <2>1. Head(mail) # FinishStartingCall /\ Head(mail) # FinishStopingCall
    BY <1>1 DEF FinishStartingCall, FinishStopingCall, Events
  <2> QED
    BY <1>2, <2>1 DEF Mail
<1>4. Waiter \in Waiters \cup {NoWaiter}
  BY <1>3 DEF Waiter
<1>5. IsOutcome(mail, s, 1) <=> ev \in Outcomes
  BY <1>1, <1>2 DEF IsOutcome
<1>6. ASSUME NEW t, t # s \/ ev \notin Outcomes PROVE Carries(mail, Tail(mail), t)
  <2>1. ~IsOutcome(mail, t, 1)
    BY <1>1, <1>2, <1>6 DEF IsOutcome
  <2> QED
    BY <1>1, <2>1, TailCarries
<1> QED
  BY <1>1, <1>2, <1>4, <1>5, <1>6

LEMMA FollowedOn ==
  ASSUME NEW p, NEW q \in Seq(Mail), NEW m \in Seq(Mail), Follows(q, m), NEW t, Carries(p, q, t)
  PROVE  Carries(p, m, t)
<1>1. Carries(q, m, t)
  BY FollowsCarries
<1> QED
  BY <1>1, CarriesOn

\* No machine moves.
LEMMA Still ==
  ASSUME IInv, Fine(Driver(mail, state))', RestPart', UNCHANGED <<state, up, opening>>,
         \A t \in Service : Carries(mail, mail', t)
  PROVE  IInv'
<1>1. ASSUME NEW t \in Service PROVE Machine(state[t], t \in up, t \in opening, mail', t)
  <2>1. Machine(state[t], t \in up, t \in opening, mail, t)
    BY DEF IInv, MachineInv
  <2> QED
    BY <2>1, MachineCarried
<1>2. MachineInv'
  BY <1>1 DEF MachineInv
<1>3. DependenciesUp'
  BY DEF IInv, DependenciesUp
<1> QED
  BY <1>2, <1>3 DEF IInv

\* One machine moves.
LEMMA OneMoves ==
  ASSUME IInv, NEW s \in Service, Others(s),
         Machine(state[s], s \in up, s \in opening, mail, s)',
         Fine(Driver(mail, state))', RestPart', DependenciesUp'
  PROVE  IInv'
  BY MachinesKept DEF IInv

\* A waiter joins the chain of its service.
LEMMA ChainedType ==
  ASSUME RestPart, NEW s \in Service, NEW w \in Waiters \cup {NoWaiter}
  PROVE  /\ Chained(s, w) \in Seq(Waiters) /\ waiters[s] \in Seq(Waiters)
         /\ [waiters EXCEPT ![s] = Chained(s, w)] \in [Service -> Seq(Waiters)]
         /\ [waiters EXCEPT ![s] = <<>>] \in [Service -> Seq(Waiters)]
<1>1. waiters[s] \in Seq(Waiters) /\ waiters \in [Service -> Seq(Waiters)]
  BY DEF RestPart
<1>2. Chained(s, w) \in Seq(Waiters)
  <2>1. CASE w = NoWaiter
    BY <1>1, <2>1 DEF Chained
  <2>2. CASE w # NoWaiter
    <3>1. w \in Waiters
      BY <2>2
    <3> HIDE DEF Waiters
    <3>2. Append(waiters[s], w) \in Seq(Waiters)
      BY <1>1, <3>1
    <3> QED
      BY <2>2, <3>2 DEF Chained
  <2> QED
    BY <2>1, <2>2
<1>3. <<>> \in Seq(Waiters)
  BY EmptySeq
<1> QED
  BY <1>1, <1>2, <1>3

LEMMA StateMoves ==
  ASSUME state \in [Service -> States], NEW s \in Service, NEW to \in States, Moves(s, to)
  PROVE  /\ state' \in [Service -> States] /\ state'[s] = to
         /\ \A t \in Service \ {s} : state'[t] = state[t]
  BY DEF Moves

\* What a service needs runs when it is started.
LEMMA NeedsRun ==
  ASSUME IInv, NEW s \in Service, NEW out \in StartOutcomes(s), out.up \cup out.opening # {}
  PROVE  \A t \in DependsOn[s] : t \in up /\ state[t] = "ON"
<1>1. \A t \in DependsOn[s] : state[t] = "ON" /\ t \in Service
  BY StartOutcomesAre
<1> QED
  BY <1>1, MachineIs DEF IInv

LEMMA StartEventKeeps ==
  ASSUME IInv, NEW s \in Service, StartEvent(s)
  PROVE  IInv'
<1> DEFINE q == Tail(mail)
<1>1. /\ q \in Seq(Mail) /\ Waiter \in Waiters \cup {NoWaiter} /\ mail # <<>>
      /\ \A t : Carries(mail, q, t)
  <2>1. "start" \in Events /\ "start" \notin Outcomes /\ Delivered("start", s)
    BY DEF StartEvent, Events, Outcomes
  <2> QED
    BY <2>1, InvariantTypes, DeliveredIs
<1>2. /\ mail \in Seq(Mail) /\ state \in [Service -> States] /\ RestPart /\ MachineInv
      /\ Fine(Driver(mail, state))
  BY InvariantTypes DEF IInv
<1>3. UNCHANGED <<enabled, requests>>
  BY DEF StartEvent, outside
<1>4. [waiters EXCEPT ![s] = Chained(s, Waiter)] \in [Service -> Seq(Waiters)]
  BY <1>1, <1>2, ChainedType
<1>5. CASE /\ state[s] \in Down
           /\ Moves(s, "STARTING")
           /\ needStart' = [needStart EXCEPT ![s] = @ /\ state[s] # "OFF"]
           /\ needStop' = [needStop EXCEPT ![s] = @ /\ state[s] # "OFF"]
           /\ SetCallback(s, Waiter)
           /\ DoStartService(s, Driver(Tail(mail), state))
  <2>1. PICK out \in StartOutcomes(s) :
          /\ Becomes([Driver(q, state) EXCEPT !.mail = @ \o out.sends])
          /\ up' = up \cup out.up /\ opening' = opening \cup out.opening
    BY <1>5 DEF DoStartService
  <2>2. s \notin up /\ s \notin opening /\ NoOutcome(q, s)
    BY <1>1, <1>2, <1>5, MachineIs, TailNone
  <2>3. /\ q \o out.sends \in Seq(Mail)
        /\ Machine("STARTING", s \in out.up, s \in out.opening, q \o out.sends, s)
        /\ \A t : t # s => Carries(q, q \o out.sends, t)
        /\ out.up \subseteq {s} /\ out.opening \subseteq {s}
    BY <1>1, <2>2, StartedMachine
  <2>4. /\ state' \in [Service -> States] /\ state'[s] = "STARTING"
        /\ \A t \in Service \ {s} : state'[t] = state[t]
    BY <1>2, <1>5, StateMoves DEF States
  <2>5. Fine(Driver(mail, state))' /\ mail' = q \o out.sends
    <3> DEFINE d == Driver(q \o out.sends, state)
    <3>1. Becomes(d)
      BY <2>1 DEF Driver, Becomes
    <3>2. Fine(d) /\ d.mail = q \o out.sends
      <4>1. Fine(d)
        BY <1>2, <2>3, DriverOf
      <4> QED
        BY <4>1 DEF Driver
    <3> HIDE DEF d
    <3> QED
      BY <2>4, <3>1, <3>2, BecomesOn
  <2>6. RestPart'
    BY <1>2, <1>3, <1>4, <1>5, <2>1, <2>3 DEF RestPart, SetCallback
  <2>7. Others(s)
    BY <1>1, <2>1, <2>3, <2>4, <2>5, CarriesOn DEF Others
  <2>8. Machine(state[s], s \in up, s \in opening, mail, s)'
    <3>1. (s \in up' <=> s \in out.up) /\ (s \in opening' <=> s \in out.opening)
      BY <2>1, <2>2
    <3> QED
      BY <2>3, <2>4, <2>5, <3>1 DEF Machine
  <2>9. DependenciesUp'
    <3> SUFFICES ASSUME NEW x \in up' \cup opening' PROVE DependsOn[x] \subseteq up'
      BY DEF DependenciesUp
    <3>1. CASE x \in up \cup opening
      BY <2>1, <3>1 DEF IInv, DependenciesUp
    <3>2. CASE x \notin up \cup opening
      <4>1. x = s /\ out.up \cup out.opening # {}
        BY <2>1, <2>3, <3>2
      <4> QED
        BY <2>1, <4>1, NeedsRun
    <3> QED
      BY <3>1, <3>2
  <2> QED
    BY <2>5, <2>6, <2>7, <2>8, <2>9, OneMoves
<1>6. CASE /\ Sends(Tail(mail)) /\ UNCHANGED <<state, needStop, components>>
           /\ needStart' \in {needStart, [needStart EXCEPT ![s] = TRUE]}
           /\ waiters' \in {waiters, [waiters EXCEPT ![s] = Chained(s, Waiter)]}
  <2>1. Fine(Driver(mail, state))' /\ mail' = q
    BY <1>1, <1>2, <1>6, SendsOn
  <2>2. RestPart'
    BY <1>2, <1>3, <1>4, <1>6 DEF RestPart, components
  <2> QED
    BY <1>1, <1>6, <2>1, <2>2, Still DEF components
<1> QED
  BY <1>5, <1>6 DEF StartEvent, SetCallback, machines

\* The dependents of s that are installed are asked to stop.
LEMMA StopDependentsOn ==
  ASSUME NEW s \in Service, NEW q \in Seq(Mail)
  PROVE  StopDependents(s, q) \in Seq(Mail) /\ Follows(q, StopDependents(s, q))
<1> DEFINE asked == Dependents(s) \cap Installed
<1>1. /\ Tell(s, "depend-service-stopped") \in Mail
      /\ Tell(s, "depend-service-stopped").ev \notin Outcomes
  BY CallsInMail DEF Tell, Outcomes, Events
<1>2. "stop" \in Events \ Outcomes
  BY DEF Outcomes, Events
<1> DEFINE p == TellAll(InOrder(asked), "stop")
<1>3. p \in Seq(Mail) /\ \A i \in 1 .. Len(p) : p[i].ev \notin Outcomes
  BY <1>2, InOrderType, TellAllIs
<1> HIDE DEF p
<1>4. q \o p \in Seq(Mail) /\ Follows(q, q \o p)
  BY <1>3, MailConcat
<1>5. /\ Append(q, Tell(s, "depend-service-stopped")) \in Seq(Mail)
      /\ Follows(q, Append(q, Tell(s, "depend-service-stopped")))
  BY <1>1, MailAppend
<1> QED
  BY <1>4, <1>5 DEF StopDependents, p

LEMMA StopEventKeeps ==
  ASSUME IInv, NEW s \in Service, StopEvent(s)
  PROVE  IInv'
<1> DEFINE q == Tail(mail)
<1>1. /\ q \in Seq(Mail) /\ Waiter \in Waiters \cup {NoWaiter} /\ mail # <<>>
      /\ \A t : Carries(mail, q, t)
  <2>1. "stop" \in Events /\ "stop" \notin Outcomes /\ Delivered("stop", s)
    BY DEF StopEvent, Events, Outcomes
  <2> QED
    BY <2>1, InvariantTypes, DeliveredIs
<1>2. /\ mail \in Seq(Mail) /\ state \in [Service -> States] /\ RestPart /\ MachineInv
      /\ Fine(Driver(mail, state))
  BY InvariantTypes DEF IInv
<1>3. UNCHANGED <<enabled, requests, needStart, up, opening>>
  BY DEF StopEvent, outside, components
<1>4. /\ [waiters EXCEPT ![s] = Chained(s, Waiter)] \in [Service -> Seq(Waiters)]
      /\ [waiters EXCEPT ![s] = <<>>] \in [Service -> Seq(Waiters)]
      /\ Chained(s, Waiter) \in Seq(Waiters)
  BY <1>1, <1>2, ChainedType
<1>5. CASE /\ state[s] = "ON" /\ Moves(s, "INFLUENCE") /\ SetCallback(s, Waiter)
           /\ Sends(StopDependents(s, Tail(mail))) /\ UNCHANGED needStop
  <2>1. StopDependents(s, q) \in Seq(Mail) /\ Follows(q, StopDependents(s, q))
    BY <1>1, StopDependentsOn
  <2>2. /\ state' \in [Service -> States] /\ state'[s] = "INFLUENCE"
        /\ \A t \in Service \ {s} : state'[t] = state[t]
    BY <1>2, <1>5, StateMoves DEF States
  <2>3. Fine(Driver(mail, state))' /\ mail' = StopDependents(s, q)
    BY <1>2, <1>5, <2>1, <2>2, SendsOn
  <2>4. RestPart'
    BY <1>2, <1>3, <1>4, <1>5 DEF RestPart, SetCallback
  <2>5. \A t : Carries(mail, mail', t)
    BY <1>1, <2>1, <2>3, FollowedOn
  <2>6. Others(s)
    BY <1>3, <2>2, <2>5 DEF Others
  <2>7. Machine(state[s], s \in up, s \in opening, mail, s)'
    <3>1. s \in up /\ s \notin opening /\ NoOutcome(mail, s)
      BY <1>2, <1>5, MachineIs
    <3>2. NoOutcome(mail', s)
      BY <2>5, <3>1 DEF Carries
    <3> QED
      BY <1>3, <2>2, <3>1, <3>2 DEF Machine
  <2>8. DependenciesUp'
    BY <1>3 DEF DependenciesUp, IInv
  <2> QED
    BY <2>3, <2>4, <2>6, <2>7, <2>8, OneMoves
<1>6. CASE /\ Becomes(Notify(Tail(mail), state, s, Chained(s, Waiter),
                             AnswerWhenDown(state[s])))
           /\ waiters' = [waiters EXCEPT ![s] = <<>>]
           /\ UNCHANGED <<state, needStop>>
  <2>1. Fine(Driver(mail, state))' /\ Follows(q, mail') /\ mail' \in Seq(Mail)
    BY <1>1, <1>2, <1>4, <1>6, NotifiedOn
  <2>2. \A t : Carries(mail, mail', t)
    BY <1>1, <2>1, FollowedOn
  <2>3. RestPart'
    BY <1>2, <1>3, <1>4, <1>6 DEF RestPart
  <2> QED
    BY <1>3, <1>6, <2>1, <2>2, <2>3, Still
<1>7. CASE /\ Sends(Tail(mail)) /\ UNCHANGED state
           /\ needStop' \in {needStop, [needStop EXCEPT ![s] = TRUE]}
           /\ waiters' \in {waiters, [waiters EXCEPT ![s] = Chained(s, Waiter)]}
  <2>1. Fine(Driver(mail, state))' /\ mail' = q
    BY <1>1, <1>2, <1>7, SendsOn
  <2>2. RestPart'
    BY <1>2, <1>3, <1>4, <1>7 DEF RestPart
  <2> QED
    BY <1>1, <1>3, <1>7, <2>1, <2>2, Still
<1> QED
  BY <1>5, <1>6, <1>7 DEF StopEvent, SetCallback

\* The machine moves, whatever the event was, and its waiters are answered.
LEMMA AnswersOn ==
  ASSUME IInv, NEW s \in Service, NEW to \in States, NEW result, Answers(s, to, result),
         Tail(mail) \in Seq(Mail), UNCHANGED <<components, outside>>
  PROVE  /\ Fine(Driver(mail, state))' /\ RestPart' /\ DependenciesUp'
         /\ Follows(Tail(mail), mail') /\ mail' \in Seq(Mail)
         /\ state'[s] = to /\ \A t \in Service \ {s} : state'[t] = state[t]
<1>1. RestPart /\ waiters[s] \in Seq(Waiters)
      /\ [waiters EXCEPT ![s] = <<>>] \in [Service -> Seq(Waiters)]
  BY ChainedType DEF IInv
<1>2. /\ state' \in [Service -> States] /\ state'[s] = to
      /\ \A t \in Service \ {s} : state'[t] = state[t]
  BY InvariantTypes, StateMoves DEF Answers
<1>3. Fine(Driver(mail, state))' /\ Follows(Tail(mail), mail') /\ mail' \in Seq(Mail)
  BY <1>1, <1>2, NotifiedOn DEF Answers, IInv
<1>4. RestPart'
  BY <1>1 DEF RestPart, Answers, components, outside
<1>5. DependenciesUp'
  BY DEF DependenciesUp, IInv, components
<1> QED
  BY <1>2, <1>3, <1>4, <1>5

LEMMA StartedEventKeeps ==
  ASSUME IInv, NEW s \in Service, StartedEvent(s)
  PROVE  IInv'
<1> DEFINE q == Tail(mail)
<1>1. /\ q \in Seq(Mail) /\ mail # <<>> /\ IsOutcome(mail, s, 1)
      /\ \A t : t # s => Carries(mail, q, t)
  <2>1. "service-started" \in Events /\ "service-started" \in Outcomes
        /\ Delivered("service-started", s)
    BY DEF StartedEvent, Events, Outcomes
  <2> QED
    BY <2>1, InvariantTypes, DeliveredIs
<1>2. /\ mail \in Seq(Mail) /\ state \in [Service -> States] /\ RestPart /\ MachineInv
      /\ Fine(Driver(mail, state))
  BY InvariantTypes DEF IInv
<1>3. UNCHANGED <<enabled, requests, up, opening>> /\ UNCHANGED <<components, outside>>
  BY DEF StartedEvent, outside, components
<1>4. state[s] = "STARTING"
  BY DEF StartedEvent
<1>5. s \in up /\ s \notin opening /\ NoOutcome(q, s)
  <2>1. s \notin opening
    <3>1. ~NoOutcome(mail, s)
      BY <1>1, <1>2, TailIs DEF NoOutcome
    <3> QED
      BY <1>2, <3>1, MachineIs
  <2>2. PICK ev \in Outcomes : OneOutcome(mail, s, ev) /\ (ev = "service-started" <=> s \in up)
    BY <1>2, <1>4, <2>1, MachineIs
  <2>3. Head(mail) = Tell(s, ev) /\ NoOutcome(q, s)
    BY <1>1, <1>2, <2>2, TailTakes
  <2>4. ev = "service-started"
    BY <2>3 DEF StartedEvent, Delivered, Tell, Event
  <2> QED
    BY <2>1, <2>2, <2>3, <2>4
<1>6. ASSUME Fine(Driver(mail, state))', RestPart', Follows(q, mail'), mail' \in Seq(Mail),
             state'[s] \in {"ON", "INFLUENCE"},
             \A t \in Service \ {s} : state'[t] = state[t]
      PROVE  IInv'
  <2>1. \A t : t # s => Carries(mail, mail', t)
    BY <1>1, <1>6, FollowedOn
  <2>2. Others(s)
    BY <1>3, <1>6, <2>1 DEF Others
  <2>3. NoOutcome(mail', s)
    BY <1>1, <1>5, <1>6, FollowsCarries DEF Carries
  <2>4. Machine(state[s], s \in up, s \in opening, mail, s)'
    BY <1>3, <1>5, <1>6, <2>3 DEF Machine
  <2>5. DependenciesUp'
    BY <1>3 DEF DependenciesUp, IInv
  <2> QED
    BY <1>6, <2>2, <2>4, <2>5, OneMoves
<1>7. CASE /\ Moves(s, "INFLUENCE") /\ needStop' = [needStop EXCEPT ![s] = FALSE]
           /\ Sends(StopDependents(s, Tail(mail))) /\ UNCHANGED <<needStart, waiters>>
  <2>1. StopDependents(s, q) \in Seq(Mail) /\ Follows(q, StopDependents(s, q))
    BY <1>1, StopDependentsOn
  <2>2. /\ state' \in [Service -> States] /\ state'[s] = "INFLUENCE"
        /\ \A t \in Service \ {s} : state'[t] = state[t]
    BY <1>2, <1>7, StateMoves DEF States
  <2>3. Fine(Driver(mail, state))' /\ mail' = StopDependents(s, q)
    BY <1>2, <1>7, <2>1, <2>2, SendsOn
  <2>4. RestPart'
    BY <1>2, <1>3, <1>7 DEF RestPart
  <2> QED
    BY <1>6, <2>1, <2>2, <2>3, <2>4
<1>8. CASE Answers(s, "ON", "started")
  <2>1. "ON" \in States
    BY DEF States
  <2> QED
    BY <1>1, <1>3, <1>6, <1>8, <2>1, AnswersOn
<1> QED
  BY <1>7, <1>8 DEF StartedEvent

LEMMA SetbackEventKeeps ==
  ASSUME IInv, NEW s \in Service, SetbackEvent(s)
  PROVE  IInv'
<1> DEFINE q == Tail(mail)
<1>1. PICK b \in Setbacks : Delivered(b.ev, s) /\ Answers(s, b.to, b.result)
  BY DEF SetbackEvent
<1>2. /\ b.ev \in Outcomes \ {"service-started"} /\ b.ev \in Events
      /\ b.to \in Down /\ b.to \in States
  BY DEF Setbacks, Outcomes, Events, Down, States
<1>3. /\ mail \in Seq(Mail) /\ state \in [Service -> States] /\ RestPart /\ MachineInv
      /\ Fine(Driver(mail, state))
  BY InvariantTypes DEF IInv
<1>4. /\ q \in Seq(Mail) /\ mail # <<>> /\ IsOutcome(mail, s, 1)
      /\ \A t : t # s => Carries(mail, q, t)
  BY <1>1, <1>2, <1>3, DeliveredIs
<1>5. UNCHANGED <<enabled, requests, up, opening>> /\ UNCHANGED <<components, outside>>
      /\ state[s] = "STARTING"
  BY DEF SetbackEvent, outside, components
<1>6. s \notin up /\ s \notin opening /\ NoOutcome(q, s)
  <2>1. s \notin opening
    <3>1. ~NoOutcome(mail, s)
      BY <1>3, <1>4, TailIs DEF NoOutcome
    <3> QED
      BY <1>3, <3>1, MachineIs
  <2>2. PICK ev \in Outcomes : OneOutcome(mail, s, ev) /\ (ev = "service-started" <=> s \in up)
    BY <1>3, <1>5, <2>1, MachineIs
  <2>3. Head(mail) = Tell(s, ev) /\ NoOutcome(q, s)
    BY <1>3, <1>4, <2>2, TailTakes
  <2>4. ev = b.ev
    BY <1>1, <2>3 DEF Delivered, Tell, Event
  <2> QED
    BY <1>2, <2>1, <2>2, <2>3, <2>4
<1>7. /\ Fine(Driver(mail, state))' /\ RestPart' /\ DependenciesUp'
      /\ Follows(q, mail') /\ mail' \in Seq(Mail)
      /\ state'[s] = b.to /\ \A t \in Service \ {s} : state'[t] = state[t]
  BY <1>1, <1>2, <1>4, <1>5, AnswersOn
<1>8. \A t : t # s => Carries(mail, mail', t)
  BY <1>4, <1>7, FollowedOn
<1>9. Others(s)
  BY <1>5, <1>7, <1>8 DEF Others
<1>10. NoOutcome(mail', s)
  BY <1>4, <1>6, <1>7, FollowsCarries DEF Carries
<1>11. Machine(state[s], s \in up, s \in opening, mail, s)'
  BY <1>2, <1>5, <1>6, <1>7, <1>10 DEF Machine
<1> QED
  BY <1>7, <1>9, <1>11, OneMoves

\* Nothing that depends on s runs or starts when s is stopped.
LEMMA NothingAbove ==
  ASSUME IInv, NEW s \in Service, AllDependsStopped(s)
  PROVE  \A t \in up \cup opening : t \in Service /\ s \notin DependsOn[t]
<1> SUFFICES ASSUME NEW t \in up \cup opening PROVE t \in Service /\ s \notin DependsOn[t]
  OBVIOUS
<1>1. t \in Service
  BY DEF IInv, RestPart
<1>2. ASSUME s \in DependsOn[t] PROVE FALSE
  <2>1. state[t] \in Down
    BY <1>1, <1>2 DEF AllDependsStopped
  <2> QED
    BY <1>1, <2>1, MachineIs DEF IInv
<1> QED
  BY <1>1, <1>2

LEMMA DependStoppedEventKeeps ==
  ASSUME IInv, NEW s \in Service, DependStoppedEvent(s)
  PROVE  IInv'
<1> DEFINE q == Tail(mail)
           p == Append(q, Tell(s, "service-stopped"))
<1>1. /\ q \in Seq(Mail) /\ mail # <<>> /\ \A t : Carries(mail, q, t)
  <2>1. "depend-service-stopped" \in Events /\ "depend-service-stopped" \notin Outcomes
        /\ Delivered("depend-service-stopped", s)
    BY DEF DependStoppedEvent, Events, Outcomes
  <2> QED
    BY <2>1, InvariantTypes, DeliveredIs
<1>2. /\ mail \in Seq(Mail) /\ state \in [Service -> States] /\ RestPart /\ MachineInv
      /\ Fine(Driver(mail, state))
  BY InvariantTypes DEF IInv
<1>3. UNCHANGED <<enabled, requests>>
  BY DEF DependStoppedEvent, outside
<1>4. p \in Seq(Mail) /\ Follows(q, p)
  <2>1. /\ Tell(s, "service-stopped") \in Mail
        /\ Tell(s, "service-stopped").ev \notin Outcomes
    BY CallsInMail DEF Tell, Outcomes, Events
  <2> QED
    BY <1>1, <2>1, MailAppend
<1>5. \A t : Carries(mail, p, t)
  BY <1>1, <1>4, FollowedOn
<1> HIDE DEF p
<1>6. CASE /\ state[s] = "INFLUENCE" /\ AllDependsStopped(s)
           /\ Moves(s, "STOPPING") /\ up' = up \ {s} /\ Becomes(Driver(p, state'))
           /\ UNCHANGED <<needStart, needStop, waiters, opening>>
  <2>1. /\ state' \in [Service -> States] /\ state'[s] = "STOPPING"
        /\ \A t \in Service \ {s} : state'[t] = state[t]
    BY <1>2, <1>6, StateMoves DEF States
  <2>2. Fine(Driver(mail, state))' /\ mail' = p
    <3> DEFINE d == Driver(p, state')
    <3>1. Becomes(d) /\ d.mail = p
      BY <1>6 DEF Driver
    <3>2. Fine(d)
      BY <1>2, <1>4, <2>1 DEF Fine, Driver, Drivers
    <3> HIDE DEF d
    <3> QED
      BY <2>1, <3>1, <3>2, BecomesOn
  <2>3. RestPart'
    BY <1>2, <1>3, <1>6 DEF RestPart
  <2>4. s \in up /\ s \notin opening /\ NoOutcome(mail, s)
    BY <1>2, <1>6, MachineIs
  <2>5. Others(s)
    BY <1>5, <1>6, <2>1, <2>2 DEF Others
  <2>6. NoOutcome(mail', s)
    BY <1>5, <2>2, <2>4 DEF Carries
  <2>7. Machine(state[s], s \in up, s \in opening, mail, s)'
    BY <1>6, <2>1, <2>4, <2>6 DEF Machine
  <2>8. DependenciesUp'
    BY <1>6, NothingAbove DEF DependenciesUp, IInv
  <2> QED
    BY <2>2, <2>3, <2>5, <2>7, <2>8, OneMoves
<1>7. CASE /\ state[s] = "INFLUENCE" /\ AllDependsStopped(s)
           /\ Moves(s, "STARTING")
           /\ needStart' = [needStart EXCEPT ![s] = FALSE]
           /\ waiters' = [waiters EXCEPT ![s] = <<>>]
           /\ LET d == Notify(p, state', s, waiters[s], "stopped")
              IN  \E out \in StartOutcomes(s) :
                     /\ Becomes([d EXCEPT !.mail = @ \o out.sends])
                     /\ up' = (up \ {s}) \cup out.up
                     /\ opening' = opening \cup out.opening
           /\ UNCHANGED needStop
  <2>1. /\ state' \in [Service -> States] /\ state'[s] = "STARTING"
        /\ \A t \in Service \ {s} : state'[t] = state[t]
    BY <1>2, <1>7, StateMoves DEF States
  <2> DEFINE d == Notify(p, state', s, waiters[s], "stopped")
  <2>2. PICK out \in StartOutcomes(s) :
          /\ Becomes([d EXCEPT !.mail = @ \o out.sends])
          /\ up' = (up \ {s}) \cup out.up /\ opening' = opening \cup out.opening
    BY <1>7
  <2>3. Fine(d) /\ Follows(p, d.mail) /\ d.mail \in Seq(Mail)
    <3>1. waiters[s] \in Seq(Waiters)
      BY <1>2 DEF RestPart
    <3>2. Fine(Driver(p, state'))
      BY <1>2, <1>4, <2>1 DEF Fine, Driver, Drivers
    <3>3. Onward(Driver(p, state'), d)
      BY <3>1, <3>2, NotifyOn
    <3>4. Driver(p, state').mail = p
      BY DEF Driver
    <3> HIDE DEF d
    <3> QED
      BY <3>3, <3>4 DEF Onward, From, Fine, Drivers
  <2> HIDE DEF d
  <2>4. \A t : Carries(mail, d.mail, t)
    BY <1>4, <1>5, <2>3, FollowedOn
  <2>5. s \in up /\ s \notin opening /\ NoOutcome(mail, s)
    BY <1>2, <1>7, MachineIs
  <2>6. NoOutcome(d.mail, s)
    BY <2>4, <2>5 DEF Carries
  <2>7. /\ d.mail \o out.sends \in Seq(Mail)
        /\ Machine("STARTING", s \in out.up, s \in out.opening, d.mail \o out.sends, s)
        /\ \A t : t # s => Carries(d.mail, d.mail \o out.sends, t)
        /\ out.up \subseteq {s} /\ out.opening \subseteq {s}
    BY <2>3, <2>6, StartedMachine
  <2>8. Fine(Driver(mail, state))' /\ mail' = d.mail \o out.sends
    <3> DEFINE m == d.mail \o out.sends
               e == [d EXCEPT !.mail = m]
    <3>1. Becomes(e)
      BY <2>2
    <3> HIDE DEF m
    <3>2. Fine(e) /\ e.mail = m
      BY <2>3, <2>7 DEF Fine, Drivers, m
    <3> HIDE DEF e
    <3>3. Fine(Driver(mail, state))' /\ mail' = m
      BY <2>1, <3>1, <3>2, BecomesOn
    <3> QED
      BY <3>3 DEF m
  <2>9. RestPart'
    <3>1. [waiters EXCEPT ![s] = <<>>] \in [Service -> Seq(Waiters)]
      <4>1. <<>> \in Seq(Waiters)
        BY EmptySeq
      <4> QED
        BY <1>2, <4>1 DEF RestPart
    <3> QED
      BY <1>2, <1>3, <1>7, <2>2, <2>7, <3>1 DEF RestPart
  <2>10. Others(s)
    <3>1. \A t : t # s => Carries(mail, mail', t)
      BY <2>4, <2>7, <2>8, CarriesOn
    <3> QED
      BY <2>1, <2>2, <2>7, <3>1 DEF Others
  <2>11. Machine(state[s], s \in up, s \in opening, mail, s)'
    <3>1. (s \in up' <=> s \in out.up) /\ (s \in opening' <=> s \in out.opening)
      BY <2>2, <2>5
    <3> QED
      BY <2>1, <2>7, <2>8, <3>1 DEF Machine
  <2>12. DependenciesUp'
    <3> SUFFICES ASSUME NEW x \in up' \cup opening' PROVE DependsOn[x] \subseteq up'
      BY DEF DependenciesUp
    <3>1. CASE x \in up \cup opening
      <4>1. DependsOn[x] \subseteq up /\ s \notin DependsOn[x]
        BY <1>7, <3>1, NothingAbove DEF IInv, DependenciesUp
      <4> QED
        BY <2>2, <4>1
    <3>2. CASE x \notin up \cup opening
      <4>1. x = s /\ out.up \cup out.opening # {}
        BY <2>2, <2>7, <3>2
      <4> QED
        BY <2>5, <3>2, <4>1
    <3> QED
      BY <3>1, <3>2
  <2> QED
    BY <2>8, <2>9, <2>10, <2>11, <2>12, OneMoves
<1>8. CASE Sends(Tail(mail)) /\ UNCHANGED <<machines, components>>
  <2>1. Fine(Driver(mail, state))' /\ mail' = q
    BY <1>1, <1>2, <1>8, SendsOn DEF machines
  <2>2. RestPart'
    BY <1>2, <1>3, <1>8 DEF RestPart, machines, components
  <2> QED
    BY <1>1, <1>8, <2>1, <2>2, Still DEF machines, components
<1> QED
  BY <1>6, <1>7, <1>8 DEF DependStoppedEvent, p

LEMMA StoppedEventKeeps ==
  ASSUME IInv, NEW s \in Service, StoppedEvent(s)
  PROVE  IInv'
<1> DEFINE q == Tail(mail)
<1>1. /\ q \in Seq(Mail) /\ mail # <<>> /\ \A t : Carries(mail, q, t)
  <2>1. "service-stopped" \in Events /\ "service-stopped" \notin Outcomes
        /\ Delivered("service-stopped", s)
    BY DEF StoppedEvent, Events, Outcomes
  <2> QED
    BY <2>1, InvariantTypes, DeliveredIs
<1>2. /\ mail \in Seq(Mail) /\ state \in [Service -> States] /\ RestPart /\ MachineInv
      /\ Fine(Driver(mail, state))
  BY InvariantTypes DEF IInv
<1>3. UNCHANGED <<enabled, requests, up, opening>> /\ UNCHANGED <<components, outside>>
  BY DEF StoppedEvent, outside, components
<1>4. CASE state[s] = "STOPPING" /\ Answers(s, "OFF", "stopped")
  <2>1. /\ Fine(Driver(mail, state))' /\ RestPart' /\ DependenciesUp'
        /\ Follows(q, mail') /\ mail' \in Seq(Mail)
        /\ state'[s] = "OFF" /\ \A t \in Service \ {s} : state'[t] = state[t]
    BY <1>1, <1>3, <1>4, AnswersOn DEF States
  <2>2. \A t : Carries(mail, mail', t)
    BY <1>1, <2>1, FollowedOn
  <2>3. Others(s)
    BY <1>3, <2>1, <2>2 DEF Others
  <2>4. s \notin up /\ s \notin opening /\ NoOutcome(mail, s)
    BY <1>2, <1>4, MachineIs
  <2>5. NoOutcome(mail', s)
    BY <2>2, <2>4 DEF Carries
  <2>6. Machine(state[s], s \in up, s \in opening, mail, s)'
    BY <1>3, <2>1, <2>4, <2>5 DEF Machine, Down
  <2> QED
    BY <2>1, <2>3, <2>6, OneMoves
<1>5. CASE Sends(Tail(mail)) /\ UNCHANGED machines
  <2>1. Fine(Driver(mail, state))' /\ mail' = q
    BY <1>1, <1>2, <1>5, SendsOn DEF machines
  <2>2. RestPart'
    BY <1>2, <1>3, <1>5 DEF RestPart, machines
  <2> QED
    BY <1>1, <1>3, <1>5, <2>1, <2>2, Still DEF machines
<1> QED
  BY <1>4, <1>5 DEF StoppedEvent

\* A group's Deferred is forgotten.
LEMMA FinishKeeps ==
  ASSUME IInv, DoFinishStarting \/ DoFinishStoping
  PROVE  IInv'
<1> DEFINE q == Tail(mail)
<1>1. /\ mail \in Seq(Mail) /\ state \in [Service -> States] /\ RestPart
      /\ Fine(Driver(mail, state))
  BY InvariantTypes DEF IInv
<1>2. /\ mail # <<>> /\ mail' = q /\ UNCHANGED <<machines, components, restarts, outside>>
      /\ Head(mail) \in {FinishStartingCall, FinishStopingCall}
  BY DEF DoFinishStarting, DoFinishStoping
<1>3. q \in Seq(Mail) /\ mail[1] = Head(mail)
  BY <1>1, <1>2, TailIs
<1>4. \A t : Carries(mail, mail', t)
  <2>1. Head(mail).ev \notin Outcomes
    BY <1>2, CallsInMail
  <2> QED
    BY <1>1, <1>2, <1>3, <2>1, TailCarries DEF IsOutcome
<1>5. Fine(Driver(mail, state))'
  <2>1. Absent \in Deferreds /\ Groups(Absent) /\ Awaited(restarts', Absent.subs)
    <3>1. <<>> \in Seq(Subscribers)
      BY EmptySeq
    <3> QED
      BY <3>1 DEF Absent, Deferreds, Groups, Awaited
  <2>2. /\ starting' \in {starting, Absent} /\ stoping' \in {stoping, Absent}
    BY DEF DoFinishStarting, DoFinishStoping
  <2>3. /\ starting \in Deferreds /\ stoping \in Deferreds /\ Groups(starting) /\ Groups(stoping)
        /\ restarts \in [Restart -> Rounds]
        /\ \A r \in Restart : Round(restarts[r])
        /\ Awaited(restarts, starting.subs) /\ Awaited(restarts, stoping.subs)
    BY <1>1 DEF Fine, Driver, Drivers
  <2>4. restarts' = restarts /\ state' = state
    BY <1>2 DEF machines
  <2>5. /\ starting' \in Deferreds /\ Groups(starting') /\ Awaited(restarts', starting'.subs)
        /\ stoping' \in Deferreds /\ Groups(stoping') /\ Awaited(restarts', stoping'.subs)
    BY <2>1, <2>2, <2>3, <2>4
  <2> QED
    BY <1>1, <1>2, <1>3, <2>3, <2>4, <2>5 DEF Fine, Driver, Drivers
<1>6. RestPart'
  BY <1>1, <1>2 DEF RestPart, machines, components, outside
<1> QED
  BY <1>2, <1>4, <1>5, <1>6, Still DEF machines, components

\* The Deferred of start() fires.
LEMMA OpeningEndsKeeps ==
  ASSUME IInv, NEW s \in Service, StartDone(s) \/ StartFails(s)
  PROVE  IInv'
<1>1. /\ mail \in Seq(Mail) /\ state \in [Service -> States] /\ RestPart /\ MachineInv
      /\ Fine(Driver(mail, state))
  BY InvariantTypes DEF IInv
<1>2. PICK ev \in {"service-started", "service-failed"} :
        /\ s \in opening /\ opening' = opening \ {s} /\ Sends(Append(mail, Tell(s, ev)))
        /\ up' = IF ev = "service-started" THEN up \cup {s} ELSE up
        /\ UNCHANGED <<machines, outside>>
  BY DEF StartDone, StartFails
<1>3. ev \in Outcomes
  BY <1>2 DEF Outcomes
<1>4. state[s] = "STARTING" /\ s \notin up /\ NoOutcome(mail, s)
  BY <1>1, <1>2, MachineIs
<1>5. /\ Append(mail, Tell(s, ev)) \in Seq(Mail)
      /\ OneOutcome(Append(mail, Tell(s, ev)), s, ev)
      /\ \A t : t # s => Carries(mail, Append(mail, Tell(s, ev)), t)
  BY <1>1, <1>3, <1>4, SentOutcome
<1>6. Fine(Driver(mail, state))' /\ mail' = Append(mail, Tell(s, ev)) /\ state' = state
  BY <1>1, <1>2, <1>5, SendsOn DEF machines
<1>7. RestPart'
  BY <1>1, <1>2 DEF RestPart, machines, outside
<1>8. Others(s)
  BY <1>2, <1>5, <1>6 DEF Others
<1>9. Machine(state[s], s \in up, s \in opening, mail, s)'
  <2>1. (ev = "service-started" <=> s \in up') /\ s \notin opening'
    BY <1>2, <1>4
  <2> QED
    BY <1>3, <1>4, <1>5, <1>6, <2>1 DEF Machine
<1>10. DependenciesUp'
  BY <1>2 DEF IInv, DependenciesUp
<1> QED
  BY <1>6, <1>7, <1>8, <1>9, <1>10, OneMoves

\* A request from outside sends an event, or a waiter joins its service.
LEMMA RequestKeeps ==
  ASSUME IInv, NEW s \in Service,
         \/ \E ev \in Events \ Outcomes, w \in Waiters \cup {NoWaiter} :
              Sends(Append(mail, Event(ev, s, w))) /\ UNCHANGED waiters
         \/ \E w \in Waiters : SetCallback(s, w) /\ Sends(mail),
         UNCHANGED <<state, needStart, needStop, components>>,
         enabled' \subseteq Service, requests' \in 0 .. MaxRequests
  PROVE  IInv'
<1>1. /\ mail \in Seq(Mail) /\ state \in [Service -> States] /\ RestPart
      /\ Fine(Driver(mail, state))
  BY InvariantTypes DEF IInv
<1>2. CASE \E ev \in Events \ Outcomes, w \in Waiters \cup {NoWaiter} :
              Sends(Append(mail, Event(ev, s, w))) /\ UNCHANGED waiters
  <2>1. PICK ev \in Events \ Outcomes, w \in Waiters \cup {NoWaiter} :
              Sends(Append(mail, Event(ev, s, w))) /\ UNCHANGED waiters
    BY <1>2
  <2>2. Event(ev, s, w) \in Mail /\ Event(ev, s, w).ev \notin Outcomes
    BY CallsInMail
  <2> DEFINE m == Append(mail, Event(ev, s, w))
  <2>3. m \in Seq(Mail) /\ Follows(mail, m)
    BY <1>1, <2>2, MailAppend
  <2> HIDE DEF m
  <2>4. Fine(Driver(mail, state))' /\ mail' = m
    BY <1>1, <2>1, <2>3, SendsOn DEF m
  <2>5. RestPart'
    BY <1>1, <2>1 DEF RestPart, components
  <2>6. \A t \in Service : Carries(mail, mail', t)
    BY <1>1, <2>3, <2>4, FollowsCarries
  <2> QED
    BY <2>4, <2>5, <2>6, Still DEF components
<1>3. CASE \E w \in Waiters : SetCallback(s, w) /\ Sends(mail)
  <2>1. PICK w \in Waiters : SetCallback(s, w) /\ Sends(mail)
    BY <1>3
  <2>2. Fine(Driver(mail, state))' /\ mail' = mail
    BY <1>1, <2>1, SendsOn
  <2>3. RestPart'
    <3>1. [waiters EXCEPT ![s] = Chained(s, w)] \in [Service -> Seq(Waiters)]
      BY <1>1, ChainedType
    <3> QED
      BY <1>1, <2>1, <3>1 DEF RestPart, components, SetCallback
  <2>4. \A t \in Service : Carries(mail, mail', t)
    BY <2>2 DEF Carries
  <2> QED
    BY <2>2, <2>3, <2>4, Still DEF components
<1> QED
  BY <1>2, <1>3

LEMMA AsksCount == RestPart /\ Asks => requests' \in 0 .. MaxRequests
  BY DEF RestPart, Asks

LEMMA SinglesKeep ==
  ASSUME IInv, NEW s \in Service, Switch(s) \/ StartSingle(s) \/ StopSingle(s)
  PROVE  IInv'
<1>1. RestPart /\ requests' \in 0 .. MaxRequests
  BY AsksCount DEF IInv, Switch, StartSingle, StopSingle
<1>2. /\ {"start", "stop"} \subseteq Events \ Outcomes /\ NoWaiter \in Waiters \cup {NoWaiter}
      /\ "answer" \in Waiters /\ "then-stop" \in Waiters
  BY DEF Events, Outcomes, Waiters
<1>3. CASE Switch(s)
  <2>1. enabled' \subseteq Service
    BY <1>1, <1>3 DEF Switch, RestPart
  <2>2. \E ev \in Events \ Outcomes, w \in Waiters \cup {NoWaiter} :
          Sends(Append(mail, Event(ev, s, w)))
    BY <1>2, <1>3 DEF Switch, Tell
  <2>3. UNCHANGED <<waiters, state, needStart, needStop, components>>
    BY <1>3 DEF Switch, machines
  <2> QED
    BY <1>1, <2>1, <2>2, <2>3, RequestKeeps
<1>4. CASE StartSingle(s)
  <2>1. /\ Sends(Append(mail, Event("start", s, "answer")))
        /\ UNCHANGED <<waiters, state, needStart, needStop, components, enabled>>
    BY <1>4 DEF StartSingle, machines
  <2>2. enabled' \subseteq Service
    BY <1>1, <2>1 DEF RestPart
  <2> QED
    BY <1>1, <1>2, <2>1, <2>2, RequestKeeps
<1>5. CASE StopSingle(s)
  <2>1. UNCHANGED <<state, needStart, needStop, components, enabled>>
    BY <1>5 DEF StopSingle
  <2>2. enabled' \subseteq Service
    BY <1>1, <2>1 DEF RestPart
  <2>3. \/ Sends(Append(mail, Event("stop", s, "answer"))) /\ UNCHANGED waiters
        \/ \E w \in Waiters : SetCallback(s, w) /\ Sends(mail)
    BY <1>2, <1>5 DEF StopSingle
  <2> QED
    BY <1>1, <1>2, <2>1, <2>2, <2>3, RequestKeeps
<1> QED
  BY <1>3, <1>4, <1>5

\* Only the driver moves.
LEMMA DriverMoves ==
  ASSUME IInv, NEW d, Onward(Driver(mail, state), d), Becomes(d), RestPart',
         UNCHANGED <<state, up, opening>>
  PROVE  IInv' /\ Follows(mail, mail')
<1>1. /\ mail \in Seq(Mail) /\ state \in [Service -> States]
      /\ Driver(mail, state).mail = mail
  BY InvariantTypes DEF Driver
<1>2. Fine(d) /\ Follows(mail, d.mail) /\ d.mail \in Seq(Mail)
  BY <1>1 DEF Onward, From, Fine, Drivers
<1>3. Fine(Driver(mail, state))' /\ mail' = d.mail
  BY <1>1, <1>2, BecomesOn
<1>4. \A t \in Service : Carries(mail, mail', t)
  BY <1>1, <1>2, <1>3, FollowsCarries
<1> QED
  BY <1>2, <1>3, <1>4, Still

\* A restart may wait for the services that are starting or stopping.
LEMMA WaitsOn ==
  ASSUME NEW z \in Deferreds, Groups(z), NEW r \in Restart, NEW x, NEW wait \in BOOLEAN
  PROVE  LET y == [z EXCEPT !.subs = IF wait THEN Append(@, <<"dep", r>>) ELSE @] IN
         y \in Deferreds /\ Groups(y) /\ Joined(x, r, z.subs, y.subs)
<1> DEFINE u == <<"dep", r>>
           y == [z EXCEPT !.subs = IF wait THEN Append(@, u) ELSE @]
<1>1. CASE wait
  <2>1. u \in Subscribers
    BY DEF Subscribers
  <2>2. y = [z EXCEPT !.subs = Append(@, u)]
    BY <1>1
  <2> HIDE DEF y
  <2>3. /\ y \in Deferreds /\ y.state = z.state /\ y.left = z.left
        /\ \A i \in DOMAIN y.subs : \/ i \in DOMAIN z.subs /\ y.subs[i] = z.subs[i]
                                    \/ y.subs[i] = u
    BY <2>1, <2>2, Subscribed
  <2>4. y \in Deferreds /\ Groups(y) /\ Joined(x, r, z.subs, y.subs)
    BY <2>3 DEF Groups, Joined
  <2> QED
    BY <2>4 DEF y
<1>2. CASE ~wait
  <2>1. y = z
    BY <1>2 DEF Deferreds
  <2> HIDE DEF y
  <2>2. y \in Deferreds /\ Groups(y) /\ Joined(x, r, z.subs, y.subs)
    BY <2>1, JoinedSelf
  <2> QED
    BY <2>2 DEF y
<1> QED
  BY <1>1, <1>2

LEMMA RestartServiceKeeps ==
  ASSUME IInv, NEW r \in Restart, NEW s \in Service, NEW timed \in BOOLEAN,
         RestartService(r, s, timed)
  PROVE  IInv' /\ Follows(mail, mail')
<1> DEFINE waits == (IF stoping.state = "pending" THEN {"stop"} ELSE {})
                    \cup (IF starting.state = "pending" THEN {"start"} ELSE {})
                    \cup (IF timed /\ \E t \in Service : state[t] \in Moving
                          THEN {"timer"} ELSE {})
           x == [phase |-> "waiting", svc |-> s, waits |-> waits]
           u == <<"dep", r>>
           a == [starting EXCEPT !.subs = IF "start" \in waits THEN Append(@, u) ELSE @]
           b == [stoping EXCEPT !.subs = IF "stop" \in waits THEN Append(@, u) ELSE @]
           d == Driver(mail, state)
           e == [d EXCEPT !.restarts[r] = x,
                          !.stoping.subs = IF "stop" \in waits THEN Append(@, u) ELSE @,
                          !.starting.subs = IF "start" \in waits THEN Append(@, u) ELSE @]
           f == IF waits = {} THEN DoStop(e, r) ELSE e
<1>1. /\ d \in Drivers /\ Fine(d) /\ d.mail = mail /\ d.restarts = restarts
      /\ d.starting = starting /\ d.stoping = stoping
      /\ mail \in Seq(Mail) /\ starting \in Deferreds /\ stoping \in Deferreds
      /\ restarts \in [Restart -> Rounds] /\ Groups(starting) /\ Groups(stoping)
  BY InvariantTypes DEF IInv, Fine, Driver
<1>2. restarts[r].phase = "idle"
  BY DEF RestartService
<1>3. x \in Rounds
  BY DEF Rounds, Phases
<1>4. Begun(x) /\ Round(x) /\ ~Acts(d.restarts[r])
  BY <1>1, <1>2 DEF Begun, Round, Acts
<1>5. x.waits = waits
  OBVIOUS
<1>6. Becomes(Settle(f))
  BY DEF RestartService, waits
<1> HIDE DEF waits, x
<1>7. /\ a \in Deferreds /\ Groups(a) /\ Joined(x, r, starting.subs, a.subs)
  <2> DEFINE wait == "start" \in waits
  <2>1. wait \in BOOLEAN
    OBVIOUS
  <2> HIDE DEF wait
  <2>2. LET y == [starting EXCEPT !.subs = IF wait THEN Append(@, u) ELSE @] IN
        y \in Deferreds /\ Groups(y) /\ Joined(x, r, starting.subs, y.subs)
    BY <1>1, <2>1, WaitsOn
  <2> QED
    BY <2>2 DEF wait
<1>8. /\ b \in Deferreds /\ Groups(b) /\ Joined(x, r, stoping.subs, b.subs)
  <2> DEFINE wait == "stop" \in waits
  <2>1. wait \in BOOLEAN
    OBVIOUS
  <2> HIDE DEF wait
  <2>2. LET y == [stoping EXCEPT !.subs = IF wait THEN Append(@, u) ELSE @] IN
        y \in Deferreds /\ Groups(y) /\ Joined(x, r, stoping.subs, y.subs)
    BY <1>1, <2>1, WaitsOn
  <2> QED
    BY <2>2 DEF wait
<1>9. e = [d EXCEPT !.mail = mail, !.starting = a, !.stoping = b,
                    !.restarts = [@ EXCEPT ![r] = x]]
  BY <1>1 DEF Drivers
<1> HIDE DEF a, b, e
<1>10. Onward(d, e) /\ e.restarts[r] = x
  <2>1. Follows(d.mail, mail)
    BY <1>1, FollowsSelf
  <2>2. Onward(d, e)
    BY <1>1, <1>3, <1>4, <1>7, <1>8, <1>9, <2>1, SetOn
  <2>3. e.restarts[r] = x
    BY <1>1, <1>9 DEF Drivers
  <2> QED
    BY <2>2, <2>3
<1>11. Onward(e, f)
  <2>1. CASE waits = {}
    <3>1. Acts(e.restarts[r])
      BY <1>4, <1>5, <1>10, <2>1 DEF Acts
    <3> QED
      BY <1>10, <2>1, <3>1, DoStopOn DEF Onward
  <2>2. CASE waits # {}
    BY <1>10, <2>2, FromSelf DEF Onward
  <2> QED
    BY <2>1, <2>2
<1> HIDE DEF d, f
<1>12. Onward(d, f)
  BY <1>1, <1>10, <1>11, FromOn
<1>13. Onward(d, Settle(f))
  <2>1. Onward(f, Settle(f))
    BY <1>12, SettleOn DEF Onward
  <2> QED
    BY <1>1, <1>12, <2>1, FromOn
<1>14. RestPart' /\ UNCHANGED <<state, up, opening>>
  <2>1. requests' \in 0 .. MaxRequests
    BY AsksCount DEF IInv, RestartService
  <2> QED
    BY <2>1 DEF IInv, RestPart, RestartService, machines, components
<1> QED
  BY <1>6, <1>13, <1>14, DriverMoves DEF d

LEMMA RestartTimerKeeps ==
  ASSUME IInv, NEW r \in Restart, RestartTimer(r)
  PROVE  IInv' /\ Follows(mail, mail')
<1> DEFINE d == Driver(mail, state)
           e == Fired(d, r, "timer")
<1>1. Fine(d) /\ Begun(d.restarts[r])
  BY DEF IInv, RestartTimer, Driver, Begun
<1>2. Becomes(Settle(e)) /\ RestPart' /\ UNCHANGED <<state, up, opening>>
  BY DEF RestartTimer, IInv, RestPart, machines, components, outside
<1> HIDE DEF d
<1>3. Onward(d, e)
  BY <1>1, FiredOn
<1> HIDE DEF e
<1>4. Onward(e, Settle(e))
  BY <1>3, SettleOn DEF Onward
<1>5. Onward(d, Settle(e))
  BY <1>1, <1>3, <1>4, FromOn
<1> QED
  BY <1>2, <1>5, DriverMoves DEF d

LEMMA InitInv == Init => IInv
<1> SUFFICES ASSUME Init PROVE IInv
  OBVIOUS
<1> USE DEF Init
<1>1. enabled \subseteq Service /\ IsFiniteSet(Service)
  <2>1. PICK n \in Nat : n = Len(Loaded) /\ DOMAIN Loaded = 1 .. n
    OBVIOUS
  <2>2. Loaded \in Surjection(1 .. n, Service)
    BY <2>1 DEF Surjection, Range
  <2>3. IsFiniteSet(1 .. n)
    BY <2>1, FS_Interval
  <2> QED
    BY <2>2, <2>3, FS_Surjection
<1>2. PICK order \in SetToSeqs(enabled) :
        mail = [i \in DOMAIN order |-> Event("start", order[i], "start-group")]
  OBVIOUS
<1>3. PICK n \in Nat : order \in [1 .. n -> enabled]
  <2>1. Cardinality(enabled) \in Nat
    BY <1>1, FS_Subset, FS_CardinalityType
  <2> QED
    BY <1>2, <2>1 DEF SetToSeqs
<1>4. mail \in Seq(Mail) /\ \A i \in DOMAIN mail : mail[i].ev \notin Outcomes
  <2>1. \A i \in 1 .. n : /\ Event("start", order[i], "start-group") \in Mail
                          /\ Event("start", order[i], "start-group").ev \notin Outcomes
    BY <1>1, <1>3, CallsInMail DEF Events, Waiters, Outcomes
  <2>2. mail = [i \in 1 .. n |-> Event("start", order[i], "start-group")]
    BY <1>2, <1>3
  <2> HIDE DEF Mail, Init
  <2> QED
    BY <2>1, <2>2
<1>5. Fine(Driver(mail, state))
  <2>1. /\ starting \in Deferreds /\ stoping \in Deferreds
        /\ Groups(starting) /\ Groups(stoping) /\ starting.subs = <<>> /\ stoping.subs = <<>>
    <3>1. <<>> \in Seq(Subscribers)
      BY EmptySeq
    <3> QED
      BY <1>1, <3>1 DEF Absent, Pending, Deferreds, Groups
  <2>2. /\ Idle \in Rounds /\ Round(Idle)
    BY DEF Idle, Rounds, Phases, Round, Begun
  <2>3. restarts \in [Restart -> Rounds] /\ \A r \in Restart : Round(restarts[r])
    BY <2>2
  <2>4. state \in [Service -> States]
    BY DEF States
  <2>5. Driver(mail, state) \in Drivers
    BY <1>4, <2>1, <2>3, <2>4 DEF Driver, Drivers
  <2> QED
    BY <2>1, <2>3, <2>5 DEF Fine, Driver, Awaited
<1>6. RestPart
  <2>1. <<>> \in Seq(Waiters)
    BY EmptySeq
  <2> QED
    BY <1>1, <2>1 DEF RestPart
<1>7. MachineInv
  BY <1>4 DEF MachineInv, Machine, NoOutcome, IsOutcome, Down
<1>8. DependenciesUp
  BY DEF DependenciesUp
<1> QED
  BY <1>5, <1>6, <1>7, <1>8 DEF IInv

LEMMA NextInv == IInv /\ [Next]_vars => IInv'
<1> SUFFICES ASSUME IInv, [Next]_vars PROVE IInv'
  OBVIOUS
<1>1. ASSUME NEW s \in Service, Handle(s) PROVE IInv'
  BY <1>1, StartEventKeeps, StopEventKeeps, StartedEventKeeps, SetbackEventKeeps,
     DependStoppedEventKeeps, StoppedEventKeeps DEF Handle
<1>2. CASE Deliver
  BY <1>1, <1>2, FinishKeeps DEF Deliver
<1>3. ASSUME NEW s \in Service, StartDone(s) \/ StartFails(s) PROVE IInv'
  BY <1>3, OpeningEndsKeeps
<1>4. ASSUME NEW s \in Service, Ask(s) PROVE IInv'
  BY <1>4, SinglesKeep, RestartServiceKeeps DEF Ask
<1>5. ASSUME NEW r \in Restart, RestartTimer(r) PROVE IInv'
  BY <1>5, RestartTimerKeeps
<1>6. CASE UNCHANGED vars
  <2>1. UNCHANGED <<mail, starting, stoping, restarts, state, up, opening>>
    BY <1>6 DEF vars, machines, components, drv
  <2>2. Fine(Driver(mail, state))'
    BY <2>1 DEF IInv, Fine, Driver, Awaited
  <2>3. RestPart'
    BY <1>6 DEF IInv, RestPart, vars, machines, components, outside
  <2>4. \A t \in Service : Carries(mail, mail', t)
    BY <2>1 DEF Carries
  <2> QED
    BY <2>1, <2>2, <2>3, <2>4, Still
<1> QED
  BY <1>2, <1>3, <1>4, <1>5, <1>6 DEF Next

\* The inductive invariant holds at every moment, whatever requests, restarts,
\* failures and late starts overlap.
THEOREM Invariance == Spec => []IInv
<1>1. Init => IInv
  BY InitInv
<1>2. IInv /\ [Next]_vars => IInv'
  BY NextInv
<1> QED
  BY <1>1, <1>2, PTL DEF Spec

\* The machines of the services and the driver keep their types.
THEOREM TypeCorrect == Spec => []TypeOK
<1>1. IInv => TypeOK
  <2> SUFFICES ASSUME IInv PROVE TypeOK
    OBVIOUS
  <2>1. /\ state \in [Service -> States] /\ mail \in Seq(Mail)
        /\ \A d \in {starting, stoping} :
             /\ d.state \in {"none", "pending", "fired"} /\ d.left \subseteq Service
             /\ d.state = "pending" <=> d.left # {}
        /\ restarts \in [Restart -> Rounds] /\ \A r \in Restart : Round(restarts[r])
    BY DEF IInv, Fine, Driver, Drivers, Deferreds, Groups
  <2>2. \A i \in DOMAIN mail :
          \/ mail[i] \in {FinishStartingCall, FinishStopingCall}
          \/ mail[i] \in [ev : Events, to : Service, cb : Waiters \cup {NoWaiter}]
    <3>1. \A i \in DOMAIN mail : mail[i] \in Mail
      <4> HIDE DEF Mail
      <4> QED
        BY <2>1
    <3> QED
      BY <3>1 DEF Mail
  <2>3. \A r \in Restart :
          /\ restarts[r].phase \in {"idle", "waiting", "stopping", "starting",
                                   "done", "failed"}
          /\ restarts[r].waits # {} => restarts[r].phase = "waiting"
    BY <2>1 DEF Rounds, Phases, Round
  <2> QED
    BY <2>1, <2>2, <2>3 DEF TypeOK, IInv, RestPart
<1> QED
  BY <1>1, Invariance, PTL

\* doStartService(), isAllDependsStopped(): a service that runs, or whose start()
\* is under way, has all it needs running under it, and the state of its machine
\* tells truly whether it runs.
THEOREM ServicesAreSound == Spec => []ServicesSound
<1>1. IInv => ServicesSound
  <2> SUFFICES ASSUME IInv PROVE ServicesSound
    OBVIOUS
  <2>1. ASSUME NEW s \in Service, s \in up, state[s] \notin {"ON", "INFLUENCE"}
        PROVE  /\ state[s] = "STARTING"
               /\ \E i \in DOMAIN mail : mail[i] = Tell(s, "service-started")
    <3>1. state[s] = "STARTING" /\ s \notin opening
      BY <2>1, MachineIs DEF IInv, MachineInv, Machine
    <3>2. \E ev \in Outcomes : OneOutcome(mail, s, ev) /\ (ev = "service-started" <=> s \in up)
      BY <3>1, MachineIs DEF IInv
    <3> QED
      BY <2>1, <3>1, <3>2 DEF OneOutcome
  <2>2. StateTellsRunning
    BY <2>1, MachineIs DEF StateTellsRunning, IInv
  <2> QED
    BY <2>2 DEF ServicesSound, IInv
<1> QED
  BY <1>1, Invariance, PTL

-----------------------------------------------------------------------------
(* No service waits for ever for what depends on it.                       *)

\* An event for s is on its way.
Coming(q, s, ev) == \E i \in DOMAIN q : q[i].ev = ev /\ q[i].to = s

\* t is on its way down: it stops, or starts and will stop, or is asked to.
Leaving(t) ==
    \/ state[t] \in {"INFLUENCE", "STOPPING"}
    \/ state[t] = "STARTING" /\ (needStop[t] \/ Coming(mail, t, "service-depend-off"))
    \/ Coming(mail, t, "stop")

\* A service that waits for its dependents is told when the last one is down.
Waits(s) ==
    /\ \A t \in Dependents(s) : state[t] \in Down \/ Leaving(t)
    /\ Coming(mail, s, "depend-service-stopped") \/ \E t \in Dependents(s) : Leaving(t)

\* No start fails and every service is there.
Firm == \A i \in DOMAIN mail : mail[i].ev \notin {"service-failed", "service-not-installed"}

WayDown ==
    /\ Firm
    /\ \A s \in Service : state[s] # "NOT_INSTALLED"
    /\ \A s \in Service : state[s] = "STOPPING" => Coming(mail, s, "service-stopped")
    /\ \A s \in Service : state[s] = "INFLUENCE" => Waits(s)

\* Every start succeeds, sooner or later, if what the service needs is there.
Sure == Faulty = {} /\ Installed = Service

\* What the mail brings it still brings when more is sent.
LEMMA ComingOn ==
  ASSUME NEW q \in Seq(Mail), NEW p \in Seq(Mail), Follows(q, p), NEW s, NEW ev, Coming(q, s, ev)
  PROVE  Coming(p, s, ev)
<1>1. PICK i \in DOMAIN q : q[i].ev = ev /\ q[i].to = s
  BY DEF Coming
<1>2. i \in DOMAIN p /\ p[i] = q[i]
  BY DEF Follows
<1> QED
  BY <1>1, <1>2 DEF Coming

\* The event that is delivered is the only one that leaves the mail.
LEMMA ComingStays ==
  ASSUME NEW q \in Seq(Mail), q # <<>>, NEW s, NEW ev, Coming(q, s, ev),
         Head(q).ev # ev \/ Head(q).to # s
  PROVE  Coming(Tail(q), s, ev)
<1>1. PICK i \in DOMAIN q : q[i].ev = ev /\ q[i].to = s
  BY DEF Coming
<1>2. i # 1
  BY <1>1, TailIs
<1>3. i - 1 \in DOMAIN Tail(q) /\ Tail(q)[i - 1] = q[i]
  BY <1>2, TailIs
<1> QED
  BY <1>1, <1>3 DEF Coming

LEMMA ComingSent ==
  ASSUME NEW q \in Seq(Mail), NEW p \in Seq(Mail), NEW s, NEW ev, Coming(p, s, ev)
  PROVE  Coming(q \o p, s, ev)
<1>1. PICK i \in DOMAIN p : p[i].ev = ev /\ p[i].to = s
  BY DEF Coming
<1>2. PICK m \in Nat, n \in Nat : /\ m = Len(q) /\ n = Len(p)
                                  /\ DOMAIN q = 1 .. m /\ DOMAIN p = 1 .. n
  OBVIOUS
<1>3. /\ DOMAIN (q \o p) = 1 .. m + n
      /\ \A k \in 1 .. m + n : (q \o p)[k] = IF k <= m THEN q[k] ELSE p[k - m]
  <2>1. q \o p \in Seq(Mail) /\ Len(q \o p) = m + n
    BY <1>2, ConcatProperties
  <2> QED
    BY <1>2, <2>1, ConcatProperties
<1>4. m + i \in 1 .. m + n /\ ~(m + i <= m) /\ (m + i) - m = i
  BY <1>1, <1>2
<1>5. (q \o p)[m + i] = p[i]
  BY <1>3, <1>4
<1> QED
  BY <1>1, <1>3, <1>4, <1>5 DEF Coming

LEMMA ComingLast ==
  ASSUME NEW q \in Seq(Mail), NEW s \in Service, NEW ev \in Events
  PROVE  Coming(Append(q, Tell(s, ev)), s, ev)
<1> DEFINE x == Tell(s, ev)
<1>1. x \in Mail /\ x.ev = ev /\ x.to = s
  BY CallsInMail DEF Tell, Event
<1> HIDE DEF x
<1>2. PICK m \in Nat : m = Len(q)
  OBVIOUS
<1>3. m + 1 \in DOMAIN Append(q, x) /\ Append(q, x)[m + 1] = x
  BY <1>1, <1>2
<1> QED
  BY <1>1, <1>3 DEF Coming, x

LEMMA ComingToAll ==
  ASSUME NEW some, NEW s \in some \cap Service, NEW ev \in Events \ Outcomes
  PROVE  Coming(TellAll(InOrder(some), ev), s, ev)
<1> DEFINE l == InOrder(some)
<1>1. PICK i \in DOMAIN l : l[i] = s
  BY InOrderIs
<1> HIDE DEF l
<1>2. /\ i \in DOMAIN TellAll(l, ev) /\ TellAll(l, ev)[i].ev = ev
      /\ TellAll(l, ev)[i].to = s
  BY <1>1 DEF TellAll, Tell, Event
<1> QED
  BY <1>2 DEF Coming, l

LEMMA OldOrNot ==
  ASSUME NEW q \in Seq(Mail), NEW p \in Seq(Mail), Follows(q, p), NEW i \in DOMAIN p
  PROVE  p[i].ev \notin Outcomes \/ (i \in DOMAIN q /\ p[i] = q[i])
<1>1. CASE i > Len(q)
  BY <1>1 DEF Follows
<1>2. CASE ~(i > Len(q))
  <2>1. i \in DOMAIN q /\ p[i] = q[i]
    BY <1>2 DEF Follows
  <2> QED
    BY <2>1
<1> QED
  BY <1>1, <1>2

\* What stays of the mail is as firm.
LEMMA FirmOn ==
  ASSUME mail \in Seq(Mail), Firm, NEW q \in Seq(Mail), q = mail \/ (mail # <<>> /\ q = Tail(mail)),
         mail' \in Seq(Mail), Follows(q, mail')
  PROVE  Firm'
<1>1. {"service-failed", "service-not-installed"} \subseteq Outcomes
  BY DEF Outcomes
<1>2. \A i \in DOMAIN q : q[i].ev \notin {"service-failed", "service-not-installed"}
  <2>1. CASE q = mail
    BY <2>1 DEF Firm
  <2>2. CASE mail # <<>> /\ q = Tail(mail)
    BY <2>2, TailIs DEF Firm
  <2> QED
    BY <2>1, <2>2
<1>3. ASSUME NEW i \in DOMAIN mail'
      PROVE  mail'[i].ev \notin {"service-failed", "service-not-installed"}
  <2>1. mail'[i].ev \notin Outcomes \/ (i \in DOMAIN q /\ mail'[i] = q[i])
    BY OldOrNot
  <2> QED
    BY <1>1, <1>2, <2>1
<1> QED
  BY <1>3 DEF Firm

\* Who is below a service that went down is told, and who is above one that
\* goes down is asked to.
LEMMA NotifiedBelow ==
  ASSUME NEW q, NEW st, Fine(Driver(q, st)), NEW s \in Service, NEW chain \in Seq(Waiters),
         NEW result \in {"stopped", "depends_off"}
  PROVE  \A x \in DependsOn[s] :
           Coming(Notify(q, st, s, chain, result).mail, x, "depend-service-stopped")
<1> DEFINE e == CallWaiters(Driver(q, st), s, chain, result)
           p == TellAll(InOrder(DependsOn[s]), "depend-service-stopped")
<1>1. Fine(e)
  BY CallWaitersOn DEF Onward
<1>2. Notify(q, st, s, chain, result) = OnServiceCallback(e, s, result)
  BY DEF Notify
<1> HIDE DEF e
<1>3. e \in Drivers /\ e.mail \in Seq(Mail)
  BY <1>1 DEF Fine, Drivers
<1>4. OnServiceCallback(e, s, result) = [e EXCEPT !.mail = @ \o p]
  BY DEF OnServiceCallback
<1>5. "depend-service-stopped" \in Events \ Outcomes
  BY DEF Events, Outcomes
<1>6. p \in Seq(Mail) /\ \A x \in DependsOn[s] : Coming(p, x, "depend-service-stopped")
  BY <1>5, InOrderType, TellAllIs, ComingToAll
<1> HIDE DEF p
<1>7. [e EXCEPT !.mail = @ \o p].mail = e.mail \o p
  BY <1>3 DEF Drivers
<1> QED
  BY <1>2, <1>3, <1>4, <1>6, <1>7, ComingSent

LEMMA AskedAbove ==
  ASSUME Sure, NEW s \in Service, NEW q \in Seq(Mail)
  PROVE  /\ \A t \in Dependents(s) : Coming(StopDependents(s, q), t, "stop")
         /\ Dependents(s) = {} =>
              Coming(StopDependents(s, q), s, "depend-service-stopped")
<1>1. Dependents(s) \cap Installed = Dependents(s) /\ Dependents(s) \subseteq Service
  BY DEF Sure, Dependents
<1>2. CASE Dependents(s) = {}
  <2>1. StopDependents(s, q) = Append(q, Tell(s, "depend-service-stopped"))
    BY <1>1, <1>2 DEF StopDependents
  <2>2. "depend-service-stopped" \in Events
    BY DEF Events
  <2> QED
    BY <1>2, <2>1, <2>2, ComingLast
<1>3. CASE Dependents(s) # {}
  <2> DEFINE p == TellAll(InOrder(Dependents(s)), "stop")
  <2>1. StopDependents(s, q) = q \o p
    BY <1>1, <1>3 DEF StopDependents
  <2>2. "stop" \in Events \ Outcomes
    BY DEF Events, Outcomes
  <2>3. p \in Seq(Mail) /\ \A t \in Dependents(s) : Coming(p, t, "stop")
    BY <1>1, <2>2, InOrderType, TellAllIs, ComingToAll
  <2> HIDE DEF p
  <2> QED
    BY <1>3, <2>1, <2>3, ComingSent
<1> QED
  BY <1>2, <1>3

\* Every event but those of kind ev for m is still on its way.
Brings(m, ev) ==
    \A t \in Service, e \in Events :
        (t # m \/ e # ev) /\ Coming(mail, t, e) => Coming(mail', t, e)

\* Machine m moves on an event ev: what is to be shown for WayDown to stay.
LEMMA OneLeaves ==
  ASSUME WayDown, Firm', NEW m \in Service, NEW ev, Brings(m, ev),
         \A s \in Service \ {m} : state'[s] = state[s] /\ needStop'[s] = needStop[s],
         state'[m] # "NOT_INSTALLED",
         state'[m] = "STOPPING" => Coming(mail', m, "service-stopped"),
         state'[m] = "INFLUENCE" /\ state[m] # "INFLUENCE" =>
           /\ \A t \in Dependents(m) : Coming(mail', t, "stop")
           /\ Dependents(m) = {} => Coming(mail', m, "depend-service-stopped"),
         state'[m] = "INFLUENCE" /\ state[m] = "INFLUENCE"
           /\ ev = "depend-service-stopped" => ~AllDependsStopped(m),
         \A s \in DependsOn[m] :
           state'[s] = "INFLUENCE" /\ state[s] = "INFLUENCE" =>
             /\ state'[m] \in Down \/ Leaving(m)'
             /\ Leaving(m) => Leaving(m)' \/ Coming(mail', s, "depend-service-stopped")
  PROVE  WayDown'
<1>1. {"stop", "service-depend-off", "depend-service-stopped", "service-stopped"}
        \subseteq Events
  BY DEF Events
<1>2. \A t \in Service \ {m} : Leaving(t) => Leaving(t)'
  BY <1>1 DEF Leaving, Brings
<1>3. \A s \in Service : state'[s] # "NOT_INSTALLED"
  BY DEF WayDown
<1>4. ASSUME NEW s \in Service, state'[s] = "STOPPING"
      PROVE  Coming(mail', s, "service-stopped")
  BY <1>1, <1>4 DEF WayDown, Brings
<1>5. ASSUME NEW s \in Service, state'[s] = "INFLUENCE"
      PROVE  Waits(s)'
  <2>1. CASE s = m /\ state[m] # "INFLUENCE"
    <3>1. \A t \in Dependents(m) : Leaving(t)'
      BY <1>5, <2>1 DEF Leaving
    <3> QED
      BY <1>5, <2>1, <3>1 DEF Waits
  <2>2. CASE state[s] = "INFLUENCE"
    <3>1. Waits(s)
      BY <2>2 DEF WayDown
    <3>2. \A t \in Dependents(s) : t \in Service /\ s \in DependsOn[t]
      BY DEF Dependents
    <3>3. ASSUME NEW t \in Dependents(s) PROVE state'[t] \in Down \/ Leaving(t)'
      <4>1. CASE t = m
        BY <1>5, <2>2, <3>2, <4>1
      <4>2. CASE t # m
        BY <1>2, <3>1, <3>2, <4>2 DEF Waits
      <4> QED
        BY <4>1, <4>2
    <3>4. ASSUME NEW t \in Dependents(s), Leaving(t)
          PROVE  \/ Coming(mail', s, "depend-service-stopped")
                 \/ \E z \in Dependents(s) : Leaving(z)'
      <4>1. CASE t = m
        BY <1>5, <2>2, <3>2, <3>4, <4>1
      <4>2. CASE t # m
        BY <1>2, <3>2, <3>4, <4>2
      <4> QED
        BY <4>1, <4>2
    <3>5. CASE Coming(mail, s, "depend-service-stopped")
      <4>1. CASE s # m \/ ev # "depend-service-stopped"
        BY <1>1, <3>3, <3>5, <4>1 DEF Brings, Waits
      <4>2. CASE s = m /\ ev = "depend-service-stopped"
        <5>1. PICK t \in Dependents(s) : state[t] \notin Down
          BY <1>5, <2>2, <4>2 DEF AllDependsStopped, Dependents
        <5>2. Leaving(t)
          BY <3>1, <5>1 DEF Waits
        <5> QED
          BY <3>3, <3>4, <5>2 DEF Waits
      <4> QED
        BY <4>1, <4>2
    <3>6. CASE \E t \in Dependents(s) : Leaving(t)
      BY <3>3, <3>4, <3>6 DEF Waits
    <3> QED
      BY <3>1, <3>5, <3>6 DEF Waits
  <2> QED
    BY <1>5, <2>1, <2>2
<1> QED
  BY <1>3, <1>4, <1>5 DEF WayDown

\* No machine moves and every event stays.
LEMMA NoneLeaves ==
  ASSUME WayDown, Firm', UNCHANGED <<state, needStop>>,
         \A t \in Service, e \in Events : Coming(mail, t, e) => Coming(mail', t, e)
  PROVE  WayDown'
<1>1. {"stop", "service-depend-off", "depend-service-stopped", "service-stopped"}
        \subseteq Events
  BY DEF Events
<1>2. \A t \in Service : Leaving(t) => Leaving(t)'
  BY <1>1 DEF Leaving
<1>3. ASSUME NEW s \in Service, Waits(s) PROVE Waits(s)'
  <2>1. Dependents(s) \subseteq Service
    BY DEF Dependents
  <2> QED
    BY <1>1, <1>2, <1>3, <2>1 DEF Waits
<1> QED
  BY <1>1, <1>3 DEF WayDown

\* A handler took its event and sent more, none of them the outcome of a start.
LEMMA Handled ==
  ASSUME mail \in Seq(Mail), NEW m \in Service, NEW ev \in Events, Delivered(ev, m), Firm,
         mail' \in Seq(Mail), Follows(Tail(mail), mail')
  PROVE  Brings(m, ev) /\ Firm'
<1>1. mail # <<>> /\ Head(mail).ev = ev /\ Head(mail).to = m /\ Tail(mail) \in Seq(Mail)
  BY DeliveredIs DEF Delivered
<1>2. ASSUME NEW t \in Service, NEW e \in Events, t # m \/ e # ev, Coming(mail, t, e)
      PROVE  Coming(mail', t, e)
  <2>1. Coming(Tail(mail), t, e)
    BY <1>1, <1>2, ComingStays
  <2> QED
    BY <1>1, <2>1, ComingOn
<1>3. Firm'
  BY <1>1, FirmOn
<1> QED
  BY <1>2, <1>3 DEF Brings

\* The same when it sent the outcome of a start last.
LEMMA HandledStart ==
  ASSUME mail \in Seq(Mail), NEW m \in Service, NEW ev \in Events, Delivered(ev, m), Firm,
         NEW q \in Seq(Mail), Follows(Tail(mail), q), Sure, NEW out \in StartOutcomes(m),
         mail' = q \o out.sends, mail' \in Seq(Mail)
  PROVE  /\ Brings(m, ev) /\ Firm'
         /\ \A t \in Service, e \in Events : Coming(q, t, e) => Coming(mail', t, e)
         /\ (\E t \in DependsOn[m] : state[t] # "ON") =>
              Coming(mail', m, "service-depend-off")
<1>1. mail # <<>> /\ Head(mail).ev = ev /\ Head(mail).to = m /\ Tail(mail) \in Seq(Mail)
  BY DeliveredIs DEF Delivered
<1>2. /\ \/ out.sends = <<>>
         \/ \E e \in {"service-started", "service-depend-off"} : out.sends = <<Tell(m, e)>>
      /\ (\E t \in DependsOn[m] : state[t] # "ON") =>
           out.sends = <<Tell(m, "service-depend-off")>>
  BY DEF Sure, StartOutcomes, Outcome
<1>3. \A e : e \in {"service-started", "service-depend-off"} => q \o <<Tell(m, e)>> = Append(q, Tell(m, e))
  <2> SUFFICES ASSUME NEW e, e \in {"service-started", "service-depend-off"}
               PROVE  q \o <<Tell(m, e)>> = Append(q, Tell(m, e))
    OBVIOUS
  <2> DEFINE x == Tell(m, e)
  <2> HIDE DEF x
  <2>1. q \o <<x>> = Append(q, x)
    OBVIOUS
  <2> QED
    BY <2>1 DEF x
<1>4. q \o <<>> = q
  BY ConcatEmptySeq
<1>5. \/ mail' = q
      \/ \E e \in {"service-started", "service-depend-off"} : mail' = Append(q, Tell(m, e))
  BY <1>2, <1>3, <1>4
<1>6. PICK n \in Nat : n = Len(q) /\ DOMAIN q = 1 .. n
  OBVIOUS
<1>7. /\ \A i \in 1 .. n : i \in DOMAIN mail' /\ mail'[i] = q[i]
      /\ \A i \in DOMAIN mail' : i \in 1 .. n
           \/ \E e \in {"service-started", "service-depend-off"} : mail'[i] = Tell(m, e)
  <2>1. CASE mail' = q
    BY <1>6, <2>1
  <2>2. ASSUME NEW e \in {"service-started", "service-depend-off"}, mail' = Append(q, Tell(m, e))
        PROVE  /\ \A i \in 1 .. n : i \in DOMAIN mail' /\ mail'[i] = q[i]
               /\ \A i \in DOMAIN mail' : i \in 1 .. n
                    \/ \E f \in {"service-started", "service-depend-off"} :
                         mail'[i] = Tell(m, f)
    <3> DEFINE x == Tell(m, e)
    <3> HIDE DEF x
    <3>1. /\ DOMAIN Append(q, x) = 1 .. n + 1 /\ Append(q, x)[n + 1] = x
          /\ \A i \in 1 .. n : Append(q, x)[i] = q[i]
      BY <1>6
    <3>2. \A i \in 1 .. n + 1 : i \in 1 .. n \/ i = n + 1
      OBVIOUS
    <3>3. \A i \in 1 .. n : i \in 1 .. n + 1
      OBVIOUS
    <3>4. mail' = Append(q, x)
      BY <2>2 DEF x
    <3>5. /\ \A i \in 1 .. n : i \in DOMAIN mail' /\ mail'[i] = q[i]
          /\ \A i \in DOMAIN mail' : i \in 1 .. n \/ mail'[i] = x
      BY <3>1, <3>2, <3>3, <3>4
    <3> QED
      BY <3>5 DEF x
  <2> QED
    BY <1>5, <2>1, <2>2
<1>8. ASSUME NEW t \in Service, NEW e \in Events, Coming(q, t, e)
      PROVE  Coming(mail', t, e)
  BY <1>6, <1>7, <1>8 DEF Coming
<1>9. ASSUME NEW t \in Service, NEW e \in Events, t # m \/ e # ev, Coming(mail, t, e)
      PROVE  Coming(mail', t, e)
  <2>1. Coming(Tail(mail), t, e)
    BY <1>1, <1>9, ComingStays
  <2>2. Coming(q, t, e)
    BY <1>1, <2>1, ComingOn
  <2> QED
    BY <1>8, <2>2
<1>10. Firm'
  <2>1. \A i \in DOMAIN q : q[i].ev \notin {"service-failed", "service-not-installed"}
    <3> DEFINE r == Tail(mail)
    <3>1. /\ r \in Seq(Mail) /\ Follows(r, q)
          /\ \A i \in DOMAIN r : r[i].ev \notin {"service-failed", "service-not-installed"}
      BY <1>1, TailIs DEF Firm
    <3>2. {"service-failed", "service-not-installed"} \subseteq Outcomes
      BY DEF Outcomes
    <3> HIDE DEF r
    <3>3. ASSUME NEW i \in DOMAIN q
          PROVE  q[i].ev \notin {"service-failed", "service-not-installed"}
      <4>1. \/ q[i].ev \notin Outcomes
            \/ i \in DOMAIN r /\ q[i] = r[i]
        BY <3>1, OldOrNot
      <4> QED
        BY <3>1, <3>2, <4>1
    <3> QED
      BY <3>3
  <2>2. \A e \in {"service-started", "service-depend-off"} :
          Tell(m, e).ev \notin {"service-failed", "service-not-installed"}
    BY DEF Tell, Event
  <2> QED
    BY <1>6, <1>7, <2>1, <2>2 DEF Firm
<1>11. ASSUME \E t \in DependsOn[m] : state[t] # "ON"
       PROVE  Coming(mail', m, "service-depend-off")
  <2>1. mail' = Append(q, Tell(m, "service-depend-off"))
    BY <1>2, <1>3, <1>11
  <2>2. "service-depend-off" \in Events
    BY DEF Events
  <2> QED
    BY <2>1, <2>2, ComingLast
<1> QED
  BY <1>8, <1>9, <1>10, <1>11 DEF Brings

LEMMA StartWayDown ==
  ASSUME IInv, IInv', Sure, WayDown, NEW m \in Service, StartEvent(m)
  PROVE  WayDown'
<1>1. /\ mail \in Seq(Mail) /\ state \in [Service -> States]
      /\ mail' \in Seq(Mail) /\ state' \in [Service -> States]
      /\ needStop \in [Service -> BOOLEAN]
  BY InvariantTypes DEF IInv, Fine, Driver, Drivers, RestPart
<1>2. /\ Delivered("start", m) /\ "start" \in Events /\ mail # <<>> /\ Tail(mail) \in Seq(Mail)
  BY <1>1, DeliveredIs DEF StartEvent, Events
<1>3. Firm /\ \A s \in DependsOn[m] : s \in Service /\ m \in Dependents(s)
  BY DEF WayDown, Dependents
<1>4. CASE /\ state[m] \in Down
           /\ Moves(m, "STARTING")
           /\ needStop' = [needStop EXCEPT ![m] = @ /\ state[m] # "OFF"]
           /\ DoStartService(m, Driver(Tail(mail), state))
  <2>1. PICK out \in StartOutcomes(m) :
          Becomes([Driver(Tail(mail), state) EXCEPT !.mail = @ \o out.sends])
    BY <1>4 DEF DoStartService
  <2>2. mail' = Tail(mail) \o out.sends
    BY <2>1 DEF Becomes, Driver
  <2>3. Follows(Tail(mail), Tail(mail))
    BY <1>2, FollowsSelf
  <2>4. /\ Brings(m, "start") /\ Firm'
        /\ (\E t \in DependsOn[m] : state[t] # "ON") =>
             Coming(mail', m, "service-depend-off")
    BY <1>1, <1>2, <1>3, <2>2, <2>3, HandledStart
  <2>5. /\ state'[m] = "STARTING" /\ \A s \in Service \ {m} : state'[s] = state[s]
    BY <1>1, <1>4, StateMoves DEF States
  <2>6. \A s \in Service \ {m} : needStop'[s] = needStop[s]
    BY <1>1, <1>4
  <2>7. ASSUME NEW s \in DependsOn[m], state[s] = "INFLUENCE" PROVE Leaving(m)'
    BY <2>4, <2>5, <2>7 DEF Leaving
  <2> QED
    BY <2>4, <2>5, <2>6, <2>7, OneLeaves, <1>3
<1>5. CASE Sends(Tail(mail)) /\ UNCHANGED <<state, needStop>>
  <2>1. mail' = Tail(mail) /\ Follows(Tail(mail), mail')
    BY <1>2, <1>5, FollowsSelf DEF Sends
  <2>2. Brings(m, "start") /\ Firm'
    BY <1>1, <1>2, <1>3, <2>1, Handled
  <2>3. Leaving(m) => Leaving(m)'
    BY <1>5, <2>2 DEF Leaving, Brings, Events
  <2>4. /\ state'[m] # "NOT_INSTALLED"
        /\ state'[m] = "STOPPING" => Coming(mail', m, "service-stopped")
    BY <1>5, <2>2 DEF WayDown, Brings, Events
  <2>5. \A s \in DependsOn[m] : state[s] = "INFLUENCE" => state'[m] \in Down \/ Leaving(m)'
    BY <1>3, <1>5, <2>3 DEF WayDown, Waits
  <2> QED
    BY <1>5, <2>2, <2>3, <2>4, <2>5, OneLeaves
<1> QED
  BY <1>4, <1>5 DEF StartEvent, machines

LEMMA StopWayDown ==
  ASSUME IInv, IInv', Sure, WayDown, NEW m \in Service, StopEvent(m)
  PROVE  WayDown'
<1>1. /\ mail \in Seq(Mail) /\ state \in [Service -> States]
      /\ mail' \in Seq(Mail) /\ state' \in [Service -> States]
      /\ needStop \in [Service -> BOOLEAN] /\ RestPart
  BY InvariantTypes DEF IInv, Fine, Driver, Drivers, RestPart
<1>2. /\ Delivered("stop", m) /\ "stop" \in Events /\ mail # <<>> /\ Tail(mail) \in Seq(Mail)
      /\ Waiter \in Waiters \cup {NoWaiter}
  BY <1>1, DeliveredIs DEF StopEvent, Events
<1>3. Firm /\ \A s \in DependsOn[m] : s \in Service /\ m \in Dependents(s)
  BY DEF WayDown, Dependents
<1>4. CASE /\ state[m] = "ON" /\ Moves(m, "INFLUENCE")
           /\ Sends(StopDependents(m, Tail(mail))) /\ UNCHANGED needStop
  <2>1. mail' = StopDependents(m, Tail(mail)) /\ Follows(Tail(mail), mail')
    BY <1>2, <1>4, StopDependentsOn DEF Sends
  <2>2. Brings(m, "stop") /\ Firm'
    BY <1>1, <1>2, <1>3, <2>1, Handled
  <2>3. /\ \A t \in Dependents(m) : Coming(mail', t, "stop")
        /\ Dependents(m) = {} => Coming(mail', m, "depend-service-stopped")
    BY <1>2, <2>1, AskedAbove
  <2>4. /\ state'[m] = "INFLUENCE" /\ \A s \in Service \ {m} : state'[s] = state[s]
    BY <1>1, <1>4, StateMoves DEF States
  <2>5. Leaving(m)'
    BY <2>4 DEF Leaving
  <2> QED
    BY <1>4, <2>2, <2>3, <2>4, <2>5, OneLeaves
<1>5. CASE /\ state[m] \in Down /\ UNCHANGED <<state, needStop>>
           /\ Becomes(Notify(Tail(mail), state, m, Chained(m, Waiter),
                             AnswerWhenDown(state[m])))
  <2> DEFINE chain == Chained(m, Waiter)
             result == AnswerWhenDown(state[m])
  <2>1. chain \in Seq(Waiters)
    BY <1>1, <1>2, ChainedType
  <2>2. result \in {"stopped", "depends_off"}
    BY <1>5 DEF WayDown, AnswerWhenDown, Down
  <2>3. Fine(Driver(Tail(mail), state))
    BY <1>1, <1>2, DriverOf DEF IInv
  <2> HIDE DEF chain, result
  <2>4. \A x \in DependsOn[m] :
          Coming(Notify(Tail(mail), state, m, chain, result).mail, x, "depend-service-stopped")
    BY <2>1, <2>2, <2>3, NotifiedBelow
  <2>5. mail' = Notify(Tail(mail), state, m, chain, result).mail
    BY <1>5 DEF Becomes, chain, result
  <2>6. Follows(Tail(mail), mail')
    <3>1. Becomes(Notify(Tail(mail), state, m, chain, result))
      BY <1>5 DEF chain, result
    <3>2. Fine(Driver(mail, state))
      BY DEF IInv
    <3> QED
      BY <1>1, <1>2, <2>1, <3>1, <3>2, NotifiedOn
  <2>7. Brings(m, "stop") /\ Firm'
    BY <1>1, <1>2, <1>3, <2>6, Handled
  <2>8. state'[m] \notin {"NOT_INSTALLED", "STOPPING", "INFLUENCE"} /\ state'[m] \in Down
    BY <1>5 DEF WayDown, Down
  <2> QED
    BY <1>5, <2>4, <2>5, <2>7, <2>8, OneLeaves
<1>6. CASE /\ state[m] = "STARTING" /\ needStop' = [needStop EXCEPT ![m] = TRUE]
           /\ Sends(Tail(mail)) /\ UNCHANGED state
  <2>1. mail' = Tail(mail) /\ Follows(Tail(mail), mail')
    BY <1>2, <1>6, FollowsSelf DEF Sends
  <2>2. Brings(m, "stop") /\ Firm'
    BY <1>1, <1>2, <1>3, <2>1, Handled
  <2>3. Leaving(m)'
    BY <1>1, <1>6 DEF Leaving
  <2>4. \A s \in Service \ {m} : needStop'[s] = needStop[s]
    BY <1>1, <1>6
  <2> QED
    BY <1>6, <2>2, <2>3, <2>4, OneLeaves
<1>7. CASE /\ state[m] \in {"INFLUENCE", "STOPPING"} /\ Sends(Tail(mail))
           /\ UNCHANGED <<state, needStop>>
  <2>1. mail' = Tail(mail) /\ Follows(Tail(mail), mail')
    BY <1>2, <1>7, FollowsSelf DEF Sends
  <2>2. Brings(m, "stop") /\ Firm'
    BY <1>1, <1>2, <1>3, <2>1, Handled
  <2>3. Leaving(m)'
    BY <1>7 DEF Leaving
  <2>4. state'[m] = "STOPPING" => Coming(mail', m, "service-stopped")
    BY <1>7, <2>2 DEF WayDown, Brings, Events
  <2> QED
    BY <1>7, <2>2, <2>3, <2>4, OneLeaves
<1> QED
  BY <1>4, <1>5, <1>6, <1>7 DEF StopEvent

\* The machine moves and answers its waiters.
LEMMA AnswersWayDown ==
  ASSUME IInv, WayDown, NEW m \in Service, NEW ev \in Events, Delivered(ev, m),
         NEW to \in States, NEW result, Answers(m, to, result), UNCHANGED <<components, outside>>
  PROVE  /\ Brings(m, ev) /\ Firm' /\ state'[m] = to
         /\ \A s \in Service \ {m} : state'[s] = state[s] /\ needStop'[s] = needStop[s]
         /\ result \in {"stopped", "depends_off"} =>
              \A s \in DependsOn[m] : Coming(mail', s, "depend-service-stopped")
<1>1. /\ mail \in Seq(Mail) /\ Tail(mail) \in Seq(Mail) /\ state \in [Service -> States]
      /\ waiters[m] \in Seq(Waiters)
  BY InvariantTypes, DeliveredIs DEF IInv, RestPart
<1>2. /\ Follows(Tail(mail), mail') /\ mail' \in Seq(Mail)
      /\ state'[m] = to /\ \A t \in Service \ {m} : state'[t] = state[t]
  BY <1>1, AnswersOn
<1>3. Brings(m, ev) /\ Firm'
  BY <1>1, <1>2, Handled DEF WayDown
<1>4. needStop' = needStop
  BY DEF Answers
<1>5. ASSUME result \in {"stopped", "depends_off"}, NEW s \in DependsOn[m]
      PROVE  Coming(mail', s, "depend-service-stopped")
  <2>1. state' \in [Service -> States]
    BY <1>1, StateMoves DEF Answers
  <2>2. Fine(Driver(Tail(mail), state'))
    BY <1>1, <2>1, DriverOf DEF IInv
  <2>3. mail' = Notify(Tail(mail), state', m, waiters[m], result).mail
    BY DEF Answers, Becomes
  <2>4. \A x \in DependsOn[m] : Coming(Notify(Tail(mail), state', m, waiters[m], result).mail,
                                       x, "depend-service-stopped")
    BY <1>1, <1>5, <2>2, NotifiedBelow
  <2> QED
    BY <2>3, <2>4
<1> QED
  BY <1>2, <1>3, <1>4, <1>5

\* The event that tells the outcome of the start of m is the only one.
LEMMA OnlyOutcome ==
  ASSUME IInv, NEW m \in Service, NEW ev \in Outcomes, Delivered(ev, m), state[m] = "STARTING",
         NEW e \in Outcomes, Coming(mail, m, e)
  PROVE  e = ev
<1>1. mail \in Seq(Mail) /\ ev \in Events /\ MachineInv
  BY InvariantTypes DEF Outcomes, Events, IInv
<1>2. IsOutcome(mail, m, 1) /\ 1 \in DOMAIN mail /\ mail[1] = Head(mail)
  BY <1>1, DeliveredIs, TailIs
<1>3. m \notin opening
  <2>1. ~NoOutcome(mail, m)
    BY <1>2 DEF NoOutcome
  <2> QED
    BY <1>1, <2>1, MachineIs
<1>4. PICK i \in DOMAIN mail : \A j \in DOMAIN mail : IsOutcome(mail, m, j) => j = i
  BY <1>1, <1>3, MachineIs DEF OneOutcome
<1>5. PICK j \in DOMAIN mail : mail[j].ev = e /\ mail[j].to = m
  BY DEF Coming
<1>6. IsOutcome(mail, m, j)
  BY <1>5 DEF IsOutcome
<1>7. j = 1
  BY <1>2, <1>4, <1>6
<1> QED
  BY <1>2, <1>5, <1>7 DEF Delivered

LEMMA StartedWayDown ==
  ASSUME IInv, IInv', Sure, WayDown, NEW m \in Service, StartedEvent(m)
  PROVE  WayDown'
<1>1. /\ mail \in Seq(Mail) /\ state \in [Service -> States]
      /\ mail' \in Seq(Mail) /\ state' \in [Service -> States]
      /\ needStop \in [Service -> BOOLEAN] /\ RestPart
  BY InvariantTypes DEF IInv, Fine, Driver, Drivers, RestPart
<1>2. /\ Delivered("service-started", m) /\ "service-started" \in Events
      /\ "service-started" \in Outcomes /\ mail # <<>> /\ Tail(mail) \in Seq(Mail)
      /\ state[m] = "STARTING"
  BY <1>1, DeliveredIs DEF StartedEvent, Events, Outcomes
<1>3. Firm /\ \A s \in DependsOn[m] : s \in Service /\ m \in Dependents(s)
  BY DEF WayDown, Dependents
<1>4. CASE /\ needStop[m] /\ Moves(m, "INFLUENCE") /\ needStop' = [needStop EXCEPT ![m] = FALSE]
           /\ Sends(StopDependents(m, Tail(mail)))
  <2>1. mail' = StopDependents(m, Tail(mail)) /\ Follows(Tail(mail), mail')
    BY <1>2, <1>4, StopDependentsOn DEF Sends
  <2>2. Brings(m, "service-started") /\ Firm'
    BY <1>1, <1>2, <1>3, <2>1, Handled
  <2>3. /\ \A t \in Dependents(m) : Coming(mail', t, "stop")
        /\ Dependents(m) = {} => Coming(mail', m, "depend-service-stopped")
    BY <1>2, <2>1, AskedAbove
  <2>4. /\ state'[m] = "INFLUENCE"
        /\ \A s \in Service \ {m} : state'[s] = state[s] /\ needStop'[s] = needStop[s]
    BY <1>1, <1>4, StateMoves DEF States
  <2>5. Leaving(m)'
    BY <2>4 DEF Leaving
  <2> QED
    BY <1>2, <2>2, <2>3, <2>4, <2>5, OneLeaves
<1>5. CASE ~needStop[m] /\ Answers(m, "ON", "started")
  <2>1. /\ Brings(m, "service-started") /\ Firm' /\ state'[m] = "ON"
        /\ \A s \in Service \ {m} : state'[s] = state[s] /\ needStop'[s] = needStop[s]
    <3>1. "ON" \in States /\ UNCHANGED <<components, outside>>
      BY DEF States, StartedEvent
    <3> QED
      BY <1>2, <1>5, <3>1, AnswersWayDown
  <2>2. ASSUME Leaving(m) PROVE Leaving(m)'
    <3>1. ~Coming(mail, m, "service-depend-off")
      BY <1>2, OnlyOutcome DEF Outcomes
    <3>2. Coming(mail, m, "stop")
      BY <1>2, <1>5, <2>2, <3>1 DEF Leaving
    <3> QED
      BY <2>1, <3>2 DEF Leaving, Brings, Events
  <2>3. \A s \in DependsOn[m] : state[s] = "INFLUENCE" => Leaving(m)
    BY <1>2, <1>3 DEF WayDown, Waits, Down
  <2> QED
    BY <2>1, <2>2, <2>3, OneLeaves
<1> QED
  BY <1>4, <1>5 DEF StartedEvent

LEMMA SetbackWayDown ==
  ASSUME IInv, IInv', Sure, WayDown, NEW m \in Service, SetbackEvent(m)
  PROVE  WayDown'
<1>1. PICK b \in Setbacks : Delivered(b.ev, m) /\ Answers(m, b.to, b.result)
  BY DEF SetbackEvent
<1>2. mail \in Seq(Mail) /\ mail # <<>> /\ 1 \in DOMAIN mail /\ mail[1] = Head(mail)
  BY <1>1, InvariantTypes, TailIs DEF Delivered
<1>3. /\ b.ev = "service-depend-off" /\ b.to = "DEPENDS_OFF" /\ b.result = "depends_off"
  <2>1. b.ev \notin {"service-failed", "service-not-installed"}
    BY <1>1, <1>2 DEF WayDown, Firm, Delivered
  <2> QED
    BY <2>1 DEF Setbacks
<1>4. /\ Brings(m, "service-depend-off") /\ Firm' /\ state'[m] = "DEPENDS_OFF"
      /\ \A s \in Service \ {m} : state'[s] = state[s] /\ needStop'[s] = needStop[s]
      /\ \A s \in DependsOn[m] : Coming(mail', s, "depend-service-stopped")
  <2>1. /\ "DEPENDS_OFF" \in States /\ UNCHANGED <<components, outside>>
        /\ "service-depend-off" \in Events
    BY DEF States, SetbackEvent, Events
  <2> QED
    BY <1>1, <1>3, <2>1, AnswersWayDown
<1> QED
  BY <1>4, OneLeaves DEF Down

LEMMA StoppedWayDown ==
  ASSUME IInv, IInv', Sure, WayDown, NEW m \in Service, StoppedEvent(m)
  PROVE  WayDown'
<1>1. /\ mail \in Seq(Mail) /\ state \in [Service -> States]
      /\ mail' \in Seq(Mail) /\ state' \in [Service -> States]
  BY InvariantTypes DEF IInv, Fine, Driver, Drivers
<1>2. /\ Delivered("service-stopped", m) /\ "service-stopped" \in Events
      /\ mail # <<>> /\ Tail(mail) \in Seq(Mail)
  BY <1>1, DeliveredIs DEF StoppedEvent, Events
<1>3. Firm /\ \A s \in DependsOn[m] : s \in Service /\ m \in Dependents(s)
  BY DEF WayDown, Dependents
<1>4. CASE Answers(m, "OFF", "stopped")
  <2>1. /\ Brings(m, "service-stopped") /\ Firm' /\ state'[m] = "OFF"
        /\ \A s \in Service \ {m} : state'[s] = state[s] /\ needStop'[s] = needStop[s]
        /\ \A s \in DependsOn[m] : Coming(mail', s, "depend-service-stopped")
    <3>1. "OFF" \in States /\ UNCHANGED <<components, outside>>
      BY DEF States, StoppedEvent
    <3> QED
      BY <1>2, <1>4, <3>1, AnswersWayDown
  <2> QED
    BY <2>1, OneLeaves DEF Down
<1>5. CASE state[m] # "STOPPING" /\ Sends(Tail(mail)) /\ UNCHANGED machines
  <2>1. mail' = Tail(mail) /\ Follows(Tail(mail), mail') /\ UNCHANGED <<state, needStop>>
    BY <1>2, <1>5, FollowsSelf DEF Sends, machines
  <2>2. Brings(m, "service-stopped") /\ Firm'
    BY <1>1, <1>2, <1>3, <2>1, Handled
  <2>3. Leaving(m) => Leaving(m)'
    BY <2>1, <2>2 DEF Leaving, Brings, Events
  <2>4. state'[m] \notin {"NOT_INSTALLED", "STOPPING"}
    BY <1>5, <2>1 DEF WayDown
  <2>5. \A s \in DependsOn[m] : state[s] = "INFLUENCE" => state'[m] \in Down \/ Leaving(m)'
    BY <1>3, <2>1, <2>3 DEF WayDown, Waits
  <2> QED
    BY <2>1, <2>2, <2>3, <2>4, <2>5, OneLeaves
<1> QED
  BY <1>4, <1>5 DEF StoppedEvent

LEMMA DependStoppedWayDown ==
  ASSUME IInv, IInv', Sure, WayDown, NEW m \in Service, DependStoppedEvent(m)
  PROVE  WayDown'
<1> DEFINE q == Tail(mail)
           p == Append(q, Tell(m, "service-stopped"))
<1>1. /\ mail \in Seq(Mail) /\ state \in [Service -> States]
      /\ mail' \in Seq(Mail) /\ state' \in [Service -> States]
      /\ Fine(Driver(mail, state)) /\ waiters[m] \in Seq(Waiters)
  BY InvariantTypes DEF IInv, Fine, Driver, Drivers, RestPart
<1>2. /\ Delivered("depend-service-stopped", m) /\ "depend-service-stopped" \in Events
      /\ mail # <<>> /\ q \in Seq(Mail)
  BY <1>1, DeliveredIs DEF DependStoppedEvent, Events
<1>3. Firm /\ \A s \in DependsOn[m] : s \in Service /\ m \in Dependents(s)
  BY DEF WayDown, Dependents
<1>4. /\ p \in Seq(Mail) /\ Follows(q, p) /\ Coming(p, m, "service-stopped")
  <2>1. /\ Tell(m, "service-stopped") \in Mail
        /\ Tell(m, "service-stopped").ev \notin Outcomes /\ "service-stopped" \in Events
    BY CallsInMail DEF Tell, Outcomes, Events
  <2> QED
    BY <1>2, <2>1, MailAppend, ComingLast
<1> HIDE DEF p
<1>5. CASE /\ Moves(m, "STOPPING") /\ Becomes(Driver(p, state')) /\ UNCHANGED needStop
  <2>1. mail' = p
    BY <1>5 DEF Becomes, Driver
  <2>2. Brings(m, "depend-service-stopped") /\ Firm'
    BY <1>1, <1>2, <1>3, <1>4, <2>1, Handled
  <2>3. /\ state'[m] = "STOPPING" /\ \A s \in Service \ {m} : state'[s] = state[s]
    BY <1>1, <1>5, StateMoves DEF States
  <2>4. Leaving(m)'
    BY <2>3 DEF Leaving
  <2> QED
    BY <1>4, <1>5, <2>1, <2>2, <2>3, <2>4, OneLeaves
<1>6. CASE /\ Moves(m, "STARTING")
           /\ LET d == Notify(p, state', m, waiters[m], "stopped")
              IN  \E out \in StartOutcomes(m) : Becomes([d EXCEPT !.mail = @ \o out.sends])
           /\ UNCHANGED needStop
  <2>1. /\ state'[m] = "STARTING" /\ \A s \in Service \ {m} : state'[s] = state[s]
    BY <1>1, <1>6, StateMoves DEF States
  <2> DEFINE d == Notify(p, state', m, waiters[m], "stopped")
  <2>2. PICK out \in StartOutcomes(m) : Becomes([d EXCEPT !.mail = @ \o out.sends])
    BY <1>6
  <2>3. d \in Drivers /\ Follows(p, d.mail) /\ d.mail \in Seq(Mail)
    <3>1. Fine(Driver(p, state'))
      BY <1>1, <1>4, DriverOf
    <3>2. Onward(Driver(p, state'), d)
      BY <1>1, <3>1, NotifyOn
    <3>3. Driver(p, state').mail = p
      BY DEF Driver
    <3> HIDE DEF d
    <3> QED
      BY <3>2, <3>3 DEF Onward, From, Fine, Drivers
  <2> HIDE DEF d
  <2>4. mail' = d.mail \o out.sends
    BY <2>2, <2>3 DEF Becomes, Drivers
  <2>5. Follows(q, d.mail)
    BY <1>2, <1>4, <2>3, FollowsOn
  <2>6. /\ Brings(m, "depend-service-stopped") /\ Firm'
        /\ (\E t \in DependsOn[m] : state[t] # "ON") =>
             Coming(mail', m, "service-depend-off")
    BY <1>1, <1>2, <1>3, <2>3, <2>4, <2>5, HandledStart
  <2>7. ASSUME NEW s \in DependsOn[m], state[s] = "INFLUENCE" PROVE Leaving(m)'
    BY <2>1, <2>6, <2>7 DEF Leaving
  <2> QED
    BY <1>6, <2>1, <2>6, <2>7, OneLeaves
<1>7. CASE /\ ~(state[m] = "INFLUENCE" /\ AllDependsStopped(m))
           /\ Sends(q) /\ UNCHANGED <<machines, components>>
  <2>1. mail' = q /\ Follows(q, mail') /\ UNCHANGED <<state, needStop>>
    BY <1>2, <1>7, FollowsSelf DEF Sends, machines
  <2>2. Brings(m, "depend-service-stopped") /\ Firm'
    BY <1>1, <1>2, <1>3, <2>1, Handled
  <2>3. Leaving(m) => Leaving(m)'
    BY <2>1, <2>2 DEF Leaving, Brings, Events
  <2>4. /\ state'[m] # "NOT_INSTALLED"
        /\ state'[m] = "STOPPING" => Coming(mail', m, "service-stopped")
    BY <2>1, <2>2 DEF WayDown, Brings, Events
  <2>5. \A s \in DependsOn[m] : state[s] = "INFLUENCE" => state'[m] \in Down \/ Leaving(m)'
    BY <1>3, <2>1, <2>3 DEF WayDown, Waits
  <2> QED
    BY <1>7, <2>1, <2>2, <2>3, <2>4, <2>5, OneLeaves
<1> QED
  BY <1>5, <1>6, <1>7 DEF DependStoppedEvent, p

\* A call of the driver, the Deferred of a start(), a request and a restart only
\* add to what the machines will hear.
LEMMA FinishWayDown ==
  ASSUME IInv, IInv', WayDown, DoFinishStarting \/ DoFinishStoping
  PROVE  WayDown'
<1>1. /\ mail \in Seq(Mail) /\ mail' \in Seq(Mail) /\ mail # <<>> /\ mail' = Tail(mail)
      /\ Head(mail) \in {FinishStartingCall, FinishStopingCall}
      /\ UNCHANGED <<state, needStop>>
  BY InvariantTypes DEF IInv, Fine, Driver, Drivers, DoFinishStarting, DoFinishStoping, machines
<1>2. Head(mail).ev \notin Events
  BY <1>1 DEF FinishStartingCall, FinishStopingCall, Events
<1>3. \A t \in Service, e \in Events : Coming(mail, t, e) => Coming(mail', t, e)
  BY <1>1, <1>2, ComingStays
<1>4. Firm'
  BY <1>1, FirmOn, FollowsSelf DEF WayDown
<1> QED
  BY <1>1, <1>3, <1>4, NoneLeaves

LEMMA MoreWayDown ==
  ASSUME IInv, IInv', WayDown, UNCHANGED <<state, needStop>>,
         \/ Follows(mail, mail')
         \/ \E s \in Service : mail' = Append(mail, Tell(s, "service-started"))
  PROVE  WayDown'
<1>1. mail \in Seq(Mail) /\ mail' \in Seq(Mail)
  BY InvariantTypes DEF IInv, Fine, Driver, Drivers
<1>2. CASE Follows(mail, mail')
  <2>1. Firm'
    BY <1>1, <1>2, FirmOn DEF WayDown
  <2> QED
    BY <1>1, <1>2, <2>1, ComingOn, NoneLeaves
<1>3. CASE \E s \in Service : mail' = Append(mail, Tell(s, "service-started"))
  <2>1. PICK s \in Service : mail' = Append(mail, Tell(s, "service-started"))
    BY <1>3
  <2> DEFINE x == Tell(s, "service-started")
  <2>2. x.ev \notin {"service-failed", "service-not-installed"}
    BY DEF Tell, Event
  <2> HIDE DEF x
  <2>3. PICK n \in Nat : n = Len(mail) /\ DOMAIN mail = 1 .. n
    BY <1>1
  <2>4. /\ DOMAIN Append(mail, x) = 1 .. n + 1 /\ Append(mail, x)[n + 1] = x
        /\ \A i \in 1 .. n : Append(mail, x)[i] = mail[i]
    BY <1>1, <2>3
  <2>5. \A i \in 1 .. n + 1 : i \in 1 .. n \/ i = n + 1
    BY <2>3
  <2>6. \A i \in 1 .. n : i \in 1 .. n + 1
    BY <2>3
  <2>7. mail' = Append(mail, x)
    BY <2>1 DEF x
  <2>8. Firm'
    BY <2>2, <2>3, <2>4, <2>5, <2>7 DEF WayDown, Firm
  <2>9. \A t \in Service, e \in Events : Coming(mail, t, e) => Coming(mail', t, e)
    BY <2>3, <2>4, <2>6, <2>7 DEF Coming
  <2> QED
    BY <2>8, <2>9, NoneLeaves
<1> QED
  BY <1>2, <1>3

LEMMA OpeningEndsWayDown ==
  ASSUME IInv, IInv', Sure, WayDown, NEW s \in Service, StartDone(s) \/ StartFails(s)
  PROVE  WayDown'
<1>1. ~StartFails(s)
  BY DEF Sure, StartFails
<1>2. mail' = Append(mail, Tell(s, "service-started")) /\ UNCHANGED <<state, needStop>>
  BY <1>1 DEF StartDone, Sends, machines
<1> QED
  BY <1>2, MoreWayDown

LEMMA AskWayDown ==
  ASSUME IInv, IInv', WayDown, NEW s \in Service, Ask(s)
  PROVE  WayDown'
<1>1. mail \in Seq(Mail)
  BY InvariantTypes
<1>2. UNCHANGED <<state, needStop>>
  BY DEF Ask, Switch, StartSingle, StopSingle, RestartService, machines
<1>3. ASSUME NEW ev \in {"start", "stop"}, NEW w \in {"answer", NoWaiter},
             mail' = Append(mail, Event(ev, s, w))
      PROVE  Follows(mail, mail')
  <2>1. Event(ev, s, w) \in Mail /\ Event(ev, s, w).ev \notin Outcomes
    BY CallsInMail DEF Events, Waiters, Outcomes
  <2> DEFINE x == Event(ev, s, w)
  <2> HIDE DEF x
  <2>2. Follows(mail, Append(mail, x))
    BY <1>1, <2>1, MailAppend DEF x
  <2> QED
    BY <1>3, <2>2 DEF x
<1>4. CASE Switch(s) \/ StartSingle(s) \/ StopSingle(s)
  <2>1. \/ \E ev \in {"start", "stop"}, w \in {"answer", NoWaiter} :
             mail' = Append(mail, Event(ev, s, w))
        \/ mail' = mail
    BY <1>4 DEF Switch, StartSingle, StopSingle, Sends, Tell
  <2>2. Follows(mail, mail')
    BY <1>1, <1>3, <2>1, FollowsSelf
  <2> QED
    BY <1>2, <2>2, MoreWayDown
<1>5. CASE \E r \in Restart, timed \in BOOLEAN : RestartService(r, s, timed)
  BY <1>2, <1>5, RestartServiceKeeps, MoreWayDown
<1> QED
  BY <1>4, <1>5 DEF Ask

LEMMA InitWayDown == Init => WayDown
<1> SUFFICES ASSUME Init PROVE WayDown
  OBVIOUS
<1>1. \A s \in Service : state[s] = "OFF"
  BY DEF Init
<1>2. Firm
  <2>1. PICK order \in SetToSeqs(enabled) :
          mail = [i \in DOMAIN order |-> Event("start", order[i], "start-group")]
    BY DEF Init
  <2> QED
    BY <2>1 DEF Firm, Event
<1> QED
  BY <1>1, <1>2 DEF WayDown

LEMMA NextWayDown == Sure /\ IInv /\ WayDown /\ [Next]_vars => WayDown'
<1> SUFFICES ASSUME Sure, IInv, WayDown, [Next]_vars PROVE WayDown'
  OBVIOUS
<1>0. IInv'
  BY NextInv
<1>1. ASSUME NEW s \in Service, Handle(s) PROVE WayDown'
  BY <1>0, <1>1, StartWayDown, StopWayDown, StartedWayDown, SetbackWayDown,
     DependStoppedWayDown, StoppedWayDown DEF Handle
<1>2. CASE Deliver
  BY <1>0, <1>1, <1>2, FinishWayDown DEF Deliver
<1>3. ASSUME NEW s \in Service, StartDone(s) \/ StartFails(s) PROVE WayDown'
  BY <1>0, <1>3, OpeningEndsWayDown
<1>4. ASSUME NEW s \in Service, Ask(s) PROVE WayDown'
  BY <1>0, <1>4, AskWayDown
<1>5. ASSUME NEW r \in Restart, RestartTimer(r) PROVE WayDown'
  <2>1. Follows(mail, mail')
    BY <1>5, RestartTimerKeeps
  <2>2. UNCHANGED <<state, needStop>>
    BY <1>5 DEF RestartTimer, machines
  <2> QED
    BY <1>0, <2>1, <2>2, MoreWayDown
<1>6. CASE UNCHANGED vars
  <2>1. UNCHANGED <<mail, state, needStop>>
    BY <1>6 DEF vars, machines
  <2>2. Firm'
    BY <2>1 DEF Firm, WayDown
  <2> QED
    BY <2>1, <2>2, NoneLeaves
<1> QED
  BY <1>2, <1>3, <1>4, <1>5, <1>6 DEF Next

\* No service depends on itself, through others or not: the services lie in
\* layers, each above what it depends on.
Layered ==
    \E depth \in [Service -> Nat] :
        \A t \in Service : \A s \in DependsOn[t] : depth[t] < depth[s]

LEMMA AtRest == IInv /\ WayDown /\ Layered => NothingStuck
<1> SUFFICES ASSUME IInv, WayDown, Layered, Quiet, NEW z \in Service, state[z] \in Moving
             PROVE  FALSE
  BY DEF NothingStuck
<1>1. mail = <<>> /\ opening = {}
  BY DEF Quiet
<1>2. \A t, ev : ~Coming(mail, t, ev)
  BY <1>1 DEF Coming
<1>3. \A t \in Service : state[t] # "STARTING"
  <2> SUFFICES ASSUME NEW t \in Service, state[t] = "STARTING" PROVE FALSE
    OBVIOUS
  <2>1. \E ev \in Outcomes : OneOutcome(mail, t, ev)
    BY <1>1, MachineIs DEF IInv
  <2> QED
    BY <1>1, <2>1 DEF OneOutcome
<1>4. \A t \in Service : state[t] # "STOPPING"
  BY <1>2 DEF WayDown
<1>5. ASSUME NEW s \in Service, state[s] = "INFLUENCE"
      PROVE  \E t \in Service : s \in DependsOn[t] /\ state[t] = "INFLUENCE"
  <2>1. PICK t \in Dependents(s) : Leaving(t)
    BY <1>2, <1>5 DEF WayDown, Waits
  <2> QED
    BY <1>2, <1>3, <1>4, <2>1 DEF Leaving, Dependents
<1>6. PICK depth \in [Service -> Nat] :
        \A t \in Service : \A s \in DependsOn[t] : depth[t] < depth[s]
  BY DEF Layered
<1> DEFINE S == {depth[s] : s \in {t \in Service : state[t] = "INFLUENCE"}}
           R == OpToRel(<, Nat)
<1>7. IsWellFoundedOn(R, Nat)
  BY NatLessThanWellFounded
<1>8. \A k, n \in Nat : k < n => <<k, n>> \in R
  BY DEF OpToRel
<1> HIDE DEF R
<1>9. S \subseteq Nat /\ S # {}
  BY <1>3, <1>4 DEF Moving
<1>10. PICK n \in S : \A k \in S : ~(<<k, n>> \in R)
  <2> HIDE DEF S
  <2> QED
    BY <1>7, <1>9, WFMin
<1>11. PICK s \in Service : n = depth[s] /\ state[s] = "INFLUENCE"
  BY <1>10
<1>12. PICK t \in Service : s \in DependsOn[t] /\ state[t] = "INFLUENCE"
  BY <1>5, <1>11
<1>13. depth[t] < n /\ depth[t] \in S /\ depth[t] \in Nat /\ n \in Nat
  BY <1>6, <1>11, <1>12
<1> QED
  BY <1>8, <1>10, <1>13

\* doStopDependentServices(), on_service_callback(): when every start succeeds
\* sooner or later and the dependencies have no cycle, the machines never come to
\* rest with a service half way up or down, whatever is switched, stopped and
\* restarted while others move.
THEOREM NoneStuck ==
  ASSUME Sure, Layered
  PROVE  Spec => []NothingStuck
<1>1. Init => IInv /\ WayDown
  BY InitInv, InitWayDown
<1>2. IInv /\ WayDown /\ [Next]_vars => (IInv /\ WayDown)'
  BY NextInv, NextWayDown
<1>3. IInv /\ WayDown => NothingStuck
  BY AtRest
<1> QED
  BY <1>1, <1>2, <1>3, PTL DEF Spec

-----------------------------------------------------------------------------
(* Every Deferred of driver.start() is held, exactly once.                 *)

\* A Deferred of a group is handed over with the event x.
Group(x) == x.ev \in Events /\ x.cb \in {"start-group", "stop-group"}

\* where the Deferred of s is: with an event of q, or in the chain of a machine
OnItsWay(q, s) ==
    {i \in DOMAIN q : q[i].ev \in Events /\ q[i].to = s /\ q[i].cb = "start-group"}
InChain(chain) == {i \in DOMAIN chain : chain[i] = "start-group"}
One(A) == \E i : A = {i}

Held(s) ==
    IF s \in starting.left
    THEN \/ One(OnItsWay(mail, s)) /\ InChain(waiters[s]) = {}
         \/ OnItsWay(mail, s) = {} /\ One(InChain(waiters[s]))
    ELSE OnItsWay(mail, s) = {} /\ InChain(waiters[s]) = {}

NoStop(chain) == \A i \in DOMAIN chain : chain[i] # "stop-group"

\* The events that carry a Deferred are the first "start" of each service, before
\* anything else happens; the driver forgets a group only when all have answered.
Boots(q, i) ==
    /\ q[i].ev = "start" /\ q[i].cb = "start-group" /\ state[q[i].to] = "OFF"
    /\ \A j \in 1 .. i : Group(q[j])

GroupInv ==
    /\ stoping.left = {}
    /\ \A s \in Service : NoStop(waiters[s])
    /\ \A i \in DOMAIN mail : Group(mail[i]) => Boots(mail, i)
    /\ \A i \in DOMAIN mail : mail[i].ev = "do_finish_starting" => starting.left = {}
    /\ \A s \in Service : Held(s)

\* No event of q carries the Deferred of a group, while left still have to answer.
Plain(x, left) == ~Group(x) /\ (x.ev = "do_finish_starting" => left = {})
Calm(q, left) == \A i \in DOMAIN q : Plain(q[i], left)

LEMMA CalmAppend ==
  ASSUME NEW q \in Seq(Mail), NEW left, Calm(q, left), NEW x \in Mail, Plain(x, left)
  PROVE  Calm(Append(q, x), left)
<1>1. PICK n \in Nat : n = Len(q) /\ DOMAIN q = 1 .. n
  OBVIOUS
<1>2. /\ DOMAIN Append(q, x) = 1 .. n + 1 /\ Append(q, x)[n + 1] = x
      /\ \A i \in 1 .. n : Append(q, x)[i] = q[i]
  BY <1>1
<1>3. \A i \in 1 .. n + 1 : i \in 1 .. n \/ i = n + 1
  BY <1>1
<1> QED
  BY <1>1, <1>2, <1>3 DEF Calm

LEMMA CalmConcat ==
  ASSUME NEW q \in Seq(Mail), NEW p \in Seq(Mail), NEW left, Calm(q, left), Calm(p, left)
  PROVE  Calm(q \o p, left)
<1>1. PICK m \in Nat, n \in Nat : /\ m = Len(q) /\ n = Len(p)
                                  /\ DOMAIN q = 1 .. m /\ DOMAIN p = 1 .. n
  OBVIOUS
<1>2. /\ DOMAIN (q \o p) = 1 .. m + n
      /\ \A k \in 1 .. m + n : (q \o p)[k] = IF k <= m THEN q[k] ELSE p[k - m]
  <2>1. q \o p \in Seq(Mail) /\ Len(q \o p) = m + n
    BY <1>1, ConcatProperties
  <2> QED
    BY <1>1, <2>1, ConcatProperties
<1>3. ASSUME NEW k \in 1 .. m + n PROVE Plain((q \o p)[k], left)
  <2>1. CASE k <= m
    <3>1. k \in 1 .. m /\ (q \o p)[k] = q[k]
      BY <1>1, <1>2, <2>1
    <3> QED
      BY <1>1, <3>1 DEF Calm
  <2>2. CASE ~(k <= m)
    <3>1. k - m \in 1 .. n /\ (q \o p)[k] = p[k - m]
      BY <1>1, <1>2, <2>2
    <3> QED
      BY <1>1, <3>1 DEF Calm
  <2> QED
    BY <2>1, <2>2
<1> QED
  BY <1>2, <1>3 DEF Calm

LEMMA CalmTail ==
  ASSUME NEW q \in Seq(Mail), q # <<>>, NEW left, Calm(q, left)
  PROVE  Calm(Tail(q), left)
  BY TailIs DEF Calm

LEMMA CalmLess ==
  ASSUME NEW q, NEW left, Calm(q, left), NEW less, less \subseteq left
  PROVE  Calm(q, less)
  BY DEF Calm, Plain

\* What the machines and the driver send of themselves carries no Deferred.
LEMMA SentPlain ==
  ASSUME NEW ev \in Events, NEW s \in Service, NEW w \in {"answer", "then-stop", NoWaiter}
  PROVE  /\ \A left : Plain(Event(ev, s, w), left)
         /\ \A left : Plain(Tell(s, ev), left)
         /\ Tell(s, ev) \in Mail /\ Event(ev, s, w) \in Mail
<1>1. Tell(s, ev) \in Mail /\ Event(ev, s, w) \in Mail
  BY CallsInMail DEF Tell, Waiters
<1>2. ev # "do_finish_starting"
  BY DEF Events
<1> QED
  BY <1>1, <1>2 DEF Plain, Group, Event, Tell, NoWaiter

LEMMA ToldPlain ==
  ASSUME NEW order \in Seq(Service), NEW ev \in Events
  PROVE  \A left : Calm(TellAll(order, ev), left)
<1>1. \A i \in DOMAIN order : order[i] \in Service
  OBVIOUS
<1>2. DOMAIN TellAll(order, ev) = DOMAIN order
      /\ \A i \in DOMAIN order : TellAll(order, ev)[i] = Tell(order[i], ev)
  BY DEF TellAll
<1> QED
  BY <1>1, <1>2, SentPlain DEF Calm

\* Without a restart nobody subscribes to the Deferred of a group.
LEMMA NobodySettles ==
  ASSUME Restart = {}, NEW d \in Drivers
  PROVE  Settle(d) = d
<1>1. d.starting \in Deferreds /\ d.stoping \in Deferreds
  BY DEF Drivers
<1>2. \A a \in Deferreds : a.subs = <<>> /\ [a EXCEPT !.subs = <<>>] = a
  <2> SUFFICES ASSUME NEW a \in Deferreds
               PROVE  a.subs = <<>> /\ [a EXCEPT !.subs = <<>>] = a
    OBVIOUS
  <2>1. a.subs \in Seq({})
    BY DEF Deferreds, Subscribers
  <2>2. a.subs = <<>>
    <3>1. Len(a.subs) = 0
      BY <2>1
    <3> QED
      BY <2>1, <3>1
  <2>3. [a EXCEPT !.subs = <<>>] = a
    BY <2>2 DEF Deferreds
  <2> QED
    BY <2>2, <2>3
<1>3. [d EXCEPT !.starting.subs = <<>>] = d /\ [d EXCEPT !.stoping.subs = <<>>] = d
  BY <1>1, <1>2 DEF Drivers
<1>4. d.starting.subs = <<>> /\ d.stoping.subs = <<>>
  BY <1>1, <1>2
<1>5. Len(<<>>) = 0 /\ 0 .. 0 = {0}
  OBVIOUS
<1>6. RunStoping(d) = d
  <2> DEFINE ran[n \in 0 .. Len(d.stoping.subs)] ==
               IF n = 0 THEN [d EXCEPT !.stoping.subs = <<>>]
               ELSE OnStoped(ran[n - 1], d.stoping.subs[n])
             F == [n \in 0 .. Len(d.stoping.subs) |->
                     IF n = 0 THEN [d EXCEPT !.stoping.subs = <<>>]
                     ELSE OnStoped(ran[n - 1], d.stoping.subs[n])]
  <2>1. \E f : f = [n \in 0 .. Len(d.stoping.subs) |->
                      IF n = 0 THEN [d EXCEPT !.stoping.subs = <<>>]
                      ELSE OnStoped(f[n - 1], d.stoping.subs[n])]
    <3> DEFINE f == [n \in 0 .. Len(d.stoping.subs) |-> d]
    <3>1. f = [n \in 0 .. Len(d.stoping.subs) |->
                 IF n = 0 THEN [d EXCEPT !.stoping.subs = <<>>]
                 ELSE OnStoped(f[n - 1], d.stoping.subs[n])]
      <4> SUFFICES ASSUME NEW n \in 0 .. Len(d.stoping.subs)
                   PROVE  d = IF n = 0 THEN [d EXCEPT !.stoping.subs = <<>>]
                              ELSE OnStoped(f[n - 1], d.stoping.subs[n])
        OBVIOUS
      <4>1. n = 0
        BY <1>4, <1>5
      <4> QED
        BY <1>3, <4>1
    <3> HIDE DEF f
    <3> QED
      BY <3>1
  <2>2. ran = F
    BY <2>1 DEF ran, F
  <2>3. ran[Len(d.stoping.subs)] = d
    <3>1. F[0] = d
      BY <1>3, <1>4, <1>5
    <3> HIDE DEF F, ran
    <3> QED
      BY <1>4, <1>5, <2>2, <3>1
  <2>4. RunStoping(d) = IF d.stoping.state = "fired" THEN ran[Len(d.stoping.subs)] ELSE d
    BY DEF RunStoping, ran
  <2> HIDE DEF ran
  <2> QED
    BY <2>3, <2>4
<1>7. RunStarting(d) = d
  <2> DEFINE ran[n \in 0 .. Len(d.starting.subs)] ==
               IF n = 0 THEN [d EXCEPT !.starting.subs = <<>>]
               ELSE OnStarted(ran[n - 1], d.starting.subs[n])
             F == [n \in 0 .. Len(d.starting.subs) |->
                     IF n = 0 THEN [d EXCEPT !.starting.subs = <<>>]
                     ELSE OnStarted(ran[n - 1], d.starting.subs[n])]
  <2>1. \E f : f = [n \in 0 .. Len(d.starting.subs) |->
                      IF n = 0 THEN [d EXCEPT !.starting.subs = <<>>]
                      ELSE OnStarted(f[n - 1], d.starting.subs[n])]
    <3> DEFINE f == [n \in 0 .. Len(d.starting.subs) |-> d]
    <3>1. f = [n \in 0 .. Len(d.starting.subs) |->
                 IF n = 0 THEN [d EXCEPT !.starting.subs = <<>>]
                 ELSE OnStarted(f[n - 1], d.starting.subs[n])]
      <4> SUFFICES ASSUME NEW n \in 0 .. Len(d.starting.subs)
                   PROVE  d = IF n = 0 THEN [d EXCEPT !.starting.subs = <<>>]
                              ELSE OnStarted(f[n - 1], d.starting.subs[n])
        OBVIOUS
      <4>1. n = 0
        BY <1>4, <1>5
      <4> QED
        BY <1>3, <4>1
    <3> HIDE DEF f
    <3> QED
      BY <3>1
  <2>2. ran = F
    BY <2>1 DEF ran, F
  <2>3. ran[Len(d.starting.subs)] = d
    <3>1. F[0] = d
      BY <1>3, <1>4, <1>5
    <3> HIDE DEF F, ran
    <3> QED
      BY <1>4, <1>5, <2>2, <3>1
  <2>4. RunStarting(d) = IF d.starting.state = "fired" THEN ran[Len(d.starting.subs)] ELSE d
    BY DEF RunStarting, ran
  <2> HIDE DEF ran
  <2> QED
    BY <2>3, <2>4
<1> QED
  BY <1>6, <1>7 DEF Settle

Grouped(d) == Fine(d) /\ d.stoping.left = {} /\ Calm(d.mail, d.starting.left)

\* What is left of the group when w, a waiter of s, has heard.
Leaves(d, e, s, w) ==
    /\ Grouped(e)
    /\ w = "start-group" => e.starting.left = d.starting.left \ {s}
    /\ w # "start-group" => e.starting.left = d.starting.left

\* The Deferred of s fires when its waiter hears; the others stay.
LEMMA HearsCalm ==
  ASSUME Restart = {}, NEW d, Grouped(d), NEW s \in Service, NEW w, w # "stop-group", NEW result
  PROVE  Leaves(d, Hears(d, s, w, result), s, w)
<1>1. /\ d \in Drivers /\ d.mail \in Seq(Mail) /\ d.starting \in Deferreds
      /\ d.stoping \in Deferreds /\ d.stoping.left = {} /\ Fine(d)
      /\ Calm(d.mail, d.starting.left) /\ d.starting.left \subseteq Service
  BY DEF Grouped, Fine, Drivers, Deferreds
<1>2. Fine(Hears(d, s, w, result))
  BY <1>1, HearsOn DEF Onward
<1>3. CASE w = "start-group" /\ d.starting.left = {s}
  <2> DEFINE m == Append(d.mail, FinishStartingCall)
             g == [d.starting EXCEPT !.left = {}, !.state = "fired"]
             e == [d EXCEPT !.starting = g, !.mail = m]
  <2>1. g \in Deferreds /\ g.left = {}
    BY <1>1 DEF Deferreds
  <2>2. m \in Seq(Mail) /\ Calm(m, {})
    <3>1. FinishStartingCall \in Mail /\ Plain(FinishStartingCall, {})
      BY DEF Mail, FinishStartingCall, Plain, Group, Events
    <3>2. Calm(d.mail, {})
      BY <1>1, CalmLess
    <3>3. m \in Seq(Mail)
      BY <1>1, CallsInMail, MailAppend
    <3> QED
      BY <1>1, <3>1, <3>2, <3>3, CalmAppend
  <2>3. Hears(d, s, w, result) = Settle(e)
    <3>1. [d EXCEPT !.starting.left = {}, !.starting.state = "fired",
                    !.mail = Append(@, FinishStartingCall)] = e
      BY <1>1 DEF Drivers, Deferreds
    <3> QED
      BY <1>3, <3>1 DEF Hears
  <2> HIDE DEF g, m
  <2>4. e \in Drivers /\ e.starting = g /\ e.mail = m /\ e.stoping = d.stoping
    BY <1>1, <2>1, <2>2 DEF Drivers
  <2> HIDE DEF e
  <2>5. Hears(d, s, w, result) = e
    BY <2>3, <2>4, NobodySettles
  <2> QED
    BY <1>1, <1>2, <1>3, <2>1, <2>2, <2>4, <2>5 DEF Grouped, Leaves
<1>4. CASE w = "start-group" /\ d.starting.left # {s}
  <2> DEFINE g == [d.starting EXCEPT !.left = @ \ {s}]
             e == [d EXCEPT !.starting = g]
  <2>1. g.left = d.starting.left \ {s}
    BY <1>1 DEF Deferreds
  <2>2. Hears(d, s, w, result) = e
    <3>1. [d EXCEPT !.starting.left = @ \ {s}] = e
      BY <1>1 DEF Drivers, Deferreds
    <3> QED
      BY <1>4, <3>1 DEF Hears
  <2> HIDE DEF g
  <2>3. e.starting = g /\ e.mail = d.mail /\ e.stoping = d.stoping
    BY <1>1 DEF Drivers
  <2>4. Calm(d.mail, g.left)
    BY <1>1, <2>1, CalmLess
  <2> QED
    BY <1>1, <1>2, <1>4, <2>1, <2>2, <2>3, <2>4 DEF Grouped, Leaves
<1>5. CASE w = "then-stop" /\ result = "started"
  <2> DEFINE x == Event("stop", s, "answer")
             m == Append(d.mail, x)
             e == [d EXCEPT !.mail = m]
  <2>1. x \in Mail /\ Plain(x, d.starting.left)
    BY SentPlain DEF Events
  <2>2. Hears(d, s, w, result) = e
    BY <1>5 DEF Hears
  <2> HIDE DEF x
  <2>3. Calm(m, d.starting.left)
    BY <1>1, <2>1, CalmAppend
  <2> HIDE DEF m
  <2>4. e.starting = d.starting /\ e.mail = m /\ e.stoping = d.stoping
    BY <1>1 DEF Drivers
  <2> QED
    BY <1>1, <1>2, <1>5, <2>2, <2>3, <2>4 DEF Grouped, Leaves
<1>6. CASE /\ w # "start-group"
           /\ ~(w = "then-stop" /\ result = "started")
  <2>1. Hears(d, s, w, result) = d
    BY <1>6 DEF Hears
  <2> QED
    BY <1>6, <2>1 DEF Leaves
<1> QED
  BY <1>3, <1>4, <1>5, <1>6

LEMMA CallWaitersCalm ==
  ASSUME Restart = {}, NEW d, Grouped(d), NEW s \in Service, NEW chain \in Seq(Waiters),
         NoStop(chain), NEW result
  PROVE  LET e == CallWaiters(d, s, chain, result) IN
         /\ Grouped(e)
         /\ InChain(chain) = {} => e.starting.left = d.starting.left
         /\ InChain(chain) # {} => e.starting.left = d.starting.left \ {s}
<1>1. PICK N \in Nat : N = Len(chain) /\ DOMAIN chain = 1 .. N
  <2> HIDE DEF Waiters
  <2> QED
    OBVIOUS
<1> DEFINE one(n) == IF n = 1 THEN result ELSE "None"
<1>2. PICK heard :
        /\ heard[0] = d /\ CallWaiters(d, s, chain, result) = heard[N]
        /\ \A n \in 1 .. N : heard[n] = Hears(heard[n - 1], s, chain[n], one(n))
  BY <1>1, CallWaitersIs DEF Grouped
<1> DEFINE Heard(n) == \E k \in 1 .. n : chain[k] = "start-group"
           Holds(n) ==
             /\ Grouped(heard[n])
             /\ heard[n].starting.left = IF Heard(n) THEN d.starting.left \ {s}
                                         ELSE d.starting.left
           Reached == {n \in 0 .. N : Holds(n)}
           g == [n \in 0 .. N |-> n]
<1>3. Holds(0)
  BY <1>2
<1> HIDE DEF Holds, Reached, g, Heard, one
<1>4. \A x, w, r : Grouped(x) /\ w # "stop-group" => Leaves(x, Hears(x, s, w, r), s, w)
  BY HearsCalm
<1> USE DEF Holds, Reached, g, Heard, one
<1>5. ASSUME NEW n \in 1 .. N, Holds(n - 1) PROVE Holds(n)
  <2> DEFINE x == heard[n - 1]
             y == heard[n]
  <2> DEFINE w == chain[n]
             r == one(n)
  <2>1. w # "stop-group"
    BY <1>1 DEF NoStop
  <2>2. y = Hears(x, s, w, r)
    BY <1>2
  <2>3. Grouped(x)
    BY <1>5
  <2>4. x.starting.left = IF Heard(n - 1) THEN d.starting.left \ {s} ELSE d.starting.left
    BY <1>5
  <2>5. Heard(n) <=> Heard(n - 1) \/ w = "start-group"
    <3>1. n \in 1 .. n /\ \A k \in 1 .. n : k = n \/ k \in 1 .. n - 1
      OBVIOUS
    <3>2. \A k \in 1 .. n - 1 : k \in 1 .. n
      OBVIOUS
    <3> QED
      BY <3>1, <3>2
  <2> HIDE DEF x, y, w, r, Heard, one, Holds, Reached, g
  <2>6. /\ Grouped(y)
        /\ w = "start-group" => y.starting.left = x.starting.left \ {s}
        /\ w # "start-group" => y.starting.left = x.starting.left
    BY <1>4, <2>1, <2>2, <2>3 DEF Leaves
  <2>7. y.starting.left = IF Heard(n) THEN d.starting.left \ {s} ELSE d.starting.left
    BY <2>4, <2>5, <2>6
  <2> QED
    BY <2>6, <2>7 DEF y, Holds
<1>6. Holds(N)
  <2> HIDE DEF Holds
  <2>1. 0 \in Reached
    BY <1>3
  <2>2. \A n \in 1 .. N : n - 1 \in Reached => n \in Reached
    BY <1>5
  <2> HIDE DEF Reached
  <2>3. Keeps(N, Reached, g)
    <3>1. g[0] = 0 /\ \A n \in 1 .. N : g[n] = n /\ g[n - 1] = n - 1
      OBVIOUS
    <3> HIDE DEF g
    <3> QED
      BY <2>1, <2>2, <3>1 DEF Keeps
  <2>4. g[N] = N /\ N \in 0 .. N
    OBVIOUS
  <2> HIDE DEF g
  <2>5. N \in Reached
    BY <2>3, <2>4, AllTheWay
  <2> QED
    BY <2>5 DEF Reached
<1>7. Heard(N) <=> InChain(chain) # {}
  BY <1>1 DEF InChain
<1> QED
  BY <1>2, <1>6, <1>7

\* The waiters of s and the driver hear the result.
LEMMA NotifyCalm ==
  ASSUME Restart = {}, NEW q, NEW st, Grouped(Driver(q, st)), NEW s \in Service,
         NEW chain \in Seq(Waiters), NoStop(chain), NEW result
  PROVE  LET e == Notify(q, st, s, chain, result) IN
         /\ Grouped(e)
         /\ InChain(chain) = {} => e.starting.left = starting.left
         /\ InChain(chain) # {} => e.starting.left = starting.left \ {s}
<1> DEFINE d == Driver(q, st)
           c == CallWaiters(d, s, chain, result)
           e == OnServiceCallback(c, s, result)
<1>0. d.starting = starting /\ Grouped(d)
  BY DEF Driver
<1> HIDE DEF d
<1>1. /\ Grouped(c)
      /\ InChain(chain) = {} => c.starting.left = starting.left
      /\ InChain(chain) # {} => c.starting.left = starting.left \ {s}
  <2>1. LET x == CallWaiters(d, s, chain, result) IN
        /\ Grouped(x)
        /\ InChain(chain) = {} => x.starting.left = d.starting.left
        /\ InChain(chain) # {} => x.starting.left = d.starting.left \ {s}
    BY <1>0, CallWaitersCalm
  <2> QED
    BY <1>0, <2>1
<1> HIDE DEF c
<1>2. Fine(e)
  BY <1>1, OnServiceCallbackOn DEF Onward, Grouped
<1>3. c \in Drivers /\ c.mail \in Seq(Mail)
  BY <1>1 DEF Grouped, Fine, Drivers
<1>4. ASSUME NEW some, NEW ev \in Events \ Outcomes, e = [c EXCEPT !.mail = @ \o TellAll(InOrder(some), ev)]
      PROVE  Grouped(e) /\ e.starting = c.starting
  <2> DEFINE p == TellAll(InOrder(some), ev)
  <2>1. p \in Seq(Mail) /\ Calm(p, c.starting.left)
    BY InOrderType, TellAllIs, ToldPlain
  <2> HIDE DEF p
  <2>2. Calm(c.mail \o p, c.starting.left)
    BY <1>1, <1>3, <2>1, CalmConcat DEF Grouped
  <2>3. e.mail = c.mail \o p /\ e.starting = c.starting /\ e.stoping = c.stoping
    BY <1>3, <1>4 DEF Drivers, p
  <2> HIDE DEF e
  <2> QED
    BY <1>1, <1>2, <2>2, <2>3 DEF Grouped
<1>5. "start" \in Events \ Outcomes /\ "depend-service-stopped" \in Events \ Outcomes
  BY DEF Events, Outcomes
<1>6. \/ e = c
      \/ \E some, ev : /\ ev \in Events \ Outcomes
                       /\ e = [c EXCEPT !.mail = @ \o TellAll(InOrder(some), ev)]
  BY <1>5 DEF OnServiceCallback
<1>7. Grouped(e) /\ e.starting.left = c.starting.left
  <2> HIDE DEF e
  <2> QED
    BY <1>1, <1>4, <1>6
<1> QED
  BY <1>1, <1>7 DEF Notify, d, c, e

\* Every member of left has its Deferred in the chain of its machine.
Chains(left, chain) ==
    \A s \in Service : IF s \in left THEN One(InChain(chain[s])) ELSE InChain(chain[s]) = {}

\* The machines took all the Deferreds of the group.
Taken ==
    /\ stoping.left = {}
    /\ \A s \in Service : NoStop(waiters[s])
    /\ Calm(mail, starting.left)
    /\ Chains(starting.left, waiters)

LEMMA TakenHeld == Taken' => GroupInv'
<1> SUFFICES ASSUME Taken' PROVE GroupInv'
  OBVIOUS
<1>1. \A i \in DOMAIN mail' : ~Group(mail'[i])
                              /\ (mail'[i].ev = "do_finish_starting" => starting'.left = {})
  BY DEF Taken, Calm, Plain
<1>2. \A s : OnItsWay(mail', s) = {}
  BY <1>1 DEF OnItsWay, Group
<1>3. \A s \in Service : Held(s)'
  BY <1>2 DEF Taken, Chains, Held
<1> QED
  BY <1>1, <1>3 DEF GroupInv, Taken

\* If the next event carries no Deferred, none does.
LEMMA AllTaken ==
  ASSUME mail \in Seq(Mail), GroupInv, mail = <<>> \/ ~Group(Head(mail))
  PROVE  Taken
<1>1. ASSUME NEW i \in DOMAIN mail PROVE ~Group(mail[i])
  <2>1. mail # <<>> /\ mail[1] = Head(mail) /\ 1 \in 1 .. i
    BY <1>1, TailIs
  <2> QED
    BY <1>1, <2>1 DEF GroupInv, Boots
<1>2. Calm(mail, starting.left)
  BY <1>1 DEF GroupInv, Calm, Plain
<1>3. \A s : OnItsWay(mail, s) = {}
  BY <1>1 DEF OnItsWay, Group
<1>4. ASSUME NEW s \in Service
      PROVE  IF s \in starting.left THEN One(InChain(waiters[s])) ELSE InChain(waiters[s]) = {}
  <2>1. Held(s)
    BY DEF GroupInv
  <2>2. ~One(OnItsWay(mail, s))
    BY <1>3 DEF One
  <2> QED
    BY <1>3, <2>1, <2>2 DEF Held
<1> QED
  BY <1>2, <1>4 DEF Taken, GroupInv, Chains

\* A waiter that is not of a group joins the chain of m.
LEMMA OtherJoins ==
  ASSUME RestPart, NEW m \in Service, NEW w \in Waiters \cup {NoWaiter},
         w \notin {"start-group", "stop-group"}, NoStop(waiters[m])
  PROVE  /\ NoStop(Chained(m, w)) /\ InChain(Chained(m, w)) = InChain(waiters[m])
         /\ Chained(m, w) \in Seq(Waiters)
<1>1. waiters[m] \in Seq(Waiters) /\ Chained(m, w) \in Seq(Waiters)
  BY ChainedType
<1>2. CASE w = NoWaiter
  BY <1>1, <1>2 DEF Chained
<1>3. CASE w # NoWaiter
  <2> HIDE DEF Waiters
  <2>1. PICK n \in Nat : n = Len(waiters[m]) /\ DOMAIN waiters[m] = 1 .. n
    BY <1>1
  <2> DEFINE c == Append(waiters[m], w)
  <2>2. DOMAIN c = 1 .. n + 1 /\ c[n + 1] = w /\ \A i \in 1 .. n : c[i] = waiters[m][i]
    BY <1>1, <2>1
  <2>3. c = Chained(m, w)
    BY <1>3 DEF Chained
  <2> HIDE DEF c
  <2>4. \A i \in 1 .. n + 1 : i = n + 1 \/ i \in 1 .. n
    BY <2>1
  <2>5. \A i \in 1 .. n : i \in 1 .. n + 1
    BY <2>1
  <2>6. NoStop(c)
    BY <2>1, <2>2, <2>4 DEF NoStop
  <2>7. InChain(c) = InChain(waiters[m])
    BY <2>1, <2>2, <2>4, <2>5 DEF InChain
  <2> QED
    BY <1>1, <2>3, <2>6, <2>7
<1> QED
  BY <1>2, <1>3

\* The chains after a step that lets nobody of a group join.
LEMMA OtherJoined ==
  ASSUME RestPart, NEW m \in Service, NEW w \in Waiters \cup {NoWaiter},
         w \notin {"start-group", "stop-group"}, \A s \in Service : NoStop(waiters[s]),
         SetCallback(m, w) \/ UNCHANGED waiters
  PROVE  \A s \in Service : NoStop(waiters'[s]) /\ InChain(waiters'[s]) = InChain(waiters[s])
<1>1. waiters \in [Service -> Seq(Waiters)]
  BY DEF RestPart
<1>2. CASE SetCallback(m, w)
  <2>1. waiters'[m] = Chained(m, w) /\ \A s \in Service \ {m} : waiters'[s] = waiters[s]
    BY <1>1, <1>2 DEF SetCallback
  <2> QED
    BY <2>1, OtherJoins
<1> QED
  BY <1>2

LEMMA JoinsTaken ==
  ASSUME RestPart, Taken, NEW m \in Service, NEW w \in Waiters \cup {NoWaiter},
         w \notin {"start-group", "stop-group"}, SetCallback(m, w) \/ UNCHANGED waiters,
         UNCHANGED <<starting, stoping>>, Calm(mail', starting.left)
  PROVE  GroupInv'
<1>1. \A s \in Service : NoStop(waiters'[s]) /\ InChain(waiters'[s]) = InChain(waiters[s])
  BY OtherJoined DEF Taken
<1>2. Taken'
  BY <1>1 DEF Taken, Chains
<1> QED
  BY <1>2, TakenHeld

\* A machine answers its waiters: its Deferred has fired and nothing else changed.
LEMMA AnswerTakes ==
  ASSUME Restart = {}, RestPart, Fine(Driver(mail, state)), Taken, NEW m \in Service,
         NEW q \in Seq(Mail), Calm(q, starting.left), NEW st \in [Service -> States],
         NEW chain \in Seq(Waiters), NoStop(chain), InChain(chain) = InChain(waiters[m]),
         NEW result
  PROVE  LET d == Notify(q, st, m, chain, result) IN
         /\ Grouped(d)
         /\ waiters' = [waiters EXCEPT ![m] = <<>>] => Chains(d.starting.left, waiters')
<1> DEFINE d == Notify(q, st, m, chain, result)
<1>1. Grouped(Driver(q, st))
  <2>1. Fine(Driver(q, st))
    BY DriverOf
  <2> QED
    BY <2>1 DEF Grouped, Driver, Taken
<1>2. /\ Grouped(d)
      /\ InChain(chain) = {} => d.starting.left = starting.left
      /\ InChain(chain) # {} => d.starting.left = starting.left \ {m}
  BY <1>1, NotifyCalm
<1> HIDE DEF d
<1>3. InChain(chain) = {} => m \notin starting.left
  <2>1. ~One({})
    BY DEF One
  <2> QED
    BY <2>1 DEF Taken, Chains
<1>4. m \notin d.starting.left /\ \A s : s # m => (s \in d.starting.left <=> s \in starting.left)
  BY <1>2, <1>3
<1>5. ASSUME waiters' = [waiters EXCEPT ![m] = <<>>] PROVE Chains(d.starting.left, waiters')
  <2>1. waiters'[m] = <<>> /\ \A s \in Service \ {m} : waiters'[s] = waiters[s]
    BY <1>5 DEF RestPart
  <2>2. InChain(<<>>) = {}
    BY DEF InChain
  <2> QED
    BY <1>4, <2>1, <2>2 DEF Taken, Chains
<1> QED
  BY <1>2, <1>5 DEF d

LEMMA AnsweredTaken ==
  ASSUME RestPart, Taken, NEW m \in Service, NEW d, Grouped(d),
         waiters' = [waiters EXCEPT ![m] = <<>>], Chains(d.starting.left, waiters'),
         starting' = d.starting, stoping' = d.stoping, Calm(mail', d.starting.left)
  PROVE  GroupInv'
<1>1. waiters'[m] = <<>> /\ \A s \in Service \ {m} : waiters'[s] = waiters[s]
  BY DEF RestPart
<1>2. \A s \in Service : NoStop(waiters'[s])
  BY <1>1 DEF Taken, NoStop
<1>3. Taken'
  BY <1>2 DEF Taken, Grouped
<1> QED
  BY <1>3, TakenHeld

\* What doStartService() and doStopDependentServices() send carries no Deferred.
LEMMA OutcomePlain ==
  ASSUME NEW m \in Service, NEW out \in StartOutcomes(m)
  PROVE  out.sends \in Seq(Mail) /\ \A left : Calm(out.sends, left)
<1>1. CASE out.sends = <<>>
  BY <1>1 DEF Calm
<1>2. ASSUME NEW ev \in Outcomes, out.sends = <<Tell(m, ev)>> PROVE
        out.sends \in Seq(Mail) /\ \A left : Calm(out.sends, left)
  <2>1. ev \in Events
    BY DEF Outcomes, Events
  <2> DEFINE x == Tell(m, ev)
  <2>2. x \in Mail /\ \A left : Plain(x, left)
    BY <2>1, SentPlain
  <2> HIDE DEF x
  <2>3. <<x>> \in Seq(Mail) /\ DOMAIN <<x>> = {1} /\ <<x>>[1] = x
    BY <2>2
  <2>4. out.sends = <<x>>
    BY <1>2 DEF x
  <2> QED
    BY <2>2, <2>3, <2>4 DEF Calm
<1> QED
  BY <1>1, <1>2, StartOutcomesAre

LEMMA AskedPlain ==
  ASSUME NEW m \in Service, NEW q \in Seq(Mail), NEW left, Calm(q, left)
  PROVE  Calm(StopDependents(m, q), left)
<1>1. "stop" \in Events \ Outcomes /\ "depend-service-stopped" \in Events
  BY DEF Events, Outcomes
<1> DEFINE x == Tell(m, "depend-service-stopped")
           p == TellAll(InOrder(Dependents(m) \cap Installed), "stop")
<1>2. x \in Mail /\ Plain(x, left)
  BY <1>1, SentPlain
<1>3. p \in Seq(Mail) /\ Calm(p, left)
  BY <1>1, InOrderType, TellAllIs, ToldPlain
<1> HIDE DEF x, p
<1>4. Calm(Append(q, x), left) /\ Calm(q \o p, left)
  BY <1>2, <1>3, CalmAppend, CalmConcat
<1> QED
  BY <1>4 DEF StopDependents, x, p

\* An event without a Deferred of a group is delivered.
LEMMA EventTaken ==
  ASSUME IInv, GroupInv, NEW m \in Service, NEW ev \in Events, Delivered(ev, m),
         ~Group(Head(mail))
  PROVE  /\ Taken /\ RestPart /\ Fine(Driver(mail, state))
         /\ Tail(mail) \in Seq(Mail) /\ Calm(Tail(mail), starting.left)
         /\ state \in [Service -> States] /\ waiters \in [Service -> Seq(Waiters)]
         /\ Waiter \in Waiters \cup {NoWaiter} /\ Waiter \notin {"start-group", "stop-group"}
         /\ \A s \in Service : NoStop(waiters[s])
<1>1. /\ mail \in Seq(Mail) /\ mail # <<>> /\ Tail(mail) \in Seq(Mail)
      /\ Waiter \in Waiters \cup {NoWaiter} /\ Head(mail).ev = ev
  BY InvariantTypes, DeliveredIs DEF Delivered
<1>2. Taken
  BY <1>1, AllTaken
<1>3. Calm(Tail(mail), starting.left)
  BY <1>1, <1>2, CalmTail DEF Taken
<1>4. Waiter \notin {"start-group", "stop-group"}
  BY <1>1 DEF Waiter, Group
<1> QED
  BY <1>1, <1>2, <1>3, <1>4, InvariantTypes DEF IInv, RestPart, GroupInv

LEMMA StartTaken ==
  ASSUME IInv, GroupInv, NEW m \in Service, StartEvent(m), ~Group(Head(mail))
  PROVE  GroupInv'
<1>1. Delivered("start", m) /\ "start" \in Events
  BY DEF StartEvent, Events
<1>2. /\ Taken /\ RestPart /\ Tail(mail) \in Seq(Mail) /\ Calm(Tail(mail), starting.left)
      /\ Waiter \in Waiters \cup {NoWaiter} /\ Waiter \notin {"start-group", "stop-group"}
  BY <1>1, EventTaken
<1>3. SetCallback(m, Waiter) \/ UNCHANGED waiters
  BY DEF StartEvent, machines
<1>4. CASE DoStartService(m, Driver(Tail(mail), state))
  <2>1. PICK out \in StartOutcomes(m) :
          Becomes([Driver(Tail(mail), state) EXCEPT !.mail = @ \o out.sends])
    BY <1>4 DEF DoStartService
  <2>2. mail' = Tail(mail) \o out.sends /\ UNCHANGED <<starting, stoping>>
    BY <2>1 DEF Becomes, Driver
  <2>3. Calm(mail', starting.left)
    BY <1>2, <2>2, OutcomePlain, CalmConcat
  <2> QED
    BY <1>2, <1>3, <2>2, <2>3, JoinsTaken
<1>5. CASE Sends(Tail(mail))
  <2>1. mail' = Tail(mail) /\ UNCHANGED <<starting, stoping>>
    BY <1>5 DEF Sends, drv
  <2> QED
    BY <1>2, <1>3, <2>1, JoinsTaken
<1> QED
  BY <1>4, <1>5 DEF StartEvent

LEMMA AnswersTaken ==
  ASSUME Restart = {}, IInv, GroupInv, NEW m \in Service, NEW ev \in Events, Delivered(ev, m),
         ~Group(Head(mail)), NEW to \in States, NEW result, Answers(m, to, result)
  PROVE  GroupInv'
<1>1. /\ Taken /\ RestPart /\ Fine(Driver(mail, state))
      /\ Tail(mail) \in Seq(Mail) /\ Calm(Tail(mail), starting.left)
      /\ state \in [Service -> States] /\ waiters[m] \in Seq(Waiters) /\ NoStop(waiters[m])
  <2> HIDE DEF Waiters
  <2> QED
    BY EventTaken
<1> DEFINE st == [state EXCEPT ![m] = to]
           d == Notify(Tail(mail), st, m, waiters[m], result)
<1>2. st \in [Service -> States]
  BY <1>1
<1>3. st = state' /\ waiters' = [waiters EXCEPT ![m] = <<>>]
  BY DEF Answers, Moves
<1>4. Becomes(d)
  BY <1>3 DEF Answers
<1> HIDE DEF st
<1>5. Grouped(d) /\ Chains(d.starting.left, waiters')
  BY <1>1, <1>2, <1>3, AnswerTakes
<1> HIDE DEF d
<1>6. mail' = d.mail /\ starting' = d.starting /\ stoping' = d.stoping
  BY <1>4 DEF Becomes
<1> QED
  BY <1>1, <1>3, <1>5, <1>6, AnsweredTaken DEF Grouped

LEMMA StopTaken ==
  ASSUME Restart = {}, IInv, GroupInv, NEW m \in Service, StopEvent(m), ~Group(Head(mail))
  PROVE  GroupInv'
<1>1. Delivered("stop", m) /\ "stop" \in Events
  BY DEF StopEvent, Events
<1>2. /\ Taken /\ RestPart /\ Fine(Driver(mail, state)) /\ state \in [Service -> States]
      /\ Tail(mail) \in Seq(Mail) /\ Calm(Tail(mail), starting.left)
      /\ Waiter \in Waiters \cup {NoWaiter} /\ Waiter \notin {"start-group", "stop-group"}
      /\ NoStop(waiters[m])
  BY <1>1, EventTaken
<1>3. CASE Sends(StopDependents(m, Tail(mail))) /\ SetCallback(m, Waiter)
  <2>1. mail' = StopDependents(m, Tail(mail)) /\ UNCHANGED <<starting, stoping>>
    BY <1>3 DEF Sends, drv
  <2>2. Calm(mail', starting.left)
    BY <1>2, <2>1, AskedPlain
  <2> QED
    BY <1>2, <1>3, <2>1, <2>2, JoinsTaken
<1>4. CASE Sends(Tail(mail)) /\ (SetCallback(m, Waiter) \/ UNCHANGED waiters)
  <2>1. mail' = Tail(mail) /\ UNCHANGED <<starting, stoping>>
    BY <1>4 DEF Sends, drv
  <2> QED
    BY <1>2, <1>4, <2>1, JoinsTaken
<1>5. CASE /\ Becomes(Notify(Tail(mail), state, m, Chained(m, Waiter), AnswerWhenDown(state[m])))
           /\ waiters' = [waiters EXCEPT ![m] = <<>>]
  <2> DEFINE c == Chained(m, Waiter)
             result == AnswerWhenDown(state[m])
             d == Notify(Tail(mail), state, m, c, result)
  <2>1. NoStop(c) /\ InChain(c) = InChain(waiters[m]) /\ c \in Seq(Waiters)
    BY <1>2, OtherJoins
  <2>2. Becomes(d)
    BY <1>5
  <2> HIDE DEF c, result
  <2>3. Grouped(d) /\ Chains(d.starting.left, waiters')
    BY <1>2, <1>5, <2>1, AnswerTakes
  <2> HIDE DEF d
  <2>4. mail' = d.mail /\ starting' = d.starting /\ stoping' = d.stoping
    BY <2>2 DEF Becomes
  <2> QED
    BY <1>2, <1>5, <2>3, <2>4, AnsweredTaken DEF Grouped
<1> QED
  BY <1>3, <1>4, <1>5 DEF StopEvent

LEMMA OutcomeTaken ==
  ASSUME Restart = {}, IInv, GroupInv, NEW m \in Service, ~Group(Head(mail)),
         StartedEvent(m) \/ SetbackEvent(m) \/ StoppedEvent(m)
  PROVE  GroupInv'
<1>1. ASSUME NEW ev \in Events, Delivered(ev, m), NEW to \in States, NEW result,
             Answers(m, to, result)
      PROVE  GroupInv'
  BY <1>1, AnswersTaken
<1>2. ASSUME NEW ev \in Events, Delivered(ev, m), NEW q \in Seq(Mail), Sends(q),
             Calm(q, starting.left), UNCHANGED waiters
      PROVE  GroupInv'
  <2>1. Taken /\ RestPart
    BY <1>2, EventTaken
  <2>2. mail' = q /\ UNCHANGED <<starting, stoping>>
    BY <1>2 DEF Sends, drv
  <2>3. NoWaiter \in Waiters \cup {NoWaiter} /\ NoWaiter \notin {"start-group", "stop-group"}
    BY DEF NoWaiter
  <2> QED
    BY <1>2, <2>1, <2>2, <2>3, JoinsTaken
<1>3. ASSUME NEW ev \in Events, Delivered(ev, m)
      PROVE  /\ Tail(mail) \in Seq(Mail) /\ Calm(Tail(mail), starting.left)
             /\ StopDependents(m, Tail(mail)) \in Seq(Mail)
             /\ Calm(StopDependents(m, Tail(mail)), starting.left)
  <2>1. Tail(mail) \in Seq(Mail) /\ Calm(Tail(mail), starting.left)
    BY <1>3, EventTaken
  <2> QED
    BY <2>1, AskedPlain, StopDependentsOn
<1>4. CASE StartedEvent(m)
  <2>1. Delivered("service-started", m) /\ "service-started" \in Events /\ "ON" \in States
    BY <1>4 DEF StartedEvent, Events, States
  <2>2. \/ Answers(m, "ON", "started")
        \/ Sends(StopDependents(m, Tail(mail))) /\ UNCHANGED waiters
    BY <1>4 DEF StartedEvent
  <2> QED
    BY <1>1, <1>2, <1>3, <2>1, <2>2
<1>5. CASE SetbackEvent(m)
  <2>1. PICK b \in Setbacks : Delivered(b.ev, m) /\ Answers(m, b.to, b.result)
    BY <1>5 DEF SetbackEvent
  <2>2. b.ev \in Events /\ b.to \in States
    BY DEF Setbacks, Events, States
  <2> QED
    BY <1>1, <2>1, <2>2
<1>6. CASE StoppedEvent(m)
  <2>1. Delivered("service-stopped", m) /\ "service-stopped" \in Events /\ "OFF" \in States
    BY <1>6 DEF StoppedEvent, Events, States
  <2>2. \/ Answers(m, "OFF", "stopped")
        \/ Sends(Tail(mail)) /\ UNCHANGED waiters
    BY <1>6 DEF StoppedEvent, machines
  <2> QED
    BY <1>1, <1>2, <1>3, <2>1, <2>2
<1> QED
  BY <1>4, <1>5, <1>6

LEMMA DependStoppedTaken ==
  ASSUME Restart = {}, IInv, GroupInv, NEW m \in Service, DependStoppedEvent(m),
         ~Group(Head(mail))
  PROVE  GroupInv'
<1> DEFINE x == Tell(m, "service-stopped")
           p == Append(Tail(mail), x)
<1>1. Delivered("depend-service-stopped", m) /\ "depend-service-stopped" \in Events
  BY DEF DependStoppedEvent, Events
<1>2. /\ Taken /\ RestPart /\ Fine(Driver(mail, state)) /\ state \in [Service -> States]
      /\ Tail(mail) \in Seq(Mail) /\ Calm(Tail(mail), starting.left)
      /\ NoStop(waiters[m])
  BY <1>1, EventTaken
<1>3. NoWaiter \in Waiters \cup {NoWaiter} /\ NoWaiter \notin {"start-group", "stop-group"}
  BY DEF NoWaiter
<1>4. p \in Seq(Mail) /\ Calm(p, starting.left)
  <2>1. "service-stopped" \in Events
    BY DEF Events
  <2>2. x \in Mail /\ Plain(x, starting.left)
    BY <2>1, SentPlain
  <2> HIDE DEF x
  <2>3. Calm(p, starting.left)
    BY <1>2, <2>2, CalmAppend
  <2> QED
    BY <1>2, <2>2, <2>3
<1>5. CASE Becomes(Driver(p, state')) /\ UNCHANGED waiters
  <2>1. mail' = p /\ UNCHANGED <<starting, stoping>>
    BY <1>5 DEF Becomes, Driver
  <2> QED
    BY <1>2, <1>3, <1>4, <1>5, <2>1, JoinsTaken
<1>6. CASE Sends(Tail(mail)) /\ UNCHANGED waiters
  <2>1. mail' = Tail(mail) /\ UNCHANGED <<starting, stoping>>
    BY <1>6 DEF Sends, drv
  <2> QED
    BY <1>2, <1>3, <1>6, <2>1, JoinsTaken
<1>7. CASE /\ Moves(m, "STARTING") /\ waiters' = [waiters EXCEPT ![m] = <<>>]
           /\ LET d == Notify(p, state', m, waiters[m], "stopped")
              IN  \E out \in StartOutcomes(m) : Becomes([d EXCEPT !.mail = @ \o out.sends])
  <2> DEFINE st == [state EXCEPT ![m] = "STARTING"]
             d == Notify(p, st, m, waiters[m], "stopped")
  <2>1. st \in [Service -> States] /\ st = state' /\ waiters[m] \in Seq(Waiters)
    <3> HIDE DEF Waiters
    <3> QED
      BY <1>2, <1>7 DEF Moves, States, RestPart
  <2>2. PICK out \in StartOutcomes(m) : Becomes([d EXCEPT !.mail = @ \o out.sends])
    BY <1>7, <2>1
  <2> HIDE DEF st, p
  <2>3. Grouped(d) /\ Chains(d.starting.left, waiters')
    BY <1>2, <1>4, <1>7, <2>1, AnswerTakes
  <2> HIDE DEF d
  <2>4. d \in Drivers /\ d.mail \in Seq(Mail)
    BY <2>3 DEF Grouped, Fine, Drivers
  <2>5. mail' = d.mail \o out.sends /\ starting' = d.starting /\ stoping' = d.stoping
    BY <2>2, <2>4 DEF Becomes, Drivers
  <2>6. Calm(mail', d.starting.left)
    BY <2>3, <2>4, <2>5, OutcomePlain, CalmConcat DEF Grouped
  <2> QED
    BY <1>2, <1>7, <2>3, <2>5, <2>6, AnsweredTaken
<1> QED
  BY <1>5, <1>6, <1>7 DEF DependStoppedEvent, p, x, machines

\* p holds what q holds, and more that carries no Deferred.
Adds(q, p) ==
    /\ \A i \in DOMAIN q : i \in DOMAIN p /\ p[i] = q[i]
    /\ \A i \in DOMAIN p : i \in DOMAIN q \/ \A left : Plain(p[i], left)

LEMMA AddsPlain ==
  ASSUME NEW q \in Seq(Mail), NEW p \in Seq(Mail), \A left : Calm(p, left)
  PROVE  Adds(q, q \o p)
<1>1. PICK m \in Nat, n \in Nat : /\ m = Len(q) /\ n = Len(p)
                                  /\ DOMAIN q = 1 .. m /\ DOMAIN p = 1 .. n
  OBVIOUS
<1>2. /\ DOMAIN (q \o p) = 1 .. m + n
      /\ \A k \in 1 .. m + n : (q \o p)[k] = IF k <= m THEN q[k] ELSE p[k - m]
  <2>1. q \o p \in Seq(Mail) /\ Len(q \o p) = m + n
    BY <1>1, ConcatProperties
  <2> QED
    BY <1>1, <2>1, ConcatProperties
<1> DEFINE r == q \o p
<1>3. DOMAIN r = 1 .. m + n /\ \A k \in 1 .. m + n : r[k] = IF k <= m THEN q[k] ELSE p[k - m]
  BY <1>2
<1> HIDE DEF r
<1>4. \A k \in 1 .. m : k \in 1 .. m + n /\ k <= m
  BY <1>1
<1>5. \A k \in 1 .. m + n : k \in 1 .. m \/ (~(k <= m) /\ k - m \in 1 .. n)
  BY <1>1
<1> QED
  BY <1>1, <1>3, <1>4, <1>5 DEF Adds, Calm, r

LEMMA AddsEvent ==
  ASSUME NEW q \in Seq(Mail), NEW x \in Mail, \A left : Plain(x, left)
  PROVE  Adds(q, Append(q, x))
<1>1. PICK n \in Nat : n = Len(q) /\ DOMAIN q = 1 .. n
  OBVIOUS
<1>2. /\ DOMAIN Append(q, x) = 1 .. n + 1 /\ Append(q, x)[n + 1] = x
      /\ \A i \in 1 .. n : Append(q, x)[i] = q[i]
  BY <1>1
<1>3. /\ \A i \in 1 .. n + 1 : i \in 1 .. n \/ i = n + 1
      /\ \A i \in 1 .. n : i \in 1 .. n + 1
  BY <1>1
<1> QED
  BY <1>1, <1>2, <1>3 DEF Adds

LEMMA AddsNothing == \A q : Adds(q, q)
  BY DEF Adds

LEMMA AddsWay ==
  ASSUME NEW q, NEW p, Adds(q, p), NEW s
  PROVE  OnItsWay(p, s) = OnItsWay(q, s)
  BY DEF Adds, OnItsWay, Plain, Group

\* One Deferred less is on its way when the first event is delivered.
LEMMA TailWay ==
  ASSUME NEW q \in Seq(Mail), q # <<>>, NEW s
  PROVE  /\ One(OnItsWay(q, s)) /\ 1 \notin OnItsWay(q, s) => One(OnItsWay(Tail(q), s))
         /\ OnItsWay(q, s) \subseteq {1} => OnItsWay(Tail(q), s) = {}
<1>1. /\ \A i \in DOMAIN Tail(q) : i + 1 \in DOMAIN q /\ Tail(q)[i] = q[i + 1] /\ i \in Nat /\ i # 0
      /\ \A i \in DOMAIN q : i # 1 => i - 1 \in DOMAIN Tail(q) /\ Tail(q)[i - 1] = q[i]
      /\ \A i \in DOMAIN q : i \in Nat
  BY TailIs
<1> DEFINE r == Tail(q)
<1> HIDE DEF r
<1>2. /\ \A i \in OnItsWay(r, s) : i + 1 \in OnItsWay(q, s) /\ i \in Nat /\ i # 0
      /\ \A i \in OnItsWay(q, s) : i # 1 => i - 1 \in OnItsWay(r, s)
      /\ \A i \in OnItsWay(q, s) : i \in Nat
  BY <1>1 DEF OnItsWay, r
<1>3. ASSUME One(OnItsWay(q, s)), 1 \notin OnItsWay(q, s) PROVE One(OnItsWay(r, s))
  <2>1. PICK k : OnItsWay(q, s) = {k}
    BY <1>3 DEF One
  <2>2. k \in Nat /\ k # 1 /\ k - 1 \in OnItsWay(r, s)
    BY <1>2, <1>3, <2>1
  <2>3. \A i \in OnItsWay(r, s) : i + 1 = k /\ i \in Nat
    BY <1>2, <2>1
  <2>4. \A i \in Nat : i + 1 = k => i = k - 1
    BY <2>2
  <2>5. OnItsWay(r, s) = {k - 1}
    BY <2>2, <2>3, <2>4
  <2> QED
    BY <2>5 DEF One
<1>4. ASSUME OnItsWay(q, s) \subseteq {1} PROVE OnItsWay(r, s) = {}
  <2>1. \A i \in OnItsWay(r, s) : i + 1 = 1 /\ i \in Nat /\ i # 0
    BY <1>2, <1>4
  <2>2. \A i \in Nat : i + 1 = 1 => i = 0
    OBVIOUS
  <2> QED
    BY <2>1, <2>2
<1> QED
  BY <1>3, <1>4 DEF r

\* What is sent besides leaves the Deferreds on their way.
LEMMA MoreGroup ==
  ASSUME IInv, GroupInv, UNCHANGED <<state, starting, stoping>>, Adds(mail, mail'),
         NEW m \in Service, NEW w \in Waiters \cup {NoWaiter},
         w \notin {"start-group", "stop-group"}, SetCallback(m, w) \/ UNCHANGED waiters
  PROVE  GroupInv'
<1>1. \A s \in Service : NoStop(waiters'[s]) /\ InChain(waiters'[s]) = InChain(waiters[s])
  BY OtherJoined DEF GroupInv, IInv
<1>2. \A s \in Service : OnItsWay(mail', s) = OnItsWay(mail, s)
  BY AddsWay
<1>3. ASSUME NEW i \in DOMAIN mail', Group(mail'[i]) PROVE Boots(mail, i)'
  <2>1. i \in DOMAIN mail /\ mail'[i] = mail[i] /\ Boots(mail, i)
    BY <1>3 DEF Adds, Plain, GroupInv
  <2>2. \A j \in 1 .. i : j \in DOMAIN mail
    BY <2>1, InvariantTypes
  <2>3. \A j \in 1 .. i : mail'[j] = mail[j]
    BY <2>2 DEF Adds
  <2> QED
    BY <2>1, <2>3 DEF Boots
<1>4. ASSUME NEW i \in DOMAIN mail', mail'[i].ev = "do_finish_starting" PROVE starting'.left = {}
  <2>1. CASE i \in DOMAIN mail
    BY <1>4, <2>1 DEF Adds, GroupInv
  <2>2. CASE i \notin DOMAIN mail
    BY <1>4, <2>2 DEF Adds, Plain
  <2> QED
    BY <2>1, <2>2
<1>5. \A s \in Service : Held(s)'
  BY <1>1, <1>2 DEF GroupInv, Held
<1> QED
  BY <1>1, <1>3, <1>4, <1>5 DEF GroupInv

\* A machine takes the Deferred of its service: the first "start" it hears.
LEMMA StartTakes ==
  ASSUME IInv, GroupInv, NEW m \in Service, StartEvent(m), Group(Head(mail))
  PROVE  GroupInv'
<1> DEFINE q == Tail(mail)
<1>1. /\ mail \in Seq(Mail) /\ mail # <<>> /\ q \in Seq(Mail) /\ mail[1] = Head(mail)
      /\ 1 \in DOMAIN mail /\ Head(mail).ev = "start" /\ Head(mail).to = m
      /\ state \in [Service -> States] /\ waiters \in [Service -> Seq(Waiters)]
      /\ "start" \in Events
  <2>1. mail # <<>> /\ Head(mail).ev = "start" /\ Head(mail).to = m
    BY DEF StartEvent, Delivered
  <2> HIDE DEF Waiters, States
  <2> QED
    BY <2>1, InvariantTypes, TailIs DEF IInv, RestPart, Events
<1>2. Boots(mail, 1) /\ Head(mail).cb = "start-group" /\ state[m] = "OFF"
  BY <1>1 DEF GroupInv, Boots
<1>3. /\ OnItsWay(mail, m) = {1} /\ m \in starting.left /\ InChain(waiters[m]) = {}
  <2>1. 1 \in OnItsWay(mail, m)
    BY <1>1, <1>2 DEF OnItsWay
  <2>2. Held(m)
    BY DEF GroupInv
  <2> QED
    BY <2>1, <2>2 DEF Held, One
<1>4. /\ Moves(m, "STARTING") /\ SetCallback(m, "start-group")
      /\ DoStartService(m, Driver(q, state))
  BY <1>2 DEF StartEvent, Waiter, Down
<1>5. /\ Adds(q, mail') /\ UNCHANGED <<starting, stoping>>
  <2>1. PICK out \in StartOutcomes(m) :
          Becomes([Driver(q, state) EXCEPT !.mail = @ \o out.sends])
    BY <1>4 DEF DoStartService
  <2>2. mail' = q \o out.sends /\ UNCHANGED <<starting, stoping>>
    BY <2>1 DEF Becomes, Driver
  <2> QED
    BY <1>1, <2>2, OutcomePlain, AddsPlain
<1>6. /\ waiters'[m] = Append(waiters[m], "start-group")
      /\ \A s \in Service \ {m} : waiters'[s] = waiters[s] /\ state'[s] = state[s]
  BY <1>1, <1>4 DEF SetCallback, Chained, NoWaiter, Moves
<1>7. /\ One(InChain(waiters'[m])) /\ NoStop(waiters'[m])
  <2> DEFINE c == waiters[m]
             e == Append(c, "start-group")
  <2>1. c \in Seq(Waiters) /\ "start-group" \in Waiters
    <3>1. "start-group" \in Waiters
      BY DEF Waiters
    <3> HIDE DEF Waiters
    <3> QED
      BY <1>1, <3>1
  <2> HIDE DEF c
  <2>2. PICK n \in Nat : n = Len(c) /\ DOMAIN c = 1 .. n
    BY <2>1
  <2>3. DOMAIN e = 1 .. n + 1 /\ e[n + 1] = "start-group" /\ \A i \in 1 .. n : e[i] = c[i]
    BY <2>1, <2>2
  <2> HIDE DEF e
  <2>4. n + 1 \in 1 .. n + 1 /\ \A i \in 1 .. n + 1 : i = n + 1 \/ i \in 1 .. n
    BY <2>2
  <2>5. InChain(c) = {} /\ NoStop(c)
    BY <1>3 DEF c, GroupInv
  <2>6. InChain(e) = {n + 1}
    BY <2>2, <2>3, <2>4, <2>5 DEF InChain
  <2>7. NoStop(e)
    BY <2>2, <2>3, <2>4, <2>5 DEF NoStop
  <2> QED
    BY <1>6, <2>6, <2>7 DEF One, c, e
<1>8. /\ OnItsWay(mail', m) = {}
      /\ \A s \in Service \ {m} : /\ One(OnItsWay(mail, s)) => One(OnItsWay(mail', s))
                                  /\ OnItsWay(mail, s) = {} => OnItsWay(mail', s) = {}
  <2>1. \A s : OnItsWay(mail', s) = OnItsWay(q, s)
    BY <1>5, AddsWay
  <2>2. \A s \in Service \ {m} : 1 \notin OnItsWay(mail, s)
    BY <1>1 DEF OnItsWay
  <2> QED
    BY <1>1, <1>3, <2>1, <2>2, TailWay
<1>9. \A s \in Service : Held(s)'
  <2>1. \A s \in Service : Held(s)
    BY DEF GroupInv
  <2>2. \A s \in Service \ {m} : Held(s)'
    BY <1>5, <1>6, <1>8, <2>1 DEF Held
  <2>3. Held(m)'
    BY <1>3, <1>5, <1>7, <1>8 DEF Held
  <2> QED
    BY <2>2, <2>3
<1>10. \A i \in DOMAIN q : i + 1 \in DOMAIN mail /\ q[i] = mail[i + 1] /\ i \in Nat /\ i # 0
  BY <1>1, TailIs
<1>11. ASSUME NEW i \in DOMAIN mail', Group(mail'[i]) PROVE Boots(mail, i)'
  <2>1. i \in DOMAIN q /\ mail'[i] = q[i]
    BY <1>5, <1>11 DEF Adds, Plain
  <2>2. i + 1 \in DOMAIN mail /\ mail'[i] = mail[i + 1] /\ i \in Nat /\ i # 0 /\ i + 1 # 1
    BY <1>10, <2>1
  <2>3. Boots(mail, i + 1)
    BY <1>11, <2>2 DEF GroupInv
  <2>4. mail[i + 1].to # m
    <3>1. mail[i + 1].to = m => i + 1 \in OnItsWay(mail, m)
      BY <1>1, <2>2, <2>3 DEF Boots, OnItsWay
    <3> QED
      BY <1>3, <2>2, <3>1
  <2>5. mail[i + 1].to \in Service
    <3>1. mail[i + 1] \in Mail
      BY <1>1, <2>2
    <3> QED
      BY <1>1, <2>3, <3>1 DEF Boots, Mail, FinishStartingCall, FinishStopingCall, Events
  <2>6. state'[mail'[i].to] = "OFF"
    BY <1>6, <2>2, <2>3, <2>4, <2>5 DEF Boots
  <2>7. ASSUME NEW j \in 1 .. i PROVE Group(mail'[j])
    <3>1. j \in DOMAIN q
      BY <1>1, <2>1
    <3>2. mail'[j] = mail[j + 1] /\ j + 1 \in 1 .. i + 1
      BY <1>5, <1>10, <2>2, <3>1 DEF Adds
    <3> QED
      BY <2>3, <3>2 DEF Boots
  <2> QED
    BY <2>2, <2>3, <2>6, <2>7 DEF Boots
<1>12. ASSUME NEW i \in DOMAIN mail', mail'[i].ev = "do_finish_starting" PROVE starting'.left = {}
  <2>1. CASE i \in DOMAIN q
    <3>1. i + 1 \in DOMAIN mail /\ mail[i + 1].ev = "do_finish_starting"
      BY <1>5, <1>10, <1>12, <2>1 DEF Adds
    <3> QED
      BY <1>5, <3>1 DEF GroupInv
  <2>2. CASE i \notin DOMAIN q
    BY <1>5, <1>12, <2>2 DEF Adds, Plain
  <2> QED
    BY <2>1, <2>2
<1>13. \A s \in Service : NoStop(waiters'[s])
  BY <1>6, <1>7 DEF GroupInv
<1> QED
  BY <1>5, <1>9, <1>11, <1>12, <1>13 DEF GroupInv

LEMMA FinishHeld ==
  ASSUME IInv, GroupInv, DoFinishStarting \/ DoFinishStoping
  PROVE  GroupInv'
<1>1. /\ mail \in Seq(Mail) /\ mail # <<>> /\ mail' = Tail(mail) /\ 1 \in DOMAIN mail
      /\ mail[1] = Head(mail) /\ waiters' = waiters
      /\ Head(mail) \in {FinishStartingCall, FinishStopingCall}
  <2>1. mail \in Seq(Mail) /\ mail # <<>>
    BY InvariantTypes DEF DoFinishStarting, DoFinishStoping
  <2> QED
    BY <2>1, TailIs DEF DoFinishStarting, DoFinishStoping, machines
<1>2. ~Group(Head(mail))
  BY <1>1 DEF Group, FinishStartingCall, FinishStopingCall, Events
<1>3. Taken
  BY <1>1, <1>2, AllTaken
<1>4. starting'.left = starting.left
  <2>1. CASE DoFinishStarting
    <3>1. starting.left = {}
      BY <1>1, <2>1 DEF DoFinishStarting, GroupInv, FinishStartingCall
    <3> QED
      BY <2>1, <3>1 DEF DoFinishStarting, Absent
  <2>2. CASE DoFinishStoping
    BY <2>2 DEF DoFinishStoping
  <2> QED
    BY <2>1, <2>2
<1>5. stoping'.left = {}
  BY <1>3 DEF Taken, DoFinishStarting, DoFinishStoping, Absent
<1>6. Calm(mail', starting'.left)
  BY <1>1, <1>3, <1>4, CalmTail DEF Taken
<1>7. Taken'
  BY <1>1, <1>3, <1>4, <1>5, <1>6 DEF Taken
<1> QED
  BY <1>7, TakenHeld

LEMMA SentHeld ==
  ASSUME IInv, GroupInv, NEW s \in Service,
         \/ StartDone(s) \/ StartFails(s) \/ Switch(s) \/ StartSingle(s) \/ StopSingle(s)
  PROVE  GroupInv'
<1>1. mail \in Seq(Mail)
  BY InvariantTypes
<1>2. ASSUME NEW ev \in Events, NEW w \in {"answer", "then-stop", NoWaiter},
             mail' = Append(mail, Event(ev, s, w))
      PROVE  Adds(mail, mail')
  <2> DEFINE x == Event(ev, s, w)
  <2>1. x \in Mail /\ \A left : Plain(x, left)
    BY SentPlain
  <2>2. mail' = Append(mail, x)
    BY <1>2
  <2> HIDE DEF x
  <2> QED
    BY <1>1, <2>1, <2>2, AddsEvent
<1>3. \/ \E ev \in Events, w \in {"answer", "then-stop", NoWaiter} :
           mail' = Append(mail, Event(ev, s, w))
      \/ mail' = mail
  BY DEF StartDone, StartFails, Switch, StartSingle, StopSingle, Sends, Tell, Events
<1>4. Adds(mail, mail')
  BY <1>2, <1>3, AddsNothing
<1>5. UNCHANGED <<state, starting, stoping>>
  BY DEF StartDone, StartFails, Switch, StartSingle, StopSingle, Sends, machines, drv
<1>6. \E w \in {"answer", "then-stop", NoWaiter} : SetCallback(s, w) \/ UNCHANGED waiters
  BY DEF StartDone, StartFails, Switch, StartSingle, StopSingle, machines
<1>7. \A w \in {"answer", "then-stop", NoWaiter} :
        w \in Waiters \cup {NoWaiter} /\ w \notin {"start-group", "stop-group"}
  BY DEF Waiters, NoWaiter
<1> QED
  BY <1>4, <1>5, <1>6, <1>7, MoreGroup

LEMMA HandleHeld ==
  ASSUME Restart = {}, IInv, GroupInv, NEW m \in Service, Handle(m)
  PROVE  GroupInv'
<1>1. CASE ~Group(Head(mail))
  BY <1>1, StartTaken, StopTaken, OutcomeTaken, DependStoppedTaken DEF Handle
<1>2. CASE Group(Head(mail))
  <2>1. mail # <<>> /\ mail \in Seq(Mail)
    BY InvariantTypes
       DEF Handle, StartEvent, StopEvent, StartedEvent, SetbackEvent, DependStoppedEvent,
           StoppedEvent, Delivered
  <2>2. Head(mail).ev = "start"
    BY <1>2, <2>1, TailIs DEF GroupInv, Boots
  <2>3. StartEvent(m)
    BY <2>2 DEF Handle, StopEvent, StartedEvent, SetbackEvent, DependStoppedEvent,
                StoppedEvent, Delivered, Setbacks
  <2> QED
    BY <1>2, <2>3, StartTakes
<1> QED
  BY <1>1, <1>2

LEMMA NextHeld == Restart = {} /\ IInv /\ GroupInv /\ [Next]_vars => GroupInv'
<1> SUFFICES ASSUME Restart = {}, IInv, GroupInv, [Next]_vars PROVE GroupInv'
  OBVIOUS
<1>1. CASE Deliver
  BY <1>1, HandleHeld, FinishHeld DEF Deliver
<1>2. ASSUME NEW s \in Service, StartDone(s) \/ StartFails(s) \/ Ask(s) PROVE GroupInv'
  <2>1. ~(\E r \in Restart, timed \in BOOLEAN : RestartService(r, s, timed))
    OBVIOUS
  <2> QED
    BY <1>2, <2>1, SentHeld DEF Ask
<1>3. CASE UNCHANGED vars
  BY <1>3 DEF vars, machines, drv, GroupInv, Boots, Held
<1> QED
  BY <1>1, <1>2, <1>3 DEF Next

\* At first the Deferred of every enabled service is with its "start".
LEMMA InitHeld == Init => GroupInv
<1> SUFFICES ASSUME Init PROVE GroupInv
  OBVIOUS
<1>1. enabled \subseteq Service /\ IsFiniteSet(Service)
  <2>1. PICK n \in Nat : n = Len(Loaded) /\ DOMAIN Loaded = 1 .. n
    OBVIOUS
  <2>2. Loaded \in Surjection(1 .. n, Service)
    BY <2>1 DEF Surjection, Range
  <2>3. IsFiniteSet(1 .. n)
    BY <2>1, FS_Interval
  <2> QED
    BY <2>2, <2>3, FS_Surjection DEF Init
<1>2. PICK order \in SetToSeqs(enabled) :
        mail = [i \in DOMAIN order |-> Event("start", order[i], "start-group")]
  BY DEF Init
<1>3. PICK n \in Nat : n = Cardinality(enabled) /\ IsFiniteSet(enabled)
  BY <1>1, FS_Subset, FS_CardinalityType
<1>4. order \in [1 .. n -> enabled] /\ \A i, j \in 1 .. n : order[i] = order[j] => i = j
  BY <1>2, <1>3 DEF SetToSeqs
<1>5. \A s \in enabled : \E i \in 1 .. n : order[i] = s
  <2>1. order \in Injection(1 .. n, enabled)
    BY <1>4 DEF Injection, IsInjective
  <2>2. Cardinality(1 .. n) = n
    BY <1>3, FS_Interval
  <2>3. order \in Surjection(1 .. n, enabled)
    BY <1>3, <2>1, <2>2, FS_Injection
  <2> QED
    BY <2>3 DEF Surjection
<1>6. /\ DOMAIN mail = 1 .. n
      /\ \A i \in 1 .. n : /\ mail[i].ev = "start" /\ mail[i].cb = "start-group"
                           /\ mail[i].to = order[i] /\ order[i] \in enabled
  BY <1>2, <1>4 DEF Event
<1>7. /\ starting.left = enabled /\ stoping.left = {}
      /\ \A s \in Service : state[s] = "OFF" /\ waiters[s] = <<>>
  BY DEF Init, Absent, Pending
<1>8. \A i \in DOMAIN mail : Boots(mail, i)
  <2>1. \A i \in 1 .. n : Group(mail[i])
    BY <1>6 DEF Group, Events
  <2>2. \A i \in 1 .. n : \A j \in 1 .. i : j \in 1 .. n
    BY <1>3
  <2> QED
    BY <1>1, <1>6, <1>7, <2>1, <2>2 DEF Boots
<1>9. ASSUME NEW s \in Service PROVE Held(s)
  <2>1. InChain(waiters[s]) = {}
    BY <1>7 DEF InChain
  <2>2. ASSUME s \in enabled PROVE One(OnItsWay(mail, s))
    <3>1. PICK i \in 1 .. n : order[i] = s
      BY <1>5, <2>2
    <3>2. \A j \in OnItsWay(mail, s) : j = i
      BY <1>4, <1>6, <3>1 DEF OnItsWay
    <3>3. i \in OnItsWay(mail, s)
      BY <1>6, <3>1 DEF OnItsWay, Events
    <3>4. OnItsWay(mail, s) = {i}
      BY <3>2, <3>3
    <3> QED
      BY <3>4 DEF One
  <2>3. ASSUME s \notin enabled PROVE OnItsWay(mail, s) = {}
    BY <1>6, <2>3 DEF OnItsWay
  <2> QED
    BY <1>7, <2>1, <2>2, <2>3 DEF Held
<1>10. \A s \in Service : NoStop(waiters[s])
  BY <1>7 DEF NoStop
<1> QED
  BY <1>6, <1>7, <1>8, <1>9, <1>10 DEF GroupInv

\* Counted, that is what driver.start() and driver.stop() rely on.
LEMMA Counted == IInv /\ GroupInv => GroupHeld
<1> SUFFICES ASSUME IInv, GroupInv, NEW s \in Service
             PROVE  /\ Holders(s, "start-group") = IF s \in starting.left THEN 1 ELSE 0
                    /\ Holders(s, "stop-group") = IF s \in stoping.left THEN 1 ELSE 0
  BY DEF GroupHeld
<1>1. Holders(s, "start-group") = Cardinality(InChain(waiters[s]))
                                  + Cardinality(OnItsWay(mail, s))
  BY DEF Holders, InChain, OnItsWay
<1>2. Cardinality({}) = 0 /\ \A A : One(A) => Cardinality(A) = 1
  BY FS_EmptySet, FS_Singleton DEF One
<1>3. /\ s \in starting.left =>
           \/ Cardinality(OnItsWay(mail, s)) = 1 /\ Cardinality(InChain(waiters[s])) = 0
           \/ Cardinality(OnItsWay(mail, s)) = 0 /\ Cardinality(InChain(waiters[s])) = 1
      /\ s \notin starting.left =>
           Cardinality(OnItsWay(mail, s)) = 0 /\ Cardinality(InChain(waiters[s])) = 0
  <2>1. Held(s)
    BY DEF GroupInv
  <2> QED
    BY <1>2, <2>1 DEF Held
<1>4. Holders(s, "start-group") = IF s \in starting.left THEN 1 ELSE 0
  BY <1>1, <1>3
<1>5. {i \in DOMAIN waiters[s] : waiters[s][i] = "stop-group"} = {}
  BY DEF GroupInv, NoStop
<1>6. {i \in DOMAIN mail : mail[i].ev \in Events /\ mail[i].to = s
                           /\ mail[i].cb = "stop-group"} = {}
  BY DEF GroupInv, Group, Boots
<1>7. Holders(s, "stop-group") = Cardinality({}) + Cardinality({})
  BY <1>5, <1>6 DEF Holders
<1> QED
  BY <1>2, <1>4, <1>7 DEF GroupInv

\* driver.start(): without a restart every Deferred the driver waits for is held by
\* the machine of its service, or is on its way there, exactly once, whatever
\* fails, is not installed, is switched or stopped while the group starts.
THEOREM GroupsHeld ==
  ASSUME Restart = {}
  PROVE  Spec => []GroupHeld
<1>1. Init => IInv /\ GroupInv
  BY InitInv, InitHeld
<1>2. IInv /\ GroupInv /\ [Next]_vars => (IInv /\ GroupInv)'
  BY NextInv, NextHeld
<1>3. IInv /\ GroupInv => GroupHeld
  BY Counted
<1> QED
  BY <1>1, <1>2, <1>3, PTL DEF Spec

\* Both: neither a machine nor a Deferred of the driver is forgotten on the way.
THEOREM NothingLeftBehind ==
  ASSUME Restart = {}, Sure, Layered
  PROVE  Spec => []NothingForgotten
<1>1. GroupHeld /\ NothingStuck => NothingForgotten
  BY DEF NothingForgotten
<1> QED
  BY <1>1, GroupsHeld, NoneStuck, PTL

=============================================================================
