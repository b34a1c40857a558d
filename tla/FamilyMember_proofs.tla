-------------------------- MODULE FamilyMember_proofs --------------------------
(***************************************************************************)
(* For every number of suppliers, positions and DHT nodes, and with every  *)
(* fault: the types of a family and of the packets between its members,    *)
(* that a record names a supplier only where it was asked to put it, and,  *)
(* for a patient customer, that a member that serves it runs.              *)
(***************************************************************************)
EXTENDS FamilyMember, WellFoundedInduction, SequenceTheorems, TLAPS

USE FamilyAssumption

-----------------------------------------------------------------------------
(* The inductive invariant.  What one machine may hold is said of the      *)
(* values of its variables, so that a chain of handlers is judged by the   *)
(* values it leaves.                                                       *)

Metas == [known : BOOLEAN, pos : 0..Count, snap : Seq(Names)]
Packets == [type : {"review", "ack", "fail", "store"}, from : Supplier,
            to : Supplier \cup Holder \cup {Nobody}, info : Infos, age : Ages]

\* A request is a "join", a "leave" or a "refresh".
Asks(r) == r \in Requests /\ r.cmd # "none"
Busy == {"DHT_READ", "SUPPLIERS", "DHT_WRITE"}

\* A machine reads, reviews and writes for a request; it holds a transaction with
\* a revision while it reviews or writes it; and a closed machine has no requests.
Fine(st, q, c, my, t, att, w, k, rf) ==
    /\ st \in States /\ q \in Seq(Requests) /\ c \in Requests
    /\ my \in Infos /\ t \in Infos
    /\ att \in Nat /\ w \subseteq Supplier /\ k \in 0..MaxRetries /\ rf \subseteq Nat
    /\ Len(q) <= MaxRequests /\ \A i \in DOMAIN q : Asks(q[i])
    /\ st \in Busy => Asks(c)
    /\ t.known <=> st \in {"SUPPLIERS", "DHT_WRITE"}
    /\ t.known => t.rev >= 1
    /\ st = "NONE" => q = <<>> /\ c = NoRequest

Domains ==
    /\ state = [s \in Supplier |-> state[s]]
    /\ requests = [s \in Supplier |-> requests[s]]
    /\ current = [s \in Supplier |-> current[s]]
    /\ mine = [s \in Supplier |-> mine[s]]
    /\ trans = [s \in Supplier |-> trans[s]]
    /\ attempts = [s \in Supplier |-> attempts[s]]
    /\ waiting = [s \in Supplier |-> waiting[s]]
    /\ retries = [s \in Supplier |-> retries[s]]
    /\ refused = [s \in Supplier |-> refused[s]]
MachineIs(s) ==
    Fine(state[s], requests[s], current[s], mine[s], trans[s], attempts[s], waiting[s],
         retries[s], refused[s])
MachinePart == Domains /\ \A s \in Supplier : MachineIs(s)

\* Reviews are between suppliers, and what is stored has a revision.
Fits(m) ==
    /\ m \in Packets
    /\ m.type # "store" => m.to \in Supplier
    /\ m.type = "store" => m.to \in Holder \cup {Nobody} /\ m.info.known /\ m.info.rev >= 1

\* A packet that makes its asker count the answers of the running review.
Counts(m) == m.type = "ack" \/ (m.type = "review" /\ m.age = "now")
NetOK(n) == \A m \in n : Fits(m) /\ (Counts(m) => state[Asker(m)] = "SUPPLIERS")

RecordPart ==
    /\ record \in [Holder -> Infos]
    /\ \A h \in Holder : record[h].known => record[h].rev >= 1

RestPart ==
    /\ running \subseteq Supplier /\ client \subseteq Supplier
    /\ meta \in [Supplier -> Metas]
    /\ hired \in [Position -> Names]
    /\ asked \in 0..MaxCustomer /\ faults \subseteq Fault
    /\ places \in [Supplier -> SUBSET (0..Count)]

\* A machine without a "leave" in hand.
Remains(q, c) == c.cmd # "leave" /\ \A i \in DOMAIN q : q[i].cmd # "leave"

\* Who is hired is served; who serves has no "leave" to process, and a machine
\* when its node is started.
MemberInv ==
    /\ Range(hired) \ {Nobody} \subseteq client
    /\ \A s \in client : Remains(requests[s], current[s])
    /\ \A s \in client \cap running : state[s] # "NONE"

\* A node that is stopped has no machine.
StoppedIsClosed == \A s \in Supplier \ running : state[s] = "NONE"

IInv ==
    /\ MachinePart /\ NetOK(net) /\ RecordPart /\ RestPart /\ StoppedIsClosed
    /\ Patient => MemberInv

-----------------------------------------------------------------------------
(* Lists of suppliers                                                      *)

Lists == Seq(Names)

\* The smallest of some positions.
LEMMA MinProps ==
  ASSUME NEW S, S \subseteq Nat, S # {}
  PROVE  Min(S) \in S
<1> DEFINE R == OpToRel(<, Nat)
<1>1. IsWellFoundedOn(R, Nat)
  BY NatLessThanWellFounded
<1>2. \A k, m \in Nat : k < m => <<k, m>> \in R
  BY DEF OpToRel
<1> HIDE DEF R
<1>3. PICK m \in S : \A k \in S : ~(<<k, m>> \in R)
  BY <1>1, WFMin
<1>4. ASSUME NEW k \in S PROVE m <= k
  <2>1. k \in Nat /\ m \in Nat
    OBVIOUS
  <2>2. ~(k < m)
    BY <1>2, <1>3, <2>1
  <2> QED
    BY <2>1, <2>2
<1> QED
  BY <1>4 DEF Min

\* A position is 0 or one where the supplier is.
LEMMA PositionIs ==
  ASSUME NEW list \in Lists, NEW s
  PROVE  /\ PositionOf(list, s) \in 0..Len(list)
         /\ PositionOf(list, s) # 0 => list[PositionOf(list, s)] = s
<1> DEFINE S == {i \in DOMAIN list : list[i] = s}
<1>1. CASE s \in Range(list)
  <2>1. S # {} /\ S \subseteq Nat
    BY <1>1 DEF Lists, Range
  <2>2. Min(S) \in S
    BY <2>1, MinProps
  <2>3. PositionOf(list, s) = Min(S)
    BY <1>1 DEF PositionOf
  <2> QED
    BY <2>2, <2>3 DEF Lists
<1>2. CASE s \notin Range(list)
  BY <1>2 DEF PositionOf, Lists
<1> QED
  BY <1>1, <1>2

\* A list of names with names at its places is a list of names.
LEMMA ListIs ==
  ASSUME NEW n \in Nat, NEW f \in [1..n -> Names]
  PROVE  f \in Lists
  BY DEF Lists

LEMMA FitIs == \A list \in Lists : Fit(list) \in Lists
  BY ListIs DEF Fit, Lists, Position, Names

\* Putting a supplier somewhere, emptying a place, and filling empty places.
LEMMA ChangeIs ==
  ASSUME NEW list \in Lists, NEW x \in Names, NEW p
  PROVE  [list EXCEPT ![p] = x] \in Lists
<1>1. list \in [1..Len(list) -> Names] /\ Len(list) \in Nat
  BY DEF Lists
<1>2. ASSUME NEW n, NEW f \in [1..n -> Names] PROVE [f EXCEPT ![p] = x] \in [1..n -> Names]
  OBVIOUS
<1>3. [list EXCEPT ![p] = x] \in [1..Len(list) -> Names]
  BY <1>1, <1>2
<1> QED
  BY <1>1, <1>3, ListIs

LEMMA PutIs ==
  ASSUME NEW list \in Lists, NEW s \in Supplier, NEW p
  PROVE  Put(list, s, p) \in Lists
  BY ListIs DEF Put, Lists, Names

LEMMA FillIs ==
  ASSUME NEW list \in Lists, NEW snap \in Lists
  PROVE  FillFrom(list, snap) \in Lists
<1>1. FillFrom(list, snap) \in [1..Len(list) -> Names]
  BY DEF FillFrom, Lists, Names
<1> QED
  BY <1>1, ListIs DEF Lists

LEMMA RangeIs ==
  ASSUME NEW list \in Lists
  PROVE  Range(list) \subseteq Names
  BY DEF Range, Lists

-----------------------------------------------------------------------------
(* Infos and transactions                                                  *)

LEMMA InfoIs ==
  ASSUME NEW rev \in Nat, NEW list \in Lists
  PROVE  /\ Info(rev, list) \in Infos /\ Info(rev, list).known
         /\ Info(rev, list).rev = rev /\ Info(rev, list).list = list
  BY DEF Info, Infos, Lists

LEMMA NoInfoIs == NoInfo \in Infos /\ ~NoInfo.known /\ NoInfo.rev = 0
  BY DEF NoInfo, Infos

LEMMA InfoTypes ==
  ASSUME NEW info \in Infos
  PROVE  info.rev \in Nat /\ info.list \in Lists /\ info.known \in BOOLEAN
  BY DEF Infos, Lists

LEMMA RequestTypes ==
  ASSUME NEW r \in Requests
  PROVE  r.snap \in Lists /\ r.pos \in 0..Count /\ r.known \in BOOLEAN
  BY DEF Requests, Lists

LEMMA MetaTypes ==
  ASSUME RestPart, NEW s \in Supplier
  PROVE  meta[s].snap \in Lists /\ meta[s].pos \in 0..Count /\ meta[s].known \in BOOLEAN
  BY DEF RestPart, Metas, Lists

\* The later of what was read and what is known, with the revision it has.
LEMMA MergedIs ==
  ASSUME NEW dht \in Infos, NEW my \in Infos, NEW r \in Requests
  PROVE  /\ Merged(dht, my, r) \in Infos
         /\ Valid(dht) \/ Valid(my) => Merged(dht, my, r).rev > 0
<1> DEFINE d == IF Valid(dht) THEN dht ELSE NoInfo
           m == IF Valid(my) THEN my ELSE NoInfo
<1>1. d \in Infos /\ m \in Infos
  BY NoInfoIs
<1>2. d.rev \in Nat /\ m.rev \in Nat /\ Fit(d.list) \in Lists /\ Fit(m.list) \in Lists
  BY <1>1, InfoTypes, FitIs
<1>3. Valid(dht) => d.rev >= 1
  BY DEF Valid
<1>4. Valid(my) => m.rev >= 1
  BY DEF Valid
<1>5. Merged(dht, my, r) =
        CASE d.rev = 0 /\ m.rev = 0 -> Info(0, r.snap)
          [] m.rev > d.rev          -> Info(m.rev, Fit(m.list))
          [] OTHER                  -> Info(d.rev, Fit(d.list))
  BY DEF Merged
<1> HIDE DEF d, m
<1>6. CASE d.rev = 0 /\ m.rev = 0
  <2>1. Merged(dht, my, r) = Info(0, r.snap)
    BY <1>2, <1>5, <1>6
  <2> QED
    BY <1>3, <1>4, <1>6, <2>1, InfoIs, RequestTypes
<1>7. CASE ~(d.rev = 0 /\ m.rev = 0) /\ m.rev > d.rev
  <2>1. Merged(dht, my, r) = Info(m.rev, Fit(m.list))
    BY <1>5, <1>7
  <2> QED
    BY <1>2, <1>7, <2>1, InfoIs
<1>8. CASE ~(d.rev = 0 /\ m.rev = 0) /\ ~(m.rev > d.rev)
  <2>1. Merged(dht, my, r) = Info(d.rev, Fit(d.list))
    BY <1>5, <1>8
  <2>2. d.rev > 0
    BY <1>2, <1>8
  <2> QED
    BY <1>2, <2>1, <2>2, InfoIs
<1> QED
  BY <1>6, <1>7, <1>8

LEMMA JoinedIs ==
  ASSUME NEW s \in Supplier, NEW base \in Infos, NEW r \in Requests
  PROVE  Joined(s, base, r) \in Infos
<1> DEFINE list == Fit(base.list)
           placed == IF r.pos > 0 THEN Put(list, s, r.pos)
                     ELSE IF s \in Range(list) THEN list
                     ELSE IF Nobody \in Range(list)
                          THEN [list EXCEPT ![PositionOf(list, Nobody)] = s]
                     ELSE Append(list, s)
<1>1. list \in Lists /\ base.rev \in Nat /\ s \in Names
  BY FitIs, InfoTypes DEF Names
<1>2. Joined(s, base, r) =
        IF base.rev > 0 \/ r.known \/ meta[s].known
        THEN Info(base.rev, FillFrom(placed, r.snap)) ELSE NoInfo
  BY DEF Joined
<1> HIDE DEF list
<1>3. Put(list, s, r.pos) \in Lists
  BY <1>1, PutIs
<1>4. [list EXCEPT ![PositionOf(list, Nobody)] = s] \in Lists
  BY <1>1, ChangeIs
<1>5. Append(list, s) \in Lists
  BY <1>1 DEF Lists
<1>6. placed \in Lists
  BY <1>1, <1>3, <1>4, <1>5
<1> HIDE DEF placed
<1>7. FillFrom(placed, r.snap) \in Lists
  BY <1>6, FillIs, RequestTypes
<1> QED
  BY <1>1, <1>2, <1>7, InfoIs, NoInfoIs

LEMMA LeftIs ==
  ASSUME NEW s \in Supplier, NEW base \in Infos, NEW r \in Requests
  PROVE  /\ Left(s, base, r) \in Infos
         /\ base.rev > 0 => Left(s, base, r).known
<1> DEFINE p == PositionOf(base.list, s)
           list == Fit(base.list)
<1>1. list \in Lists /\ base.rev \in Nat /\ Nobody \in Names
  BY FitIs, InfoTypes DEF Names
<1>2. Left(s, base, r) =
        IF base.rev > 0 \/ r.known
        THEN Info(base.rev, IF p \in Position THEN [list EXCEPT ![p] = Nobody] ELSE list)
        ELSE NoInfo
  BY DEF Left
<1> HIDE DEF list, p
<1>3. [list EXCEPT ![p] = Nobody] \in Lists
  BY <1>1, ChangeIs
<1> QED
  BY <1>1, <1>2, <1>3, InfoIs, NoInfoIs

LEMMA PossibleIs ==
  ASSUME RestPart, NEW s \in Supplier, NEW rev \in Nat
  PROVE  Possible(s, rev) \in Infos
<1>1. meta[s].snap \in Lists /\ s \in Names
  BY MetaTypes DEF Names
<1>2. [meta[s].snap EXCEPT ![meta[s].pos] = s] \in Lists
  BY <1>1, ChangeIs
<1> QED
  BY <1>1, <1>2, InfoIs DEF Possible

LEMMA RefreshedIs ==
  ASSUME NEW s \in Supplier, NEW base \in Infos, NEW my \in Infos
  PROVE  Refreshed(s, base, my) \in Infos
<1>1. Fit(base.list) \in Lists /\ base.rev \in Nat
  BY FitIs, InfoTypes
<1>2. Put(Fit(base.list), s, PositionOf(my.list, s)) \in Lists
  BY <1>1, PutIs
<1> QED
  BY <1>1, <1>2, InfoIs, NoInfoIs DEF Refreshed

\* A transaction is a new revision.
LEMMA IncrementedIs ==
  ASSUME NEW t \in Infos, NEW dht, NEW r
  PROVE  /\ Incremented(t, dht, r) \in Infos
         /\ Incremented(t, dht, r).known => Incremented(t, dht, r).rev >= 1
         /\ t.known /\ r.cmd = "leave" => Incremented(t, dht, r).known
<1>1. t.rev + 1 \in Nat /\ t.rev + 1 >= 1 /\ t.list \in Lists
  BY InfoTypes
<1> QED
  BY <1>1, InfoIs, NoInfoIs DEF Incremented

LEMMA MyInfoIs ==
  ASSUME RestPart, NEW s \in Supplier, NEW base \in Infos, mine[s] \in Infos
  PROVE  MyInfo(s, base) \in Infos
  BY PossibleIs, InfoTypes DEF MyInfo

\* The transaction of a request; a member that leaves a record leaves it by one.
LEMMA RebuiltIs ==
  ASSUME NEW s \in Supplier, NEW dht, NEW base \in Infos, NEW my \in Infos,
         Asks(current[s])
  PROVE  /\ Rebuilt(s, dht, base, my) \in Infos
         /\ Rebuilt(s, dht, base, my).known => Rebuilt(s, dht, base, my).rev >= 1
         /\ current[s].cmd = "leave" /\ base.rev > 0 => Rebuilt(s, dht, base, my).known
<1> DEFINE r == current[s]
           changed == [join |-> Joined(s, base, r), leave |-> Left(s, base, r),
                       refresh |-> Refreshed(s, base, my)]
<1>1. r \in Requests /\ r.cmd \in {"join", "leave", "refresh"}
  BY DEF Asks, Requests
<1>2. Rebuilt(s, dht, base, my) = Incremented(changed[r.cmd], dht, r)
  BY DEF Rebuilt
<1>3. changed[r.cmd] \in Infos /\ (r.cmd = "leave" /\ base.rev > 0 => changed[r.cmd].known)
  <2> HIDE DEF r
  <2>1. CASE r.cmd = "join"
    BY <1>1, <2>1, JoinedIs
  <2>2. CASE r.cmd = "leave"
    BY <1>1, <2>2, LeftIs
  <2>3. CASE r.cmd = "refresh"
    BY <2>3, RefreshedIs
  <2> QED
    BY <1>1, <2>1, <2>2, <2>3
<1> HIDE DEF changed
<1> QED
  BY <1>2, <1>3, IncrementedIs

LEMMA SolvedIs ==
  ASSUME NEW t \in Infos, NEW other \in Supplier, NEW list
  PROVE  /\ Solved(t, other, list) \in Infos
         /\ Solved(t, other, list).known => /\ t.known
                                            /\ Solved(t, other, list).rev = t.rev
<1> DEFINE p == PositionOf(list, other)
           u == [t EXCEPT !.list[p] = other]
<1>1. t.list \in Lists /\ other \in Names
  BY InfoTypes DEF Names
<1> HIDE DEF p
<1>2. [t.list EXCEPT ![p] = other] \in Lists
  BY <1>1, ChangeIs
<1>3. u \in Infos /\ u.rev = t.rev /\ u.known = t.known
  BY <1>2 DEF Infos, Lists
<1>4. Solved(t, other, list) = IF p \in DOMAIN t.list /\ t.list[p] = Nobody THEN u ELSE NoInfo
  BY DEF Solved, p
<1> HIDE DEF u
<1> QED
  BY <1>3, <1>4, NoInfoIs

LEMMA FromAnotherIs ==
  ASSUME NEW s \in Supplier, NEW info \in Infos
  PROVE  FromAnother(s, info) \in Infos
<1> DEFINE u == [info EXCEPT !.list[meta[s].pos] = s]
<1>1. info.list \in Lists /\ s \in Names
  BY InfoTypes DEF Names
<1>2. [info.list EXCEPT ![meta[s].pos] = s] \in Lists
  BY <1>1, ChangeIs
<1>3. u \in Infos
  BY <1>2 DEF Infos, Lists
<1> QED
  BY <1>3 DEF FromAnother

-----------------------------------------------------------------------------
(* The chains of handlers: what one leaves of its machine, and that it     *)
(* leaves the machines of the others alone.                                *)

Becomes(s, st, q, c, my, t, att, w, k, rf) ==
    /\ state' = [state EXCEPT ![s] = st]
    /\ requests' = [requests EXCEPT ![s] = q]
    /\ current' = [current EXCEPT ![s] = c]
    /\ mine' = [mine EXCEPT ![s] = my]
    /\ trans' = [trans EXCEPT ![s] = t]
    /\ attempts' = [attempts EXCEPT ![s] = att]
    /\ waiting' = [waiting EXCEPT ![s] = w]
    /\ retries' = [retries EXCEPT ![s] = k]
    /\ refused' = [refused EXCEPT ![s] = rf]

Untouched(s) ==
    \A u \in Supplier \ {s} :
        /\ state'[u] = state[u] /\ requests'[u] = requests[u] /\ current'[u] = current[u]

\* A machine that has no "leave" gets none and goes on.
Goes(s) ==
    Remains(requests[s], current[s]) =>
        /\ Remains(requests'[s], current'[s])
        /\ state[s] # "NONE" => state'[s] # "NONE"

LEMMA BecomesOK ==
  ASSUME MachinePart, NEW s \in Supplier,
         NEW st, NEW q, NEW c, NEW my, NEW t, NEW att, NEW w, NEW k, NEW rf,
         Fine(st, q, c, my, t, att, w, k, rf),
         Becomes(s, st, q, c, my, t, att, w, k, rf)
  PROVE  /\ MachinePart' /\ Untouched(s)
         /\ state'[s] = st /\ requests'[s] = q /\ current'[s] = c
<1>1. Domains'
  BY DEF MachinePart, Domains, Becomes
<1>2. /\ state'[s] = st /\ requests'[s] = q /\ current'[s] = c
      /\ mine'[s] = my /\ trans'[s] = t /\ attempts'[s] = att
      /\ waiting'[s] = w /\ retries'[s] = k /\ refused'[s] = rf
  BY DEF MachinePart, Domains, Becomes
<1>3. ASSUME NEW u \in Supplier \ {s}
      PROVE  /\ state'[u] = state[u] /\ requests'[u] = requests[u]
             /\ current'[u] = current[u]
             /\ mine'[u] = mine[u] /\ trans'[u] = trans[u] /\ attempts'[u] = attempts[u]
             /\ waiting'[u] = waiting[u] /\ retries'[u] = retries[u]
             /\ refused'[u] = refused[u]
  BY DEF MachinePart, Domains, Becomes
<1>4. MachineIs(s)'
  BY <1>2 DEF MachineIs
<1>5. ASSUME NEW u \in Supplier \ {s} PROVE MachineIs(u)'
  BY <1>3 DEF MachineIs, MachinePart
<1> QED
  BY <1>1, <1>2, <1>3, <1>4, <1>5 DEF MachinePart, Untouched

\* A variable that is not changed keeps its value for s, too.
LEMMA SameIs ==
  ASSUME MachinePart, NEW s \in Supplier
  PROVE  /\ state = [state EXCEPT ![s] = state[s]]
         /\ requests = [requests EXCEPT ![s] = requests[s]]
         /\ current = [current EXCEPT ![s] = current[s]]
         /\ mine = [mine EXCEPT ![s] = mine[s]]
         /\ trans = [trans EXCEPT ![s] = trans[s]]
         /\ attempts = [attempts EXCEPT ![s] = attempts[s]]
         /\ waiting = [waiting EXCEPT ![s] = waiting[s]]
         /\ retries = [retries EXCEPT ![s] = retries[s]]
         /\ refused = [refused EXCEPT ![s] = refused[s]]
  BY DEF MachinePart, Domains

LEMMA MachineTypes ==
  ASSUME MachinePart, NEW s \in Supplier
  PROVE  /\ state[s] \in States /\ requests[s] \in Seq(Requests) /\ current[s] \in Requests
         /\ mine[s] \in Infos /\ trans[s] \in Infos /\ attempts[s] \in Nat
         /\ waiting[s] \subseteq Supplier /\ retries[s] \in 0..MaxRetries
         /\ refused[s] \subseteq Nat
         /\ Len(requests[s]) <= MaxRequests
         /\ \A i \in DOMAIN requests[s] : Asks(requests[s][i])
         /\ state[s] \in Busy => Asks(current[s])
         /\ trans[s].known <=> state[s] \in {"SUPPLIERS", "DHT_WRITE"}
         /\ trans[s].known => trans[s].rev >= 1
         /\ state[s] = "NONE" => requests[s] = <<>> /\ current[s] = NoRequest
  BY DEF MachinePart, MachineIs, Fine

LEMMA NoRequestIs == NoRequest \in Requests /\ NoRequest.cmd = "none"
  BY DEF NoRequest, Req, Requests

\* The packets of a machine whose review or life ends do not count any more.
LEMMA LateOK ==
  ASSUME NEW s \in Supplier, NEW n, NetOK(n), NEW m \in Late(n, s)
  PROVE  Fits(m) /\ (Counts(m) => Asker(m) # s /\ state[Asker(m)] = "SUPPLIERS")
<1>1. PICK a \in n :
        /\ ~(Asker(a) = s /\ (a.type = "ack" \/ (a.type = "fail" /\ "late" = "gone")))
        /\ m = IF Asker(a) = s /\ a.type \in {"review", "fail"} /\ a.age = "now"
               THEN [a EXCEPT !.age = "late"] ELSE a
  BY DEF Late, Aged
<1>2. Fits(a) /\ (Counts(a) => state[Asker(a)] = "SUPPLIERS")
  BY DEF NetOK
<1>3. CASE Asker(a) = s /\ a.type \in {"review", "fail"} /\ a.age = "now"
  <2>1. m = [a EXCEPT !.age = "late"]
    BY <1>1, <1>3
  <2>2. /\ m \in Packets /\ m.type = a.type /\ m.to = a.to /\ m.info = a.info
        /\ m.age = "late"
    BY <1>2, <2>1 DEF Fits, Packets, Ages
  <2> QED
    BY <1>2, <1>3, <2>2 DEF Fits, Counts
<1>4. CASE ~(Asker(a) = s /\ a.type \in {"review", "fail"} /\ a.age = "now")
  <2>1. m = a
    BY <1>1, <1>4
  <2> QED
    BY <1>1, <1>2, <1>4, <2>1 DEF Counts
<1> QED
  BY <1>3, <1>4

LEMMA GoneOK ==
  ASSUME NEW s \in Supplier, NEW n, NetOK(n), NEW m \in Gone(n, s)
  PROVE  Fits(m) /\ (Counts(m) => Asker(m) # s /\ state[Asker(m)] = "SUPPLIERS")
<1>1. PICK a \in n :
        /\ ~(Asker(a) = s /\ (a.type = "ack" \/ (a.type = "fail" /\ "gone" = "gone")))
        /\ m = IF Asker(a) = s THEN [a EXCEPT !.age = "gone"] ELSE a
  BY DEF Gone, Aged
<1>2. Fits(a) /\ (Counts(a) => state[Asker(a)] = "SUPPLIERS")
  BY DEF NetOK
<1>3. CASE Asker(a) = s
  <2>1. m = [a EXCEPT !.age = "gone"]
    BY <1>1, <1>3
  <2>2. /\ m \in Packets /\ m.type = a.type /\ m.to = a.to /\ m.info = a.info
        /\ m.age = "gone"
    BY <1>2, <2>1 DEF Fits, Packets, Ages
  <2> QED
    BY <1>1, <1>2, <1>3, <2>2 DEF Fits, Counts
<1>4. CASE Asker(a) # s
  BY <1>1, <1>2, <1>4
<1> QED
  BY <1>3, <1>4

LEMMA AskerIs ==
  ASSUME NEW m, Fits(m)
  PROVE  Asker(m) \in Supplier
  BY DEF Fits, Asker, Packets

\* What stays on the way when the review of s ends, and the packets e that s sends.
Sends(s, n, e) ==
    /\ net' \subseteq Late(n, s) \cup e \/ net' \subseteq Gone(n, s) \cup e
    /\ \A m \in e : Fits(m) /\ (Counts(m) => Asker(m) = s /\ state'[s] = "SUPPLIERS")

LEMMA NetAfter ==
  ASSUME NEW s \in Supplier, NEW n, NetOK(n), Untouched(s), NEW e, Sends(s, n, e)
  PROVE  NetOK(net)'
<1> USE DEF Sends
<1> SUFFICES ASSUME NEW m \in net'
             PROVE  Fits(m) /\ (Counts(m) => state'[Asker(m)] = "SUPPLIERS")
  BY DEF NetOK, Fits, Counts, Asker, Packets
<1>1. CASE m \in e
  BY <1>1
<1>2. CASE m \notin e
  <2>1. Fits(m) /\ (Counts(m) => Asker(m) # s /\ state[Asker(m)] = "SUPPLIERS")
    BY <1>2, LateOK, GoneOK
  <2>2. Asker(m) \in Supplier
    BY <2>1, AskerIs
  <2> QED
    BY <2>1, <2>2 DEF Untouched
<1> QED
  BY <1>1, <1>2

\* Packets that are on the way while nobody ends a review.
LEMMA NetKept ==
  ASSUME NEW n, NetOK(n), net' \subseteq n,
         \A u \in Supplier : state[u] = "SUPPLIERS" => state'[u] = "SUPPLIERS"
  PROVE  NetOK(net)'
  BY AskerIs DEF NetOK, Fits, Counts, Asker, Packets

LEMMA CloseOK ==
  ASSUME MachinePart, NEW s \in Supplier, NEW n, NetOK(n), Close(s, n)
  PROVE  /\ MachinePart' /\ Untouched(s) /\ NetOK(net)'
         /\ state'[s] = "NONE" /\ requests'[s] = <<>> /\ current'[s] = NoRequest
<1>1. Becomes(s, "NONE", <<>>, NoRequest, NoInfo, NoInfo, 0, {}, 0, {})
  BY DEF Close, Becomes
<1>2. Fine("NONE", <<>>, NoRequest, NoInfo, NoInfo, 0, {}, 0, {})
  BY NoInfoIs, NoRequestIs DEF Fine, States, Busy
<1>3. /\ MachinePart' /\ Untouched(s)
      /\ state'[s] = "NONE" /\ requests'[s] = <<>> /\ current'[s] = NoRequest
  BY <1>1, <1>2, BecomesOK
<1>4. Sends(s, n, {})
  BY DEF Close, Sends
<1> QED
  BY <1>3, <1>4, NetAfter

\* A queue of requests, one of which may be pulled at once.
Queued(q) ==
    /\ q \in Seq(Requests) /\ Len(q) <= MaxRequests + 1
    /\ \A i \in DOMAIN q : Asks(q[i])

LEMMA TailIs ==
  ASSUME NEW q, Queued(q), q # <<>>
  PROVE  /\ Head(q) = q[1] /\ 1 \in DOMAIN q
         /\ Tail(q) \in Seq(Requests) /\ Len(Tail(q)) = Len(q) - 1
         /\ \A i \in DOMAIN Tail(q) : i + 1 \in DOMAIN q /\ Tail(q)[i] = q[i + 1]
  BY DEF Queued

LEMMA ArriveOK ==
  ASSUME MachinePart, NEW s \in Supplier, NEW st \in {"CONNECTED", "DISCONNECTED"},
         NEW q, Queued(q), NEW my \in Infos, Arrive(s, st, q, my)
  PROVE  /\ MachinePart' /\ Untouched(s) /\ state'[s] # "NONE"
         /\ (\A i \in DOMAIN q : q[i].cmd # "leave") => Remains(requests'[s], current'[s])
<1>1. CASE q = <<>>
  <2>1. Becomes(s, st, <<>>, NoRequest, my, NoInfo, 0, {}, 0, {})
    BY <1>1 DEF Arrive, Becomes
  <2>2. Fine(st, <<>>, NoRequest, my, NoInfo, 0, {}, 0, {})
    BY NoInfoIs, NoRequestIs DEF Fine, States, Busy
  <2>3. /\ MachinePart' /\ Untouched(s) /\ state'[s] = st
        /\ requests'[s] = <<>> /\ current'[s] = NoRequest
    BY <2>1, <2>2, BecomesOK
  <2> QED
    BY <2>3, NoRequestIs DEF Remains
<1>2. CASE q # <<>>
  <2>1. Becomes(s, "DHT_READ", Tail(q), Head(q), my, NoInfo, 0, {}, 0, {})
    BY <1>2 DEF Arrive, Becomes
  <2>2. /\ Asks(Head(q)) /\ Tail(q) \in Seq(Requests) /\ Len(Tail(q)) <= MaxRequests
        /\ \A i \in DOMAIN Tail(q) : Asks(Tail(q)[i])
    BY <1>2, TailIs DEF Queued
  <2>3. Fine("DHT_READ", Tail(q), Head(q), my, NoInfo, 0, {}, 0, {})
    BY <2>2, NoInfoIs DEF Fine, States, Busy, Asks
  <2>4. /\ MachinePart' /\ Untouched(s) /\ state'[s] = "DHT_READ"
        /\ requests'[s] = Tail(q) /\ current'[s] = Head(q)
    BY <2>1, <2>3, BecomesOK
  <2> QED
    BY <1>2, <2>4, TailIs DEF Remains
<1> QED
  BY <1>1, <1>2

LEMMA AppendIs ==
  ASSUME NEW q \in Seq(Requests), NEW r \in Requests
  PROVE  /\ Append(q, r) \in Seq(Requests) /\ Len(Append(q, r)) = Len(q) + 1
         /\ \A i \in DOMAIN Append(q, r) :
              \/ i \in DOMAIN q /\ Append(q, r)[i] = q[i]
              \/ Append(q, r)[i] = r
  OBVIOUS

\* A request is queued, or pulled at once by a machine that waits for one.
LEMMA PushOK ==
  ASSUME MachinePart, NEW s \in Supplier, NEW r, Asks(r), NEW my \in Infos,
         state[s] # "NONE", Push(s, r, my),
         Len(requests[s]) < MaxRequests \/ state[s] \in {"CONNECTED", "DISCONNECTED"}
  PROVE  /\ MachinePart' /\ Untouched(s) /\ state'[s] # "NONE"
         /\ r.cmd # "leave" => Goes(s)
         /\ \A u \in Supplier : state[u] = "SUPPLIERS" => state'[u] = "SUPPLIERS"
<1> DEFINE q == Append(requests[s], r)
<1>1. requests[s] \in Seq(Requests) /\ r \in Requests /\ Len(requests[s]) <= MaxRequests
  BY MachineTypes DEF Asks
<1>2. /\ q \in Seq(Requests) /\ Len(q) = Len(requests[s]) + 1
      /\ \A i \in DOMAIN q : (i \in DOMAIN requests[s] /\ q[i] = requests[s][i]) \/ q[i] = r
  BY <1>1, AppendIs
<1>3. \A i \in DOMAIN requests[s] : Asks(requests[s][i])
  BY MachineTypes
<1>4. Queued(q)
  <2> HIDE DEF q
  <2>1. Len(q) <= MaxRequests + 1
    BY <1>1, <1>2, FamilyAssumption
  <2>2. \A i \in DOMAIN q : Asks(q[i])
    BY <1>2, <1>3
  <2> QED  BY <1>2, <2>1, <2>2 DEF Queued
<1>5. r.cmd # "leave" /\ Remains(requests[s], current[s]) =>
        \A i \in DOMAIN q : q[i].cmd # "leave"
  BY <1>2 DEF Remains
<1>6. CASE state[s] \in {"CONNECTED", "DISCONNECTED"}
  <2>1. Arrive(s, state[s], q, my)
    BY <1>6 DEF Push
  <2> HIDE DEF q
  <2>2. /\ MachinePart' /\ Untouched(s) /\ state'[s] # "NONE"
        /\ (\A i \in DOMAIN q : q[i].cmd # "leave") => Remains(requests'[s], current'[s])
    BY <1>4, <1>6, <2>1, ArriveOK
  <2>3. \A u \in Supplier : state[u] = "SUPPLIERS" => state'[u] = "SUPPLIERS"
    BY <1>6, <2>2 DEF Untouched
  <2> QED
    BY <1>5, <2>2, <2>3 DEF Goes
<1>7. CASE state[s] \notin {"CONNECTED", "DISCONNECTED"}
  <2>1. Becomes(s, state[s], q, current[s], my, trans[s], attempts[s], waiting[s],
                retries[s], refused[s])
    BY <1>7, SameIs DEF Push, Becomes
  <2>2. Fine(state[s], q, current[s], my, trans[s], attempts[s], waiting[s],
             retries[s], refused[s])
    <3>1. Len(q) <= MaxRequests
      BY <1>1, <1>2, <1>7
    <3> HIDE DEF q
    <3> QED
      BY <1>4, <3>1, MachineTypes DEF Fine, Queued
  <2> HIDE DEF q
  <2>3. /\ MachinePart' /\ Untouched(s) /\ state'[s] = state[s]
        /\ requests'[s] = q /\ current'[s] = current[s]
    BY <2>1, <2>2, BecomesOK
  <2>4. \A u \in Supplier : state[u] = "SUPPLIERS" => state'[u] = "SUPPLIERS"
    BY <2>3 DEF Untouched
  <2>5. r.cmd # "leave" => Goes(s)
    BY <1>5, <2>3 DEF Goes, Remains
  <2> QED
    BY <2>3, <2>4, <2>5
<1> QED
  BY <1>6, <1>7

\* A transaction is sent to the holders.
LEMMA WriteOK ==
  ASSUME MachinePart, RecordPart, NEW s \in Supplier, state[s] \in Busy,
         NEW info \in Infos, info.known, info.rev >= 1, NEW my \in Infos,
         NEW att \in Nat, NEW k \in 0..MaxRetries, NEW n, NetOK(n),
         Write(s, info, my, att, k, n)
  PROVE  MachinePart' /\ Untouched(s) /\ Goes(s) /\ NetOK(net)' /\ RecordPart'
<1> DEFINE own == OwnHolder[s]
           e == {Packet("store", s, h, info, "now") : h \in Holder \cup {Nobody}}
<1>1. Becomes(s, "DHT_WRITE", requests[s], current[s], my, info, att, {}, k, {})
  BY SameIs DEF Write, Becomes
<1>2. Fine("DHT_WRITE", requests[s], current[s], my, info, att, {}, k, {})
  BY MachineTypes DEF Fine, States, Busy
<1>3. /\ MachinePart' /\ Untouched(s) /\ state'[s] = "DHT_WRITE"
      /\ requests'[s] = requests[s] /\ current'[s] = current[s]
  BY <1>1, <1>2, BecomesOK
<1>4. Goes(s)
  BY <1>3 DEF Goes
<1>5. RecordPart'
  BY DEF Write, RecordPart
<1>6. net' \subseteq Late(n, s) \cup e
  BY DEF Write
<1>7. \A m \in e : Fits(m) /\ ~Counts(m)
  <2> SUFFICES ASSUME NEW h \in Holder \cup {Nobody},
                      NEW m, m = Packet("store", s, h, info, "now")
               PROVE  Fits(m) /\ ~Counts(m)
    OBVIOUS
  <2> QED
    BY DEF Packet, Fits, Packets, Ages, Counts
<1> HIDE DEF e
<1>8. NetOK(net)'
  <2>1. Sends(s, n, e)
    BY <1>6, <1>7 DEF Sends
  <2> QED
    BY <1>3, <2>1, NetAfter
<1> QED
  BY <1>3, <1>4, <1>5, <1>8

\* A member that leaves is closed; another one takes its next request.
LEMMA ConnectOK ==
  ASSUME MachinePart, NEW s \in Supplier, NEW my \in Infos, NEW n, NetOK(n),
         Connect(s, my, n)
  PROVE  MachinePart' /\ Untouched(s) /\ Goes(s) /\ NetOK(net)'
<1>1. CASE IsLeaving(s)
  <2>1. Close(s, n)
    BY <1>1 DEF Connect
  <2> QED
    BY <1>1, <2>1, CloseOK DEF Goes, Remains, IsLeaving
<1>2. CASE ~IsLeaving(s)
  <2>1. Arrive(s, "CONNECTED", requests[s], my) /\ Sends(s, n, {})
    BY <1>2 DEF Connect, Sends
  <2>2. Queued(requests[s])
    BY MachineTypes DEF Queued
  <2>3. MachinePart' /\ Untouched(s) /\ Goes(s)
    BY <2>1, <2>2, ArriveOK DEF Goes, Remains
  <2>4. NetOK(net)'
    BY <2>1, <2>3, NetAfter
  <2> QED
    BY <2>3, <2>4
<1> QED
  BY <1>1, <1>2

LEMMA AskOK ==
  ASSUME MachinePart, RecordPart, NEW s \in Supplier, state[s] \in Busy,
         NEW info \in Infos, info.known => info.rev >= 1, NEW my \in Infos,
         NEW att \in Nat, NEW n, NetOK(n), Ask(s, info, my, att, n)
  PROVE  MachinePart' /\ Untouched(s) /\ Goes(s) /\ NetOK(net)' /\ RecordPart'
<1> DEFINE others == Range(info.list) \ {s, Nobody}
           e == {Packet("review", s, o, info, "now") : o \in others}
<1>0. others \subseteq Supplier
  BY InfoTypes, RangeIs DEF Names
<1>1. CASE ~info.known
  <2>1. Connect(s, my, n) /\ UNCHANGED record
    BY <1>1 DEF Ask
  <2> QED
    BY <2>1, ConnectOK DEF RecordPart
<1>2. CASE info.known /\ others = {}
  <2>1. Write(s, info, my, att, 0, n)
    BY <1>2 DEF Ask
  <2> QED
    BY <1>2, <2>1, WriteOK
<1>3. CASE info.known /\ others # {}
  <2>1. /\ state' = [state EXCEPT ![s] = "SUPPLIERS"]
        /\ trans' = [trans EXCEPT ![s] = info]
        /\ mine' = [mine EXCEPT ![s] = my]
        /\ attempts' = [attempts EXCEPT ![s] = att]
        /\ waiting' = [waiting EXCEPT ![s] = others]
        /\ net' = Late(n, s) \cup e
        /\ UNCHANGED <<requests, current, retries, refused, record>>
    BY <1>3 DEF Ask
  <2> HIDE DEF others
  <2>2. Becomes(s, "SUPPLIERS", requests[s], current[s], my, info, att, others,
                retries[s], refused[s])
    BY <2>1, SameIs DEF Becomes
  <2>3. Fine("SUPPLIERS", requests[s], current[s], my, info, att, others,
             retries[s], refused[s])
    BY <1>0, <1>3, MachineTypes DEF Fine, States, Busy
  <2>4. /\ MachinePart' /\ Untouched(s) /\ state'[s] = "SUPPLIERS"
        /\ requests'[s] = requests[s] /\ current'[s] = current[s]
    BY <2>2, <2>3, BecomesOK
  <2>5. \A m \in e : Fits(m) /\ Asker(m) = s
    <3> SUFFICES ASSUME NEW o \in Supplier, NEW m, m = Packet("review", s, o, info, "now")
                 PROVE  Fits(m) /\ Asker(m) = s
      BY <1>0
    <3> QED
      BY DEF Packet, Fits, Packets, Ages, Asker
  <2> HIDE DEF e
  <2>6. NetOK(net)'
    <3>1. Sends(s, n, e)
      BY <2>1, <2>4, <2>5 DEF Sends
    <3> QED
      BY <2>4, <3>1, NetAfter
  <2> QED
    BY <2>1, <2>4, <2>6 DEF RecordPart, Goes
<1> QED
  BY <1>1, <1>2, <1>3

-----------------------------------------------------------------------------
(* The actions of a machine                                                *)

LEMMA PartsInv ==
  ASSUME MachinePart', NetOK(net)', RecordPart', RestPart', StoppedIsClosed',
         Patient => MemberInv'
  PROVE  IInv'
  BY DEF IInv

LEMMA MemberKept ==
  ASSUME Patient => MemberInv, NEW s \in Supplier, Untouched(s), Goes(s),
         UNCHANGED <<running, client, hired>>, client \subseteq Supplier
  PROVE  Patient => MemberInv'
<1> SUFFICES ASSUME MemberInv PROVE MemberInv'
  OBVIOUS
<1>1. ASSUME NEW u \in client
      PROVE  /\ Remains(requests'[u], current'[u])
             /\ u \in running => state'[u] # "NONE"
  <2>1. Remains(requests[u], current[u]) /\ (u \in running => state[u] # "NONE")
    BY DEF MemberInv
  <2>2. CASE u = s
    BY <2>1, <2>2 DEF Goes
  <2>3. CASE u # s
    BY <2>1, <2>3 DEF Untouched
  <2> QED
    BY <2>2, <2>3
<1> QED
  BY <1>1 DEF MemberInv, Remains, Range

LEMMA StoppedKept ==
  ASSUME StoppedIsClosed, NEW s \in Supplier, Untouched(s), UNCHANGED running,
         s \in running \/ (state[s] = "NONE" => state'[s] = "NONE")
  PROVE  StoppedIsClosed'
  BY DEF StoppedIsClosed, Untouched

\* A step of the machine of s that changes nothing of the customer and the nodes.
LEMMA Handled ==
  ASSUME IInv, NEW s \in Supplier, MachinePart', Untouched(s), Goes(s), NetOK(net)',
         RecordPart', UNCHANGED <<stored, customer>>, faults' \subseteq Fault,
         state[s] = "NONE" => state'[s] = "NONE"
  PROVE  IInv'
<1>1. RestPart'
  BY DEF IInv, RestPart, stored, customer
<1>2. UNCHANGED <<running, client, hired>> /\ client \subseteq Supplier
  BY DEF IInv, RestPart, stored, customer
<1>3. Patient => MemberInv'
  BY <1>2, MemberKept DEF IInv
<1>4. StoppedIsClosed'
  BY <1>2, StoppedKept DEF IInv
<1> QED
  BY <1>1, <1>3, <1>4, PartsInv

LEMMA FaultsKept ==
  ASSUME RestPart, NoFault \/ \E kind \in {"lost", "silent", "read", "expired", "stop"} : Happens(kind)
  PROVE  faults' \subseteq Fault
  BY DEF RestPart, NoFault, Happens

\* A step that leaves all machines alone.
LEMMA MachineStutter ==
  ASSUME MachinePart, UNCHANGED machine
  PROVE  /\ MachinePart'
         /\ \A s \in Supplier : Untouched(s) /\ Goes(s)
         /\ \A u \in Supplier : state'[u] = state[u]
  BY DEF MachinePart, Domains, MachineIs, machine, Untouched, Goes

LEMMA ReadAnsweredOK ==
  ASSUME IInv, NEW s \in Supplier, NEW dht \in Infos, dht.known => Valid(dht),
         NEW n, NetOK(n), ReadAnswered(s, dht, n)
  PROVE  /\ MachinePart' /\ Untouched(s) /\ Goes(s) /\ NetOK(net)' /\ RecordPart'
         /\ UNCHANGED <<stored, customer>> /\ state[s] # "NONE"
<1> DEFINE base == Merged(dht, mine[s], current[s])
           my == MyInfo(s, base)
           t == Rebuilt(s, dht, base, my)
<1>1. MachinePart /\ RecordPart /\ RestPart
  BY DEF IInv
<1>2. state[s] = "DHT_READ" /\ state[s] \in Busy /\ UNCHANGED <<stored, customer>>
  BY DEF ReadAnswered, Busy
<1>3. mine[s] \in Infos /\ Asks(current[s]) /\ attempts[s] \in Nat /\ attempts[s] + 1 \in Nat
  BY <1>1, <1>2, MachineTypes
<1>4. base \in Infos /\ (dht.known => base.rev > 0)
  BY <1>3, MergedIs DEF Asks
<1>5. CASE IsMyPositionOK(s, dht) /\ ~IsLeaving(s)
  <2>1. Connect(s, mine[s], n) /\ UNCHANGED record
    BY <1>5 DEF ReadAnswered
  <2>2. MachinePart' /\ Untouched(s) /\ Goes(s) /\ NetOK(net)'
    BY <1>1, <1>3, <2>1, ConnectOK
  <2> QED
    BY <1>1, <1>2, <2>1, <2>2 DEF RecordPart
<1>6. CASE IsMyPositionOK(s, dht) /\ IsLeaving(s)
  <2>1. Write(s, t, my, attempts[s], 0, n)
    BY <1>6 DEF ReadAnswered
  <2> HIDE DEF base
  <2>2. my \in Infos
    BY <1>1, <1>3, <1>4, MyInfoIs
  <2> HIDE DEF my
  <2>3. t \in Infos /\ t.known /\ t.rev >= 1
    BY <1>3, <1>4, <1>6, <2>2, RebuiltIs DEF IsMyPositionOK, IsLeaving
  <2> HIDE DEF t
  <2>4. 0 \in 0..MaxRetries
    OBVIOUS
  <2> QED
    BY <1>1, <1>2, <1>3, <2>1, <2>2, <2>3, <2>4, WriteOK
<1>7. CASE ~IsMyPositionOK(s, dht)
  <2>1. Ask(s, t, my, attempts[s] + 1, n)
    BY <1>7 DEF ReadAnswered
  <2> HIDE DEF base
  <2>2. my \in Infos
    BY <1>1, <1>3, <1>4, MyInfoIs
  <2> HIDE DEF my
  <2>3. t \in Infos /\ (t.known => t.rev >= 1)
    BY <1>3, <1>4, <2>2, RebuiltIs
  <2> HIDE DEF t
  <2> QED
    BY <1>1, <1>2, <1>3, <2>1, <2>2, <2>3, AskOK
<1> QED
  BY <1>5, <1>6, <1>7

LEMMA ReadExistInv == \A s \in Supplier : IInv /\ ReadExist(s) => IInv'
<1> SUFFICES ASSUME NEW s \in Supplier, IInv, ReadExist(s) PROVE IInv'
  OBVIOUS
<1>1. PICK h \in Holder, g \in Holder \cup {Nobody} :
        /\ record[h].known /\ Len(record[h].list) > 0
        /\ ReadAnswered(s, record[h],
               net \cup IF g = Nobody THEN {} ELSE {Packet("store", s, g, record[h], "gone")})
        /\ NoFault
  BY DEF ReadExist
<1> DEFINE p == Packet("store", s, g, record[h], "gone")
           n == net \cup IF g = Nobody THEN {} ELSE {p}
<1>2. record[h] \in Infos /\ record[h].rev >= 1 /\ Len(record[h].list) \in Nat
  BY <1>1 DEF IInv, RecordPart, Infos
<1>3. Valid(record[h])
  BY <1>1, <1>2 DEF Valid
<1>4. Fits(p) /\ ~Counts(p)
  BY <1>1, <1>2 DEF Packet, Fits, Packets, Ages, Counts
<1> HIDE DEF p
<1>5. NetOK(n)
  BY <1>4 DEF NetOK, IInv
<1>6. ReadAnswered(s, record[h], n)
  BY <1>1 DEF p
<1> HIDE DEF n
<1>7. /\ MachinePart' /\ Untouched(s) /\ Goes(s) /\ NetOK(net)' /\ RecordPart'
      /\ UNCHANGED <<stored, customer>> /\ state[s] # "NONE"
  BY <1>2, <1>3, <1>5, <1>6, ReadAnsweredOK
<1>8. faults' \subseteq Fault
  BY <1>1, FaultsKept DEF IInv
<1> QED
  BY <1>7, <1>8, Handled

LEMMA ReadNotExistInv == \A s \in Supplier : IInv /\ ReadNotExist(s) => IInv'
<1> SUFFICES ASSUME NEW s \in Supplier, IInv, ReadNotExist(s) PROVE IInv'
  OBVIOUS
<1>1. ReadAnswered(s, NoInfo, net) /\ NetOK(net)
  BY DEF ReadNotExist, IInv
<1>2. /\ MachinePart' /\ Untouched(s) /\ Goes(s) /\ NetOK(net)' /\ RecordPart'
      /\ UNCHANGED <<stored, customer>> /\ state[s] # "NONE"
  BY <1>1, NoInfoIs, ReadAnsweredOK
<1>3. faults' \subseteq Fault
  BY FaultsKept DEF IInv, ReadNotExist
<1> QED
  BY <1>2, <1>3, Handled

LEMMA ReadFailInv == \A s \in Supplier : IInv /\ ReadFail(s) => IInv'
<1> SUFFICES ASSUME NEW s \in Supplier, IInv, ReadFail(s) PROVE IInv'
  OBVIOUS
<1>1. /\ state[s] = "DHT_READ" /\ Arrive(s, "DISCONNECTED", requests[s], mine[s])
      /\ UNCHANGED <<stored, record, net, customer>>
  BY DEF ReadFail
<1>2. MachinePart /\ NetOK(net) /\ RecordPart
  BY DEF IInv
<1>3. Queued(requests[s]) /\ mine[s] \in Infos
  BY <1>2, MachineTypes DEF Queued
<1>4. MachinePart' /\ Untouched(s) /\ Goes(s)
  BY <1>1, <1>2, <1>3, ArriveOK DEF Goes, Remains
<1>5. \A u \in Supplier : state[u] = "SUPPLIERS" => state'[u] = "SUPPLIERS"
  BY <1>1, <1>4 DEF Untouched
<1>6. NetOK(net)'
  BY <1>1, <1>2, <1>5, NetKept
<1>7. faults' \subseteq Fault
  BY FaultsKept DEF IInv, ReadFail
<1>8. RecordPart'
  BY <1>1, <1>2 DEF RecordPart
<1> QED
  BY <1>1, <1>4, <1>6, <1>7, <1>8, Handled

\* The transaction is written when all suppliers agree, or in time.
LEMMA AgreedInv ==
  ASSUME IInv, NEW s \in Supplier, state[s] = "SUPPLIERS", Agreed(s),
         UNCHANGED <<stored, customer, faults>>
  PROVE  IInv'
<1>1. MachinePart /\ RecordPart /\ NetOK(net) /\ faults \subseteq Fault
  BY DEF IInv, RestPart
<1>2. /\ trans[s] \in Infos /\ trans[s].known /\ trans[s].rev >= 1 /\ mine[s] \in Infos
      /\ attempts[s] \in Nat /\ 0 \in 0..MaxRetries /\ state[s] \in Busy
  BY <1>1, MachineTypes DEF Busy
<1>3. Write(s, trans[s], mine[s], attempts[s], 0, net)
  BY DEF Agreed
<1>4. MachinePart' /\ Untouched(s) /\ Goes(s) /\ NetOK(net)' /\ RecordPart'
  BY <1>1, <1>2, <1>3, WriteOK
<1> QED
  BY <1>1, <1>4, Handled

\* What says of a packet that is delivered who it is for.
LEMMA DeliveredIs ==
  ASSUME IInv, NEW m \in net
  PROVE  /\ Fits(m) /\ m \in Packets /\ m.from \in Supplier /\ m.info \in Infos /\ m.age \in Ages
         /\ m.type # "store" => m.to \in Supplier
         /\ m.type = "store" => m.to \in Holder \cup {Nobody} /\ m.info.known /\ m.info.rev >= 1
         /\ Counts(m) => state[Asker(m)] = "SUPPLIERS"
  BY DEF IInv, NetOK, Fits, Packets

LEMMA ReceiveAckInv == \A m \in net : IInv /\ ReceiveAck(m) => IInv'
<1> SUFFICES ASSUME NEW m \in net, IInv, ReceiveAck(m) PROVE IInv'
  OBVIOUS
<1> DEFINE s == m.to
           left == waiting[s] \ {m.from}
<1>1. s \in Supplier /\ state[s] = "SUPPLIERS" /\ UNCHANGED <<stored, customer, faults>>
  BY DeliveredIs DEF ReceiveAck, Counts, Asker
<1>2. CASE left = {}
  <2>1. Agreed(s)
    BY <1>2 DEF ReceiveAck
  <2> HIDE DEF s
  <2> QED
    BY <1>1, <2>1, AgreedInv
<1>3. CASE left # {}
  <2>1. /\ waiting' = [waiting EXCEPT ![s] = left]
        /\ net' = net \ {m}
        /\ UNCHANGED <<state, requests, current, mine, trans, attempts, retries, refused,
                       record>>
    BY <1>3 DEF ReceiveAck, Drop
  <2> HIDE DEF s
  <2>2. MachinePart /\ NetOK(net) /\ RecordPart /\ faults \subseteq Fault
    BY DEF IInv, RestPart
  <2>3. left \subseteq Supplier
    BY <1>1, <2>2, MachineTypes
  <2> HIDE DEF left
  <2>4. Becomes(s, state[s], requests[s], current[s], mine[s], trans[s], attempts[s], left,
                retries[s], refused[s])
    BY <1>1, <2>1, <2>2, SameIs DEF Becomes
  <2>5. Fine(state[s], requests[s], current[s], mine[s], trans[s], attempts[s], left,
             retries[s], refused[s])
    BY <1>1, <2>2, <2>3, MachineTypes DEF Fine
  <2>6. MachinePart' /\ Untouched(s)
    BY <1>1, <2>2, <2>4, <2>5, BecomesOK
  <2>7. Goes(s) /\ RecordPart'
    BY <2>1, <2>2 DEF Goes, RecordPart
  <2>8. NetOK(net)'
    BY <2>1, <2>2, NetKept
  <2> QED
    BY <1>1, <2>2, <2>6, <2>7, <2>8, Handled
<1> QED
  BY <1>2, <1>3

LEMMA ReceiveFailInv == \A m \in net : IInv /\ ReceiveFail(m) => IInv'
<1> SUFFICES ASSUME NEW m \in net, IInv, ReceiveFail(m) PROVE IInv'
  OBVIOUS
<1> DEFINE s == m.to
           t == Solved(trans[s], m.from, m.info.list)
<1>1. s \in Supplier /\ m.from \in Supplier /\ UNCHANGED <<stored, customer, faults>>
  BY DeliveredIs DEF ReceiveFail
<1>2. MachinePart /\ NetOK(net) /\ RecordPart /\ faults \subseteq Fault
  BY DEF IInv, RestPart
<1>3. CASE state[s] = "SUPPLIERS"
  <2>1. Ask(s, t, mine[s], attempts[s], net \ {m})
    BY <1>3 DEF ReceiveFail
  <2> HIDE DEF s
  <2>2. /\ trans[s] \in Infos /\ (trans[s].known => trans[s].rev >= 1) /\ mine[s] \in Infos
        /\ attempts[s] \in Nat /\ state[s] \in Busy
    BY <1>1, <1>2, <1>3, MachineTypes DEF Busy
  <2>3. t \in Infos /\ (t.known => t.rev >= 1)
    BY <1>1, <2>2, SolvedIs
  <2> HIDE DEF t
  <2>4. NetOK(net \ {m})
    BY <1>2 DEF NetOK
  <2>5. MachinePart' /\ Untouched(s) /\ Goes(s) /\ NetOK(net)' /\ RecordPart'
    BY <1>1, <1>2, <2>1, <2>2, <2>3, <2>4, AskOK
  <2> QED
    BY <1>1, <1>2, <1>3, <2>5, Handled
<1>4. CASE state[s] # "SUPPLIERS"
  <2>1. net' = net \ {m} /\ UNCHANGED <<machine, record>>
    BY <1>4 DEF ReceiveFail, Drop
  <2> HIDE DEF s
  <2>2. /\ MachinePart' /\ Untouched(s) /\ Goes(s)
        /\ \A u \in Supplier : state'[u] = state[u]
    BY <1>1, <1>2, <2>1, MachineStutter
  <2>3. NetOK(net)' /\ RecordPart'
    BY <1>2, <2>1, <2>2, NetKept DEF RecordPart
  <2> QED
    BY <1>1, <1>2, <2>2, <2>3, Handled
<1> QED
  BY <1>3, <1>4

LEMMA StoreArrivesInv == \A m \in net, b \in BOOLEAN : IInv /\ StoreArrives(m, b) => IInv'
<1> SUFFICES ASSUME NEW m \in net, NEW b \in BOOLEAN, IInv, StoreArrives(m, b) PROVE IInv'
  OBVIOUS
<1> DEFINE h == m.to
           s == m.from
           rf == IF Accepts(h, m.info) \/ m.age = "gone" \/ ~b THEN refused[s]
                 ELSE refused[s] \cup {record[h].rev}
<1>1. /\ h \in Holder /\ s \in Supplier
      /\ m.info \in Infos /\ m.info.known /\ m.info.rev >= 1
  BY DeliveredIs DEF StoreArrives
<1>2. MachinePart /\ NetOK(net) /\ RecordPart /\ RestPart
  BY DEF IInv
<1>3. record[h].rev \in Nat
  BY <1>1, <1>2, InfoTypes DEF RecordPart
<1>4. rf \subseteq Nat
  BY <1>1, <1>2, <1>3, MachineTypes
<1>5. Becomes(s, state[s], requests[s], current[s], mine[s], trans[s], attempts[s], waiting[s],
              retries[s], rf)
  BY <1>1, <1>2, SameIs DEF Becomes, StoreArrives
<1> HIDE DEF rf
<1>6. Fine(state[s], requests[s], current[s], mine[s], trans[s], attempts[s], waiting[s],
           retries[s], rf)
  BY <1>1, <1>2, <1>4, MachineTypes DEF Fine
<1>7. MachinePart' /\ Untouched(s)
  BY <1>1, <1>2, <1>5, <1>6, BecomesOK
<1>8. /\ net' = net \ {m} /\ UNCHANGED <<state, requests, current, stored, customer>>
      /\ record' = IF Accepts(h, m.info) THEN [record EXCEPT ![h] = m.info] ELSE record
  BY DEF StoreArrives, Drop
<1>9. RecordPart'
  BY <1>1, <1>2, <1>8 DEF RecordPart
<1>10. Goes(s)
  BY <1>8 DEF Goes
<1>11. NetOK(net)'
  BY <1>2, <1>8, NetKept
<1>12. faults' \subseteq Fault
  BY <1>2, FaultsKept DEF StoreArrives
<1> QED
  BY <1>1, <1>7, <1>8, <1>9, <1>10, <1>11, <1>12, Handled

LEMMA LoseInv == \A m \in net : IInv /\ Lose(m) => IInv'
<1> SUFFICES ASSUME NEW m \in net, IInv, Lose(m) PROVE IInv'
  OBVIOUS
<1>1. m.from \in Supplier
  BY DeliveredIs
<1>2. net' = net \ {m} /\ UNCHANGED <<machine, stored, record, customer>>
  BY DEF Lose, Drop
<1>3. MachinePart /\ NetOK(net) /\ RecordPart /\ RestPart
  BY DEF IInv
<1>4. /\ MachinePart' /\ Untouched(m.from) /\ Goes(m.from)
      /\ \A u \in Supplier : state'[u] = state[u]
  BY <1>1, <1>2, <1>3, MachineStutter
<1>5. NetOK(net)' /\ RecordPart'
  BY <1>2, <1>3, <1>4, NetKept DEF RecordPart
<1>6. faults' \subseteq Fault
  BY <1>3, FaultsKept DEF Lose
<1> QED
  BY <1>1, <1>2, <1>4, <1>5, <1>6, Handled

LEMMA WriteEndsInv ==
  \A s \in Supplier : IInv /\ (WriteDone(s) \/ WriteAgain(s) \/ WriteFailed(s)) => IInv'
<1> SUFFICES ASSUME NEW s \in Supplier, IInv,
                    WriteDone(s) \/ WriteAgain(s) \/ WriteFailed(s)
             PROVE  IInv'
  OBVIOUS
<1>1. MachinePart /\ NetOK(net) /\ RecordPart /\ faults \subseteq Fault
  BY DEF IInv, RestPart
<1>2. /\ state[s] = "DHT_WRITE" /\ state[s] \in Busy
      /\ UNCHANGED <<stored, customer, faults>>
  BY DEF WriteDone, WriteAgain, WriteFailed, Busy
<1>3. trans[s] \in Infos /\ mine[s] \in Infos /\ attempts[s] \in Nat
  BY <1>1, MachineTypes
<1>4. CASE WriteDone(s)
  <2>1. Connect(s, trans[s], net) /\ UNCHANGED record
    BY <1>4 DEF WriteDone
  <2>2. MachinePart' /\ Untouched(s) /\ Goes(s) /\ NetOK(net)'
    BY <1>1, <1>3, <2>1, ConnectOK
  <2>3. RecordPart'
    BY <1>1, <2>1 DEF RecordPart
  <2> QED
    BY <1>1, <1>2, <2>2, <2>3, Handled
<1>5. CASE WriteAgain(s)
  <2>1. PICK rev \in refused[s] :
          Write(s, Info(rev + 1, trans[s].list), mine[s], attempts[s], retries[s] + 1, net)
    BY <1>5 DEF WriteAgain
  <2>2. rev \in Nat /\ retries[s] \in 0..MaxRetries
    BY <1>1, MachineTypes
  <2>3. rev + 1 \in Nat /\ rev + 1 >= 1 /\ retries[s] + 1 \in 0..MaxRetries
    BY <1>5, <2>2 DEF WriteAgain
  <2> DEFINE t == Info(rev + 1, trans[s].list)
  <2>4. t \in Infos /\ t.known /\ t.rev >= 1
    BY <1>3, <2>3, InfoIs, InfoTypes
  <2> HIDE DEF t
  <2>5. Write(s, t, mine[s], attempts[s], retries[s] + 1, net)
    BY <2>1 DEF t
  <2>6. MachinePart' /\ Untouched(s) /\ Goes(s) /\ NetOK(net)' /\ RecordPart'
    BY <1>1, <1>2, <1>3, <2>3, <2>4, <2>5, WriteOK
  <2> QED
    BY <1>1, <1>2, <2>6, Handled
<1>6. CASE WriteFailed(s)
  <2>1. UNCHANGED record /\ RecordPart'
    BY <1>1, <1>6 DEF WriteFailed, RecordPart
  <2>2. CASE IsLeaving(s)
    <3>1. Close(s, net)
      BY <1>6, <2>2 DEF WriteFailed
    <3>2. MachinePart' /\ Untouched(s) /\ NetOK(net)'
      BY <1>1, <3>1, CloseOK
    <3>3. Goes(s)
      BY <2>2 DEF Goes, Remains, IsLeaving
    <3> QED
      BY <1>1, <1>2, <2>1, <3>2, <3>3, Handled
  <2>3. CASE ~IsLeaving(s) /\ attempts[s] > MaxAttempts
    <3>1. Arrive(s, "DISCONNECTED", requests[s], mine[s]) /\ UNCHANGED net
      BY <1>6, <2>3 DEF WriteFailed
    <3>2. Queued(requests[s])
      BY <1>1, MachineTypes DEF Queued
    <3>3. MachinePart' /\ Untouched(s) /\ Goes(s)
      BY <1>1, <1>3, <3>1, <3>2, ArriveOK DEF Goes, Remains
    <3>4. \A u \in Supplier : state[u] = "SUPPLIERS" => state'[u] = "SUPPLIERS"
      BY <1>2, <3>3 DEF Untouched
    <3>5. NetOK(net)'
      BY <1>1, <3>1, <3>4, NetKept
    <3> QED
      BY <1>1, <1>2, <2>1, <3>3, <3>5, Handled
  <2>4. CASE ~IsLeaving(s) /\ ~(attempts[s] > MaxAttempts)
    <3>1. /\ state' = [state EXCEPT ![s] = "DHT_READ"]
          /\ trans' = [trans EXCEPT ![s] = NoInfo]
          /\ retries' = [retries EXCEPT ![s] = 0]
          /\ refused' = [refused EXCEPT ![s] = {}]
          /\ UNCHANGED <<requests, current, mine, attempts, waiting, net>>
      BY <1>6, <2>4 DEF WriteFailed
    <3>2. Becomes(s, "DHT_READ", requests[s], current[s], mine[s], NoInfo, attempts[s],
                  waiting[s], 0, {})
      BY <1>1, <3>1, SameIs DEF Becomes
    <3>3. Fine("DHT_READ", requests[s], current[s], mine[s], NoInfo, attempts[s],
               waiting[s], 0, {})
      BY <1>1, <1>2, MachineTypes, NoInfoIs DEF Fine, States, Busy
    <3>4. /\ MachinePart' /\ Untouched(s) /\ state'[s] = "DHT_READ"
          /\ requests'[s] = requests[s] /\ current'[s] = current[s]
      BY <1>1, <3>2, <3>3, BecomesOK
    <3>5. \A u \in Supplier : state[u] = "SUPPLIERS" => state'[u] = "SUPPLIERS"
      BY <1>2, <3>4 DEF Untouched
    <3>6. NetOK(net)' /\ Goes(s)
      BY <1>1, <3>1, <3>4, <3>5, NetKept DEF Goes
    <3> QED
      BY <1>1, <1>2, <2>1, <3>4, <3>6, Handled
  <2> QED
    BY <2>2, <2>3, <2>4
<1> QED
  BY <1>4, <1>5, <1>6

LEMMA RefreshIs == Asks(Refresh) /\ Refresh.cmd # "leave"
  BY DEF Refresh, Req, Asks, Requests, Lists

LEMMA RefreshTickInv == \A s \in Supplier : IInv /\ RefreshTick(s) => IInv'
<1> SUFFICES ASSUME NEW s \in Supplier, IInv, RefreshTick(s) PROVE IInv'
  OBVIOUS
<1>1. MachinePart /\ NetOK(net) /\ RecordPart /\ faults \subseteq Fault
  BY DEF IInv, RestPart
<1>2. /\ state[s] = "CONNECTED" /\ Push(s, Refresh, mine[s])
      /\ UNCHANGED <<stored, record, net, customer, faults>>
  BY DEF RefreshTick
<1>3. mine[s] \in Infos
  BY <1>1, MachineTypes
<1>4. /\ MachinePart' /\ Untouched(s) /\ Goes(s)
      /\ \A u \in Supplier : state[u] = "SUPPLIERS" => state'[u] = "SUPPLIERS"
  BY <1>1, <1>2, <1>3, PushOK, RefreshIs
<1>5. NetOK(net)' /\ RecordPart'
  BY <1>1, <1>2, <1>4, NetKept DEF RecordPart
<1> QED
  BY <1>1, <1>2, <1>4, <1>5, Handled

\* An answer counts only for a review that is running.
LEMMA AnswerOK ==
  ASSUME IInv, NEW m \in net, m.type = "review", NEW type \in {"ack", "fail"},
         NEW info \in Infos, Answer(m, type, info),
         \A u \in Supplier : state[u] = "SUPPLIERS" => state'[u] = "SUPPLIERS"
  PROVE  NetOK(net)'
<1> DEFINE a == Packet(type, m.to, m.from, info, m.age)
           n == net \cup (IF m.age = "gone" \/ (type = "ack" /\ m.age = "late")
                          THEN {} ELSE {a})
<1>1. /\ m.to \in Supplier /\ m.from \in Supplier /\ m.age \in Ages
      /\ Counts(m) => state[Asker(m)] = "SUPPLIERS"
  BY DeliveredIs
<1>2. m.age = "now" => state[m.from] = "SUPPLIERS"
  BY <1>1 DEF Counts, Asker
<1>3. /\ a.type = type /\ a.to = m.from /\ a.age = m.age
      /\ Fits(a)
  BY <1>1 DEF Packet, Fits, Packets
<1>4. net' \subseteq n
  BY DEF Answer
<1> HIDE DEF a
<1>5. m.age # "gone" /\ ~(type = "ack" /\ m.age = "late") =>
        (Counts(a) => state[Asker(a)] = "SUPPLIERS")
  BY <1>1, <1>2, <1>3 DEF Counts, Asker, Ages
<1>6. NetOK(n)
  BY <1>3, <1>5 DEF NetOK, IInv
<1> HIDE DEF n
<1> QED
  BY <1>4, <1>6, NetKept

LEMMA ReceiveReviewInv == \A m \in net : IInv /\ ReceiveReview(m) => IInv'
<1> SUFFICES ASSUME NEW m \in net, IInv, ReceiveReview(m) PROVE IInv'
  OBVIOUS
<1> DEFINE s == m.to
           my == mine[s]
           new == FromAnother(s, m.info)
           p == PositionOf(m.info.list, s)
           q == PositionOf(my.list, s)
<1>1. /\ m.type = "review" /\ s \in Supplier /\ m.info \in Infos
      /\ Len(requests[s]) < MaxRequests
      /\ UNCHANGED <<running, client, record, customer, faults>>
  BY DeliveredIs DEF ReceiveReview
<1>2. MachinePart /\ NetOK(net) /\ RecordPart /\ RestPart
  BY DEF IInv
<1>3. my \in Infos /\ new \in Infos
  BY <1>1, <1>2, MachineTypes, FromAnotherIs
<1>4. SUFFICES /\ MachinePart' /\ Untouched(s) /\ Goes(s) /\ NetOK(net)'
               /\ meta' \in [Supplier -> Metas] /\ (state[s] = "NONE" => state'[s] = "NONE")
  <2>1. RecordPart'
    BY <1>1, <1>2 DEF RecordPart
  <2>2. RestPart'
    BY <1>1, <1>2, <1>4 DEF RestPart, customer
  <2>3. UNCHANGED <<running, client, hired>> /\ client \subseteq Supplier
    BY <1>1, <1>2 DEF RestPart, customer
  <2>4. Patient => MemberInv'
    BY <1>1, <1>4, <2>3, MemberKept DEF IInv
  <2>5. StoppedIsClosed'
    BY <1>1, <1>4, <2>3, StoppedKept DEF IInv
  <2> QED
    BY <1>4, <2>1, <2>2, <2>4, <2>5, PartsInv
<1>5. CASE state[s] = "NONE"
  <2>1. net' = net \ {m} /\ UNCHANGED <<machine, meta>>
    BY <1>5 DEF ReceiveReview, Drop
  <2> HIDE DEF s
  <2>2. /\ MachinePart' /\ Untouched(s) /\ Goes(s)
        /\ \A u \in Supplier : state'[u] = state[u]
    BY <1>1, <1>2, <2>1, MachineStutter
  <2>3. NetOK(net)'
    BY <1>2, <2>1, <2>2, NetKept
  <2> QED
    BY <1>1, <1>2, <1>5, <2>1, <2>2, <2>3 DEF RestPart
<1>6. ASSUME NEW type \in {"ack", "fail"}, NEW info \in Infos,
             Answer(m, type, info), UNCHANGED <<machine, meta>>
      PROVE  /\ MachinePart' /\ Untouched(s) /\ Goes(s) /\ NetOK(net)'
             /\ meta' \in [Supplier -> Metas] /\ state'[s] = state[s]
  <2> HIDE DEF s
  <2>1. /\ MachinePart' /\ Untouched(s) /\ Goes(s)
        /\ \A u \in Supplier : state'[u] = state[u]
    BY <1>1, <1>2, <1>6, MachineStutter
  <2>2. NetOK(net)'
    BY <1>1, <1>6, <2>1, AnswerOK
  <2> QED
    BY <1>1, <1>2, <1>6, <2>1, <2>2 DEF RestPart
<1>7. ASSUME state[s] # "NONE", NEW info \in Infos, Push(s, Refresh, info),
             Answer(m, "ack", NoInfo)
      PROVE  MachinePart' /\ Untouched(s) /\ Goes(s) /\ NetOK(net)'
  <2> HIDE DEF s
  <2>1. /\ MachinePart' /\ Untouched(s) /\ Goes(s)
        /\ \A u \in Supplier : state[u] = "SUPPLIERS" => state'[u] = "SUPPLIERS"
    BY <1>1, <1>2, <1>7, PushOK, RefreshIs
  <2>2. NetOK(net)'
    BY <1>1, <1>7, <2>1, NoInfoIs, AnswerOK
  <2> QED
    BY <2>1, <2>2
<1>8. CASE state[s] # "NONE" /\ ~my.known
  <2>1. Answer(m, "ack", NoInfo) /\ UNCHANGED <<machine, meta>>
    BY <1>8 DEF ReceiveReview
  <2> QED
    BY <1>6, <2>1, NoInfoIs
<1>9. CASE state[s] # "NONE" /\ my.known /\ m.info.rev >= my.rev
  <2>1. /\ Answer(m, "ack", NoInfo) /\ Push(s, Refresh, new)
        /\ meta' = IF meta[s].pos > 0
                   THEN [meta EXCEPT ![s] = Meta(TRUE, meta[s].pos, new.list)] ELSE meta
    <3>1. m.info.rev \in Nat /\ my.rev \in Nat
      BY <1>1, <1>3, InfoTypes
    <3>2. ~(m.info.rev < my.rev)
      BY <1>9, <3>1
    <3> QED
      BY <1>9, <3>2 DEF ReceiveReview
  <2>2. MachinePart' /\ Untouched(s) /\ Goes(s) /\ NetOK(net)'
    BY <1>3, <1>7, <1>9, <2>1
  <2>3. Meta(TRUE, meta[s].pos, new.list) \in Metas
    BY <1>1, <1>2, <1>3, MetaTypes, InfoTypes DEF Meta, Metas, Lists
  <2> HIDE DEF s, new
  <2>4. meta' \in [Supplier -> Metas]
    BY <1>2, <2>1, <2>3 DEF RestPart
  <2> QED
    BY <1>9, <2>2, <2>4
<1>10. CASE /\ state[s] # "NONE" /\ my.known /\ ~(m.info.rev >= my.rev)
            /\ m.info.rev < my.rev /\ p > 0 /\ p = q
  <2>1. Answer(m, "ack", NoInfo) /\ Push(s, Refresh, my) /\ UNCHANGED meta
    BY <1>10 DEF ReceiveReview
  <2> QED
    BY <1>2, <1>3, <1>7, <1>10, <2>1 DEF RestPart
<1>11. CASE /\ state[s] # "NONE" /\ my.known /\ ~(m.info.rev >= my.rev)
            /\ ~(m.info.rev < my.rev /\ p > 0 /\ p = q)
  <2>1. Answer(m, "fail", my) /\ UNCHANGED <<machine, meta>>
    BY <1>11 DEF ReceiveReview
  <2> QED
    BY <1>3, <1>6, <2>1
<1> QED
  BY <1>5, <1>8, <1>9, <1>10, <1>11

-----------------------------------------------------------------------------
(* The actions of the customer and of the nodes                            *)

LEMMA JoinIs ==
  ASSUME NEW known \in BOOLEAN, NEW pos \in 0..Count, NEW snap \in Lists
  PROVE  /\ Asks(Req("join", known, pos, snap)) /\ Req("join", known, pos, snap).cmd # "leave"
         /\ Queued(<<Req("join", known, pos, snap)>>)
         /\ \A i \in DOMAIN <<Req("join", known, pos, snap)>> :
               <<Req("join", known, pos, snap)>>[i].cmd # "leave"
<1> DEFINE r == Req("join", known, pos, snap)
<1>1. Asks(r) /\ r.cmd # "leave"
  BY DEF Req, Asks, Requests, Lists
<1> HIDE DEF r
<1>2. /\ <<r>> \in Seq(Requests) /\ Len(<<r>>) = 1
      /\ \A i \in DOMAIN <<r>> : <<r>>[i] = r
  BY <1>1 DEF Asks
<1>3. 1 <= MaxRequests + 1
  OBVIOUS
<1> QED
  BY <1>1, <1>2, <1>3 DEF Queued, r

LEMMA GivenIs ==
  ASSUME RestPart, NEW s \in Supplier, NEW pos \in 0..Count, Given(s, pos)
  PROVE  places' \in [Supplier -> SUBSET (0..Count)]
  BY DEF RestPart, Given

\* A supplier that the customer asks serves it.
LEMMA AcceptOK ==
  ASSUME IInv, NEW s \in Supplier, NEW known \in BOOLEAN, NEW pos \in 0..Count,
         NEW snap \in Lists, Accept(s, known, pos, snap)
  PROVE  /\ MachinePart' /\ Untouched(s) /\ Goes(s) /\ NetOK(net)'
         /\ client' = client \cup {s} /\ meta' \in [Supplier -> Metas]
         /\ places' \in [Supplier -> SUBSET (0..Count)]
         /\ UNCHANGED <<running, record, net>>
         /\ s \notin client /\ s \in running => state'[s] # "NONE"
         /\ s \notin running => state'[s] = state[s]
         /\ StoppedIsClosed'
<1>0. SUFFICES /\ MachinePart' /\ Untouched(s) /\ Goes(s) /\ NetOK(net)'
               /\ client' = client \cup {s} /\ meta' \in [Supplier -> Metas]
               /\ places' \in [Supplier -> SUBSET (0..Count)]
               /\ UNCHANGED <<running, record, net>>
               /\ s \notin client /\ s \in running => state'[s] # "NONE"
               /\ s \notin running => state'[s] = state[s]
  BY <1>0, StoppedKept DEF IInv
<1> DEFINE r == Req("join", known, pos, snap)
           heard == s \in running /\ (s \notin client \/ (pos > 0 /\ state[s] # "NONE"))
<1>1. MachinePart /\ NetOK(net) /\ RestPart
  BY DEF IInv
<1>2. /\ Len(requests[s]) < MaxRequests /\ client' = client \cup {s}
      /\ meta' = IF s \notin client THEN meta
                 ELSE [meta EXCEPT ![s] = Meta(known, pos, snap)]
      /\ UNCHANGED <<running, record, net>>
  BY DEF Accept
<1>3. meta' \in [Supplier -> Metas] /\ places' \in [Supplier -> SUBSET (0..Count)]
  <2>1. meta' \in [Supplier -> Metas]
    BY <1>1, <1>2 DEF RestPart, Meta, Metas, Lists
  <2>2. Given(s, pos)
    BY DEF Accept
  <2> QED
    BY <1>1, <2>1, <2>2, GivenIs
<1>4. CASE ~heard
  <2>1. UNCHANGED machine
    BY <1>4 DEF Accept
  <2>2. /\ MachinePart' /\ Untouched(s) /\ Goes(s)
        /\ \A u \in Supplier : state'[u] = state[u]
    BY <1>1, <2>1, MachineStutter
  <2>3. NetOK(net)'
    BY <1>1, <1>2, <2>2, NetKept
  <2> QED
    BY <1>2, <1>3, <1>4, <2>2, <2>3
<1>5. CASE heard /\ state[s] = "NONE"
  <2>1. Arrive(s, "DISCONNECTED", <<r>>, NoInfo)
    BY <1>5 DEF Accept
  <2>2. MachinePart' /\ Untouched(s) /\ Goes(s) /\ state'[s] # "NONE"
    BY <1>1, <2>1, JoinIs, NoInfoIs, ArriveOK DEF Goes
  <2>3. \A u \in Supplier : state[u] = "SUPPLIERS" => state'[u] = "SUPPLIERS"
    BY <1>5, <2>2 DEF Untouched
  <2>4. NetOK(net)'
    BY <1>1, <1>2, <2>3, NetKept
  <2> QED
    BY <1>2, <1>3, <1>5, <2>2, <2>4
<1>6. CASE heard /\ state[s] # "NONE"
  <2>1. Push(s, r, mine[s])
    BY <1>6 DEF Accept
  <2>2. Asks(r) /\ r.cmd # "leave" /\ mine[s] \in Infos
    BY <1>1, JoinIs, MachineTypes
  <2> HIDE DEF r
  <2>3. /\ MachinePart' /\ Untouched(s) /\ Goes(s) /\ state'[s] # "NONE"
        /\ \A u \in Supplier : state[u] = "SUPPLIERS" => state'[u] = "SUPPLIERS"
    BY <1>1, <1>2, <1>6, <2>1, <2>2, PushOK
  <2>4. NetOK(net)'
    BY <1>1, <1>2, <2>3, NetKept
  <2> QED
    BY <1>2, <1>3, <1>6, <2>3, <2>4
<1> QED
  BY <1>4, <1>5, <1>6

LEMMA HiredIs ==
  ASSUME RestPart
  PROVE  hired \in Lists /\ Len(hired) = Count /\ DOMAIN hired = Position
<1>1. hired \in [1..Count -> Names] /\ Count \in Nat
  BY DEF RestPart, Position
<1> QED
  BY <1>1, ListIs DEF Lists, Position

\* The node of a supplier that is asked: who else is served stays served.
LEMMA MemberAsked ==
  ASSUME Patient => MemberInv, RestPart, NEW s \in Supplier, Untouched(s), Goes(s),
         client' = client \cup {s}, UNCHANGED running,
         Range(hired') \ {Nobody} \subseteq client \cup {s},
         Patient /\ s \notin client =>
             /\ Remains(requests[s], current[s])
             /\ s \in running => state'[s] # "NONE"
  PROVE  Patient => MemberInv'
<1> SUFFICES ASSUME Patient, MemberInv PROVE MemberInv'
  OBVIOUS
<1>1. Remains(requests[s], current[s]) /\ (s \in running => state'[s] # "NONE")
  <2>1. CASE s \in client
    BY <2>1 DEF MemberInv, Goes
  <2>2. CASE s \notin client
    BY <2>2
  <2> QED
    BY <2>1, <2>2
<1>2. Remains(requests'[s], current'[s])
  BY <1>1 DEF Goes
<1>3. ASSUME NEW u \in client, u # s
      PROVE  Remains(requests'[u], current'[u]) /\ (u \in running => state'[u] # "NONE")
  BY <1>3 DEF MemberInv, Untouched, RestPart
<1>4. Range(hired)' \ {Nobody} \subseteq client'
  BY DEF Range
<1> QED
  BY <1>1, <1>2, <1>3, <1>4 DEF MemberInv, Remains

LEMMA HireInv == \A s \in Supplier, p \in Position : IInv /\ Hire(s, p) => IInv'
<1> SUFFICES ASSUME NEW s \in Supplier, NEW p \in Position, IInv, Hire(s, p) PROVE IInv'
  OBVIOUS
<1>1. /\ Patient => s \notin client /\ state[s] = "NONE"
      /\ asked' = asked + 1 /\ asked < MaxCustomer
      /\ hired' = [hired EXCEPT ![p] = s]
      /\ Accept(s, TRUE, p, hired) /\ UNCHANGED faults
  BY DEF Hire, MoreAsked
<1>2. RestPart /\ RecordPart /\ MachinePart
  BY DEF IInv
<1>3. hired \in Lists /\ p \in 0..Count
  BY <1>2, HiredIs DEF Position
<1>4. /\ MachinePart' /\ Untouched(s) /\ Goes(s) /\ NetOK(net)'
      /\ client' = client \cup {s} /\ meta' \in [Supplier -> Metas]
      /\ places' \in [Supplier -> SUBSET (0..Count)]
      /\ UNCHANGED <<running, record, net>> /\ StoppedIsClosed'
      /\ s \notin client /\ s \in running => state'[s] # "NONE"
  BY <1>1, <1>3, AcceptOK
<1>5. RecordPart'
  BY <1>2, <1>4 DEF RecordPart
<1>6. RestPart'
  <2>1. hired' \in [Position -> Names]
    BY <1>1, <1>2 DEF RestPart, Names
  <2>2. asked' \in 0..MaxCustomer
    BY <1>1, <1>2 DEF RestPart
  <2> QED
    BY <1>1, <1>2, <1>4, <2>1, <2>2 DEF RestPart
<1>7. Patient => MemberInv'
  <2> SUFFICES ASSUME Patient PROVE MemberInv'
    OBVIOUS
  <2>1. requests[s] = <<>> /\ current[s] = NoRequest
    BY <1>1, <1>2, MachineTypes
  <2>2. Remains(requests[s], current[s])
    BY <2>1, NoRequestIs DEF Remains
  <2>3. Range(hired') \ {Nobody} \subseteq client \cup {s}
    <3>1. Range(hired) \ {Nobody} \subseteq client
      BY DEF IInv, MemberInv
    <3>2. Range(hired') \subseteq Range(hired) \cup {s}
      BY <1>1, <1>2 DEF Range, RestPart
    <3> QED
      BY <3>1, <3>2
  <2> QED
    BY <1>1, <1>2, <1>4, <2>2, <2>3, MemberAsked DEF IInv
<1> QED
  BY <1>4, <1>5, <1>6, <1>7, PartsInv

LEMMA ReconnectInv == \A s \in Supplier, b \in BOOLEAN : IInv /\ Reconnect(s, b) => IInv'
<1> SUFFICES ASSUME NEW s \in Supplier, NEW b \in BOOLEAN, IInv, Reconnect(s, b) PROVE IInv'
  OBVIOUS
<1>1. RestPart /\ RecordPart /\ MachinePart
  BY DEF IInv
<1>2. hired \in Lists /\ PositionOf(hired, s) \in 0..Count /\ <<>> \in Lists
  BY <1>1, HiredIs, PositionIs DEF Lists
<1>3. PICK known \in BOOLEAN, pos \in 0..Count, snap \in Lists : Accept(s, known, pos, snap)
  <2>1. CASE b
    <3>1. Accept(s, FALSE, 0, <<>>)
      BY <2>1, Zenon DEF Reconnect
    <3>2. 0 \in 0..Count
      OBVIOUS
    <3> QED
      BY <1>2, <3>1, <3>2
  <2>2. CASE ~b
    <3>1. Accept(s, TRUE, PositionOf(hired, s), hired)
      BY <2>2, Zenon DEF Reconnect
    <3> QED
      BY <1>2, <3>1
  <2> QED
    BY <2>1, <2>2
<1>4. /\ MachinePart' /\ Untouched(s) /\ Goes(s) /\ NetOK(net)'
      /\ client' = client \cup {s} /\ meta' \in [Supplier -> Metas]
      /\ places' \in [Supplier -> SUBSET (0..Count)]
      /\ UNCHANGED <<running, record, net>> /\ StoppedIsClosed'
  BY <1>3, AcceptOK
<1>5. s \in Range(hired) /\ asked' \in 0..MaxCustomer /\ UNCHANGED <<hired, faults>>
  BY <1>1 DEF Reconnect, MoreAsked, RestPart
<1>6. RecordPart' /\ RestPart'
  BY <1>1, <1>4, <1>5 DEF RecordPart, RestPart
<1>7. Patient => MemberInv'
  <2> SUFFICES ASSUME Patient PROVE MemberInv'
    OBVIOUS
  <2>1. s \in client /\ Range(hired') \ {Nobody} \subseteq client \cup {s}
    BY <1>5 DEF IInv, MemberInv
  <2> QED
    BY <1>1, <1>4, <2>1, MemberAsked DEF IInv
<1> QED
  BY <1>4, <1>6, <1>7, PartsInv

LEMMA CancelInv == \A s \in Supplier, b \in BOOLEAN : IInv /\ Cancel(s, b) => IInv'
<1> SUFFICES ASSUME NEW s \in Supplier, NEW b \in BOOLEAN, IInv, Cancel(s, b) PROVE IInv'
  OBVIOUS
<1> DEFINE r == Req("leave", b, 0, <<>>)
<1>1. /\ s \in client /\ s \notin Range(hired) /\ Len(requests[s]) < MaxRequests
      /\ client' = client \ {s} /\ meta' = [meta EXCEPT ![s] = Bare]
      /\ UNCHANGED <<running, record, net, customer, faults>>
  BY DEF Cancel
<1>2. MachinePart /\ NetOK(net) /\ RecordPart /\ RestPart
  BY DEF IInv
<1>3. /\ MachinePart' /\ Untouched(s)
      /\ \A u \in Supplier : state[u] = "SUPPLIERS" => state'[u] = "SUPPLIERS"
      /\ s \in running \/ state'[s] = state[s]
  <2>1. CASE s \in running /\ state[s] # "NONE"
    <3>1. Push(s, r, mine[s])
      BY <2>1 DEF Cancel
    <3>2. Asks(r) /\ mine[s] \in Infos
      BY <1>2, MachineTypes DEF Req, Asks, Requests, Lists
    <3> HIDE DEF r
    <3> QED
      BY <1>1, <1>2, <2>1, <3>1, <3>2, PushOK
  <2>2. CASE ~(s \in running /\ state[s] # "NONE")
    <3>1. UNCHANGED machine
      BY <2>2 DEF Cancel
    <3> QED
      BY <1>2, <3>1, MachineStutter
  <2> QED
    BY <2>1, <2>2
<1>4. NetOK(net)' /\ RecordPart'
  BY <1>1, <1>2, <1>3, NetKept DEF RecordPart
<1>5. RestPart'
  <2>1. Bare \in Metas
    BY DEF Bare, Meta, Metas
  <2> QED
    BY <1>1, <1>2, <2>1 DEF RestPart, customer
<1>6. Patient => MemberInv'
  <2> SUFFICES ASSUME MemberInv PROVE MemberInv'
    BY DEF IInv
  <2>1. Range(hired)' \ {Nobody} \subseteq client'
    BY <1>1 DEF MemberInv, customer, Range
  <2>2. ASSUME NEW u \in client'
        PROVE  Remains(requests'[u], current'[u]) /\ (u \in running => state'[u] # "NONE")
    BY <1>1, <1>2, <1>3 DEF MemberInv, Untouched, RestPart
  <2> QED
    BY <1>1, <2>1, <2>2 DEF MemberInv, Remains
<1>7. StoppedIsClosed'
  BY <1>1, <1>3, StoppedKept DEF IInv
<1> QED
  BY <1>3, <1>4, <1>5, <1>6, <1>7, PartsInv

LEMMA StopInv == \A s \in Supplier : IInv /\ Stop(s) => IInv'
<1> SUFFICES ASSUME NEW s \in Supplier, IInv, Stop(s) PROVE IInv'
  OBVIOUS
<1>1. /\ running' = running \ {s} /\ UNCHANGED <<client, meta, record, customer>>
      /\ IF state[s] = "NONE" THEN UNCHANGED <<machine, net>> ELSE Close(s, net)
  BY DEF Stop
<1>2. MachinePart /\ NetOK(net) /\ RecordPart /\ RestPart
  BY DEF IInv
<1>3. /\ MachinePart' /\ Untouched(s) /\ NetOK(net)'
      /\ Remains(requests'[s], current'[s]) /\ state'[s] = "NONE"
  <2>1. CASE state[s] = "NONE"
    <3>1. /\ MachinePart' /\ Untouched(s) /\ UNCHANGED machine
          /\ \A u \in Supplier : state'[u] = state[u]
      BY <1>1, <1>2, <2>1, MachineStutter
    <3>2. NetOK(net)'
      BY <1>1, <1>2, <2>1, <3>1, NetKept
    <3>3. requests'[s] = <<>> /\ current'[s] = NoRequest
      BY <1>2, <2>1, <3>1, MachineTypes DEF machine
    <3> QED
      BY <2>1, <3>1, <3>2, <3>3, NoRequestIs DEF Remains
  <2>2. CASE state[s] # "NONE"
    BY <1>1, <1>2, <2>2, CloseOK, NoRequestIs DEF Remains
  <2> QED
    BY <2>1, <2>2
<1>4. RecordPart'
  BY <1>1, <1>2 DEF RecordPart
<1>5. RestPart'
  <2>1. faults' \subseteq Fault
    BY <1>2, FaultsKept DEF Stop
  <2> QED
    BY <1>1, <1>2, <2>1 DEF RestPart, customer
<1>6. Patient => MemberInv'
  <2> SUFFICES ASSUME MemberInv PROVE MemberInv'
    BY DEF IInv
  <2>1. Range(hired)' \ {Nobody} \subseteq client'
    BY <1>1 DEF MemberInv, customer, Range
  <2>2. ASSUME NEW u \in client'
        PROVE  Remains(requests'[u], current'[u]) /\ (u \in running' => state'[u] # "NONE")
    BY <1>1, <1>2, <1>3 DEF MemberInv, Untouched, RestPart
  <2> QED
    BY <2>1, <2>2 DEF MemberInv, Remains
<1>7. StoppedIsClosed'
  BY <1>1, <1>3 DEF IInv, StoppedIsClosed, Untouched
<1> QED
  BY <1>3, <1>4, <1>5, <1>6, <1>7, PartsInv

LEMMA StartInv == \A s \in Supplier : IInv /\ Start(s) => IInv'
<1> SUFFICES ASSUME NEW s \in Supplier, IInv, Start(s) PROVE IInv'
  OBVIOUS
<1> DEFINE q == <<Req("join", meta[s].known, meta[s].pos, meta[s].snap)>>
<1>1. /\ s \notin running /\ running' = running \cup {s}
      /\ UNCHANGED <<client, meta, record, net, hired, asked, faults>>
      /\ IF s \in client THEN Arrive(s, "DISCONNECTED", q, NoInfo) /\ Given(s, meta[s].pos)
                         ELSE UNCHANGED <<machine, places>>
  BY DEF Start
<1>2. MachinePart /\ NetOK(net) /\ RecordPart /\ RestPart
  BY DEF IInv
<1>3. Queued(q) /\ \A i \in DOMAIN q : q[i].cmd # "leave"
  BY <1>2, MetaTypes, JoinIs
<1> HIDE DEF q
<1>4. /\ MachinePart' /\ Untouched(s)
      /\ s \in client => state'[s] # "NONE" /\ Remains(requests'[s], current'[s])
  <2>1. CASE s \in client
    BY <1>1, <1>2, <1>3, <2>1, NoInfoIs, ArriveOK
  <2>2. CASE s \notin client
    BY <1>1, <1>2, <2>2, MachineStutter
  <2> QED
    BY <2>1, <2>2
<1>5. \A u \in Supplier : state[u] = "SUPPLIERS" => state'[u] = "SUPPLIERS"
  <2>1. state[s] = "NONE"
    BY <1>1 DEF IInv, StoppedIsClosed
  <2> QED
    BY <1>4, <2>1 DEF Untouched
<1>6. NetOK(net)' /\ RecordPart'
  BY <1>1, <1>2, <1>5, NetKept DEF RecordPart
<1>7. RestPart'
  <2>1. meta[s].pos \in 0..Count
    BY <1>2, MetaTypes
  <2>2. places' \in [Supplier -> SUBSET (0..Count)]
    BY <1>1, <1>2, <2>1, GivenIs DEF RestPart
  <2> QED
    BY <1>1, <1>2, <2>2 DEF RestPart
<1>8. StoppedIsClosed'
  BY <1>1, <1>4 DEF IInv, StoppedIsClosed, Untouched
<1>9. Patient => MemberInv'
  <2> SUFFICES ASSUME MemberInv PROVE MemberInv'
    BY DEF IInv
  <2>1. Range(hired)' \ {Nobody} \subseteq client'
    BY <1>1 DEF MemberInv, Range
  <2>2. ASSUME NEW u \in client'
        PROVE  Remains(requests'[u], current'[u]) /\ (u \in running' => state'[u] # "NONE")
    <3>1. CASE u = s
      BY <1>1, <1>4, <2>2, <3>1
    <3>2. CASE u # s
      BY <1>1, <1>2, <1>4, <2>2, <3>2 DEF MemberInv, Untouched, RestPart
    <3> QED
      BY <3>1, <3>2
  <2> QED
    BY <2>1, <2>2 DEF MemberInv, Remains
<1> QED
  BY <1>4, <1>6, <1>7, <1>8, <1>9, PartsInv

LEMMA ExpireInv == \A h \in Holder : IInv /\ Expire(h) => IInv'
<1> SUFFICES ASSUME NEW h \in Holder, IInv, Expire(h) PROVE IInv'
  OBVIOUS
<1>1. /\ record' = [record EXCEPT ![h] = NoInfo]
      /\ UNCHANGED <<machine, stored, net, customer>>
  BY DEF Expire
<1>2. MachinePart /\ NetOK(net) /\ RecordPart /\ RestPart /\ StoppedIsClosed
  BY DEF IInv
<1>3. MachinePart' /\ \A u \in Supplier : state'[u] = state[u]
  BY <1>1, <1>2, MachineStutter
<1>4. NetOK(net)'
  BY <1>1, <1>2, <1>3, NetKept
<1>5. RecordPart'
  BY <1>1, <1>2, NoInfoIs DEF RecordPart
<1>6. RestPart'
  <2>1. faults' \subseteq Fault
    BY <1>2, FaultsKept DEF Expire
  <2> QED
    BY <1>1, <1>2, <2>1 DEF RestPart, stored, customer
<1>7. StoppedIsClosed' /\ (Patient => MemberInv')
  BY <1>1, <1>2 DEF IInv, StoppedIsClosed, MemberInv, Remains, machine, stored, customer, Range
<1> QED
  BY <1>3, <1>4, <1>5, <1>6, <1>7, PartsInv

LEMMA StutterInv == IInv /\ UNCHANGED vars => IInv'
<1> SUFFICES ASSUME IInv, UNCHANGED vars PROVE IInv'
  OBVIOUS
<1>1. UNCHANGED <<machine, stored, record, net, customer, faults>>
  BY DEF vars
<1>2. MachinePart /\ NetOK(net) /\ RecordPart /\ RestPart /\ StoppedIsClosed
  BY DEF IInv
<1>3. MachinePart' /\ \A u \in Supplier : state'[u] = state[u]
  BY <1>1, <1>2, MachineStutter
<1>4. NetOK(net)'
  BY <1>1, <1>2, <1>3, NetKept
<1>5. RecordPart' /\ RestPart'
  BY <1>1, <1>2 DEF RecordPart, RestPart, stored, customer
<1>6. StoppedIsClosed' /\ (Patient => MemberInv')
  BY <1>1, <1>2 DEF IInv, StoppedIsClosed, MemberInv, Remains, machine, stored, customer, Range
<1> QED
  BY <1>3, <1>4, <1>5, <1>6, PartsInv

LEMMA InitInv == Init => IInv
<1> SUFFICES ASSUME Init PROVE IInv
  OBVIOUS
<1>1. ASSUME NEW s \in Supplier PROVE MachineIs(s)
  <2>1. Fine("NONE", <<>>, NoRequest, NoInfo, NoInfo, 0, {}, 0, {})
    BY NoInfoIs, NoRequestIs DEF Fine, States, Busy
  <2> QED
    BY <2>1 DEF Init, MachineIs
<1>2. Domains
  BY DEF Init, Domains
<1>3. NetOK(net) /\ RecordPart
  BY NoInfoIs DEF Init, NetOK, RecordPart
<1>4. RestPart
  BY DEF Init, RestPart, Bare, Meta, Metas, Names
<1>5. StoppedIsClosed /\ MemberInv
  BY DEF Init, StoppedIsClosed, MemberInv, Range
<1> QED
  BY <1>1, <1>2, <1>3, <1>4, <1>5 DEF IInv, MachinePart

LEMMA NextInv == IInv /\ [Next]_vars => IInv'
<1> SUFFICES ASSUME IInv, [Next]_vars PROVE IInv'
  OBVIOUS
<1>1. ASSUME NEW s \in Supplier, Machine(s) PROVE IInv'
  <2>1. CASE ReviewTimeout(s)
    BY <2>1, AgreedInv DEF ReviewTimeout
  <2> QED
    BY <1>1, <2>1, ReadExistInv, ReadNotExistInv, WriteEndsInv DEF Machine
<1>2. ASSUME NEW s \in Supplier, ReadFail(s) \/ RefreshTick(s) \/ Stop(s) \/ Start(s)
      PROVE  IInv'
  BY <1>2, ReadFailInv, RefreshTickInv, StopInv, StartInv
<1>3. ASSUME NEW s \in Supplier, NEW p \in Position, Hire(s, p) PROVE IInv'
  BY <1>3, HireInv
<1>4. ASSUME NEW s \in Supplier, NEW b \in BOOLEAN, Reconnect(s, b) \/ Cancel(s, b)
      PROVE  IInv'
  BY <1>4, ReconnectInv, CancelInv
<1>5. ASSUME NEW m \in net, Deliver(m) \/ Lose(m) PROVE IInv'
  BY <1>5, ReceiveReviewInv, ReceiveAckInv, ReceiveFailInv, LoseInv DEF Deliver
<1>6. ASSUME NEW m \in net, NEW b \in BOOLEAN, StoreArrives(m, b) PROVE IInv'
  BY <1>6, StoreArrivesInv
<1>7. ASSUME NEW h \in Holder, Expire(h) PROVE IInv'
  BY <1>7, ExpireInv
<1>8. CASE UNCHANGED vars
  BY <1>8, StutterInv
<1> QED
  BY <1>1, <1>2, <1>3, <1>4, <1>5, <1>6, <1>7, <1>8 DEF Next

-----------------------------------------------------------------------------
(* The places of a record.  Every list a machine, a packet, a node or a    *)
(* holder has names a supplier only at a position it was asked to take,    *)
(* or anywhere when it was asked to take any; requests and the stored      *)
(* positions come from the customer, and what was asked is not forgotten.  *)

At(s, i, pl) == s \in Supplier /\ (i \in pl[s] \/ 0 \in pl[s])
Placed(list, pl) == \A i \in DOMAIN list : list[i] = Nobody \/ At(list[i], i, pl)
Gets(s, r, pl) == Placed(r.snap, pl) /\ (r.cmd = "join" => r.pos \in pl[s])
MachinePlaced(s, q, c, my, t, pl) ==
    /\ Placed(my.list, pl) /\ Placed(t.list, pl)
    /\ Gets(s, c, pl) /\ \A i \in DOMAIN q : Gets(s, q[i], pl)
MetaPlaced(s, info, pl) == Placed(info.snap, pl) /\ info.pos \in pl[s] \cup {0}
NetPlaced(n, pl) == \A m \in n : Placed(m.info.list, pl)

MachinesPlaced ==
    \A s \in Supplier :
        MachinePlaced(s, requests[s], current[s], mine[s], trans[s], places)
MetasPlaced == \A s \in Supplier : MetaPlaced(s, meta[s], places)
RecordsPlaced == \A h \in Holder : Placed(record[h].list, places)
PlacePart ==
    /\ MachinesPlaced /\ MetasPlaced /\ NetPlaced(net, places) /\ RecordsPlaced
    /\ Placed(hired, places)

\* What was asked of the suppliers is asked of them in pl, too.
Wider(pl) == \A s \in Supplier : places[s] \subseteq pl[s]

LEMMA PlacedWider ==
  ASSUME NEW pl, Wider(pl), NEW list, Placed(list, places)
  PROVE  Placed(list, pl)
  BY DEF Wider, Placed, At

LEMMA EmptyPlaced == \A pl : Placed(<<>>, pl) /\ Placed(NoInfo.list, pl)
  BY DEF Placed, NoInfo

LEMMA FitPlaced ==
  ASSUME NEW pl, NEW list \in Lists, Placed(list, pl)
  PROVE  Placed(Fit(list), pl)
<1> SUFFICES ASSUME NEW i \in Position
             PROVE  Fit(list)[i] = Nobody \/ At(Fit(list)[i], i, pl)
  BY DEF Placed, Fit
<1>1. i <= Len(list) => i \in DOMAIN list
  BY DEF Lists, Position
<1> QED
  BY <1>1 DEF Fit, Placed

\* A supplier takes a position, or nobody does.
LEMMA ChangePlaced ==
  ASSUME NEW pl, NEW list \in Lists, Placed(list, pl), NEW x, NEW p,
         x = Nobody \/ At(x, p, pl)
  PROVE  Placed([list EXCEPT ![p] = x], pl)
<1> SUFFICES ASSUME NEW i \in DOMAIN list
             PROVE  \/ [list EXCEPT ![p] = x][i] = Nobody
                    \/ At([list EXCEPT ![p] = x][i], i, pl)
  BY DEF Placed
<1>1. CASE i = p
  BY <1>1
<1>2. CASE i # p
  BY <1>2 DEF Placed
<1> QED
  BY <1>1, <1>2

LEMMA PutPlaced ==
  ASSUME NEW pl, NEW list \in Lists, Placed(list, pl), NEW s, NEW p, At(s, p, pl)
  PROVE  Placed(Put(list, s, p), pl)
  BY DEF Placed, Put

LEMMA AppendPlaced ==
  ASSUME NEW pl, NEW list \in Lists, Placed(list, pl), NEW s \in Supplier, 0 \in pl[s]
  PROVE  Placed(Append(list, s), pl)
<1> SUFFICES ASSUME NEW i \in DOMAIN Append(list, s)
             PROVE  Append(list, s)[i] = Nobody \/ At(Append(list, s)[i], i, pl)
  BY DEF Placed
<1>1. (i \in DOMAIN list /\ Append(list, s)[i] = list[i]) \/ Append(list, s)[i] = s
  BY DEF Lists
<1> QED
  BY <1>1 DEF Placed, At

LEMMA FillPlaced ==
  ASSUME NEW pl, NEW list \in Lists, Placed(list, pl), NEW snap \in Lists, Placed(snap, pl)
  PROVE  Placed(FillFrom(list, snap), pl)
<1> SUFFICES ASSUME NEW i \in DOMAIN list
             PROVE  FillFrom(list, snap)[i] = Nobody \/ At(FillFrom(list, snap)[i], i, pl)
  BY DEF Placed, FillFrom
<1>1. i <= Len(snap) => i \in DOMAIN snap
  BY DEF Lists
<1> QED
  BY <1>1 DEF FillFrom, Placed

LEMMA InfoPlaced == \A rev, list : Info(rev, list).list = list
  BY DEF Info

LEMMA MergedPlaced ==
  ASSUME NEW pl, NEW dht \in Infos, NEW my \in Infos, NEW r \in Requests,
         Placed(dht.list, pl), Placed(my.list, pl), Placed(r.snap, pl)
  PROVE  Placed(Merged(dht, my, r).list, pl)
<1> DEFINE d == IF Valid(dht) THEN dht ELSE NoInfo
           m == IF Valid(my) THEN my ELSE NoInfo
<1>1. /\ d.list \in Lists /\ Placed(d.list, pl) /\ m.list \in Lists /\ Placed(m.list, pl)
  BY InfoTypes, NoInfoIs, EmptyPlaced
<1>2. Placed(Fit(d.list), pl) /\ Placed(Fit(m.list), pl)
  BY <1>1, FitPlaced
<1>3. Merged(dht, my, r) =
        CASE d.rev = 0 /\ m.rev = 0 -> Info(0, r.snap)
          [] m.rev > d.rev          -> Info(m.rev, Fit(m.list))
          [] OTHER                  -> Info(d.rev, Fit(d.list))
  BY DEF Merged
<1> HIDE DEF d, m
<1>4. Merged(dht, my, r) \in {Info(0, r.snap), Info(m.rev, Fit(m.list)), Info(d.rev, Fit(d.list))}
  <2>1. d.rev \in Nat /\ m.rev \in Nat
    BY NoInfoIs, InfoTypes DEF d, m
  <2>2. CASE d.rev = 0 /\ m.rev = 0
    BY <1>3, <2>1, <2>2
  <2>3. CASE ~(d.rev = 0 /\ m.rev = 0) /\ m.rev > d.rev
    BY <1>3, <2>3
  <2>4. CASE ~(d.rev = 0 /\ m.rev = 0) /\ ~(m.rev > d.rev)
    BY <1>3, <2>4
  <2> QED
    BY <2>2, <2>3, <2>4
<1> QED
  BY <1>2, <1>4, InfoPlaced

\* A supplier joins at the position it is asked to take, else at the first free one.
LEMMA JoinedPlaced ==
  ASSUME NEW pl, NEW s \in Supplier, NEW base \in Infos, NEW r \in Requests,
         Placed(base.list, pl), Gets(s, r, pl), r.cmd = "join"
  PROVE  Placed(Joined(s, base, r).list, pl)
<1> DEFINE list == Fit(base.list)
           placed == IF r.pos > 0 THEN Put(list, s, r.pos)
                     ELSE IF s \in Range(list) THEN list
                     ELSE IF Nobody \in Range(list)
                          THEN [list EXCEPT ![PositionOf(list, Nobody)] = s]
                     ELSE Append(list, s)
<1>1. list \in Lists /\ Placed(list, pl) /\ s \in Names /\ r.pos \in 0..Count
  BY FitIs, FitPlaced, InfoTypes, RequestTypes DEF Names
<1>2. r.pos \in pl[s] /\ Placed(r.snap, pl) /\ r.snap \in Lists
  BY RequestTypes DEF Gets
<1>3. Joined(s, base, r) =
        IF base.rev > 0 \/ r.known \/ meta[s].known
        THEN Info(base.rev, FillFrom(placed, r.snap)) ELSE NoInfo
  BY DEF Joined
<1> HIDE DEF list
<1>4. placed \in Lists /\ Placed(placed, pl)
  <2>1. CASE r.pos > 0
    BY <1>1, <1>2, <2>1, PutIs, PutPlaced DEF At
  <2>2. CASE ~(r.pos > 0)
    <3>1. At(s, PositionOf(list, Nobody), pl) /\ 0 \in pl[s]
      BY <1>1, <1>2, <2>2 DEF At
    <3>2. LET u == [list EXCEPT ![PositionOf(list, Nobody)] = s]
          IN  u \in Lists /\ Placed(u, pl)
      BY <1>1, <3>1, ChangeIs, ChangePlaced
    <3>3. Append(list, s) \in Lists /\ Placed(Append(list, s), pl)
      BY <1>1, <3>1, AppendPlaced DEF Lists
    <3> QED
      BY <1>1, <2>2, <3>2, <3>3
  <2> QED
    BY <2>1, <2>2
<1> HIDE DEF placed
<1>5. Placed(FillFrom(placed, r.snap), pl)
  BY <1>2, <1>4, FillPlaced
<1> QED
  BY <1>3, <1>5, InfoPlaced, EmptyPlaced

LEMMA LeftPlaced ==
  ASSUME NEW pl, NEW s \in Supplier, NEW base \in Infos, NEW r, Placed(base.list, pl)
  PROVE  Placed(Left(s, base, r).list, pl)
<1> DEFINE p == PositionOf(base.list, s)
           list == Fit(base.list)
<1>1. list \in Lists /\ Placed(list, pl)
  BY FitIs, FitPlaced, InfoTypes
<1>2. Left(s, base, r) =
        IF base.rev > 0 \/ r.known
        THEN Info(base.rev, IF p \in Position THEN [list EXCEPT ![p] = Nobody] ELSE list)
        ELSE NoInfo
  BY DEF Left
<1> HIDE DEF list, p
<1>3. Placed([list EXCEPT ![p] = Nobody], pl)
  BY <1>1, ChangePlaced
<1> QED
  BY <1>1, <1>2, <1>3, InfoPlaced, EmptyPlaced

\* A stored position that is one of a list was given by the customer.
LEMMA MetaAt ==
  ASSUME RestPart, MetasPlaced, NEW s \in Supplier, NEW list \in Lists,
         meta[s].pos \in DOMAIN list
  PROVE  At(s, meta[s].pos, places)
<1>1. meta[s].pos # 0
  BY DEF Lists
<1> QED
  BY <1>1 DEF MetasPlaced, MetaPlaced, At

LEMMA PossiblePlaced ==
  ASSUME RestPart, MetasPlaced, NEW s \in Supplier, NEW rev
  PROVE  Placed(Possible(s, rev).list, places)
<1> DEFINE snap == meta[s].snap
           p == meta[s].pos
<1>1. snap \in Lists /\ Placed(snap, places)
  BY MetaTypes DEF MetasPlaced, MetaPlaced
<1>2. p \in DOMAIN snap => At(s, p, places)
  BY <1>1, MetaAt
<1>3. Possible(s, rev).list = IF p \in DOMAIN snap /\ s \notin Range(snap)
                              THEN [snap EXCEPT ![p] = s] ELSE snap
  BY InfoPlaced DEF Possible
<1> HIDE DEF snap, p
<1> QED
  BY <1>1, <1>2, <1>3, ChangePlaced

\* Who is somewhere in a list may be there in another one.
LEMMA ThereIs ==
  ASSUME NEW pl, NEW list \in Lists, Placed(list, pl), NEW s \in Supplier,
         PositionOf(list, s) # 0
  PROVE  At(s, PositionOf(list, s), pl)
<1> DEFINE p == PositionOf(list, s)
<1>1. p \in 0..Len(list) /\ list[p] = s
  BY PositionIs
<1> HIDE DEF p
<1>2. p \in DOMAIN list /\ s # Nobody
  BY <1>1 DEF Lists, p
<1> QED
  BY <1>1, <1>2 DEF Placed, p

LEMMA RefreshedPlaced ==
  ASSUME NEW pl, NEW s \in Supplier, NEW base \in Infos, NEW my \in Infos,
         Placed(base.list, pl), Placed(my.list, pl)
  PROVE  Placed(Refreshed(s, base, my).list, pl)
<1> DEFINE p == PositionOf(my.list, s)
<1>1. Fit(base.list) \in Lists /\ Placed(Fit(base.list), pl) /\ my.list \in Lists
  BY FitIs, FitPlaced, InfoTypes
<1>2. p \in Position => At(s, p, pl)
  BY <1>1, ThereIs DEF Position
<1>3. p \in Position => Placed(Put(Fit(base.list), s, p), pl)
  BY <1>1, <1>2, PutPlaced
<1> QED
  BY <1>3, InfoPlaced, EmptyPlaced DEF Refreshed

LEMMA RebuiltPlaced ==
  ASSUME NEW pl, NEW s \in Supplier, NEW dht, NEW base \in Infos, NEW my \in Infos,
         Asks(current[s]), Gets(s, current[s], pl), Placed(base.list, pl), Placed(my.list, pl)
  PROVE  Placed(Rebuilt(s, dht, base, my).list, pl)
<1> DEFINE r == current[s]
           changed == [join |-> Joined(s, base, r), leave |-> Left(s, base, r),
                       refresh |-> Refreshed(s, base, my)]
<1>1. r \in Requests /\ r.cmd \in {"join", "leave", "refresh"}
  BY DEF Asks, Requests
<1>2. Rebuilt(s, dht, base, my) = Incremented(changed[r.cmd], dht, r)
  BY DEF Rebuilt
<1>3. Placed(changed[r.cmd].list, pl)
  <2> HIDE DEF r
  <2>1. CASE r.cmd = "join"
    <3>1. Placed(Joined(s, base, r).list, pl)
      BY <1>1, <2>1, JoinedPlaced DEF r
    <3>2. changed[r.cmd] = Joined(s, base, r)
      BY <2>1
    <3> HIDE DEF changed
    <3> QED
      BY <3>1, <3>2
  <2>2. CASE r.cmd = "leave"
    <3>1. Placed(Left(s, base, r).list, pl)
      BY LeftPlaced
    <3>2. changed[r.cmd] = Left(s, base, r)
      BY <2>2
    <3> HIDE DEF changed
    <3> QED
      BY <3>1, <3>2
  <2>3. CASE r.cmd = "refresh"
    <3>1. Placed(Refreshed(s, base, my).list, pl)
      BY RefreshedPlaced
    <3>2. changed[r.cmd] = Refreshed(s, base, my)
      BY <2>3
    <3> HIDE DEF changed
    <3> QED
      BY <3>1, <3>2
  <2> QED
    BY <1>1, <2>1, <2>2, <2>3
<1> HIDE DEF changed
<1> QED
  BY <1>2, <1>3, InfoPlaced, EmptyPlaced DEF Incremented

LEMMA SolvedPlaced ==
  ASSUME NEW pl, NEW t \in Infos, NEW other \in Supplier, NEW list \in Lists,
         Placed(t.list, pl), Placed(list, pl)
  PROVE  Placed(Solved(t, other, list).list, pl)
<1> DEFINE p == PositionOf(list, other)
           u == [t EXCEPT !.list[p] = other]
<1>1. t.list \in Lists
  BY InfoTypes
<1>2. p \in DOMAIN t.list => At(other, p, pl)
  <2>1. p \in DOMAIN t.list => p # 0
    BY <1>1 DEF Lists
  <2> QED
    BY <2>1, ThereIs
<1>3. Solved(t, other, list) = IF p \in DOMAIN t.list /\ t.list[p] = Nobody THEN u ELSE NoInfo
  BY DEF Solved
<1> HIDE DEF p
<1>4. p \in DOMAIN t.list => Placed([t.list EXCEPT ![p] = other], pl)
  BY <1>1, <1>2, ChangePlaced
<1>5. u.list = [t.list EXCEPT ![p] = other]
  BY DEF Infos
<1> HIDE DEF u
<1> QED
  BY <1>3, <1>4, <1>5, EmptyPlaced

LEMMA FromAnotherPlaced ==
  ASSUME RestPart, MetasPlaced, NEW s \in Supplier, NEW info \in Infos,
         Placed(info.list, places)
  PROVE  Placed(FromAnother(s, info).list, places)
<1> DEFINE p == meta[s].pos
           u == [info EXCEPT !.list[p] = s]
<1>1. info.list \in Lists
  BY InfoTypes
<1>2. p \in DOMAIN info.list => At(s, p, places)
  BY <1>1, MetaAt
<1> HIDE DEF p
<1>3. p \in DOMAIN info.list => Placed([info.list EXCEPT ![p] = s], places)
  BY <1>1, <1>2, ChangePlaced
<1>4. u.list = [info.list EXCEPT ![p] = s]
  BY DEF Infos
<1>5. FromAnother(s, info) = IF p \in DOMAIN info.list THEN u ELSE info
  BY DEF FromAnother, p
<1> HIDE DEF u
<1> QED
  BY <1>3, <1>4, <1>5

\* Every machine after a chain of handlers of the machine of s.
LEMMA MachinesAfter ==
  ASSUME MachinePart, MachinesPlaced, Wider(places'), NEW s \in Supplier,
         NEW st, NEW q, NEW c, NEW my, NEW t, NEW att, NEW w, NEW k, NEW rf,
         Becomes(s, st, q, c, my, t, att, w, k, rf),
         MachinePlaced(s, q, c, my, t, places')
  PROVE  MachinesPlaced'
<1> SUFFICES ASSUME NEW u \in Supplier
             PROVE  MachinePlaced(u, requests'[u], current'[u], mine'[u], trans'[u], places')
  BY DEF MachinesPlaced, MachinePlaced, Gets, Placed, At
<1>1. CASE u = s
  BY <1>1 DEF MachinePart, Domains, Becomes
<1>2. CASE u # s
  <2>1. /\ requests'[u] = requests[u] /\ current'[u] = current[u]
        /\ mine'[u] = mine[u] /\ trans'[u] = trans[u]
    BY <1>2 DEF MachinePart, Domains, Becomes
  <2>2. MachinePlaced(u, requests[u], current[u], mine[u], trans[u], places)
    BY DEF MachinesPlaced
  <2>3. \A r : Gets(u, r, places) => Gets(u, r, places')
    BY PlacedWider DEF Gets, Wider
  <2> QED
    BY <2>1, <2>2, <2>3, PlacedWider DEF MachinePlaced
<1> QED
  BY <1>1, <1>2

LEMMA MachinesKept ==
  ASSUME MachinesPlaced, UNCHANGED machine, Wider(places')
  PROVE  MachinesPlaced'
<1> SUFFICES ASSUME NEW u \in Supplier
             PROVE  MachinePlaced(u, requests[u], current[u], mine[u], trans[u], places')
  BY DEF MachinesPlaced, MachinePlaced, Gets, Placed, At, machine
<1>1. MachinePlaced(u, requests[u], current[u], mine[u], trans[u], places)
  BY DEF MachinesPlaced
<1>2. \A r : Gets(u, r, places) => Gets(u, r, places')
  BY PlacedWider DEF Gets, Wider
<1> QED
  BY <1>1, <1>2, PlacedWider DEF MachinePlaced

LEMMA RestKept ==
  ASSUME Wider(places'), MetasPlaced, RecordsPlaced, NetPlaced(net, places),
         Placed(hired, places)
  PROVE  /\ UNCHANGED meta => MetasPlaced'
         /\ UNCHANGED record => RecordsPlaced'
         /\ \A n \in SUBSET net : NetPlaced(n, places')
         /\ Placed(hired, places')
<1>1. UNCHANGED meta => MetasPlaced'
  <2> SUFFICES ASSUME UNCHANGED meta, NEW s \in Supplier
               PROVE  MetaPlaced(s, meta[s], places')
    BY DEF MetasPlaced, MetaPlaced, Placed, At
  <2> QED
    BY PlacedWider DEF MetasPlaced, MetaPlaced, Wider
<1>2. UNCHANGED record => RecordsPlaced'
  <2> SUFFICES ASSUME UNCHANGED record, NEW h \in Holder PROVE Placed(record[h].list, places')
    BY DEF RecordsPlaced, Placed, At
  <2> QED
    BY PlacedWider DEF RecordsPlaced
<1>3. \A n \in SUBSET net : NetPlaced(n, places')
  BY PlacedWider DEF NetPlaced
<1> QED
  BY <1>1, <1>2, <1>3, PlacedWider

LEMMA NetAged ==
  ASSUME NEW pl, NEW s, NEW n, NetPlaced(n, pl)
  PROVE  NetPlaced(Late(n, s), pl) /\ NetPlaced(Gone(n, s), pl)
<1>1. ASSUME NEW m \in Late(n, s) PROVE Placed(m.info.list, pl)
  <2>1. PICK a \in n : m = IF Asker(a) = s /\ a.type \in {"review", "fail"} /\ a.age = "now"
                           THEN [a EXCEPT !.age = "late"] ELSE a
    BY DEF Late, Aged
  <2>2. [a EXCEPT !.age = "late"].info = a.info
    OBVIOUS
  <2> QED
    BY <2>1, <2>2 DEF NetPlaced
<1>2. ASSUME NEW m \in Gone(n, s) PROVE Placed(m.info.list, pl)
  <2>1. PICK a \in n : m = IF Asker(a) = s THEN [a EXCEPT !.age = "gone"] ELSE a
    BY DEF Gone, Aged
  <2>2. [a EXCEPT !.age = "gone"].info = a.info
    OBVIOUS
  <2> QED
    BY <2>1, <2>2 DEF NetPlaced
<1> QED
  BY <1>1, <1>2 DEF NetPlaced

LEMMA NoRequestGets == \A s, pl : Gets(s, NoRequest, pl)
  BY DEF Gets, NoRequest, Req, Placed

LEMMA ClosePlaced ==
  ASSUME MachinePart, MachinesPlaced, Wider(places'), NEW s \in Supplier, NEW n,
         NetPlaced(n, places'), Close(s, n)
  PROVE  MachinesPlaced' /\ NetPlaced(net', places')
<1>1. Becomes(s, "NONE", <<>>, NoRequest, NoInfo, NoInfo, 0, {}, 0, {})
  BY DEF Close, Becomes
<1>2. MachinePlaced(s, <<>>, NoRequest, NoInfo, NoInfo, places')
  BY EmptyPlaced, NoRequestGets DEF MachinePlaced
<1>3. net' = Gone(n, s)
  BY DEF Close
<1> QED
  BY <1>1, <1>2, <1>3, MachinesAfter, NetAged

LEMMA ArrivePlaced ==
  ASSUME MachinePart, MachinesPlaced, Wider(places'), NEW s \in Supplier, NEW st,
         NEW q, Queued(q), \A i \in DOMAIN q : Gets(s, q[i], places'),
         NEW my, Placed(my.list, places'), Arrive(s, st, q, my)
  PROVE  MachinesPlaced'
<1>1. CASE q = <<>>
  <2>1. Becomes(s, st, <<>>, NoRequest, my, NoInfo, 0, {}, 0, {})
    BY <1>1 DEF Arrive, Becomes
  <2>2. MachinePlaced(s, <<>>, NoRequest, my, NoInfo, places')
    BY EmptyPlaced, NoRequestGets DEF MachinePlaced
  <2> QED
    BY <2>1, <2>2, MachinesAfter
<1>2. CASE q # <<>>
  <2>1. Becomes(s, "DHT_READ", Tail(q), Head(q), my, NoInfo, 0, {}, 0, {})
    BY <1>2 DEF Arrive, Becomes
  <2>2. Gets(s, Head(q), places') /\ \A i \in DOMAIN Tail(q) : Gets(s, Tail(q)[i], places')
    BY <1>2, TailIs
  <2>3. MachinePlaced(s, Tail(q), Head(q), my, NoInfo, places')
    BY <2>2, EmptyPlaced DEF MachinePlaced
  <2> QED
    BY <2>1, <2>3, MachinesAfter
<1> QED
  BY <1>1, <1>2

\* What a machine holds, asked in pl.
LEMMA HoldsPlaced ==
  ASSUME MachinesPlaced, NEW pl, Wider(pl), NEW s \in Supplier
  PROVE  /\ Placed(mine[s].list, pl) /\ Placed(trans[s].list, pl)
         /\ Gets(s, current[s], pl) /\ \A i \in DOMAIN requests[s] : Gets(s, requests[s][i], pl)
<1>1. MachinePlaced(s, requests[s], current[s], mine[s], trans[s], places)
  BY DEF MachinesPlaced
<1>2. \A r : Gets(s, r, places) => Gets(s, r, pl)
  BY PlacedWider DEF Gets, Wider
<1> QED
  BY <1>1, <1>2, PlacedWider DEF MachinePlaced

LEMMA PushPlaced ==
  ASSUME MachinePart, MachinesPlaced, Wider(places'), NEW s \in Supplier, NEW r, Asks(r),
         Gets(s, r, places'), NEW my, Placed(my.list, places'), Push(s, r, my)
  PROVE  MachinesPlaced'
<1> DEFINE q == Append(requests[s], r)
<1>1. /\ requests[s] \in Seq(Requests) /\ r \in Requests /\ Len(requests[s]) <= MaxRequests
      /\ \A i \in DOMAIN requests[s] : Asks(requests[s][i])
  BY MachineTypes DEF Asks
<1>2. /\ q \in Seq(Requests) /\ Len(q) = Len(requests[s]) + 1
      /\ \A i \in DOMAIN q : (i \in DOMAIN requests[s] /\ q[i] = requests[s][i]) \/ q[i] = r
  BY <1>1, AppendIs
<1> HIDE DEF q
<1>3. \A i \in DOMAIN q : Gets(s, q[i], places')
  BY <1>2, HoldsPlaced
<1>4. Len(q) <= MaxRequests + 1
  BY <1>1, <1>2, FamilyAssumption
<1>5. Queued(q)
  BY <1>1, <1>2, <1>4 DEF Queued
<1>6. CASE state[s] \in {"CONNECTED", "DISCONNECTED"}
  <2>1. Arrive(s, state[s], q, my)
    BY <1>6 DEF Push, q
  <2> QED
    BY <1>3, <1>5, <2>1, ArrivePlaced
<1>7. CASE state[s] \notin {"CONNECTED", "DISCONNECTED"}
  <2>1. Becomes(s, state[s], q, current[s], my, trans[s], attempts[s], waiting[s],
                retries[s], refused[s])
    BY <1>7, SameIs DEF Push, Becomes, q
  <2>2. MachinePlaced(s, q, current[s], my, trans[s], places')
    BY <1>3, HoldsPlaced DEF MachinePlaced
  <2> QED
    BY <2>1, <2>2, MachinesAfter
<1> QED
  BY <1>6, <1>7

LEMMA WritePlaced ==
  ASSUME MachinePart, MachinesPlaced, RecordsPlaced, UNCHANGED places, NEW s \in Supplier,
         NEW info, Placed(info.list, places), NEW my, Placed(my.list, places),
         NEW att, NEW k, NEW n, NetPlaced(n, places), Write(s, info, my, att, k, n),
         RecordPart
  PROVE  MachinesPlaced' /\ NetPlaced(net', places') /\ RecordsPlaced'
<1> DEFINE e == {Packet("store", s, h, info, "now") : h \in Holder \cup {Nobody}}
<1>1. Wider(places')
  BY DEF Wider
<1>2. Becomes(s, "DHT_WRITE", requests[s], current[s], my, info, att, {}, k, {})
  BY SameIs DEF Write, Becomes
<1>3. MachinePlaced(s, requests[s], current[s], my, info, places')
  BY <1>1, HoldsPlaced DEF MachinePlaced
<1>4. MachinesPlaced'
  BY <1>1, <1>2, <1>3, MachinesAfter
<1>5. net' \subseteq Late(n, s) \cup e
  BY DEF Write
<1>6. \A m \in e : m.info = info
  BY DEF Packet
<1> HIDE DEF e
<1>7. NetPlaced(net', places')
  BY <1>5, <1>6, NetAged DEF NetPlaced
<1>8. \A h \in Holder : record'[h] = record[h] \/ record'[h] = info
  BY DEF Write, RecordPart
<1>9. RecordsPlaced'
  <2> SUFFICES ASSUME NEW h \in Holder PROVE Placed(record'[h].list, places')
    BY DEF RecordsPlaced, Placed, At
  <2> QED
    BY <1>8 DEF RecordsPlaced
<1> QED
  BY <1>4, <1>7, <1>9

LEMMA ConnectPlaced ==
  ASSUME MachinePart, MachinesPlaced, Wider(places'), NEW s \in Supplier,
         NEW my, Placed(my.list, places'), NEW n, NetPlaced(n, places'), Connect(s, my, n)
  PROVE  MachinesPlaced' /\ NetPlaced(net', places')
<1>1. CASE IsLeaving(s)
  BY <1>1, ClosePlaced DEF Connect
<1>2. CASE ~IsLeaving(s)
  <2>1. Arrive(s, "CONNECTED", requests[s], my) /\ net' = Late(n, s)
    BY <1>2 DEF Connect
  <2>2. Queued(requests[s])
    BY MachineTypes DEF Queued
  <2> QED
    BY <2>1, <2>2, HoldsPlaced, ArrivePlaced, NetAged
<1> QED
  BY <1>1, <1>2

LEMMA AskPlaced ==
  ASSUME MachinePart, MachinesPlaced, RecordsPlaced, RecordPart, UNCHANGED places,
         NEW s \in Supplier, NEW info, Placed(info.list, places),
         NEW my, Placed(my.list, places), NEW att, NEW n, NetPlaced(n, places),
         Ask(s, info, my, att, n)
  PROVE  MachinesPlaced' /\ NetPlaced(net', places') /\ RecordsPlaced'
<1> DEFINE others == Range(info.list) \ {s, Nobody}
           e == {Packet("review", s, o, info, "now") : o \in others}
<1>0. Wider(places')
  BY DEF Wider
<1>00. UNCHANGED record => RecordsPlaced'
  BY DEF RecordsPlaced, Placed, At
<1>1. CASE ~info.known
  <2>1. Connect(s, my, n) /\ UNCHANGED record
    BY <1>1 DEF Ask
  <2> QED
    BY <1>0, <1>00, <2>1, ConnectPlaced
<1>2. CASE info.known /\ others = {}
  <2>1. Write(s, info, my, att, 0, n)
    BY <1>2 DEF Ask
  <2> QED
    BY <2>1, WritePlaced
<1>3. CASE info.known /\ others # {}
  <2>1. /\ state' = [state EXCEPT ![s] = "SUPPLIERS"]
        /\ trans' = [trans EXCEPT ![s] = info]
        /\ mine' = [mine EXCEPT ![s] = my]
        /\ attempts' = [attempts EXCEPT ![s] = att]
        /\ waiting' = [waiting EXCEPT ![s] = others]
        /\ net' = Late(n, s) \cup e
        /\ UNCHANGED <<requests, current, retries, refused, record>>
    BY <1>3 DEF Ask
  <2>2. \A m \in e : m.info = info
    BY DEF Packet
  <2> HIDE DEF others, e
  <2>3. Becomes(s, "SUPPLIERS", requests[s], current[s], my, info, att, others,
                retries[s], refused[s])
    BY <2>1, SameIs DEF Becomes
  <2>4. MachinePlaced(s, requests[s], current[s], my, info, places')
    BY <1>0, HoldsPlaced DEF MachinePlaced
  <2>5. MachinesPlaced'
    BY <1>0, <2>3, <2>4, MachinesAfter
  <2>6. NetPlaced(net', places')
    BY <2>1, <2>2, NetAged DEF NetPlaced
  <2> QED
    BY <1>00, <2>1, <2>5, <2>6
<1> QED
  BY <1>1, <1>2, <1>3

LEMMA PlacesKept ==
  ASSUME UNCHANGED places
  PROVE  Wider(places')
  BY DEF Wider

LEMMA HiredKept ==
  ASSUME PlacePart, UNCHANGED customer
  PROVE  UNCHANGED places /\ Placed(hired, places)'
  BY DEF PlacePart, customer, Placed, At

LEMMA ReadAnsweredPlaced ==
  ASSUME IInv, PlacePart, NEW s \in Supplier, NEW dht \in Infos, Placed(dht.list, places),
         NEW n, NetPlaced(n, places), ReadAnswered(s, dht, n)
  PROVE  PlacePart'
<1> DEFINE base == Merged(dht, mine[s], current[s])
           my == MyInfo(s, base)
           t == Rebuilt(s, dht, base, my)
<1>1. /\ MachinePart /\ RecordPart /\ RestPart
      /\ MachinesPlaced /\ MetasPlaced /\ RecordsPlaced
  BY DEF IInv, PlacePart
<1>2. state[s] \in Busy /\ UNCHANGED <<stored, customer>>
  BY DEF ReadAnswered, Busy
<1>3. mine[s] \in Infos /\ Asks(current[s]) /\ current[s] \in Requests
  BY <1>1, <1>2, MachineTypes
<1>4. UNCHANGED places /\ Wider(places) /\ Wider(places') /\ Placed(hired, places)'
  BY <1>2, HiredKept DEF Wider
<1>5. Placed(mine[s].list, places) /\ Gets(s, current[s], places)
  BY <1>1, <1>4, HoldsPlaced
<1>6. base \in Infos /\ Placed(base.list, places)
  BY <1>3, <1>5, MergedIs, MergedPlaced DEF Gets
<1> HIDE DEF base
<1>7. my \in Infos /\ Placed(my.list, places)
  BY <1>1, <1>3, <1>5, <1>6, MyInfoIs, PossiblePlaced DEF MyInfo
<1> HIDE DEF my
<1>8. Placed(t.list, places)
  BY <1>3, <1>5, <1>6, <1>7, RebuiltPlaced
<1> HIDE DEF t
<1>9. MetasPlaced'
  BY <1>1, <1>2, <1>4 DEF MetasPlaced, MetaPlaced, Placed, At, stored
<1>10. MachinesPlaced' /\ NetPlaced(net', places') /\ RecordsPlaced'
  <2>1. CASE IsMyPositionOK(s, dht) /\ ~IsLeaving(s)
    <3>1. Connect(s, mine[s], n) /\ UNCHANGED record
      BY <2>1 DEF ReadAnswered
    <3>2. RecordsPlaced'
      BY <1>1, <1>4, <3>1 DEF RecordsPlaced, Placed, At
    <3> QED
      BY <1>1, <1>4, <1>5, <3>1, <3>2, ConnectPlaced
  <2>2. CASE IsMyPositionOK(s, dht) /\ IsLeaving(s)
    <3>1. Write(s, t, my, attempts[s], 0, n)
      BY <2>2 DEF ReadAnswered, t, my, base
    <3> QED
      BY <1>1, <1>4, <1>7, <1>8, <3>1, WritePlaced
  <2>3. CASE ~IsMyPositionOK(s, dht)
    <3>1. Ask(s, t, my, attempts[s] + 1, n)
      BY <2>3 DEF ReadAnswered, t, my, base
    <3> QED
      BY <1>1, <1>4, <1>7, <1>8, <3>1, AskPlaced
  <2> QED
    BY <2>1, <2>2, <2>3
<1> QED
  BY <1>4, <1>9, <1>10 DEF PlacePart, NetPlaced

LEMMA ReadPlaced ==
  \A s \in Supplier : IInv /\ PlacePart /\ (ReadExist(s) \/ ReadNotExist(s)) => PlacePart'
<1> SUFFICES ASSUME NEW s \in Supplier, IInv, PlacePart, ReadExist(s) \/ ReadNotExist(s)
             PROVE  PlacePart'
  OBVIOUS
<1>1. NetPlaced(net, places) /\ RecordsPlaced /\ RecordPart
  BY DEF IInv, PlacePart
<1>2. CASE ReadExist(s)
  <2>1. PICK h \in Holder, g \in Holder \cup {Nobody} :
          ReadAnswered(s, record[h],
              net \cup IF g = Nobody THEN {} ELSE {Packet("store", s, g, record[h], "gone")})
    BY <1>2 DEF ReadExist
  <2> DEFINE p == Packet("store", s, g, record[h], "gone")
             n == net \cup IF g = Nobody THEN {} ELSE {p}
  <2>2. record[h] \in Infos /\ Placed(record[h].list, places) /\ p.info = record[h]
    BY <1>1 DEF RecordPart, RecordsPlaced, Packet
  <2>3. ReadAnswered(s, record[h], n)
    BY <2>1
  <2> HIDE DEF p
  <2>4. NetPlaced(n, places)
    BY <1>1, <2>2 DEF NetPlaced
  <2> HIDE DEF n
  <2> QED
    BY <2>2, <2>3, <2>4, ReadAnsweredPlaced
<1>3. CASE ReadNotExist(s)
  BY <1>1, <1>3, NoInfoIs, EmptyPlaced, ReadAnsweredPlaced DEF ReadNotExist
<1> QED
  BY <1>2, <1>3

LEMMA ReadFailPlaced == \A s \in Supplier : IInv /\ PlacePart /\ ReadFail(s) => PlacePart'
<1> SUFFICES ASSUME NEW s \in Supplier, IInv, PlacePart, ReadFail(s) PROVE PlacePart'
  OBVIOUS
<1>1. /\ Arrive(s, "DISCONNECTED", requests[s], mine[s])
      /\ UNCHANGED <<stored, record, net, customer>>
  BY DEF ReadFail
<1>2. UNCHANGED places /\ Wider(places') /\ Placed(hired, places)' /\ UNCHANGED meta
  BY <1>1, HiredKept, PlacesKept DEF stored
<1>3. MachinePart /\ MachinesPlaced
  BY DEF IInv, PlacePart
<1>4. Queued(requests[s])
  BY <1>3, MachineTypes DEF Queued
<1>5. MachinesPlaced'
  BY <1>1, <1>2, <1>3, <1>4, HoldsPlaced, ArrivePlaced
<1>6. MetasPlaced' /\ RecordsPlaced' /\ NetPlaced(net, places')
  BY <1>1, <1>2, RestKept DEF PlacePart
<1> QED
  BY <1>1, <1>2, <1>5, <1>6 DEF PlacePart, NetPlaced

\* The transaction that is written, again or for the first time.
LEMMA WrittenPlaced ==
  ASSUME IInv, PlacePart, NEW s \in Supplier, NEW info, info.list = trans[s].list,
         NEW att, NEW k, Write(s, info, mine[s], att, k, net),
         UNCHANGED <<stored, customer>>
  PROVE  PlacePart'
<1>1. /\ MachinePart /\ RecordPart /\ MachinesPlaced /\ MetasPlaced /\ RecordsPlaced
      /\ NetPlaced(net, places)
  BY DEF IInv, PlacePart
<1>2. /\ UNCHANGED places /\ Wider(places') /\ Wider(places) /\ Placed(hired, places)'
      /\ UNCHANGED meta
  BY HiredKept DEF Wider, stored
<1>3. Placed(info.list, places) /\ Placed(mine[s].list, places)
  BY <1>1, <1>2, HoldsPlaced
<1>4. MachinesPlaced' /\ NetPlaced(net', places') /\ RecordsPlaced'
  BY <1>1, <1>2, <1>3, WritePlaced
<1>5. MetasPlaced'
  BY <1>1, <1>2 DEF MetasPlaced, MetaPlaced, Placed, At
<1> QED
  BY <1>2, <1>4, <1>5 DEF PlacePart, NetPlaced

LEMMA AckPlaced == \A m \in net : IInv /\ PlacePart /\ ReceiveAck(m) => PlacePart'
<1> SUFFICES ASSUME NEW m \in net, IInv, PlacePart, ReceiveAck(m) PROVE PlacePart'
  OBVIOUS
<1> DEFINE s == m.to
           left == waiting[s] \ {m.from}
<1>1. s \in Supplier /\ UNCHANGED <<stored, customer>>
  BY DEF ReceiveAck, IInv, NetOK, Fits
<1>2. CASE left = {}
  BY <1>1, <1>2, WrittenPlaced DEF ReceiveAck, Agreed
<1>3. CASE left # {}
  <2>1. /\ net' = net \ {m}
        /\ UNCHANGED <<requests, current, mine, trans, record>>
    BY <1>3 DEF ReceiveAck, Drop
  <2>2. UNCHANGED places /\ Wider(places') /\ Placed(hired, places)' /\ UNCHANGED meta
    BY <1>1, HiredKept, PlacesKept DEF stored
  <2>3. MetasPlaced' /\ RecordsPlaced' /\ NetPlaced(net', places')
    BY <2>1, <2>2, RestKept DEF PlacePart
  <2>4. MachinesPlaced'
    BY <2>1, <2>2 DEF PlacePart, MachinesPlaced, MachinePlaced, Gets, Placed, At
  <2> QED
    BY <2>2, <2>3, <2>4 DEF PlacePart, NetPlaced
<1> QED
  BY <1>2, <1>3

LEMMA FailPlaced == \A m \in net : IInv /\ PlacePart /\ ReceiveFail(m) => PlacePart'
<1> SUFFICES ASSUME NEW m \in net, IInv, PlacePart, ReceiveFail(m) PROVE PlacePart'
  OBVIOUS
<1> DEFINE s == m.to
           t == Solved(trans[s], m.from, m.info.list)
<1>1. /\ s \in Supplier /\ m.from \in Supplier /\ m.info.list \in Lists
      /\ Placed(m.info.list, places) /\ UNCHANGED <<stored, customer>>
  BY DEF ReceiveFail, IInv, NetOK, Fits, Packets, Infos, Lists, PlacePart, NetPlaced
<1>2. /\ UNCHANGED places /\ Wider(places') /\ Wider(places) /\ Placed(hired, places)'
      /\ UNCHANGED meta
  BY <1>1, HiredKept DEF Wider, stored
<1>3. /\ MachinePart /\ RecordPart /\ MachinesPlaced /\ RecordsPlaced /\ MetasPlaced
      /\ NetPlaced(net \ {m}, places)
  BY DEF IInv, PlacePart, NetPlaced
<1>4. CASE state[s] = "SUPPLIERS"
  <2>1. Ask(s, t, mine[s], attempts[s], net \ {m})
    BY <1>4 DEF ReceiveFail
  <2>2. trans[s] \in Infos /\ Placed(trans[s].list, places) /\ Placed(mine[s].list, places)
    BY <1>1, <1>2, <1>3, MachineTypes, HoldsPlaced
  <2>3. Placed(t.list, places)
    BY <1>1, <2>2, SolvedPlaced
  <2> HIDE DEF t, s
  <2>4. MachinesPlaced' /\ NetPlaced(net', places') /\ RecordsPlaced'
    BY <1>1, <1>2, <1>3, <2>1, <2>2, <2>3, AskPlaced
  <2>5. MetasPlaced'
    BY <1>2, <1>3 DEF MetasPlaced, MetaPlaced, Placed, At
  <2> QED
    BY <1>2, <2>4, <2>5 DEF PlacePart, NetPlaced
<1>5. CASE state[s] # "SUPPLIERS"
  <2>1. net' = net \ {m} /\ UNCHANGED <<machine, record>>
    BY <1>5 DEF ReceiveFail, Drop
  <2>2. MetasPlaced' /\ RecordsPlaced' /\ NetPlaced(net', places')
    BY <1>2, <2>1, RestKept DEF PlacePart
  <2>3. MachinesPlaced'
    BY <1>2, <1>3, <2>1, MachinesKept
  <2> QED
    BY <1>2, <2>2, <2>3 DEF PlacePart, NetPlaced
<1> QED
  BY <1>4, <1>5

LEMMA StorePlaced ==
  \A m \in net, b \in BOOLEAN : IInv /\ PlacePart /\ StoreArrives(m, b) => PlacePart'
<1> SUFFICES ASSUME NEW m \in net, NEW b \in BOOLEAN, IInv, PlacePart, StoreArrives(m, b)
             PROVE  PlacePart'
  OBVIOUS
<1>1. /\ net' = net \ {m} /\ UNCHANGED <<requests, current, mine, trans, stored, customer>>
      /\ record' = record \/ record' = [record EXCEPT ![m.to] = m.info]
  BY DEF StoreArrives, Drop
<1>2. UNCHANGED places /\ Wider(places') /\ Placed(hired, places)' /\ UNCHANGED meta
  BY <1>1, HiredKept, PlacesKept DEF stored
<1>3. MetasPlaced' /\ NetPlaced(net', places')
  BY <1>1, <1>2, RestKept DEF PlacePart
<1>4. MachinesPlaced'
  BY <1>1, <1>2 DEF PlacePart, MachinesPlaced, MachinePlaced, Gets, Placed, At
<1>5. \A h \in Holder : record'[h] = record[h] \/ record'[h] = m.info
  BY <1>1 DEF IInv, RecordPart
<1>6. RecordsPlaced'
  <2> SUFFICES ASSUME NEW h \in Holder PROVE Placed(record'[h].list, places)
    BY <1>2 DEF RecordsPlaced, Placed, At
  <2> QED
    BY <1>5 DEF PlacePart, RecordsPlaced, NetPlaced
<1> QED
  BY <1>2, <1>3, <1>4, <1>6 DEF PlacePart, NetPlaced

\* A write ends: the machine connects, writes again, gives up or reads again.
LEMMA WriteEndsPlaced ==
  \A s \in Supplier :
      IInv /\ PlacePart /\ (WriteDone(s) \/ WriteAgain(s) \/ WriteFailed(s)) => PlacePart'
<1> SUFFICES ASSUME NEW s \in Supplier, IInv, PlacePart,
                    WriteDone(s) \/ WriteAgain(s) \/ WriteFailed(s)
             PROVE  PlacePart'
  OBVIOUS
<1>1. UNCHANGED <<stored, customer>>
  BY DEF WriteDone, WriteAgain, WriteFailed
<1>2. /\ UNCHANGED places /\ Wider(places') /\ Wider(places) /\ Placed(hired, places)'
      /\ UNCHANGED meta
  BY <1>1, HiredKept DEF Wider, stored
<1>3. MachinePart /\ MachinesPlaced /\ NetPlaced(net, places) /\ NetPlaced(net, places')
  BY <1>2 DEF IInv, PlacePart
<1>4. /\ Placed(mine[s].list, places') /\ Placed(trans[s].list, places')
      /\ \A i \in DOMAIN requests[s] : Gets(s, requests[s][i], places')
  BY <1>2, <1>3, HoldsPlaced
<1>5. ASSUME UNCHANGED record, MachinesPlaced', NetPlaced(net', places') PROVE PlacePart'
  <2>1. MetasPlaced' /\ RecordsPlaced'
    BY <1>2, <1>5, RestKept DEF PlacePart
  <2> QED
    BY <1>2, <1>5, <2>1 DEF PlacePart, NetPlaced
<1>6. CASE WriteDone(s)
  <2>1. Connect(s, trans[s], net) /\ UNCHANGED record
    BY <1>6 DEF WriteDone
  <2> QED
    BY <1>2, <1>3, <1>4, <1>5, <2>1, ConnectPlaced
<1>7. CASE WriteAgain(s)
  <2>1. PICK rev \in refused[s] :
          Write(s, Info(rev + 1, trans[s].list), mine[s], attempts[s], retries[s] + 1, net)
    BY <1>7 DEF WriteAgain
  <2> QED
    BY <1>1, <2>1, InfoPlaced, WrittenPlaced
<1>8. CASE WriteFailed(s)
  <2>0. UNCHANGED record
    BY <1>8 DEF WriteFailed
  <2>1. CASE IsLeaving(s)
    BY <1>2, <1>3, <1>5, <1>8, <2>0, <2>1, ClosePlaced DEF WriteFailed
  <2>2. CASE ~IsLeaving(s) /\ attempts[s] > MaxAttempts
    <3>1. Arrive(s, "DISCONNECTED", requests[s], mine[s]) /\ UNCHANGED net
      BY <1>8, <2>2 DEF WriteFailed
    <3>2. Queued(requests[s])
      BY <1>3, MachineTypes DEF Queued
    <3> QED
      BY <1>2, <1>3, <1>4, <1>5, <2>0, <3>1, <3>2, ArrivePlaced
  <2>3. CASE ~IsLeaving(s) /\ ~(attempts[s] > MaxAttempts)
    <3>1. /\ state' = [state EXCEPT ![s] = "DHT_READ"]
          /\ trans' = [trans EXCEPT ![s] = NoInfo]
          /\ retries' = [retries EXCEPT ![s] = 0] /\ refused' = [refused EXCEPT ![s] = {}]
          /\ UNCHANGED <<requests, current, mine, attempts, waiting, net>>
      BY <1>8, <2>3 DEF WriteFailed
    <3>2. Becomes(s, "DHT_READ", requests[s], current[s], mine[s], NoInfo, attempts[s],
                  waiting[s], 0, {})
      BY <1>3, <3>1, SameIs DEF Becomes
    <3>3. MachinePlaced(s, requests[s], current[s], mine[s], NoInfo, places')
      BY <1>2, <1>3, HoldsPlaced, EmptyPlaced DEF MachinePlaced
    <3>4. MachinesPlaced'
      BY <1>2, <1>3, <3>2, <3>3, MachinesAfter
    <3> QED
      BY <1>3, <1>5, <2>0, <3>1, <3>4
  <2> QED
    BY <2>1, <2>2, <2>3
<1> QED
  BY <1>6, <1>7, <1>8

LEMMA RefreshGets == \A s, pl : Gets(s, Refresh, pl)
  BY DEF Gets, Refresh, Req, Placed

LEMMA TickPlaced == \A s \in Supplier : IInv /\ PlacePart /\ RefreshTick(s) => PlacePart'
<1> SUFFICES ASSUME NEW s \in Supplier, IInv, PlacePart, RefreshTick(s) PROVE PlacePart'
  OBVIOUS
<1>1. Push(s, Refresh, mine[s]) /\ UNCHANGED <<stored, record, net, customer>>
  BY DEF RefreshTick
<1>2. UNCHANGED places /\ Wider(places') /\ Placed(hired, places)' /\ UNCHANGED meta
  BY <1>1, HiredKept, PlacesKept DEF stored
<1>3. MachinePart /\ MachinesPlaced
  BY DEF IInv, PlacePart
<1>4. MachinesPlaced'
  BY <1>1, <1>2, <1>3, HoldsPlaced, RefreshIs, RefreshGets, PushPlaced
<1>5. MetasPlaced' /\ RecordsPlaced' /\ NetPlaced(net, places')
  BY <1>1, <1>2, RestKept DEF PlacePart
<1> QED
  BY <1>1, <1>2, <1>4, <1>5 DEF PlacePart, NetPlaced

LEMMA ReviewPlaced == \A m \in net : IInv /\ PlacePart /\ ReceiveReview(m) => PlacePart'
<1> SUFFICES ASSUME NEW m \in net, IInv, PlacePart, ReceiveReview(m) PROVE PlacePart'
  OBVIOUS
<1> DEFINE s == m.to
           my == mine[s]
           new == FromAnother(s, m.info)
           p == PositionOf(m.info.list, s)
           q == PositionOf(my.list, s)
<1>1. /\ s \in Supplier /\ m.info \in Infos /\ Placed(m.info.list, places)
      /\ UNCHANGED <<record, customer>>
  BY DeliveredIs DEF ReceiveReview, PlacePart, NetPlaced
<1>2. /\ UNCHANGED places /\ Wider(places') /\ Wider(places) /\ Placed(hired, places)'
  BY <1>1, HiredKept DEF Wider
<1>3. /\ MachinePart /\ RestPart /\ MachinesPlaced /\ MetasPlaced /\ NetPlaced(net, places)
  BY DEF IInv, PlacePart
<1>4. Placed(my.list, places) /\ Placed(new.list, places)
  BY <1>1, <1>2, <1>3, HoldsPlaced, FromAnotherPlaced
<1>5. RecordsPlaced' /\ (UNCHANGED meta => MetasPlaced')
  BY <1>1, <1>2, RestKept DEF PlacePart
<1>6. ASSUME NEW type, NEW info, Placed(info.list, places), Answer(m, type, info)
      PROVE  NetPlaced(net', places')
  <2>1. Packet(type, m.to, m.from, info, m.age).info = info
    BY DEF Packet
  <2> QED
    BY <1>2, <1>3, <1>6, <2>1 DEF Answer, NetPlaced
<1>7. SUFFICES MachinesPlaced' /\ MetasPlaced' /\ NetPlaced(net', places')
  BY <1>2, <1>5 DEF PlacePart, NetPlaced
<1>8. UNCHANGED machine => MachinesPlaced'
  BY <1>2, <1>3, MachinesKept
<1>9. ASSUME NEW info, Placed(info.list, places), Push(s, Refresh, info) PROVE MachinesPlaced'
  <2> HIDE DEF s
  <2> QED
    BY <1>1, <1>2, <1>3, <1>9, RefreshIs, RefreshGets, PushPlaced
<1>10. CASE state[s] = "NONE"
  <2>1. net' = net \ {m} /\ UNCHANGED <<machine, meta>>
    BY <1>10 DEF ReceiveReview, Drop
  <2> QED
    BY <1>2, <1>3, <1>5, <1>8, <2>1 DEF NetPlaced
<1>11. CASE state[s] # "NONE" /\ ~my.known
  <2>1. Answer(m, "ack", NoInfo) /\ UNCHANGED <<machine, meta>>
    BY <1>11 DEF ReceiveReview
  <2> QED
    BY <1>5, <1>6, <1>8, <2>1, EmptyPlaced
<1>12. CASE state[s] # "NONE" /\ my.known /\ m.info.rev >= my.rev
  <2>1. /\ Answer(m, "ack", NoInfo) /\ Push(s, Refresh, new)
        /\ meta' = IF meta[s].pos > 0
                   THEN [meta EXCEPT ![s] = Meta(TRUE, meta[s].pos, new.list)] ELSE meta
    <3>1. my \in Infos
      BY <1>1, <1>3, MachineTypes
    <3>2. m.info.rev \in Nat /\ my.rev \in Nat
      BY <1>1, <3>1, InfoTypes
    <3>3. ~(m.info.rev < my.rev)
      BY <1>12, <3>2
    <3> QED
      BY <1>12, <3>3 DEF ReceiveReview
  <2>2. MachinesPlaced' /\ NetPlaced(net', places')
    BY <1>4, <1>6, <1>9, <2>1, EmptyPlaced
  <2>3. MetaPlaced(s, Meta(TRUE, meta[s].pos, new.list), places')
    BY <1>1, <1>2, <1>3, <1>4 DEF MetasPlaced, MetaPlaced, Meta
  <2> HIDE DEF s, new
  <2>4. MetasPlaced'
    <3> SUFFICES ASSUME NEW u \in Supplier PROVE MetaPlaced(u, meta'[u], places')
      BY DEF MetasPlaced, MetaPlaced, Placed, At
    <3>1. MetaPlaced(u, meta[u], places')
      BY <1>2, <1>3 DEF MetasPlaced
    <3> QED
      BY <1>3, <2>1, <2>3, <3>1 DEF RestPart
  <2> QED
    BY <2>2, <2>4
<1>13. CASE /\ state[s] # "NONE" /\ my.known /\ ~(m.info.rev >= my.rev)
            /\ m.info.rev < my.rev /\ p > 0 /\ p = q
  <2>1. Answer(m, "ack", NoInfo) /\ Push(s, Refresh, my) /\ UNCHANGED meta
    BY <1>13 DEF ReceiveReview
  <2> QED
    BY <1>4, <1>5, <1>6, <1>9, <2>1, EmptyPlaced
<1>14. CASE /\ state[s] # "NONE" /\ my.known /\ ~(m.info.rev >= my.rev)
            /\ ~(m.info.rev < my.rev /\ p > 0 /\ p = q)
  <2>1. Answer(m, "fail", my) /\ UNCHANGED <<machine, meta>>
    BY <1>14 DEF ReceiveReview
  <2> QED
    BY <1>4, <1>5, <1>6, <1>8, <2>1
<1> QED
  BY <1>10, <1>11, <1>12, <1>13, <1>14

LEMMA GivenWider ==
  ASSUME RestPart, NEW s \in Supplier, NEW pos, Given(s, pos)
  PROVE  Wider(places') /\ pos \in places'[s]
  BY DEF RestPart, Given, Wider

\* A supplier is asked with a list of the customer and a position that is given to it.
LEMMA AcceptPlaced ==
  ASSUME IInv, PlacePart, NEW s \in Supplier, NEW known \in BOOLEAN, NEW pos \in 0..Count,
         NEW snap \in Lists, Placed(snap, places), Accept(s, known, pos, snap)
  PROVE  /\ MachinesPlaced' /\ MetasPlaced' /\ RecordsPlaced' /\ NetPlaced(net', places')
         /\ Wider(places') /\ pos \in places'[s]
<1> DEFINE r == Req("join", known, pos, snap)
           heard == s \in running /\ (s \notin client \/ (pos > 0 /\ state[s] # "NONE"))
<1>1. MachinePart /\ RestPart /\ MachinesPlaced /\ MetasPlaced
  BY DEF IInv, PlacePart
<1>2. /\ meta' = (IF s \notin client THEN meta
                  ELSE [meta EXCEPT ![s] = Meta(known, pos, snap)])
      /\ UNCHANGED <<record, net>> /\ Given(s, pos)
  BY DEF Accept
<1>3. Wider(places') /\ pos \in places'[s]
  BY <1>1, <1>2, GivenWider
<1>4. Placed(snap, places')
  BY <1>3, PlacedWider
<1>5. Gets(s, r, places') /\ Asks(r)
  <2>1. r.snap = snap /\ r.pos = pos
    BY DEF Req
  <2>2. Asks(r)
    BY JoinIs
  <2> HIDE DEF r
  <2> QED
    BY <1>3, <1>4, <2>1, <2>2 DEF Gets
<1>6. RecordsPlaced' /\ NetPlaced(net', places') /\ (UNCHANGED meta => MetasPlaced')
  BY <1>2, <1>3, RestKept DEF PlacePart
<1>7. MetasPlaced'
  <2>1. CASE s \notin client
    BY <1>2, <1>6, <2>1
  <2>2. CASE s \in client
    <3>1. MetaPlaced(s, Meta(known, pos, snap), places')
      BY <1>3, <1>4 DEF MetaPlaced, Meta
    <3> SUFFICES ASSUME NEW u \in Supplier PROVE MetaPlaced(u, meta'[u], places')
      BY DEF MetasPlaced, MetaPlaced, Placed, At
    <3>2. MetaPlaced(u, meta[u], places')
      BY <1>1, <1>3, PlacedWider DEF MetasPlaced, MetaPlaced, Wider
    <3>3. meta'[u] = meta[u] \/ (u = s /\ meta'[u] = Meta(known, pos, snap))
      BY <1>1, <1>2 DEF RestPart
    <3> QED
      BY <3>1, <3>2, <3>3
  <2> QED
    BY <2>1, <2>2
<1>8. MachinesPlaced'
  <2>1. CASE ~heard
    <3>1. UNCHANGED machine
      BY <2>1 DEF Accept
    <3> QED
      BY <1>1, <1>3, <3>1, MachinesKept
  <2>2. CASE heard /\ state[s] = "NONE"
    <3>1. Arrive(s, "DISCONNECTED", <<r>>, NoInfo)
      BY <2>2 DEF Accept
    <3>2. Queued(<<r>>)
      BY JoinIs
    <3> HIDE DEF r
    <3>3. \A i \in DOMAIN <<r>> : Gets(s, <<r>>[i], places')
      BY <1>5
    <3> QED
      BY <1>1, <1>3, <3>1, <3>2, <3>3, EmptyPlaced, ArrivePlaced
  <2>3. CASE heard /\ state[s] # "NONE"
    <3>1. Push(s, r, mine[s])
      BY <2>3 DEF Accept
    <3> HIDE DEF r
    <3>2. Placed(mine[s].list, places')
      BY <1>1, <1>3, HoldsPlaced
    <3> QED
      BY <1>1, <1>3, <1>5, <3>1, <3>2, PushPlaced
  <2> QED
    BY <2>1, <2>2, <2>3
<1> QED
  BY <1>3, <1>6, <1>7, <1>8

LEMMA HirePlaced ==
  \A s \in Supplier, p \in Position : IInv /\ PlacePart /\ Hire(s, p) => PlacePart'
<1> SUFFICES ASSUME NEW s \in Supplier, NEW p \in Position, IInv, PlacePart, Hire(s, p)
             PROVE  PlacePart'
  OBVIOUS
<1>1. hired' = [hired EXCEPT ![p] = s] /\ Accept(s, TRUE, p, hired)
  BY DEF Hire
<1>2. hired \in Lists /\ p \in 0..Count /\ Placed(hired, places)
  BY HiredIs DEF Position, IInv, PlacePart
<1>3. /\ MachinesPlaced' /\ MetasPlaced' /\ RecordsPlaced' /\ NetPlaced(net', places')
      /\ Wider(places') /\ p \in places'[s]
  BY <1>1, <1>2, AcceptPlaced
<1>4. Placed(hired', places')
  BY <1>1, <1>2, <1>3, PlacedWider, ChangePlaced DEF At
<1> QED
  BY <1>3, <1>4 DEF PlacePart, NetPlaced, Placed, At

\* Asked again, a supplier is given the position it has, or none.
LEMMA ReconnectPlaced ==
  \A s \in Supplier, b \in BOOLEAN : IInv /\ PlacePart /\ Reconnect(s, b) => PlacePart'
<1> SUFFICES ASSUME NEW s \in Supplier, NEW b \in BOOLEAN, IInv, PlacePart, Reconnect(s, b)
             PROVE  PlacePart'
  OBVIOUS
<1>1. hired \in Lists /\ PositionOf(hired, s) \in 0..Count /\ Placed(hired, places)
  BY HiredIs, PositionIs DEF IInv, PlacePart
<1>2. PICK known \in BOOLEAN, pos \in 0..Count, snap \in Lists :
        Placed(snap, places) /\ Accept(s, known, pos, snap)
  <2>1. CASE b
    <3>1. Accept(s, FALSE, 0, <<>>)
      BY <2>1, Zenon DEF Reconnect
    <3>2. 0 \in 0..Count /\ <<>> \in Lists /\ Placed(<<>>, places)
      BY EmptyPlaced DEF Lists
    <3> QED
      BY <3>1, <3>2
  <2>2. CASE ~b
    <3>1. Accept(s, TRUE, PositionOf(hired, s), hired)
      BY <2>2, Zenon DEF Reconnect
    <3> QED
      BY <1>1, <3>1
  <2> QED
    BY <2>1, <2>2
<1>3. /\ MachinesPlaced' /\ MetasPlaced' /\ RecordsPlaced' /\ NetPlaced(net', places')
      /\ Wider(places')
  BY <1>2, AcceptPlaced
<1>4. Placed(hired', places')
  BY <1>1, <1>3, PlacedWider DEF Reconnect
<1> QED
  BY <1>3, <1>4 DEF PlacePart, NetPlaced, Placed, At

LEMMA CancelPlaced ==
  \A s \in Supplier, b \in BOOLEAN : IInv /\ PlacePart /\ Cancel(s, b) => PlacePart'
<1> SUFFICES ASSUME NEW s \in Supplier, NEW b \in BOOLEAN, IInv, PlacePart, Cancel(s, b)
             PROVE  PlacePart'
  OBVIOUS
<1> DEFINE r == Req("leave", b, 0, <<>>)
<1>1. meta' = [meta EXCEPT ![s] = Bare] /\ UNCHANGED <<record, net, customer>>
  BY DEF Cancel
<1>2. UNCHANGED places /\ Wider(places') /\ Placed(hired, places)'
  BY <1>1, HiredKept, PlacesKept
<1>3. MachinePart /\ RestPart /\ MachinesPlaced
  BY DEF IInv, PlacePart
<1>4. MachinesPlaced'
  <2>1. CASE s \in running /\ state[s] # "NONE"
    <3>1. Push(s, r, mine[s])
      BY <2>1 DEF Cancel
    <3>2. Asks(r) /\ Gets(s, r, places')
      BY DEF Req, Asks, Requests, Lists, Gets, Placed
    <3> HIDE DEF r
    <3> QED
      BY <1>2, <1>3, <3>1, <3>2, HoldsPlaced, PushPlaced
  <2>2. CASE ~(s \in running /\ state[s] # "NONE")
    <3>1. UNCHANGED machine
      BY <2>2 DEF Cancel
    <3> QED
      BY <1>2, <1>3, <3>1, MachinesKept
  <2> QED
    BY <2>1, <2>2
<1>5. MetasPlaced'
  <2>1. MetaPlaced(s, Bare, places)
    BY DEF MetaPlaced, Bare, Meta, Placed
  <2> QED
    BY <1>1, <1>2, <1>3, <2>1 DEF PlacePart, MetasPlaced, RestPart, MetaPlaced, Placed, At
<1>6. RecordsPlaced' /\ NetPlaced(net, places')
  BY <1>1, <1>2, RestKept DEF PlacePart
<1> QED
  BY <1>1, <1>2, <1>4, <1>5, <1>6 DEF PlacePart, NetPlaced

LEMMA StopPlaced == \A s \in Supplier : IInv /\ PlacePart /\ Stop(s) => PlacePart'
<1> SUFFICES ASSUME NEW s \in Supplier, IInv, PlacePart, Stop(s) PROVE PlacePart'
  OBVIOUS
<1>1. /\ UNCHANGED <<meta, record, customer>>
      /\ IF state[s] = "NONE" THEN UNCHANGED <<machine, net>> ELSE Close(s, net)
  BY DEF Stop
<1>2. UNCHANGED places /\ Wider(places') /\ Placed(hired, places)'
  BY <1>1, HiredKept, PlacesKept
<1>3. MetasPlaced' /\ RecordsPlaced' /\ NetPlaced(net, places')
  BY <1>1, <1>2, RestKept DEF PlacePart
<1>4. MachinesPlaced' /\ NetPlaced(net', places')
  <2>1. CASE state[s] = "NONE"
    BY <1>1, <1>2, <1>3, <2>1, MachinesKept DEF PlacePart
  <2>2. CASE state[s] # "NONE"
    BY <1>1, <1>2, <1>3, <2>2, ClosePlaced DEF PlacePart, IInv
  <2> QED
    BY <2>1, <2>2
<1> QED
  BY <1>2, <1>3, <1>4 DEF PlacePart, NetPlaced

\* A node started again asks itself to take the position it has stored.
LEMMA StartPlaced == \A s \in Supplier : IInv /\ PlacePart /\ Start(s) => PlacePart'
<1> SUFFICES ASSUME NEW s \in Supplier, IInv, PlacePart, Start(s) PROVE PlacePart'
  OBVIOUS
<1> DEFINE r == Req("join", meta[s].known, meta[s].pos, meta[s].snap)
<1>1. /\ UNCHANGED <<meta, record, net, hired>>
      /\ IF s \in client THEN Arrive(s, "DISCONNECTED", <<r>>, NoInfo) /\ Given(s, meta[s].pos)
                         ELSE UNCHANGED <<machine, places>>
  BY DEF Start
<1>2. MachinePart /\ RestPart /\ MachinesPlaced /\ MetasPlaced
  BY DEF IInv, PlacePart
<1>3. Wider(places')
  BY <1>1, <1>2, GivenWider, PlacesKept
<1>4. MetasPlaced' /\ RecordsPlaced' /\ NetPlaced(net, places') /\ Placed(hired, places')
  BY <1>1, <1>3, RestKept DEF PlacePart
<1>5. MachinesPlaced'
  <2>1. CASE s \in client
    <3>1. Queued(<<r>>)
      BY <1>2, MetaTypes, JoinIs
    <3>2. Gets(s, r, places')
      <4>1. r.snap = meta[s].snap /\ r.pos = meta[s].pos
        BY DEF Req
      <4>2. meta[s].pos \in places'[s]
        BY <1>1, <1>2, <2>1, GivenWider
      <4>3. Placed(meta[s].snap, places')
        BY <1>2, <1>3, PlacedWider DEF MetasPlaced, MetaPlaced
      <4> HIDE DEF r
      <4> QED
        BY <4>1, <4>2, <4>3 DEF Gets
    <3> HIDE DEF r
    <3>3. \A i \in DOMAIN <<r>> : Gets(s, <<r>>[i], places')
      BY <3>2
    <3> QED
      BY <1>1, <1>2, <1>3, <2>1, <3>1, <3>3, EmptyPlaced, ArrivePlaced
  <2>2. CASE s \notin client
    BY <1>1, <1>2, <1>3, <2>2, MachinesKept
  <2> QED
    BY <2>1, <2>2
<1> QED
  BY <1>1, <1>4, <1>5 DEF PlacePart, NetPlaced, Placed, At

\* A record that expires, a packet that is lost and a step of somebody else.
LEMMA LessPlaced ==
  ASSUME IInv, PlacePart, UNCHANGED <<machine, stored, customer>>, net' \subseteq net,
         \A h \in Holder : record'[h] = record[h] \/ record'[h] = NoInfo
  PROVE  PlacePart'
<1>1. UNCHANGED places /\ Wider(places') /\ Placed(hired, places)' /\ UNCHANGED meta
  BY HiredKept, PlacesKept DEF stored
<1>2. MetasPlaced' /\ NetPlaced(net', places')
  BY <1>1, RestKept DEF PlacePart
<1>3. MachinesPlaced'
  BY <1>1, MachinesKept DEF PlacePart
<1>4. RecordsPlaced'
  <2> SUFFICES ASSUME NEW h \in Holder PROVE Placed(record'[h].list, places)
    BY <1>1 DEF RecordsPlaced, Placed, At
  <2> QED
    BY EmptyPlaced DEF PlacePart, RecordsPlaced
<1> QED
  BY <1>1, <1>2, <1>3, <1>4 DEF PlacePart, NetPlaced

LEMMA InitPlaced == Init => PlacePart
<1> SUFFICES ASSUME Init PROVE PlacePart
  OBVIOUS
<1>1. MachinesPlaced
  BY EmptyPlaced, NoRequestGets DEF Init, MachinesPlaced, MachinePlaced
<1>2. MetasPlaced
  BY EmptyPlaced DEF Init, MetasPlaced, MetaPlaced, Bare, Meta
<1>3. NetPlaced(net, places) /\ RecordsPlaced
  BY EmptyPlaced DEF Init, NetPlaced, RecordsPlaced
<1>4. Placed(hired, places)
  BY DEF Init, Placed
<1> QED
  BY <1>1, <1>2, <1>3, <1>4 DEF PlacePart

LEMMA NextPlaced == IInv /\ PlacePart /\ [Next]_vars => PlacePart'
<1> SUFFICES ASSUME IInv, PlacePart, [Next]_vars PROVE PlacePart'
  OBVIOUS
<1>1. ASSUME NEW s \in Supplier, Machine(s) PROVE PlacePart'
  <2>1. CASE ReviewTimeout(s)
    BY <2>1, WrittenPlaced DEF ReviewTimeout, Agreed
  <2> QED
    BY <1>1, <2>1, ReadPlaced, WriteEndsPlaced DEF Machine
<1>2. ASSUME NEW s \in Supplier, ReadFail(s) \/ RefreshTick(s) \/ Stop(s) \/ Start(s)
      PROVE  PlacePart'
  BY <1>2, ReadFailPlaced, TickPlaced, StopPlaced, StartPlaced
<1>3. ASSUME NEW s \in Supplier, NEW p \in Position, Hire(s, p) PROVE PlacePart'
  BY <1>3, HirePlaced
<1>4. ASSUME NEW s \in Supplier, NEW b \in BOOLEAN, Reconnect(s, b) \/ Cancel(s, b)
      PROVE  PlacePart'
  BY <1>4, ReconnectPlaced, CancelPlaced
<1>5. ASSUME NEW m \in net, Deliver(m) PROVE PlacePart'
  BY <1>5, ReviewPlaced, AckPlaced, FailPlaced DEF Deliver
<1>6. ASSUME NEW m \in net, NEW b \in BOOLEAN, StoreArrives(m, b) PROVE PlacePart'
  BY <1>6, StorePlaced
<1>7. ASSUME NEW m \in net, Lose(m) PROVE PlacePart'
  BY <1>7, LessPlaced DEF Lose, Drop
<1>8. ASSUME NEW h \in Holder, Expire(h) PROVE PlacePart'
  <2>1. /\ record' = [record EXCEPT ![h] = NoInfo]
        /\ UNCHANGED <<machine, stored, net, customer>>
    BY <1>8 DEF Expire
  <2>2. \A g \in Holder : record'[g] = record[g] \/ record'[g] = NoInfo
    BY <2>1 DEF IInv, RecordPart
  <2> QED
    BY <2>1, <2>2, LessPlaced
<1>9. CASE UNCHANGED vars
  BY <1>9, LessPlaced DEF vars
<1> QED
  BY <1>1, <1>2, <1>3, <1>4, <1>5, <1>6, <1>7, <1>8, <1>9 DEF Next

-----------------------------------------------------------------------------
(* The theorems                                                            *)

\* The invariant holds in every state a family reaches.
THEOREM Invariance == Spec => []IInv
<1> QED
  BY InitInv, NextInv, PTL DEF Spec

\* Every variable keeps its type, with all faults and a customer of any kind: no
\* handler reads a list, an info or a request that another one did not leave there,
\* and a machine has a transaction exactly while it reviews or writes it.
THEOREM TypeCorrect == Spec => []TypeOK
<1>1. IInv => TypeOK
  <2> SUFFICES ASSUME IInv PROVE TypeOK
    OBVIOUS
  <2>1. MachinePart /\ NetOK(net) /\ RecordPart /\ RestPart
    BY DEF IInv
  <2>2. /\ state \in [Supplier -> States]
        /\ requests \in [Supplier -> Seq(Requests)]
        /\ current \in [Supplier -> Requests]
        /\ mine \in [Supplier -> Infos] /\ trans \in [Supplier -> Infos]
        /\ attempts \in [Supplier -> Nat] /\ retries \in [Supplier -> 0..MaxRetries]
        /\ waiting \in [Supplier -> SUBSET Supplier] /\ refused \in [Supplier -> SUBSET Nat]
    BY <2>1, MachineTypes DEF MachinePart, Domains
  <2>3. net \subseteq Packets
    BY <2>1 DEF NetOK, Fits
  <2>4. \A s \in Supplier :
          /\ Len(requests[s]) <= MaxRequests
          /\ trans[s].known <=> state[s] \in {"SUPPLIERS", "DHT_WRITE"}
    BY <2>1, MachineTypes
  <2> QED
    BY <2>1, <2>2, <2>3, <2>4 DEF TypeOK, RestPart, RecordPart, Metas, Packets
<1> QED
  BY <1>1, Invariance, PTL

\* A started node that serves the customer has a machine for it, whatever joins,
\* leaves and restarts of the service it has seen, when the customer asks a supplier
\* again only after its machine was closed.
THEOREM MembersRun == ASSUME Patient PROVE Spec => []MemberRuns
<1>1. IInv => MemberRuns
  BY DEF IInv, MemberInv, MemberRuns
<1> QED
  BY <1>1, Invariance, PTL

\* A record of the family names a supplier only at a position the customer gave to
\* it, or anywhere when the customer asked it to take any: no review, conflict, stale
\* snapshot, correction of a revision or restart moves a supplier somewhere else.
THEOREM PlacesKeptTo == Spec => []OnItsPlace
<1>1. PlacePart => OnItsPlace
  <2> SUFFICES ASSUME PlacePart, NEW h \in Holder, NEW i \in DOMAIN record[h].list,
                      record[h].list[i] # Nobody
               PROVE  {0, i} \cap places[record[h].list[i]] # {}
    BY DEF OnItsPlace
  <2> QED
    BY DEF PlacePart, RecordsPlaced, Placed, At
<1> QED
  BY <1>1, InitPlaced, NextPlaced, Invariance, PTL DEF Spec

=============================================================================
