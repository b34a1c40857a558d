---------------------------- MODULE FamilyMember ----------------------------
(***************************************************************************)
(* The suppliers of one customer keep the list of themselves in the DHT:   *)
(* the state machine family_member() of supplier/family_member.py, run by  *)
(* every supplier for the customer, with service_customer_family and       *)
(* service_supplier that feed it and the rules by which a DHT node accepts *)
(* a record (dht/dht_service.py, dht/entangled/kademlia/node.py).          *)
(*                                                                         *)
(* A request to join, leave or refresh is queued; one at a time is pulled, *)
(* the DHT record is read, a transaction is built from the record, from    *)
(* the supplier's own info and from the request, the other suppliers of    *)
(* the transaction review it, and it is written with the next revision.    *)
(*                                                                         *)
(* The machine is "fast": an event runs the whole chain of handlers before *)
(* it returns, so a chain is one step.  A list of suppliers is a sequence  *)
(* of names and Nobody, positions count from 1 and 0 is an unknown         *)
(* position.  The customer keeps its number of suppliers and its identity; *)
(* the packet supplier_position, which nothing sends, is left out.         *)
(***************************************************************************)
EXTENDS Naturals, Sequences, FiniteSets, SequencesExt, FiniteSetsExt

CONSTANTS
    Supplier,      \* the nodes that may be suppliers of the customer
    Holder,        \* the DHT nodes that keep the record of the family
    OwnHolder,     \* OwnHolder[s]: the holder run by s itself, or Nobody
    Nobody,        \* the empty name in a list of suppliers
    Count,         \* the number of suppliers the ecc_map asks for
    MaxRetries,    \* late revisions corrected by one write (3)
    MaxAttempts,   \* Attempts after which a failed write gives up (3)
    MaxCustomer,   \* bound: requests of the customer
    Fault,         \* the kinds of faults that may happen
    MaxFaults,     \* bound: faults, each of another kind
    Patient,       \* whether the customer asks a supplier again only when it left
    MaxRevision,   \* bound: no new refresh when a revision is that high
    MaxRequests    \* bound: requests waiting in one machine

ASSUME FamilyAssumption ==
    /\ Nobody \notin Supplier /\ Nobody \notin Holder
    /\ OwnHolder \in [Supplier -> Holder \cup {Nobody}]
    /\ Count \in Nat \ {0}
    /\ {MaxRetries, MaxAttempts, MaxCustomer, MaxFaults, MaxRevision, MaxRequests}
           \subseteq Nat
    /\ Fault \subseteq {"lost", "silent", "read", "expired", "stop"}
    /\ Patient \in BOOLEAN

VARIABLES
    running,   \* the nodes whose service_customer_family is started
    state,     \* state[s]: state of the machine of s, "NONE" when there is none
    requests,  \* requests[s]: the queue of requests
    current,   \* current[s]: current_request
    mine,      \* mine[s]: my_info
    trans,     \* trans[s]: transaction
    attempts,  \* attempts[s]: Attempts
    waiting,   \* waiting[s]: suppliers_requests, by the supplier asked
    retries,   \* retries[s]: argument of _do_write_transaction()
    refused,   \* refused[s]: revisions reported by holders that refused the write
    client,    \* the suppliers that have the customer in their customers list
    meta,      \* meta[s]: the stored customer meta info of s
    record,    \* record[h]: the record at holder h
    net,       \* packets between suppliers and store calls to holders
    hired,     \* the customer's own list of suppliers
    asked,     \* requests the customer made so far
    places,    \* places[s]: positions s was ever asked to take, 0 for any
    faults     \* the faults that happened

machine == <<state, requests, current, mine, trans, attempts, waiting, retries, refused>>
stored == <<running, client, meta>>
customer == <<hired, asked, places>>
vars == <<machine, stored, record, net, customer, faults>>

States == {"NONE", "DISCONNECTED", "DHT_READ", "SUPPLIERS", "DHT_WRITE", "CONNECTED"}
Position == 1..Count
Names == Supplier \cup {Nobody}

Info(rev, list) == [known |-> TRUE, rev |-> rev, list |-> list]
NoInfo == [known |-> FALSE, rev |-> 0, list |-> <<>>]
Valid(info) == info.rev >= 1 /\ Len(info.list) >= 1

\* A request, and what the node stores about the customer.  "known" says
\* that the ecc_map, and with it the number of suppliers, is known.
Req(cmd, known, pos, snap) == [cmd |-> cmd, known |-> known, pos |-> pos, snap |-> snap]
Refresh == Req("refresh", FALSE, 0, <<>>)
NoRequest == Req("none", FALSE, 0, <<>>)
Meta(known, pos, snap) == [known |-> known, pos |-> pos, snap |-> snap]
Bare == Meta(FALSE, 0, <<>>)

\* A packet or a store call.  "now" belongs to the running review or write
\* of the machine it is answered to, "late" to an earlier review, and "gone"
\* to a machine that was closed.
Ages == {"now", "late", "gone"}
Packet(type, s, t, info, age) ==
    [type |-> type, from |-> s, to |-> t, info |-> info, age |-> age]
Asker(m) == IF m.type \in {"review", "store"} THEN m.from ELSE m.to

-----------------------------------------------------------------------------
(* Lists and revisions *)

PositionOf(list, s) ==
    IF s \in Range(list) THEN Min({i \in DOMAIN list : list[i] = s}) ELSE 0
Fit(list) == [i \in Position |-> IF i <= Len(list) THEN list[i] ELSE Nobody]
\* s is moved from where it is to position p, whoever is there
Put(list, s, p) ==
    LET q == PositionOf(list, s)
    IN [i \in DOMAIN list |-> IF i = p THEN s ELSE IF i = q THEN Nobody ELSE list[i]]
FillFrom(list, snap) ==
    [i \in DOMAIN list |-> IF list[i] = Nobody /\ i <= Len(snap) THEN snap[i] ELSE list[i]]

\* _do_detect_latest_revision(), _do_merge_revisions(), _do_create_first_revision()
Merged(dht, my, r) ==
    LET d == IF Valid(dht) THEN dht ELSE NoInfo
        m == IF Valid(my) THEN my ELSE NoInfo
    IN CASE d.rev = 0 /\ m.rev = 0 -> Info(0, r.snap)
         [] m.rev > d.rev          -> Info(m.rev, Fit(m.list))
         [] OTHER                  -> Info(d.rev, Fit(d.list))

MutJoined(s, base, r) ==
    LET list == Fit(base.list)
        placed == IF r.pos > 0 /\ list[r.pos] \in {s, Nobody} THEN Put(list, s, r.pos)
                  ELSE IF s \in Range(list) THEN list
                  ELSE IF Nobody \in Range(list)
                       THEN [list EXCEPT ![PositionOf(list, Nobody)] = s]
                  ELSE Append(list, s)
    IN IF base.rev > 0 \/ r.known \/ meta[s].known
       THEN Info(base.rev, FillFrom(placed, r.snap)) ELSE NoInfo
\* _do_process_family_join_request(); NoInfo stands for None
Joined(s, base, r) ==
    LET list == Fit(base.list)
        placed == IF r.pos > 0 THEN Put(list, s, r.pos)
                  ELSE IF s \in Range(list) THEN list
                  ELSE IF Nobody \in Range(list)
                       THEN [list EXCEPT ![PositionOf(list, Nobody)] = s]
                  ELSE Append(list, s)
    IN IF base.rev > 0 \/ r.known \/ meta[s].known
       THEN Info(base.rev, FillFrom(placed, r.snap)) ELSE NoInfo

\* _do_process_family_leave_request()
Left(s, base, r) ==
    LET p == PositionOf(base.list, s)
        list == Fit(base.list)
    IN IF base.rev > 0 \/ r.known
       THEN Info(base.rev, IF p \in Position THEN [list EXCEPT ![p] = Nobody] ELSE list)
       ELSE NoInfo

\* _do_create_possible_revision()
Possible(s, rev) ==
    LET snap == meta[s].snap
        p == meta[s].pos
    IN Info(rev, IF p \in DOMAIN snap /\ s \notin Range(snap)
                 THEN [snap EXCEPT ![p] = s] ELSE snap)

\* _do_process_family_refresh_request()
Refreshed(s, base, my) ==
    LET p == PositionOf(my.list, s)
    IN IF my.rev > base.rev THEN my
       ELSE IF p \in Position THEN Info(base.rev, Put(Fit(base.list), s, p))
       ELSE NoInfo

\* _do_increment_revision()
Incremented(t, dht, r) ==
    IF ~t.known \/ (dht.known /\ dht.list = t.list /\ r.cmd # "leave")
    THEN NoInfo ELSE Info(t.rev + 1, t.list)

\* doRebuildFamily(): a "refresh" without my_info makes a possible one first
MyInfo(s, base) ==
    IF current[s].cmd = "refresh" /\ ~mine[s].known
    THEN Possible(s, base.rev) ELSE mine[s]
Rebuilt(s, dht, base, my) ==
    LET r == current[s]
        changed == [join |-> Joined(s, base, r), leave |-> Left(s, base, r),
                    refresh |-> Refreshed(s, base, my)]
    IN Incremented(changed[r.cmd], dht, r)

\* isMyPositionOK(): the first position of a list is never found correct
IsMyPositionOK(s, dht) ==
    LET p == PositionOf(dht.list, s)
    IN /\ dht.known
       /\ \/ current[s].cmd = "leave" /\ p = 0
          \/ Valid(mine[s]) /\ p > 1 /\ p = PositionOf(mine[s].list, s)
IsLeaving(s) == current[s].cmd = "leave"

\* validate_before_store()
Accepts(h, info) ==
    \/ ~record[h].known
    \/ info.rev > record[h].rev
    \/ info.rev = record[h].rev /\ info.list = record[h].list

-----------------------------------------------------------------------------
(* The chains of handlers.  Each sets the variables of "machine" and net;  *)
(* only a write touches the records.                                       *)

\* The packets of the review of s become late, those of a closed machine are
\* answered to nobody; an answer nobody looks at is dropped.
Aged(n, s, age) ==
    {m \in n : ~(Asker(m) = s /\ (m.type = "ack" \/ (m.type = "fail" /\ age = "gone")))}
Late(n, s) ==
    {IF Asker(m) = s /\ m.type \in {"review", "fail"} /\ m.age = "now"
     THEN [m EXCEPT !.age = "late"] ELSE m : m \in Aged(n, s, "late")}
Gone(n, s) ==
    {IF Asker(m) = s THEN [m EXCEPT !.age = "gone"] ELSE m :
         m \in {a \in Aged(n, s, "gone") : a.to # Nobody}}

MutClose(s, n) ==
    /\ state' = [state EXCEPT ![s] = "NONE"]
    /\ net' = Gone(n, s)
    /\ UNCHANGED <<requests, current, mine, trans, attempts, waiting, retries, refused>>
\* doDestroyMe()
Close(s, n) ==
    /\ state' = [state EXCEPT ![s] = "NONE"]
    /\ requests' = [requests EXCEPT ![s] = <<>>]
    /\ current' = [current EXCEPT ![s] = NoRequest]
    /\ mine' = [mine EXCEPT ![s] = NoInfo]
    /\ trans' = [trans EXCEPT ![s] = NoInfo]
    /\ attempts' = [attempts EXCEPT ![s] = 0]
    /\ waiting' = [waiting EXCEPT ![s] = {}]
    /\ retries' = [retries EXCEPT ![s] = 0]
    /\ refused' = [refused EXCEPT ![s] = {}]
    /\ net' = Gone(n, s)

\* The machine arrives at CONNECTED or DISCONNECTED and "instant" pulls the
\* next request.
Arrive(s, st, queue, my) ==
    /\ state' = [state EXCEPT ![s] = IF queue = <<>> THEN st ELSE "DHT_READ"]
    /\ requests' = [requests EXCEPT ![s] = IF queue = <<>> THEN queue ELSE Tail(queue)]
    /\ current' = [current EXCEPT ![s] = IF queue = <<>> THEN NoRequest ELSE Head(queue)]
    /\ mine' = [mine EXCEPT ![s] = my]
    /\ trans' = [trans EXCEPT ![s] = NoInfo]
    /\ attempts' = [attempts EXCEPT ![s] = 0]
    /\ waiting' = [waiting EXCEPT ![s] = {}]
    /\ retries' = [retries EXCEPT ![s] = 0]
    /\ refused' = [refused EXCEPT ![s] = {}]

\* doNotifyConnected()
Connect(s, my, n) ==
    IF IsLeaving(s) THEN Close(s, n)
    ELSE Arrive(s, "CONNECTED", requests[s], my) /\ net' = Late(n, s)

\* doPush() and the "instant" that may follow it
Push(s, r, my) ==
    IF state[s] \in {"CONNECTED", "DISCONNECTED"}
    THEN Arrive(s, state[s], Append(requests[s], r), my)
    ELSE /\ requests' = [requests EXCEPT ![s] = Append(@, r)]
         /\ mine' = [mine EXCEPT ![s] = my]
         /\ UNCHANGED <<state, current, trans, attempts, waiting, retries, refused>>

\* _do_write_transaction(): the holder run by s itself is asked at once, and
\* when it refuses the write is never answered, storeRPCsFailed() raises.
Write(s, info, my, att, k, n) ==
    LET own == OwnHolder[s]
        stores == {Packet("store", s, h, info, "now") : h \in Holder \ {own}}
        ok == own = Nobody \/ Accepts(own, info)
    IN /\ state' = [state EXCEPT ![s] = "DHT_WRITE"]
       /\ trans' = [trans EXCEPT ![s] = info]
       /\ mine' = [mine EXCEPT ![s] = my]
       /\ attempts' = [attempts EXCEPT ![s] = att]
       /\ waiting' = [waiting EXCEPT ![s] = {}]
       /\ retries' = [retries EXCEPT ![s] = k]
       /\ refused' = [refused EXCEPT ![s] = {}]
       /\ record' = IF own # Nobody /\ ok THEN [record EXCEPT ![own] = info] ELSE record
       /\ net' = Late(n, s) \cup stores
                   \cup IF ok THEN {} ELSE {Packet("store", s, Nobody, info, "now")}
       /\ UNCHANGED <<requests, current>>

\* doRequestSuppliersReview()
Ask(s, info, my, att, n) ==
    LET others == Range(info.list) \ {s, Nobody}
    IN CASE ~info.known -> Connect(s, my, n) /\ UNCHANGED record
         [] info.known /\ others = {} -> Write(s, info, my, att, 0, n)
         [] OTHER ->
              /\ state' = [state EXCEPT ![s] = "SUPPLIERS"]
              /\ trans' = [trans EXCEPT ![s] = info]
              /\ mine' = [mine EXCEPT ![s] = my]
              /\ attempts' = [attempts EXCEPT ![s] = att]
              /\ waiting' = [waiting EXCEPT ![s] = others]
              /\ net' = Late(n, s) \cup {Packet("review", s, o, info, "now") : o \in others}
              /\ UNCHANGED <<requests, current, retries, refused, record>>

\* all-suppliers-agree or timer-10sec in SUPPLIERS, where there is a transaction
Agreed(s) == Write(s, trans[s], mine[s], attempts[s], 0, net)

-----------------------------------------------------------------------------
(* The machine *)

Init ==
    /\ running = Supplier /\ client = {}
    /\ state = [s \in Supplier |-> "NONE"]
    /\ requests = [s \in Supplier |-> <<>>]
    /\ current = [s \in Supplier |-> NoRequest]
    /\ mine = [s \in Supplier |-> NoInfo] /\ trans = [s \in Supplier |-> NoInfo]
    /\ attempts = [s \in Supplier |-> 0] /\ retries = [s \in Supplier |-> 0]
    /\ waiting = [s \in Supplier |-> {}] /\ refused = [s \in Supplier |-> {}]
    /\ meta = [s \in Supplier |-> Bare]
    /\ record = [h \in Holder |-> NoInfo]
    /\ net = {}
    /\ hired = [p \in Position |-> Nobody]
    /\ asked = 0 /\ places = [s \in Supplier |-> {}] /\ faults = {}

Happens(kind) ==
    /\ kind \in Fault \ faults /\ Cardinality(faults) < MaxFaults
    /\ faults' = faults \cup {kind}
NoFault == UNCHANGED faults

\* dht-value-exist and dht-value-not-exist, with what was read
ReadAnswered(s, dht, n) ==
    /\ state[s] = "DHT_READ"
    /\ \E base \in {Merged(dht, mine[s], current[s])} :
       \E my \in {MyInfo(s, base)} : \E t \in {Rebuilt(s, dht, base, my)} :
         CASE IsMyPositionOK(s, dht) /\ ~IsLeaving(s) ->
                  Connect(s, mine[s], n) /\ UNCHANGED record
           [] IsMyPositionOK(s, dht) /\ IsLeaving(s) ->
                  Write(s, t, my, attempts[s], 0, n)
           [] OTHER -> Ask(s, t, my, attempts[s] + 1, n)
    /\ UNCHANGED <<stored, customer>>

\* The search ends with the first holders that answer with a value, and takes
\* the latest revision of them; one that lacks the value (g) may be given it.
ReadExist(s) ==
    \E h \in Holder, g \in Holder \cup {Nobody} :
        /\ record[h].known /\ Len(record[h].list) > 0
        /\ g # Nobody => ~record[g].known
        /\ ReadAnswered(s, record[h],
               net \cup IF g = Nobody THEN {} ELSE {Packet("store", s, g, record[h], "gone")})
        /\ NoFault

\* No value at all, or nobody who has it answered
ReadNotExist(s) ==
    /\ ReadAnswered(s, NoInfo, net)
    /\ IF \A h \in Holder : Len(record[h].list) = 0 THEN NoFault ELSE Happens("silent")

\* dht-read-fail: the request that was being processed is gone
ReadFail(s) ==
    /\ state[s] = "DHT_READ"
    /\ Happens("read")
    /\ Arrive(s, "DISCONNECTED", requests[s], mine[s])
    /\ UNCHANGED <<stored, record, net, customer>>

MutReviewTimeout(s) == FALSE /\ UNCHANGED vars
\* timer-10sec in SUPPLIERS
ReviewTimeout(s) ==
    /\ state[s] = "SUPPLIERS"
    /\ Agreed(s)
    /\ UNCHANGED <<stored, customer, faults>>

Drop(m) == net' = net \ {m}
Answer(m, type, info) ==
    net' = (net \ {m}) \cup IF m.age = "gone" \/ (type = "ack" /\ m.age = "late") THEN {}
                            ELSE {Packet(type, m.to, m.from, info, m.age)}

\* _do_create_revision_from_another_supplier(): I insist on my known position
FromAnother(s, info) ==
    IF meta[s].pos \in DOMAIN info.list
    THEN [info EXCEPT !.list[meta[s].pos] = s] ELSE info
\* _on_incoming_suppliers_list()
ReceiveReview(m) ==
    LET s == m.to
        my == mine[s]
        new == FromAnother(s, m.info)
        p == PositionOf(m.info.list, s)
        q == PositionOf(my.list, s)
    IN /\ m.type = "review"
       /\ Len(requests[s]) < MaxRequests
       /\ CASE state[s] = "NONE" ->
                  Drop(m) /\ UNCHANGED <<machine, meta>>
            [] state[s] # "NONE" /\ ~my.known ->
                  Answer(m, "ack", NoInfo) /\ UNCHANGED <<machine, meta>>
            [] state[s] # "NONE" /\ my.known /\ m.info.rev >= my.rev ->
                  /\ Answer(m, "ack", NoInfo)
                  /\ Push(s, Refresh, new)
                  /\ meta' = IF meta[s].pos > 0
                             THEN [meta EXCEPT ![s] = Meta(TRUE, @.pos, new.list)] ELSE meta
            [] state[s] # "NONE" /\ my.known /\ m.info.rev < my.rev /\ p > 0 /\ p = q ->
                  Answer(m, "ack", NoInfo) /\ Push(s, Refresh, my) /\ UNCHANGED meta
            [] OTHER ->
                  Answer(m, "fail", my) /\ UNCHANGED <<machine, meta>>
       /\ UNCHANGED <<running, client, record, customer, faults>>

\* _on_supplier_ack()
ReceiveAck(m) ==
    LET s == m.to
        left == waiting[s] \ {m.from}
    IN /\ m.type = "ack"
       /\ IF left = {} THEN Agreed(s)
          ELSE /\ waiting' = [waiting EXCEPT ![s] = left]
               /\ Drop(m)
               /\ UNCHANGED <<state, requests, current, mine, trans, attempts,
                              retries, refused, record>>
       /\ UNCHANGED <<stored, customer, faults>>

\* doSolveConflict(): the other takes the position it claims, when it is free
Solved(t, other, list) ==
    LET p == PositionOf(list, other)
    IN IF p \in DOMAIN t.list /\ t.list[p] = Nobody
       THEN [t EXCEPT !.list[p] = other] ELSE NoInfo
\* _on_supplier_fail(): the answer may belong to an earlier review
ReceiveFail(m) ==
    LET s == m.to
    IN /\ m.type = "fail"
       /\ IF state[s] = "SUPPLIERS"
          THEN LET t == Solved(trans[s], m.from, m.info.list)
               IN Ask(s, t, mine[s], attempts[s], net \ {m})
          ELSE Drop(m) /\ UNCHANGED <<machine, record>>
       /\ UNCHANGED <<stored, customer, faults>>

\* A holder takes or refuses the record; its reply may be lost
StoreArrives(m, heard) ==
    LET h == m.to
    IN /\ m.type = "store" /\ h # Nobody
       /\ Drop(m)
       /\ record' = IF Accepts(h, m.info) THEN [record EXCEPT ![h] = m.info] ELSE record
       /\ refused' = IF Accepts(h, m.info) \/ m.age = "gone" \/ ~heard THEN refused
                     ELSE [refused EXCEPT ![m.from] = @ \cup {record[h].rev}]
       /\ IF heard THEN NoFault ELSE Happens("lost")
       /\ UNCHANGED <<state, requests, current, mine, trans, attempts, waiting, retries,
                      stored, customer>>

Lose(m) ==
    /\ m.to # Nobody
    /\ Happens("lost")
    /\ Drop(m)
    /\ UNCHANGED <<machine, stored, record, customer>>

Unanswered(s) == {m \in net : m.type = "store" /\ m.from = s /\ m.age = "now"}
\* validate_data_written(), _on_dht_write_success()
WriteDone(s) ==
    /\ state[s] = "DHT_WRITE" /\ Unanswered(s) = {}
    /\ refused[s] = {}
    /\ Connect(s, trans[s], net)
    /\ UNCHANGED <<stored, record, customer, faults>>

\* _on_dht_write_failed(): a late revision is corrected and written again
WriteAgain(s) ==
    /\ state[s] = "DHT_WRITE" /\ Unanswered(s) = {}
    /\ retries[s] < MaxRetries
    /\ \E rev \in refused[s] :
           Write(s, Info(rev + 1, trans[s].list), mine[s], attempts[s], retries[s] + 1, net)
    /\ UNCHANGED <<stored, customer, faults>>

WriteFailed(s) ==
    /\ state[s] = "DHT_WRITE" /\ Unanswered(s) = {}
    /\ refused[s] # {} /\ retries[s] = MaxRetries
    /\ CASE IsLeaving(s) -> Close(s, net)
         [] ~IsLeaving(s) /\ attempts[s] > MaxAttempts ->
                Arrive(s, "DISCONNECTED", requests[s], mine[s]) /\ UNCHANGED net
         [] OTHER ->
                /\ state' = [state EXCEPT ![s] = "DHT_READ"]
                /\ trans' = [trans EXCEPT ![s] = NoInfo]
                /\ retries' = [retries EXCEPT ![s] = 0]
                /\ refused' = [refused EXCEPT ![s] = {}]
                /\ UNCHANGED <<requests, current, mine, attempts, waiting, net>>
    /\ UNCHANGED <<stored, record, customer, faults>>

MutRefreshTick(s) == FALSE /\ UNCHANGED vars
\* _on_family_refresh_task()
RefreshTick(s) ==
    /\ state[s] = "CONNECTED"
    /\ \/ client = Range(hired) \ {Nobody} /\ faults \subseteq {"lost"}
       \/ \A h \in Holder : record[h].rev < MaxRevision
    /\ Push(s, Refresh, mine[s])
    /\ UNCHANGED <<stored, record, net, customer, faults>>

-----------------------------------------------------------------------------
(* The customer, the service of the node and the holders *)

\* s is asked, or asks itself, to join at pos
Given(s, pos) == places' = [places EXCEPT ![s] = @ \cup {pos}]

\* service_supplier.request(), the events it sends and their subscribers in
\* service_customer_family.  add_customer_meta_info() drops the first info.
Accept(s, known, pos, snap) ==
    LET new == s \notin client
        r == Req("join", known, pos, snap)
        heard == s \in running /\ (new \/ (pos > 0 /\ state[s] # "NONE"))
    IN /\ Len(requests[s]) < MaxRequests
       /\ client' = client \cup {s}
       /\ meta' = IF new THEN meta ELSE [meta EXCEPT ![s] = Meta(known, pos, snap)]
       /\ CASE ~heard -> UNCHANGED machine
            [] heard /\ state[s] = "NONE" -> Arrive(s, "DISCONNECTED", <<r>>, NoInfo)
            [] OTHER -> Push(s, r, mine[s])
       /\ Given(s, pos)
       /\ UNCHANGED <<running, record, net>>

MoreAsked == asked < MaxCustomer /\ asked' = asked + 1

\* A new supplier is asked with the list as it is and put into it when it
\* accepts; who was there before is dismissed next.
Hire(s, p) ==
    /\ s \notin Range(hired)
    /\ Patient => s \notin client /\ state[s] = "NONE"
    /\ MoreAsked
    /\ hired' = [hired EXCEPT ![p] = s]
    /\ Accept(s, TRUE, p, hired)
    /\ UNCHANGED faults

\* doConnectSuppliers() asks every supplier again; a connector that only saw
\* the supplier come back asks with no position.
Reconnect(s, blind) ==
    /\ s \in Range(hired)
    /\ MoreAsked
    /\ IF blind THEN Accept(s, FALSE, 0, <<>>)
       ELSE Accept(s, TRUE, PositionOf(hired, s), hired)
    /\ UNCHANGED <<hired, faults>>

\* service_supplier.cancel()
Cancel(s, known) ==
    /\ s \in client
    /\ s \notin Range(hired)
    /\ Len(requests[s]) < MaxRequests
    /\ client' = client \ {s}
    /\ meta' = [meta EXCEPT ![s] = Bare]
    /\ IF s \in running /\ state[s] # "NONE"
       THEN Push(s, Req("leave", known, 0, <<>>), mine[s]) ELSE UNCHANGED machine
    /\ UNCHANGED <<running, record, net, customer, faults>>

\* service_customer_family.stop(), or the end of the program
Stop(s) ==
    /\ s \in running
    /\ Happens("stop")
    /\ running' = running \ {s}
    /\ IF state[s] = "NONE" THEN UNCHANGED <<machine, net>> ELSE Close(s, net)
    /\ UNCHANGED <<client, meta, record, customer>>

MutStart(s) ==
    /\ s \notin running
    /\ running' = running \cup {s}
    /\ UNCHANGED <<machine, client, meta, record, net, customer, faults>>
\* service_customer_family.start()
Start(s) ==
    /\ s \notin running
    /\ running' = running \cup {s}
    /\ IF s \in client
       THEN /\ Arrive(s, "DISCONNECTED",
                      <<Req("join", meta[s].known, meta[s].pos, meta[s].snap)>>, NoInfo)
            /\ Given(s, meta[s].pos)
       ELSE UNCHANGED <<machine, places>>
    /\ UNCHANGED <<client, meta, record, net, hired, asked, faults>>

\* The record of a holder expires after an hour
Expire(h) ==
    /\ record[h].known
    /\ Happens("expired")
    /\ record' = [record EXCEPT ![h] = NoInfo]
    /\ UNCHANGED <<machine, stored, net, customer>>

Machine(s) ==
    \/ ReadExist(s) \/ ReadNotExist(s) \/ ReviewTimeout(s)
    \/ WriteDone(s) \/ WriteAgain(s) \/ WriteFailed(s)
Deliver(m) == ReceiveReview(m) \/ ReceiveAck(m) \/ ReceiveFail(m)

Next ==
    \/ \E s \in Supplier :
         \/ Machine(s) \/ ReadFail(s) \/ RefreshTick(s) \/ Stop(s) \/ Start(s)
         \/ \E p \in Position : Hire(s, p)
         \/ \E b \in BOOLEAN : Reconnect(s, b) \/ Cancel(s, b)
    \/ \E m \in net : Deliver(m) \/ Lose(m) \/ \E b \in BOOLEAN : StoreArrives(m, b)
    \/ \E h \in Holder : Expire(h)

Spec == Init /\ [][Next]_vars

\* Reads, reviews and writes are bounded by timers, a member looks at its place
\* again and again, and the customer's cleanup reaches a dismissed supplier.
Node(s) == Machine(s) \/ RefreshTick(s) \/ Start(s)
Fairness ==
    /\ \A s \in Supplier : WF_vars(Node(s)) /\ WF_vars(\E b \in BOOLEAN : Cancel(s, b))
    /\ WF_vars(\E m \in net : Deliver(m) \/ StoreArrives(m, TRUE))
FairSpec == Spec /\ Fairness

-----------------------------------------------------------------------------
(* Properties *)

Infos == [known : BOOLEAN, rev : Nat, list : Seq(Names)]
Requests == [cmd : {"join", "leave", "refresh", "none"}, known : BOOLEAN,
             pos : 0..Count, snap : Seq(Names)]
\* Types, the bound of the queues, and a transaction is held exactly while it
\* is reviewed or written.
TypeOK ==
    /\ running \subseteq Supplier /\ client \subseteq Supplier
    /\ state \in [Supplier -> States]
    /\ requests \in [Supplier -> Seq(Requests)]
    /\ current \in [Supplier -> Requests]
    /\ mine \in [Supplier -> Infos] /\ trans \in [Supplier -> Infos]
    /\ attempts \in [Supplier -> Nat] /\ retries \in [Supplier -> 0..MaxRetries]
    /\ waiting \in [Supplier -> SUBSET Supplier] /\ refused \in [Supplier -> SUBSET Nat]
    /\ meta \in [Supplier -> [known : BOOLEAN, pos : 0..Count, snap : Seq(Names)]]
    /\ record \in [Holder -> Infos]
    /\ net \subseteq [type : {"review", "ack", "fail", "store"}, from : Supplier,
                      to : Supplier \cup Holder \cup {Nobody}, info : Infos, age : Ages]
    /\ hired \in [Position -> Names]
    /\ asked \in 0..MaxCustomer /\ faults \subseteq Fault
    /\ places \in [Supplier -> SUBSET (0..Count)]
    /\ \A s \in Supplier : Len(requests[s]) <= MaxRequests
    /\ \A s \in Supplier : trans[s].known <=> state[s] \in {"SUPPLIERS", "DHT_WRITE"}

\* A started node has a machine for every customer it serves: a join, a leave
\* and a restart of the service never leave it without one.  True as long as
\* the customer asks a supplier again only when the machine is closed (Patient).
MemberRuns == \A s \in client \cap running : state[s] # "NONE"

\* Whatever reviews, conflicts, old snapshots and late writes were mixed, a record
\* names a supplier only at a position the customer gave to it, or anywhere if it
\* was asked without one; so only who was given several may be in it twice.
OnItsPlace ==
    \A h \in Holder : \A i \in DOMAIN record[h].list :
        record[h].list[i] # Nobody => {0, i} \cap places[record[h].list[i]] # {}

\* When the customer asks no more, the record becomes and stays its own list of
\* suppliers, also when packets, store calls or their replies were lost, as long
\* as no node had to be hired twice.  (After a lost leave a node hired again finds
\* itself in the record, joins without an info of its own and cannot return.)
Undisturbed ==
    \/ faults = {}
    \/ faults = {"lost"} /\ asked <= Cardinality(Supplier)
RecordAgrees(h) ==
    \/ record[h].list = hired
    \/ Range(hired) = {Nobody} /\ record[h].list = <<>>
FamilyConverges == <>[](Undisturbed => \A h \in Holder : RecordAgrees(h))

\* No machine reads, reviews or writes forever: the request it works on ends,
\* and the one queued behind it gets its turn.
RequestsEnd ==
    \A s \in Supplier : []<>(state[s] \in {"NONE", "CONNECTED", "DISCONNECTED"})

=============================================================================
