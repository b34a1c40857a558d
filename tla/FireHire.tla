------------------------------ MODULE FireHire ------------------------------
(***************************************************************************)
(* How a customer keeps its list of suppliers filled: the state machines   *)
(* fire_hire(), which dismisses and hires them, supplier_finder(), which   *)
(* looks for one new supplier, supplier_connector(), one for every node    *)
(* that is asked to be a supplier, and backup_monitor(), which erases or   *)
(* rebuilds the backups when the list has changed (customer/*.py,          *)
(* contacts/contactsdb.py, storage/backup_monitor.py).                     *)
(*                                                                         *)
(* Only fire_hire() is not "fast": an event for it waits in the reactor,   *)
(* and its conditions see the state of the moment it is handled in.  An    *)
(* event of the others runs the whole chain of calls at once: a handler is *)
(* an operator from a world, the record of what the chain may change, to a *)
(* world.  Positions count from 1 and 0 is an unknown position.  A list    *)
(* nothing reads before it is set again is emptied.                        *)
(*                                                                         *)
(* The customer is connected to the network, service_backups is on, and no *)
(* node changes its identity.                                              *)
(***************************************************************************)
EXTENDS Naturals, Sequences, FiniteSets, SequencesExt, FiniteSetsExt

CONSTANTS
    Node,          \* the nodes that may be suppliers
    Nobody,        \* the empty name in the list
    First,         \* the list of suppliers at the start
    Number,        \* the numbers of suppliers the user may ask for
    MaxAttempts,   \* Attempts after which supplier_finder() gives up (5)
    MaxRequests,   \* bound: requests of the user and nodes seen on line or off line
    Late           \* what may come after those who wait for it have given up

Parameters ==
    /\ IsFiniteSet(Node) /\ Nobody \notin Node
    /\ First \in Seq(Node) /\ IsInjective(First) /\ Len(First) \in Number
    /\ Number \subseteq Nat \ {0} /\ MaxAttempts \in Nat \ {0}
    /\ MaxRequests \in Nat
    /\ Late \subseteq {"round", "search", "ping", "fail"}
ASSUME HireAssumption == Parameters

VARIABLES
    hire,       \* fire_hire(): its state and its lists
    events,     \* the events waiting for fire_hire()
    suppliers,  \* contactsdb: the list of suppliers
    conn,       \* conn[s]: the supplier_connector() of s
    finder,     \* supplier_finder()
    monitor,    \* backup_monitor()
    toFire,     \* _SuppliersToFire
    scheduled,  \* restart_task
    desired,    \* getSuppliersNumberDesired()
    requests,   \* the requests and changes so far
    resized,    \* history: how often the user asked for another number
    raised,     \* an action of fire_hire() raised
    echoed      \* history: a dismissal heard a callback an earlier round had left

hireVars == <<hire, events, suppliers, conn, finder, monitor, toFire, scheduled,
          desired, requests, resized, raised, echoed>>

World == [hire |-> hire, events |-> events, suppliers |-> suppliers, conn |-> conn,
          finder |-> finder, monitor |-> monitor, toFire |-> toFire,
          scheduled |-> scheduled, desired |-> desired, raised |-> raised,
          echoed |-> echoed]
Becomes(w) ==
    /\ hire' = w.hire /\ events' = w.events /\ suppliers' = w.suppliers
    /\ conn' = w.conn /\ finder' = w.finder /\ monitor' = w.monitor
    /\ toFire' = w.toFire /\ scheduled' = w.scheduled /\ desired' = w.desired
    /\ raised' = w.raised /\ echoed' = w.echoed

Event(name) == [name |-> name, who |-> Nobody, place |-> 0, list |-> <<>>]
Queue(w, e) == [w EXCEPT !.events = Append(@, e)]

Supplied(w) == Range(w.suppliers) \ {Nobody}
SomeEmpty(w) == Nobody \in Range(w.suppliers)

-----------------------------------------------------------------------------
(* backup_monitor() *)

\* READY -> FIRE_HIRE
Consult(w) ==
    Queue([w EXCEPT !.monitor.state = "FIRE_HIRE", !.monitor.again = FALSE,
                    !.monitor.known = w.suppliers], Event("restart"))
\* The monitor becomes READY, and "instant" follows at once
Rest(w) == IF w.monitor.again THEN Consult(w) ELSE [w EXCEPT !.monitor.state = "READY"]

\* isSuppliersNumberChanged(): the backups do not fit the new number of suppliers
NumberChanged(w) == Len(w.suppliers) # Len(w.monitor.known)

MonitorTold(w, event) ==
    LET m == w.monitor IN
    CASE m.state = "FIRE_HIRE" /\ event = "suppliers-changed" ->
            [w EXCEPT !.monitor.state = "LIST_FILES", !.monitor.known = w.suppliers,
                      !.monitor.erased = IF NumberChanged(w) THEN @ + 1 ELSE @]
      [] m.state = "FIRE_HIRE" /\ event = "fire-hire-finished" ->
            [w EXCEPT !.monitor.state = "LIST_FILES"]
      [] m.state = "REBUILDING" /\ event \in {"restart", "suppliers-changed"} ->
            Queue([w EXCEPT !.monitor.state = "FIRE_HIRE"], Event("restart"))
      [] m.state = "READY" /\ event \in {"restart", "suppliers-changed"} -> Consult(w)
      [] m.state \in {"FIRE_HIRE", "LIST_FILES", "LIST_BACKUPS"} /\ event = "restart" ->
            [w EXCEPT !.monitor.again = TRUE]
      [] m.state \in {"LIST_FILES", "LIST_BACKUPS"} /\ event = "suppliers-changed" ->
            Consult(w)
      [] OTHER -> w

-----------------------------------------------------------------------------
(* supplier_connector() *)

\* "watched" counts the callbacks of fire_hire(), "pings" holds the positions
\* of the requests that wait for a ping, "calls" the packets not answered
\* yet: the one with request_packet_id is named, an older one is "stale".
NoConnector == [state |-> "NONE", leaving |-> FALSE, place |-> 0, watched |-> 0,
                pings |-> {}, calls |-> {}]
ConnectorStates == {"NONE", "NO_SERVICE", "CONNECTED", "DISCONNECTED", "REQUEST",
                    "REFUSE", "QUEUE?"}

Created(c) == IF c.state = "NONE" THEN [c EXCEPT !.state = "DISCONNECTED"] ELSE c

NewConnect(c, place) ==
    [c EXCEPT !.state = "REQUEST", !.leaving = FALSE, !.pings = @ \cup {place}]
Connected(c, place) ==
    IF c.state \in {"NO_SERVICE", "CONNECTED", "DISCONNECTED"} THEN NewConnect(c, place) ELSE c
Connect(w, s, place) == [w EXCEPT !.conn[s] = Connected(@, place)]

Current == {"service", "cancel"}
MutClean(c) == c
\* doCleanRequest(): an ack is not expected any more; a fail may still come
Clean(c) ==
    [c EXCEPT !.calls = IF @ # {} /\ "fail" \in Late THEN {"stale"} ELSE {}]
Send(c, call) == [c EXCEPT !.calls = Clean(c).calls \cup {call}]
\* What no answer that may still come reads is forgotten
Settle(c) == [c EXCEPT !.leaving = FALSE,
                       !.place = IF "service" \in c.calls THEN @ ELSE 0]
Refuse(w, s) ==
    [w EXCEPT !.conn[s] = Settle(Send([@ EXCEPT !.state = "REFUSE"], "cancel"))]

\* _on_supplier_connector_state_changed()
HireHears(w, s, times) ==
    LET told == [i \in 1..times |-> [Event("supplier-state-changed") EXCEPT !.who = s]]
    IN CASE times > 0 /\ w.hire.state = "SUPPLIERS?" ->
               [w EXCEPT !.hire.connecting = @ \ {s}, !.events = @ \o told]
         [] times > 0 /\ w.hire.state = "FIRE_MANY" ->
               [w EXCEPT !.hire.results = @ \cup {s}, !.events = @ \o told]
         [] OTHER -> w

NoFinder == [state |-> "NONE", place |-> 0, target |-> Nobody, attempts |-> 0,
             linked |-> FALSE]
FinderDone(w, e) == Queue([w EXCEPT !.finder = NoFinder], e)
MutNextUser(w) ==
    [w EXCEPT !.finder = IF @.attempts < MaxAttempts
                         THEN [@ EXCEPT !.state = "RANDOM_USER"] ELSE NoFinder]
\* The candidate is no good: try another one, or give up
NextUser(w) ==
    IF w.finder.attempts < MaxAttempts THEN [w EXCEPT !.finder.state = "RANDOM_USER"]
    ELSE FinderDone(w, Event("search-failed"))

\* _supplier_connector_state()
FinderHears(w, s, answer) ==
    LET waits == w.finder.linked /\ w.finder.target = s /\ w.finder.state = "SERVICE?"
    IN CASE waits /\ answer # "CONNECTED" -> NextUser(w)
         [] waits /\ answer = "CONNECTED" /\ s \notin Supplied(w) ->
               FinderDone(w, [Event("supplier-connected") EXCEPT
                                 !.who = s, !.place = w.conn[s].place])
         [] OTHER -> w

\* A dismissal asks every supplier it dismisses for one callback
Echo(w, s) ==
    IF w.hire.state = "FIRE_MANY"
       /\ w.conn[s].watched > IF s \in Range(w.hire.dismissing) THEN 1 ELSE 0
    THEN [w EXCEPT !.echoed = TRUE] ELSE w

MutReportState(w, s, answer) == FinderHears(HireHears(w, s, w.conn[s].watched), s, answer)
\* doReport..(): a callback removes itself from the list that is being walked,
\* so the next one is skipped
ReportState(w, s, answer) ==
    LET n == w.conn[s].watched IN
    FinderHears(HireHears([Echo(w, s) EXCEPT !.conn[s].watched = n \div 2], s, (n + 1) \div 2),
                s, answer)

\* The connector becomes what it reports
Turn(w, s, answer) ==
    [ReportState([w EXCEPT !.conn[s].state = answer], s, answer) EXCEPT !.conn[s] = Settle(@)]

Disconnect(w, s) ==
    CASE w.conn[s].state = "NO_SERVICE" -> ReportState(w, s, "NO_SERVICE")
      [] w.conn[s].state \in {"CONNECTED", "DISCONNECTED"} -> Refuse(w, s)
      [] w.conn[s].state \in {"REQUEST", "QUEUE?"} -> [w EXCEPT !.conn[s].leaving = TRUE]
      [] OTHER -> w

\* 'shutdown'
Close(w, s) ==
    [w EXCEPT !.conn[s] = NoConnector,
              !.finder.linked = @ /\ w.finder.target # s]

Failed(w, s) ==
    CASE w.conn[s].state = "CONNECTED" -> Connect(w, s, 0)
      [] w.conn[s].state \in {"DISCONNECTED", "REQUEST"} -> Turn(w, s, "NO_SERVICE")
      [] w.conn[s].state = "REFUSE" ->
            Turn([w EXCEPT !.conn[s] = Clean(@)], s, "NO_SERVICE")
      [] OTHER -> w

\* 'ack' of the packet with request_packet_id
Acked(w, s, accepted) ==
    LET c == w.conn[s] IN
    CASE c.state \in {"NO_SERVICE", "DISCONNECTED"} /\ accepted -> Turn(w, s, "CONNECTED")
      [] c.state = "REQUEST" /\ accepted /\ c.leaving -> Refuse(w, s)
      [] c.state = "REQUEST" /\ accepted /\ ~c.leaving ->
            [w EXCEPT !.conn[s].state = "QUEUE?"]
      [] c.state = "REQUEST" /\ ~accepted /\ ~c.leaving -> Turn(w, s, "NO_SERVICE")
      [] c.state = "REFUSE" /\ accepted ->
            Turn([w EXCEPT !.conn[s] = Clean(@)], s, "NO_SERVICE")
      [] OTHER -> w

-----------------------------------------------------------------------------
(* The lists of fire_hire() *)

Dismissed(w) == Range(w.hire.dismissing)

\* isMoreNeeded(), with the list that comes with "made-decision"
MoreNeeded(w, dismissed) ==
    SomeEmpty(w) \/ Cardinality(Supplied(w) \ dismissed) < w.desired

\* isStillNeeded(): asked before the new supplier takes its place
StillNeeded(w, s) ==
    LET needed == SubSeq(w.suppliers, 1, Min({w.desired, Len(w.suppliers)}))
        empty  == Cardinality({i \in DOMAIN needed : needed[i] = Nobody})
        others == (Range(needed) \cup {s}) \ Dismissed(w)
    IN s \in Supplied(w) \/ Cardinality(others) < w.desired + empty

\* isConfigChanged() and isExistSomeSuppliers()
MustConnect(w) == w.hire.saved # w.desired /\ Supplied(w) # {}

\* The places a new supplier may take
Vacant(w, i) == w.suppliers[i] = Nobody \/ w.suppliers[i] \in Dismissed(w)

\* doFindNewSupplier()
FindNew(w) ==
    LET free == {i \in 1..w.desired : /\ i \notin w.hire.hiring
                                      /\ i <= Len(w.suppliers) => Vacant(w, i)}
    IN IF free = {} THEN Queue(w, Event("search-failed"))
       ELSE [w EXCEPT !.hire.hiring = @ \cup {Min(free)},
                      !.finder = [NoFinder EXCEPT !.state = "RANDOM_USER",
                                                  !.place = Min(free)]]

\* contactsdb.add_supplier()
AddSupplier(list, s, place) ==
    IF place = 0 THEN Append(list, s)
    ELSE [i \in 1..Max({place, Len(list)}) |->
            IF i = place THEN s ELSE IF i <= Len(list) THEN list[i] ELSE Nobody]

MutSubstitute(w, s, place) ==
    IF s \in Supplied(w) THEN [w EXCEPT !.raised = TRUE]
    ELSE LET p == IF place = 0 THEN 1 ELSE place
         IN [w EXCEPT !.suppliers = AddSupplier(@, s, p), !.hire.hiring = @ \ {place}]
\* doSubstituteSupplier(): without a position the first vacant place is taken,
\* and without one the supplier goes to the end of the list
Substitute(w, s, place) ==
    LET vacant == {i \in DOMAIN w.suppliers : Vacant(w, i)}
        p == IF place # 0 THEN place ELSE IF vacant = {} THEN 0 ELSE Min(vacant)
    IN IF s \in Supplied(w) THEN [w EXCEPT !.raised = TRUE]
       ELSE [w EXCEPT !.suppliers = AddSupplier(@, s, p), !.hire.hiring = @ \ {place}]

MutRemoveSuppliers(w) ==
    [w EXCEPT !.suppliers = SelectSeq(@, LAMBDA s : s \notin Dismissed(w))]
\* doRemoveSuppliers(): the list is cut to the number that is wanted
RemoveSuppliers(w) ==
    LET n == Min({w.desired, Len(w.suppliers)})
    IN [w EXCEPT !.suppliers = [i \in 1..n |->
            IF w.suppliers[i] \in Dismissed(w) THEN Nobody ELSE w.suppliers[i]]]

\* doDisconnectSuppliers()
Leave(w, s) ==
    IF w.conn[s].state = "NONE" THEN [w EXCEPT !.hire.results = @ \cup {s}]
    ELSE Disconnect([w EXCEPT !.conn[s].watched = @ + 1], s)
DisconnectAll(w) ==
    LET list == w.hire.dismissing
        told[n \in 0..Len(list)] ==
            IF n = 0 THEN [w EXCEPT !.hire.results = {}] ELSE Leave(told[n - 1], list[n])
    IN told[Len(list)]

\* doConnectSuppliers()
ConnectAll(w) ==
    LET asked == {i \in DOMAIN w.suppliers : i <= w.desired /\ w.suppliers[i] # Nobody}
        watched(c) == [Created(c) EXCEPT !.watched = @ + 1]
    IN [w EXCEPT
          !.hire.connecting = {w.suppliers[i] : i \in asked},
          !.conn = [s \in Node |->
                      IF \E i \in asked : w.suppliers[i] = s
                      THEN Connected(watched(@[s]), CHOOSE i \in asked : w.suppliers[i] = s)
                      ELSE @[s]]]

\* doDecideToDismiss(): the lists it may come to
Decisions(w) ==
    LET surplus == {w.suppliers[i] : i \in w.desired + 1..Len(w.suppliers)} \ {Nobody}
        in(states) == {s \in Supplied(w) : w.conn[s].state \in states}
        weak(s) == /\ w.conn[s].state # "NONE"
                   /\ in({"CONNECTED"}) # {} /\ Supplied(w) # {s}
                   /\ in({"NO_SERVICE", "DISCONNECTED", "REFUSE"}) # {}
    IN CASE w.toFire # {} -> SetToSeqs(w.toFire)
         [] w.toFire = {} /\ surplus # {} -> SetToSeqs(surplus)
         [] w.toFire = {} /\ surplus = {} /\ SomeEmpty(w) -> {<<>>}
         [] OTHER -> {<<>>} \cup {<<s>> : s \in {t \in Supplied(w) : weak(t)}}

Decide(w) ==
    {Queue([w EXCEPT !.hire.state = "DECISION?", !.hire.connecting = {}, !.toFire = {}],
           [Event("made-decision") EXCEPT !.list = d]) : d \in Decisions(w)}

-----------------------------------------------------------------------------
(* fire_hire(): each operator gives the worlds an event may lead to *)

\* READY is entered by another event than "instant"
Ready(w) == Queue([w EXCEPT !.hire.state = "READY"], Event("instant"))

MutNotify(w, event) ==
    LET v == [w EXCEPT !.hire.hiring = {}]
    IN IF event = "suppliers-changed" THEN MonitorTold(v, event) ELSE v
\* doNotifySuppliersChanged() and doNotifyFinished()
Notify(w, event) == MonitorTold([w EXCEPT !.hire.hiring = {}], event)

\* doScheduleNextRestart()
Schedule(w) == [w EXCEPT !.hire.hiring = {}, !.scheduled = TRUE]

\* NeedRestart
Postpone(w) == [w EXCEPT !.hire.again = TRUE]

Restarted(w) ==
    LET v == [w EXCEPT !.hire.again = FALSE] IN
    IF MustConnect(v)
    THEN {ConnectAll([v EXCEPT !.hire.state = "SUPPLIERS?", !.hire.saved = v.desired])}
    ELSE Decide(v)

Decided(w, list) ==
    LET v == [w EXCEPT !.hire.dismissing = list] IN
    CASE MoreNeeded(w, Range(list)) -> FindNew([v EXCEPT !.hire.state = "HIRE_ONE"])
      [] ~MoreNeeded(w, Range(list)) /\ list # <<>> ->
            DisconnectAll(RemoveSuppliers([v EXCEPT !.hire.state = "FIRE_MANY"]))
      [] OTHER -> Ready(Notify([w EXCEPT !.hire.state = "READY"], "fire-hire-finished"))

Hired(w, s, place) ==
    CASE StillNeeded(w, s) -> FindNew(Substitute(w, s, place))
      [] ~StillNeeded(w, s) /\ w.hire.dismissing # <<>> ->
            DisconnectAll(Substitute([w EXCEPT !.hire.state = "FIRE_MANY"], s, place))
      [] OTHER -> Ready(Notify(Substitute([w EXCEPT !.hire.state = "READY"], s, place),
                               "suppliers-changed"))

SearchFailed(w) ==
    IF w.hire.dismissing = <<>>
    THEN Ready(Notify(Schedule([w EXCEPT !.hire.state = "READY"]), "suppliers-changed"))
    ELSE Schedule(RemoveSuppliers(DisconnectAll([w EXCEPT !.hire.state = "FIRE_MANY"])))

\* list.remove()
Removed(list, s) ==
    IF s \in Range(list) THEN RemoveAt(list, CHOOSE i \in DOMAIN list : list[i] = s) ELSE list

\* doCloseConnector(): the one that reported, whoever it is
CloseOne(w, s) ==
    IF w.conn[s].state = "NONE" THEN [w EXCEPT !.raised = TRUE]
    ELSE Close([w EXCEPT !.hire.dismissing = Removed(@, s)], s)

\* doClearDismissList() and doNotifySuppliersChanged()
Dismiss(w) ==
    Ready(Notify([w EXCEPT !.hire.state = "READY", !.hire.dismissing = <<>>,
                           !.hire.results = {}],
                 "suppliers-changed"))

\* doCloseConnectors() shortens the list it walks: every second one stays open
TimedOut(w) ==
    LET list   == w.hire.dismissing
        closed == {list[i] : i \in {j \in DOMAIN list : j % 2 = 1}}
    IN Dismiss([w EXCEPT !.conn = [s \in Node |-> IF s \in closed THEN NoConnector ELSE @[s]],
                         !.finder.linked = @ /\ w.finder.target \notin closed])

\* 'supplier-state-changed' in FIRE_MANY
Left(w, s) ==
    IF Len(w.hire.dismissing) = Cardinality(w.hire.results)
    THEN Dismiss(CloseOne(w, s)) ELSE CloseOne(w, s)

Handle(w, e) ==
    LET s == w.hire.state IN
    CASE s = "READY" /\ (e.name = "restart" \/ (e.name = "instant" /\ w.hire.again)) ->
            Restarted(w)
      [] s # "READY" /\ e.name = "restart" -> {Postpone(w)}
      [] s = "DECISION?" /\ e.name = "made-decision" -> {Decided(w, e.list)}
      [] s = "HIRE_ONE" /\ e.name = "supplier-connected" -> {Hired(w, e.who, e.place)}
      [] s = "HIRE_ONE" /\ e.name = "search-failed" -> {SearchFailed(w)}
      [] s = "FIRE_MANY" /\ e.name = "supplier-state-changed" -> {Left(w, e.who)}
      [] s = "SUPPLIERS?" /\ e.name = "supplier-state-changed"
            /\ w.hire.connecting = {} -> Decide(w)
      [] s = "SUPPLIERS?" /\ e.name = "timer-15sec" -> Decide(w)
      [] s = "FIRE_MANY" /\ e.name = "timer-15sec" -> {TimedOut(w)}
      [] OTHER -> {w}

HandleEvent ==
    /\ events # <<>> /\ ~raised
    /\ \E w \in Handle([World EXCEPT !.events = Tail(@)], Head(events)) : Becomes(w)
    /\ UNCHANGED <<requests, resized>>

\* Unless a round is late, the callbacks of the connectors come within 25 seconds
\* and no event waits for so long
HireTimer ==
    /\ hire.state \in {"FIRE_MANY", "SUPPLIERS?"}
    /\ \/ "round" \in Late
       \/ events = <<>> /\ (hire.state = "SUPPLIERS?" => hire.connecting = {})
    /\ Event("timer-15sec") \notin Range(events)
    /\ Becomes(Queue(World, Event("timer-15sec")))
    /\ UNCHANGED <<requests, resized>>

ScheduledRestart ==
    /\ scheduled
    /\ Becomes(Queue([World EXCEPT !.scheduled = FALSE], Event("restart")))
    /\ UNCHANGED <<requests, resized>>

-----------------------------------------------------------------------------
(* The steps of a supplier_connector() *)

\* _do_request_supplier_service(): the ping came back, in whatever state
PingAnswered(s) ==
    /\ \E p \in conn[s].pings :
          Becomes([World EXCEPT !.conn[s] =
                      Send([conn[s] EXCEPT !.pings = @ \ {p}, !.place = p], "service")])
    /\ UNCHANGED <<requests, resized>>
PingFailed(s) ==
    /\ \E p \in conn[s].pings :
          Becomes(Failed([World EXCEPT !.conn[s].pings = @ \ {p}], s))
    /\ UNCHANGED <<requests, resized>>

\* _supplier_service_acked() looks at the id of the packet
Answered(s) ==
    /\ \E call \in conn[s].calls \cap Current, accepted \in BOOLEAN :
          Becomes(Acked([World EXCEPT !.conn[s].calls = @ \ {call}], s, accepted))
    /\ UNCHANGED <<requests, resized>>
\* _supplier_service_failed() does not
AnswerFailed(s) ==
    /\ \E call \in conn[s].calls :
          Becomes(Failed([World EXCEPT !.conn[s].calls = @ \ {call}], s))
    /\ UNCHANGED <<requests, resized>>

\* 'queue-ack', 'queue-fail', 'queue-skip' and the timer of QUEUE?
QueueAnswered(s) ==
    /\ conn[s].state = "QUEUE?"
    /\ Becomes(IF conn[s].leaving THEN Refuse(World, s) ELSE Turn(World, s, "CONNECTED"))
    /\ UNCHANGED <<requests, resized>>

RequestExpires(s) ==
    /\ conn[s].state = "REQUEST"
    /\ "ping" \in Late \/ conn[s].pings = {}
    /\ Becomes(Turn([World EXCEPT !.conn[s] = Clean(@)], s, "DISCONNECTED"))
    /\ UNCHANGED <<requests, resized>>
RefuseExpires(s) ==
    /\ conn[s].state = "REFUSE"
    /\ Becomes(Turn([World EXCEPT !.conn[s] = Clean(@)], s, "NO_SERVICE"))
    /\ UNCHANGED <<requests, resized>>

-----------------------------------------------------------------------------
(* The steps of supplier_finder() *)

\* The lookup leaves out the suppliers
UserFound ==
    /\ finder.state = "RANDOM_USER"
    /\ \E s \in Node \ Supplied(World) :
          Becomes([World EXCEPT !.finder = [finder EXCEPT !.state = "ACK?", !.target = s,
                                               !.attempts = @ + 1, !.linked = FALSE]])
    /\ UNCHANGED <<requests, resized>>
UserNotFound ==
    /\ finder.state = "RANDOM_USER"
    /\ Becomes(FinderDone(World, Event("search-failed")))
    /\ UNCHANGED <<requests, resized>>

\* doSupplierConnect()
UserAnswered ==
    /\ finder.state = "ACK?"
    /\ Becomes([World EXCEPT !.conn[finder.target] = Connected(Created(@), finder.place),
                             !.finder.state = "SERVICE?", !.finder.linked = TRUE])
    /\ UNCHANGED <<requests, resized>>
UserSilent ==
    /\ finder.state = "ACK?"
    /\ Becomes(NextUser(World))
    /\ UNCHANGED <<requests, resized>>

\* The timer of SERVICE?: the one of REQUEST, also 30 seconds, is not younger
\* and is over first
ServiceExpires ==
    /\ finder.state = "SERVICE?"
    /\ conn[finder.target].state # "REQUEST"
    /\ \/ "search" \in Late \/ ~finder.linked
       \/ conn[finder.target].state \notin {"QUEUE?", "REFUSE"}
    /\ Becomes(NextUser(World))
    /\ UNCHANGED <<requests, resized>>

-----------------------------------------------------------------------------
(* The steps of backup_monitor() *)

FilesListed ==
    /\ monitor.state = "LIST_FILES"
    /\ \/ Becomes(Rest(World))
       \/ Becomes([World EXCEPT !.monitor.state = "LIST_BACKUPS"])
    /\ UNCHANGED <<requests, resized>>
BackupsListed ==
    /\ monitor.state = "LIST_BACKUPS"
    /\ Becomes([World EXCEPT !.monitor.state = "REBUILDING"])
    /\ UNCHANGED <<requests, resized>>
Rebuilt ==
    /\ monitor.state = "REBUILDING"
    /\ Becomes(Rest(World))
    /\ UNCHANGED <<requests, resized>>

-----------------------------------------------------------------------------
(* The user and the network *)

\* api.supplier_change()
Fire(s) ==
    /\ s \in Supplied(World) /\ requests < MaxRequests
    /\ requests' = requests + 1
    /\ Becomes(Queue([World EXCEPT !.toFire = @ \cup {s}], Event("restart")))
    /\ UNCHANGED resized

\* _on_suppliers_number_modified()
Resize ==
    /\ requests < MaxRequests
    /\ requests' = requests + 1 /\ resized' = resized + 1
    /\ \E n \in Number \ {desired} :
          Becomes(Queue([World EXCEPT !.desired = n], Event("restart")))

\* backup_monitor.A('restart')
Check ==
    /\ requests < MaxRequests
    /\ requests' = requests + 1
    /\ Becomes(MonitorTold(World, "restart"))
    /\ UNCHANGED resized

\* _on_online_status_state_changed() of the connector, which asks again without
\* a position, and _on_supplier_online_status_state_changed() of fire_hire()
StatusChanged(s) ==
    /\ conn[s].state # "NONE" /\ requests < MaxRequests
    /\ requests' = requests + 1
    /\ \E w \in {World, Queue(World, Event("restart"))} : Becomes(Connect(w, s, 0))
    /\ UNCHANGED resized

-----------------------------------------------------------------------------
\* The first round is over and fire_hire() rests
HireInit ==
    /\ suppliers = First /\ desired = Len(First)
    /\ hire = [state |-> "READY", again |-> FALSE, connecting |-> {}, dismissing |-> <<>>,
               results |-> {}, hiring |-> {}, saved |-> Len(First)]
    /\ events = <<>>
    /\ \E state \in [Range(First) -> {"CONNECTED", "NO_SERVICE"}] :
          conn = [s \in Node |-> IF s \in Range(First)
                                THEN [NoConnector EXCEPT !.state = state[s]]
                                ELSE NoConnector]
    /\ finder = NoFinder
    /\ monitor = [state |-> "READY", again |-> FALSE, known |-> First, erased |-> 0]
    /\ toFire = {} /\ scheduled = FALSE /\ raised = FALSE /\ echoed = FALSE
    /\ requests = 0 /\ resized = 0

Connector(s) == \/ PingAnswered(s) \/ PingFailed(s) \/ Answered(s) \/ AnswerFailed(s)
                \/ QueueAnswered(s) \/ RequestExpires(s) \/ RefuseExpires(s)
Finder == UserFound \/ UserNotFound \/ UserAnswered \/ UserSilent \/ ServiceExpires
Monitor == FilesListed \/ BackupsListed \/ Rebuilt

HireNext ==
    \/ HandleEvent \/ HireTimer \/ ScheduledRestart
    \/ \E s \in Node : Connector(s)
    \/ Finder \/ Monitor
    \/ \E s \in Node : Fire(s)
    \/ Resize \/ Check
    \/ \E s \in Node : StatusChanged(s)

HireSpec == HireInit /\ [][HireNext]_hireVars

\* Every wait of the machines has a timer, also that of online_status.ping(), and
\* the reactor handles every event
HireFairSpec ==
    /\ HireSpec
    /\ WF_hireVars(HandleEvent) /\ WF_hireVars(HireTimer) /\ WF_hireVars(ScheduledRestart)
    /\ WF_hireVars(Finder) /\ WF_hireVars(Monitor)
    /\ \A s \in Node : WF_hireVars(\/ PingAnswered(s) \/ PingFailed(s) \/ QueueAnswered(s)
                               \/ RequestExpires(s) \/ RefuseExpires(s))

-----------------------------------------------------------------------------
(* Properties *)

\* The values the code gives its variables
HireTypeOK ==
    /\ hire.state \in {"READY", "DECISION?", "HIRE_ONE", "FIRE_MANY", "SUPPLIERS?"}
    /\ hire.again \in BOOLEAN /\ hire.connecting \subseteq Node
    /\ hire.dismissing \in Seq(Node) /\ IsInjective(hire.dismissing)
    /\ hire.results \subseteq Node /\ hire.saved \in Number \cup {0}
    /\ suppliers \in Seq(Node \cup {Nobody}) /\ toFire \subseteq Node
    /\ \A s \in Node : /\ conn[s].state \in ConnectorStates
                       /\ conn[s].calls \subseteq Current \cup {"stale"}
                       /\ ~(Current \subseteq conn[s].calls)
    /\ finder.state \in {"NONE", "RANDOM_USER", "ACK?", "SERVICE?"}
    /\ finder.attempts <= MaxAttempts

\* No round loses its thread.  fire_hire() waits in HIRE_ONE for the answer of
\* one search: the search goes on or its answer is on the way, never both and
\* never neither.  And unless callbacks of an earlier round are still registered,
\* no handler raises and leaves the machine where it is: doCloseConnector() finds
\* the connector that reported, doSubstituteSupplier() a node that is not a
\* supplier yet.
Answers == {i \in DOMAIN events : events[i].name \in {"supplier-connected", "search-failed"}}
OneSearch ==
    /\ \A i, j \in Answers : i = j
    /\ hire.state = "HIRE_ONE" <=> finder.state # "NONE" \/ Answers # {}
    /\ finder.state = "NONE" \/ Answers = {}
RoundGoesOn == OneSearch /\ (raised => echoed)

\* The list holds nobody twice, and at rest, unless a dismissal heard an old
\* callback, every supplier in a place that is wanted has a connector: nobody stays
\* in the list whom doDecideToDismiss() and the queues of data cannot see
HiredOnce ==
    \A i, j \in DOMAIN suppliers :
        suppliers[i] = suppliers[j] /\ suppliers[i] # Nobody => i = j
WantedConnected ==
    hire.state = "READY" /\ ~echoed =>
        \A i \in DOMAIN suppliers : i <= desired /\ suppliers[i] # Nobody =>
            conn[suppliers[i]].state # "NONE"
ListSound == HiredOnce /\ WantedConnected

\* However many suppliers are dismissed and hired, backup_monitor() erases the
\* backups only when the user has changed the number of suppliers
ErasedOnResize == monitor.erased > 0 => resized > 0

\* A supplier in a place that is wanted loses it only when it is dismissed
WantedKept ==
    [][\A i \in DOMAIN suppliers :
          /\ i <= desired /\ suppliers[i] # Nobody
          /\ i \in DOMAIN suppliers' => suppliers'[i] # suppliers[i]
          => suppliers[i] \in Range(hire.dismissing) \cup Range(hire'.dismissing)]_hireVars

\* Whatever the nodes do, every round of fire_hire() ends, the requests of the
\* user are taken up, and backup_monitor() is told
HiringEnds ==
    /\ []<>(hire.state = "READY")
    /\ []<>(toFire = {})
    /\ []<>(monitor.state # "FIRE_HIRE")
=============================================================================
