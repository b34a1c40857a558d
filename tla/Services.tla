------------------------------ MODULE Services ------------------------------
(***************************************************************************)
(* The network services of a node and their driver: the state machine      *)
(* local_service() of services/local_service.py, one per service, and      *)
(* services/driver.py, which starts, stops and restarts them along their   *)
(* dependencies.                                                           *)
(*                                                                         *)
(* The machines are not "fast": an event is a reactor.callLater(0), so the *)
(* events in flight form the queue mail, delivered in the order they were  *)
(* sent.  A Deferred handed over with an event is a waiter; the machine    *)
(* chains its waiters on one result_deferred.  add_callback chains         *)
(* cb.callback, which returns None, so only the first waiter hears the     *)
(* result and the others hear None.                                        *)
(*                                                                         *)
(* start() of a service answers at once or with a Deferred (the set Slow); *)
(* every stop() of the repository is synchronous.  driver.shutdown(),      *)
(* suspend() and resume() are not modelled.                                *)
(***************************************************************************)
EXTENDS Naturals, Sequences, FiniteSets, SequencesExt

CONSTANTS
    Service,      \* the services driver.init() loaded
    DependsOn,    \* dependent_on() of each service
    Loaded,       \* the order of the dictionary services()
    Installed,    \* the services whose installed() is true
    Slow,         \* the services whose start() returns a Deferred
    Faulty,       \* the services whose start() may fail
    Single,       \* the services started and stopped one by one
    Restart,      \* names of the restarts that may be asked for
    MaxRequests   \* bound: requests from outside, all kinds together

ASSUME ServicesAssumption ==
    /\ DependsOn \in [Service -> SUBSET Service]
    /\ Loaded \in Seq(Service) /\ IsInjective(Loaded) /\ Range(Loaded) = Service
    /\ Installed \subseteq Service /\ Slow \subseteq Service
    /\ Faulty \subseteq Service /\ Single \subseteq Service
    /\ MaxRequests \in Nat

VARIABLES
    state,        \* state[s]: state of the machine of s
    needStart,    \* needStart[s]: NeedStart
    needStop,     \* needStop[s]: NeedStop
    waiters,      \* waiters[s]: the chain of result_deferred
    enabled,      \* the services whose "enabled" option is true
    up,           \* the services whose start() succeeded and stop() did not run
    opening,      \* the services whose start() Deferred has not fired
    mail,         \* the queued events and calls of the driver
    starting,     \* _StartingDeferred
    stoping,      \* _StopingDeferred
    restarts,     \* restarts[r]: what restart r waits for
    requests      \* requests made from outside so far

machines == <<state, needStart, needStop, waiters>>
components == <<up, opening>>
drv == <<starting, stoping, restarts>>
outside == <<enabled, requests>>
vars == <<machines, components, mail, drv, outside>>

States == {"OFF", "NOT_INSTALLED", "DEPENDS_OFF", "STARTING", "ON",
           "INFLUENCE", "STOPPING"}
Down == {"OFF", "NOT_INSTALLED", "DEPENDS_OFF"}
Moving == {"STARTING", "INFLUENCE", "STOPPING"}

\* A waiter belongs to driver.start(), to driver.stop(), is the Deferred of
\* a stop_single() that found the service STARTING and stops it when it has
\* started, or is one of a single call that only passes the answer on.
Waiters == {"start-group", "stop-group", "then-stop", "answer"}
NoWaiter == "none"

Events == {"start", "stop", "service-started", "service-failed",
           "service-not-installed", "service-depend-off",
           "depend-service-stopped", "service-stopped"}
FinishStartingCall == [ev |-> "do_finish_starting"]
FinishStopingCall == [ev |-> "do_finish_stoping"]
Event(ev, s, w) == [ev |-> ev, to |-> s, cb |-> w]
Tell(s, ev) == Event(ev, s, NoWaiter)
TellAll(order, ev) == [i \in DOMAIN order |-> Tell(order[i], ev)]

Absent == [state |-> "none", left |-> {}, subs |-> <<>>]
Pending(members, subs) == [state |-> "pending", left |-> members, subs |-> subs]
Idle == [phase |-> "idle", svc |-> CHOOSE s \in Service : TRUE,
         waits |-> {}]

\* the services that depend on s
Dependents(s) == {t \in Service : s \in DependsOn[t]}

\* some services, in the order of services()
InOrder(some) ==
    LET chosen[n \in 0 .. Len(Loaded)] ==
            IF n = 0 THEN <<>>
            ELSE IF Loaded[n] \in some THEN Append(chosen[n - 1], Loaded[n])
            ELSE chosen[n - 1]
    IN  chosen[Len(Loaded)]
-----------------------------------------------------------------------------
(***************************************************************************)
(* driver.restart(), as functions of the driver's record d: its Deferreds, *)
(* its restarts, the mail and what it reads of the services.  A subscriber *)
(* of a Deferred is <<"own", r>>, the callback restart r put there, or     *)
(* <<"dep", r>>, restart r waiting for it to fire before it begins.        *)
(***************************************************************************)
Driver(q, st) == [mail |-> q, state |-> st, starting |-> starting,
                  stoping |-> stoping, restarts |-> restarts]

Becomes(d) ==
    /\ mail' = d.mail
    /\ starting' = d.starting
    /\ stoping' = d.stoping
    /\ restarts' = d.restarts

Ends(d, r, how) == [d EXCEPT !.restarts[r].phase = how,
                             !.restarts[r].waits = {}]

\* restart._do_start(): driver.start() of the one service
DoStart(d, r) ==
    LET s == d.restarts[r].svc IN
    CASE d.starting.state # "none" ->
            [d EXCEPT !.starting.subs = Append(@, <<"own", r>>),
                      !.restarts[r].phase = "starting"]
      [] d.starting.state = "none" /\ d.stoping.state = "pending" ->
            Ends(d, r, "failed")
      [] d.starting.state = "none" /\ d.stoping.state # "pending" /\
         (s \notin enabled \/ d.state[s] = "ON") -> Ends(d, r, "done")
      [] OTHER ->
            [d EXCEPT !.starting = Pending({s}, << <<"own", r>> >>),
                      !.restarts[r].phase = "starting",
                      !.mail = Append(@, Event("start", s, "start-group"))]

\* restart._do_stop(): driver.stop() of the one service
DoStop(d, r) ==
    LET s == d.restarts[r].svc IN
    CASE d.stoping.state # "none" ->
            [d EXCEPT !.stoping.subs = Append(@, <<"own", r>>),
                      !.restarts[r].phase = "stopping"]
      [] d.stoping.state = "none" /\ d.starting.state = "pending" ->
            Ends(d, r, "failed")
      [] OTHER ->
            [d EXCEPT !.stoping = Pending({s}, << <<"own", r>> >>),
                      !.restarts[r].phase = "stopping",
                      !.mail = Append(@, Event("stop", s, "stop-group"))]

\* one of the things restart r waits for has fired
Fired(d, r, what) ==
    LET e == [d EXCEPT !.restarts[r].waits = @ \ {what}] IN
    IF e.restarts[r].waits = {} THEN DoStop(e, r) ELSE e

OnStoped(d, sub) ==
    IF sub[1] = "own" THEN DoStart(d, sub[2]) ELSE Fired(d, sub[2], "stop")

OnStarted(d, sub) ==
    IF sub[1] = "own" THEN Ends(d, sub[2], "done") ELSE Fired(d, sub[2], "start")

RunStoping(d) ==
    LET ran[n \in 0 .. Len(d.stoping.subs)] ==
            IF n = 0 THEN [d EXCEPT !.stoping.subs = <<>>]
            ELSE OnStoped(ran[n - 1], d.stoping.subs[n])
    IN  IF d.stoping.state = "fired" THEN ran[Len(d.stoping.subs)] ELSE d

RunStarting(d) ==
    LET ran[n \in 0 .. Len(d.starting.subs)] ==
            IF n = 0 THEN [d EXCEPT !.starting.subs = <<>>]
            ELSE OnStarted(ran[n - 1], d.starting.subs[n])
    IN  IF d.starting.state = "fired" THEN ran[Len(d.starting.subs)] ELSE d

\* The callbacks of a fired Deferred run, those they add to it included: a
\* subscriber that waited turns into an "own" one, an "own" one of stoping
\* into one of starting, and an "own" one of starting ends its restart.
Settle(d) == RunStarting(RunStoping(RunStoping(RunStarting(d))))

MutHears(d, s, w, result) ==
    CASE w = "start-group" -> [d EXCEPT !.starting.left = @ \ {s}]
      [] w = "stop-group" -> [d EXCEPT !.stoping.left = @ \ {s}]
      [] OTHER -> d

\* A waiter of s hears result; only the first of the chain hears the real
\* one.  The last member of a group fires the group's Deferred, and its
\* first callback asks the reactor to forget it.
Hears(d, s, w, result) ==
    CASE w = "start-group" ->
            IF d.starting.left = {s}
            THEN Settle([d EXCEPT !.starting.left = {},
                                  !.starting.state = "fired",
                                  !.mail = Append(@, FinishStartingCall)])
            ELSE [d EXCEPT !.starting.left = @ \ {s}]
      [] w = "stop-group" ->
            IF d.stoping.left = {s}
            THEN Settle([d EXCEPT !.stoping.left = {},
                                  !.stoping.state = "fired",
                                  !.mail = Append(@, FinishStopingCall)])
            ELSE [d EXCEPT !.stoping.left = @ \ {s}]
      [] w = "then-stop" /\ result = "started" ->
            [d EXCEPT !.mail = Append(@, Event("stop", s, "answer"))]
      [] OTHER -> d

CallWaiters(d, s, chain, result) ==
    LET heard[n \in 0 .. Len(chain)] ==
            IF n = 0 THEN d
            ELSE Hears(heard[n - 1], s, chain[n], IF n = 1 THEN result ELSE "None")
    IN  heard[Len(chain)]

\* driver.on_service_callback(): what the driver does with the result of s
OnServiceCallback(d, s, result) ==
    LET relatives == {t \in Dependents(s) \cap enabled : d.state[t] # "ON"}
    IN  CASE result = "started" ->
                [d EXCEPT !.mail = @ \o TellAll(InOrder(relatives), "start")]
          [] result \in {"stopped", "depends_off"} ->
                [d EXCEPT !.mail = @ \o TellAll(InOrder(DependsOn[s]),
                                                "depend-service-stopped")]
          [] OTHER -> d

\* doNotifyStarted, doNotifyStopped, doNotifyFailed, doNotifyNotInstalled
\* and doNotifyDependsOff, when the machine has moved to the states st
Notify(q, st, s, chain, result) ==
    OnServiceCallback(CallWaiters(Driver(q, st), s, chain, result), s, result)
-----------------------------------------------------------------------------
MutAllDependsStopped(s) ==
    \A t \in Service : s \in DependsOn[t] => state[t] # "ON"

MutNoneStopped(s) == \A t \in Service : s \in DependsOn[t] => state[t] = "OFF"

\* isAllDependsStopped()
AllDependsStopped(s) ==
    \A t \in Service : s \in DependsOn[t] => state[t] \in Down

\* doStartService(): what it sends to the machine, whether the service runs
\* then and whether its Deferred is awaited
Outcome(s, ev, isUp) ==
    [sends |-> <<Tell(s, ev)>>, up |-> IF isUp THEN {s} ELSE {}, opening |-> {}]

StartOutcomes(s) ==
    CASE s \notin Installed -> {Outcome(s, "service-not-installed", FALSE)}
      [] s \in Installed /\ \E t \in DependsOn[s] : state[t] # "ON" ->
            {Outcome(s, "service-depend-off", FALSE)}
      [] OTHER ->
            {Outcome(s, "service-started", TRUE)}
            \cup (IF s \in Faulty THEN {Outcome(s, "service-failed", FALSE)} ELSE {})
            \cup (IF s \in Slow
                  THEN {[sends |-> <<>>, up |-> {}, opening |-> {s}]} ELSE {})

DoStartService(s, d) ==
    \E out \in StartOutcomes(s) :
        /\ Becomes([d EXCEPT !.mail = @ \o out.sends])
        /\ up' = up \cup out.up
        /\ opening' = opening \cup out.opening

MutStopDependents(s, q) ==
    q \o TellAll(InOrder(Dependents(s) \cap Installed), "stop")

\* doStopDependentServices()
StopDependents(s, q) ==
    LET asked == Dependents(s) \cap Installed IN
    IF asked = {} THEN Append(q, Tell(s, "depend-service-stopped"))
    ELSE q \o TellAll(InOrder(asked), "stop")

\* doSetCallback()
Chained(s, w) == IF w = NoWaiter THEN waiters[s] ELSE Append(waiters[s], w)
SetCallback(s, w) == waiters' = [waiters EXCEPT ![s] = Chained(s, w)]

\* what a machine that is down answers to "stop"
AnswerWhenDown(st) ==
    CASE st = "OFF" -> "stopped"
      [] st = "NOT_INSTALLED" -> "not_installed"
      [] st = "DEPENDS_OFF" -> "depends_off"

Moves(s, to) == state' = [state EXCEPT ![s] = to]
Sends(q) == mail' = q /\ UNCHANGED drv

Delivered(ev, s) ==
    /\ mail # <<>>
    /\ Head(mail).ev = ev
    /\ Head(mail).to = s
Waiter == Head(mail).cb
-----------------------------------------------------------------------------
\* A() for "start"
StartEvent(s) ==
    /\ Delivered("start", s)
    /\ \/ /\ state[s] \in Down
          /\ Moves(s, "STARTING")
          /\ needStart' = [needStart EXCEPT ![s] = @ /\ state[s] # "OFF"]
          /\ needStop' = [needStop EXCEPT ![s] = @ /\ state[s] # "OFF"]
          /\ SetCallback(s, Waiter)
          /\ DoStartService(s, Driver(Tail(mail), state))
       \/ /\ state[s] \in {"INFLUENCE", "STOPPING"}
          /\ SetCallback(s, Waiter)
          /\ needStart' = [needStart EXCEPT ![s] = TRUE]
          /\ Sends(Tail(mail))
          /\ UNCHANGED <<state, needStop, components>>
       \/ /\ state[s] = "STARTING"
          /\ SetCallback(s, Waiter)
          /\ Sends(Tail(mail))
          /\ UNCHANGED <<state, needStart, needStop, components>>
       \/ /\ state[s] = "ON"
          /\ Sends(Tail(mail))
          /\ UNCHANGED <<machines, components>>
    /\ UNCHANGED outside

\* A() for "stop"; a machine that is down answers at once
StopEvent(s) ==
    /\ Delivered("stop", s)
    /\ \/ /\ state[s] = "ON"
          /\ Moves(s, "INFLUENCE")
          /\ SetCallback(s, Waiter)
          /\ Sends(StopDependents(s, Tail(mail)))
          /\ UNCHANGED needStop
       \/ /\ state[s] \in Down
          /\ Becomes(Notify(Tail(mail), state, s, Chained(s, Waiter),
                            AnswerWhenDown(state[s])))
          /\ waiters' = [waiters EXCEPT ![s] = <<>>]
          /\ UNCHANGED <<state, needStop>>
       \/ /\ state[s] = "STARTING"
          /\ SetCallback(s, Waiter)
          /\ needStop' = [needStop EXCEPT ![s] = TRUE]
          /\ Sends(Tail(mail))
          /\ UNCHANGED state
       \/ /\ state[s] = "INFLUENCE"
          /\ SetCallback(s, Waiter)
          /\ Sends(Tail(mail))
          /\ UNCHANGED <<state, needStop>>
       \/ /\ state[s] = "STOPPING"
          /\ Sends(Tail(mail))
          /\ UNCHANGED <<state, waiters, needStop>>
    /\ UNCHANGED <<needStart, components, outside>>

\* The machine moves to a state and answers its waiters: doNotify*().
Answers(s, to, result) ==
    /\ Moves(s, to)
    /\ Becomes(Notify(Tail(mail), state', s, waiters[s], result))
    /\ waiters' = [waiters EXCEPT ![s] = <<>>]
    /\ UNCHANGED <<needStart, needStop>>

\* A() for "service-started"
StartedEvent(s) ==
    /\ Delivered("service-started", s)
    /\ \/ /\ state[s] = "STARTING" /\ needStop[s]
          /\ Moves(s, "INFLUENCE")
          /\ needStop' = [needStop EXCEPT ![s] = FALSE]
          /\ Sends(StopDependents(s, Tail(mail)))
          /\ UNCHANGED <<needStart, waiters>>
       \/ /\ state[s] = "STARTING" /\ ~needStop[s]
          /\ Answers(s, "ON", "started")
    /\ UNCHANGED <<components, outside>>

\* A() for the events that end a start without success: the state each leads
\* to and the answer it gives
Setbacks == [ev : {"service-failed"}, to : {"OFF"}, result : {"failed"}]
    \cup [ev : {"service-not-installed"}, to : {"NOT_INSTALLED"},
          result : {"not_installed"}]
    \cup [ev : {"service-depend-off"}, to : {"DEPENDS_OFF"}, result : {"depends_off"}]

SetbackEvent(s) ==
    /\ state[s] = "STARTING"
    /\ \E b \in Setbacks : Delivered(b.ev, s) /\ Answers(s, b.to, b.result)
    /\ UNCHANGED <<components, outside>>

\* A() for "depend-service-stopped".  A service that was asked to start again
\* runs stop() and start() in one event; the "service-stopped" stop() sends
\* finds it STARTING and does nothing.
DependStoppedEvent(s) ==
    /\ Delivered("depend-service-stopped", s)
    /\ \/ /\ state[s] = "INFLUENCE" /\ AllDependsStopped(s) /\ ~needStart[s]
          /\ Moves(s, "STOPPING")
          /\ up' = up \ {s}
          /\ Becomes(Driver(Append(Tail(mail), Tell(s, "service-stopped")), state'))
          /\ UNCHANGED <<needStart, needStop, waiters, opening>>
       \/ /\ state[s] = "INFLUENCE" /\ AllDependsStopped(s) /\ needStart[s]
          /\ Moves(s, "STARTING")
          /\ needStart' = [needStart EXCEPT ![s] = FALSE]
          /\ waiters' = [waiters EXCEPT ![s] = <<>>]
          /\ LET q == Append(Tail(mail), Tell(s, "service-stopped"))
                 d == Notify(q, state', s, waiters[s], "stopped")
             IN  \E out \in StartOutcomes(s) :
                    /\ Becomes([d EXCEPT !.mail = @ \o out.sends])
                    /\ up' = (up \ {s}) \cup out.up
                    /\ opening' = opening \cup out.opening
          /\ UNCHANGED needStop
       \/ /\ ~(state[s] = "INFLUENCE" /\ AllDependsStopped(s))
          /\ Sends(Tail(mail))
          /\ UNCHANGED <<machines, components>>
    /\ UNCHANGED outside

\* A() for "service-stopped"
StoppedEvent(s) ==
    /\ Delivered("service-stopped", s)
    /\ \/ /\ state[s] = "STOPPING"
          /\ Answers(s, "OFF", "stopped")
       \/ /\ state[s] # "STOPPING"
          /\ Sends(Tail(mail))
          /\ UNCHANGED machines
    /\ UNCHANGED <<components, outside>>

\* do_finish_starting(), do_finish_stoping()
DoFinishStarting ==
    /\ mail # <<>> /\ Head(mail) = FinishStartingCall
    /\ mail' = Tail(mail)
    /\ starting' = Absent
    /\ UNCHANGED <<machines, components, stoping, restarts, outside>>

DoFinishStoping ==
    /\ mail # <<>> /\ Head(mail) = FinishStopingCall
    /\ mail' = Tail(mail)
    /\ stoping' = Absent
    /\ UNCHANGED <<machines, components, starting, restarts, outside>>

\* the Deferred that start() returned fires
StartDone(s) ==
    /\ s \in opening
    /\ opening' = opening \ {s}
    /\ up' = up \cup {s}
    /\ Sends(Append(mail, Tell(s, "service-started")))
    /\ UNCHANGED <<machines, outside>>

StartFails(s) ==
    /\ s \in opening /\ s \in Faulty
    /\ opening' = opening \ {s}
    /\ Sends(Append(mail, Tell(s, "service-failed")))
    /\ UNCHANGED <<machines, up, outside>>
-----------------------------------------------------------------------------
Asks == requests < MaxRequests /\ requests' = requests + 1

\* config.setBool() of the service's option and on_service_enabled_disabled()
Switch(s) ==
    /\ Asks
    /\ enabled' = IF s \in enabled THEN enabled \ {s} ELSE enabled \cup {s}
    /\ Sends(Append(mail, Tell(s, IF s \in enabled THEN "stop" ELSE "start")))
    /\ UNCHANGED <<machines, components>>

\* driver.start_single() as service_data_motion, service_my_data and
\* service_list_files call it: of a service that is enabled and down
StartSingle(s) ==
    /\ Asks
    /\ s \in Single /\ s \in enabled /\ state[s] \in Down
    /\ Sends(Append(mail, Event("start", s, "answer")))
    /\ UNCHANGED <<machines, components, enabled>>

\* driver.stop_single() as they call it: of a service that is enabled and not
\* down
StopSingle(s) ==
    /\ Asks
    /\ s \in Single /\ s \in enabled /\ state[s] \notin Down
    /\ \/ /\ state[s] = "ON"
          /\ Sends(Append(mail, Event("stop", s, "answer")))
          /\ UNCHANGED waiters
       \/ /\ state[s] \in {"STOPPING", "INFLUENCE"}
          /\ SetCallback(s, "answer")
          /\ Sends(mail)
       \/ /\ state[s] = "STARTING"
          /\ SetCallback(s, "then-stop")
          /\ Sends(mail)
    /\ UNCHANGED <<state, needStart, needStop, components, enabled>>

\* driver.restart() with the wait_timeout of api.service_restart(), or without
\* one (service_network)
RestartService(r, s, timed) ==
    /\ Asks
    /\ restarts[r].phase = "idle"
    /\ LET waits == (IF stoping.state = "pending" THEN {"stop"} ELSE {})
                    \cup (IF starting.state = "pending" THEN {"start"} ELSE {})
                    \cup (IF timed /\ \E t \in Service : state[t] \in Moving
                          THEN {"timer"} ELSE {})
           d == [Driver(mail, state) EXCEPT
                    !.restarts[r] = [phase |-> "waiting", svc |-> s, waits |-> waits],
                    !.stoping.subs = IF "stop" \in waits
                                     THEN Append(@, <<"dep", r>>) ELSE @,
                    !.starting.subs = IF "start" \in waits
                                      THEN Append(@, <<"dep", r>>) ELSE @]
       IN  Becomes(Settle(IF waits = {} THEN DoStop(d, r) ELSE d))
    /\ UNCHANGED <<machines, components, enabled>>

\* the wait_timeout of restart r
RestartTimer(r) ==
    /\ restarts[r].phase = "waiting" /\ "timer" \in restarts[r].waits
    /\ Becomes(Settle(Fired(Driver(mail, state), r, "timer")))
    /\ UNCHANGED <<machines, components, outside>>
-----------------------------------------------------------------------------
\* driver.init() has created the machines and driver.start() sent "start" to
\* the services that were enabled then, in some order: build_order() stops
\* sorting at a service that depends on one that is switched off.
Init ==
    /\ state = [s \in Service |-> "OFF"]
    /\ needStart = [s \in Service |-> FALSE]
    /\ needStop = [s \in Service |-> FALSE]
    /\ waiters = [s \in Service |-> <<>>]
    /\ enabled \in SUBSET Service
    /\ up = {} /\ opening = {}
    /\ \E order \in SetToSeqs(enabled) :
          mail = [i \in DOMAIN order |-> Event("start", order[i], "start-group")]
    /\ starting = IF enabled = {} THEN Absent ELSE Pending(enabled, <<>>)
    /\ stoping = Absent
    /\ restarts = [r \in Restart |-> Idle]
    /\ requests = 0

Handle(s) ==
    \/ StartEvent(s) \/ StopEvent(s) \/ StartedEvent(s) \/ SetbackEvent(s)
    \/ DependStoppedEvent(s) \/ StoppedEvent(s)

Deliver == (\E s \in Service : Handle(s)) \/ DoFinishStarting \/ DoFinishStoping

Ask(s) ==
    \/ Switch(s) \/ StartSingle(s) \/ StopSingle(s)
    \/ \E r \in Restart, timed \in BOOLEAN : RestartService(r, s, timed)

Next ==
    \/ Deliver
    \/ \E s \in Service : StartDone(s) \/ StartFails(s) \/ Ask(s)
    \/ \E r \in Restart : RestartTimer(r)

\* The reactor delivers what it queued, a service's start() Deferred fires and
\* so does a timeout.
Fairness ==
    /\ WF_vars(Deliver)
    /\ \A s \in Service : WF_vars(StartDone(s) \/ StartFails(s))
    /\ \A r \in Restart : WF_vars(RestartTimer(r))

Spec == Init /\ [][Next]_vars
FairSpec == Spec /\ Fairness
-----------------------------------------------------------------------------
\* Types of the service machines and the driver.
TypeOK ==
    /\ state \in [Service -> States]
    /\ needStart \in [Service -> BOOLEAN]
    /\ needStop \in [Service -> BOOLEAN]
    /\ \A s \in Service : waiters[s] \in Seq(Waiters)
    /\ enabled \subseteq Service /\ up \subseteq Service
    /\ opening \subseteq Service
    /\ \A i \in DOMAIN mail :
          \/ mail[i] \in {FinishStartingCall, FinishStopingCall}
          \/ mail[i] \in [ev : Events, to : Service, cb : Waiters \cup {NoWaiter}]
    /\ \A d \in {starting, stoping} :
          /\ d.state \in {"none", "pending", "fired"}
          /\ d.left \subseteq Service
          /\ d.state = "pending" <=> d.left # {}
    /\ \A r \in Restart :
          /\ restarts[r].phase \in {"idle", "waiting", "stopping", "starting",
                                   "done", "failed"}
          /\ restarts[r].waits # {} => restarts[r].phase = "waiting"
    /\ requests \in 0 .. MaxRequests

\* doStartService() and isAllDependsStopped(): at every moment a service that
\* runs, or whose start() is under way, has all the services it depends on
\* running under it, whatever starts, stops and restarts overlap.
DependenciesUp == \A s \in up \cup opening : DependsOn[s] \subseteq up

\* is_on(), is_off(), is_started(): the state of the machine tells whether the
\* service runs.  A machine that says ON or INFLUENCE has run start() and not
\* yet stop(); a running service has a machine that will still stop it.
StateTellsRunning ==
    \A s \in Service :
        /\ state[s] \in {"ON", "INFLUENCE"} => s \in up
        /\ s \in opening => state[s] = "STARTING" /\ s \notin up
        /\ s \in up =>
              \/ state[s] \in {"ON", "INFLUENCE"}
              \/ /\ state[s] = "STARTING"
                 /\ \E i \in DOMAIN mail : mail[i] = Tell(s, "service-started")

\* What depends on a service can rely on its state: it runs, and so does all it
\* needs itself.
ServicesSound == DependenciesUp /\ StateTellsRunning

\* how many times a Deferred w of service s is waiting to be called or to be
\* handed to the machine
Holders(s, w) ==
    Cardinality({i \in DOMAIN waiters[s] : waiters[s][i] = w})
    + Cardinality({i \in DOMAIN mail : mail[i].ev \in Events
                                       /\ mail[i].to = s /\ mail[i].cb = w})

\* driver.start(), driver.stop(): every Deferred the driver still waits for is
\* held by the machine of its service, or is on its way there, exactly once;
\* so none is forgotten and none is called twice.
GroupHeld ==
    \A s \in Service :
        /\ Holders(s, "start-group") = IF s \in starting.left THEN 1 ELSE 0
        /\ Holders(s, "stop-group") = IF s \in stoping.left THEN 1 ELSE 0

\* nothing is queued and no start() is under way: nothing more will happen
\* before somebody asks for something
Quiet == mail = <<>> /\ opening = {}

\* api.service_stop(), "Stop given service immediately": the machines never
\* come to rest with one still on its way up or down.
NothingStuck == Quiet => \A s \in Service : state[s] \notin Moving

\* No machine and no Deferred of the driver is forgotten on the way.
NothingForgotten == GroupHeld /\ NothingStuck

\* initializer.doInitServices() waits for driver.start(), then goes on: the
\* start of all services ends, though some fail or miss a dependency.
BootEnds == starting.state = "pending" ~> starting.state = "none"

\* doStopDependentServices(): a service that waits for its dependents to stop
\* does not wait for ever.
InfluenceEnds ==
    \A s \in Service : state[s] = "INFLUENCE" ~> state[s] # "INFLUENCE"

\* What was begun for a group of services comes to its end.
SwitchingEnds == BootEnds /\ InfluenceEnds
=============================================================================
