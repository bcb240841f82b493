--------------------------- MODULE MonitorAlerts ---------------------------
(***************************************************************************)
(* From a probe result to a message: the worker goroutine of each monitor, *)
(* the store's tables monitor_states, monitor_alert_states and             *)
(* pending_monitor_alerts, the dispatcher that claims, sends and records   *)
(* queued alerts, configuration reloads, and crashes of the daemon.        *)
(*                                                                         *)
(* A store transaction is one step.  Everything the code does between two  *)
(* of them - the probe, the reads before it, the send - is a step of its   *)
(* own, so workers, dispatcher, reloads and crashes interleave as          *)
(* goroutines do.  A worker is cancelled through its context, which makes  *)
(* its next store operation fail: a cancelled probe never commits, and a   *)
(* cancelled dispatch runs on with every store operation failing.          *)
(***************************************************************************)
EXTENDS MonitorStates

CONSTANTS
    Monitors,       \* monitor IDs a configuration may name
    Thresholds,     \* failure thresholds a configuration may set
    Delayed,        \* transitions with a transition_delay above zero
    Events,         \* what the environment may do, see EventKind
    MaxAlerts       \* bound on the rows of pending_monitor_alerts

\* "store_error": any store operation may fail.  "crash": the daemon may stop
\* at any point and be started again.  "reload": the configuration may change.
\* "maintenance": windows begin and end.  "observer": the observer's status
\* changes and the transfer guard may degrade.
EventKind == {"store_error", "crash", "reload", "maintenance", "observer"}

Ticker == "ticker"

ASSUME MonitorsAssumption == Ticker \notin Monitors
ASSUME ThresholdsAssumption == Thresholds \subseteq 1 .. MaxFailures
ASSUME DelayedAssumption == Delayed \subseteq Transition
ASSUME EventsAssumption == Events \subseteq EventKind
ASSUME MaxAlertsAssumption == MaxAlerts \in Nat

VARIABLES
    running,        \* the daemon process is up
    configured,     \* monitors of the applied configuration (Runner.workers)
    threshold,      \* the failure threshold each worker was started with
    worker,         \* where each monitor's goroutine is in probe
    dispatcher,     \* the holder of alertDispatchMu and its progress
    unrecorded,     \* keys of Runner.pendingAlertWrites: sent, not recorded
    monitorState,   \* monitor_states
    alertState,     \* monitor_alert_states.last_notified_status
    lastId,         \* the last row id of pending_monitor_alerts
    alerts,         \* pending_monitor_alerts, by row id
    maintained,     \* monitors with an active maintenance window
    observer        \* observer_state.status

daemon == <<running, configured, threshold>>
store == <<monitorState, alertState, lastId, alerts>>
environment == <<maintained, observer>>
vars == <<daemon, worker, dispatcher, unrecorded, store, environment>>

-----------------------------------------------------------------------------

AlertIds == 1 .. lastId

\* A row of pending_monitor_alerts; due is due_at <= now, and sent is a history
\* of how often the row's message was handed to the providers.
Alert ==
    [monitor    : Monitors,
     transition : Transition,
     status     : {"pending", "sending", "delivered", "cancelled"},
     due        : BOOLEAN,
     sent       : 0 .. 2]

Worker ==
    [pc   : {"gone", "idle", "saving", "dispatch"},
     kind : {"", "suppressed", "maintenance", "evaluate"},
     ok   : BOOLEAN,
     prev : MonitorRow]

WorkerAt(pc) == [pc |-> pc, kind |-> "", ok |-> FALSE, prev |-> NoRow]

\* live is FALSE once the context the dispatch runs under is cancelled.
Dispatcher ==
    [phase   : {"free", "rewriting", "claiming", "sending", "recording"},
     owner   : Monitors \cup {Ticker},
     live    : BOOLEAN,
     rewrite : SUBSET AlertIds,
     queue   : SUBSET AlertIds,
     current : AlertIds \cup {0}]

FreeDispatcher ==
    [phase |-> "free", owner |-> Ticker, live |-> TRUE,
     rewrite |-> {}, queue |-> {}, current |-> 0]

Init ==
    /\ running = FALSE
    /\ configured = {}
    /\ threshold \in [Monitors -> Thresholds]
    /\ worker = [m \in Monitors |-> WorkerAt("gone")]
    /\ dispatcher = FreeDispatcher
    /\ unrecorded = {}
    /\ monitorState = [m \in Monitors |-> NoRow]
    /\ alertState = [m \in Monitors |-> NoStatus]
    /\ lastId = 0
    /\ alerts = [id \in 1 .. 0 |-> 0]
    /\ maintained = {}
    /\ observer = "OBSERVER_UP"

-----------------------------------------------------------------------------
(* The tables *)

\* Faulty variant: the comparison with the transition to keep is inverted.
CancelMatching(rows, m, keep) ==
    [id \in AlertIds |->
        IF /\ rows[id].monitor = m
           /\ rows[id].status = "pending"
           /\ rows[id].transition = keep
        THEN [rows[id] EXCEPT !.status = "cancelled"]
        ELSE rows[id]]

\* UPDATE pending_monitor_alerts SET status = 'cancelled' of one monitor's
\* pending rows, except those of the transition to keep.
CancelPending(rows, m, keep) ==
    [id \in AlertIds |->
        IF /\ rows[id].monitor = m
           /\ rows[id].status = "pending"
           /\ rows[id].transition # keep
        THEN [rows[id] EXCEPT !.status = "cancelled"]
        ELSE rows[id]]

\* Faulty variant: the delay is added whatever its value.
NewAlertAlwaysLater(m, transition) ==
    [monitor |-> m, transition |-> transition, status |-> "pending",
     due |-> FALSE, sent |-> 0]

NewAlert(m, transition) ==
    [monitor |-> m, transition |-> transition, status |-> "pending",
     due |-> transition \notin Delayed, sent |-> 0]

Queue(rows, alert) ==
    [id \in 1 .. lastId + 1 |-> IF id = lastId + 1 THEN alert ELSE rows[id]]

\* The status an incident's message is measured against: the row of
\* monitor_alert_states, created from the stored status if it is missing.
Baseline(m) ==
    IF alertState[m] = NoStatus THEN StatusOutsideMaintenance(monitorState[m])
    ELSE alertState[m]

StoreMayFail == "store_error" \in Events

-----------------------------------------------------------------------------
(* Workers *)

\* The probe and the reads before its first write.
Probe(m, ok) ==
    /\ worker[m].pc = "idle"
    /\ \E guardDegraded \in IF "observer" \in Events THEN BOOLEAN ELSE {FALSE} :
          worker' = [worker EXCEPT ![m] =
              [pc |-> "saving",
               kind |-> KindOfProbe(ok, observer, m \in maintained, guardDegraded),
               ok |-> ok, prev |-> Previous(monitorState[m])]]
    /\ UNCHANGED <<daemon, dispatcher, unrecorded, store, environment>>

\* A store operation of the probe fails: it is logged and the probe ends.
ProbeFails(m) ==
    /\ StoreMayFail
    /\ worker[m].pc = "saving"
    /\ worker' = [worker EXCEPT ![m] = WorkerAt("idle")]
    /\ UNCHANGED <<daemon, dispatcher, unrecorded, store, environment>>

SaveProbeResult(m) ==
    /\ worker[m].pc = "saving"
    /\ worker[m].kind = "suppressed"
    /\ worker' = [worker EXCEPT ![m] = WorkerAt("idle")]
    /\ UNCHANGED <<daemon, dispatcher, unrecorded, store, environment>>

SaveProbeAndState(m) ==
    /\ worker[m].pc = "saving"
    /\ worker[m].kind = "maintenance"
    /\ worker' = [worker EXCEPT ![m] = WorkerAt("idle")]
    /\ monitorState' = [monitorState EXCEPT ![m] = MaintenanceState(worker[m].prev)]
    /\ alerts' = CancelPending(alerts, m, "MAINTENANCE")
    /\ UNCHANGED <<daemon, dispatcher, unrecorded, alertState, lastId, environment>>

\* The probe made no incident: only alerts of another status are cancelled.
SaveQuietProbe(m) ==
    LET next == Evaluated(worker[m].prev, worker[m].ok, threshold[m])
    IN  /\ worker[m].pc = "saving"
        /\ worker[m].kind = "evaluate"
        /\ EvaluateProbe(worker[m].prev, worker[m].ok, threshold[m]).incident = NoIncident
        /\ worker' = [worker EXCEPT ![m] = WorkerAt("idle")]
        /\ monitorState' = [monitorState EXCEPT ![m] = next]
        /\ alerts' = CancelPending(alerts, m, next.status)
        /\ UNCHANGED <<daemon, dispatcher, unrecorded, alertState, lastId, environment>>

\* The probe made an incident: every pending alert of the monitor is cancelled
\* and one is queued unless the recipients were last told of the new status.
\* The count of queued rows is read in a query of its own after the commit; if
\* that fails, or the transition is delayed, the dispatch is left to the ticker.
SaveIncident(m) ==
    LET next == Evaluated(worker[m].prev, worker[m].ok, threshold[m])
        queued == next.status # Baseline(m)
    IN  /\ worker[m].pc = "saving"
        /\ worker[m].kind = "evaluate"
        /\ EvaluateProbe(worker[m].prev, worker[m].ok, threshold[m]).incident # NoIncident
        /\ queued => lastId < MaxAlerts
        /\ monitorState' = [monitorState EXCEPT ![m] = next]
        /\ alertState' = [alertState EXCEPT ![m] = Baseline(m)]
        /\ LET cancelled == CancelPending(alerts, m, NoIncident)
           IN  IF queued
               THEN /\ lastId' = lastId + 1
                    /\ alerts' = Queue(cancelled, NewAlert(m, next.status))
               ELSE /\ lastId' = lastId
                    /\ alerts' = cancelled
        /\ \E counted \in IF StoreMayFail THEN BOOLEAN ELSE {TRUE} :
              worker' = [worker EXCEPT ![m] =
                  WorkerAt(IF queued /\ counted /\ next.status \notin Delayed
                           THEN "dispatch" ELSE "idle")]
        /\ UNCHANGED <<daemon, dispatcher, unrecorded, environment>>

-----------------------------------------------------------------------------
(* The dispatcher: dispatchPendingMonitorAlerts under alertDispatchMu *)

\* A store operation of the dispatch can succeed only under a live context, and
\* can fail under one that is not.
CanSucceed == dispatcher.live
CanFail == StoreMayFail \/ ~dispatcher.live

BeginDispatch(owner) ==
    /\ running
    /\ dispatcher.phase = "free"
    /\ owner # Ticker => worker[owner].pc = "dispatch"
    /\ dispatcher' = [FreeDispatcher EXCEPT !.phase = "rewriting", !.owner = owner,
                                            !.rewrite = unrecorded]
    /\ UNCHANGED <<daemon, worker, unrecorded, store, environment>>

\* The unlock: a worker that was not cancelled goes on to its next probe.
Release ==
    /\ dispatcher' = FreeDispatcher
    /\ worker' = IF dispatcher.owner # Ticker /\ dispatcher.live
                 THEN [worker EXCEPT ![dispatcher.owner] = WorkerAt("idle")]
                 ELSE worker

\* RecordPendingMonitorAlertDelivery: the row is delivered and its transition
\* becomes the monitor's last notified status, whatever the providers answered.
Delivered(id) ==
    /\ alerts[id].status = "sending"
    /\ alerts' = [alerts EXCEPT ![id].status = "delivered"]
    /\ alertState' = [alertState EXCEPT ![alerts[id].monitor] = alerts[id].transition]

Rewrite(id) ==
    /\ dispatcher.phase = "rewriting"
    /\ id \in dispatcher.rewrite
    /\ CanSucceed
    /\ Delivered(id)
    /\ unrecorded' = unrecorded \ {id}
    /\ dispatcher' = [dispatcher EXCEPT !.rewrite = @ \ {id}]
    /\ UNCHANGED <<daemon, worker, monitorState, lastId, environment>>

RewriteFails(id) ==
    /\ dispatcher.phase = "rewriting"
    /\ id \in dispatcher.rewrite
    /\ CanFail
    /\ dispatcher' = [dispatcher EXCEPT !.rewrite = @ \ {id}]
    /\ UNCHANGED <<daemon, worker, unrecorded, store, environment>>

MatchesState(id) == monitorState[alerts[id].monitor].status = alerts[id].transition

ListDue ==
    /\ dispatcher.phase = "rewriting"
    /\ dispatcher.rewrite = {}
    /\ CanSucceed
    /\ dispatcher' = [dispatcher EXCEPT !.phase = "claiming",
                          !.queue = {id \in AlertIds : /\ alerts[id].status = "pending"
                                                       /\ alerts[id].due
                                                       /\ MatchesState(id)}]
    /\ UNCHANGED <<daemon, worker, unrecorded, store, environment>>

ListDueFails ==
    /\ dispatcher.phase = "rewriting"
    /\ dispatcher.rewrite = {}
    /\ CanFail
    /\ Release
    /\ UNCHANGED <<daemon, unrecorded, store, environment>>

Claimable(id) == alerts[id].status = "pending" /\ MatchesState(id)

Claim(id) ==
    /\ dispatcher.phase = "claiming"
    /\ id \in dispatcher.queue
    /\ CanSucceed
    /\ Claimable(id)
    /\ alerts' = [alerts EXCEPT ![id].status = "sending"]
    /\ dispatcher' = [dispatcher EXCEPT !.phase = "sending", !.current = id,
                                        !.queue = @ \ {id}]
    /\ UNCHANGED <<daemon, worker, unrecorded, monitorState, alertState, lastId, environment>>

\* The claim finds the row taken or stale, or the update fails.
Skip(id) ==
    /\ dispatcher.phase = "claiming"
    /\ id \in dispatcher.queue
    /\ CanFail \/ ~Claimable(id)
    /\ dispatcher' = [dispatcher EXCEPT !.queue = @ \ {id}]
    /\ UNCHANGED <<daemon, worker, unrecorded, store, environment>>

\* The providers are called with no lock on the store held.
Send ==
    /\ dispatcher.phase = "sending"
    /\ alerts' = [alerts EXCEPT ![dispatcher.current].sent = IF @ = 0 THEN 1 ELSE 2]
    /\ dispatcher' = [dispatcher EXCEPT !.phase = "recording"]
    /\ UNCHANGED <<daemon, worker, unrecorded, monitorState, alertState, lastId, environment>>

NextItem == dispatcher' = [dispatcher EXCEPT !.phase = "claiming", !.current = 0]

Record ==
    /\ dispatcher.phase = "recording"
    /\ CanSucceed
    /\ Delivered(dispatcher.current)
    /\ NextItem
    /\ UNCHANGED <<daemon, worker, unrecorded, monitorState, lastId, environment>>

\* Faulty variant: the row is made pending again, although it was sent.
RecordFailsRequeues ==
    /\ dispatcher.phase = "recording"
    /\ CanFail
    /\ alerts' = [alerts EXCEPT ![dispatcher.current].status = "pending"]
    /\ NextItem
    /\ UNCHANGED <<daemon, worker, unrecorded, monitorState, alertState, lastId, environment>>

\* Faulty variant: the delivery is not kept for later.
RecordFailsForgets ==
    /\ dispatcher.phase = "recording"
    /\ CanFail
    /\ NextItem
    /\ UNCHANGED <<daemon, worker, unrecorded, store, environment>>

RecordFails ==
    /\ dispatcher.phase = "recording"
    /\ CanFail
    /\ unrecorded' = unrecorded \cup {dispatcher.current}
    /\ NextItem
    /\ UNCHANGED <<daemon, worker, store, environment>>

EndDispatch ==
    /\ dispatcher.phase = "claiming"
    /\ dispatcher.queue = {}
    /\ Release
    /\ UNCHANGED <<daemon, unrecorded, store, environment>>

-----------------------------------------------------------------------------
(* Configuration and the process *)

\* Faulty variant: the row of monitor_states is left behind.
DeleteAlertStatesExcept(kept) ==
    /\ alerts' = [id \in AlertIds |->
                     IF alerts[id].monitor \notin kept /\ alerts[id].status = "pending"
                     THEN [alerts[id] EXCEPT !.status = "cancelled"]
                     ELSE alerts[id]]
    /\ alertState' = [m \in Monitors |-> IF m \in kept THEN alertState[m] ELSE NoStatus]
    /\ UNCHANGED <<monitorState, lastId>>

\* DeleteStatesExcept: monitors that are no longer configured lose their rows,
\* and their pending alerts are cancelled.  Claimed alerts stay as they are.
DeleteStatesExcept(kept) ==
    /\ alerts' = [id \in AlertIds |->
                     IF alerts[id].monitor \notin kept /\ alerts[id].status = "pending"
                     THEN [alerts[id] EXCEPT !.status = "cancelled"]
                     ELSE alerts[id]]
    /\ alertState' = [m \in Monitors |-> IF m \in kept THEN alertState[m] ELSE NoStatus]
    /\ monitorState' = [m \in Monitors |-> IF m \in kept THEN monitorState[m] ELSE NoRow]
    /\ lastId' = lastId

\* A cleanup that fails is logged and the reload goes on.
CleanUp(kept) ==
    \/ DeleteStatesExcept(kept)
    \/ StoreMayFail /\ UNCHANGED store

\* The monitors whose worker a configuration cancels: removed ones, and those
\* whose threshold or some other setting (changed) differs.
Cancelled(kept, limits, changed) ==
    {m \in configured : m \notin kept \/ m \in changed \/ limits[m] # threshold[m]}

\* Faulty variant: the worker of a removed monitor is not cancelled.
ApplyConfigKeepingWorkers(kept, limits, changed) ==
    /\ CleanUp(kept)
    /\ configured' = kept
    /\ threshold' = [m \in Monitors |-> IF m \in kept THEN limits[m] ELSE threshold[m]]
    /\ worker' = [m \in Monitors |->
                     IF m \in kept /\ (m \notin configured \/ m \in Cancelled(kept, limits, changed))
                     THEN WorkerAt("idle") ELSE worker[m]]

ApplyConfig(kept, limits, changed) ==
    /\ CleanUp(kept)
    /\ configured' = kept
    /\ threshold' = [m \in Monitors |-> IF m \in kept THEN limits[m] ELSE threshold[m]]
    /\ worker' = [m \in Monitors |->
                     IF m \notin kept THEN WorkerAt("gone")
                     ELSE IF m \in configured \ Cancelled(kept, limits, changed) THEN worker[m]
                     ELSE WorkerAt("idle")]

Start ==
    /\ ~running
    /\ running' = TRUE
    /\ \E kept \in SUBSET Monitors, limits \in [Monitors -> Thresholds] :
          ApplyConfig(kept, limits, {})
    /\ UNCHANGED <<dispatcher, unrecorded, environment>>

\* One goroutine handles the reload signal and the ticker, so a reload does not
\* overlap with a dispatch the ticker began.
Reload ==
    /\ "reload" \in Events
    /\ running
    /\ dispatcher.phase = "free" \/ dispatcher.owner # Ticker
    /\ \E kept, changed \in SUBSET Monitors, limits \in [Monitors -> Thresholds] :
          /\ ApplyConfig(kept, limits, changed)
          /\ dispatcher' = IF dispatcher.owner \in Cancelled(kept, limits, changed)
                           THEN [dispatcher EXCEPT !.live = FALSE]
                           ELSE dispatcher
    /\ UNCHANGED <<running, unrecorded, environment>>

\* The process ends, at any point: what is in memory is lost, tables are not.
Crash ==
    /\ "crash" \in Events
    /\ running
    /\ running' = FALSE
    /\ configured' = {}
    /\ worker' = [m \in Monitors |-> WorkerAt("gone")]
    /\ dispatcher' = FreeDispatcher
    /\ unrecorded' = {}
    /\ UNCHANGED <<threshold, store, environment>>

-----------------------------------------------------------------------------
(* The environment *)

DelayElapses(id) ==
    /\ id \in AlertIds
    /\ alerts[id].status = "pending"
    /\ ~alerts[id].due
    /\ alerts' = [alerts EXCEPT ![id].due = TRUE]
    /\ UNCHANGED <<daemon, worker, dispatcher, unrecorded, monitorState, alertState,
                   lastId, environment>>

ToggleMaintenance(m) ==
    /\ "maintenance" \in Events
    /\ maintained' = IF m \in maintained THEN maintained \ {m} ELSE maintained \cup {m}
    /\ UNCHANGED <<daemon, worker, dispatcher, unrecorded, store, observer>>

ToggleObserver ==
    /\ "observer" \in Events
    /\ observer' = IF observer = "OBSERVER_DOWN" THEN "OBSERVER_UP" ELSE "OBSERVER_DOWN"
    /\ UNCHANGED <<daemon, worker, dispatcher, unrecorded, store, maintained>>

-----------------------------------------------------------------------------

Save(m) ==
    \/ SaveProbeResult(m)
    \/ SaveProbeAndState(m)
    \/ SaveQuietProbe(m)
    \/ SaveIncident(m)

Monitoring(m) ==
    \/ \E ok \in BOOLEAN : Probe(m, ok)
    \/ ProbeFails(m)
    \/ Save(m)

Dispatching ==
    \/ \E owner \in Monitors \cup {Ticker} : BeginDispatch(owner)
    \/ \E id \in AlertIds : Rewrite(id) \/ RewriteFails(id) \/ Claim(id) \/ Skip(id)
    \/ ListDue
    \/ ListDueFails
    \/ Send
    \/ Record
    \/ RecordFails
    \/ EndDispatch

Environment ==
    \/ \E id \in AlertIds : DelayElapses(id)
    \/ \E m \in Monitors : ToggleMaintenance(m)
    \/ ToggleObserver

Next ==
    \/ \E m \in Monitors : Monitoring(m)
    \/ Dispatching
    \/ Start
    \/ Reload
    \/ Crash
    \/ Environment

Spec == Init /\ [][Next]_vars

\* The scheduler runs every goroutine, time passes, and a store operation that is
\* tried again and again succeeds at some point.  A goroutine that waits for
\* alertDispatchMu gets it although others keep taking it.  Nothing says that a
\* monitor is ever probed again, that a configuration changes, or that the
\* daemon is started again after a crash.
DispatchStep ==
    \/ \E id \in AlertIds : Rewrite(id) \/ RewriteFails(id) \/ Claim(id) \/ Skip(id)
    \/ ListDue \/ ListDueFails \/ Send \/ Record \/ RecordFails \/ EndDispatch

Fairness ==
    /\ \A m \in Monitors : WF_vars(Save(m)) /\ SF_vars(BeginDispatch(m))
    /\ SF_vars(BeginDispatch(Ticker))
    /\ WF_vars(DispatchStep)
    /\ SF_vars(ListDue)
    /\ \A id \in 1 .. MaxAlerts :
          SF_vars(Rewrite(id)) /\ SF_vars(Claim(id)) /\ WF_vars(DelayElapses(id))

-----------------------------------------------------------------------------
(* Properties *)

\* The type of the whole state.
TypeOK ==
    /\ running \in BOOLEAN
    /\ configured \in SUBSET Monitors
    /\ threshold \in [Monitors -> Thresholds]
    /\ worker \in [Monitors -> Worker]
    /\ dispatcher \in Dispatcher
    /\ unrecorded \in SUBSET AlertIds
    /\ monitorState \in [Monitors -> MonitorRow]
    /\ alertState \in [Monitors -> Status \cup {NoStatus}]
    /\ lastId \in 0 .. MaxAlerts
    /\ alerts \in [AlertIds -> Alert]
    /\ maintained \in SUBSET Monitors
    /\ observer \in {"OBSERVER_UP", "OBSERVER_DOWN"}

Pending(id) == alerts[id].status = "pending"

\* A message waits only as long as it tells the truth: the stored status of the
\* monitor is the one the message announces.  Maintenance, a failure below the
\* threshold, a recovery and the removal of the monitor all cancel it.  And of a
\* monitor at most one waits, whatever the order of probes, dispatches and reloads.
PendingTellsStoredStatus ==
    \A id \in AlertIds :
        Pending(id) =>
            /\ MatchesState(id)
            /\ \A j \in AlertIds :
                  Pending(j) /\ alerts[j].monitor = alerts[id].monitor => j = id

\* No message is handed to the providers twice, through dispatches that overlap
\* with probes, failed records and their rewriting, cancelled workers and
\* crashes; and a row is delivered only after its message was.
SentAtMostOnce ==
    \A id \in AlertIds :
        /\ alerts[id].sent <= 1
        /\ alerts[id].status = "delivered" => alerts[id].sent = 1
        /\ alerts[id].status \in {"pending", "cancelled"} => alerts[id].sent = 0

\* What makes SentAtMostOnce inductive: the row in the hands of the dispatcher is
\* claimed and sent exactly when its phase says so, and what waits in
\* Runner.pendingAlertWrites was sent once, is still claimed, and is not the row
\* in hand.
DispatcherInv ==
    /\ dispatcher.rewrite \subseteq unrecorded
    /\ \A id \in unrecorded : alerts[id].status = "sending" /\ alerts[id].sent = 1
    /\ dispatcher.phase \in {"sending", "recording"} =>
          /\ dispatcher.current \in AlertIds \ unrecorded
          /\ alerts[dispatcher.current].status = "sending"
          /\ alerts[dispatcher.current].sent = IF dispatcher.phase = "sending" THEN 0 ELSE 1

\* The state a probe read before the first of its writes is still the stored
\* one when it is used: only the monitor's own worker and a reload that cancels
\* that worker write it, so probe needs no transaction around read and write.
SnapshotIsFresh ==
    \A m \in Monitors :
        worker[m].pc = "saving" => worker[m].prev = Previous(monitorState[m])

\* DOWN becomes the last notified status of a monitor only by sending a DOWN
\* message: it is never taken as a baseline, whatever maintenance, removal and
\* re-adding, or a lost record did in between.
DownIsNotifiedByMessage ==
    \A m \in Monitors :
        alertState[m] = "DOWN" =>
            \E id \in AlertIds : /\ alerts[id].monitor = m
                                 /\ alerts[id].transition = "DOWN"
                                 /\ alerts[id].status = "delivered"

\* A claimed row is in the hands of the dispatch that claimed it, or in
\* Runner.pendingAlertWrites, until it is recorded.
Owned(id) ==
    \/ dispatcher.current = id
    \/ id \in unrecorded

\* Only the end of the process can orphan a claimed row: no failure of the
\* store, cancelled worker or reload makes the daemon forget that it sent a
\* message it has not recorded.
ClaimedIsNotForgotten ==
    [][\A id \in AlertIds :
          alerts[id].status = "sending" /\ Owned(id) /\ running' =>
              alerts'[id].status = "delivered" \/ Owned(id)']_vars

\* A message of the monitor is queued or being sent.
Underway(id) == id \in AlertIds /\ alerts[id].status \in {"pending", "sending"}

\* Whenever a monitor stands UP or DOWN and its recipients were last told the
\* opposite, the message that tells them is queued or being sent.  This is what
\* delaying a message - and cancelling it only when the monitor returns to the
\* status last notified - means.
NoTransitionUntold ==
    \A m \in Monitors :
        /\ monitorState[m].status \in Transition
        /\ alertState[m] \in Transition
        /\ monitorState[m].status # alertState[m]
        => \E id \in AlertIds : alerts[id].monitor = m /\ Underway(id)

\* While messages are immediate, a message being sent announces the stored
\* status: the worker that queued it waits for the dispatch before it probes
\* again, whichever worker or ticker holds alertDispatchMu.
InFlightIsCurrent ==
    dispatcher.phase = "sending" => MatchesState(dispatcher.current)

\* A queued recovery message is cancelled only by what makes it wrong or moot:
\* the monitor is DOWN again - the status last notified -, in maintenance, or no
\* longer configured.
RecoveryCancelledByOutage ==
    [][\A id \in AlertIds :
          /\ Pending(id)
          /\ alerts[id].transition = "UP"
          /\ alerts'[id].status = "cancelled"
          => monitorState'[alerts[id].monitor].status
                \in {"DOWN", "MAINTENANCE", NoStatus}]_vars

\* Every queued message is delivered or cancelled in the end: none is stuck
\* between the tables, the ticker and the workers that contend for the mutex.
QueuedIsSettled ==
    \A id \in 1 .. MaxAlerts : Underway(id) ~> ~Underway(id)

=============================================================================
