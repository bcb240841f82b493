------------------------ MODULE MonitorAlertsProofs ------------------------
(***************************************************************************)
(* Theorems about MonitorAlerts, for every set of monitors, thresholds,    *)
(* delays and events, and every bound on the number of alerts.             *)
(***************************************************************************)
EXTENDS MonitorAlerts, TLAPS

USE MaxFailuresAssumption, MonitorsAssumption, ThresholdsAssumption,
    DelayedAssumption, MaxAlertsAssumption

-----------------------------------------------------------------------------
(* The functions of MonitorStates *)

\* Counting stays within the bound, and an incident is the status it leads to.
LEMMA EvaluateResult ==
    ASSUME NEW prev \in MonitorRow, NEW ok \in BOOLEAN, NEW limit \in Int
    PROVE  LET e == Evaluate(prev, ok, limit)
           IN  /\ e.status \in Status \ {"MAINTENANCE"}
               /\ e.failures \in 0 .. MaxFailures
               /\ e.incident # NoIncident =>
                     e.incident \in Transition /\ e.status = e.incident
<1>1. Saturated(prev.failures + 1) \in 0 .. MaxFailures
  BY DEF MonitorRow, Saturated
<1>2. CASE ok
  BY <1>2 DEF Evaluate, Status, Transition, NoIncident
<1>3. CASE ~ok
  BY <1>1, <1>3 DEF Evaluate, Status, Transition, NoIncident
<1>4. QED
  BY <1>2, <1>3

\* An evaluated probe is a row again, its incident - if there is one - is the
\* status the row ends in, and that status is never MAINTENANCE.
LEMMA EvaluatedRow ==
    ASSUME NEW prev \in MonitorRow, NEW ok \in BOOLEAN, NEW limit \in 1 .. MaxFailures
    PROVE  /\ Evaluated(prev, ok, limit) \in MonitorRow
           /\ Evaluated(prev, ok, limit).status \in Status \ {"MAINTENANCE"}
           /\ LET incident == EvaluateProbe(prev, ok, limit).incident
              IN  incident # NoIncident =>
                      /\ incident \in Transition
                      /\ Evaluated(prev, ok, limit).status = incident
<1> DEFINE from == IF prev.status = "MAINTENANCE" /\ ok /\ prev.before = "DOWN"
                   THEN [prev EXCEPT !.status = "DOWN"] ELSE prev
           n == IF prev.status = "MAINTENANCE" /\ ~ok THEN 1 ELSE limit
<1>1. EvaluateProbe(prev, ok, limit) = Evaluate(from, ok, n)
  BY DEF EvaluateProbe
<1>2. from \in MonitorRow /\ n \in Int
  BY DEF MonitorRow, Status
<1> HIDE DEF from, n
<1>3. /\ EvaluateProbe(prev, ok, limit).status \in Status \ {"MAINTENANCE"}
      /\ EvaluateProbe(prev, ok, limit).failures \in 0 .. MaxFailures
      /\ EvaluateProbe(prev, ok, limit).incident # NoIncident =>
            /\ EvaluateProbe(prev, ok, limit).incident \in Transition
            /\ EvaluateProbe(prev, ok, limit).status
                   = EvaluateProbe(prev, ok, limit).incident
  BY <1>1, <1>2, EvaluateResult
<1>4. QED
  BY <1>3 DEF Evaluated, MonitorRow, NoStatus

\* A probe inside a window leaves a row that is in maintenance.
LEMMA MaintenanceRow ==
    ASSUME NEW prev \in MonitorRow
    PROVE  /\ MaintenanceState(prev) \in MonitorRow
           /\ MaintenanceState(prev).status = "MAINTENANCE"
BY DEF MaintenanceState, MonitorRow, Status

\* A monitor without a row is evaluated as one.
LEMMA PreviousRow ==
    ASSUME NEW prev \in MonitorRow
    PROVE  Previous(prev) \in MonitorRow
BY DEF Previous, MonitorRow, Exists, Status

\* The missing row is represented by a row.
LEMMA NoRowIsRow == NoRow \in MonitorRow
BY DEF NoRow, MonitorRow, NoStatus

-----------------------------------------------------------------------------

\* The baseline of a message is a status, so it can be stored and compared.
LEMMA BaselineStatus ==
    ASSUME TypeOK, NEW m \in Monitors
    PROVE  Baseline(m) \in Status
BY DEF TypeOK, Baseline, StatusOutsideMaintenance, MonitorRow, Exists, NoStatus, Status

-----------------------------------------------------------------------------
(* Tables *)

\* Cancelling keeps every row where it is.
LEMMA CancelledRows ==
    ASSUME lastId \in Nat, alerts \in [AlertIds -> Alert], NEW m, NEW keep
    PROVE  CancelPending(alerts, m, keep) \in [AlertIds -> Alert]
BY DEF CancelPending, Alert

\* Queueing appends one pending row and keeps the others.
LEMMA QueuedRows ==
    ASSUME lastId \in Nat, NEW rows \in [AlertIds -> Alert],
           NEW m \in Monitors, NEW t \in Transition
    PROVE  Queue(rows, NewAlert(m, t)) \in [1 .. lastId + 1 -> Alert]
BY DEF Queue, NewAlert, Alert, AlertIds

\* Moving a worker to another step keeps the workers well typed.
LEMMA WorkerAtType ==
    ASSUME NEW pc \in {"gone", "idle", "saving", "dispatch"}
    PROVE  WorkerAt(pc) \in Worker
BY NoRowIsRow DEF WorkerAt, Worker

-----------------------------------------------------------------------------
(* Types, and at most one sending of every message *)

Inv == TypeOK /\ DispatcherInv /\ SentAtMostOnce

\* The tables are empty and the dispatcher is free before the first start.
LEMMA InvInit == Init => Inv
<1> SUFFICES ASSUME Init PROVE Inv
  OBVIOUS
<1> USE DEF Init
<1>1. AlertIds = {} /\ alerts \in [AlertIds -> Alert]
  BY DEF AlertIds
<1>2. worker \in [Monitors -> Worker]
  BY WorkerAtType
<1>3. dispatcher \in Dispatcher
  BY DEF FreeDispatcher, Dispatcher
<1>4. TypeOK
  <2>1. monitorState \in [Monitors -> MonitorRow] /\ alertState \in [Monitors -> Status \cup {NoStatus}]
    BY NoRowIsRow
  <2>2. unrecorded \in SUBSET AlertIds /\ lastId \in 0 .. MaxAlerts
    OBVIOUS
  <2>3. QED
    BY <1>1, <1>2, <1>3, <2>1, <2>2 DEF TypeOK
<1>5. DispatcherInv
  BY DEF DispatcherInv, FreeDispatcher
<1>6. SentAtMostOnce
  BY <1>1 DEF SentAtMostOnce
<1>7. QED
  BY <1>4, <1>5, <1>6 DEF Inv

\* What does not touch the tables or the dispatcher leaves its invariants alone.
LEMMA DispatchUnchanged ==
    ASSUME UNCHANGED <<dispatcher, unrecorded, lastId, alerts>>
    PROVE  /\ DispatcherInv => DispatcherInv'
           /\ SentAtMostOnce => SentAtMostOnce'
BY DEF DispatcherInv, SentAtMostOnce, AlertIds

\* Changing one worker keeps the workers well typed.
LEMMA WorkerStep ==
    ASSUME TypeOK, NEW m \in Monitors, NEW w \in Worker,
           worker' = [worker EXCEPT ![m] = w]
    PROVE  worker' \in [Monitors -> Worker]
BY DEF TypeOK

\* A step of the tables that cancels pending rows, makes them due or adds one
\* cannot disturb a row that was claimed.
LEMMA TablesStep ==
    ASSUME TypeOK, DispatcherInv, SentAtMostOnce,
           UNCHANGED <<dispatcher, unrecorded>>,
           lastId' \in {lastId, lastId + 1},
           alerts' \in [AlertIds' -> Alert],
           \A id \in AlertIds :
              \/ alerts'[id] = alerts[id]
              \/ /\ alerts[id].status = "pending"
                 /\ alerts'[id].status \in {"pending", "cancelled"}
                 /\ alerts'[id].sent = alerts[id].sent,
           \A id \in AlertIds' \ AlertIds :
              alerts'[id].status = "pending" /\ alerts'[id].sent = 0
    PROVE  DispatcherInv' /\ SentAtMostOnce'
<1>1. AlertIds \subseteq AlertIds'
  BY DEF TypeOK, AlertIds
<1>2. unrecorded \in SUBSET AlertIds
  BY DEF TypeOK
<1>3. DispatcherInv'
  BY <1>1, <1>2 DEF DispatcherInv
<1>4. SentAtMostOnce'
  <2> SUFFICES ASSUME NEW id \in AlertIds'
               PROVE  /\ alerts'[id].sent <= 1
                      /\ alerts'[id].status = "delivered" => alerts'[id].sent = 1
                      /\ alerts'[id].status \in {"pending", "cancelled"} => alerts'[id].sent = 0
    BY DEF SentAtMostOnce
  <2>1. CASE id \in AlertIds
    BY <2>1 DEF SentAtMostOnce
  <2>2. CASE id \notin AlertIds
    BY <2>2
  <2>3. QED
    BY <2>1, <2>2
<1>5. QED
  BY <1>3, <1>4

\* Cancelling pending rows is such a step of the tables.
LEMMA CancelStep ==
    ASSUME TypeOK, DispatcherInv, SentAtMostOnce, NEW m, NEW keep,
           UNCHANGED <<dispatcher, unrecorded, lastId>>,
           alerts' = CancelPending(alerts, m, keep)
    PROVE  /\ alerts' \in [AlertIds' -> Alert]
           /\ DispatcherInv'
           /\ SentAtMostOnce'
<1>1. AlertIds' = AlertIds
  BY DEF AlertIds
<1>2. alerts' \in [AlertIds' -> Alert]
  BY <1>1, CancelledRows DEF TypeOK
<1>3. \A id \in AlertIds :
        \/ alerts'[id] = alerts[id]
        \/ /\ alerts[id].status = "pending"
           /\ alerts'[id].status \in {"pending", "cancelled"}
           /\ alerts'[id].sent = alerts[id].sent
  <2> TAKE id \in AlertIds
  <2>1. alerts[id] \in Alert
    BY DEF TypeOK
  <2>2. QED
    BY <2>1 DEF CancelPending, Alert
<1>4. QED
  BY <1>1, <1>2, <1>3, TablesStep

\* The steps of the workers.
LEMMA InvMonitoring ==
    ASSUME Inv, NEW m \in Monitors, Monitoring(m)
    PROVE  Inv'
<1> USE DEF Inv, daemon, store, environment
<1>1. CASE \E ok \in BOOLEAN : Probe(m, ok)
  <2>1. PICK ok \in BOOLEAN : Probe(m, ok)
    BY <1>1
  <2>2. worker' \in [Monitors -> Worker]
    <3>1. PICK g \in BOOLEAN :
             worker' = [worker EXCEPT ![m] =
                  [pc |-> "saving", kind |-> KindOfProbe(ok, observer, m \in maintained, g),
                   ok |-> ok, prev |-> Previous(monitorState[m])]]
      BY <2>1 DEF Probe
    <3>2. monitorState[m] \in MonitorRow
      BY DEF TypeOK
    <3>3. KindOfProbe(ok, observer, m \in maintained, g) \in {"suppressed", "maintenance", "evaluate"}
      BY DEF KindOfProbe
    <3>4. QED
      BY <3>1, <3>2, <3>3, PreviousRow, WorkerStep DEF Worker
  <2>3. TypeOK'
    BY <2>1, <2>2 DEF Probe, TypeOK, AlertIds, Dispatcher
  <2>4. QED
    BY <2>1, <2>3, DispatchUnchanged DEF Probe
<1>2. CASE ProbeFails(m)
  <2>1. worker' \in [Monitors -> Worker]
    BY <1>2, WorkerAtType, WorkerStep DEF ProbeFails
  <2>2. TypeOK'
    BY <1>2, <2>1 DEF ProbeFails, TypeOK, AlertIds, Dispatcher
  <2>3. QED
    BY <1>2, <2>2, DispatchUnchanged DEF ProbeFails
<1>3. CASE SaveProbeResult(m)
  <2>1. worker' \in [Monitors -> Worker]
    BY <1>3, WorkerAtType, WorkerStep DEF SaveProbeResult
  <2>2. TypeOK'
    BY <1>3, <2>1 DEF SaveProbeResult, TypeOK, AlertIds, Dispatcher
  <2>3. QED
    BY <1>3, <2>2, DispatchUnchanged DEF SaveProbeResult
<1>4. CASE SaveProbeAndState(m)
  <2>1. worker' \in [Monitors -> Worker]
    BY <1>4, WorkerAtType, WorkerStep DEF SaveProbeAndState
  <2>2. MaintenanceState(worker[m].prev) \in MonitorRow
    BY MaintenanceRow DEF TypeOK, Worker
  <2>3. monitorState' \in [Monitors -> MonitorRow]
    BY <1>4, <2>2 DEF SaveProbeAndState, TypeOK
  <2>4. alerts' \in [AlertIds' -> Alert] /\ DispatcherInv' /\ SentAtMostOnce'
    BY <1>4, CancelStep DEF SaveProbeAndState
  <2>5. TypeOK'
    BY <1>4, <2>1, <2>3, <2>4 DEF SaveProbeAndState, TypeOK, AlertIds, Dispatcher
  <2>6. QED
    BY <2>4, <2>5
<1>5. CASE SaveQuietProbe(m)
  <2> DEFINE next == Evaluated(worker[m].prev, worker[m].ok, threshold[m])
  <2>1. worker' \in [Monitors -> Worker]
    BY <1>5, WorkerAtType, WorkerStep DEF SaveQuietProbe
  <2>2. next \in MonitorRow
    BY EvaluatedRow DEF TypeOK, Worker
  <2>3. monitorState' \in [Monitors -> MonitorRow]
    BY <1>5, <2>2 DEF SaveQuietProbe, TypeOK
  <2>4. alerts' \in [AlertIds' -> Alert] /\ DispatcherInv' /\ SentAtMostOnce'
    BY <1>5, CancelStep DEF SaveQuietProbe
  <2>5. TypeOK'
    BY <1>5, <2>1, <2>3, <2>4 DEF SaveQuietProbe, TypeOK, AlertIds, Dispatcher
  <2>6. QED
    BY <2>4, <2>5
<1>6. CASE SaveIncident(m)
  <2> DEFINE next == Evaluated(worker[m].prev, worker[m].ok, threshold[m])
             queued == next.status # Baseline(m)
             rows == CancelPending(alerts, m, NoIncident)
  <2>1. next \in MonitorRow /\ next.status \in Transition
    <3>1. worker[m].prev \in MonitorRow /\ worker[m].ok \in BOOLEAN /\ threshold[m] \in 1 .. MaxFailures
      BY DEF TypeOK, Worker
    <3>2. EvaluateProbe(worker[m].prev, worker[m].ok, threshold[m]).incident # NoIncident
      BY <1>6 DEF SaveIncident
    <3>3. QED
      BY <3>1, <3>2, EvaluatedRow
  <2>2. monitorState' \in [Monitors -> MonitorRow]
    BY <1>6, <2>1 DEF SaveIncident, TypeOK
  <2>3. alertState' \in [Monitors -> Status \cup {NoStatus}]
    BY <1>6, BaselineStatus DEF SaveIncident, TypeOK
  <2>4. worker' \in [Monitors -> Worker]
    <3>1. PICK counted \in BOOLEAN :
             worker' = [worker EXCEPT ![m] =
                  WorkerAt(IF queued /\ counted /\ next.status \notin Delayed
                           THEN "dispatch" ELSE "idle")]
      BY <1>6 DEF SaveIncident
    <3>2. QED
      BY <3>1, WorkerAtType, WorkerStep
  <2>5. rows \in [AlertIds -> Alert]
    BY CancelledRows DEF TypeOK
  <2>6. /\ lastId' \in {lastId, lastId + 1}
        /\ lastId' \in 0 .. MaxAlerts
        /\ alerts' \in [AlertIds' -> Alert]
        /\ \A id \in AlertIds : alerts'[id] = rows[id]
        /\ \A id \in AlertIds' \ AlertIds :
              alerts'[id].status = "pending" /\ alerts'[id].sent = 0
    <3>1. CASE queued
      <4>1. lastId' = lastId + 1 /\ lastId < MaxAlerts
        BY <1>6, <3>1 DEF SaveIncident
      <4>2. alerts' = Queue(rows, NewAlert(m, next.status))
        BY <1>6, <3>1 DEF SaveIncident
      <4>3. alerts' \in [AlertIds' -> Alert]
        BY <2>1, <2>5, <4>1, <4>2, QueuedRows DEF TypeOK, AlertIds
      <4>4. QED
        BY <4>1, <4>2, <4>3 DEF Queue, NewAlert, TypeOK, AlertIds
    <3>2. CASE ~queued
      BY <1>6, <2>5, <3>2 DEF SaveIncident, TypeOK, AlertIds
    <3>3. QED
      BY <3>1, <3>2
  <2>7. \A id \in AlertIds :
          \/ alerts'[id] = alerts[id]
          \/ /\ alerts[id].status = "pending"
             /\ alerts'[id].status \in {"pending", "cancelled"}
             /\ alerts'[id].sent = alerts[id].sent
    <3> TAKE id \in AlertIds
    <3>1. alerts[id] \in Alert /\ alerts'[id] = rows[id]
      BY <2>6 DEF TypeOK
    <3>2. QED
      BY <3>1 DEF CancelPending, Alert
  <2>8. DispatcherInv' /\ SentAtMostOnce'
    BY <1>6, <2>6, <2>7, TablesStep DEF SaveIncident
  <2>9. TypeOK'
    <3>1. AlertIds \subseteq AlertIds'
      BY <2>6 DEF TypeOK, AlertIds
    <3>2. QED
      BY <1>6, <2>2, <2>3, <2>4, <2>6, <3>1 DEF SaveIncident, TypeOK, Dispatcher
  <2>10. QED
    BY <2>8, <2>9
<1>7. QED
  BY <1>1, <1>2, <1>3, <1>4, <1>5, <1>6 DEF Monitoring, Save

-----------------------------------------------------------------------------
(* The steps of the dispatcher *)

\* Ending a dispatch gives its worker back what it was doing.
LEMMA ReleaseType ==
    ASSUME TypeOK, Release
    PROVE  worker' \in [Monitors -> Worker] /\ dispatcher' = FreeDispatcher
<1>1. CASE dispatcher.owner # Ticker /\ dispatcher.live
  <2>1. worker' = [worker EXCEPT ![dispatcher.owner] = WorkerAt("idle")]
    BY <1>1 DEF Release
  <2>2. dispatcher.owner \in Monitors
    BY <1>1 DEF TypeOK, Dispatcher
  <2>3. QED
    BY <2>1, <2>2, WorkerAtType, WorkerStep DEF Release
<1>2. CASE ~(dispatcher.owner # Ticker /\ dispatcher.live)
  BY <1>2 DEF Release, TypeOK
<1>3. QED
  BY <1>1, <1>2

\* A free dispatcher has claimed nothing.
LEMMA FreeDispatcherInv ==
    ASSUME dispatcher' = FreeDispatcher, UNCHANGED <<lastId, alerts>>,
           unrecorded' \in {unrecorded, {}}
    PROVE  /\ dispatcher' \in Dispatcher'
           /\ DispatcherInv => DispatcherInv'
           /\ SentAtMostOnce => SentAtMostOnce'
BY DEF FreeDispatcher, Dispatcher, DispatcherInv, SentAtMostOnce, AlertIds

\* Recording a claimed row that was sent, and nothing else, keeps the tables.
LEMMA DeliveredStep ==
    ASSUME Inv, NEW id \in AlertIds, Delivered(id), alerts[id].sent = 1, lastId' = lastId
    PROVE  /\ alerts' \in [AlertIds' -> Alert]
           /\ alertState' \in [Monitors -> Status \cup {NoStatus}]
           /\ SentAtMostOnce'
<1> USE DEF Inv
<1>1. AlertIds' = AlertIds /\ alerts[id] \in Alert
  BY DEF AlertIds, TypeOK
<1>2. alerts' \in [AlertIds' -> Alert]
  BY <1>1 DEF Delivered, TypeOK, Alert
<1>3. alertState' \in [Monitors -> Status \cup {NoStatus}]
  BY <1>1 DEF Delivered, TypeOK, Alert, Transition, Status
<1>4. SentAtMostOnce'
  <2> SUFFICES ASSUME NEW i \in AlertIds
               PROVE  /\ alerts'[i].sent <= 1
                      /\ alerts'[i].status = "delivered" => alerts'[i].sent = 1
                      /\ alerts'[i].status \in {"pending", "cancelled"} => alerts'[i].sent = 0
    BY <1>1 DEF SentAtMostOnce
  <2>1. alerts[i] \in Alert
    BY DEF TypeOK
  <2>2. QED
    BY <1>1, <2>1 DEF Delivered, TypeOK, SentAtMostOnce, Alert
<1>5. QED
  BY <1>2, <1>3, <1>4

\* Listing, claiming, sending and recording keep the invariant.
LEMMA InvDispatching ==
    ASSUME Inv, Dispatching
    PROVE  Inv'
<1> USE DEF Inv, daemon, store, environment
<1>1. CASE \E owner \in Monitors \cup {Ticker} : BeginDispatch(owner)
  <2>1. PICK owner \in Monitors \cup {Ticker} : BeginDispatch(owner)
    BY <1>1
  <2>2. dispatcher' = [FreeDispatcher EXCEPT !.phase = "rewriting", !.owner = owner,
                                             !.rewrite = unrecorded]
    BY <2>1 DEF BeginDispatch
  <2>3. TypeOK' /\ SentAtMostOnce'
    BY <2>1, <2>2 DEF BeginDispatch, TypeOK, SentAtMostOnce, AlertIds, Dispatcher, FreeDispatcher
  <2>4. DispatcherInv'
    BY <2>1, <2>2 DEF BeginDispatch, DispatcherInv, AlertIds, FreeDispatcher
  <2>5. QED
    BY <2>3, <2>4
<1>2. ASSUME NEW id \in AlertIds, Rewrite(id)
      PROVE  Inv'
  <2>1. id \in unrecorded /\ alerts[id].status = "sending" /\ alerts[id].sent = 1
    BY <1>2 DEF Rewrite, DispatcherInv
  <2>2. /\ alerts' \in [AlertIds' -> Alert]
        /\ alertState' \in [Monitors -> Status \cup {NoStatus}]
        /\ SentAtMostOnce'
    BY <1>2, <2>1, DeliveredStep DEF Rewrite
  <2>3. dispatcher' \in Dispatcher' /\ unrecorded' \in SUBSET AlertIds'
    BY <1>2 DEF Rewrite, TypeOK, Dispatcher, AlertIds
  <2>4. TypeOK'
    BY <1>2, <2>2, <2>3 DEF Rewrite, TypeOK
  <2>5. DispatcherInv'
    <3>1. dispatcher'.rewrite = dispatcher.rewrite \ {id} /\ dispatcher'.phase = "rewriting"
      BY <1>2 DEF Rewrite, TypeOK, Dispatcher
    <3>2. \A i \in unrecorded' : alerts'[i] = alerts[i]
      BY <1>2 DEF Rewrite, Delivered, TypeOK
    <3>3. QED
      BY <1>2, <3>1, <3>2 DEF Rewrite, DispatcherInv
  <2>6. QED
    BY <2>2, <2>4, <2>5
<1>3. ASSUME NEW id \in AlertIds, RewriteFails(id)
      PROVE  Inv'
  <2>1. dispatcher' \in Dispatcher'
    BY <1>3 DEF RewriteFails, TypeOK, Dispatcher, AlertIds
  <2>2. TypeOK'
    BY <1>3, <2>1 DEF RewriteFails, TypeOK, AlertIds
  <2>3. DispatcherInv' /\ SentAtMostOnce'
    BY <1>3 DEF RewriteFails, DispatcherInv, SentAtMostOnce, AlertIds, TypeOK, Dispatcher
  <2>4. QED
    BY <2>2, <2>3
<1>4. ASSUME NEW id \in AlertIds, Claim(id)
      PROVE  Inv'
  <2>1. alerts[id] \in Alert /\ alerts[id].status = "pending" /\ AlertIds' = AlertIds
    BY <1>4 DEF Claim, Claimable, TypeOK, AlertIds
  <2>2. alerts' \in [AlertIds' -> Alert]
    BY <1>4, <2>1 DEF Claim, TypeOK, Alert
  <2>3. dispatcher' \in Dispatcher'
    BY <1>4, <2>1 DEF Claim, TypeOK, Dispatcher
  <2>4. TypeOK'
    BY <1>4, <2>1, <2>2, <2>3 DEF Claim, TypeOK
  <2>5. SentAtMostOnce'
    <3> SUFFICES ASSUME NEW i \in AlertIds
                 PROVE  /\ alerts'[i].sent <= 1
                        /\ alerts'[i].status = "delivered" => alerts'[i].sent = 1
                        /\ alerts'[i].status \in {"pending", "cancelled"} => alerts'[i].sent = 0
      BY <2>1 DEF SentAtMostOnce
    <3>1. alerts[i] \in Alert
      BY DEF TypeOK
    <3>2. QED
      BY <1>4, <2>1, <3>1 DEF Claim, TypeOK, SentAtMostOnce, Alert
  <2>6. DispatcherInv'
    <3>1. id \notin unrecorded /\ alerts[id].sent = 0
      BY <2>1 DEF DispatcherInv, SentAtMostOnce
    <3>2. /\ dispatcher'.rewrite = dispatcher.rewrite
          /\ dispatcher'.phase = "sending"
          /\ dispatcher'.current = id
      BY <1>4 DEF Claim, TypeOK, Dispatcher
    <3>3. alerts'[id].status = "sending" /\ alerts'[id].sent = 0
      BY <1>4, <2>1, <3>1 DEF Claim, TypeOK, Alert
    <3>4. \A i \in unrecorded : alerts'[i] = alerts[i]
      BY <1>4, <3>1 DEF Claim, TypeOK
    <3>5. QED
      BY <1>4, <2>1, <3>1, <3>2, <3>3, <3>4 DEF Claim, DispatcherInv
  <2>7. QED
    BY <2>4, <2>5, <2>6
<1>5. ASSUME NEW id \in AlertIds, Skip(id)
      PROVE  Inv'
  <2>1. dispatcher' \in Dispatcher'
    BY <1>5 DEF Skip, TypeOK, Dispatcher, AlertIds
  <2>2. TypeOK'
    BY <1>5, <2>1 DEF Skip, TypeOK, AlertIds
  <2>3. DispatcherInv' /\ SentAtMostOnce'
    BY <1>5 DEF Skip, DispatcherInv, SentAtMostOnce, AlertIds, TypeOK, Dispatcher
  <2>4. QED
    BY <2>2, <2>3
<1>6. CASE ListDue
  <2>1. dispatcher' \in Dispatcher'
    BY <1>6 DEF ListDue, TypeOK, Dispatcher, AlertIds
  <2>2. TypeOK'
    BY <1>6, <2>1 DEF ListDue, TypeOK, AlertIds
  <2>3. DispatcherInv' /\ SentAtMostOnce'
    BY <1>6 DEF ListDue, DispatcherInv, SentAtMostOnce, AlertIds, TypeOK, Dispatcher
  <2>4. QED
    BY <2>2, <2>3
<1>7. CASE ListDueFails
  <2>1. worker' \in [Monitors -> Worker] /\ dispatcher' = FreeDispatcher
    BY <1>7, ReleaseType DEF ListDueFails
  <2>2. dispatcher' \in Dispatcher' /\ DispatcherInv' /\ SentAtMostOnce'
    BY <1>7, <2>1, FreeDispatcherInv DEF ListDueFails
  <2>3. TypeOK'
    BY <1>7, <2>1, <2>2 DEF ListDueFails, TypeOK, AlertIds
  <2>4. QED
    BY <2>2, <2>3
<1>8. CASE Send
  <2> DEFINE id == dispatcher.current
  <2>1. /\ id \in AlertIds \ unrecorded
        /\ alerts[id].status = "sending"
        /\ alerts[id].sent = 0
        /\ alerts[id] \in Alert
        /\ AlertIds' = AlertIds
    BY <1>8 DEF Send, DispatcherInv, TypeOK, AlertIds
  <2>2. alerts' = [alerts EXCEPT ![id].sent = 1]
    BY <1>8, <2>1 DEF Send, TypeOK
  <2>3. /\ dispatcher' \in Dispatcher'
        /\ dispatcher'.phase = "recording"
        /\ dispatcher'.current = id
        /\ dispatcher'.rewrite = dispatcher.rewrite
    BY <1>8, <2>1 DEF Send, TypeOK, Dispatcher
  <2> HIDE DEF id
  <2>4. alerts' \in [AlertIds' -> Alert]
    BY <2>1, <2>2 DEF TypeOK, Alert
  <2>5. TypeOK'
    BY <1>8, <2>1, <2>3, <2>4 DEF Send, TypeOK
  <2>6. SentAtMostOnce'
    <3> SUFFICES ASSUME NEW i \in AlertIds
                 PROVE  /\ alerts'[i].sent <= 1
                        /\ alerts'[i].status = "delivered" => alerts'[i].sent = 1
                        /\ alerts'[i].status \in {"pending", "cancelled"} => alerts'[i].sent = 0
      BY <2>1 DEF SentAtMostOnce
    <3>1. alerts[i] \in Alert
      BY DEF TypeOK
    <3>2. QED
      BY <2>1, <2>2, <3>1 DEF TypeOK, SentAtMostOnce, Alert
  <2>7. DispatcherInv'
    <3>1. alerts'[id].status = "sending" /\ alerts'[id].sent = 1
      BY <2>1, <2>2 DEF TypeOK, Alert
    <3>2. \A i \in unrecorded : alerts'[i] = alerts[i]
      BY <2>1, <2>2 DEF TypeOK
    <3>3. QED
      BY <1>8, <2>1, <2>3, <3>1, <3>2 DEF Send, DispatcherInv
  <2>8. QED
    BY <2>5, <2>6, <2>7
<1>9. CASE Record
  <2> DEFINE id == dispatcher.current
  <2>1. /\ id \in AlertIds \ unrecorded
        /\ alerts[id].sent = 1
        /\ AlertIds' = AlertIds
    BY <1>9 DEF Record, DispatcherInv, AlertIds
  <2>2. Delivered(id) /\ lastId' = lastId
    BY <1>9 DEF Record
  <2>3. /\ dispatcher' \in Dispatcher'
        /\ dispatcher'.phase = "claiming"
        /\ dispatcher'.rewrite = dispatcher.rewrite
    BY <1>9, <2>1 DEF Record, NextItem, TypeOK, Dispatcher
  <2> HIDE DEF id
  <2>4. /\ alerts' \in [AlertIds' -> Alert]
        /\ alertState' \in [Monitors -> Status \cup {NoStatus}]
        /\ SentAtMostOnce'
    BY <2>1, <2>2, DeliveredStep
  <2>5. TypeOK'
    BY <1>9, <2>1, <2>3, <2>4 DEF Record, TypeOK
  <2>6. \A i \in unrecorded : alerts'[i] = alerts[i]
    BY <2>1, <2>2 DEF Delivered, TypeOK
  <2>7. DispatcherInv'
    BY <1>9, <2>3, <2>6 DEF Record, DispatcherInv
  <2>8. QED
    BY <2>4, <2>5, <2>7
<1>10. CASE RecordFails
  <2>1. /\ dispatcher.current \in AlertIds
        /\ alerts[dispatcher.current].status = "sending"
        /\ alerts[dispatcher.current].sent = 1
    BY <1>10 DEF RecordFails, DispatcherInv
  <2>2. /\ dispatcher' \in Dispatcher'
        /\ dispatcher'.phase = "claiming"
        /\ dispatcher'.rewrite = dispatcher.rewrite
    BY <1>10 DEF RecordFails, NextItem, TypeOK, Dispatcher, AlertIds
  <2>3. TypeOK'
    BY <1>10, <2>1, <2>2 DEF RecordFails, TypeOK, AlertIds
  <2>4. DispatcherInv' /\ SentAtMostOnce'
    BY <1>10, <2>1, <2>2 DEF RecordFails, DispatcherInv, SentAtMostOnce, AlertIds
  <2>5. QED
    BY <2>3, <2>4
<1>11. CASE EndDispatch
  <2>1. worker' \in [Monitors -> Worker] /\ dispatcher' = FreeDispatcher
    BY <1>11, ReleaseType DEF EndDispatch
  <2>2. dispatcher' \in Dispatcher' /\ DispatcherInv' /\ SentAtMostOnce'
    BY <1>11, <2>1, FreeDispatcherInv DEF EndDispatch
  <2>3. TypeOK'
    BY <1>11, <2>1, <2>2 DEF EndDispatch, TypeOK, AlertIds
  <2>4. QED
    BY <2>2, <2>3
<1>12. QED
  BY <1>1, <1>2, <1>3, <1>4, <1>5, <1>6, <1>7, <1>8, <1>9, <1>10, <1>11 DEF Dispatching

-----------------------------------------------------------------------------
(* Configuration, the process and the environment *)

\* Applying a configuration replaces the workers and cancels stale rows.
LEMMA ApplyConfigStep ==
    ASSUME Inv, NEW kept \in SUBSET Monitors, NEW limits \in [Monitors -> Thresholds],
           NEW changed, ApplyConfig(kept, limits, changed)
    PROVE  /\ configured' \in SUBSET Monitors
           /\ threshold' \in [Monitors -> Thresholds]
           /\ worker' \in [Monitors -> Worker]
           /\ monitorState' \in [Monitors -> MonitorRow]
           /\ alertState' \in [Monitors -> Status \cup {NoStatus}]
           /\ lastId' = lastId
           /\ alerts' \in [AlertIds -> Alert]
           /\ \A id \in AlertIds :
                 \/ alerts'[id] = alerts[id]
                 \/ /\ alerts[id].status = "pending"
                    /\ alerts'[id].status \in {"pending", "cancelled"}
                    /\ alerts'[id].sent = alerts[id].sent
<1> USE DEF Inv
<1>1. configured' \in SUBSET Monitors /\ threshold' \in [Monitors -> Thresholds]
  BY DEF ApplyConfig, TypeOK
<1>2. worker' \in [Monitors -> Worker]
  BY WorkerAtType DEF ApplyConfig, TypeOK
<1>3. CASE UNCHANGED store
  BY <1>1, <1>2, <1>3 DEF store, TypeOK
<1>4. CASE DeleteStatesExcept(kept)
  <2>1. /\ monitorState' \in [Monitors -> MonitorRow]
        /\ alertState' \in [Monitors -> Status \cup {NoStatus}]
        /\ lastId' = lastId
    BY <1>4, NoRowIsRow DEF DeleteStatesExcept, TypeOK
  <2>2. alerts' \in [AlertIds -> Alert]
    BY <1>4 DEF DeleteStatesExcept, TypeOK, Alert
  <2>3. \A id \in AlertIds :
           \/ alerts'[id] = alerts[id]
           \/ /\ alerts[id].status = "pending"
              /\ alerts'[id].status \in {"pending", "cancelled"}
              /\ alerts'[id].sent = alerts[id].sent
    <3> TAKE id \in AlertIds
    <3>1. alerts[id] \in Alert
      BY DEF TypeOK
    <3>2. QED
      BY <1>4, <3>1 DEF DeleteStatesExcept, Alert
  <2>4. QED
    BY <1>1, <1>2, <2>1, <2>2, <2>3
<1>5. QED
  BY <1>3, <1>4 DEF ApplyConfig, CleanUp

\* A start begins with a free dispatcher, whatever the tables hold.
LEMMA InvStart ==
    ASSUME Inv, Start
    PROVE  Inv'
<1> USE DEF Inv, environment
<1>1. PICK kept \in SUBSET Monitors, limits \in [Monitors -> Thresholds] :
         ApplyConfig(kept, limits, {})
  BY DEF Start
<1>2. DispatcherInv' /\ SentAtMostOnce' /\ AlertIds' = AlertIds
  <2>1. AlertIds' = AlertIds
    BY <1>1, ApplyConfigStep DEF AlertIds
  <2>2. /\ lastId' = lastId
        /\ alerts' \in [AlertIds' -> Alert]
        /\ \A id \in AlertIds :
              \/ alerts'[id] = alerts[id]
              \/ /\ alerts[id].status = "pending"
                 /\ alerts'[id].status \in {"pending", "cancelled"}
                 /\ alerts'[id].sent = alerts[id].sent
    BY <1>1, <2>1, ApplyConfigStep
  <2>3. QED
    BY <2>1, <2>2, TablesStep DEF Start
<1>3. /\ configured' \in SUBSET Monitors
      /\ threshold' \in [Monitors -> Thresholds]
      /\ worker' \in [Monitors -> Worker]
      /\ monitorState' \in [Monitors -> MonitorRow]
      /\ alertState' \in [Monitors -> Status \cup {NoStatus}]
      /\ lastId' = lastId
      /\ alerts' \in [AlertIds' -> Alert]
  BY <1>1, <1>2, ApplyConfigStep
<1>4. TypeOK'
  BY <1>2, <1>3 DEF Start, TypeOK, Dispatcher
<1>5. QED
  BY <1>2, <1>4

\* A reload keeps the invariant, also when applying the new file fails.
LEMMA InvReload ==
    ASSUME Inv, Reload
    PROVE  Inv'
<1> USE DEF Inv, environment
<1>1. PICK kept \in SUBSET Monitors, limits \in [Monitors -> Thresholds],
           changed \in SUBSET Monitors :
         /\ ApplyConfig(kept, limits, changed)
         /\ dispatcher' = IF dispatcher.owner \in Cancelled(kept, limits, changed)
                          THEN [dispatcher EXCEPT !.live = FALSE]
                          ELSE dispatcher
  BY DEF Reload
<1>2. AlertIds' = AlertIds
  BY <1>1, ApplyConfigStep DEF AlertIds
<1>3. /\ dispatcher' \in Dispatcher'
      /\ dispatcher'.phase = dispatcher.phase
      /\ dispatcher'.rewrite = dispatcher.rewrite
      /\ dispatcher'.current = dispatcher.current
  BY <1>1, <1>2 DEF TypeOK, Dispatcher
<1>4. \A id \in AlertIds :
         alerts[id].status = "sending" => alerts'[id] = alerts[id]
  BY <1>1, ApplyConfigStep
<1>5. DispatcherInv'
  <2>1. \A id \in unrecorded : alerts'[id] = alerts[id]
    BY <1>4 DEF DispatcherInv, TypeOK
  <2>2. dispatcher.phase \in {"sending", "recording"} =>
           alerts'[dispatcher.current] = alerts[dispatcher.current]
    BY <1>4 DEF DispatcherInv
  <2>3. QED
    BY <1>2, <1>3, <2>1, <2>2 DEF Reload, DispatcherInv
<1>6. SentAtMostOnce'
  <2>1. \A id \in AlertIds :
           \/ alerts'[id] = alerts[id]
           \/ /\ alerts[id].status = "pending"
              /\ alerts'[id].status \in {"pending", "cancelled"}
              /\ alerts'[id].sent = alerts[id].sent
    BY <1>1, ApplyConfigStep
  <2>2. QED
    BY <1>2, <2>1 DEF SentAtMostOnce
<1>7. TypeOK'
  BY <1>1, <1>2, <1>3, ApplyConfigStep DEF Reload, TypeOK
<1>8. QED
  BY <1>5, <1>6, <1>7

\* A crash keeps the tables, and forgets what was claimed.
LEMMA InvCrash ==
    ASSUME Inv, Crash
    PROVE  Inv'
<1> USE DEF Inv, store, environment
<1>1. dispatcher' \in Dispatcher' /\ DispatcherInv' /\ SentAtMostOnce'
  BY FreeDispatcherInv DEF Crash
<1>2. worker' \in [Monitors -> Worker]
  BY WorkerAtType DEF Crash
<1>3. TypeOK'
  BY <1>1, <1>2 DEF Crash, TypeOK, AlertIds
<1>4. QED
  BY <1>1, <1>3

\* Hosts, providers, edits of the file and the clock leave the tables alone.
LEMMA InvEnvironment ==
    ASSUME Inv, Environment
    PROVE  Inv'
<1> USE DEF Inv, daemon, store
<1>1. ASSUME NEW id \in AlertIds, DelayElapses(id)
      PROVE  Inv'
  <2>1. alerts' = [alerts EXCEPT ![id].due = TRUE] /\ AlertIds' = AlertIds
    BY <1>1 DEF DelayElapses, AlertIds
  <2>2. alerts' \in [AlertIds' -> Alert]
    <3>1. alerts[id] \in Alert
      BY <1>1 DEF TypeOK
    <3>2. [alerts[id] EXCEPT !.due = TRUE] \in Alert
      BY <3>1 DEF Alert
    <3>3. QED
      BY <1>1, <2>1, <3>2 DEF TypeOK
  <2>3. \A i \in AlertIds :
           \/ alerts'[i] = alerts[i]
           \/ /\ alerts[i].status = "pending"
              /\ alerts'[i].status \in {"pending", "cancelled"}
              /\ alerts'[i].sent = alerts[i].sent
    <3> TAKE i \in AlertIds
    <3>1. alerts[i] \in Alert
      BY DEF TypeOK
    <3>2. QED
      BY <1>1, <2>1, <3>1 DEF DelayElapses, TypeOK, Alert
  <2>4. DispatcherInv' /\ SentAtMostOnce'
    BY <1>1, <2>1, <2>2, <2>3, TablesStep DEF DelayElapses
  <2>5. TypeOK'
    BY <1>1, <2>1, <2>2 DEF DelayElapses, TypeOK, Dispatcher, environment
  <2>6. QED
    BY <2>4, <2>5
<1>2. CASE \E m \in Monitors : ToggleMaintenance(m)
  <2>1. TypeOK'
    BY <1>2 DEF ToggleMaintenance, TypeOK, AlertIds, Dispatcher
  <2>2. QED
    BY <1>2, <2>1, DispatchUnchanged DEF ToggleMaintenance
<1>3. CASE ToggleObserver
  <2>1. TypeOK'
    BY <1>3 DEF ToggleObserver, TypeOK, AlertIds, Dispatcher
  <2>2. QED
    BY <1>3, <2>1, DispatchUnchanged DEF ToggleObserver
<1>4. QED
  BY <1>1, <1>2, <1>3 DEF Environment

\* A stuttering step changes nothing.
LEMMA InvStutter ==
    ASSUME Inv, UNCHANGED vars
    PROVE  Inv'
<1> USE DEF Inv, vars, daemon, store, environment
<1>1. TypeOK'
  BY DEF TypeOK, AlertIds, Dispatcher
<1>2. QED
  BY <1>1, DispatchUnchanged

\* Every step keeps the invariant.
LEMMA InvNext ==
    ASSUME Inv, [Next]_vars
    PROVE  Inv'
BY InvMonitoring, InvDispatching, InvStart, InvReload, InvCrash, InvEnvironment,
   InvStutter DEF Next

\* The inductive invariant holds in every reachable state.
THEOREM Invariant == Spec => []Inv
<1>1. Init => Inv
  BY InvInit
<1>2. Inv /\ [Next]_vars => Inv'
  BY InvNext
<1>3. QED
  BY <1>1, <1>2, PTL DEF Spec

\* Every reachable state is well typed, for every configuration, whatever the
\* number of workers, thresholds and alerts and whatever may fail.
THEOREM TypeCorrect == Spec => []TypeOK
BY Invariant, PTL DEF Inv

\* No message is sent twice by dispatches that overlap with probes, reloads,
\* cancelled workers, failing stores and crashes.
THEOREM AtMostOnce == Spec => []SentAtMostOnce
BY Invariant, PTL DEF Inv

-----------------------------------------------------------------------------
(* The state a worker read, and what a step does to the tables *)

\* A worker that was taken to another step of its probe is not saving, and the
\* others are where they were.
LEMMA WorkerMoved ==
    ASSUME TypeOK, NEW m \in Monitors, NEW pc \in {"gone", "idle", "dispatch"},
           worker' = [worker EXCEPT ![m] = WorkerAt(pc)],
           NEW n \in Monitors, (worker')[n].pc = "saving"
    PROVE  n # m /\ (worker')[n] = worker[n]
BY DEF TypeOK, WorkerAt

\* No step of a worker, a dispatch, a reload or the environment makes the state
\* some worker has read stale.
LEMMA SnapshotNext ==
    ASSUME Inv, SnapshotIsFresh, [Next]_vars
    PROVE  SnapshotIsFresh'
<1> USE DEF Inv, daemon, store, environment
<1> SUFFICES ASSUME NEW n \in Monitors, (worker')[n].pc = "saving"
             PROVE  (worker')[n].prev = Previous((monitorState')[n])
  BY DEF SnapshotIsFresh
<1>0. CASE (worker')[n] = worker[n] /\ (monitorState')[n] = monitorState[n]
  BY <1>0 DEF SnapshotIsFresh
<1>1. ASSUME NEW m \in Monitors, Monitoring(m)
      PROVE  (worker')[n].prev = Previous((monitorState')[n])
  <2>1. ASSUME NEW ok \in BOOLEAN, Probe(m, ok)
        PROVE  (worker')[n].prev = Previous((monitorState')[n])
    <3>1. PICK kind : worker' = [worker EXCEPT ![m] =
              [pc |-> "saving", kind |-> kind, ok |-> ok, prev |-> Previous(monitorState[m])]]
      BY <2>1 DEF Probe
    <3>2. monitorState' = monitorState
      BY <2>1 DEF Probe
    <3>3. CASE n = m
      BY <3>1, <3>2, <3>3 DEF TypeOK
    <3>4. CASE n # m
      BY <3>1, <3>2, <3>4, <1>0 DEF TypeOK
    <3>5. QED
      BY <3>3, <3>4
  <2>2. CASE ProbeFails(m) \/ SaveProbeResult(m)
    BY <2>2, <1>0, WorkerMoved DEF ProbeFails, SaveProbeResult
  <2>3. CASE SaveProbeAndState(m) \/ SaveQuietProbe(m)
    <3>1. n # m /\ (worker')[n] = worker[n]
      BY <2>3, WorkerMoved DEF SaveProbeAndState, SaveQuietProbe
    <3>2. (monitorState')[n] = monitorState[n]
      BY <2>3, <3>1 DEF SaveProbeAndState, SaveQuietProbe, TypeOK
    <3>3. QED
      BY <3>1, <3>2, <1>0
  <2>4. CASE SaveIncident(m)
    <3>1. PICK pc \in {"idle", "dispatch"} : worker' = [worker EXCEPT ![m] = WorkerAt(pc)]
      BY <2>4 DEF SaveIncident
    <3>2. n # m /\ (worker')[n] = worker[n]
      BY <3>1, WorkerMoved
    <3>3. (monitorState')[n] = monitorState[n]
      BY <2>4, <3>2 DEF SaveIncident, TypeOK
    <3>4. QED
      BY <3>2, <3>3, <1>0
  <2>5. QED
    BY <1>1, <2>1, <2>2, <2>3, <2>4 DEF Monitoring, Save
<1>2. CASE Dispatching
  <2>1. monitorState' = monitorState
    BY <1>2 DEF Dispatching, BeginDispatch, Rewrite, RewriteFails, Claim, Skip, ListDue,
                ListDueFails, Send, Record, RecordFails, EndDispatch
  <2>2. worker' = worker \/ Release
    BY <1>2 DEF Dispatching, BeginDispatch, Rewrite, RewriteFails, Claim, Skip, ListDue,
                ListDueFails, Send, Record, RecordFails, EndDispatch
  <2>3. dispatcher.owner \in Monitors \cup {Ticker}
    BY DEF TypeOK, Dispatcher
  <2>4. (worker')[n] = worker[n]
    BY <2>2, <2>3, WorkerMoved DEF Release
  <2>5. QED
    BY <2>1, <2>4, <1>0
<1>3. ASSUME NEW kept \in SUBSET Monitors, NEW limits, NEW changed,
             ApplyConfig(kept, limits, changed)
      PROVE  (worker')[n].prev = Previous((monitorState')[n])
  <2>1. n \in kept /\ (worker')[n] = worker[n]
    BY <1>3 DEF ApplyConfig, WorkerAt
  <2>2. (monitorState')[n] = monitorState[n]
    BY <1>3, <2>1 DEF ApplyConfig, CleanUp, DeleteStatesExcept
  <2>3. QED
    BY <2>1, <2>2, <1>0
<1>4. CASE Start
  BY <1>3, <1>4 DEF Start
<1>5. CASE Reload
  BY <1>3, <1>5 DEF Reload
<1>6. CASE Crash
  BY <1>6 DEF Crash, WorkerAt
<1>7. CASE Environment
  BY <1>7, <1>0 DEF Environment, DelayElapses, ToggleMaintenance, ToggleObserver
<1>8. CASE UNCHANGED vars
  BY <1>8, <1>0 DEF vars
<1>9. QED
  BY <1>1, <1>2, <1>4, <1>5, <1>6, <1>7, <1>8 DEF Next

\* A row of the queue that a step leaves in it, claimed at most.
RowKept(id) ==
    /\ (alerts')[id].monitor = alerts[id].monitor
    /\ (alerts')[id].transition = alerts[id].transition
    /\ \/ (alerts')[id].status = alerts[id].status
       \/ alerts[id].status = "pending" /\ (alerts')[id].status = "sending"

\* What a step does to the tables: it claims, sends or makes rows due; it records
\* a delivery; it saves a probe; or it removes monitors that are not configured.
LEMMA StoreStep ==
    ASSUME Inv, [Next]_vars
    PROVE  \/ /\ UNCHANGED <<monitorState, alertState, lastId>>
              /\ \A id \in AlertIds : RowKept(id)
           \/ /\ \E id \in AlertIds : Delivered(id)
              /\ UNCHANGED <<monitorState, lastId>>
           \/ \E m \in Monitors : SaveProbeAndState(m) \/ SaveQuietProbe(m) \/ SaveIncident(m)
           \/ \E kept \in SUBSET Monitors : DeleteStatesExcept(kept)
<1> USE DEF Inv
<1>0. CASE UNCHANGED store
  BY <1>0 DEF store, RowKept
<1>1. ASSUME NEW m \in Monitors, Monitoring(m)
      PROVE  \/ UNCHANGED store
             \/ SaveProbeAndState(m) \/ SaveQuietProbe(m) \/ SaveIncident(m)
  BY <1>1 DEF Monitoring, Save, Probe, ProbeFails, SaveProbeResult
<1>2. ASSUME NEW id \in AlertIds, Claim(id)
      PROVE  /\ UNCHANGED <<monitorState, alertState, lastId>>
             /\ \A i \in AlertIds : RowKept(i)
  <2>1. \A i \in AlertIds : alerts[i] \in Alert
    BY DEF TypeOK
  <2>2. QED
    BY <1>2, <2>1 DEF Claim, Claimable, TypeOK, RowKept, Alert
<1>3. ASSUME Send
      PROVE  /\ UNCHANGED <<monitorState, alertState, lastId>>
             /\ \A i \in AlertIds : RowKept(i)
  <2>1. \A i \in AlertIds : alerts[i] \in Alert
    BY DEF TypeOK
  <2>2. QED
    BY <1>3, <2>1 DEF Send, TypeOK, RowKept, Alert
<1>4. ASSUME NEW id \in AlertIds, DelayElapses(id)
      PROVE  /\ UNCHANGED <<monitorState, alertState, lastId>>
             /\ \A i \in AlertIds : RowKept(i)
  <2>1. \A i \in AlertIds : alerts[i] \in Alert
    BY DEF TypeOK
  <2>2. QED
    BY <1>4, <2>1 DEF DelayElapses, TypeOK, RowKept, Alert
<1>5. CASE Record
  BY <1>5 DEF Record, DispatcherInv
<1>6. ASSUME NEW id \in AlertIds, Rewrite(id)
      PROVE  Delivered(id) /\ UNCHANGED <<monitorState, lastId>>
  BY <1>6 DEF Rewrite
<1>7. CASE Dispatching
  <2>1. \/ UNCHANGED store
        \/ \E id \in AlertIds : Rewrite(id) \/ Claim(id)
        \/ Send \/ Record
    BY <1>7 DEF Dispatching, BeginDispatch, RewriteFails, Skip, ListDue, ListDueFails,
                RecordFails, EndDispatch
  <2>2. QED
    BY <1>0, <1>2, <1>3, <1>5, <1>6, <2>1
<1>8. CASE Start \/ Reload
  <2>1. UNCHANGED store \/ \E kept \in SUBSET Monitors : DeleteStatesExcept(kept)
    BY <1>8 DEF Start, Reload, ApplyConfig, CleanUp
  <2>2. QED
    BY <1>0, <2>1
<1>9. CASE Crash
  BY <1>0, <1>9 DEF Crash
<1>10. CASE Environment
  BY <1>0, <1>4, <1>10 DEF Environment, ToggleMaintenance, ToggleObserver
<1>11. CASE UNCHANGED vars
  BY <1>0, <1>11 DEF vars
<1>12. QED
  BY <1>0, <1>1, <1>7, <1>8, <1>9, <1>10, <1>11 DEF Next

\* What cancelling does to one row: it keeps its monitor and transition, only a
\* pending row changes its status, and of the monitor only rows of the transition
\* to keep are still pending.
LEMMA CancelledRow ==
    ASSUME TypeOK, NEW m, NEW keep, NEW id \in AlertIds
    PROVE  LET row == CancelPending(alerts, m, keep)[id]
           IN  /\ row.monitor = alerts[id].monitor
               /\ row.transition = alerts[id].transition
               /\ \/ row.status = alerts[id].status
                  \/ alerts[id].status = "pending" /\ row.status = "cancelled"
               /\ row.status = "pending" /\ alerts[id].monitor = m =>
                     alerts[id].transition = keep
<1>1. alerts[id] \in Alert
  BY DEF TypeOK
<1>2. QED
  BY <1>1 DEF CancelPending, Alert

\* What removing monitors does to one row.
LEMMA RemovedRow ==
    ASSUME TypeOK, NEW kept \in SUBSET Monitors, DeleteStatesExcept(kept), NEW id \in AlertIds
    PROVE  /\ (alerts')[id].monitor = alerts[id].monitor
           /\ (alerts')[id].transition = alerts[id].transition
           /\ \/ (alerts')[id].status = alerts[id].status
              \/ alerts[id].status = "pending" /\ (alerts')[id].status = "cancelled"
           /\ (alerts')[id].status = "pending" => alerts[id].monitor \in kept
<1>1. alerts[id] \in Alert
  BY DEF TypeOK
<1>2. QED
  BY <1>1 DEF DeleteStatesExcept, Alert

\* What recording a delivery does to one row.
LEMMA DeliveredRow ==
    ASSUME TypeOK, NEW id \in AlertIds, Delivered(id), NEW i \in AlertIds
    PROVE  /\ (alerts')[i].monitor = alerts[i].monitor
           /\ (alerts')[i].transition = alerts[i].transition
           /\ (alerts')[i].status = IF i = id THEN "delivered" ELSE alerts[i].status
<1>1. alerts[i] \in Alert /\ alerts[id] \in Alert
  BY DEF TypeOK
<1>2. QED
  BY <1>1 DEF Delivered, TypeOK, Alert

\* The rows after an incident: those before it with every pending one of the
\* monitor cancelled and, if a message is queued, one pending row more.
LEMMA IncidentRows ==
    ASSUME Inv, NEW m \in Monitors, SaveIncident(m)
    PROVE  LET next == Evaluated(worker[m].prev, worker[m].ok, threshold[m])
               queued == next.status # Baseline(m)
           IN  /\ next \in MonitorRow
               /\ next.status \in Transition
               /\ \A id \in AlertIds :
                     alerts'[id] = CancelPending(alerts, m, NoIncident)[id]
               /\ queued => /\ lastId' = lastId + 1
                            /\ AlertIds' = AlertIds \cup {lastId'}
                            /\ lastId' \notin AlertIds
                            /\ (alerts')[lastId'] = NewAlert(m, next.status)
               /\ ~queued => lastId' = lastId /\ AlertIds' = AlertIds
<1> USE DEF Inv
<1> DEFINE next == Evaluated(worker[m].prev, worker[m].ok, threshold[m])
           queued == next.status # Baseline(m)
<1>1. next \in MonitorRow /\ next.status \in Transition
  <2>1. worker[m].prev \in MonitorRow /\ worker[m].ok \in BOOLEAN /\ threshold[m] \in 1 .. MaxFailures
    BY DEF TypeOK, Worker
  <2>2. EvaluateProbe(worker[m].prev, worker[m].ok, threshold[m]).incident # NoIncident
    BY DEF SaveIncident
  <2>3. QED
    BY <2>1, <2>2, EvaluatedRow
<1>2. lastId \in Nat
  BY DEF TypeOK
<1>3. CASE queued
  <2>1. lastId' = lastId + 1
    BY <1>3 DEF SaveIncident
  <2>2. alerts' = Queue(CancelPending(alerts, m, NoIncident), NewAlert(m, next.status))
    BY <1>3 DEF SaveIncident
  <2>3. (alerts')[lastId'] = NewAlert(m, next.status)
    BY <1>2, <2>1, <2>2 DEF Queue
  <2>4. AlertIds' = AlertIds \cup {lastId'} /\ lastId' \notin AlertIds
    BY <1>2, <2>1 DEF AlertIds
  <2>5. \A id \in AlertIds : alerts'[id] = CancelPending(alerts, m, NoIncident)[id]
    BY <1>2, <2>2 DEF Queue, AlertIds
  <2>6. QED
    BY <1>1, <1>3, <2>1, <2>3, <2>4, <2>5
<1>4. CASE ~queued
  BY <1>1, <1>4 DEF SaveIncident, AlertIds
<1>5. QED
  BY <1>3, <1>4

-----------------------------------------------------------------------------
(* A message waits only as long as it tells the truth *)

\* The rows of two messages of one monitor that wait after a step, and the status
\* the monitor is stored in then.
LEMMA PendingNext ==
    ASSUME Inv, PendingTellsStoredStatus, [Next]_vars
    PROVE  PendingTellsStoredStatus'
<1> USE DEF Inv
<1> SUFFICES ASSUME NEW id \in AlertIds', (alerts')[id].status = "pending",
                    NEW j \in AlertIds', (alerts')[j].status = "pending",
                    (alerts')[j].monitor = (alerts')[id].monitor
             PROVE  /\ (monitorState')[(alerts')[id].monitor].status = (alerts')[id].transition
                    /\ j = id
  BY DEF PendingTellsStoredStatus, Pending, MatchesState
<1>0. \A i \in AlertIds : alerts[i] \in Alert
  BY DEF TypeOK
<1>1. CASE /\ UNCHANGED <<monitorState, alertState, lastId>>
           /\ \A i \in AlertIds : RowKept(i)
  BY <1>1 DEF RowKept, AlertIds, PendingTellsStoredStatus, Pending, MatchesState
<1>2. ASSUME NEW d \in AlertIds, Delivered(d), UNCHANGED <<monitorState, lastId>>
      PROVE  /\ (monitorState')[(alerts')[id].monitor].status = (alerts')[id].transition
             /\ j = id
  <2>1. id \in AlertIds /\ j \in AlertIds
    BY <1>2 DEF AlertIds
  <2>2. Pending(id) /\ Pending(j) /\ alerts[j].monitor = alerts[id].monitor
    BY <1>2, <2>1, DeliveredRow DEF Pending
  <2>3. QED
    BY <1>2, <2>1, <2>2, DeliveredRow DEF PendingTellsStoredStatus, MatchesState
<1>3. ASSUME NEW m \in Monitors, SaveProbeAndState(m) \/ SaveQuietProbe(m)
      PROVE  /\ (monitorState')[(alerts')[id].monitor].status = (alerts')[id].transition
             /\ j = id
  <2>1. PICK row : /\ alerts' = CancelPending(alerts, m, row.status)
                   /\ monitorState' = [monitorState EXCEPT ![m] = row]
    <3>1. CASE SaveProbeAndState(m)
      <4>1. worker[m].prev \in MonitorRow
        BY DEF TypeOK, Worker
      <4>2. MaintenanceState(worker[m].prev).status = "MAINTENANCE"
        BY <4>1, MaintenanceRow
      <4>3. QED
        BY <3>1, <4>2 DEF SaveProbeAndState
    <3>2. CASE SaveQuietProbe(m)
      BY <3>2 DEF SaveQuietProbe
    <3>3. QED
      BY <1>3, <3>1, <3>2
  <2>2. id \in AlertIds /\ j \in AlertIds
    BY <1>3 DEF AlertIds, SaveProbeAndState, SaveQuietProbe
  <2>3. /\ Pending(id) /\ Pending(j)
        /\ alerts[j].monitor = alerts[id].monitor
        /\ (alerts')[id].monitor = alerts[id].monitor
        /\ (alerts')[id].transition = alerts[id].transition
        /\ alerts[id].monitor = m => alerts[id].transition = row.status
    BY <2>1, <2>2, CancelledRow DEF Pending
  <2>4. MatchesState(id) /\ j = id
    BY <2>2, <2>3 DEF PendingTellsStoredStatus
  <2>5. QED
    BY <1>0, <2>1, <2>2, <2>3, <2>4 DEF MatchesState, TypeOK, Alert
<1>4. ASSUME NEW m \in Monitors, SaveIncident(m)
      PROVE  /\ (monitorState')[(alerts')[id].monitor].status = (alerts')[id].transition
             /\ j = id
  <2> DEFINE next == Evaluated(worker[m].prev, worker[m].ok, threshold[m])
  <2>1. monitorState' = [monitorState EXCEPT ![m] = next]
    BY <1>4 DEF SaveIncident
  <2>2. ASSUME NEW i \in AlertIds, (alerts')[i].status = "pending"
        PROVE  /\ Pending(i)
               /\ (alerts')[i].monitor = alerts[i].monitor
               /\ (alerts')[i].transition = alerts[i].transition
               /\ alerts[i].monitor # m
    <3>1. alerts'[i] = CancelPending(alerts, m, NoIncident)[i]
      BY <1>4, IncidentRows
    <3>2. alerts[i].transition # NoIncident
      BY <1>0 DEF Alert, Transition, NoIncident
    <3>3. QED
      BY <2>2, <3>1, <3>2, CancelledRow DEF Pending
  <2>3. ASSUME NEW i \in AlertIds', i \notin AlertIds
        PROVE  /\ i = lastId'
               /\ (alerts')[i].monitor = m
               /\ (alerts')[i].transition = next.status
    <3>1. next.status # Baseline(m) /\ i = lastId'
      BY <1>4, <2>3, IncidentRows
    <3>2. (alerts')[i] = NewAlert(m, next.status)
      BY <1>4, <3>1, IncidentRows
    <3>3. QED
      BY <3>1, <3>2 DEF NewAlert
  <2> HIDE DEF next
  <2>4. CASE id \in AlertIds
    <3>1. j \in AlertIds
      BY <2>2, <2>3, <2>4
    <3>2. j = id /\ MatchesState(id)
      BY <2>2, <2>4, <3>1 DEF PendingTellsStoredStatus
    <3>3. QED
      BY <2>1, <2>2, <2>4, <3>2, <1>0 DEF MatchesState, TypeOK, Alert
  <2>5. CASE id \notin AlertIds
    <3>1. j \notin AlertIds
      BY <2>2, <2>3, <2>5
    <3>2. QED
      BY <2>1, <2>3, <2>5, <3>1 DEF TypeOK
  <2>6. QED
    BY <2>4, <2>5
<1>5. ASSUME NEW kept \in SUBSET Monitors, DeleteStatesExcept(kept)
      PROVE  /\ (monitorState')[(alerts')[id].monitor].status = (alerts')[id].transition
             /\ j = id
  <2>1. id \in AlertIds /\ j \in AlertIds
    BY <1>5 DEF DeleteStatesExcept, AlertIds
  <2>2. /\ Pending(id) /\ Pending(j)
        /\ alerts[j].monitor = alerts[id].monitor
        /\ (alerts')[id].monitor = alerts[id].monitor
        /\ (alerts')[id].transition = alerts[id].transition
        /\ alerts[id].monitor \in kept
    BY <1>5, <2>1, RemovedRow DEF Pending
  <2>3. QED
    BY <1>5, <2>1, <2>2 DEF DeleteStatesExcept, PendingTellsStoredStatus, MatchesState
<1>6. QED
  BY <1>1, <1>2, <1>3, <1>4, <1>5, StoreStep

-----------------------------------------------------------------------------
(* DOWN is told before it is taken as told *)

\* Whoever was DOWN has a last notified status: the incident that made the
\* monitor DOWN stored one, and it is removed only together with the state.
OutageHasBaseline ==
    \A m \in Monitors :
        "DOWN" \in {monitorState[m].status, monitorState[m].before} =>
            alertState[m] # NoStatus

\* A probe that makes no incident and ends DOWN began DOWN.
LEMMA QuietEvaluate ==
    ASSUME NEW row \in MonitorRow, NEW ok \in BOOLEAN, NEW limit \in Int,
           Evaluate(row, ok, limit).incident = NoIncident,
           Evaluate(row, ok, limit).status = "DOWN"
    PROVE  ~ok /\ row.status = "DOWN"
<1>1. CASE ok
  BY <1>1 DEF Evaluate
<1>2. CASE ~ok
  BY <1>2 DEF Evaluate, NoIncident
<1>3. QED
  BY <1>1, <1>2

\* The same of a probe that may be the first one after maintenance.
LEMMA QuietDown ==
    ASSUME NEW row \in MonitorRow, NEW ok \in BOOLEAN, NEW limit \in 1 .. MaxFailures,
           EvaluateProbe(row, ok, limit).incident = NoIncident,
           Evaluated(row, ok, limit).status = "DOWN"
    PROVE  row.status = "DOWN"
<1> DEFINE from == IF row.status = "MAINTENANCE" /\ ok /\ row.before = "DOWN"
                   THEN [row EXCEPT !.status = "DOWN"] ELSE row
           n == IF row.status = "MAINTENANCE" /\ ~ok THEN 1 ELSE limit
<1>1. EvaluateProbe(row, ok, limit) = Evaluate(from, ok, n)
  BY DEF EvaluateProbe
<1>2. ~ok => from = row
  OBVIOUS
<1>3. from \in MonitorRow /\ n \in Int
  BY DEF MonitorRow, Status
<1>4. Evaluated(row, ok, limit).status = EvaluateProbe(row, ok, limit).status
  BY DEF Evaluated
<1> HIDE DEF from, n
<1>5. QED
  BY <1>1, <1>2, <1>3, <1>4, QuietEvaluate

\* A step leaves who was DOWN with a last notified status.
LEMMA OutageNext ==
    ASSUME Inv, SnapshotIsFresh, OutageHasBaseline, [Next]_vars
    PROVE  OutageHasBaseline'
<1> USE DEF Inv
<1> SUFFICES ASSUME NEW n \in Monitors,
                    "DOWN" \in {(monitorState')[n].status, (monitorState')[n].before}
             PROVE  (alertState')[n] # NoStatus
  BY DEF OutageHasBaseline
<1>1. CASE UNCHANGED <<monitorState, alertState>>
  BY <1>1 DEF OutageHasBaseline
<1>2. ASSUME NEW d \in AlertIds, Delivered(d), UNCHANGED monitorState
      PROVE  (alertState')[n] # NoStatus
  <2>1. alerts[d] \in Alert
    BY DEF TypeOK
  <2>2. alerts[d].transition # NoStatus
    BY <2>1 DEF Alert, Transition, NoStatus
  <2>3. QED
    BY <1>2, <2>2 DEF Delivered, OutageHasBaseline, TypeOK
<1>3. ASSUME NEW m \in Monitors, SaveProbeAndState(m)
      PROVE  (alertState')[n] # NoStatus
  <2>1. worker[m].prev = Previous(monitorState[m])
    BY <1>3 DEF SaveProbeAndState, SnapshotIsFresh
  <2>2. "DOWN" \in {MaintenanceState(worker[m].prev).status, MaintenanceState(worker[m].prev).before}
            => "DOWN" \in {monitorState[m].status, monitorState[m].before}
    <3>1. monitorState[m] \in MonitorRow
      BY DEF TypeOK
    <3>2. QED
      BY <2>1, <3>1 DEF MaintenanceState, Previous, MonitorRow
  <2>3. alertState' = alertState
    BY <1>3 DEF SaveProbeAndState
  <2>4. "DOWN" \in {monitorState[n].status, monitorState[n].before}
    BY <1>3, <2>2 DEF SaveProbeAndState, TypeOK
  <2>5. QED
    BY <2>3, <2>4 DEF OutageHasBaseline
<1>4. ASSUME NEW m \in Monitors, SaveQuietProbe(m)
      PROVE  (alertState')[n] # NoStatus
  <2> DEFINE next == Evaluated(worker[m].prev, worker[m].ok, threshold[m])
  <2>1. /\ worker[m].prev = Previous(monitorState[m])
        /\ monitorState' = [monitorState EXCEPT ![m] = next]
        /\ alertState' = alertState
    BY <1>4 DEF SaveQuietProbe, SnapshotIsFresh
  <2>2. next.before # "DOWN"
    BY DEF Evaluated, NoStatus
  <2>3. next.status = "DOWN" => worker[m].prev.status = "DOWN"
    <3>1. worker[m].prev \in MonitorRow /\ worker[m].ok \in BOOLEAN /\ threshold[m] \in 1 .. MaxFailures
      BY DEF TypeOK, Worker
    <3>2. QED
      BY <1>4, <3>1, QuietDown DEF SaveQuietProbe
  <2>4. worker[m].prev.status = "DOWN" => monitorState[m].status = "DOWN"
    <3>1. monitorState[m] \in MonitorRow
      BY DEF TypeOK
    <3>2. QED
      BY <2>1, <3>1 DEF Previous, MonitorRow
  <2> HIDE DEF next
  <2>5. "DOWN" \in {monitorState[n].status, monitorState[n].before}
    BY <2>1, <2>2, <2>3, <2>4 DEF TypeOK
  <2>6. QED
    BY <2>1, <2>5 DEF OutageHasBaseline
<1>5. ASSUME NEW m \in Monitors, SaveIncident(m)
      PROVE  (alertState')[n] # NoStatus
  <2>1. Baseline(m) # NoStatus
    BY BaselineStatus DEF Status, NoStatus
  <2>2. alertState' = [alertState EXCEPT ![m] = Baseline(m)]
    BY <1>5 DEF SaveIncident
  <2>3. n # m => (monitorState')[n] = monitorState[n]
    BY <1>5 DEF SaveIncident, TypeOK
  <2>4. QED
    BY <2>1, <2>2, <2>3 DEF OutageHasBaseline, TypeOK
<1>6. ASSUME NEW kept \in SUBSET Monitors, DeleteStatesExcept(kept)
      PROVE  (alertState')[n] # NoStatus
  <2>1. n \in kept
    BY <1>6 DEF DeleteStatesExcept, NoRow, NoStatus
  <2>2. QED
    BY <1>6, <2>1 DEF DeleteStatesExcept, OutageHasBaseline
<1>7. QED
  BY <1>1, <1>2, <1>3, <1>4, <1>5, <1>6, StoreStep

\* A delivered row stays delivered.
LEMMA DeliveredStays ==
    ASSUME Inv, [Next]_vars, NEW id \in AlertIds, alerts[id].status = "delivered"
    PROVE  /\ id \in AlertIds'
           /\ (alerts')[id].monitor = alerts[id].monitor
           /\ (alerts')[id].transition = alerts[id].transition
           /\ (alerts')[id].status = "delivered"
<1> USE DEF Inv
<1>1. CASE /\ UNCHANGED <<monitorState, alertState, lastId>>
           /\ \A i \in AlertIds : RowKept(i)
  BY <1>1 DEF RowKept, AlertIds
<1>2. ASSUME NEW d \in AlertIds, Delivered(d), UNCHANGED lastId
      PROVE  /\ id \in AlertIds'
             /\ (alerts')[id].monitor = alerts[id].monitor
             /\ (alerts')[id].transition = alerts[id].transition
             /\ (alerts')[id].status = "delivered"
  BY <1>2, DeliveredRow DEF AlertIds
<1>3. ASSUME NEW m \in Monitors, SaveProbeAndState(m) \/ SaveQuietProbe(m)
      PROVE  /\ id \in AlertIds'
             /\ (alerts')[id].monitor = alerts[id].monitor
             /\ (alerts')[id].transition = alerts[id].transition
             /\ (alerts')[id].status = "delivered"
  BY <1>3, CancelledRow DEF SaveProbeAndState, SaveQuietProbe, AlertIds
<1>4. ASSUME NEW m \in Monitors, SaveIncident(m)
      PROVE  /\ id \in AlertIds'
             /\ (alerts')[id].monitor = alerts[id].monitor
             /\ (alerts')[id].transition = alerts[id].transition
             /\ (alerts')[id].status = "delivered"
  <2>1. id \in AlertIds' /\ alerts'[id] = CancelPending(alerts, m, NoIncident)[id]
    BY <1>4, IncidentRows
  <2>2. QED
    BY <2>1, CancelledRow
<1>5. ASSUME NEW kept \in SUBSET Monitors, DeleteStatesExcept(kept)
      PROVE  /\ id \in AlertIds'
             /\ (alerts')[id].monitor = alerts[id].monitor
             /\ (alerts')[id].transition = alerts[id].transition
             /\ (alerts')[id].status = "delivered"
  <2>1. AlertIds' = AlertIds
    BY <1>5 DEF DeleteStatesExcept, AlertIds
  <2>2. QED
    BY <1>5, <2>1, RemovedRow
<1>6. QED
  BY <1>1, <1>2, <1>3, <1>4, <1>5, StoreStep

\* DOWN becomes the last notified status by a delivery only: as a baseline it
\* would be taken from a monitor that is DOWN, and who is DOWN has one already.
LEMMA DownNext ==
    ASSUME Inv, OutageHasBaseline, DownIsNotifiedByMessage, [Next]_vars
    PROVE  DownIsNotifiedByMessage'
<1> USE DEF Inv
<1> SUFFICES ASSUME NEW n \in Monitors, (alertState')[n] = "DOWN"
             PROVE  \E id \in AlertIds' : /\ (alerts')[id].monitor = n
                                          /\ (alerts')[id].transition = "DOWN"
                                          /\ (alerts')[id].status = "delivered"
  BY DEF DownIsNotifiedByMessage
<1>0. CASE alertState[n] = "DOWN"
  <2>1. PICK id \in AlertIds : /\ alerts[id].monitor = n
                               /\ alerts[id].transition = "DOWN"
                               /\ alerts[id].status = "delivered"
    BY <1>0 DEF DownIsNotifiedByMessage
  <2>2. QED
    BY <2>1, DeliveredStays
<1>1. ASSUME NEW d \in AlertIds, Delivered(d), UNCHANGED lastId, alertState[n] # "DOWN"
      PROVE  \E id \in AlertIds' : /\ (alerts')[id].monitor = n
                                   /\ (alerts')[id].transition = "DOWN"
                                   /\ (alerts')[id].status = "delivered"
  <2>1. alerts[d].monitor = n /\ alerts[d].transition = "DOWN"
    BY <1>1 DEF Delivered, TypeOK
  <2>2. d \in AlertIds'
    BY <1>1 DEF AlertIds
  <2>3. QED
    BY <1>1, <2>1, <2>2, DeliveredRow
<1>2. ASSUME NEW m \in Monitors, SaveIncident(m)
      PROVE  alertState[n] = "DOWN"
  <2>1. alertState' = [alertState EXCEPT ![m] = Baseline(m)]
    BY <1>2 DEF SaveIncident
  <2>2. CASE alertState[m] = NoStatus
    <3>1. "DOWN" \notin {monitorState[m].status, monitorState[m].before}
      BY <2>2 DEF OutageHasBaseline
    <3>2. Baseline(m) # "DOWN"
      BY <2>2, <3>1 DEF Baseline, StatusOutsideMaintenance
    <3>3. QED
      BY <2>1, <3>2 DEF TypeOK
  <2>3. CASE alertState[m] # NoStatus
    BY <2>1, <2>3 DEF Baseline, TypeOK
  <2>4. QED
    BY <2>2, <2>3
<1>3. CASE \E m \in Monitors : SaveProbeAndState(m) \/ SaveQuietProbe(m)
  BY <1>0, <1>3 DEF SaveProbeAndState, SaveQuietProbe
<1>4. CASE \E kept \in SUBSET Monitors : DeleteStatesExcept(kept)
  BY <1>0, <1>4 DEF DeleteStatesExcept, NoStatus
<1>5. CASE UNCHANGED alertState
  BY <1>0, <1>5
<1>6. QED
  BY <1>0, <1>1, <1>2, <1>3, <1>4, <1>5, StoreStep

\* What the tables promise, together: no part needs more than the parts before it.
TablesInv ==
    /\ SnapshotIsFresh
    /\ PendingTellsStoredStatus
    /\ OutageHasBaseline
    /\ DownIsNotifiedByMessage

\* Before the first start there are neither rows nor workers.
LEMMA TablesInit == Init => TablesInv
<1> SUFFICES ASSUME Init PROVE TablesInv
  OBVIOUS
<1>1. AlertIds = {}
  BY DEF Init, AlertIds
<1>2. SnapshotIsFresh
  BY DEF Init, SnapshotIsFresh, WorkerAt
<1>3. PendingTellsStoredStatus
  BY <1>1 DEF PendingTellsStoredStatus
<1>4. OutageHasBaseline
  BY DEF Init, OutageHasBaseline, NoRow, NoStatus
<1>5. DownIsNotifiedByMessage
  BY DEF Init, DownIsNotifiedByMessage, NoStatus
<1>6. QED
  BY <1>2, <1>3, <1>4, <1>5 DEF TablesInv

\* What the tables promise holds in every reachable state.
THEOREM TablesInvariant == Spec => []TablesInv
<1>1. Inv /\ TablesInv /\ [Next]_vars => TablesInv'
  BY SnapshotNext, PendingNext, OutageNext, DownNext DEF TablesInv
<1>2. QED
  BY <1>1, TablesInit, Invariant, PTL DEF Spec

\* A probe evaluates the stored state: whatever other monitors, dispatches,
\* reloads and crashes do between its read and its write, the state it read is
\* still the stored one.
THEOREM SnapshotsAreFresh == Spec => []SnapshotIsFresh
BY TablesInvariant, PTL DEF TablesInv

\* A message that waits announces the stored status of its monitor, and no other
\* message of that monitor waits.
THEOREM PendingIsTrue == Spec => []PendingTellsStoredStatus
BY TablesInvariant, PTL DEF TablesInv

\* A monitor is last notified DOWN only after a DOWN message of it was delivered.
THEOREM DownWasTold == Spec => []DownIsNotifiedByMessage
BY TablesInvariant, PTL DEF TablesInv

-----------------------------------------------------------------------------
(* A claimed message is not forgotten *)

\* Outside a send the dispatcher has no message in hand, so a claim or an unlock
\* drops none.
HandInv ==
    dispatcher.phase \notin {"sending", "recording"} => dispatcher.current = 0

\* A step leaves the dispatcher without a message it does not send or record.
LEMMA HandNext ==
    ASSUME Inv, HandInv, [Next]_vars
    PROVE  HandInv'
<1> USE DEF Inv
<1>0. dispatcher \in Dispatcher
  BY DEF TypeOK
<1>1. CASE dispatcher' = dispatcher
  BY <1>1 DEF HandInv
<1>2. CASE dispatcher' = FreeDispatcher
  BY <1>2 DEF HandInv, FreeDispatcher
<1>3. ASSUME NEW owner, BeginDispatch(owner)
      PROVE  HandInv'
  BY <1>3 DEF BeginDispatch, HandInv, FreeDispatcher
<1>4. ASSUME NEW id \in AlertIds, Rewrite(id) \/ RewriteFails(id) \/ Skip(id)
      PROVE  HandInv'
  BY <1>0, <1>4 DEF Rewrite, RewriteFails, Skip, HandInv, Dispatcher
<1>5. ASSUME NEW id \in AlertIds, Claim(id)
      PROVE  HandInv'
  BY <1>0, <1>5 DEF Claim, HandInv, Dispatcher
<1>6. CASE ListDue \/ Send \/ Record \/ RecordFails
  BY <1>0, <1>6 DEF ListDue, Send, Record, RecordFails, NextItem, HandInv, Dispatcher
<1>7. CASE ListDueFails \/ EndDispatch
  BY <1>2, <1>7 DEF ListDueFails, EndDispatch, Release
<1>8. CASE Reload
  <2>1. dispatcher' \in {dispatcher, [dispatcher EXCEPT !.live = FALSE]}
    BY <1>8 DEF Reload
  <2>2. dispatcher'.phase = dispatcher.phase /\ dispatcher'.current = dispatcher.current
    BY <1>0, <2>1 DEF Dispatcher
  <2>3. QED
    BY <2>2 DEF HandInv
<1>9. CASE Crash
  BY <1>2, <1>9 DEF Crash
<1>10. CASE \E m \in Monitors : Monitoring(m)
  BY <1>1, <1>10 DEF Monitoring, Save, Probe, ProbeFails, SaveProbeResult,
       SaveProbeAndState, SaveQuietProbe, SaveIncident
<1>11. CASE Start \/ Environment \/ UNCHANGED vars
  BY <1>1, <1>11 DEF Start, Environment, DelayElapses, ToggleMaintenance, ToggleObserver, vars
<1>12. QED
  BY <1>3, <1>4, <1>5, <1>6, <1>7, <1>8, <1>9, <1>10, <1>11 DEF Next, Dispatching

\* One step of a running daemon: a claimed row in hand or waiting to be recorded
\* is recorded, or is still in hand or waiting.
LEMMA ClaimedStep ==
    ASSUME Inv, HandInv, [Next]_vars, running',
           NEW id \in AlertIds, alerts[id].status = "sending", Owned(id)
    PROVE  (alerts')[id].status = "delivered" \/ Owned(id)'
<1> USE DEF Inv
<1>0. dispatcher \in Dispatcher /\ id # 0
  BY DEF TypeOK, AlertIds
<1>1. CASE dispatcher'.current = dispatcher.current /\ unrecorded \subseteq unrecorded'
  BY <1>1 DEF Owned
<1>2. ASSUME dispatcher.phase \notin {"sending", "recording"},
             unrecorded \subseteq unrecorded'
      PROVE  Owned(id)'
  BY <1>0, <1>2 DEF Owned, HandInv
<1>3. ASSUME NEW owner, BeginDispatch(owner)
      PROVE  Owned(id)'
  BY <1>2, <1>3 DEF BeginDispatch
<1>4. ASSUME NEW d \in AlertIds, Rewrite(d)
      PROVE  (alerts')[id].status = "delivered" \/ Owned(id)'
  <2>1. d = id => (alerts')[id].status = "delivered"
    BY <1>4, DeliveredRow DEF Rewrite
  <2>2. dispatcher'.current = dispatcher.current /\ unrecorded' = unrecorded \ {d}
    BY <1>0, <1>4 DEF Rewrite, Dispatcher
  <2>3. QED
    BY <2>1, <2>2 DEF Owned
<1>5. ASSUME NEW d \in AlertIds, RewriteFails(d) \/ Skip(d) \/ Claim(d)
      PROVE  Owned(id)'
  BY <1>2, <1>5 DEF RewriteFails, Skip, Claim
<1>6. CASE ListDue \/ ListDueFails \/ EndDispatch
  BY <1>2, <1>6 DEF ListDue, ListDueFails, EndDispatch
<1>7. CASE Send
  BY <1>0, <1>1, <1>7 DEF Send, Dispatcher
<1>8. CASE Record
  <2>1. dispatcher.current = id => (alerts')[id].status = "delivered"
    BY <1>8, DeliveredRow DEF Record
  <2>2. unrecorded' = unrecorded
    BY <1>8 DEF Record
  <2>3. QED
    BY <2>1, <2>2 DEF Owned
<1>9. CASE RecordFails
  BY <1>9 DEF RecordFails, Owned
<1>10. CASE Reload
  <2>1. dispatcher' \in {dispatcher, [dispatcher EXCEPT !.live = FALSE]}
    BY <1>10 DEF Reload
  <2>2. dispatcher'.current = dispatcher.current /\ unrecorded' = unrecorded
    BY <1>0, <1>10, <2>1 DEF Dispatcher, Reload
  <2>3. QED
    BY <1>1, <2>2
<1>11. CASE \E m \in Monitors : Monitoring(m)
  BY <1>1, <1>11 DEF Monitoring, Save, Probe, ProbeFails, SaveProbeResult,
       SaveProbeAndState, SaveQuietProbe, SaveIncident
<1>12. CASE Start \/ Environment \/ UNCHANGED vars
  BY <1>1, <1>12 DEF Start, Environment, DelayElapses, ToggleMaintenance, ToggleObserver, vars
<1>13. ~Crash
  BY DEF Crash
<1>14. QED
  BY <1>3, <1>4, <1>5, <1>6, <1>7, <1>8, <1>9, <1>10, <1>11, <1>12, <1>13 DEF Next, Dispatching

\* No failure of the store, cancelled worker or reload makes the daemon forget a
\* message it has claimed; only the end of the process does.
THEOREM ClaimedIsKept == Spec => ClaimedIsNotForgotten
<1>1. Init => HandInv
  BY DEF Init, HandInv, FreeDispatcher
<1>2. Inv /\ HandInv /\ [Next]_vars => HandInv'
  BY HandNext
<1>3. Inv /\ HandInv /\ [Next]_vars =>
        [\A id \in AlertIds :
            alerts[id].status = "sending" /\ Owned(id) /\ running' =>
                alerts'[id].status = "delivered" \/ Owned(id)']_vars
  BY ClaimedStep
<1>4. QED
  BY <1>1, <1>2, <1>3, Invariant, PTL DEF Spec, ClaimedIsNotForgotten

-----------------------------------------------------------------------------
(* While messages are immediate and nothing fails *)

\* No transition is delayed, no store operation fails, the daemon does not stop
\* and its configuration stays.  Each of these four is needed: a delay, a failure,
\* a restart or a reload lets a worker probe on while its message waits.
Calm == Delayed = {} /\ Events \cap {"store_error", "crash", "reload"} = {}

Undelivered(id) == alerts[id].status \in {"pending", "sending"}

\* The monitor is in an outage, maintenance looked through.
OpenOutage(m) ==
    \/ monitorState[m].status = "DOWN"
    \/ monitorState[m].status = "MAINTENANCE" /\ monitorState[m].before = "DOWN"

\* What the recipients were last told does not contradict the stored state.
Settled(m) ==
    /\ alertState[m] = "DOWN" => OpenOutage(m)
    /\ alertState[m] = "UP" => ~OpenOutage(m)

\* The daemon is started once: before that there is nothing.
NotStarted ==
    ~running =>
        /\ lastId = 0
        /\ dispatcher = FreeDispatcher
        /\ \A m \in Monitors : /\ monitorState[m] = NoRow
                               /\ alertState[m] = NoStatus
                               /\ worker[m].pc = "gone"

NothingLost ==
    /\ dispatcher.live
    /\ unrecorded = {}
    /\ \A id \in AlertIds : alerts[id].due

\* The worker that queued a message waits until it is recorded, so the state the
\* message announces stays the stored one; and so does the holder of the mutex.
WorkerWaits ==
    /\ \A id \in AlertIds :
          Undelivered(id) => worker[alerts[id].monitor].pc = "dispatch" /\ MatchesState(id)
    /\ dispatcher.phase # "free" /\ dispatcher.owner # Ticker =>
          worker[dispatcher.owner].pc = "dispatch"

\* A claimed message is the one in hand, and a worker that dispatches has every
\* message of its monitor listed or behind it.
InHand ==
    \A id \in AlertIds :
        /\ alerts[id].status = "sending" =>
              dispatcher.phase \in {"sending", "recording"} /\ dispatcher.current = id
        /\ /\ Pending(id)
           /\ dispatcher.phase \in {"claiming", "sending", "recording"}
           /\ dispatcher.owner = alerts[id].monitor
           => id \in dispatcher.queue

ToldOrUnderway ==
    \A m \in Monitors :
        Settled(m) \/ \E id \in AlertIds : alerts[id].monitor = m /\ Undelivered(id)

CalmInv == NotStarted /\ NothingLost /\ WorkerWaits /\ InHand /\ ToldOrUnderway

\* Before the first start nothing was told and nothing happened.
LEMMA CalmInit == Init => CalmInv
<1> SUFFICES ASSUME Init PROVE CalmInv
  OBVIOUS
<1>1. AlertIds = {}
  BY DEF Init, AlertIds
<1>2. NotStarted
  BY DEF Init, NotStarted, WorkerAt
<1>3. NothingLost
  BY <1>1 DEF Init, NothingLost, FreeDispatcher
<1>4. WorkerWaits /\ InHand
  BY <1>1 DEF Init, WorkerWaits, InHand, FreeDispatcher
<1>5. ToldOrUnderway
  BY DEF Init, ToldOrUnderway, Settled, NoStatus
<1>6. QED
  BY <1>2, <1>3, <1>4, <1>5 DEF CalmInv

\* A step that leaves the tables and the dispatcher alone, and every worker that
\* waits or is gone where it is.
LEMMA CalmQuiet ==
    ASSUME Inv, CalmInv,
           UNCHANGED <<running, dispatcher, unrecorded, monitorState, alertState, lastId, alerts>>,
           \A n \in Monitors :
              worker[n].pc \in {"dispatch", "gone"} => (worker')[n].pc = worker[n].pc
    PROVE  CalmInv'
<1> USE DEF Inv, CalmInv
<1>1. AlertIds' = AlertIds
  BY DEF AlertIds
<1>2. NotStarted'
  BY DEF NotStarted
<1>3. NothingLost'
  BY <1>1 DEF NothingLost
<1>4. WorkerWaits'
  <2>1. \A id \in AlertIds : alerts[id].monitor \in Monitors
    BY DEF TypeOK, Alert
  <2>2. dispatcher.owner # Ticker => dispatcher.owner \in Monitors
    BY DEF TypeOK, Dispatcher
  <2>3. QED
    BY <1>1, <2>1, <2>2 DEF WorkerWaits, Undelivered, MatchesState
<1>5. InHand'
  BY <1>1 DEF InHand, Pending
<1>6. ToldOrUnderway'
  BY <1>1 DEF ToldOrUnderway, Settled, OpenOutage, Undelivered
<1>7. QED
  BY <1>2, <1>3, <1>4, <1>5, <1>6

\* A worker that saves has no message underway, so there is none to cancel.
LEMMA NothingToCancel ==
    ASSUME Inv, CalmInv, NEW m \in Monitors, worker[m].pc = "saving", NEW keep
    PROVE  /\ \A id \in AlertIds : Undelivered(id) => alerts[id].monitor # m
           /\ \A id \in AlertIds : CancelPending(alerts, m, keep)[id] = alerts[id]
           /\ CancelPending(alerts, m, keep) = alerts
           /\ Settled(m)
           /\ running
<1> USE DEF Inv, CalmInv
<1>1. \A id \in AlertIds : Undelivered(id) => alerts[id].monitor # m
  BY DEF WorkerWaits
<1>2. \A id \in AlertIds : CancelPending(alerts, m, keep)[id] = alerts[id]
  BY <1>1 DEF CancelPending, Undelivered
<1>3. CancelPending(alerts, m, keep) = alerts
  BY <1>2 DEF CancelPending, TypeOK
<1>4. QED
  BY <1>1, <1>2, <1>3 DEF ToldOrUnderway, NotStarted

\* A probe that makes no incident does not end an outage and opens none.
LEMMA QuietOutage ==
    ASSUME NEW row \in MonitorRow, NEW ok \in BOOLEAN, NEW limit \in 1 .. MaxFailures,
           EvaluateProbe(row, ok, limit).incident = NoIncident
    PROVE  Evaluated(row, ok, limit).status = "DOWN" <=>
              \/ row.status = "DOWN"
              \/ row.status = "MAINTENANCE" /\ row.before = "DOWN"
<1> DEFINE from == IF row.status = "MAINTENANCE" /\ ok /\ row.before = "DOWN"
                   THEN [row EXCEPT !.status = "DOWN"] ELSE row
           n == IF row.status = "MAINTENANCE" /\ ~ok THEN 1 ELSE limit
<1>1. EvaluateProbe(row, ok, limit) = Evaluate(from, ok, n)
  BY DEF EvaluateProbe
<1>2. Evaluated(row, ok, limit).status = EvaluateProbe(row, ok, limit).status
  BY DEF Evaluated
<1>3. from.status = "DOWN" <=>
         row.status = "DOWN" \/ (row.status = "MAINTENANCE" /\ ok /\ row.before = "DOWN")
  BY DEF MonitorRow
<1>4. ~ok => from = row /\ (row.status = "MAINTENANCE" => n = 1)
  OBVIOUS
<1> HIDE DEF from, n
<1>5. CASE ok
  <2>1. /\ Evaluate(from, ok, n).status = "UP"
        /\ Evaluate(from, ok, n).incident = IF from.status = "DOWN" THEN "UP" ELSE NoIncident
    BY <1>5 DEF Evaluate
  <2>2. QED
    BY <1>1, <1>2, <1>3, <1>5, <2>1 DEF NoIncident
<1>6. CASE ~ok
  <2>1. CASE row.status = "DOWN"
    BY <1>1, <1>2, <1>4, <1>6, <2>1 DEF Evaluate
  <2>2. CASE row.status # "DOWN"
    <3>1. row.status # "MAINTENANCE"
      <4> SUFFICES ASSUME row.status = "MAINTENANCE" PROVE FALSE
        OBVIOUS
      <4>1. Saturated(row.failures + 1) >= 1
        BY DEF Saturated, MonitorRow
      <4>2. Evaluate(row, ok, 1).incident = "DOWN"
        BY <1>6, <2>2, <4>1 DEF Evaluate
      <4>3. QED
        BY <1>1, <1>4, <1>6, <4>2 DEF NoIncident
    <3>2. Evaluated(row, ok, limit).status # "DOWN"
      BY <2>2, QuietDown
    <3>3. QED
      BY <2>2, <3>1, <3>2
  <2>3. QED
    BY <2>1, <2>2
<1>7. QED
  BY <1>5, <1>6

\* A probe that makes no incident.
LEMMA CalmSaveState ==
    ASSUME Inv, TablesInv, CalmInv, NEW m \in Monitors, SaveProbeAndState(m) \/ SaveQuietProbe(m)
    PROVE  CalmInv'
<1> USE DEF Inv, CalmInv
<1> DEFINE prev == worker[m].prev
<1>1. worker[m].pc = "saving"
  BY DEF SaveProbeAndState, SaveQuietProbe
<1>2. /\ prev = Previous(monitorState[m])
      /\ prev \in MonitorRow /\ worker[m].ok \in BOOLEAN /\ threshold[m] \in 1 .. MaxFailures
      /\ monitorState[m] \in MonitorRow
  BY <1>1 DEF TablesInv, SnapshotIsFresh, TypeOK, Worker
<1>3. PICK row, keep :
         /\ monitorState' = [monitorState EXCEPT ![m] = row]
         /\ alerts' = CancelPending(alerts, m, keep)
         /\ (row.status = "DOWN" \/ (row.status = "MAINTENANCE" /\ row.before = "DOWN"))
               <=> OpenOutage(m)
  <2>1. OpenOutage(m) <=> prev.status = "DOWN" \/ (prev.status = "MAINTENANCE" /\ prev.before = "DOWN")
    BY <1>2 DEF OpenOutage, Previous, MonitorRow, Exists, NoStatus
  <2>2. CASE SaveProbeAndState(m)
    <3>1. MaintenanceState(prev).status = "MAINTENANCE"
      BY DEF MaintenanceState
    <3>2. MaintenanceState(prev).before = "DOWN" <=> OpenOutage(m)
      BY <1>2, <2>1 DEF MaintenanceState, MonitorRow
    <3>3. QED
      BY <2>2, <3>1, <3>2 DEF SaveProbeAndState
  <2>3. CASE SaveQuietProbe(m)
    <3>1. Evaluated(prev, worker[m].ok, threshold[m]).status # "MAINTENANCE"
      BY <1>2, EvaluatedRow
    <3>2. Evaluated(prev, worker[m].ok, threshold[m]).status = "DOWN" <=> OpenOutage(m)
      BY <1>2, <2>1, <2>3, QuietOutage DEF SaveQuietProbe
    <3>3. QED
      BY <2>3, <3>1, <3>2 DEF SaveQuietProbe
  <2>4. QED
    BY <2>2, <2>3
<1>4. /\ running' = running /\ dispatcher' = dispatcher /\ unrecorded' = unrecorded
      /\ alertState' = alertState /\ lastId' = lastId
      /\ worker' = [worker EXCEPT ![m] = WorkerAt("idle")]
  BY DEF SaveProbeAndState, SaveQuietProbe, daemon
<1>5. /\ \A id \in AlertIds : Undelivered(id) => alerts[id].monitor # m
      /\ alerts' = alerts
      /\ Settled(m)
      /\ running
      /\ AlertIds' = AlertIds
  BY <1>1, <1>3, <1>4, NothingToCancel DEF AlertIds
<1>6. \A n \in Monitors : n # m => /\ (worker')[n] = worker[n]
                                  /\ (monitorState')[n] = monitorState[n]
  BY <1>3, <1>4 DEF TypeOK
<1>7. NotStarted' /\ NothingLost' /\ InHand'
  BY <1>4, <1>5 DEF NotStarted, NothingLost, InHand, Pending
<1>8. WorkerWaits'
  <2>1. \A id \in AlertIds : alerts[id].monitor \in Monitors
    BY DEF TypeOK, Alert
  <2>2. dispatcher.owner # Ticker => dispatcher.owner \in Monitors
    BY DEF TypeOK, Dispatcher
  <2>3. \A id \in AlertIds : Undelivered(id)' =>
           (worker')[(alerts')[id].monitor].pc = "dispatch" /\ MatchesState(id)'
    BY <1>5, <1>6, <2>1 DEF WorkerWaits, Undelivered, MatchesState
  <2>4. dispatcher'.phase # "free" /\ dispatcher'.owner # Ticker =>
           (worker')[dispatcher'.owner].pc = "dispatch"
    BY <1>1, <1>4, <1>6, <2>2 DEF WorkerWaits
  <2>5. QED
    BY <1>5, <2>3, <2>4 DEF WorkerWaits
<1>9. ToldOrUnderway'
  <2>1. Settled(m)'
    <3>1. (monitorState')[m] = row
      BY <1>3 DEF TypeOK
    <3>2. OpenOutage(m)' <=> OpenOutage(m)
      BY <1>3, <3>1 DEF OpenOutage
    <3>3. QED
      BY <1>4, <1>5, <3>2 DEF Settled
  <2>2. \A n \in Monitors : n # m /\ Settled(n) => Settled(n)'
    BY <1>4, <1>6 DEF Settled, OpenOutage
  <2>3. QED
    BY <1>5, <2>1, <2>2 DEF ToldOrUnderway, Undelivered
<1>10. QED
  BY <1>7, <1>8, <1>9

\* An incident queues the message that tells it, or the recipients know already;
\* with a message queued the worker waits for the dispatch.
LEMMA CalmSaveIncident ==
    ASSUME Calm, Inv, CalmInv, NEW m \in Monitors, SaveIncident(m)
    PROVE  CalmInv'
<1> USE DEF Inv, CalmInv
<1> DEFINE next == Evaluated(worker[m].prev, worker[m].ok, threshold[m])
           queued == next.status # Baseline(m)
           pc == IF queued THEN "dispatch" ELSE "idle"
<1>1. /\ running' = running /\ dispatcher' = dispatcher /\ unrecorded' = unrecorded
      /\ worker' = [worker EXCEPT ![m] = WorkerAt(pc)]
      /\ monitorState' = [monitorState EXCEPT ![m] = next]
      /\ alertState' = [alertState EXCEPT ![m] = Baseline(m)]
      /\ worker[m].pc = "saving"
  BY DEF SaveIncident, daemon, Calm, StoreMayFail
<1>2. /\ \A id \in AlertIds : Undelivered(id) => alerts[id].monitor # m
      /\ running
      /\ \A id \in AlertIds : (alerts')[id] = alerts[id]
      /\ next.status \in Transition
  BY <1>1, NothingToCancel, IncidentRows
<1>3. AlertIds \subseteq AlertIds'
  BY IncidentRows DEF AlertIds
<1>4. ASSUME NEW id \in AlertIds', id \notin AlertIds
      PROVE  queued /\ id = lastId' /\ (alerts')[id] = NewAlert(m, next.status)
  <2>1. queued /\ id = lastId'
    BY <1>4, IncidentRows
  <2>2. QED
    BY <2>1, IncidentRows
<1>5. queued => /\ lastId' \in AlertIds'
                /\ lastId' \notin AlertIds
                /\ (alerts')[lastId'] = NewAlert(m, next.status)
  BY IncidentRows
<1>6. /\ (worker')[m] = WorkerAt(pc)
      /\ (monitorState')[m] = next
      /\ (alertState')[m] = Baseline(m)
      /\ \A n \in Monitors : n # m => /\ (worker')[n] = worker[n]
                                     /\ (monitorState')[n] = monitorState[n]
                                     /\ (alertState')[n] = alertState[n]
  BY <1>1 DEF TypeOK
<1> HIDE DEF next, queued, pc
<1>7. NotStarted'
  BY <1>1, <1>2 DEF NotStarted
<1>8. NothingLost'
  <2>1. NewAlert(m, next.status).due
    BY DEF NewAlert, Calm
  <2>2. \A id \in AlertIds' : (alerts')[id].due
    BY <1>2, <1>4, <2>1 DEF NothingLost
  <2>3. QED
    BY <1>1, <2>2 DEF NothingLost
<1>9. WorkerWaits'
  <2>1. \A id \in AlertIds : alerts[id].monitor \in Monitors
    BY DEF TypeOK, Alert
  <2>2. dispatcher.owner # Ticker => dispatcher.owner \in Monitors
    BY DEF TypeOK, Dispatcher
  <2>3. ASSUME NEW id \in AlertIds', Undelivered(id)'
        PROVE  (worker')[(alerts')[id].monitor].pc = "dispatch" /\ MatchesState(id)'
    <3>1. CASE id \in AlertIds
      BY <1>2, <1>6, <2>1, <2>3, <3>1 DEF WorkerWaits, Undelivered, MatchesState
    <3>2. CASE id \notin AlertIds
      <4>1. queued /\ (alerts')[id] = NewAlert(m, next.status)
        BY <1>4, <3>2
      <4>2. (alerts')[id].monitor = m /\ (alerts')[id].transition = next.status
        BY <4>1 DEF NewAlert
      <4>3. (worker')[m].pc = "dispatch"
        <5>1. WorkerAt("dispatch").pc = "dispatch" /\ pc = "dispatch"
          BY <4>1 DEF pc, WorkerAt
        <5>2. QED
          BY <1>6, <5>1
      <4>4. QED
        BY <1>6, <4>2, <4>3 DEF MatchesState
    <3>3. QED
      BY <3>1, <3>2
  <2>4. dispatcher'.phase # "free" /\ dispatcher'.owner # Ticker =>
           (worker')[dispatcher'.owner].pc = "dispatch"
    BY <1>1, <1>6, <2>2 DEF WorkerWaits
  <2>5. QED
    BY <2>3, <2>4 DEF WorkerWaits
<1>10. InHand'
  <2> SUFFICES ASSUME NEW id \in AlertIds'
               PROVE  /\ (alerts')[id].status = "sending" =>
                            /\ dispatcher'.phase \in {"sending", "recording"}
                            /\ dispatcher'.current = id
                      /\ /\ (alerts')[id].status = "pending"
                         /\ dispatcher'.phase \in {"claiming", "sending", "recording"}
                         /\ dispatcher'.owner = (alerts')[id].monitor
                         => id \in dispatcher'.queue
    BY DEF InHand, Pending
  <2>1. CASE id \in AlertIds
    BY <1>1, <1>2, <2>1 DEF InHand, Pending
  <2>2. CASE id \notin AlertIds
    <3>1. (alerts')[id].status = "pending" /\ (alerts')[id].monitor = m
      BY <1>4, <2>2 DEF NewAlert
    <3>2. dispatcher.phase # "free" => dispatcher.owner # m
      BY <1>1, MonitorsAssumption DEF WorkerWaits
    <3>3. QED
      BY <1>1, <3>1, <3>2
  <2>3. QED
    BY <2>1, <2>2
<1>11. ToldOrUnderway'
  <2> SUFFICES ASSUME NEW n \in Monitors
               PROVE  Settled(n)' \/ \E id \in AlertIds' :
                                        (alerts')[id].monitor = n /\ Undelivered(id)'
    BY DEF ToldOrUnderway
  <2>1. CASE n # m
    <3>1. Settled(n) => Settled(n)'
      BY <1>6, <2>1 DEF Settled, OpenOutage
    <3>2. QED
      BY <1>2, <1>3, <3>1 DEF ToldOrUnderway, Undelivered
  <2>2. CASE n = m /\ queued
    BY <1>5, <2>2 DEF NewAlert, Undelivered
  <2>3. CASE n = m /\ ~queued
    <3>1. (alertState')[m] = (monitorState')[m].status
      BY <1>6, <2>3 DEF queued
    <3>2. (monitorState')[m].status \in {"UP", "DOWN"}
      BY <1>2, <1>6 DEF Transition
    <3>3. QED
      BY <2>3, <3>1, <3>2 DEF Settled, OpenOutage
  <2>4. QED
    BY <2>1, <2>2, <2>3
<1>12. QED
  BY <1>7, <1>8, <1>9, <1>10, <1>11

\* A step of the dispatcher that leaves rows, states and workers alone.
LEMMA CalmDispatcher ==
    ASSUME Inv, CalmInv, running,
           UNCHANGED <<running, worker, unrecorded, monitorState, alertState, lastId, alerts>>,
           dispatcher'.live,
           dispatcher'.phase # "free" /\ dispatcher'.owner # Ticker =>
               worker[dispatcher'.owner].pc = "dispatch",
           InHand'
    PROVE  CalmInv'
<1> USE DEF Inv, CalmInv
<1>1. AlertIds' = AlertIds
  BY DEF AlertIds
<1>2. NotStarted' /\ NothingLost'
  BY <1>1 DEF NotStarted, NothingLost
<1>3. WorkerWaits'
  BY <1>1 DEF WorkerWaits, Undelivered, MatchesState
<1>4. ToldOrUnderway'
  BY <1>1 DEF ToldOrUnderway, Settled, OpenOutage, Undelivered
<1>5. QED
  BY <1>2, <1>3, <1>4

\* The steps of a dispatch under a live context in which nothing fails.
LEMMA CalmDispatching ==
    ASSUME Calm, Inv, HandInv, CalmInv, Dispatching
    PROVE  CalmInv'
<1> USE DEF Inv, CalmInv
<1>0. /\ dispatcher \in Dispatcher
      /\ dispatcher.live
      /\ ~CanFail
      /\ dispatcher.phase # "free" => running
      /\ \A id \in AlertIds : alerts[id] \in Alert
  BY DEF TypeOK, NothingLost, CanFail, StoreMayFail, Calm, NotStarted, FreeDispatcher
<1>1. ASSUME NEW owner \in Monitors \cup {Ticker}, BeginDispatch(owner)
      PROVE  CalmInv'
  <2>1. dispatcher' = [FreeDispatcher EXCEPT !.phase = "rewriting", !.owner = owner,
                                             !.rewrite = unrecorded]
    BY <1>1 DEF BeginDispatch
  <2>2. dispatcher'.phase = "rewriting" /\ dispatcher'.owner = owner /\ dispatcher'.live
    BY <2>1 DEF FreeDispatcher
  <2>3. InHand'
    BY <1>1, <2>2 DEF BeginDispatch, store, InHand, AlertIds, Pending
  <2>4. QED
    BY <1>1, <2>2, <2>3, CalmDispatcher DEF BeginDispatch, daemon, store
<1>2. ASSUME NEW id \in AlertIds, Rewrite(id) \/ RewriteFails(id)
      PROVE  CalmInv'
  BY <1>2 DEF Rewrite, RewriteFails, NothingLost, DispatcherInv
<1>3. CASE ListDue
  <2>1. /\ dispatcher'.phase = "claiming"
        /\ dispatcher'.owner = dispatcher.owner
        /\ dispatcher'.live
        /\ dispatcher'.queue = {id \in AlertIds : /\ alerts[id].status = "pending"
                                                   /\ alerts[id].due
                                                   /\ MatchesState(id)}
    BY <1>0, <1>3 DEF ListDue, Dispatcher
  <2>2. InHand'
    <3>1. \A id \in AlertIds : alerts[id].status # "sending"
      BY <1>3 DEF ListDue, InHand
    <3>2. \A id \in AlertIds : Pending(id) => id \in dispatcher'.queue
      BY <2>1 DEF Pending, NothingLost, WorkerWaits, Undelivered
    <3>3. QED
      BY <1>3, <3>1, <3>2 DEF ListDue, store, InHand, AlertIds, Pending
  <2>3. QED
    BY <1>0, <1>3, <2>1, <2>2, CalmDispatcher DEF ListDue, daemon, store, WorkerWaits
<1>4. ASSUME NEW id \in AlertIds, Skip(id)
      PROVE  CalmInv'
  <2>1. /\ dispatcher'.phase = "claiming"
        /\ dispatcher'.owner = dispatcher.owner
        /\ dispatcher'.live
        /\ dispatcher'.queue = dispatcher.queue \ {id}
    BY <1>0, <1>4 DEF Skip, Dispatcher
  <2>2. ~Pending(id)
    BY <1>0, <1>4 DEF Skip, Claimable, Pending, WorkerWaits, Undelivered
  <2>3. InHand'
    BY <1>4, <2>1, <2>2 DEF Skip, store, InHand, AlertIds, Pending
  <2>4. QED
    BY <1>0, <1>4, <2>1, <2>3, CalmDispatcher DEF Skip, daemon, store, WorkerWaits
<1>5. ASSUME NEW id \in AlertIds, Claim(id)
      PROVE  CalmInv'
  <2>1. /\ dispatcher'.phase = "sending"
        /\ dispatcher'.owner = dispatcher.owner
        /\ dispatcher'.live
        /\ dispatcher'.current = id
        /\ dispatcher'.queue = dispatcher.queue \ {id}
        /\ dispatcher.phase = "claiming"
    BY <1>0, <1>5 DEF Claim, Dispatcher
  <2>2. /\ AlertIds' = AlertIds
        /\ UNCHANGED <<running, worker, unrecorded, monitorState, alertState, lastId>>
        /\ alerts[id].status = "pending"
    BY <1>5 DEF Claim, Claimable, AlertIds, daemon
  <2>3. \A i \in AlertIds :
           /\ (alerts')[i].monitor = alerts[i].monitor
           /\ (alerts')[i].transition = alerts[i].transition
           /\ (alerts')[i].due = alerts[i].due
           /\ (alerts')[i].status = IF i = id THEN "sending" ELSE alerts[i].status
    BY <1>0, <1>5 DEF Claim, TypeOK, Alert
  <2>4. InHand'
    BY <2>1, <2>2, <2>3 DEF InHand, Pending
  <2>5. NotStarted' /\ NothingLost'
    BY <1>0, <2>1, <2>2, <2>3 DEF NotStarted, NothingLost
  <2>6. WorkerWaits'
    BY <2>1, <2>2, <2>3 DEF WorkerWaits, Undelivered, MatchesState
  <2>7. ToldOrUnderway'
    BY <2>2, <2>3 DEF ToldOrUnderway, Settled, OpenOutage, Undelivered
  <2>8. QED
    BY <2>4, <2>5, <2>6, <2>7
<1>6. CASE Send
  <2>1. /\ dispatcher'.phase = "recording"
        /\ dispatcher'.owner = dispatcher.owner
        /\ dispatcher'.live
        /\ dispatcher'.current = dispatcher.current
        /\ dispatcher'.queue = dispatcher.queue
        /\ dispatcher.phase = "sending"
    BY <1>0, <1>6 DEF Send, Dispatcher
  <2>2. /\ AlertIds' = AlertIds
        /\ UNCHANGED <<running, worker, unrecorded, monitorState, alertState, lastId>>
    BY <1>6 DEF Send, AlertIds, daemon
  <2>3. \A i \in AlertIds :
           /\ (alerts')[i].monitor = alerts[i].monitor
           /\ (alerts')[i].transition = alerts[i].transition
           /\ (alerts')[i].due = alerts[i].due
           /\ (alerts')[i].status = alerts[i].status
    BY <1>0, <1>6 DEF Send, TypeOK, Alert
  <2>4. InHand'
    BY <2>1, <2>2, <2>3 DEF InHand, Pending
  <2>5. NotStarted' /\ NothingLost'
    BY <1>0, <2>1, <2>2, <2>3 DEF NotStarted, NothingLost
  <2>6. WorkerWaits'
    BY <2>1, <2>2, <2>3 DEF WorkerWaits, Undelivered, MatchesState
  <2>7. ToldOrUnderway'
    BY <2>2, <2>3 DEF ToldOrUnderway, Settled, OpenOutage, Undelivered
  <2>8. QED
    BY <2>4, <2>5, <2>6, <2>7
<1>7. CASE Record
  <2> DEFINE id == dispatcher.current
  <2>1. /\ dispatcher'.phase = "claiming"
        /\ dispatcher'.owner = dispatcher.owner
        /\ dispatcher'.live
        /\ dispatcher'.queue = dispatcher.queue
        /\ dispatcher.phase = "recording"
    BY <1>0, <1>7 DEF Record, NextItem, Dispatcher
  <2>2. /\ AlertIds' = AlertIds
        /\ UNCHANGED <<running, worker, unrecorded, monitorState, lastId>>
        /\ id \in AlertIds
        /\ Delivered(id)
    BY <1>7 DEF Record, AlertIds, daemon, DispatcherInv
  <2>3. PICK m \in Monitors :
           /\ m = alerts[id].monitor
           /\ alerts[id].transition \in {"UP", "DOWN"}
           /\ monitorState[m].status = alerts[id].transition
    BY <1>0, <2>2 DEF Alert, Transition, Delivered, WorkerWaits, Undelivered, MatchesState
  <2>4. /\ (alertState')[m] = alerts[id].transition
        /\ \A n \in Monitors : n # m => (alertState')[n] = alertState[n]
    BY <2>2, <2>3 DEF Delivered, TypeOK
  <2>5. \A i \in AlertIds : (alerts')[i].due = alerts[i].due
    BY <1>0, <2>2 DEF Delivered, TypeOK, Alert
  <2> HIDE DEF id
  <2>6. \A i \in AlertIds :
           /\ (alerts')[i].monitor = alerts[i].monitor
           /\ (alerts')[i].transition = alerts[i].transition
           /\ (alerts')[i].status = IF i = id THEN "delivered" ELSE alerts[i].status
    BY <2>2, DeliveredRow
  <2>7. InHand'
    BY <2>1, <2>2, <2>6 DEF InHand, Pending, id
  <2>8. NotStarted' /\ NothingLost'
    BY <1>0, <2>1, <2>2, <2>5 DEF NotStarted, NothingLost
  <2>9. WorkerWaits'
    BY <2>1, <2>2, <2>6 DEF WorkerWaits, Undelivered, MatchesState
  <2>10. ToldOrUnderway'
    <3>1. Settled(m)'
      BY <2>2, <2>3, <2>4 DEF Settled, OpenOutage
    <3>2. ASSUME NEW n \in Monitors, n # m
          PROVE  Settled(n)' \/ \E i \in AlertIds' :
                                    (alerts')[i].monitor = n /\ Undelivered(i)'
      <4>1. Settled(n) => Settled(n)'
        BY <2>2, <2>4, <3>2 DEF Settled, OpenOutage
      <4>2. \A i \in AlertIds : alerts[i].monitor = n => i # id
        BY <2>3, <3>2
      <4>3. QED
        BY <2>2, <2>6, <4>1, <4>2 DEF ToldOrUnderway, Undelivered
    <3>3. QED
      BY <3>1, <3>2 DEF ToldOrUnderway
  <2>11. QED
    BY <2>7, <2>8, <2>9, <2>10
<1>8. CASE EndDispatch
  <2>1. /\ dispatcher' = FreeDispatcher
        /\ dispatcher.phase = "claiming"
        /\ dispatcher.queue = {}
        /\ AlertIds' = AlertIds
        /\ UNCHANGED <<running, unrecorded, monitorState, alertState, lastId, alerts>>
    BY <1>8 DEF EndDispatch, Release, AlertIds, daemon, store
  <2>2. \A id \in AlertIds : Undelivered(id) => alerts[id].monitor # dispatcher.owner
    BY <2>1 DEF InHand, Undelivered, Pending
  <2>3. \A n \in Monitors : n # dispatcher.owner => (worker')[n] = worker[n]
    BY <1>8 DEF EndDispatch, Release, TypeOK
  <2>4. NotStarted' /\ NothingLost' /\ InHand'
    BY <1>0, <2>1 DEF NotStarted, NothingLost, InHand, Pending, FreeDispatcher
  <2>5. WorkerWaits'
    <3>1. \A id \in AlertIds : alerts[id].monitor \in Monitors
      BY <1>0 DEF Alert
    <3>2. dispatcher'.phase = "free"
      BY <2>1 DEF FreeDispatcher
    <3>3. QED
      BY <2>1, <2>2, <2>3, <3>1, <3>2 DEF WorkerWaits, Undelivered, MatchesState
  <2>6. ToldOrUnderway'
    BY <2>1 DEF ToldOrUnderway, Settled, OpenOutage, Undelivered
  <2>7. QED
    BY <2>4, <2>5, <2>6
<1>9. CASE ListDueFails \/ RecordFails
  BY <1>0, <1>9 DEF ListDueFails, RecordFails
<1>10. QED
  BY <1>1, <1>2, <1>3, <1>4, <1>5, <1>6, <1>7, <1>8, <1>9 DEF Dispatching

\* Every step of a daemon that is never disturbed keeps the invariant.
LEMMA CalmNext ==
    ASSUME Calm, Inv, TablesInv, HandInv, CalmInv, [Next]_vars
    PROVE  CalmInv'
<1> USE DEF Inv
<1>1. ASSUME NEW m \in Monitors, Monitoring(m)
      PROVE  CalmInv'
  <2>1. CASE (\E ok \in BOOLEAN : Probe(m, ok)) \/ SaveProbeResult(m)
    <3>1. worker[m].pc \in {"idle", "saving"}
      BY <2>1 DEF Probe, SaveProbeResult
    <3>2. \A n \in Monitors :
             worker[n].pc \in {"dispatch", "gone"} => (worker')[n].pc = worker[n].pc
      BY <2>1, <3>1 DEF Probe, SaveProbeResult, TypeOK
    <3>3. QED
      BY <2>1, <3>2, CalmQuiet DEF Probe, SaveProbeResult, daemon, store
  <2>2. CASE ProbeFails(m)
    BY <2>2 DEF ProbeFails, StoreMayFail, Calm
  <2>3. QED
    BY <1>1, <2>1, <2>2, CalmSaveState, CalmSaveIncident DEF Monitoring, Save
<1>2. CASE Dispatching
  BY <1>2, CalmDispatching
<1>3. CASE Start
  <2>1. /\ lastId = 0
        /\ dispatcher = FreeDispatcher
        /\ \A m \in Monitors : monitorState[m] = NoRow /\ alertState[m] = NoStatus
    BY <1>3 DEF Start, CalmInv, NotStarted
  <2>2. PICK kept \in SUBSET Monitors : DeleteStatesExcept(kept)
    BY <1>3 DEF Start, ApplyConfig, CleanUp, StoreMayFail, Calm
  <2>3. /\ running' /\ dispatcher' = FreeDispatcher /\ unrecorded' = unrecorded
        /\ AlertIds' = {}
        /\ \A m \in Monitors : (alertState')[m] = NoStatus
    BY <1>3, <2>1, <2>2 DEF Start, DeleteStatesExcept, AlertIds
  <2>4. QED
    BY <2>3 DEF CalmInv, NotStarted, NothingLost, WorkerWaits, InHand, ToldOrUnderway,
                Settled, FreeDispatcher, NoStatus
<1>4. ~Reload /\ ~Crash
  BY DEF Reload, Crash, Calm
<1>5. CASE Environment
  <2>1. \A id \in AlertIds : ~DelayElapses(id)
    BY DEF DelayElapses, CalmInv, NothingLost
  <2>2. UNCHANGED <<running, worker, dispatcher, unrecorded, monitorState, alertState, lastId, alerts>>
    BY <1>5, <2>1 DEF Environment, ToggleMaintenance, ToggleObserver, daemon, store
  <2>3. QED
    BY <2>2, CalmQuiet
<1>6. CASE UNCHANGED vars
  BY <1>6, CalmQuiet DEF vars, daemon, store
<1>7. QED
  BY <1>1, <1>2, <1>3, <1>4, <1>5, <1>6 DEF Next

\* The invariant of the undisturbed daemon.
THEOREM CalmInvariant == Calm /\ Spec => []CalmInv
<1>1. Init => HandInv
  BY DEF Init, HandInv, FreeDispatcher
<1>2. Inv /\ HandInv /\ [Next]_vars => HandInv'
  BY HandNext
<1> SUFFICES ASSUME Calm PROVE Spec => []CalmInv
  OBVIOUS
<1>3. Inv /\ TablesInv /\ HandInv /\ CalmInv /\ [Next]_vars => CalmInv'
  BY CalmNext
<1>4. QED
  BY <1>1, <1>2, <1>3, CalmInit, Invariant, TablesInvariant, PTL DEF Spec

\* While messages are immediate and nothing fails, a message in hand announces
\* the stored status: the worker that could change it waits.
THEOREM InFlightIsTrue == Calm /\ Spec => []InFlightIsCurrent
<1>1. Inv /\ CalmInv => InFlightIsCurrent
  BY DEF Inv, DispatcherInv, CalmInv, WorkerWaits, Undelivered, InFlightIsCurrent
<1>2. QED
  BY <1>1, Invariant, CalmInvariant, PTL

\* While messages are immediate and nothing fails, recipients who were told the
\* opposite of the stored status have a message underway.
THEOREM TransitionsAreTold == Calm /\ Spec => []NoTransitionUntold
<1>1. CalmInv => NoTransitionUntold
  BY DEF CalmInv, ToldOrUnderway, Settled, OpenOutage, Undelivered, Underway,
         NoTransitionUntold, Transition
<1>2. QED
  BY <1>1, CalmInvariant, PTL

=============================================================================
