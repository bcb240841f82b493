---------------------------- MODULE AtomicStore ----------------------------
(***************************************************************************)
(* What a store promises to the daemon and to commands: each operation on  *)
(* the tables of a monitor happens at once, whatever else is going on.     *)
(* The other modules take it for granted.                                  *)
(***************************************************************************)
EXTENDS MonitorStates, Sequences, SequencesExt

CONSTANT Threshold      \* failures in a row until the monitor is DOWN

(* The tables of one monitor:                                              *)
(*   state       its row of monitor_states                                 *)
(*   probes      the reportable ones of probe_results                          *)
(*   intervals   the statuses of monitor_status_intervals; the last is open *)
(*   backfilled  monitor_status_interval_backfills has a row               *)
(*   alerts      pending_monitor_alerts in order of their IDs              *)
(*   notified    last_notified_status of monitor_alert_states              *)

Alert == [transition : Transition, status : {"pending", "sending", "delivered", "cancelled"}]

Tables ==
    [state : MonitorRow, probes : Seq(BOOLEAN), intervals : Seq(Status),
     backfilled : BOOLEAN, alerts : Seq(Alert), notified : Status \cup {NoStatus}]

\* One probe more: it joins the run of those before it while the outcome is the same.
ExtendRuns(runs, ok) ==
    IF runs # <<>> /\ Last(runs).ok = ok
    THEN [runs EXCEPT ![Len(runs)].count = @ + 1]
    ELSE Append(runs, [ok |-> ok, count |-> 1])

\* The status intervals of some probes: a run of failures is DOWN if it is long enough.
IntervalsOf(probes) ==
    LET runs == FoldLeft(ExtendRuns, <<>>, probes)
    IN  [i \in DOMAIN runs |->
            IF runs[i].ok THEN "UP"
            ELSE IF runs[i].count >= Threshold THEN "DOWN" ELSE "FAILING"]

\* saveStatusInterval
WithInterval(intervals, status) ==
    IF status = "MAINTENANCE" \/ (intervals # <<>> /\ Last(intervals) = status)
    THEN intervals ELSE Append(intervals, status)

Stale(alert, keep) == alert.status = "pending" /\ alert.transition # keep

WithoutStale(alerts, keep) ==
    [id \in DOMAIN alerts |->
        IF Stale(alerts[id], keep) THEN [alerts[id] EXCEPT !.status = "cancelled"] ELSE alerts[id]]

Queued(transition) == [transition |-> transition, status |-> "pending"]

\* A check inside a maintenance window is not reportable.
WithProbe(probes, op) == IF op.next.status = "MAINTENANCE" THEN probes ELSE Append(probes, op.ok)

Save(t, op) ==
    LET baseline == IF t.notified = NoStatus THEN StatusOutsideMaintenance(t.state) ELSE t.notified
        cancelled == WithoutStale(t.alerts, op.next.status)
        saved == [t EXCEPT !.state = op.next, !.probes = WithProbe(@, op),
                           !.intervals = WithInterval(@, op.next.status),
                           !.alerts = cancelled]
    IN  IF ~op.incident THEN saved
        ELSE [saved EXCEPT !.notified = baseline,
                           !.alerts = WithoutStale(cancelled, NoIncident)
                                      \o IF op.next.status = baseline THEN <<>>
                                         ELSE <<Queued(op.next.status)>>]

Delete(t) ==
    [t EXCEPT !.state = NoRow, !.notified = NoStatus, !.alerts = WithoutStale(@, NoIncident)]

Record(t, id) ==
    IF t.alerts[id].status # "sending" THEN t
    ELSE [t EXCEPT !.alerts[id].status = "delivered", !.notified = t.alerts[id].transition]

Backfill(t) ==
    IF t.backfilled THEN t
    ELSE [t EXCEPT !.intervals = IntervalsOf(t.probes), !.backfilled = TRUE]

\* Operations of more than one statement.
Apply(t, op) ==
    CASE op.name = "save" -> Save(t, op)
      [] op.name = "delete" -> Delete(t)
      [] op.name = "record" -> Record(t, op.alert)
      [] op.name = "backfill" -> Backfill(t)

=============================================================================
