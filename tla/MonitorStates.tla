--------------------------- MODULE MonitorStates ---------------------------
(***************************************************************************)
(* The state a monitor is stored in, and the pure functions that compute   *)
(* the next one from a probe result:                                       *)
(*   - Evaluate            internal/monitor/transition.go                  *)
(*   - MaintenanceState    internal/app/runner.go, maintenanceState        *)
(*   - EvaluateProbe       internal/app/runner.go, the tail of probe       *)
(* Names, URLs, times and error texts are left out: no decision depends    *)
(* on them.                                                                *)
(***************************************************************************)
EXTENDS Integers

CONSTANT
    MaxFailures     \* where the count of consecutive failures saturates

ASSUME MaxFailuresAssumption == MaxFailures \in Nat \ {0}

-----------------------------------------------------------------------------

\* What the column monitor_states.status holds; NoStatus is a missing row.
NoStatus == ""
Status == {"UNKNOWN", "UP", "FAILING", "DOWN", "MAINTENANCE"}

Transition == {"UP", "DOWN"}
NoIncident == ""

MonitorRow ==
    [status   : Status \cup {NoStatus},
     before   : (Status \ {"MAINTENANCE"}) \cup {NoStatus},
     failures : 0 .. MaxFailures]

NoRow == [status |-> NoStatus, before |-> NoStatus, failures |-> 0]

Exists(row) == row.status # NoStatus

\* What probe works on: a monitor without a row is taken as UNKNOWN.
Previous(row) == IF Exists(row) THEN row ELSE [row EXCEPT !.status = "UNKNOWN"]

\* The decisions only compare the count with thresholds of at most MaxFailures.
Saturated(n) == IF n > MaxFailures THEN MaxFailures ELSE n

-----------------------------------------------------------------------------

\* A recovery is an incident only for a monitor that was DOWN; a failure is one
\* only when it takes the count to the threshold of a monitor that was not.
Evaluate(prev, ok, threshold) ==
    LET failures == IF ok THEN 0 ELSE Saturated(prev.failures + 1)
        goesDown == ~ok /\ prev.status # "DOWN" /\ failures >= threshold
    IN  [status   |-> IF ok THEN "UP"
                      ELSE IF goesDown \/ prev.status = "DOWN" THEN "DOWN"
                      ELSE "FAILING",
         failures |-> failures,
         incident |-> IF goesDown THEN "DOWN"
                      ELSE IF ok /\ prev.status = "DOWN" THEN "UP"
                      ELSE NoIncident]

\* Faulty variant: a second probe inside the window overwrites the status before it.
MaintenanceStateOverwriting(prev) ==
    [status |-> "MAINTENANCE", before |-> prev.status, failures |-> 0]

\* The state saved for a probe inside a maintenance window.
MaintenanceState(prev) ==
    [status   |-> "MAINTENANCE",
     before   |-> IF prev.status = "MAINTENANCE" THEN prev.before ELSE prev.status,
     failures |-> 0]

\* Faulty variant: an outage that was open before maintenance is forgotten.
EvaluateForgettingOutage(prev, ok, threshold) ==
    Evaluate(prev, ok, IF prev.status = "MAINTENANCE" /\ ~ok THEN 1 ELSE threshold)

\* The first probe after maintenance continues from the status before it: a
\* success closes an outage that was open then, and one failure is enough to
\* go DOWN.
EvaluateProbe(prev, ok, threshold) ==
    LET leaving == prev.status = "MAINTENANCE"
    IN  Evaluate(IF leaving /\ ok /\ prev.before = "DOWN"
                 THEN [prev EXCEPT !.status = "DOWN"] ELSE prev,
                 ok,
                 IF leaving /\ ~ok THEN 1 ELSE threshold)

Evaluated(prev, ok, threshold) ==
    LET e == EvaluateProbe(prev, ok, threshold)
    IN  [status |-> e.status, before |-> NoStatus, failures |-> e.failures]

\* What a probe may lead to.  With the observer DOWN a failure is only recorded;
\* a probe inside a maintenance window stops there; and a failure while the
\* transfer guard is degraded is only recorded, too.
KindOfProbe(ok, observerStatus, inMaintenance, guardDegraded) ==
    IF ~ok /\ observerStatus = "OBSERVER_DOWN" THEN "suppressed"
    ELSE IF inMaintenance THEN "maintenance"
    ELSE IF ~ok /\ guardDegraded THEN "suppressed"
    ELSE "evaluate"

\* The status an alert baseline is taken from: maintenance is looked through.
StatusOutsideMaintenance(row) ==
    IF row.status = "MAINTENANCE" /\ row.before # NoStatus THEN row.before
    ELSE IF Exists(row) THEN row.status
    ELSE "UNKNOWN"

=============================================================================
