-------------------------- MODULE ObserverStates --------------------------
(***************************************************************************)
(* The observer's row and the function that computes the next one:         *)
(* Evaluate of internal/observer/observer.go.  Times and the text of the   *)
(* error are left out; failed says that last_error is not empty.           *)
(***************************************************************************)
EXTENDS Integers

CONSTANTS
    FailureThreshold,   \* observer.failure_threshold
    RecoveryThreshold   \* observer.recovery_threshold

ASSUME ObserverThresholdsAssumption ==
    FailureThreshold \in Nat \ {0} /\ RecoveryThreshold \in Nat \ {0}

-----------------------------------------------------------------------------

\* observer_state; known is FALSE while there is no row.
ObserverRow ==
    [known     : BOOLEAN,
     status    : {"UP", "DOWN"},
     failures  : Nat,
     successes : Nat,
     failed    : BOOLEAN]

NoObserver ==
    [known |-> FALSE, status |-> "UP", failures |-> 0, successes |-> 0, failed |-> FALSE]

\* The row with these counts: the observer goes DOWN or UP when one of them is
\* full.
Counted(previous, healthy, failures, successes) ==
    LET goesDown == previous.status = "UP" /\ failures >= FailureThreshold
        goesUp   == previous.status = "DOWN" /\ successes >= RecoveryThreshold
    IN  [known     |-> TRUE,
         status    |-> IF goesDown THEN "DOWN" ELSE IF goesUp THEN "UP" ELSE previous.status,
         failures  |-> failures,
         successes |-> successes,
         failed    |-> ~healthy]

\* Faulty variant: a success does not end a streak of failures.
EvaluateCumulative(previous, healthy) ==
    Counted(previous, healthy,
            IF healthy THEN previous.failures ELSE previous.failures + 1,
            IF healthy THEN previous.successes + 1 ELSE 0)

\* The observer is taken to be UP until FailureThreshold checks in a row have
\* missed the quorum, and then DOWN until RecoveryThreshold in a row meet it.
Evaluate(previous, healthy) ==
    Counted(previous, healthy,
            IF healthy THEN 0 ELSE previous.failures + 1,
            IF healthy THEN previous.successes + 1 ELSE 0)

\* Faulty variant: every check that finds the observer DOWN is an incident.
IncidentRepeated(previous, next) ==
    IF next.status = "DOWN" \/ previous.status = "DOWN" THEN <<next.status>> ELSE <<>>

\* A transition is an incident.
Incident(previous, next) == IF previous.status = next.status THEN <<>> ELSE <<next.status>>

=============================================================================
