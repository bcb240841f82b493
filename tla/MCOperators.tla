---------------------------- MODULE MCOperators ----------------------------
(***************************************************************************)
(* What operators and the processes they start do to one another: the      *)
(* commands of one part are taken at a time, for they share no state.      *)
(***************************************************************************)
EXTENDS SchemaMigrations, DaemonControl, MaintenancePlan, StorageMigration, TLC

CONSTANTS p, q, a, b

VARIABLE part

vars == <<schemaVars, controlVars, planVars, moveVars, part>>

Two == {p, q}
TwoOthers == {a, b}
OneMonitor == {"m"}
OneAdder == {"d"}
Pages ==
    {[port |-> NoPort, tenant |-> "a"], [port |-> 1, tenant |-> "a"], [port |-> 1, tenant |-> "b"]}

Symmetric == Permutations(Two) \cup Permutations(TwoOthers)

\* The parts that are not taken stay in one of their initial states.
Init ==
    /\ part \in {"schema", "control", "plan", "move", "two moves"}
    /\ SchemaInit /\ ControlInit /\ PlanInit /\ MoveInit
    /\ part # "schema" => backend = "sqlite" /\ database = RecordedUpTo("sqlite", 0)
    /\ part # "control" => pidFile = NoFile /\ file = [port |-> 1, tenant |-> "a"]
    /\ part \notin {"move", "two moves"} => source["incidents"] = {}

\* A migration while the daemons use both stores.
MoveBesideDaemons == MoveNext /\ Cardinality({m \in Movers : movers'[m] # Away}) <= 1

\* Two migrations while the daemon uses the source.
TwoMoves == MoveNext /\ UNCHANGED adders

Next ==
    /\ UNCHANGED part
    /\ \/ part = "schema" /\ SchemaNext /\ UNCHANGED <<controlVars, planVars, moveVars>>
       \/ part = "control" /\ ControlNext /\ UNCHANGED <<schemaVars, planVars, moveVars>>
       \/ part = "plan" /\ PlanNext /\ UNCHANGED <<schemaVars, controlVars, moveVars>>
       \/ part = "move" /\ MoveBesideDaemons /\ UNCHANGED <<schemaVars, controlVars, planVars>>
       \/ part = "two moves" /\ TwoMoves /\ UNCHANGED <<schemaVars, controlVars, planVars>>

Spec == Init /\ [][Next]_vars

\* The values of the variables of all parts are well-formed.
TypeOK == SchemaTypeOK /\ ControlTypeOK /\ PlanTypeOK /\ MoveTypeOK

=============================================================================
