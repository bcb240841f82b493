------------------------ MODULE MCConnectivityRollups ------------------------
(***************************************************************************)
(* Small instances of Connectivity and of Rollups for TLC, one at a time,  *)
(* for they share no state: what checks and samples of the connection, and *)
(* what probe results become.                                              *)
(***************************************************************************)
EXTENDS MCConnectivity, Rollups

VARIABLE part

BothBackends == {"sqlite", "postgres"}
Policy(r, m, h, d) == ("raw" :> r) @@ ("minute" :> m) @@ ("hour" :> h) @@ ("day" :> d)

\* The order of the defaults, a long raw retention and no days, short and endless.
TwoPolicies == {Policy(2, 3, 4, Forever), Policy(3, 1, 2, 5)}
ManyOutcomes == {"ok", "failed", "maintenance_failed"}

\* The part that is not taken stays in one of its initial states.
PartInit ==
    /\ part \in {"connectivity", "rollups"}
    /\ Init /\ RollupInit
    /\ part # "connectivity" => "outage" \in events
    /\ part # "rollups" => backend = "sqlite" /\ policy["day"] = Forever

PartNext ==
    /\ UNCHANGED part
    /\ \/ part = "connectivity" /\ Next /\ UNCHANGED rollupVars
       \/ part = "rollups" /\ RollupNext /\ UNCHANGED vars

PartSpec == PartInit /\ [][PartNext]_<<part, vars, rollupVars>>

=============================================================================
