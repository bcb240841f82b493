--------------------------- MODULE AlertDelivery ---------------------------
(***************************************************************************)
(* What upag promises about telling an incident through a provider: a      *)
(* failed attempt is repeated until one succeeds or the daemon gives up,   *)
(* and that is the end of it.                                              *)
(***************************************************************************)

CONSTANTS
    Incidents,      \* IDs of incidents
    Providers       \* names of alert providers

VARIABLE delivery   \* how far the telling of an incident by a provider has come

Settled == {"told", "given_up"}

TypeOK == delivery \in [Incidents \X Providers -> {"unsent", "retrying"} \cup Settled]

Init == delivery = [d \in Incidents \X Providers |-> "unsent"]

\* A pair comes this far, all at once with others of its incident.
Attempt(i) ==
    \E p \in SUBSET Providers :
        \E outcome \in [p -> {"retrying"} \cup Settled] :
            /\ \A x \in p : delivery[<<i, x>>] = "unsent"
            /\ delivery' = [d \in Incidents \X Providers |->
                               IF d[1] = i /\ d[2] \in p THEN outcome[d[2]] ELSE delivery[d]]

Settle(i, p) ==
    /\ delivery[<<i, p>>] = "retrying"
    /\ \E end \in Settled : delivery' = [delivery EXCEPT ![<<i, p>>] = end]

Next == \E i \in Incidents : Attempt(i) \/ \E p \in Providers : Settle(i, p)

Spec == Init /\ [][Next]_delivery
=============================================================================
