-------------------------- MODULE MCConnectivity --------------------------
(* Small instances of Connectivity for TLC. *)
EXTENDS Connectivity

CONSTANT shop   \* a monitor ID

OneMonitor == {shop}

\* The row and the guard do not read each other, so each is driven on its own.
RowAndGuard ==
    {{"outage", "disable", "reload", "crash", "store_error"},
     {"transfer", "reload", "disable", "crash", "store_error"}}

OutageAndDisable == {{"outage", "disable"}}
=============================================================================
