-------------------------- MODULE MCMonitorAlerts --------------------------
(* Small instances of MonitorAlerts for TLC. *)
EXTENDS MonitorAlerts

CONSTANTS home, shop    \* monitor IDs

OneMonitor == {home}
TwoMonitors == {home, shop}

NoDelay == {}
BothDelayed == {"UP", "DOWN"}

JustOne == {1}
OneThreshold == {2}
TwoThresholds == {1, 2}

NoEvents == {}
AllEvents == EventKind
OnlyProbing == {"maintenance", "observer"}
=============================================================================
