------------------------ MODULE MCMonitorAlertsParts ------------------------
(***************************************************************************)
(* Two small instances of MonitorAlerts for TLC, one at a time: messages   *)
(* without a delay, and delayed recoveries, which are settled in the end   *)
(* under the fairness of the ticker and the goroutines.                    *)
(***************************************************************************)
EXTENDS MCMonitorAlerts

VARIABLES
    part,
    \* The state of the second instance, in the order of MonitorAlerts.
    running2, configured2, threshold2, worker2, dispatcher2, unrecorded2,
    monitorState2, alertState2, lastId2, alerts2, maintained2, observer2

Delays == INSTANCE MonitorAlerts WITH
    Monitors <- OneMonitor,
    Delayed <- {"UP"},
    Events <- {"store_error", "reload"},
    MaxAlerts <- 2,
    running <- running2, configured <- configured2, threshold <- threshold2,
    worker <- worker2, dispatcher <- dispatcher2, unrecorded <- unrecorded2,
    monitorState <- monitorState2, alertState <- alertState2,
    lastId <- lastId2, alerts <- alerts2,
    maintained <- maintained2, observer <- observer2

delayVars ==
    <<running2, configured2, threshold2, worker2, dispatcher2, unrecorded2,
      monitorState2, alertState2, lastId2, alerts2, maintained2, observer2>>

\* The part that is not taken stays in its initial state.
PartInit == part \in {"immediate", "delays"} /\ Init /\ Delays!Init

PartNext ==
    /\ UNCHANGED part
    /\ \/ part = "immediate" /\ Next /\ UNCHANGED delayVars
       \/ part = "delays" /\ Delays!Next /\ UNCHANGED vars

\* The fairness of MonitorAlerts for the second part.  While the first is taken
\* none of its fair actions is enabled: its daemon is not running.
PartSpec == PartInit /\ [][PartNext]_<<part, vars, delayVars>> /\ Delays!Fairness

\* Every queued message is delivered or cancelled in the end: none is stuck
\* between the tables, the ticker and the workers that contend for the mutex.
DelayedIsSettled == part = "delays" => Delays!QueuedIsSettled

=============================================================================
