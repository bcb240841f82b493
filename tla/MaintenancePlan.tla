-------------------------- MODULE MaintenancePlan --------------------------
(***************************************************************************)
(* Maintenance windows as operators plan them, with commands on the host   *)
(* or through the control API: a window is added after a look for one that *)
(* overlaps, in two statements without a transaction, so that commands of  *)
(* two operators interleave.                                               *)
(***************************************************************************)
EXTENDS Integers, Sequences

CONSTANTS
    Planners,
    Watched,        \* the monitors
    MaxTime,        \* bound on the times planned for
    MaxPlanned,     \* bound on the number of windows
    NoMonitor

ASSUME MaintenancePlanAssumption ==
    MaxTime \in Nat /\ MaxPlanned \in Nat /\ NoMonitor \notin Watched

VARIABLES
    plan,       \* maintenance_windows: the one with ID i is plan[i]
    planners,   \* what the commands are doing
    known       \* the monitors in monitor_states

planVars == <<plan, planners, known>>

Spans == {span \in [start : 0 .. MaxTime, end : 0 .. MaxTime] : span.start < span.end}

\* after is the last ID that was there when the command looked for an overlap.
Window(monitor, span, planner, after) ==
    [monitor |-> monitor, span |-> span, by |-> planner, after |-> after, cancelled |-> FALSE]

\* todo lists the monitors that the command has not come to, and looked is the one it
\* has found no overlap for.
Planless == [todo |-> <<>>, span |-> [start |-> 0, end |-> 0], looked |-> NoMonitor, after |-> 0]

Overlap(a, b) == a.start < b.end /\ a.end > b.start

Planned(monitor, span) ==
    {i \in DOMAIN plan : /\ plan[i].monitor = monitor
                         /\ ~plan[i].cancelled
                         /\ Overlap(plan[i].span, span)}

-----------------------------------------------------------------------------
(* runMaintenanceAdd, addMaintenance, AddMaintenanceWindow *)

BeginAdd(p) ==
    /\ planners[p] = Planless
    /\ \E n \in 1 .. 2 : \E monitors \in [1 .. n -> Watched], span \in Spans :
          planners' = [planners EXCEPT ![p] = [Planless EXCEPT !.todo = monitors, !.span = span]]
    /\ UNCHANGED <<plan, known>>

\* Faulty variant: only a window that is under way when the new one starts is found.
InTheWayAtStart(monitor, span) ==
    {i \in Planned(monitor, span) : plan[i].span.start <= span.start}

InTheWay(monitor, span) == Planned(monitor, span)

\* A monitor that is unknown, or has such a window, is left out.
LookForOverlap(p) ==
    LET job == planners[p]
        monitor == Head(job.todo)
    IN  /\ job.looked = NoMonitor
        /\ job.todo # <<>>
        /\ planners' = [planners EXCEPT ![p] =
              IF monitor \notin known \/ InTheWay(monitor, job.span) # {}
              THEN IF Len(job.todo) = 1 THEN Planless ELSE [job EXCEPT !.todo = Tail(@)]
              ELSE [job EXCEPT !.todo = Tail(@), !.looked = monitor, !.after = Len(plan)]]
        /\ UNCHANGED <<plan, known>>

InsertWindow(p) ==
    LET job == planners[p]
    IN  /\ job.looked # NoMonitor
        /\ Len(plan) < MaxPlanned
        /\ plan' = Append(plan, Window(job.looked, job.span, p, job.after))
        /\ planners' = [planners EXCEPT ![p] =
              IF job.todo = <<>> THEN Planless ELSE [job EXCEPT !.looked = NoMonitor, !.after = 0]]
        /\ UNCHANGED known

\* A command is killed, or its statement fails.
AbandonAdd(p) ==
    /\ planners[p] # Planless
    /\ planners' = [planners EXCEPT ![p] = Planless]
    /\ UNCHANGED <<plan, known>>

\* CancelMaintenanceWindow, in one statement.
Cancel(i) ==
    /\ ~plan[i].cancelled
    /\ plan' = [plan EXCEPT ![i].cancelled = TRUE]
    /\ UNCHANGED <<planners, known>>

\* The daemon has probed a monitor for the first time, or removes one.
KnownChanges ==
    /\ \E monitor \in Watched :
          known' = IF monitor \in known THEN known \ {monitor} ELSE known \cup {monitor}
    /\ UNCHANGED <<plan, planners>>

-----------------------------------------------------------------------------

PlanTypeOK ==
    /\ plan \in Seq([monitor : Watched, span : Spans, by : Planners, after : 0 .. MaxPlanned,
                     cancelled : BOOLEAN])
    /\ \A p \in Planners :
          /\ planners[p].todo \in Seq(Watched)
          /\ planners[p] = Planless \/ planners[p].span \in Spans
          /\ planners[p].looked \in Watched \cup {NoMonitor}
          /\ planners[p].after \in 0 .. Len(plan)
    /\ known \subseteq Watched

PlanInit ==
    /\ plan = <<>>
    /\ planners = [p \in Planners |-> Planless]
    /\ known = Watched

PlanNext ==
    \/ \E p \in Planners : BeginAdd(p) \/ LookForOverlap(p) \/ InsertWindow(p) \/ AbandonAdd(p)
    \/ \E i \in DOMAIN plan : Cancel(i)
    \/ KnownChanges

\* The commands on their own.
PlanSpec == PlanInit /\ [][PlanNext]_planVars

-----------------------------------------------------------------------------
(* Properties *)

\* Windows of a monitor that are not cancelled overlap only if two operators added them
\* at once: the later one was looked for before the earlier one was there
\* (AddMaintenanceWindow).
OverlapIsRaced ==
    \A i, j \in DOMAIN plan :
        i < j /\ i \in Planned(plan[j].monitor, plan[j].span) /\ ~plan[j].cancelled
            => plan[i].by # plan[j].by /\ plan[j].after < i

=============================================================================
