-------------------------- MODULE CommandsProofs --------------------------
(***************************************************************************)
(* What commands do to one store at once: they plan maintenance windows,   *)
(* migrate its rows to PostgreSQL, and bring its schema up to date when    *)
(* they open it; and what they do to the daemon: the PID file names it,    *)
(* and no reload is lost.  For any number of commands, processes, writes   *)
(* and edits in between.                                                   *)
(*                                                                         *)
(* OverlapIsRaced is not inductive.  A window is inserted without another  *)
(* look, so the proof needs what a command knows that has looked: the      *)
(* windows there were then are not in its way, and those that came since   *)
(* are of others (Searched).                                               *)
(*                                                                         *)
(* Nor is MigrationIsWhole: it is about a migration that has been          *)
(* committed. Before, as long as the source has not changed, it has the    *)
(* rows of the tables copied (HasCopied). And as long as a sequence was    *)
(* not set to less than an ID under way, it is ahead of the IDs of every   *)
(* transaction on the target, and of those that a migration is about to    *)
(* commit that has set it (SequencesAreAhead).                             *)
(*                                                                         *)
(* OpenedStoreIsCurrent follows from what is there once the first n        *)
(* migrations are recorded (UpTo), which each migration goes on with, and  *)
(* from what a process knows of those that others may have applied         *)
(* meanwhile (OpenerKnows). That the databases of earlier versions are up  *)
(* to what they have recorded is a proof over a fold: FoldLeft is expanded *)
(* to its recursive function, which exists (SchemaFoldExists) and leads    *)
(* from each schema to the next (SchemaAfterEach).                         *)
(*                                                                         *)
(* DaemonIsNamed is about the time between commands. In the middle of one  *)
(* the proof needs what the command knows: that a daemon it started is     *)
(* about to be named, that the file is not there any more, or that no      *)
(* daemon is (Named). ReloadIsApplied needs what was loaded last, and why  *)
(* a port that a reload asks for is free (Follows, Serves).                *)
(***************************************************************************)
EXTENDS DaemonControl, MaintenancePlan, SchemaMigrations, StorageMigration, FoldLemmas

-----------------------------------------------------------------------------
(* Maintenance windows *)

\* The parts of the state.
SpanType == [start : Nat, end : Nat]

WindowType ==
    [monitor : Watched, span : SpanType, by : Planners, after : Nat, cancelled : BOOLEAN]

JobType ==
    [todo : Seq(Watched), span : SpanType, looked : Watched \cup {NoMonitor}, after : Nat]

\* PlanTypeOK without the bounds.
PlanIsTyped ==
    /\ plan \in Seq(WindowType)
    /\ planners \in [Planners -> JobType]

\* What a command knows that has looked for windows in its way.
SearchedBy(p) ==
    planners[p].looked # NoMonitor =>
        \A i \in DOMAIN plan :
            /\ i <= planners[p].after => i \notin Planned(planners[p].looked, planners[p].span)
            /\ i > planners[p].after => plan[i].by # p

\* They have looked at a plan that has only grown since.
Searched == \A p \in Planners : planners[p].after <= Len(plan) /\ SearchedBy(p)

\* The inductive invariant.
PlanInv == PlanIsTyped /\ Searched /\ OverlapIsRaced

-----------------------------------------------------------------------------

\* A command that does not plan.
LEMMA PlanlessType == Planless \in JobType
<1>1. <<>> \in Seq(Watched)
  OBVIOUS
<1> QED
  BY <1>1 DEF Planless, JobType, SpanType

\* There are no windows at first.
LEMMA PlanInitKeeps == PlanInit => PlanInv
<1> SUFFICES ASSUME PlanInit PROVE PlanInv
  OBVIOUS
<1>1. PlanIsTyped
  <2>1. plan \in Seq(WindowType)
    BY DEF PlanInit
  <2> QED
    BY <2>1, PlanlessType DEF PlanInit, PlanIsTyped
<1>2. Searched
  <2>1. plan = <<>> /\ Len(plan) = 0 /\ DOMAIN plan = {}
    BY DEF PlanInit
  <2>2. Planless.looked = NoMonitor /\ Planless.after = 0
    BY DEF Planless
  <2>3. \A p \in Planners : planners[p] = Planless
    BY DEF PlanInit
  <2> SUFFICES ASSUME NEW p \in Planners
               PROVE  planners[p].after <= Len(plan) /\ SearchedBy(p)
    BY DEF Searched
  <2>4. planners[p].looked = NoMonitor /\ planners[p].after = 0
    BY <2>2, <2>3
  <2>5. SearchedBy(p)
    BY <2>4 DEF SearchedBy
  <2> QED
    BY <2>1, <2>4, <2>5
<1>3. OverlapIsRaced
  BY DEF PlanInit, OverlapIsRaced
<1> QED
  BY <1>1, <1>2, <1>3 DEF PlanInv

\* A step that changes one command and leaves the plan alone keeps the invariant
\* if that command is as it should be.
LEMMA OneCommand ==
    ASSUME PlanInv, NEW p \in Planners, NEW job \in JobType,
           planners' = [planners EXCEPT ![p] = job], UNCHANGED plan,
           job.after <= Len(plan),
           job.looked # NoMonitor =>
               \A i \in DOMAIN plan :
                   /\ i <= job.after => i \notin Planned(job.looked, job.span)
                   /\ i > job.after => plan[i].by # p
    PROVE  PlanInv'
<1>1. PlanIsTyped'
  BY DEF PlanInv, PlanIsTyped
<1>2. Searched'
  <2> SUFFICES ASSUME NEW q \in Planners
               PROVE  planners'[q].after <= Len(plan') /\ SearchedBy(q)'
    BY DEF Searched
  <2>1. CASE q = p
    <3>1. planners'[q] = job
      BY <2>1 DEF PlanInv, PlanIsTyped
    <3> QED
      BY <2>1, <3>1 DEF SearchedBy, Planned
  <2>2. CASE q # p
    <3>1. planners'[q] = planners[q]
      BY <2>2 DEF PlanInv, PlanIsTyped
    <3> QED
      BY <3>1 DEF PlanInv, Searched, SearchedBy, Planned
  <2> QED
    BY <2>1, <2>2
<1>3. OverlapIsRaced'
  BY DEF PlanInv, OverlapIsRaced, Planned
<1> QED
  BY <1>1, <1>2, <1>3 DEF PlanInv

\* A new window: the ones that were there when the command looked do not overlap
\* it, and the others are not its own.
LEMMA InsertKeeps ==
    ASSUME PlanInv, NEW p \in Planners, InsertWindow(p)
    PROVE  PlanInv'
<1> DEFINE job == planners[p]
           new == Window(job.looked, job.span, p, job.after)
           n == Len(plan)
           next == IF job.todo = <<>> THEN Planless
                   ELSE [job EXCEPT !.looked = NoMonitor, !.after = 0]
<1>1. /\ n \in Nat /\ plan \in Seq(WindowType)
      /\ job \in JobType /\ job.after \in 0 .. n /\ job.looked \in Watched
      /\ plan' = Append(plan, new)
      /\ planners' = [planners EXCEPT ![p] = next]
  BY DEF PlanInv, PlanIsTyped, Searched, InsertWindow, JobType
<1>2. new \in WindowType
  BY <1>1 DEF Window, WindowType, JobType
<1>3. /\ new.by = p /\ new.after = job.after /\ new.monitor = job.looked
      /\ new.span = job.span
  BY DEF Window
<1>4. next \in JobType /\ next.looked = NoMonitor /\ next.after = 0
  BY <1>1, PlanlessType DEF Planless, JobType
<1>5. /\ plan' \in Seq(WindowType) /\ Len(plan') = n + 1 /\ plan'[n + 1] = new
      /\ \A i \in 1 .. n : plan'[i] = plan[i]
  <2> HIDE DEF new
  <2> QED
    BY <1>1, <1>2
<1>6. PlanIsTyped'
  <2> HIDE DEF next
  <2> QED
    BY <1>1, <1>4, <1>5 DEF PlanInv, PlanIsTyped
<1>7. Searched'
  <2> SUFFICES ASSUME NEW q \in Planners
               PROVE  planners'[q].after <= Len(plan') /\ SearchedBy(q)'
    BY DEF Searched
  <2>1. CASE q = p
    <3> HIDE DEF next
    <3>1. planners'[q] = next
      BY <2>1, <1>1 DEF PlanInv, PlanIsTyped
    <3> QED
      BY <3>1, <1>1, <1>4, <1>5 DEF SearchedBy
  <2>2. CASE q # p
    <3> HIDE DEF next, new
    <3>1. planners'[q] = planners[q] /\ planners[q] \in JobType
      BY <2>2, <1>1 DEF PlanInv, PlanIsTyped
    <3>2. planners[q].after \in Nat /\ planners[q].after <= n /\ SearchedBy(q)
      BY <3>1 DEF PlanInv, Searched, JobType
    <3>3. ASSUME planners[q].looked # NoMonitor, NEW i \in DOMAIN plan'
          PROVE  /\ i <= planners[q].after =>
                        i \notin Planned(planners[q].looked, planners[q].span)'
                 /\ i > planners[q].after => plan'[i].by # q
      <4>1. CASE i = n + 1
        BY <4>1, <3>2, <1>1, <1>3, <1>5, <2>2
      <4>2. CASE i \in 1 .. n
        BY <4>2, <3>1, <3>2, <3>3, <1>1, <1>5 DEF SearchedBy, Planned
      <4> QED
        BY <4>1, <4>2, <1>1, <1>5
    <3> QED
      BY <3>1, <3>2, <3>3, <1>1, <1>5 DEF SearchedBy
  <2> QED
    BY <2>1, <2>2
<1>8. OverlapIsRaced'
  <2> HIDE DEF new, next
  <2> SUFFICES ASSUME NEW i \in DOMAIN plan', NEW j \in DOMAIN plan', i < j,
                      i \in Planned(plan[j].monitor, plan[j].span)', ~plan'[j].cancelled
               PROVE  plan'[i].by # plan'[j].by /\ plan'[j].after < i
    BY DEF OverlapIsRaced
  <2>1. /\ plan'[i].monitor = plan'[j].monitor /\ ~plan'[i].cancelled
        /\ Overlap(plan'[i].span, plan'[j].span)
    BY DEF Planned
  <2>2. i \in 1 .. n /\ plan'[i] = plan[i]
    BY <1>1, <1>5
  <2>3. CASE j = n + 1
    <3>1. i \in Planned(job.looked, job.span)
      BY <2>1, <2>2, <2>3, <1>1, <1>3, <1>5 DEF Planned
    <3>2. ~(i <= job.after) /\ plan[i].by # p
      <4>1. job.looked # NoMonitor
        BY DEF InsertWindow
      <4> QED
        BY <3>1, <2>2, <4>1, <1>1 DEF PlanInv, Searched, SearchedBy
    <3> QED
      BY <3>2, <2>2, <2>3, <1>1, <1>3, <1>5
  <2>4. CASE j \in 1 .. n
    <3>1. plan'[j] = plan[j]
      BY <2>4, <1>5
    <3>2. i \in Planned(plan[j].monitor, plan[j].span)
      BY <2>1, <2>2, <3>1, <1>1 DEF Planned
    <3> QED
      BY <2>2, <2>4, <3>1, <3>2, <1>1 DEF PlanInv, OverlapIsRaced
  <2> QED
    BY <2>3, <2>4, <1>1, <1>5
<1> QED
  BY <1>6, <1>7, <1>8 DEF PlanInv

\* A window that is cancelled is in nobody's way.
LEMMA CancelKeeps ==
    ASSUME PlanInv, NEW c \in DOMAIN plan, Cancel(c)
    PROVE  PlanInv'
<1>1. /\ plan' \in Seq(WindowType) /\ Len(plan') = Len(plan) /\ DOMAIN plan' = DOMAIN plan
      /\ \A i \in DOMAIN plan :
            /\ plan'[i].monitor = plan[i].monitor /\ plan'[i].span = plan[i].span
            /\ plan'[i].by = plan[i].by /\ plan'[i].after = plan[i].after
            /\ plan[i].cancelled => plan'[i].cancelled
  <2> DEFINE gone == [plan[c] EXCEPT !.cancelled = TRUE]
  <2>1. plan \in Seq(WindowType) /\ plan[c] \in WindowType
    BY DEF PlanInv, PlanIsTyped
  <2>2. /\ gone \in WindowType /\ gone.monitor = plan[c].monitor /\ gone.span = plan[c].span
        /\ gone.by = plan[c].by /\ gone.after = plan[c].after /\ gone.cancelled
    BY <2>1 DEF WindowType
  <2>3. plan' = [plan EXCEPT ![c] = gone]
    BY DEF Cancel
  <2> HIDE DEF gone
  <2> QED
    BY <2>1, <2>2, <2>3
<1>2. planners' = planners
  BY DEF Cancel
<1>3. \A monitor, span : Planned(monitor, span)' \subseteq Planned(monitor, span)
  BY <1>1 DEF Planned
<1>4. PlanIsTyped'
  BY <1>1, <1>2 DEF PlanInv, PlanIsTyped
<1>5. Searched'
  BY <1>1, <1>2, <1>3 DEF PlanInv, Searched, SearchedBy
<1>6. OverlapIsRaced'
  BY <1>1, <1>3 DEF PlanInv, OverlapIsRaced
<1> QED
  BY <1>4, <1>5, <1>6 DEF PlanInv

\* Every step keeps the invariant.
LEMMA PlanNextKeeps == PlanInv /\ [PlanNext]_planVars => PlanInv'
<1> SUFFICES ASSUME PlanInv, [PlanNext]_planVars PROVE PlanInv'
  OBVIOUS
<1>1. ASSUME NEW p \in Planners, BeginAdd(p) PROVE PlanInv'
  <2>1. PICK n \in 1 .. 2 : \E monitors \in [1 .. n -> Watched], span \in Spans :
          planners' = [planners EXCEPT ![p] = [Planless EXCEPT !.todo = monitors, !.span = span]]
    BY <1>1 DEF BeginAdd
  <2>2. PICK monitors \in [1 .. n -> Watched], span \in Spans :
          planners' = [planners EXCEPT ![p] = [Planless EXCEPT !.todo = monitors, !.span = span]]
    BY <2>1
  <2> DEFINE job == [Planless EXCEPT !.todo = monitors, !.span = span]
  <2>3. monitors \in Seq(Watched) /\ span \in SpanType
    BY <2>2, MaintenancePlanAssumption DEF Spans, SpanType
  <2>4. job \in JobType /\ job.looked = NoMonitor /\ job.after = 0
    BY <2>3, PlanlessType DEF Planless, JobType
  <2>5. job.after <= Len(plan)
    BY <2>4 DEF PlanInv, PlanIsTyped
  <2> QED
    BY <2>2, <2>4, <2>5, <1>1, OneCommand DEF BeginAdd
<1>2. ASSUME NEW p \in Planners, LookForOverlap(p) PROVE PlanInv'
  <2> DEFINE job == planners[p]
             monitor == Head(job.todo)
             found == [job EXCEPT !.todo = Tail(@), !.looked = monitor, !.after = Len(plan)]
             skipped == [job EXCEPT !.todo = Tail(@)]
  <2>1. /\ job \in JobType /\ job.looked = NoMonitor /\ job.todo # <<>>
        /\ Len(plan) \in Nat /\ job.after <= Len(plan) /\ UNCHANGED plan
    BY <1>2 DEF LookForOverlap, PlanInv, PlanIsTyped, Searched
  <2>2. Tail(job.todo) \in Seq(Watched) /\ monitor \in Watched
    BY <2>1 DEF JobType
  <2>3. CASE planners' = [planners EXCEPT ![p] = Planless]
    <3>1. Planless.looked = NoMonitor /\ Planless.after <= Len(plan)
      BY <2>1 DEF Planless
    <3> QED
      BY <2>1, <2>3, <3>1, PlanlessType, OneCommand
  <2>4. CASE planners' = [planners EXCEPT ![p] = skipped]
    <3>1. skipped \in JobType /\ skipped.looked = NoMonitor /\ skipped.after <= Len(plan)
      BY <2>1, <2>2 DEF JobType
    <3> QED
      BY <2>1, <2>4, <3>1, OneCommand
  <2>5. CASE /\ planners' = [planners EXCEPT ![p] = found]
             /\ InTheWay(monitor, job.span) = {}
    <3>1. /\ found \in JobType /\ found.looked = monitor /\ found.after = Len(plan)
          /\ found.span = job.span
      BY <2>1, <2>2 DEF JobType
    <3>2. \A i \in DOMAIN plan : /\ i <= Len(plan) /\ ~(i > Len(plan))
                                 /\ i \notin Planned(monitor, job.span)
      BY <2>5, <2>1 DEF InTheWay, PlanInv, PlanIsTyped
    <3>3. found.after <= Len(plan) /\ planners' = [planners EXCEPT ![p] = found]
      BY <2>1, <2>5, <3>1
    <3> HIDE DEF found
    <3>4. \A i \in DOMAIN plan :
            /\ i <= found.after => i \notin Planned(found.looked, found.span)
            /\ i > found.after => plan[i].by # p
      <4> HIDE DEF monitor, job
      <4> QED
        BY <3>1, <3>2
    <3> QED
      BY <2>1, <3>1, <3>3, <3>4, OneCommand
  <2>6. \/ planners' = [planners EXCEPT ![p] = Planless]
        \/ planners' = [planners EXCEPT ![p] = skipped]
        \/ /\ planners' = [planners EXCEPT ![p] = found]
           /\ InTheWay(monitor, job.span) = {}
    BY <1>2 DEF LookForOverlap
  <2> QED
    BY <2>3, <2>4, <2>5, <2>6
<1>3. ASSUME NEW p \in Planners, InsertWindow(p) PROVE PlanInv'
  BY <1>3, InsertKeeps
<1>4. ASSUME NEW p \in Planners, AbandonAdd(p) PROVE PlanInv'
  <2>1. Planless.looked = NoMonitor /\ Planless.after <= Len(plan)
    BY DEF Planless, PlanInv, PlanIsTyped
  <2> QED
    BY <1>4, <2>1, PlanlessType, OneCommand DEF AbandonAdd
<1>5. ASSUME NEW c \in DOMAIN plan, Cancel(c) PROVE PlanInv'
  BY <1>5, CancelKeeps
<1>6. CASE KnownChanges \/ UNCHANGED planVars
  <2>1. UNCHANGED <<plan, planners>>
    BY <1>6 DEF KnownChanges, planVars
  <2> QED
    BY <2>1 DEF PlanInv, PlanIsTyped, Searched, SearchedBy, OverlapIsRaced, Planned
<1> QED
  BY <1>1, <1>2, <1>3, <1>4, <1>5, <1>6 DEF PlanNext

\* However many operators plan however many windows, two of one monitor that are both
\* in force overlap only if they were added at once (AddMaintenanceWindow).
THEOREM OverlapsAreRaced == PlanSpec => []OverlapIsRaced
<1>1. PlanSpec => []PlanInv
  BY PlanInitKeeps, PlanNextKeeps, PTL DEF PlanSpec
<1>2. PlanInv => OverlapIsRaced
  BY DEF PlanInv
<1> QED
  BY <1>1, <1>2, PTL

-----------------------------------------------------------------------------
(* storage migrate *)

\* The parts of the state.
RowType == [id : Nat, incident : Nat]

RowsType == [Tables -> SUBSET RowType]

MoverType ==
    [pc : {"away", "copying", "done"}, tenant : Tenants \cup {NoTenant}, rows : RowsType,
     copied : 0 .. Len(CopyOrder), reset : 0 .. Len(ResetOrder), steady : BOOLEAN]

AdderType ==
    [tenant : Tenants \cup {NoTenant}, key : Nat, left : Seq(Tables), drawn : RowsType,
     rows : RowsType]

CommittedType == [id : Nat, incident : Nat, tenant : Tenants \cup {NoTenant}]

\* MoveTypeOK without the bounds.
MoveTyped ==
    /\ source \in RowsType
    /\ target \in [Tables -> SUBSET CommittedType]
    /\ sequences \in [Sequenced -> Nat]
    /\ movers \in [Movers -> MoverType]
    /\ adders \in [Adders -> AdderType]
    /\ overtaken \in SUBSET Sequenced
    /\ written \in Nat

\* A row of the table, here or there or in a transaction, has the ID.
IsTaken(t, id) ==
    \/ \E row \in source[t] : row.id = id
    \/ \E row \in target[t] : row.id = id
    \/ \E m \in Movers : \E row \in movers[m].rows[t] : row.id = id
    \/ \E a \in Adders : \E row \in adders[a].drawn[t] \cup adders[a].rows[t] : row.id = id

\* So there are highest ones.
IdsAreBounded == \E top \in Nat : \A t \in Tables, id \in Nat : IsTaken(t, id) => id <= top

\* What a migration has of a source that has not changed.
HasCopied(m) ==
    /\ movers[m].reset # 0 => movers[m].copied = Len(CopyOrder)
    /\ Uncommitted(m) /\ movers[m].steady =>
          \A i \in 1 .. movers[m].copied : movers[m].rows[CopyOrder[i]] = source[CopyOrder[i]]
    /\ movers[m].pc = "done" /\ movers[m].steady =>
          \A t \in Copied : \A row \in source[t] : OfTenant(row, movers[m].tenant) \in target[t]

HasReset(m, t) == \E i \in 1 .. movers[m].reset : ResetOrder[i] = t

\* The IDs in the target, those of transactions under way, and those that a migration is
\* about to commit after it has set the sequence, were given out.
IsAhead(t) ==
    /\ \A row \in target[t] : row.id <= sequences[t]
    /\ \A a \in Adders : \A row \in adders[a].drawn[t] \cup adders[a].rows[t] :
          row.id <= sequences[t]
    /\ \A m \in Movers :
          HasReset(m, t) => \A row \in movers[m].rows[t] : row.id <= sequences[t]

SequencesAreAhead == \A t \in Sequenced \ overtaken : IsAhead(t)

\* The inductive invariant.
MoveInv ==
    /\ MoveTyped
    /\ IdsAreBounded
    /\ \A m \in Movers : HasCopied(m)
    /\ SequencesAreAhead

-----------------------------------------------------------------------------

\* The tables are copied one after the other.
LEMMA CopyOrderType ==
    /\ Len(CopyOrder) \in Nat
    /\ DOMAIN CopyOrder = 1 .. Len(CopyOrder)
    /\ \A i \in 1 .. Len(CopyOrder) : CopyOrder[i] \in Copied
    /\ \A t \in Copied : \E i \in 1 .. Len(CopyOrder) : CopyOrder[i] = t
    /\ Copied \subseteq Tables
    /\ Len(CopyOrder) # 0
<1>1. Len(CopyOrder) = 16
  BY DEF CopyOrder
<1>2. DOMAIN CopyOrder = 1 .. Len(CopyOrder)
  <2>1. DOMAIN CopyOrder = 1 .. 16
    BY DEF CopyOrder
  <2> QED
    BY <1>1, <2>1
<1>3. Len(CopyOrder) \in Nat /\ Len(CopyOrder) # 0
  BY <1>1
<1>4. Copied \subseteq Tables
  BY DEF Tables
<1> HIDE DEF CopyOrder
<1>5. /\ \A i \in 1 .. Len(CopyOrder) : CopyOrder[i] \in Copied
      /\ \A t \in Copied : \E i \in 1 .. Len(CopyOrder) : CopyOrder[i] = t
  BY <1>2 DEF Copied
<1> QED
  BY <1>2, <1>3, <1>4, <1>5

\* So are the sequences set.
LEMMA ResetOrderType ==
    /\ Len(ResetOrder) \in Nat
    /\ \A i \in 1 .. Len(ResetOrder) : ResetOrder[i] \in Sequenced
    /\ \A t \in Sequenced : \E i \in 1 .. Len(ResetOrder) : ResetOrder[i] = t
<1>1. Len(ResetOrder) = 8
  BY DEF ResetOrder
<1>2. DOMAIN ResetOrder = 1 .. Len(ResetOrder)
  <2>1. DOMAIN ResetOrder = 1 .. 8
    BY DEF ResetOrder
  <2> QED
    BY <1>1, <2>1
<1>3. Len(ResetOrder) \in Nat
  BY <1>1
<1> HIDE DEF ResetOrder
<1> QED
  BY <1>2, <1>3 DEF Sequenced

\* The tables with IDs of their own are among those copied.
LEMMA SequencedTables ==
    Sequenced \subseteq Copied /\ Sequenced \subseteq Tables /\ "incidents" \in Tables
<1>1. /\ 4 \in DOMAIN CopyOrder /\ CopyOrder[4] = "maintenance_windows"
      /\ 5 \in DOMAIN CopyOrder /\ CopyOrder[5] = "probe_results"
      /\ 6 \in DOMAIN CopyOrder /\ CopyOrder[6] = "incidents"
      /\ 7 \in DOMAIN CopyOrder /\ CopyOrder[7] = "connectivity_samples"
      /\ 9 \in DOMAIN CopyOrder /\ CopyOrder[9] = "pending_monitor_alerts"
      /\ 10 \in DOMAIN CopyOrder /\ CopyOrder[10] = "alert_notifications"
      /\ 14 \in DOMAIN CopyOrder /\ CopyOrder[14] = "probe_outcome_runs"
      /\ 15 \in DOMAIN CopyOrder /\ CopyOrder[15] = "monitor_status_intervals"
  BY DEF CopyOrder
<1>2. Sequenced \subseteq {"maintenance_windows", "probe_results", "incidents",
                          "connectivity_samples", "pending_monitor_alerts",
                          "alert_notifications", "probe_outcome_runs",
                          "monitor_status_intervals"}
  BY DEF Sequenced, ResetOrder
<1> HIDE DEF CopyOrder
<1>3. Sequenced \subseteq Copied
  BY <1>1, <1>2 DEF Copied
<1>4. "incidents" \in Copied
  BY <1>1 DEF Copied
<1> QED
  BY <1>3, <1>4 DEF Tables

\* A row of a transaction that is committed.
LEMMA OfTenantFields ==
    ASSUME NEW row, NEW tenant
    PROVE  /\ OfTenant(row, tenant).id = row.id
           /\ row \in RowType /\ tenant \in Tenants \cup {NoTenant} =>
                 OfTenant(row, tenant) \in CommittedType
  BY DEF OfTenant, RowType, CommittedType

\* A migration, and a transaction, that has not begun.
LEMMA AwayFields ==
    /\ Nothing \in RowsType
    /\ \A t \in Tables : Nothing[t] = {}
    /\ Away \in MoverType
    /\ Away.pc = "away" /\ Away.copied = 0 /\ Away.reset = 0
    /\ Away.tenant = NoTenant
    /\ Away.rows = Nothing
    /\ NoTransaction \in AdderType
    /\ NoTransaction.drawn = Nothing
    /\ NoTransaction.rows = Nothing
<1>1. Nothing \in RowsType /\ \A t \in Tables : Nothing[t] = {}
  BY DEF Nothing, RowsType
<1> QED
  BY <1>1, CopyOrderType, ResetOrderType DEF Away, MoverType, NoTransaction, AdderType

\* A new row, in one of the tables.
LEMMA NewRowType ==
    ASSUME NEW t, NEW id \in Nat, NEW own \in SUBSET Nat, NEW incidents \in SUBSET Nat,
           NEW bound \in Nat, \A x \in own \cup incidents : x <= bound
    PROVE  /\ NewRow(t, id, own, incidents) \in RowType
           /\ NewRow(t, id, own, incidents).id = id
<1> DEFINE among == (IF own = {} THEN incidents ELSE own) \cup {NoIncident}
<1>1. NoIncident \in Nat /\ NoIncident <= bound
  BY DEF NoIncident
<1>2. among \in SUBSET Nat /\ among # {} /\ \A x \in among : x <= bound
  BY <1>1
<1>3. PICK incident :
         /\ incident = (IF t \in Referring THEN Max(among) ELSE NoIncident)
         /\ NewRow(t, id, own, incidents) = Row(id, incident)
  BY DEF NewRow
<1> HIDE DEF among
<1>4. Max(among) \in Nat
  BY <1>2, MaxOf
<1>5. incident \in Nat
  BY <1>1, <1>3, <1>4
<1> QED
  BY <1>3, <1>5 DEF Row, RowType

\* IDs stay bounded when the only new one is a number.
LEMMA BoundGrows ==
    ASSUME IdsAreBounded, NEW new \in Nat,
           \A t \in Tables, id \in Nat : IsTaken(t, id)' => IsTaken(t, id) \/ id = new
    PROVE  IdsAreBounded'
<1>1. PICK top \in Nat : \A t \in Tables, id \in Nat : IsTaken(t, id) => id <= top
  BY DEF IdsAreBounded
<1>2. top + new \in Nat
  OBVIOUS
<1>3. \A t \in Tables, id \in Nat : IsTaken(t, id)' => id <= top + new
  BY <1>1
<1> QED
  BY <1>2, <1>3 DEF IdsAreBounded

\* What a transaction on the source adds.
LEMMA WrittenRowsType ==
    ASSUME NEW tables, NEW id \in Nat, NEW incidents \in SUBSET Nat, NEW bound \in Nat,
           \A x \in incidents : x <= bound
    PROVE  /\ WrittenRows(tables, id, incidents) \in RowsType
           /\ \A t \in Tables : \A row \in WrittenRows(tables, id, incidents)[t] : row.id = id
<1> DEFINE own == IF "incidents" \in tables THEN {id} ELSE {}
<1>1. /\ own \in SUBSET Nat /\ bound + id \in Nat
      /\ \A x \in own \cup incidents : x <= bound + id
  OBVIOUS
<1>2. WrittenRows(tables, id, incidents) =
        [t \in Tables |-> {NewRow(t, id, own, incidents) : table \in tables \cap {t}}]
  BY DEF WrittenRows
<1> HIDE DEF own
<1>3. \A t : /\ NewRow(t, id, own, incidents) \in RowType
             /\ NewRow(t, id, own, incidents).id = id
  BY <1>1, NewRowType
<1> QED
  BY <1>2, <1>3 DEF RowsType

\* The source has rows of the first transaction, and the target has none.
LEMMA MoveInitKeeps == MoveInit => MoveInv
<1> SUFFICES ASSUME MoveInit PROVE MoveInv
  OBVIOUS
<1>1. PICK tables : source = WrittenRows(tables, 1, {})
  BY DEF MoveInit
<1>2. source \in RowsType /\ \A t \in Tables : \A row \in source[t] : row.id = 1
  <2>1. 1 \in Nat /\ 0 \in Nat /\ {} \in SUBSET Nat /\ \A x \in {} : x <= 0
    OBVIOUS
  <2> QED
    BY <1>1, <2>1, WrittenRowsType
<1>3. /\ movers \in [Movers -> MoverType] /\ adders \in [Adders -> AdderType]
      /\ sequences \in [Sequenced -> Nat]
      /\ \A m \in Movers : movers[m] = Away
      /\ \A a \in Adders : adders[a] = NoTransaction
      /\ target = Nothing /\ \A t \in Tables : target[t] = {}
      /\ overtaken = {} /\ written = 1
  BY AwayFields DEF MoveInit
<1>4. target \in [Tables -> SUBSET CommittedType]
  BY <1>3 DEF Nothing
<1>5. MoveTyped
  BY <1>2, <1>3, <1>4 DEF MoveTyped
<1>6. ASSUME NEW t \in Tables, NEW id \in Nat, IsTaken(t, id) PROVE id <= 1
  BY <1>2, <1>3, <1>6, AwayFields DEF IsTaken
<1>7. IdsAreBounded
  BY <1>6 DEF IdsAreBounded
<1>8. \A m \in Movers : HasCopied(m)
  BY <1>3, AwayFields DEF HasCopied, Uncommitted
<1>9. ASSUME NEW t \in Sequenced PROVE IsAhead(t)
  BY <1>3, AwayFields, SequencedTables DEF IsAhead
<1> QED
  BY <1>5, <1>7, <1>8, <1>9 DEF MoveInv, SequencesAreAhead

\* A step of the source alone: migrations have other rows than it now.
LEMMA SourceChanges ==
    ASSUME MoveInv, source' \in RowsType, NEW new \in Nat, written' \in Nat,
           \A t \in Tables : \A row \in source'[t] : row \in source[t] \/ row.id = new,
           movers' = Unsteady, UNCHANGED <<target, sequences, adders, overtaken>>
    PROVE  MoveInv'
<1> USE DEF MoveInv, MoveTyped
<1>1. /\ movers' \in [Movers -> MoverType]
      /\ \A m \in Movers : /\ movers'[m].pc = movers[m].pc /\ movers'[m].rows = movers[m].rows
                           /\ movers'[m].copied = movers[m].copied
                           /\ movers'[m].reset = movers[m].reset
                           /\ movers'[m].tenant = movers[m].tenant /\ ~movers'[m].steady
  <2> SUFFICES ASSUME NEW m \in Movers
               PROVE  /\ [movers[m] EXCEPT !.steady = FALSE] \in MoverType
                      /\ [movers[m] EXCEPT !.steady = FALSE].pc = movers[m].pc
                      /\ [movers[m] EXCEPT !.steady = FALSE].rows = movers[m].rows
                      /\ [movers[m] EXCEPT !.steady = FALSE].copied = movers[m].copied
                      /\ [movers[m] EXCEPT !.steady = FALSE].reset = movers[m].reset
                      /\ [movers[m] EXCEPT !.steady = FALSE].tenant = movers[m].tenant
                      /\ ~[movers[m] EXCEPT !.steady = FALSE].steady
    BY DEF Unsteady
  <2>1. movers[m] \in MoverType
    OBVIOUS
  <2> QED
    BY <2>1 DEF MoverType
<1>2. IdsAreBounded'
  <2>1. \A t \in Tables, id \in Nat : IsTaken(t, id)' => IsTaken(t, id) \/ id = new
    BY <1>1 DEF IsTaken
  <2> QED
    BY <2>1, BoundGrows
<1>3. \A m \in Movers : HasCopied(m)'
  BY <1>1 DEF HasCopied, Uncommitted
<1>4. SequencesAreAhead'
  BY <1>1 DEF SequencesAreAhead, IsAhead, HasReset
<1>5. MoveTyped'
  BY <1>1
<1> QED
  BY <1>2, <1>3, <1>4, <1>5

\* New rows have the ID of their transaction.
LEMMA WriteKeeps == MoveInv /\ Write => MoveInv'
<1> SUFFICES ASSUME MoveInv, Write PROVE MoveInv'
  OBVIOUS
<1>1. PICK statements \in Writes :
         source' = [t \in Tables |-> source[t] \cup
            WrittenRows(TablesOf(statements), written', Ids(source["incidents"]))[t]]
  BY DEF Write
<1>2. PICK new :
         new = WrittenRows(TablesOf(statements), written', Ids(source["incidents"]))
  OBVIOUS
<1>3. written' \in Nat /\ source \in RowsType
  BY DEF MoveInv, MoveTyped, Write
<1>4. PICK top \in Nat : \A t \in Tables, id \in Nat : IsTaken(t, id) => id <= top
  BY DEF MoveInv, IdsAreBounded
<1>5. Ids(source["incidents"]) \in SUBSET Nat /\ \A x \in Ids(source["incidents"]) : x <= top
  BY <1>3, <1>4, SequencedTables DEF Ids, IsTaken, RowsType, RowType
<1>6. new \in RowsType /\ \A t \in Tables : \A row \in new[t] : row.id = written'
  BY <1>2, <1>3, <1>5, WrittenRowsType
<1>7. \A t \in Tables : source'[t] = source[t] \cup new[t]
  BY <1>1, <1>2
<1>8. source' \in RowsType
  BY <1>1, <1>2, <1>3, <1>6 DEF RowsType
<1>9. movers' = Unsteady /\ UNCHANGED <<target, sequences, adders, overtaken>>
  BY DEF Write
<1> QED
  BY <1>3, <1>6, <1>7, <1>8, <1>9, SourceChanges

\* Rows that are rolled up and pruned change the source, too.
LEMMA RollUpSourceKeeps == MoveInv /\ RollUpSource => MoveInv'
<1> SUFFICES ASSUME MoveInv, RollUpSource PROVE MoveInv'
  OBVIOUS
<1>1. PICK new : new = Row(1, NoIncident)
  OBVIOUS
<1>2. new \in RowType /\ new.id = 1
  BY <1>1 DEF Row, RowType, NoIncident
<1>3. source \in RowsType /\ written' \in Nat
  BY DEF MoveInv, MoveTyped, RollUpSource
<1>4. source' = [source EXCEPT !["probe_results"] = {},
                               !["probe_minute_rollups"] = @ \cup {new}]
  BY <1>1 DEF RollUpSource
<1>5. source' \in RowsType
  BY <1>2, <1>3, <1>4 DEF RowsType
<1>6. \A t \in Tables : \A row \in source'[t] : row \in source[t] \/ row.id = 1
  BY <1>2, <1>3, <1>4 DEF RowsType
<1>7. movers' = Unsteady /\ UNCHANGED <<target, sequences, adders, overtaken>>
  BY DEF RollUpSource
<1> QED
  BY <1>3, <1>5, <1>6, <1>7, SourceChanges

\* A step of one migration, before it sets sequences, that changes neither store.
LEMMA OneMover ==
    ASSUME MoveInv, NEW m \in Movers, NEW next \in MoverType,
           movers' = [movers EXCEPT ![m] = next],
           UNCHANGED <<source, target, sequences, adders, overtaken, written>>,
           \A t \in Tables : \A row \in next.rows[t] : row \in movers[m].rows[t] \cup source[t],
           next.pc # "done", next.reset = 0,
           next.pc = "copying" /\ next.steady =>
              \A i \in 1 .. next.copied : next.rows[CopyOrder[i]] = source[CopyOrder[i]]
    PROVE  MoveInv'
<1>1. /\ movers' \in [Movers -> MoverType] /\ movers'[m] = next
      /\ \A n \in Movers : n # m => movers'[n] = movers[n]
  BY DEF MoveInv, MoveTyped
<1>2. MoveTyped'
  BY <1>1 DEF MoveInv, MoveTyped
<1>3. IdsAreBounded'
  <2>1. \A t \in Tables, id \in Nat : IsTaken(t, id)' => IsTaken(t, id) \/ id = 0
    BY <1>1 DEF IsTaken
  <2> QED
    BY <2>1, BoundGrows DEF MoveInv
<1>4. ASSUME NEW n \in Movers PROVE HasCopied(n)'
  <2>1. CASE n = m
    BY <1>1, <2>1 DEF HasCopied, Uncommitted
  <2>2. CASE n # m
    <3>1. movers'[n] = movers[n] /\ HasCopied(n)
      BY <1>1, <2>2 DEF MoveInv
    <3> QED
      BY <3>1 DEF HasCopied, Uncommitted
  <2> QED
    BY <2>1, <2>2
<1>5. ASSUME NEW t \in Sequenced \ overtaken PROVE IsAhead(t)'
  <2>1. IsAhead(t)
    BY DEF MoveInv, SequencesAreAhead
  <2>2. ASSUME NEW n \in Movers, HasReset(n, t)'
        PROVE  movers'[n] = movers[n] /\ HasReset(n, t)
    <3>1. n # m
      BY <1>1, <2>2 DEF HasReset
    <3> QED
      BY <1>1, <2>2, <3>1 DEF HasReset
  <2> QED
    BY <2>1, <2>2 DEF IsAhead
<1>6. SequencesAreAhead'
  BY <1>5 DEF SequencesAreAhead
<1> QED
  BY <1>2, <1>3, <1>4, <1>6 DEF MoveInv

\* A migration that begins has copied nothing.
LEMMA BeginMoveKeeps == ASSUME MoveInv, NEW m \in Movers, BeginMove(m) PROVE MoveInv'
<1>1. PICK tenant \in Tenants :
         movers' = [movers EXCEPT ![m] = [Away EXCEPT !.pc = "copying", !.tenant = tenant]]
  BY DEF BeginMove
<1>2. PICK next : next = [Away EXCEPT !.pc = "copying", !.tenant = tenant]
  OBVIOUS
<1>3. /\ next \in MoverType /\ next.pc = "copying" /\ next.copied = 0 /\ next.reset = 0
      /\ \A t \in Tables : next.rows[t] = {}
  BY <1>2, AwayFields DEF MoverType
<1>4. movers' = [movers EXCEPT ![m] = next]
  BY <1>1, <1>2
<1>5. \A i \in 1 .. next.copied : next.rows[CopyOrder[i]] = source[CopyOrder[i]]
  BY <1>3
<1>6. UNCHANGED <<source, target, sequences, adders, overtaken, written>>
  BY DEF BeginMove
<1>7. \A t \in Tables : \A row \in next.rows[t] : row \in movers[m].rows[t] \cup source[t]
  BY <1>3
<1>8. next.pc # "done"
  BY <1>3
<1> QED
  BY <1>3, <1>4, <1>5, <1>6, <1>7, <1>8, OneMover

\* A migration that is rolled back leaves no rows.
LEMMA GivingUpKeeps ==
    ASSUME MoveInv, NEW m \in Movers, movers' = [movers EXCEPT ![m] = Away],
           UNCHANGED <<source, target, sequences, adders, overtaken, written>>
    PROVE  MoveInv'
<1>1. \A t \in Tables : \A row \in Away.rows[t] : row \in movers[m].rows[t] \cup source[t]
  BY AwayFields
<1>2. Away.pc # "done" /\ Away.pc # "copying" /\ Away.reset = 0
  BY AwayFields
<1> QED
  BY <1>1, <1>2, AwayFields, OneMover

\* A table that is copied is the one of the source, until that changes; the first one makes
\* the migration begin with the source there is then.
LEMMA CopyTableKeeps == ASSUME MoveInv, NEW m \in Movers, CopyTable(m) PROVE MoveInv'
<1>1. PICK mover, t, refused :
         /\ mover = movers[m] /\ t = CopyOrder[mover.copied + 1]
         /\ refused = Refused(t, source[t], mover.tenant, Ids(mover.rows["incidents"]))
  OBVIOUS
<1>2. PICK next :
         /\ next = [AfterTable(m, t, refused) EXCEPT !.steady = @ \/ mover.copied = 0]
         /\ movers' = [movers EXCEPT ![m] = next]
  BY <1>1 DEF CopyTable
<1>3. /\ mover \in MoverType /\ mover.pc = "copying"
      /\ mover.copied \in Nat /\ mover.copied < Len(CopyOrder)
      /\ t \in Tables /\ source[t] \in SUBSET RowType
  BY <1>1, CopyOrderType DEF CopyTable, MoveInv, MoveTyped, MoverType, RowsType
<1>4. UNCHANGED <<source, target, sequences, adders, overtaken, written>>
  BY DEF CopyTable
<1>5. mover.reset = 0
  BY <1>1, <1>3, CopyOrderType DEF MoveInv, HasCopied
<1>6. CASE refused
  <2>1. next = [Away EXCEPT !.steady = @ \/ mover.copied = 0]
    BY <1>2, <1>6 DEF AfterTable
  <2>2. Away.steady = TRUE /\ DOMAIN Away = {"pc", "tenant", "rows", "copied", "reset", "steady"}
    BY DEF Away
  <2>3. next = [Away EXCEPT !.steady = TRUE]
    BY <2>1, <2>2
  <2>4. next = Away
    BY <2>3 DEF Away
  <2> QED
    BY <1>2, <1>4, <2>4, GivingUpKeeps
<1>7. CASE ~refused
  <2>1. PICK steady \in BOOLEAN : steady <=> (mover.steady \/ mover.copied = 0)
    OBVIOUS
  <2>2. PICK rows : rows = [mover.rows EXCEPT ![t] = source[t]]
    OBVIOUS
  <2>3. next = [pc |-> "copying", tenant |-> mover.tenant, rows |-> rows,
                copied |-> mover.copied + 1, reset |-> 0, steady |-> steady]
    <3>1. AfterTable(m, t, refused) = [mover EXCEPT !.rows[t] = source[t], !.copied = @ + 1]
      BY <1>1, <1>7 DEF AfterTable
    <3>2. next = [[mover EXCEPT !.rows = rows, !.copied = mover.copied + 1]
                    EXCEPT !.steady = steady]
      BY <1>2, <1>3, <2>1, <2>2, <3>1 DEF MoverType
    <3> QED
      BY <1>3, <1>5, <3>2 DEF MoverType
  <2>4. rows \in RowsType /\ next \in MoverType
    BY <1>3, <2>2, <2>3, CopyOrderType, ResetOrderType DEF MoverType, RowsType
  <2>5. \A s \in Tables : \A row \in next.rows[s] : row \in movers[m].rows[s] \cup source[s]
    BY <1>1, <1>3, <2>2, <2>3 DEF MoverType, RowsType
  <2>6. ASSUME next.steady, NEW i \in 1 .. next.copied
        PROVE  next.rows[CopyOrder[i]] = source[CopyOrder[i]]
    <3>1. CopyOrder[i] \in Tables /\ i \in 1 .. mover.copied + 1
      BY <1>3, <2>3, CopyOrderType
    <3>2. CASE CopyOrder[i] = t
      BY <1>3, <2>2, <2>3, <3>2 DEF MoverType, RowsType
    <3>3. CASE CopyOrder[i] # t
      <4>1. i \in 1 .. mover.copied /\ mover.copied # 0
        BY <1>1, <1>3, <3>1, <3>3
      <4>2. mover.steady
        BY <2>1, <2>3, <2>6, <4>1
      <4>3. mover.rows[CopyOrder[i]] = source[CopyOrder[i]]
        BY <1>1, <1>3, <4>1, <4>2 DEF MoveInv, HasCopied, Uncommitted
      <4> QED
        BY <1>3, <2>2, <2>3, <3>1, <3>3, <4>3 DEF MoverType, RowsType
    <3> QED
      BY <3>2, <3>3
  <2>7. next.pc # "done" /\ next.reset = 0
    BY <2>3
  <2> QED
    BY <1>2, <1>4, <2>4, <2>5, <2>6, <2>7, OneMover
<1> QED
  BY <1>6, <1>7

\* The highest of the IDs that are seen, and at least as high as each.
LEMMA ResetToIsAhead ==
    ASSUME MoveInv, NEW m \in Movers, NEW t \in Sequenced
    PROVE  /\ ResetTo(m, t) \in Nat
           /\ \A row \in target[t] : row.id <= ResetTo(m, t)
           /\ \A row \in movers[m].rows[t] : row.id <= ResetTo(m, t)
<1> DEFINE ids == Ids(target[t]) \cup Ids(movers[m].rows[t]) \cup {0}
<1>1. t \in Tables
  BY SequencedTables
<1>2. PICK top \in Nat : \A id \in Nat : IsTaken(t, id) => id <= top
  BY <1>1 DEF MoveInv, IdsAreBounded
<1>3. \A row \in target[t] : row.id \in Nat /\ row.id <= top
  BY <1>1, <1>2 DEF MoveInv, MoveTyped, CommittedType, IsTaken
<1>4. \A row \in movers[m].rows[t] : row.id \in Nat /\ row.id <= top
  BY <1>1, <1>2 DEF MoveInv, MoveTyped, MoverType, RowsType, RowType, IsTaken
<1>5. ids \in SUBSET Nat /\ ids # {} /\ \A x \in ids : x <= top
  BY <1>3, <1>4 DEF Ids
<1>6. (\A row \in target[t] : row.id \in ids) /\ (\A row \in movers[m].rows[t] : row.id \in ids)
  BY DEF Ids
<1>7. ResetTo(m, t) = Max(ids)
  BY DEF ResetTo
<1> HIDE DEF ids
<1>8. Max(ids) \in ids /\ \A x \in ids : x <= Max(ids)
  BY <1>5, MaxOf
<1> QED
  BY <1>5, <1>6, <1>7, <1>8

\* A sequence is set ahead of the rows that are there or about to be, and of the IDs of
\* others unless it is overtaken.
LEMMA ResetKeeps == ASSUME MoveInv, NEW m \in Movers, ResetPostgresSequences(m) PROVE MoveInv'
<1>1. PICK mover, t : mover = movers[m] /\ t = ResetOrder[mover.reset + 1]
  OBVIOUS
<1>2. PICK next : next = [mover EXCEPT !.reset = mover.reset + 1]
  OBVIOUS
<1>3. /\ mover \in MoverType /\ mover.pc = "copying" /\ mover.copied = Len(CopyOrder)
      /\ mover.reset \in Nat /\ mover.reset < Len(ResetOrder)
      /\ t \in Sequenced /\ t \in Tables
  <2>1. /\ mover \in MoverType /\ mover.pc = "copying" /\ mover.copied = Len(CopyOrder)
        /\ mover.reset < Len(ResetOrder)
    BY <1>1 DEF ResetPostgresSequences, MoveInv, MoveTyped
  <2>2. mover.reset \in Nat
    BY <2>1 DEF MoverType
  <2>3. mover.reset + 1 \in 1 .. Len(ResetOrder)
    BY <2>1, <2>2, ResetOrderType
  <2> QED
    BY <1>1, <2>1, <2>2, <2>3, ResetOrderType, SequencedTables
<1>4. /\ next \in MoverType /\ next.pc = "copying" /\ next.rows = mover.rows
      /\ next.copied = mover.copied /\ next.steady = mover.steady
      /\ next.reset = mover.reset + 1
  BY <1>2, <1>3, ResetOrderType DEF MoverType
<1>5. movers' = [movers EXCEPT ![m] = next]
  BY <1>1, <1>2, <1>3 DEF ResetPostgresSequences, MoverType
<1>6. /\ movers' \in [Movers -> MoverType] /\ movers'[m] = next
      /\ \A n \in Movers : n # m => movers'[n] = movers[n]
  BY <1>4, <1>5 DEF MoveInv, MoveTyped
<1>7. UNCHANGED <<source, target, adders, written>>
  BY DEF ResetPostgresSequences
<1>8. /\ sequences' \in [Sequenced -> Nat] /\ sequences'[t] = ResetTo(m, t)
      /\ \A u \in Sequenced : u # t => sequences'[u] = sequences[u]
  BY <1>1, <1>3, ResetToIsAhead DEF ResetPostgresSequences, MoveInv, MoveTyped
<1>9. /\ overtaken' \in SUBSET Sequenced
      /\ \A u \in Sequenced : u # t /\ u \notin overtaken' => u \notin overtaken
      /\ t \notin overtaken' => \A id \in Unseen(m, t) : ~(id > ResetTo(m, t))
  BY <1>1, <1>3 DEF ResetPostgresSequences, MoveInv, MoveTyped
<1>10. MoveTyped'
  BY <1>6, <1>7, <1>8, <1>9 DEF MoveInv, MoveTyped
<1>11. \A n \in Movers : movers'[n].rows = movers[n].rows
  BY <1>1, <1>4, <1>6
<1>12. IdsAreBounded'
  <2>1. \A u \in Tables, id \in Nat : IsTaken(u, id)' => IsTaken(u, id) \/ id = 0
    BY <1>7, <1>11 DEF IsTaken
  <2> QED
    BY <2>1, BoundGrows DEF MoveInv
<1>13. ASSUME NEW n \in Movers PROVE HasCopied(n)'
  <2>1. HasCopied(n)
    BY DEF MoveInv
  <2>2. CASE n = m
    BY <1>1, <1>3, <1>4, <1>6, <1>7, <2>1, <2>2 DEF HasCopied, Uncommitted
  <2>3. CASE n # m
    <3>1. movers'[n] = movers[n]
      BY <1>6, <2>3
    <3> QED
      BY <1>7, <2>1, <3>1 DEF HasCopied, Uncommitted
  <2> QED
    BY <2>2, <2>3
<1>14. ASSUME NEW u \in Sequenced \ overtaken' PROVE IsAhead(u)'
  <2>1. CASE u = t
    <3>1. ASSUME NEW a \in Adders, NEW row \in adders[a].drawn[t] \cup adders[a].rows[t]
          PROVE  row.id <= ResetTo(m, t)
      <4>1. row.id \in Nat
        BY <1>3, <3>1 DEF MoveInv, MoveTyped, AdderType, RowsType, RowType
      <4>2. row.id \in Unseen(m, t)
        <5>1. row.id \in Ids(adders[a].drawn[t]) \cup Ids(adders[a].rows[t])
          BY <3>1 DEF Ids
        <5> QED
          BY <5>1 DEF Unseen
      <4> QED
        BY <1>9, <2>1, <4>1, <4>2, ResetToIsAhead, <1>3
    <3>2. ASSUME NEW n \in Movers, n # m, NEW row \in movers[n].rows[t]
          PROVE  row.id <= ResetTo(m, t)
      <4>1. row.id \in Nat
        BY <1>3, <3>2 DEF MoveInv, MoveTyped, MoverType, RowsType, RowType
      <4>2. row.id \in Unseen(m, t)
        <5>1. row.id \in Ids(movers[n].rows[t]) /\ n \in Movers \ {m}
          BY <3>2 DEF Ids
        <5> QED
          BY <5>1 DEF Unseen
      <4> QED
        BY <1>9, <2>1, <4>1, <4>2, ResetToIsAhead, <1>3
    <3>3. \A row \in target[t] : row.id <= ResetTo(m, t)
      BY <1>3, ResetToIsAhead
    <3>4. \A row \in movers[m].rows[t] : row.id <= ResetTo(m, t)
      BY <1>3, ResetToIsAhead
    <3>5. \A n \in Movers : \A row \in movers'[n].rows[t] : row.id <= ResetTo(m, t)
      BY <1>11, <3>2, <3>4
    <3> QED
      BY <1>7, <1>8, <2>1, <3>1, <3>3, <3>5 DEF IsAhead
  <2>2. CASE u # t
    <3>1. IsAhead(u) /\ sequences'[u] = sequences[u]
      BY <1>8, <1>9, <2>2 DEF MoveInv, SequencesAreAhead
    <3>2. ASSUME NEW n \in Movers, HasReset(n, u)' PROVE HasReset(n, u)
      <4>1. CASE n = m
        <5>1. PICK i \in 1 .. mover.reset + 1 : ResetOrder[i] = u
          BY <1>4, <1>6, <3>2, <4>1 DEF HasReset
        <5>2. i \in 1 .. mover.reset
          BY <1>1, <1>3, <2>2, <5>1
        <5> QED
          BY <1>1, <4>1, <5>1, <5>2 DEF HasReset
      <4>2. CASE n # m
        BY <1>6, <3>2, <4>2 DEF HasReset
      <4> QED
        BY <4>1, <4>2
    <3> QED
      BY <1>7, <1>11, <3>1, <3>2 DEF IsAhead
  <2> QED
    BY <2>1, <2>2
<1>15. SequencesAreAhead'
  BY <1>14 DEF SequencesAreAhead
<1> QED
  BY <1>10, <1>12, <1>13, <1>15 DEF MoveInv

\* The rows that are committed are those of the source, if it has not changed; and the
\* sequences have been set.
LEMMA CommitMoveKeeps == ASSUME MoveInv, NEW m \in Movers, CommitMove(m) PROVE MoveInv'
<1>1. PICK mover : mover = movers[m]
  OBVIOUS
<1>2. PICK next : next = [mover EXCEPT !.pc = "done", !.rows = Nothing]
  OBVIOUS
<1>3. /\ mover \in MoverType /\ mover.pc = "copying" /\ mover.reset = Len(ResetOrder)
      /\ mover.copied = Len(CopyOrder) /\ Uncommitted(m)
  <2>1. mover.reset # 0
    BY <1>1 DEF CommitMove, ResetOrder
  <2> QED
    BY <1>1, <2>1 DEF CommitMove, MoveInv, MoveTyped, HasCopied, Uncommitted
<1>4. /\ next \in MoverType /\ next.pc = "done" /\ next.steady = mover.steady
      /\ next.copied = mover.copied /\ next.reset = mover.reset
      /\ next.tenant = mover.tenant /\ \A t \in Tables : next.rows[t] = {}
  BY <1>2, <1>3, AwayFields DEF MoverType
<1>5. movers' = [movers EXCEPT ![m] = next]
  BY <1>1, <1>2 DEF CommitMove
<1>6. /\ movers' \in [Movers -> MoverType] /\ movers'[m] = next
      /\ \A n \in Movers : n # m => movers'[n] = movers[n]
  BY <1>4, <1>5 DEF MoveInv, MoveTyped
<1>7. target' = [t \in Tables |->
         target[t] \cup {OfTenant(row, mover.tenant) : row \in mover.rows[t]}]
  BY <1>1 DEF CommitMove
<1>8. UNCHANGED <<source, sequences, adders, overtaken, written>>
  BY DEF CommitMove
<1>9. ASSUME NEW t \in Tables, NEW row \in target'[t]
      PROVE  /\ row \in CommittedType
             /\ \/ row \in target[t]
                \/ \E inserted \in mover.rows[t] : inserted.id = row.id
  <2>1. CASE row \in target[t]
    BY <2>1 DEF MoveInv, MoveTyped
  <2>2. CASE row \notin target[t]
    <3>1. PICK inserted \in mover.rows[t] : row = OfTenant(inserted, mover.tenant)
      BY <1>7, <1>9, <2>2
    <3>2. inserted \in RowType /\ mover.tenant \in Tenants \cup {NoTenant}
      BY <1>3 DEF MoverType, RowsType
    <3> QED
      BY <3>1, <3>2, OfTenantFields
  <2> QED
    BY <2>1, <2>2
<1>10. MoveTyped'
  <2>1. target' \in [Tables -> SUBSET CommittedType]
    BY <1>7, <1>9
  <2> QED
    BY <1>6, <1>8, <2>1 DEF MoveInv, MoveTyped
<1>11. IdsAreBounded'
  <2>1. \A t \in Tables, id \in Nat : IsTaken(t, id)' => IsTaken(t, id) \/ id = 0
    BY <1>1, <1>4, <1>6, <1>8, <1>9 DEF IsTaken
  <2> QED
    BY <2>1, BoundGrows DEF MoveInv
<1>12. \A t \in Tables : target[t] \subseteq target'[t]
  BY <1>7
<1>13. ASSUME NEW n \in Movers PROVE HasCopied(n)'
  <2>1. CASE n = m
    <3> SUFFICES ASSUME mover.steady, NEW t \in Copied, NEW row \in source[t]
                 PROVE  OfTenant(row, mover.tenant) \in target'[t]
      BY <1>3, <1>4, <1>6, <1>8, <2>1 DEF HasCopied, Uncommitted
    <3>1. PICK i \in 1 .. Len(CopyOrder) : CopyOrder[i] = t
      BY CopyOrderType
    <3>2. mover.rows[t] = source[t]
      BY <1>1, <1>3, <3>1 DEF MoveInv, HasCopied
    <3> QED
      BY <1>7, <3>2, CopyOrderType
  <2>2. CASE n # m
    <3>1. movers'[n] = movers[n] /\ HasCopied(n)
      BY <1>6, <2>2 DEF MoveInv
    <3> QED
      BY <1>8, <1>12, <3>1, CopyOrderType DEF HasCopied, Uncommitted
  <2> QED
    BY <2>1, <2>2
<1>14. ASSUME NEW t \in Sequenced \ overtaken PROVE IsAhead(t)'
  <2>1. IsAhead(t) /\ t \in Tables
    BY SequencedTables DEF MoveInv, SequencesAreAhead
  <2>2. HasReset(m, t)
    BY <1>1, <1>3, ResetOrderType DEF HasReset
  <2>3. \A row \in target'[t] : row.id <= sequences[t]
    BY <1>1, <1>9, <2>1, <2>2 DEF IsAhead
  <2>4. ASSUME NEW n \in Movers, HasReset(n, t)', NEW row \in movers'[n].rows[t]
        PROVE  row.id <= sequences[t]
    <3>1. n # m /\ movers'[n] = movers[n]
      BY <1>4, <1>6, <2>1, <2>4
    <3> QED
      BY <2>1, <2>4, <3>1 DEF IsAhead, HasReset
  <2> QED
    BY <1>8, <2>1, <2>3, <2>4 DEF IsAhead
<1>15. SequencesAreAhead'
  BY <1>8, <1>14 DEF SequencesAreAhead
<1> QED
  BY <1>10, <1>11, <1>13, <1>15 DEF MoveInv

\* A step of one transaction on the target, before it is committed: it may add a row that
\* has the next ID, or one without an ID of its own.
LEMMA OneAdder ==
    ASSUME MoveInv, NEW a \in Adders, NEW next \in AdderType, NEW new \in Nat,
           adders' = [adders EXCEPT ![a] = next],
           UNCHANGED <<source, target, movers, overtaken, written>>,
           sequences' \in [Sequenced -> Nat],
           \A t \in Sequenced : sequences[t] <= sequences'[t],
           \A t \in Tables : \A row \in next.drawn[t] \cup next.rows[t] :
              \/ row \in adders[a].drawn[t] \cup adders[a].rows[t]
              \/ row.id = new /\ (t \in Sequenced => new <= sequences'[t])
    PROVE  MoveInv'
<1>1. /\ adders' \in [Adders -> AdderType] /\ adders'[a] = next
      /\ \A b \in Adders : b # a => adders'[b] = adders[b]
  BY DEF MoveInv, MoveTyped
<1>2. MoveTyped'
  BY <1>1 DEF MoveInv, MoveTyped
<1>3. IdsAreBounded'
  <2>1. \A t \in Tables, id \in Nat : IsTaken(t, id)' => IsTaken(t, id) \/ id = new
    BY <1>1 DEF IsTaken
  <2> QED
    BY <2>1, BoundGrows DEF MoveInv
<1>4. \A m \in Movers : HasCopied(m)'
  BY DEF MoveInv, HasCopied, Uncommitted
<1>5. ASSUME NEW t \in Sequenced \ overtaken PROVE IsAhead(t)'
  <2>1. IsAhead(t) /\ t \in Tables
    BY SequencedTables DEF MoveInv, SequencesAreAhead
  <2>2. sequences[t] \in Nat /\ sequences'[t] \in Nat /\ sequences[t] <= sequences'[t]
    BY DEF MoveInv, MoveTyped
  <2>3. ASSUME NEW row \in target[t] PROVE row.id <= sequences'[t]
    <3>1. row.id \in Nat /\ row.id <= sequences[t]
      BY <2>1 DEF IsAhead, MoveInv, MoveTyped, CommittedType
    <3> QED
      BY <2>2, <3>1
  <2>4. ASSUME NEW b \in Adders, NEW row \in adders[b].drawn[t] \cup adders[b].rows[t]
        PROVE  row.id <= sequences'[t]
    <3>1. row.id \in Nat /\ row.id <= sequences[t]
      BY <2>1, <2>4 DEF IsAhead, MoveInv, MoveTyped, AdderType, RowsType, RowType
    <3> QED
      BY <2>2, <3>1
  <2>5. ASSUME NEW b \in Adders, NEW row \in adders'[b].drawn[t] \cup adders'[b].rows[t]
        PROVE  row.id <= sequences'[t]
    <3>1. CASE b = a
      BY <1>1, <2>1, <2>4, <2>5, <3>1
    <3>2. CASE b # a
      BY <1>1, <2>4, <2>5, <3>2
    <3> QED
      BY <3>1, <3>2
  <2>6. ASSUME NEW m \in Movers, HasReset(m, t), NEW row \in movers[m].rows[t]
        PROVE  row.id <= sequences'[t]
    <3>1. row.id \in Nat /\ row.id <= sequences[t]
      BY <2>1, <2>6 DEF IsAhead, MoveInv, MoveTyped, MoverType, RowsType, RowType
    <3> QED
      BY <2>2, <3>1
  <2> QED
    BY <2>3, <2>5, <2>6 DEF IsAhead, HasReset
<1>6. SequencesAreAhead'
  BY <1>5 DEF SequencesAreAhead
<1> QED
  BY <1>2, <1>3, <1>4, <1>6 DEF MoveInv

\* One that takes no ID.
LEMMA OneAdderOnly ==
    ASSUME MoveInv, NEW a \in Adders, NEW next \in AdderType,
           adders' = [adders EXCEPT ![a] = next],
           UNCHANGED <<source, target, sequences, movers, overtaken, written>>,
           \A t \in Tables : \A row \in next.drawn[t] \cup next.rows[t] :
              row \in adders[a].drawn[t] \cup adders[a].rows[t]
    PROVE  MoveInv'
<1>1. sequences' \in [Sequenced -> Nat] /\ 0 \in Nat
  BY DEF MoveInv, MoveTyped
<1>2. \A t \in Sequenced : sequences[t] <= sequences'[t]
  BY DEF MoveInv, MoveTyped
<1> QED
  BY <1>1, <1>2, OneAdder

\* What a transaction inserts into.
LEMMA WritesType ==
    ASSUME NEW statements \in Writes
    PROVE  statements \in Seq(Tables)
<1>1. /\ "probe_results" \in Tables /\ "monitor_states" \in Tables
      /\ "monitor_status_intervals" \in Tables /\ "incidents" \in Tables
      /\ "monitor_alert_states" \in Tables /\ "pending_monitor_alerts" \in Tables
      /\ "alert_notifications" \in Tables /\ "maintenance_windows" \in Tables
      /\ "observer_state" \in Tables /\ "observer_sentinel_results" \in Tables
      /\ "observer_sentinel_events" \in Tables /\ "connectivity_samples" \in Tables
  <2>1. /\ 1 \in DOMAIN CopyOrder /\ CopyOrder[1] = "monitor_states"
        /\ 2 \in DOMAIN CopyOrder /\ CopyOrder[2] = "observer_state"
        /\ 3 \in DOMAIN CopyOrder /\ CopyOrder[3] = "observer_sentinel_results"
        /\ 4 \in DOMAIN CopyOrder /\ CopyOrder[4] = "maintenance_windows"
        /\ 5 \in DOMAIN CopyOrder /\ CopyOrder[5] = "probe_results"
        /\ 6 \in DOMAIN CopyOrder /\ CopyOrder[6] = "incidents"
        /\ 7 \in DOMAIN CopyOrder /\ CopyOrder[7] = "connectivity_samples"
        /\ 8 \in DOMAIN CopyOrder /\ CopyOrder[8] = "monitor_alert_states"
        /\ 9 \in DOMAIN CopyOrder /\ CopyOrder[9] = "pending_monitor_alerts"
        /\ 10 \in DOMAIN CopyOrder /\ CopyOrder[10] = "alert_notifications"
        /\ 15 \in DOMAIN CopyOrder /\ CopyOrder[15] = "monitor_status_intervals"
    BY DEF CopyOrder
  <2> HIDE DEF CopyOrder
  <2> QED
    BY <2>1 DEF Copied, Tables
<1> HIDE DEF Tables
<1>2. <<"probe_results", "monitor_states", "monitor_status_intervals">> \in Seq(Tables)
  BY <1>1
<1>3. <<"probe_results", "monitor_states", "monitor_status_intervals", "incidents",
        "monitor_alert_states", "pending_monitor_alerts">> \in Seq(Tables)
  BY <1>1
<1>4. <<"alert_notifications">> \in Seq(Tables) /\ <<"maintenance_windows">> \in Seq(Tables)
  BY <1>1
<1>5. <<"observer_state", "observer_sentinel_results", "observer_sentinel_events">>
         \in Seq(Tables)
  BY <1>1
<1>6. <<"connectivity_samples">> \in Seq(Tables)
  BY <1>1
<1> QED
  BY <1>2, <1>3, <1>4, <1>5, <1>6 DEF Writes

\* A transaction that begins has no rows.
LEMMA BeginTransactionKeeps ==
    ASSUME MoveInv, NEW a \in Adders, BeginTransaction(a)
    PROVE  MoveInv'
<1>1. PICK statements \in Writes, tenant \in Tenants, key \in 1 .. MaxWrites :
         adders' = [adders EXCEPT ![a].tenant = tenant, ![a].key = key, ![a].left = statements]
  BY DEF BeginTransaction
<1>2. PICK next :
         next = [NoTransaction EXCEPT !.tenant = tenant, !.key = key, !.left = statements]
  OBVIOUS
<1>3. adders[a] = NoTransaction /\ statements \in Seq(Tables) /\ key \in Nat
  BY WritesType DEF BeginTransaction
<1>4. /\ next \in AdderType
      /\ next.drawn = NoTransaction.drawn /\ next.rows = NoTransaction.rows
  BY <1>2, <1>3, AwayFields DEF AdderType
<1>5. adders' = [adders EXCEPT ![a] = next]
  BY <1>1, <1>2, <1>3 DEF MoveInv, MoveTyped
<1>6. UNCHANGED <<source, target, sequences, movers, overtaken, written>>
  BY DEF BeginTransaction
<1>7. \A t \in Tables : \A row \in next.drawn[t] \cup next.rows[t] :
         row \in adders[a].drawn[t] \cup adders[a].rows[t]
  BY <1>3, <1>4
<1> QED
  BY <1>4, <1>5, <1>6, <1>7, OneAdderOnly

\* A transaction that is rolled back leaves no rows, though its IDs are taken.
LEMMA RollingBackKeeps ==
    ASSUME MoveInv, NEW a \in Adders, adders' = [adders EXCEPT ![a] = NoTransaction],
           UNCHANGED <<source, target, sequences, movers, overtaken, written>>
    PROVE  MoveInv'
<1>1. \A t \in Tables : \A row \in NoTransaction.drawn[t] \cup NoTransaction.rows[t] :
         row \in adders[a].drawn[t] \cup adders[a].rows[t]
  BY AwayFields
<1> QED
  BY <1>1, AwayFields, OneAdderOnly

\* A row that is inserted was drawn.
LEMMA InsertRowKeeps == ASSUME MoveInv, NEW a \in Adders, InsertRow(a) PROVE MoveInv'
<1>1. PICK adder, refused :
         /\ adder = adders[a]
         /\ refused = \E t \in Sequenced : Refused(t, adder.drawn[t], adder.tenant,
                                                   Ids(adder.rows["incidents"]))
  OBVIOUS
<1>2. UNCHANGED <<source, target, sequences, movers, overtaken, written>>
  BY DEF InsertRow
<1>3. CASE refused
  <2>1. adders' = [adders EXCEPT ![a] = NoTransaction]
    BY <1>1, <1>3 DEF InsertRow
  <2> QED
    BY <1>2, <2>1, RollingBackKeeps
<1>4. CASE ~refused
  <2>1. PICK rows : rows = [t \in Tables |-> adder.rows[t] \cup adder.drawn[t]]
    OBVIOUS
  <2>2. PICK next : next = [adder EXCEPT !.drawn = Nothing, !.rows = rows]
    OBVIOUS
  <2>3. adder \in AdderType
    BY <1>1 DEF MoveInv, MoveTyped
  <2>4. rows \in RowsType
    BY <2>1, <2>3 DEF AdderType, RowsType
  <2>5. next \in AdderType /\ next.drawn = Nothing /\ next.rows = rows
    BY <2>2, <2>3, <2>4, AwayFields DEF AdderType
  <2>6. adders' = [adders EXCEPT ![a] = next]
    <3>1. adders' = [adders EXCEPT ![a] =
             [adder EXCEPT !.drawn = Nothing,
                           !.rows = [t \in Tables |-> adder.rows[t] \cup adder.drawn[t]]]]
      BY <1>1, <1>4 DEF InsertRow
    <3> QED
      BY <2>1, <2>2, <3>1
  <2>7. \A t \in Tables : \A row \in next.drawn[t] \cup next.rows[t] :
           row \in adders[a].drawn[t] \cup adders[a].rows[t]
    BY <1>1, <2>1, <2>5, AwayFields
  <2> QED
    BY <1>2, <2>5, <2>6, <2>7, OneAdderOnly
<1> QED
  BY <1>3, <1>4

\* An ID that is drawn is the next one, or that of a table without a sequence.
LEMMA TakeIdKeeps == ASSUME MoveInv, NEW a \in Adders, TakeId(a) PROVE MoveInv'
<1>1. PICK adder, t, own, incidents :
         /\ adder = adders[a] /\ t = Head(adder.left)
         /\ own = Ids(adder.rows["incidents"])
         /\ incidents = Ids(CommittedOf("incidents", adder.tenant))
  OBVIOUS
<1>2. PICK id : id = IF t \in Sequenced THEN sequences[t] + 1 ELSE adder.key
  OBVIOUS
<1>3. PICK row : row = NewRow(t, id, own, incidents)
  OBVIOUS
<1>4. PICK drawn : drawn = [u \in Tables |-> IF u = t THEN {row} ELSE {}]
  OBVIOUS
<1>5. PICK next : next = [adder EXCEPT !.left = Tail(adder.left), !.drawn = drawn]
  OBVIOUS
<1>6. /\ adder \in AdderType /\ adder.left # <<>>
      /\ UNCHANGED <<source, target, movers, overtaken, written>>
      /\ sequences' = [u \in Sequenced |-> IF u = t THEN id ELSE sequences[u]]
  BY <1>1, <1>2 DEF TakeId, MoveInv, MoveTyped
<1>7. adders' = [adders EXCEPT ![a] = next]
  <2>1. adders' = [adders EXCEPT ![a].left = Tail(@), ![a].drawn = drawn]
    BY <1>1, <1>2, <1>3, <1>4 DEF TakeId
  <2> QED
    BY <1>1, <1>5, <1>6, <2>1 DEF MoveInv, MoveTyped, AdderType
<1>8. id \in Nat /\ sequences \in [Sequenced -> Nat]
  BY <1>2, <1>6 DEF AdderType, MoveInv, MoveTyped
<1>9. PICK top \in Nat : \A u \in Tables, x \in Nat : IsTaken(u, x) => x <= top
  BY DEF MoveInv, IdsAreBounded
<1>10. own \in SUBSET Nat /\ \A x \in own : x <= top
  <2>1. \A taken \in adder.rows["incidents"] : taken.id \in Nat /\ IsTaken("incidents", taken.id)
    BY <1>1, <1>6, SequencedTables DEF AdderType, RowsType, RowType, IsTaken
  <2> QED
    BY <1>1, <1>9, <2>1, SequencedTables DEF Ids
<1>11. incidents \in SUBSET Nat /\ \A x \in incidents : x <= top
  <2>1. \A taken \in target["incidents"] : taken.id \in Nat /\ IsTaken("incidents", taken.id)
    BY SequencedTables DEF MoveInv, MoveTyped, CommittedType, IsTaken
  <2> QED
    BY <1>1, <1>9, <2>1, SequencedTables DEF Ids, CommittedOf
<1>12. row \in RowType /\ row.id = id
  <2>1. \A x \in own \cup incidents : x <= top
    BY <1>10, <1>11
  <2> QED
    BY <1>3, <1>8, <1>10, <1>11, <2>1, NewRowType
<1>13. drawn \in RowsType
  <2>1. {row} \in SUBSET RowType /\ {} \in SUBSET RowType
    BY <1>12
  <2>2. drawn \in [Tables -> SUBSET RowType]
    BY <1>4, <2>1
  <2> QED
    BY <2>2 DEF RowsType
<1>14. next \in AdderType /\ next.drawn = drawn /\ next.rows = adder.rows
  <2>1. adder.left \in Seq(Tables)
    BY <1>6 DEF AdderType
  <2>2. PICK left : left = Tail(adder.left)
    OBVIOUS
  <2>3. left \in Seq(Tables)
    BY <1>6, <2>1, <2>2
  <2> QED
    BY <1>5, <1>6, <1>13, <2>2, <2>3 DEF AdderType
<1>15. sequences' \in [Sequenced -> Nat] /\ \A u \in Sequenced : sequences[u] <= sequences'[u]
  BY <1>2, <1>6, <1>8
<1>16. t \in Sequenced => id <= sequences'[t]
  BY <1>6, <1>8
<1>17. ASSUME NEW u \in Tables, NEW any \in next.drawn[u] \cup next.rows[u]
       PROVE  \/ any \in adders[a].drawn[u] \cup adders[a].rows[u]
              \/ any.id = id /\ (u \in Sequenced => id <= sequences'[u])
  <2>1. CASE any \in next.rows[u]
    BY <1>1, <1>14, <2>1
  <2>2. CASE any \in next.drawn[u]
    BY <1>4, <1>12, <1>14, <1>16, <2>2
  <2> QED
    BY <2>1, <2>2, <1>17
<1> QED
  BY <1>6, <1>7, <1>8, <1>14, <1>15, <1>17, OneAdder

\* The IDs that are committed were given out.
LEMMA CommitTransactionKeeps ==
    ASSUME MoveInv, NEW a \in Adders, CommitTransaction(a)
    PROVE  MoveInv'
<1>1. PICK adder : adder = adders[a]
  OBVIOUS
<1>2. adder \in AdderType /\ UNCHANGED <<source, sequences, movers, overtaken, written>>
  BY <1>1 DEF CommitTransaction, MoveInv, MoveTyped
<1>3. target' = [t \in Tables |->
         target[t] \cup {OfTenant(row, adder.tenant) : row \in adder.rows[t]}]
  BY <1>1 DEF CommitTransaction
<1>4. /\ adders' \in [Adders -> AdderType]
      /\ \A b \in Adders : adders'[b] = adders[b] \/ adders'[b] = NoTransaction
  BY AwayFields DEF CommitTransaction, MoveInv, MoveTyped
<1>5. ASSUME NEW t \in Tables, NEW row \in target'[t]
      PROVE  /\ row \in CommittedType
             /\ row \in target[t] \/ \E inserted \in adder.rows[t] : inserted.id = row.id
  <2>1. CASE row \in target[t]
    BY <2>1 DEF MoveInv, MoveTyped
  <2>2. CASE row \notin target[t]
    <3>1. PICK inserted \in adder.rows[t] : row = OfTenant(inserted, adder.tenant)
      BY <1>3, <1>5, <2>2
    <3>2. inserted \in RowType /\ adder.tenant \in Tenants \cup {NoTenant}
      BY <1>2 DEF AdderType, RowsType
    <3> QED
      BY <3>1, <3>2, OfTenantFields
  <2> QED
    BY <2>1, <2>2
<1>6. MoveTyped'
  <2>1. target' \in [Tables -> SUBSET CommittedType]
    BY <1>3, <1>5
  <2> QED
    BY <1>2, <1>4, <2>1 DEF MoveInv, MoveTyped
<1>7. IdsAreBounded'
  <2>1. \A t \in Tables, id \in Nat : IsTaken(t, id)' => IsTaken(t, id) \/ id = 0
    BY <1>1, <1>2, <1>4, <1>5, AwayFields DEF IsTaken
  <2> QED
    BY <2>1, BoundGrows DEF MoveInv
<1>8. \A m \in Movers : HasCopied(m)'
  <2>1. \A t \in Copied : target[t] \subseteq target'[t]
    BY <1>3, CopyOrderType
  <2> QED
    BY <1>2, <2>1 DEF MoveInv, HasCopied, Uncommitted
<1>9. ASSUME NEW t \in Sequenced \ overtaken PROVE IsAhead(t)'
  <2>1. IsAhead(t) /\ t \in Tables
    BY SequencedTables DEF MoveInv, SequencesAreAhead
  <2>2. \A row \in target'[t] : row.id <= sequences[t]
    BY <1>1, <1>5, <2>1 DEF IsAhead
  <2>3. \A b \in Adders : \A row \in adders'[b].drawn[t] \cup adders'[b].rows[t] :
           row.id <= sequences[t]
    BY <1>4, <2>1, AwayFields DEF IsAhead
  <2> QED
    BY <1>2, <2>1, <2>2, <2>3 DEF IsAhead, HasReset
<1>10. SequencesAreAhead'
  BY <1>2, <1>9 DEF SequencesAreAhead
<1> QED
  BY <1>6, <1>7, <1>8, <1>10 DEF MoveInv

\* Every step keeps the invariant.
LEMMA MoveNextKeeps == MoveInv /\ [MoveNext]_moveVars => MoveInv'
<1> SUFFICES ASSUME MoveInv, [MoveNext]_moveVars PROVE MoveInv'
  OBVIOUS
<1>1. CASE UNCHANGED moveVars
  BY <1>1 DEF moveVars, MoveInv, MoveTyped, IdsAreBounded, IsTaken, HasCopied, HasReset,
              Uncommitted, IsAhead, SequencesAreAhead
<1>2. CASE Write \/ RollUpSource
  BY <1>2, WriteKeeps, RollUpSourceKeeps
<1>3. ASSUME NEW m \in Movers,
             BeginMove(m) \/ CopyTable(m) \/ ResetPostgresSequences(m) \/ CommitMove(m)
      PROVE  MoveInv'
  BY <1>3, BeginMoveKeeps, CopyTableKeeps, ResetKeeps, CommitMoveKeeps
<1>4. ASSUME NEW m \in Movers, RollBackMove(m) PROVE MoveInv'
  BY <1>4, GivingUpKeeps DEF RollBackMove
<1>5. ASSUME NEW a \in Adders,
             BeginTransaction(a) \/ TakeId(a) \/ InsertRow(a) \/ CommitTransaction(a)
      PROVE  MoveInv'
  BY <1>5, BeginTransactionKeeps, TakeIdKeeps, InsertRowKeeps, CommitTransactionKeeps
<1>6. ASSUME NEW a \in Adders, RollBackTransaction(a) PROVE MoveInv'
  BY <1>6, RollingBackKeeps DEF RollBackTransaction
<1> QED
  BY <1>1, <1>2, <1>3, <1>4, <1>5, <1>6 DEF MoveNext

\* A migration that has been committed has every row of a source that did not change in the
\* meantime, in the tenant asked for.  And the target goes on with IDs that are free, but for
\* tables whose sequence was last set when a transaction under way had a higher ID than any
\* that was seen: for any number of migrations, connections of the daemon there, tenants and
\* writes to both stores (MigrateSQLiteToPostgres, resetPostgresSequences).
THEOREM MigrationsAreWhole == MoveSpec => []MigrationIsWhole
<1>1. MoveInv => MigrationIsWhole
  <2> SUFFICES ASSUME MoveInv PROVE MigrationIsWhole
    OBVIOUS
  <2>1. \A m \in Movers :
           movers[m].pc = "done" /\ movers[m].steady =>
              \A t \in Copied : \A row \in source[t] : OfTenant(row, movers[m].tenant) \in target[t]
    BY DEF MoveInv, HasCopied
  <2>2. \A t \in Sequenced \ overtaken : \A row \in target[t] : row.id <= sequences[t]
    BY DEF MoveInv, SequencesAreAhead, IsAhead
  <2> QED
    BY <2>1, <2>2 DEF MigrationIsWhole
<1> QED
  BY MoveInitKeeps, MoveNextKeeps, <1>1, PTL DEF MoveSpec

-----------------------------------------------------------------------------
(* Opening a store *)

\* f is what folds the first migrations, by the set of their places.
IsSchemaFold(f, seq, n) ==
    f = [s \in SUBSET (1 .. n) |-> IF s = {} THEN {} ELSE After(f[s \ {Max(s)}], seq[Max(s)])]

\* A function that folds one migration more.
LEMMA SchemaFoldGoesOn ==
    ASSUME NEW seq, NEW n \in Nat, NEW f, IsSchemaFold(f, seq, n)
    PROVE  \E g : IsSchemaFold(g, seq, n + 1)
<1> DEFINE g == [s \in SUBSET (1 .. n + 1) |->
                   IF n + 1 \in s THEN After(f[s \ {n + 1}], seq[n + 1]) ELSE f[s]]
           next == [s \in SUBSET (1 .. n + 1) |->
                     IF s = {} THEN {} ELSE After(g[s \ {Max(s)}], seq[Max(s)])]
<1>1. \A s \in SUBSET (1 .. n) :
         f[s] = IF s = {} THEN {} ELSE After(f[s \ {Max(s)}], seq[Max(s)])
  <2>1. PICK h : h = [s \in SUBSET (1 .. n) |->
                        IF s = {} THEN {} ELSE After(f[s \ {Max(s)}], seq[Max(s)])]
    OBVIOUS
  <2>2. f = h
    BY <2>1 DEF IsSchemaFold
  <2>3. \A s \in SUBSET (1 .. n) :
           h[s] = IF s = {} THEN {} ELSE After(f[s \ {Max(s)}], seq[Max(s)])
    BY <2>1
  <2> QED
    BY <2>2, <2>3
<1>2. ASSUME NEW s \in SUBSET (1 .. n + 1) PROVE g[s] = next[s]
  <2>1. CASE n + 1 \in s
    <3>1. Max(s) = n + 1
      <4> HIDE DEF g, next
      <4>1. n + 1 \in Nat /\ s # {}
        BY <2>1
      <4>2. Max(s) \in s /\ n + 1 <= Max(s)
        BY <2>1, <4>1, MaxOfPlaces
      <4>3. Max(s) \in 1 .. n + 1
        BY <4>2
      <4> QED
        BY <4>2, <4>3
    <3>2. s \ {n + 1} \in SUBSET (1 .. n + 1) /\ n + 1 \notin s \ {n + 1}
      OBVIOUS
    <3>3. g[s \ {n + 1}] = f[s \ {n + 1}] /\ g[s] = After(f[s \ {n + 1}], seq[n + 1])
      BY <2>1, <3>2
    <3> QED
      BY <2>1, <3>1, <3>3
  <2>2. CASE n + 1 \notin s
    <3>1. s \in SUBSET (1 .. n) /\ g[s] = f[s]
      BY <2>2
    <3>2. CASE s = {}
      BY <1>1, <3>1, <3>2
    <3>3. CASE s # {}
      <4>1. n + 1 \notin s \ {Max(s)} /\ s \ {Max(s)} \in SUBSET (1 .. n + 1)
        BY <2>2
      <4>2. g[s \ {Max(s)}] = f[s \ {Max(s)}]
        BY <4>1
      <4>3. f[s] = After(f[s \ {Max(s)}], seq[Max(s)])
        BY <1>1, <3>1, <3>3
      <4>4. next[s] = After(g[s \ {Max(s)}], seq[Max(s)])
        BY <3>3
      <4> QED
        BY <3>1, <4>2, <4>3, <4>4
    <3> QED
      BY <3>2, <3>3
  <2> QED
    BY <2>1, <2>2
<1>3. g = next
  <2>1. /\ g = [s \in SUBSET (1 .. n + 1) |-> g[s]]
        /\ next = [s \in SUBSET (1 .. n + 1) |-> next[s]]
    OBVIOUS
  <2> HIDE DEF g, next
  <2>2. [s \in SUBSET (1 .. n + 1) |-> g[s]] = [s \in SUBSET (1 .. n + 1) |-> next[s]]
    BY <1>2
  <2> QED
    BY <2>1, <2>2
<1>4. IsSchemaFold(g, seq, n + 1)
  BY <1>3 DEF IsSchemaFold
<1> HIDE DEF g
<1> QED
  BY <1>4

\* By the least number of migrations that no function folds.
LEMMA SchemaFoldExists == ASSUME NEW seq, NEW n \in Nat PROVE \E f : IsSchemaFold(f, seq, n)
<1> DEFINE bad == {m \in Nat : ~\E f : IsSchemaFold(f, seq, m)}
<1>1. 0 \notin bad
  <2> DEFINE f == [s \in SUBSET (1 .. 0) |-> {}]
  <2>1. \A s \in SUBSET (1 .. 0) : s = {}
    OBVIOUS
  <2>2. f = [s \in SUBSET (1 .. 0) |-> IF s = {} THEN {} ELSE After(f[s \ {Max(s)}], seq[Max(s)])]
    BY <2>1
  <2>3. IsSchemaFold(f, seq, 0)
    BY <2>2 DEF IsSchemaFold
  <2> HIDE DEF f
  <2> QED
    BY <2>3
<1>2. ASSUME NEW m \in Nat, m \notin bad PROVE m + 1 \notin bad
  <2>1. PICK f : IsSchemaFold(f, seq, m)
    BY <1>2
  <2> QED
    BY <2>1, SchemaFoldGoesOn
<1>3. bad \subseteq Nat
  OBVIOUS
<1> HIDE DEF bad
<1>4. bad = {}
  <2> SUFFICES ASSUME bad # {} PROVE FALSE
    OBVIOUS
  <2>1. PICK least \in bad : \A m \in bad : least <= m
    BY <1>3, LeastExists
  <2>2. least - 1 \in Nat /\ least - 1 \notin bad /\ least - 1 + 1 = least
    BY <1>1, <1>3, <2>1
  <2> QED
    BY <1>2, <2>1, <2>2
<1>5. n \notin bad
  BY <1>4
<1> QED
  BY <1>5 DEF bad

\* The schemas after the first migrations, one after the other.
LEMMA SchemaAfterEach ==
    ASSUME NEW b \in Backends, NEW n \in Nat, n <= Len(Migrations(b)),
           DOMAIN SubSeq(Migrations(b), 1, n) = 1 .. n,
           \A i \in 1 .. n : SubSeq(Migrations(b), 1, n)[i] = Migrations(b)[i]
    PROVE  \E schemas :
              /\ schemas[0] = {}
              /\ SchemaAfter(b, n) = schemas[n]
              /\ \A k \in 1 .. n : schemas[k] = After(schemas[k - 1], Migrations(b)[k])
<1> DEFINE seq == SubSeq(Migrations(b), 1, n)
           f == CHOOSE g : g = [s \in SUBSET (1 .. n) |->
                   IF s = {} THEN {} ELSE After(g[s \ {Max(s)}], seq[Max(s)])]
           schemas == [k \in 0 .. n |-> f[1 .. k]]
<1>1. SchemaAfter(b, n) = f[1 .. n]
  BY DEF SchemaAfter, FoldLeft, MapThenFoldSet
<1>2. f = [s \in SUBSET (1 .. n) |-> IF s = {} THEN {} ELSE After(f[s \ {Max(s)}], seq[Max(s)])]
  <2> HIDE DEF seq
  <2>1. \E g : g = [s \in SUBSET (1 .. n) |->
                     IF s = {} THEN {} ELSE After(g[s \ {Max(s)}], seq[Max(s)])]
    <3>1. PICK g : IsSchemaFold(g, seq, n)
      BY SchemaFoldExists
    <3> QED
      BY <3>1 DEF IsSchemaFold
  <2> QED
    BY <2>1, Zenon
<1> HIDE DEF f
<1>3. \A s \in SUBSET (1 .. n) :
         f[s] = IF s = {} THEN {} ELSE After(f[s \ {Max(s)}], seq[Max(s)])
  <2> HIDE DEF seq
  <2>1. PICK h : h = [s \in SUBSET (1 .. n) |->
                        IF s = {} THEN {} ELSE After(f[s \ {Max(s)}], seq[Max(s)])]
    OBVIOUS
  <2>2. f = h
    BY <1>2, <2>1
  <2>3. \A s \in SUBSET (1 .. n) :
           h[s] = IF s = {} THEN {} ELSE After(f[s \ {Max(s)}], seq[Max(s)])
    BY <2>1
  <2> QED
    BY <2>2, <2>3
<1>4. f[1 .. 0] = {}
  <2>1. 1 .. 0 = {} /\ {} \in SUBSET (1 .. n)
    OBVIOUS
  <2> HIDE DEF seq
  <2> QED
    BY <1>3, <2>1
<1>5. ASSUME NEW k \in 1 .. n PROVE f[1 .. k] = After(f[1 .. k - 1], Migrations(b)[k])
  <2>1. /\ 1 .. k \in SUBSET (1 .. n) /\ 1 .. k # {}
        /\ Max(1 .. k) = k /\ (1 .. k) \ {k} = 1 .. k - 1
    BY Prefix
  <2>2. f[1 .. k] = After(f[(1 .. k) \ {Max(1 .. k)}], seq[Max(1 .. k)])
    BY <1>3, <2>1
  <2> QED
    BY <2>1, <2>2
<1>6. /\ schemas[0] = {} /\ schemas[n] = f[1 .. n]
      /\ \A k \in 1 .. n : schemas[k] = f[1 .. k] /\ schemas[k - 1] = f[1 .. k - 1]
  <2>1. \A k \in 1 .. n : k - 1 \in 0 .. n /\ k \in 0 .. n
    OBVIOUS
  <2> QED
    BY <1>4, <2>1
<1> HIDE DEF schemas, seq
<1>7. schemas[0] = {} /\ SchemaAfter(b, n) = schemas[n]
  BY <1>1, <1>6
<1>8. \A k \in 1 .. n : schemas[k] = After(schemas[k - 1], Migrations(b)[k])
  BY <1>5, <1>6
<1> QED
  BY <1>7, <1>8

\* The tables and columns of the migrations.
InitialTables == {"monitor_states", "probe_results", "incidents", "alert_notifications"}
ObserverTables == {"observer_state", "observer_sentinel_results"}
RollupTables ==
    {"probe_minute_rollups", "probe_hourly_rollups", "probe_daily_rollups", "probe_outcome_runs"}
IntervalTables == {"monitor_status_intervals", "monitor_status_interval_backfills"}
AlertTables == {"connectivity_samples", "monitor_alert_states", "pending_monitor_alerts"}

RetryColumns ==
    Columns("alert_notifications", {"attempt_number", "next_retry_at", "retry_exhausted"})
MaintenanceColumns == Columns("monitor_states", {"status_before_maintenance"})
TimeColumns == Columns("probe_results", {"response_time_ms", "maintenance_window_id"})
AttemptColumns == Columns("probe_results", {"attempt_count"})
ObserverColumns == Columns("probe_results", {"observer_suppressed"})
ConnectivityColumns ==
    Columns("probe_results", {"connectivity_suppressed", "failure_kind", "suppression_reason"})

\* The column of the tenant in each table.
TenantIds(tables) == {<<table, "tenant_id">> : table \in tables}

\* The parts of a migration.
HasParts(migration, tables, with, adds, needs) ==
    /\ migration.tables = tables /\ migration.with = with
    /\ migration.adds = adds /\ migration.needs = needs

\* The migrations of SQLite.
LEMMA SQLiteIs ==
    /\ Len(SQLiteMigrations) = 12 /\ DOMAIN SQLiteMigrations = 1 .. 12
    /\ HasParts(SQLiteMigrations[1], InitialTables, {}, {}, {})
    /\ HasParts(SQLiteMigrations[2], {}, {}, RetryColumns, {})
    /\ HasParts(SQLiteMigrations[3], {"maintenance_windows"}, {}, {}, {})
    /\ HasParts(SQLiteMigrations[4], {}, {}, MaintenanceColumns, {})
    /\ HasParts(SQLiteMigrations[5], {}, {}, TimeColumns, {})
    /\ HasParts(SQLiteMigrations[6], {}, {}, AttemptColumns, {})
    /\ HasParts(SQLiteMigrations[7], ObserverTables, {}, ObserverColumns, {})
    /\ HasParts(SQLiteMigrations[8], RollupTables, {}, {}, {})
    /\ HasParts(SQLiteMigrations[9], {"observer_sentinel_events"}, {}, {}, {})
    /\ HasParts(SQLiteMigrations[10], IntervalTables, {}, {}, {})
    /\ HasParts(SQLiteMigrations[11], {}, {}, {}, Rows({"monitor_status_interval_backfills"}))
    /\ HasParts(SQLiteMigrations[12], AlertTables, {}, ConnectivityColumns, {})
<1>1. /\ Len(SQLiteMigrations) = 12 /\ DOMAIN SQLiteMigrations = 1 .. 12
      /\ SQLiteMigrations[1] = InitialSchema
      /\ SQLiteMigrations[2] = AlertNotificationRetries
      /\ SQLiteMigrations[3] = MaintenanceWindows
      /\ SQLiteMigrations[4] = MonitorStatusBeforeMaintenance
      /\ SQLiteMigrations[5] = ProbeResponseTimeAndMaintenance
      /\ SQLiteMigrations[6] = ProbeAttemptCount
      /\ SQLiteMigrations[7] = ObserverHealth
      /\ SQLiteMigrations[8] = ProbeRollups
      /\ SQLiteMigrations[9] = ObserverSentinelEvents
      /\ SQLiteMigrations[10] = MonitorStatusIntervals
      /\ SQLiteMigrations[11] = MaintenanceStatusIntervals
      /\ SQLiteMigrations[12] = ConnectivitySamplesAndDelayedAlerts
  BY DEF SQLiteMigrations
<1>2. /\ HasParts(InitialSchema, InitialTables, {}, {}, {})
      /\ HasParts(MaintenanceWindows, {"maintenance_windows"}, {}, {}, {})
      /\ HasParts(ProbeRollups, RollupTables, {}, {}, {})
      /\ HasParts(ObserverSentinelEvents, {"observer_sentinel_events"}, {}, {}, {})
      /\ HasParts(MonitorStatusIntervals, IntervalTables, {}, {}, {})
  BY DEF HasParts, Creating, InitialSchema, InitialTables, MaintenanceWindows, ProbeRollups,
         RollupTables, ObserverSentinelEvents, MonitorStatusIntervals, IntervalTables
<1>3. /\ HasParts(AlertNotificationRetries, {}, {}, RetryColumns, {})
      /\ HasParts(MonitorStatusBeforeMaintenance, {}, {}, MaintenanceColumns, {})
      /\ HasParts(ProbeResponseTimeAndMaintenance, {}, {}, TimeColumns, {})
      /\ HasParts(ProbeAttemptCount, {}, {}, AttemptColumns, {})
  BY DEF HasParts, Creating, Adding, AlertNotificationRetries, RetryColumns,
         MonitorStatusBeforeMaintenance, MaintenanceColumns, ProbeResponseTimeAndMaintenance,
         TimeColumns, ProbeAttemptCount, AttemptColumns
<1>4. HasParts(ObserverHealth, ObserverTables, {}, ObserverColumns, {})
  BY DEF HasParts, Creating, Adding, ObserverHealth, ObserverTables, ObserverColumns
<1>5. HasParts(MaintenanceStatusIntervals, {}, {}, {}, Rows({"monitor_status_interval_backfills"}))
  BY DEF HasParts, Creating, MaintenanceStatusIntervals
<1>6. HasParts(ConnectivitySamplesAndDelayedAlerts, AlertTables, {}, ConnectivityColumns, {})
  BY DEF HasParts, Creating, ConnectivitySamplesAndDelayedAlerts, AlertTables, ConnectivityColumns
<1> QED
  BY <1>1, <1>2, <1>3, <1>4, <1>5, <1>6

\* What the first migration of PostgreSQL took from 0001 to 0008 of SQLite.
EarlyColumns ==
    RetryColumns \cup MaintenanceColumns \cup TimeColumns \cup AttemptColumns \cup ObserverColumns

EarlyTables ==
    InitialTables \cup {"maintenance_windows"} \cup ObserverTables \cup RollupTables

\* They are what the source makes of the list of migrations.
LEMMA EarlyIs ==
    /\ TenantTables = EarlyTables
    /\ UNION {SQLiteMigrations[i].adds : i \in 1 .. 8} = EarlyColumns
<1>1. /\ SQLiteMigrations[1].tables = InitialTables /\ SQLiteMigrations[1].adds = {}
      /\ SQLiteMigrations[2].tables = {} /\ SQLiteMigrations[2].adds = RetryColumns
      /\ SQLiteMigrations[3].tables = {"maintenance_windows"} /\ SQLiteMigrations[3].adds = {}
      /\ SQLiteMigrations[4].tables = {} /\ SQLiteMigrations[4].adds = MaintenanceColumns
      /\ SQLiteMigrations[5].tables = {} /\ SQLiteMigrations[5].adds = TimeColumns
      /\ SQLiteMigrations[6].tables = {} /\ SQLiteMigrations[6].adds = AttemptColumns
      /\ SQLiteMigrations[7].tables = ObserverTables /\ SQLiteMigrations[7].adds = ObserverColumns
      /\ SQLiteMigrations[8].tables = RollupTables /\ SQLiteMigrations[8].adds = {}
  BY SQLiteIs DEF HasParts
<1>2. \A i : i \in 1 .. 8 <=> i \in {1, 2, 3, 4, 5, 6, 7, 8}
  OBVIOUS
<1>3. ASSUME NEW table
      PROVE  (\E i \in 1 .. 8 : table \in SQLiteMigrations[i].tables) <=> table \in EarlyTables
  BY <1>1, <1>2 DEF EarlyTables
<1>4. ASSUME NEW column
      PROVE  (\E i \in 1 .. 8 : column \in SQLiteMigrations[i].adds) <=> column \in EarlyColumns
  BY <1>1, <1>2 DEF EarlyColumns
<1> QED
  BY <1>3, <1>4 DEF TenantTables

\* The migrations of PostgreSQL.
LEMMA PostgresIs ==
    /\ Len(PostgresMigrations) = 7 /\ DOMAIN PostgresMigrations = 1 .. 7
    /\ HasParts(PostgresMigrations[1], EarlyTables \cup IntervalTables,
                EarlyColumns \cup TenantIds(EarlyTables \cup IntervalTables), {}, {})
    /\ HasParts(PostgresMigrations[2], {}, {}, {}, TenantIds(EarlyTables \ {"observer_state"}))
    /\ HasParts(PostgresMigrations[3], {}, {}, TenantIds(EarlyTables), {})
    /\ HasParts(PostgresMigrations[4], {"observer_sentinel_events"},
                TenantIds({"observer_sentinel_events"}), {}, {})
    /\ HasParts(PostgresMigrations[5], IntervalTables, TenantIds(IntervalTables), {}, {})
    /\ HasParts(PostgresMigrations[6], {}, {}, {}, Rows({"monitor_status_interval_backfills"}))
    /\ HasParts(PostgresMigrations[7], AlertTables, TenantIds(AlertTables), ConnectivityColumns, {})
<1>1. /\ Len(PostgresMigrations) = 7 /\ DOMAIN PostgresMigrations = 1 .. 7
      /\ PostgresMigrations[1] = CurrentSchema
      /\ PostgresMigrations[2] = QueryPathIndexes
      /\ PostgresMigrations[3] = TenantIsolation
      /\ PostgresMigrations[4] = WithTenants(ObserverSentinelEvents)
      /\ PostgresMigrations[5] = WithTenants(MonitorStatusIntervals)
      /\ PostgresMigrations[6] = MaintenanceStatusIntervals
      /\ PostgresMigrations[7] = WithTenants(ConnectivitySamplesAndDelayedAlerts)
  BY DEF PostgresMigrations
<1>2. MonitorStatusIntervals.tables = IntervalTables
  BY DEF Creating, MonitorStatusIntervals, IntervalTables
<1>3. HasParts(CurrentSchema, EarlyTables \cup IntervalTables,
               EarlyColumns \cup TenantIds(EarlyTables \cup IntervalTables), {}, {})
  <2> DEFINE tables == TenantTables \cup MonitorStatusIntervals.tables
             adds == UNION {SQLiteMigrations[i].adds : i \in 1 .. 8}
  <2>1. tables = EarlyTables \cup IntervalTables /\ adds = EarlyColumns
    BY <1>2, EarlyIs
  <2>2. HasParts(CurrentSchema, tables, adds \cup TenantIds(tables), {}, {})
    <3>1. CurrentSchema = [Creating(tables) EXCEPT !.with = adds \cup TenantIds(tables)]
      BY Zenon DEF CurrentSchema, TenantIds
    <3> HIDE DEF tables, adds
    <3> QED
      BY <3>1 DEF HasParts, Creating
  <2> HIDE DEF tables, adds
  <2> QED
    BY <2>1, <2>2
<1>4. HasParts(QueryPathIndexes, {}, {}, {}, TenantIds(EarlyTables \ {"observer_state"}))
  BY EarlyIs DEF HasParts, Creating, QueryPathIndexes, TenantIds
<1>5. HasParts(TenantIsolation, {}, {}, TenantIds(EarlyTables), {})
  BY EarlyIs DEF HasParts, Creating, Adding, TenantIsolation, TenantIds
<1>6. HasParts(WithTenants(ObserverSentinelEvents), {"observer_sentinel_events"},
               TenantIds({"observer_sentinel_events"}), {}, {})
  BY DEF HasParts, WithTenants, Creating, ObserverSentinelEvents, TenantIds
<1>7. HasParts(WithTenants(MonitorStatusIntervals), IntervalTables, TenantIds(IntervalTables),
               {}, {})
  BY DEF HasParts, WithTenants, Creating, MonitorStatusIntervals, IntervalTables, TenantIds
<1>8. HasParts(MaintenanceStatusIntervals, {}, {}, {}, Rows({"monitor_status_interval_backfills"}))
  BY DEF HasParts, Creating, MaintenanceStatusIntervals
<1>9. HasParts(WithTenants(ConnectivitySamplesAndDelayedAlerts), AlertTables,
               TenantIds(AlertTables), ConnectivityColumns, {})
  BY DEF HasParts, WithTenants, Creating, ConnectivitySamplesAndDelayedAlerts, AlertTables,
         ConnectivityColumns, TenantIds
<1> QED
  BY <1>1, <1>3, <1>4, <1>5, <1>6, <1>7, <1>8, <1>9

\* Tables that came after that, in PostgreSQL with a tenant from the beginning.
LaterTables == {"observer_sentinel_events"} \cup IntervalTables \cup AlertTables

\* What the schema has for sure once a migration is recorded.
Gives(b, i) ==
    IF b = "postgres" /\ i = 1 THEN Rows(EarlyTables) \cup EarlyColumns
    ELSE Rows(Migrations(b)[i].tables) \cup Migrations(b)[i].adds

\* A schema once the first n migrations are recorded.
UpTo(b, n, schema) ==
    /\ \A i \in 1 .. n : Gives(b, i) \subseteq schema
    /\ b = "postgres" =>
          /\ n = 0 => schema = {}
          /\ \A table \in LaterTables :
                <<table, "*">> \in schema => <<table, "tenant_id">> \in schema

\* And if a process may still apply the second one.
TenantsKnown(schema) == TenantIds(EarlyTables) \subseteq schema

\* There are 12 of SQLite, and 7 of PostgreSQL.
LEMMA MigrationsAre ==
    /\ Migrations("sqlite") = SQLiteMigrations /\ Migrations("postgres") = PostgresMigrations
    /\ \A b \in Backends : /\ b = "sqlite" \/ b = "postgres"
                           /\ Len(Migrations(b)) \in {12, 7}
                           /\ DOMAIN Migrations(b) = 1 .. Len(Migrations(b))
<1>1. /\ Migrations("sqlite") = SQLiteMigrations /\ Migrations("postgres") = PostgresMigrations
      /\ \A b \in Backends : b = "sqlite" \/ b = "postgres"
  BY DEF Migrations, Backends
<1> QED
  BY <1>1, SQLiteIs, PostgresIs

\* No migration but the first of PostgreSQL needs to come with more than a tenant, which
\* its tables do.
LEMMA TablesHaveTenants ==
    ASSUME NEW i \in 1 .. 7, NEW table \in LaterTables
    PROVE  /\ table \in PostgresMigrations[i].tables
                 => <<table, "tenant_id">> \in PostgresMigrations[i].with
           /\ <<table, "*">> \notin PostgresMigrations[i].with \cup PostgresMigrations[i].adds
<1>1. \A tables : table \in tables => <<table, "tenant_id">> \in TenantIds(tables)
  BY DEF TenantIds
<1>2. \A tables : <<table, "*">> \notin TenantIds(tables)
  BY DEF TenantIds
<1>3. <<table, "*">> \notin EarlyColumns \cup ConnectivityColumns
  BY DEF EarlyColumns, ConnectivityColumns, RetryColumns, MaintenanceColumns, TimeColumns,
         AttemptColumns, ObserverColumns, Columns
<1>4. table \notin EarlyTables
  BY DEF LaterTables, EarlyTables, InitialTables, ObserverTables, RollupTables, IntervalTables,
         AlertTables
<1>5. CASE i = 1
  BY <1>1, <1>2, <1>3, <1>5, PostgresIs DEF HasParts
<1>6. CASE i \in {2, 3, 6}
  BY <1>2, <1>6, PostgresIs DEF HasParts
<1>7. CASE i \in {4, 5}
  BY <1>1, <1>2, <1>7, PostgresIs DEF HasParts
<1>8. CASE i = 7
  BY <1>1, <1>2, <1>3, <1>8, PostgresIs DEF HasParts
<1> QED
  BY <1>5, <1>6, <1>7, <1>8

\* Applying the next one.
LEMMA UpToNext ==
    ASSUME NEW b \in Backends, NEW n \in Nat, n < Len(Migrations(b)), NEW schema, UpTo(b, n, schema)
    PROVE  UpTo(b, n + 1, After(schema, Migrations(b)[n + 1]))
<1> DEFINE migration == Migrations(b)[n + 1]
           next == After(schema, migration)
<1>1. schema \subseteq next /\ Rows(migration.tables) \cup migration.adds \subseteq next
  BY DEF After
<1>2. \A i \in 1 .. n : Gives(b, i) \subseteq next
  BY <1>1 DEF UpTo
<1>3. Gives(b, n + 1) \subseteq next
  <2>1. CASE b = "postgres" /\ n = 0
    <3>1. schema = {}
      BY <2>1 DEF UpTo
    <3>2. /\ migration.tables = EarlyTables \cup IntervalTables
          /\ migration.with = EarlyColumns \cup TenantIds(EarlyTables \cup IntervalTables)
      <4>1. n + 1 = 1
        BY <2>1
      <4>2. migration = PostgresMigrations[1]
        BY <2>1, <4>1, MigrationsAre
      <4> HIDE DEF migration
      <4> QED
        BY <4>2, PostgresIs DEF HasParts
    <3>3. migration.with \subseteq next
      BY <3>1 DEF After
    <3>4. Rows(EarlyTables) \subseteq Rows(EarlyTables \cup IntervalTables)
      BY DEF Rows
    <3>5. Gives(b, 1) = Rows(EarlyTables) \cup EarlyColumns
      BY <2>1 DEF Gives
    <3> HIDE DEF next, migration
    <3>6. Rows(EarlyTables) \cup EarlyColumns \subseteq next
      BY <1>1, <3>2, <3>3, <3>4
    <3> QED
      BY <2>1, <3>5, <3>6
  <2>2. CASE ~(b = "postgres" /\ n = 0)
    BY <1>1, <2>2 DEF Gives
  <2> QED
    BY <2>1, <2>2
<1>4. ASSUME b = "postgres", NEW table \in LaterTables, <<table, "*">> \in next
      PROVE  <<table, "tenant_id">> \in next
  <2>1. n + 1 \in 1 .. 7 /\ migration = PostgresMigrations[n + 1]
    BY <1>4, MigrationsAre, PostgresIs
  <2>2. CASE <<table, "*">> \in schema
    BY <1>1, <1>4, <2>2 DEF UpTo
  <2>3. CASE <<table, "*">> \notin schema
    <3>1. <<table, "*">> \in Rows(migration.tables)
      <4>1. <<table, "*">> \notin migration.with \cup migration.adds
        BY <2>1, TablesHaveTenants
      <4> QED
        BY <1>4, <2>3, <4>1 DEF After
    <3>2. table \in migration.tables
      BY <3>1 DEF Rows
    <3>3. PICK column : column = <<table, "tenant_id">>
      OBVIOUS
    <3>4. column \in migration.with /\ <<column[1], "*">> \notin schema
      BY <2>1, <2>3, <3>2, <3>3, TablesHaveTenants
    <3>5. column \in next
      BY <3>4 DEF After
    <3> QED
      BY <3>3, <3>5
  <2> QED
    BY <2>2, <2>3
<1> HIDE DEF next, migration
<1>5. UpTo(b, n + 1, next)
  <2>1. \A i \in 1 .. n + 1 : i \in 1 .. n \/ i = n + 1
    OBVIOUS
  <2>2. \A i \in 1 .. n + 1 : Gives(b, i) \subseteq next
    BY <1>2, <1>3, <2>1
  <2>3. n + 1 # 0
    OBVIOUS
  <2> QED
    BY <1>4, <2>2, <2>3 DEF UpTo
<1> QED
  BY <1>5 DEF next, migration

\* Once a process lists the migrations as the first n, with the second one among them
\* unless the tenants are known, each of the next ones can be applied, though another
\* process may have applied it already.
LEMMA IsApplicable ==
    ASSUME NEW b \in Backends, NEW n \in Nat, NEW i \in 1 .. Len(Migrations(b)), i <= n + 1,
           NEW schema, UpTo(b, n, schema),
           b = "postgres" /\ i = 2 => TenantsKnown(schema)
    PROVE  Applicable(schema, Migrations(b)[i])
<1>1. ASSUME NEW j \in 1 .. i - 1 PROVE Gives(b, j) \subseteq schema
  BY DEF UpTo
<1>2. /\ "alert_notifications" \in InitialTables /\ "monitor_states" \in InitialTables
      /\ "probe_results" \in InitialTables /\ InitialTables \subseteq EarlyTables
      /\ "monitor_status_interval_backfills" \in IntervalTables
  BY DEF InitialTables, EarlyTables, IntervalTables
<1>3. \A table, tables : table \in tables => <<table, "*">> \in Rows(tables)
  BY DEF Rows
<1>4. \A table, names :
         Rows({column[1] : column \in Columns(table, names)}) \subseteq {<<table, "*">>}
  BY DEF Rows, Columns
<1>5. Rows({column[1] : column \in {}}) = {}
  BY DEF Rows
<1>6. CASE b = "sqlite"
  <2>1. i \in 1 .. 12 /\ Migrations(b)[i] = SQLiteMigrations[i]
    BY <1>6, MigrationsAre, SQLiteIs
  <2>2. i > 1 => Rows(InitialTables) \subseteq schema
    <3>1. Gives(b, 1) = Rows(InitialTables)
      BY <1>6, MigrationsAre, SQLiteIs DEF Gives, HasParts
    <3> QED
      BY <1>1, <3>1
  <2>3. i > 10 => Rows(IntervalTables) \subseteq schema
    <3>1. Gives(b, 10) = Rows(IntervalTables)
      BY <1>6, MigrationsAre, SQLiteIs DEF Gives, HasParts
    <3> QED
      BY <1>1, <2>1, <3>1
  <2>4. CASE i \in {1, 3, 8, 9, 10}
    BY <1>5, <2>1, <2>4, SQLiteIs DEF Applicable, HasParts
  <2>5. CASE i = 2
    BY <1>2, <1>3, <1>4, <2>1, <2>2, <2>5, SQLiteIs DEF Applicable, HasParts, RetryColumns
  <2>6. CASE i = 4
    BY <1>2, <1>3, <1>4, <2>1, <2>2, <2>6, SQLiteIs DEF Applicable, HasParts, MaintenanceColumns
  <2>7. CASE i = 5
    BY <1>2, <1>3, <1>4, <2>1, <2>2, <2>7, SQLiteIs DEF Applicable, HasParts, TimeColumns
  <2>8. CASE i = 6
    BY <1>2, <1>3, <1>4, <2>1, <2>2, <2>8, SQLiteIs DEF Applicable, HasParts, AttemptColumns
  <2>9. CASE i = 7
    BY <1>2, <1>3, <1>4, <2>1, <2>2, <2>9, SQLiteIs DEF Applicable, HasParts, ObserverColumns
  <2>10. CASE i = 11
    BY <1>2, <1>3, <1>5, <2>1, <2>3, <2>10, SQLiteIs DEF Applicable, HasParts, Rows
  <2>11. CASE i = 12
    BY <1>2, <1>3, <1>4, <2>1, <2>2, <2>11, SQLiteIs DEF Applicable, HasParts, ConnectivityColumns
  <2> QED
    BY <2>1, <2>4, <2>5, <2>6, <2>7, <2>8, <2>9, <2>10, <2>11
<1>7. CASE b = "postgres"
  <2>1. i \in 1 .. 7 /\ Migrations(b)[i] = PostgresMigrations[i]
    BY <1>7, MigrationsAre, PostgresIs
  <2>2. i > 1 => Rows(EarlyTables) \subseteq schema
    <3>1. Rows(EarlyTables) \subseteq Gives(b, 1)
      BY <1>7 DEF Gives
    <3> QED
      BY <1>1, <3>1
  <2>3. i > 5 => Rows(IntervalTables) \subseteq schema
    <3>1. Gives(b, 5) = Rows(IntervalTables)
      BY <1>7, MigrationsAre, PostgresIs DEF Gives, HasParts
    <3> QED
      BY <1>1, <2>1, <3>1
  <2>4. CASE i \in {1, 4, 5}
    BY <1>5, <2>1, <2>4, PostgresIs DEF Applicable, HasParts
  <2>5. CASE i = 2
    <3>1. TenantIds(EarlyTables \ {"observer_state"}) \subseteq schema
      BY <1>7, <2>5 DEF TenantsKnown, TenantIds
    <3> QED
      BY <1>5, <2>1, <2>5, <3>1, PostgresIs DEF Applicable, HasParts
  <2>6. CASE i = 3
    <3>1. Rows({column[1] : column \in TenantIds(EarlyTables)}) \subseteq Rows(EarlyTables)
      BY DEF Rows, TenantIds
    <3> QED
      BY <2>1, <2>2, <2>6, <3>1, PostgresIs DEF Applicable, HasParts
  <2>7. CASE i = 6
    BY <1>2, <1>3, <1>5, <2>1, <2>3, <2>7, PostgresIs DEF Applicable, HasParts, Rows
  <2>8. CASE i = 7
    <3>1. <<"probe_results", "*">> \in schema
      BY <1>2, <1>3, <2>2, <2>8
    <3> QED
      BY <1>4, <2>1, <2>8, <3>1, PostgresIs DEF Applicable, HasParts, ConnectivityColumns
  <2> QED
    BY <2>1, <2>4, <2>5, <2>6, <2>7, <2>8
<1> QED
  BY <1>6, <1>7, MigrationsAre

\* Once all migrations are recorded there is everything that the store names.
LEMMA AllIsInUse ==
    ASSUME NEW b \in Backends, NEW schema, UpTo(b, Len(Migrations(b)), schema)
    PROVE  SchemaInUse(b) \subseteq schema
<1> DEFINE tables == TenantTables \cup {"observer_sentinel_events"}
                     \cup MonitorStatusIntervals.tables
                     \cup {"connectivity_samples", "monitor_alert_states", "pending_monitor_alerts"}
           columns == Columns("probe_results", {"response_time_ms", "attempt_count",
                                                "maintenance_window_id", "observer_suppressed",
                                                "connectivity_suppressed", "failure_kind",
                                                "suppression_reason"})
              \cup Columns("alert_notifications",
                           {"attempt_number", "next_retry_at", "retry_exhausted"})
              \cup Columns("monitor_states", {"status_before_maintenance"})
<1>1. tables = EarlyTables \cup LaterTables
  <2>1. MonitorStatusIntervals.tables = IntervalTables
    BY DEF Creating, MonitorStatusIntervals, IntervalTables
  <2> QED
    BY <2>1, EarlyIs DEF LaterTables, AlertTables
<1>2. columns = EarlyColumns \cup ConnectivityColumns
  BY DEF Columns, EarlyColumns, ConnectivityColumns, RetryColumns, MaintenanceColumns, TimeColumns,
         AttemptColumns, ObserverColumns
<1>3. SchemaInUse(b) = Rows(tables) \cup columns
         \cup IF b = "sqlite" THEN {} ELSE {<<table, "tenant_id">> : table \in tables}
  BY DEF SchemaInUse
<1> HIDE DEF tables, columns
<1>4. \A i \in 1 .. Len(Migrations(b)) : Gives(b, i) \subseteq schema
  BY DEF UpTo
<1>5. \A some : Rows(some) \subseteq schema <=> \A table \in some : <<table, "*">> \in schema
  BY DEF Rows
<1>6. CASE b = "sqlite"
  <2>1. ASSUME NEW i \in 1 .. 12
        PROVE  /\ Rows(SQLiteMigrations[i].tables) \subseteq schema
               /\ SQLiteMigrations[i].adds \subseteq schema
    <3>1. Gives(b, i) \subseteq schema
      BY <1>4, <1>6, MigrationsAre, SQLiteIs
    <3> QED
      BY <1>6, <3>1, MigrationsAre DEF Gives
  <2>2. /\ Rows(InitialTables) \subseteq schema /\ RetryColumns \subseteq schema
        /\ Rows({"maintenance_windows"}) \subseteq schema /\ MaintenanceColumns \subseteq schema
        /\ TimeColumns \subseteq schema /\ AttemptColumns \subseteq schema
    <3>1. /\ Rows(SQLiteMigrations[1].tables) \subseteq schema
          /\ SQLiteMigrations[2].adds \subseteq schema
          /\ Rows(SQLiteMigrations[3].tables) \subseteq schema
          /\ SQLiteMigrations[4].adds \subseteq schema
          /\ SQLiteMigrations[5].adds \subseteq schema
          /\ SQLiteMigrations[6].adds \subseteq schema
      BY <2>1
    <3> QED
      BY <3>1, SQLiteIs DEF HasParts
  <2>3. /\ Rows(ObserverTables) \subseteq schema /\ ObserverColumns \subseteq schema
        /\ Rows(RollupTables) \subseteq schema
        /\ Rows({"observer_sentinel_events"}) \subseteq schema
        /\ Rows(IntervalTables) \subseteq schema
        /\ Rows(AlertTables) \subseteq schema /\ ConnectivityColumns \subseteq schema
    <3>1. /\ Rows(SQLiteMigrations[7].tables) \subseteq schema
          /\ SQLiteMigrations[7].adds \subseteq schema
          /\ Rows(SQLiteMigrations[8].tables) \subseteq schema
          /\ Rows(SQLiteMigrations[9].tables) \subseteq schema
          /\ Rows(SQLiteMigrations[10].tables) \subseteq schema
          /\ Rows(SQLiteMigrations[12].tables) \subseteq schema
          /\ SQLiteMigrations[12].adds \subseteq schema
      BY <2>1
    <3> QED
      BY <3>1, SQLiteIs DEF HasParts
  <2>4. Rows(EarlyTables) \subseteq schema /\ EarlyColumns \subseteq schema
    BY <1>5, <2>2, <2>3 DEF EarlyTables, EarlyColumns
  <2>5. Rows(LaterTables) \subseteq schema
    BY <1>5, <2>3 DEF LaterTables
  <2> QED
    BY <1>1, <1>2, <1>3, <1>5, <1>6, <2>3, <2>4, <2>5
<1>7. CASE b = "postgres"
  <2>1. /\ \A i \in 1 .. 7 : Gives(b, i) \subseteq schema
        /\ Gives(b, 1) = Rows(EarlyTables) \cup EarlyColumns
        /\ \A i \in 2 .. 7 :
              Gives(b, i) = Rows(PostgresMigrations[i].tables) \cup PostgresMigrations[i].adds
    BY <1>4, <1>7, MigrationsAre, PostgresIs DEF Gives
  <2>7. /\ Rows(EarlyTables) \cup EarlyColumns \subseteq schema
        /\ \A i \in 2 .. 7 : /\ Rows(PostgresMigrations[i].tables) \subseteq schema
                             /\ PostgresMigrations[i].adds \subseteq schema
    BY <2>1
  <2>2. /\ Rows(EarlyTables) \subseteq schema /\ EarlyColumns \subseteq schema
        /\ TenantIds(EarlyTables) \subseteq schema
        /\ Rows({"observer_sentinel_events"}) \subseteq schema
        /\ Rows(IntervalTables) \subseteq schema
        /\ Rows(AlertTables) \subseteq schema /\ ConnectivityColumns \subseteq schema
    <3>1. /\ PostgresMigrations[3].adds \subseteq schema
          /\ Rows(PostgresMigrations[4].tables) \subseteq schema
          /\ Rows(PostgresMigrations[5].tables) \subseteq schema
          /\ Rows(PostgresMigrations[7].tables) \subseteq schema
          /\ PostgresMigrations[7].adds \subseteq schema
      BY <2>7
    <3> QED
      BY <2>7, <3>1, PostgresIs DEF HasParts
  <2>3. Rows(LaterTables) \subseteq schema
    BY <1>5, <2>2 DEF LaterTables
  <2>4. ASSUME NEW table \in tables PROVE <<table, "tenant_id">> \in schema
    <3>1. CASE table \in EarlyTables
      BY <2>2, <3>1 DEF TenantIds
    <3>2. CASE table \in LaterTables
      <4>1. <<table, "*">> \in schema
        BY <2>3, <3>2 DEF Rows
      <4> QED
        BY <1>7, <3>2, <4>1 DEF UpTo
    <3> QED
      BY <1>1, <3>1, <3>2
  <2>5. {<<table, "tenant_id">> : table \in tables} \subseteq schema
    BY <2>4
  <2>6. Rows(tables) \subseteq schema /\ columns \subseteq schema
    BY <1>1, <1>2, <1>5, <2>2, <2>3
  <2> QED
    BY <1>3, <1>7, <2>5, <2>6
<1> QED
  BY <1>6, <1>7, MigrationsAre

-----------------------------------------------------------------------------
(* The databases that earlier versions may have left *)

\* SchemaAfterEach of the migrations there are.
LEMMA SchemasGoOn ==
    ASSUME NEW b \in Backends, NEW n \in 0 .. Len(Migrations(b))
    PROVE  \E schemas :
              /\ schemas[0] = {}
              /\ SchemaAfter(b, n) = schemas[n]
              /\ \A k \in 1 .. n : schemas[k] = After(schemas[k - 1], Migrations(b)[k])
<1>1. PICK migrations : migrations = Migrations(b)
  OBVIOUS
<1>2. Len(migrations) \in Nat /\ DOMAIN migrations = 1 .. Len(migrations)
  BY <1>1, MigrationsAre
<1>3. /\ DOMAIN SubSeq(migrations, 1, n) = 1 .. n
      /\ \A i \in 1 .. n : SubSeq(migrations, 1, n)[i] = migrations[i]
  BY <1>2
<1>4. n \in Nat /\ n <= Len(Migrations(b))
  BY <1>1, <1>2
<1> QED
  BY <1>1, <1>3, <1>4, SchemaAfterEach

\* A database that recorded its migrations has what they gave it.
LEMMA UpToRecorded ==
    ASSUME NEW b \in Backends, NEW n \in 0 .. Len(Migrations(b))
    PROVE  UpTo(b, n, SchemaAfter(b, n))
<1>1. PICK schemas :
         /\ schemas[0] = {}
         /\ SchemaAfter(b, n) = schemas[n]
         /\ \A k \in 1 .. n : schemas[k] = After(schemas[k - 1], Migrations(b)[k])
  BY SchemasGoOn
<1> DEFINE bad == {k \in 0 .. n : ~UpTo(b, k, schemas[k])}
<1>2. 0 \notin bad
  BY <1>1 DEF UpTo
<1>3. bad \in SUBSET Nat
  OBVIOUS
<1>4. ASSUME NEW k \in 0 .. n, k # 0, k - 1 \notin bad PROVE k \notin bad
  <2>1. UpTo(b, k - 1, schemas[k - 1]) /\ k - 1 \in Nat /\ k - 1 < Len(Migrations(b))
    BY <1>4, MigrationsAre
  <2>2. k - 1 + 1 = k /\ k \in 1 .. n
    BY <1>4
  <2>3. UpTo(b, k - 1 + 1, After(schemas[k - 1], Migrations(b)[k - 1 + 1]))
    BY <2>1, UpToNext
  <2>4. UpTo(b, k, schemas[k])
    BY <1>1, <2>2, <2>3
  <2> QED
    BY <2>4
<1>5. bad = {}
  <2> SUFFICES ASSUME bad # {} PROVE FALSE
    OBVIOUS
  <2> HIDE DEF bad
  <2>1. PICK least \in bad : \A k \in bad : least <= k
    BY <1>3, LeastExists
  <2>2. least \in 0 .. n
    BY <2>1 DEF bad
  <2>3. least # 0 /\ least - 1 \notin bad
    BY <1>2, <1>3, <2>1
  <2> QED
    BY <1>4, <2>1, <2>2, <2>3
<1>6. n \in 0 .. n /\ n \notin bad
  <2>1. n \in 0 .. n
    BY MigrationsAre
  <2> HIDE DEF bad
  <2> QED
    BY <1>5, <2>1
<1> QED
  BY <1>1, <1>6

\* PostgreSQL stores of versions without tenants have what SQLite got by 0001 to 0008.
LEMMA UpToTenantless == UpTo("postgres", 2, SchemaAfter("sqlite", 8))
<1>1. "sqlite" \in Backends /\ "postgres" \in Backends /\ 8 \in 0 .. Len(Migrations("sqlite"))
  <2>1. Len(Migrations("sqlite")) = 12
    BY MigrationsAre, SQLiteIs
  <2> QED
    BY <2>1 DEF Backends
<1>2. PICK schemas :
         /\ schemas[0] = {}
         /\ SchemaAfter("sqlite", 8) = schemas[8]
         /\ \A k \in 1 .. 8 : schemas[k] = After(schemas[k - 1], Migrations("sqlite")[k])
  BY <1>1, SchemasGoOn
<1> DEFINE early == Rows(EarlyTables) \cup EarlyColumns
<1>3. ASSUME NEW k \in 1 .. 8, schemas[k - 1] \subseteq early PROVE schemas[k] \subseteq early
  <2>1. PICK migration : migration = SQLiteMigrations[k]
    OBVIOUS
  <2>2. /\ migration.tables \subseteq EarlyTables /\ migration.adds \subseteq EarlyColumns
        /\ migration.with = {}
    <3>1. migration.tables \subseteq EarlyTables /\ migration.adds \subseteq EarlyColumns
      <4>1. /\ \A table \in SQLiteMigrations[k].tables : table \in TenantTables
            /\ \A column \in SQLiteMigrations[k].adds :
                  column \in UNION {SQLiteMigrations[i].adds : i \in 1 .. 8}
        BY DEF TenantTables
      <4> QED
        BY <2>1, <4>1, EarlyIs
    <3>2. k \in {1, 2, 3, 4, 5, 6, 7, 8}
      OBVIOUS
    <3>3. migration.with = {}
      BY <2>1, <3>2, SQLiteIs DEF HasParts
    <3> QED
      BY <3>1, <3>3
  <2>3. Rows(migration.tables) \subseteq Rows(EarlyTables)
    BY <2>2 DEF Rows
  <2>4. schemas[k] = After(schemas[k - 1], migration)
    BY <1>2, <2>1, MigrationsAre
  <2> QED
    BY <1>3, <2>2, <2>3, <2>4 DEF After
<1>4. schemas[8] \subseteq early
  <2> HIDE DEF early
  <2>1. schemas[1 - 1] \subseteq early
    BY <1>2
  <2>2. schemas[2 - 1] \subseteq early
    BY <1>3, <2>1
  <2>3. schemas[3 - 1] \subseteq early
    BY <1>3, <2>2
  <2>4. schemas[4 - 1] \subseteq early
    BY <1>3, <2>3
  <2>5. schemas[5 - 1] \subseteq early
    BY <1>3, <2>4
  <2>6. schemas[6 - 1] \subseteq early
    BY <1>3, <2>5
  <2>7. schemas[7 - 1] \subseteq early
    BY <1>3, <2>6
  <2>8. schemas[8 - 1] \subseteq early
    BY <1>3, <2>7
  <2> QED
    BY <1>3, <2>8
<1>5. ASSUME NEW table \in LaterTables PROVE <<table, "*">> \notin schemas[8]
  <2>1. table \notin EarlyTables
    BY DEF LaterTables, EarlyTables, InitialTables, ObserverTables, RollupTables, IntervalTables,
           AlertTables
  <2>2. <<table, "*">> \notin Rows(EarlyTables)
    BY <2>1 DEF Rows
  <2>3. <<table, "*">> \notin EarlyColumns
    BY DEF EarlyColumns, RetryColumns, MaintenanceColumns, TimeColumns, AttemptColumns,
           ObserverColumns, Columns
  <2> QED
    BY <1>4, <2>2, <2>3
<1>6. early \subseteq schemas[8]
  <2>1. ASSUME NEW i \in 1 .. 8
        PROVE  /\ Rows(SQLiteMigrations[i].tables) \subseteq schemas[8]
               /\ SQLiteMigrations[i].adds \subseteq schemas[8]
    <3>1. Gives("sqlite", i) \subseteq schemas[8]
      BY <1>1, <1>2, UpToRecorded DEF UpTo
    <3> QED
      BY <3>1, MigrationsAre DEF Gives
  <2>2. EarlyColumns \subseteq schemas[8]
    BY <2>1, EarlyIs
  <2>3. ASSUME NEW table \in EarlyTables PROVE <<table, "*">> \in schemas[8]
    <3>1. PICK i \in 1 .. 8 : table \in SQLiteMigrations[i].tables
      BY EarlyIs DEF TenantTables
    <3> QED
      BY <2>1, <3>1 DEF Rows
  <2> QED
    BY <2>2, <2>3 DEF Rows
<1>7. \A i \in 1 .. 2 : Gives("postgres", i) \subseteq early
  <2>1. Gives("postgres", 1) = early
    BY DEF Gives
  <2>2. Gives("postgres", 2) = {}
    BY MigrationsAre, PostgresIs DEF Gives, HasParts, Rows
  <2> HIDE DEF early
  <2>3. \A i \in 1 .. 2 : i = 1 \/ i = 2
    OBVIOUS
  <2> QED
    BY <2>1, <2>2, <2>3
<1> HIDE DEF early
<1>8. \A i \in 1 .. 2 : Gives("postgres", i) \subseteq schemas[8]
  BY <1>6, <1>7
<1> QED
  BY <1>2, <1>5, <1>8 DEF UpTo

\* Its first migration lets PostgreSQL know the tenants of a store that has nothing.
LEMMA FirstKnowsTenants == TenantsKnown(After({}, PostgresMigrations[1]))
<1>1. TenantIds(EarlyTables) \subseteq PostgresMigrations[1].with
  BY PostgresIs DEF HasParts, TenantIds
<1>2. PostgresMigrations[1].with \subseteq After({}, PostgresMigrations[1])
  BY DEF After
<1> QED
  BY <1>1, <1>2 DEF TenantsKnown

\* The first n migrations are recorded, and their tables and columns there.
DatabaseIsUpTo(n) ==
    /\ database.recorded = 1 .. n
    /\ UpTo(backend, n, database.schema)
    /\ backend = "postgres" /\ n = 1 => TenantsKnown(database.schema)

\* The state of a process.
OpenerType ==
    [pc : {"closed", "listed", "applying", "broken", "open"}, applied : SUBSET Nat, next : Nat]

\* What a process knows of the database.
OpenerKnows(p) ==
    /\ openers[p].pc # "broken"
    /\ openers[p].applied \subseteq database.recorded
    /\ openers[p].pc # "closed" /\ backend = "postgres" /\ 1 \in database.recorded
          /\ 2 \notin openers[p].applied => TenantsKnown(database.schema)
    /\ openers[p].pc \in {"listed", "open"} => 1 .. openers[p].next \subseteq database.recorded
    /\ openers[p].pc = "applying" =>
          /\ writer = p /\ openers[p].next \in DOMAIN Steps
          /\ 1 .. openers[p].next - 1 \subseteq database.recorded
    /\ openers[p].pc = "open" => Left(p) = {}

\* The inductive invariant.
SchemaInv ==
    /\ backend \in Backends
    /\ DOMAIN database = {"schema", "recorded", "marked"}
    /\ \E n \in 0 .. Len(Steps) : DatabaseIsUpTo(n)
    /\ openers \in [Openers -> OpenerType]
    /\ \A p \in Openers : OpenerKnows(p)
    /\ filled \in BOOLEAN /\ (filled => database.marked)

\* A process that has not opened the store.
LEMMA ClosedFields ==
    /\ Closed \in OpenerType /\ Closed.pc = "closed" /\ Closed.applied = {} /\ Closed.next = 0
  BY DEF Closed, OpenerType

\* A database of a version that recorded its migrations.
LEMMA RecordedUpToIs ==
    ASSUME NEW b \in Backends, NEW n \in 0 .. Len(Migrations(b)), NEW db, db = RecordedUpTo(b, n)
    PROVE  /\ DOMAIN db = {"schema", "recorded", "marked"} /\ db.recorded = 1 .. n
           /\ UpTo(b, n, db.schema)
           /\ b = "postgres" /\ n = 1 => TenantsKnown(db.schema)
<1>1. /\ DOMAIN db = {"schema", "recorded", "marked"} /\ db.recorded = 1 .. n
      /\ db.schema = SchemaAfter(b, n)
  BY DEF RecordedUpTo
<1>2. UpTo(b, n, db.schema)
  BY <1>1, UpToRecorded
<1>3. ASSUME b = "postgres", n = 1 PROVE TenantsKnown(db.schema)
  <2>1. PICK schemas :
           /\ schemas[0] = {}
           /\ SchemaAfter(b, n) = schemas[n]
           /\ \A k \in 1 .. n : schemas[k] = After(schemas[k - 1], Migrations(b)[k])
    BY SchemasGoOn
  <2>2. schemas[1] = After(schemas[1 - 1], Migrations(b)[1])
    BY <1>3, <2>1
  <2>3. schemas[1] = After({}, PostgresMigrations[1])
    <3>1. Migrations(b) = PostgresMigrations /\ 1 - 1 = 0
      BY <1>3, MigrationsAre
    <3> QED
      BY <2>1, <2>2, <3>1
  <2> QED
    BY <1>1, <1>3, <2>1, <2>3, FirstKnowsTenants
<1> QED
  BY <1>1, <1>2, <1>3

\* The databases that earlier versions may have left.
LEMMA SchemaInitKeeps == SchemaInit => SchemaInv
<1> SUFFICES ASSUME SchemaInit PROVE SchemaInv
  OBVIOUS
<1>1. /\ backend \in Backends /\ database \in Databases(backend)
      /\ filled = FALSE /\ filled \in BOOLEAN
      /\ openers \in [Openers -> OpenerType] /\ \A p \in Openers : openers[p] = Closed
  BY ClosedFields DEF SchemaInit
<1>2. \A p \in Openers : OpenerKnows(p)
  BY <1>1, ClosedFields DEF OpenerKnows
<1>3. /\ DOMAIN database = {"schema", "recorded", "marked"}
      /\ \E n \in 0 .. Len(Steps) : DatabaseIsUpTo(n)
  <2>1. CASE \E n \in 0 .. Len(Migrations(backend)) : database = RecordedUpTo(backend, n)
    <3>1. PICK n \in 0 .. Len(Migrations(backend)) : database = RecordedUpTo(backend, n)
      BY <2>1
    <3>2. /\ DOMAIN database = {"schema", "recorded", "marked"} /\ database.recorded = 1 .. n
          /\ UpTo(backend, n, database.schema)
          /\ backend = "postgres" /\ n = 1 => TenantsKnown(database.schema)
      BY <1>1, <3>1, RecordedUpToIs
    <3> QED
      BY <3>2 DEF DatabaseIsUpTo, Steps
  <2>2. CASE backend = "sqlite" /\ database \in Unrecorded
    <3>1. PICK schema : database = [schema |-> schema, recorded |-> {}, marked |-> FALSE]
      BY <2>2 DEF Unrecorded
    <3>2. DOMAIN database = {"schema", "recorded", "marked"} /\ database.recorded = {}
      BY <3>1
    <3>3. UpTo(backend, 0, database.schema)
      BY <2>2 DEF UpTo
    <3>4. 1 .. 0 = {} /\ 0 \in 0 .. Len(Steps)
      BY <1>1, MigrationsAre DEF Steps
    <3>5. DatabaseIsUpTo(0)
      BY <2>2, <3>2, <3>3, <3>4 DEF DatabaseIsUpTo
    <3> QED
      BY <3>2, <3>4, <3>5
  <2>3. CASE backend = "postgres" /\ database \in Tenantless
    <3>1. database = [schema |-> SchemaAfter("sqlite", 8), recorded |-> 1 .. 2, marked |-> FALSE]
      BY <2>3 DEF Tenantless
    <3>2. /\ DOMAIN database = {"schema", "recorded", "marked"} /\ database.recorded = 1 .. 2
          /\ database.schema = SchemaAfter("sqlite", 8)
      BY <3>1
    <3>3. 2 \in 0 .. Len(Steps)
      BY <2>3, MigrationsAre, PostgresIs DEF Steps
    <3>4. DatabaseIsUpTo(2)
      BY <2>3, <3>2, UpToTenantless DEF DatabaseIsUpTo
    <3> QED
      BY <3>2, <3>3, <3>4
  <2> QED
    BY <1>1, <2>1, <2>2, <2>3, MigrationsAre DEF Databases
<1> QED
  BY <1>1, <1>2, <1>3 DEF SchemaInv

\* A step of one process that leaves the database alone.
LEMMA OneOpener ==
    ASSUME SchemaInv, NEW p \in Openers, NEW next \in OpenerType,
           openers' = [openers EXCEPT ![p] = next],
           UNCHANGED <<backend, database, filled>>,
           \A q \in Openers \ {p} : openers[q].pc = "applying" => writer' = writer,
           next.pc # "broken",
           next.applied \subseteq database.recorded,
           next.pc # "closed" /\ backend = "postgres" /\ 1 \in database.recorded
              /\ 2 \notin next.applied => TenantsKnown(database.schema),
           next.pc \in {"listed", "open"} => 1 .. next.next \subseteq database.recorded,
           next.pc = "applying" =>
              /\ writer' = p /\ next.next \in DOMAIN Steps
              /\ 1 .. next.next - 1 \subseteq database.recorded,
           next.pc = "open" => {i \in DOMAIN Steps : i > next.next} \ next.applied = {}
    PROVE  SchemaInv'
<1>1. /\ openers' \in [Openers -> OpenerType] /\ openers'[p] = next
      /\ \A q \in Openers : q # p => openers'[q] = openers[q]
  BY DEF SchemaInv
<1>2. Steps' = Steps
  BY DEF Steps
<1>3. \A n : DatabaseIsUpTo(n)' <=> DatabaseIsUpTo(n)
  BY DEF DatabaseIsUpTo
<1>4. ASSUME NEW q \in Openers PROVE OpenerKnows(q)'
  <2>1. CASE q = p
    BY <1>1, <1>2, <2>1 DEF OpenerKnows, Left
  <2>2. CASE q # p
    <3>1. openers'[q] = openers[q] /\ OpenerKnows(q)
      BY <1>1, <2>2 DEF SchemaInv
    <3>2. openers[q].pc = "applying" => writer' = writer
      BY <2>2
    <3> QED
      BY <1>2, <3>1, <3>2 DEF OpenerKnows, Left
  <2> QED
    BY <2>1, <2>2
<1> QED
  BY <1>1, <1>2, <1>3, <1>4 DEF SchemaInv

\* The migrations of the store at hand.
LEMMA StepsAre ==
    ASSUME SchemaInv
    PROVE  Len(Steps) \in Nat /\ DOMAIN Steps = 1 .. Len(Steps) /\ Steps = Migrations(backend)
  BY MigrationsAre DEF SchemaInv, Steps

\* A process that lists the migrations sees all that are recorded.
LEMMA ListAppliedKeeps == ASSUME SchemaInv, NEW p \in Openers, ListApplied(p) PROVE SchemaInv'
<1>1. PICK next : next = [pc |-> "listed", applied |-> database.recorded, next |-> 0]
  OBVIOUS
<1>2. PICK n \in 0 .. Len(Steps) : DatabaseIsUpTo(n)
  BY DEF SchemaInv
<1>3. n \in Nat /\ database.recorded = 1 .. n
  BY <1>2, StepsAre DEF DatabaseIsUpTo
<1>4. /\ next \in OpenerType /\ next.pc = "listed" /\ next.applied = database.recorded
      /\ next.next = 0
  BY <1>1, <1>3 DEF OpenerType
<1>5. 1 .. next.next \subseteq database.recorded
  BY <1>4
<1>6. ASSUME backend = "postgres", 1 \in database.recorded, 2 \notin next.applied
      PROVE  TenantsKnown(database.schema)
  <2>1. n = 1
    BY <1>3, <1>4, <1>6
  <2> QED
    BY <1>2, <1>6, <2>1 DEF DatabaseIsUpTo
<1>7. openers' = [openers EXCEPT ![p] = next] /\ UNCHANGED <<backend, database, writer, filled>>
  BY <1>1 DEF ListApplied
<1> QED
  BY <1>4, <1>5, <1>6, <1>7, OneOpener

\* The first migration that a process did not list is at most one ahead of those recorded,
\* and can be applied.
LEMMA BeginMigrationKeeps ==
    ASSUME SchemaInv, NEW p \in Openers, BeginMigration(p)
    PROVE  SchemaInv'
<1>1. PICK i : i = Min(Left(p))
  OBVIOUS
<1>2. PICK opener : opener = openers[p]
  OBVIOUS
<1>3. PICK n \in 0 .. Len(Steps) : DatabaseIsUpTo(n)
  BY DEF SchemaInv
<1>4. /\ opener \in OpenerType /\ opener.pc = "listed" /\ opener.next \in Nat
      /\ opener.applied \subseteq 1 .. n /\ 1 .. opener.next \subseteq 1 .. n
      /\ n \in Nat /\ database.recorded = 1 .. n
      /\ backend = "postgres" /\ 1 \in 1 .. n /\ 2 \notin opener.applied
            => TenantsKnown(database.schema)
  <2>1. OpenerKnows(p) /\ database.recorded = 1 .. n /\ n \in Nat
    BY <1>3, StepsAre DEF SchemaInv, DatabaseIsUpTo
  <2>2. opener \in OpenerType /\ opener.pc = "listed"
    BY <1>2 DEF BeginMigration, SchemaInv
  <2> QED
    BY <1>2, <2>1, <2>2 DEF OpenerKnows, OpenerType
<1>5. i \in Left(p) /\ \A j \in Left(p) : i <= j
  <2>1. Left(p) \in SUBSET Nat /\ Left(p) # {}
    BY StepsAre DEF BeginMigration, Left
  <2> QED
    BY <1>1, <2>1, MinOf
<1>6. i \in 1 .. Len(Steps) /\ i > opener.next /\ i \notin opener.applied
  BY <1>2, <1>5, StepsAre DEF Left
<1>7. 1 .. i - 1 \subseteq 1 .. n
  <2> SUFFICES ASSUME NEW j \in 1 .. i - 1 PROVE j \in 1 .. n
    OBVIOUS
  <2>1. j \in 1 .. Len(Steps) /\ j < i
    BY <1>6, StepsAre
  <2>2. j \notin Left(p)
    BY <1>5, <1>6, <2>1
  <2>3. j <= opener.next \/ j \in opener.applied
    BY <1>2, <1>4, <2>1, <2>2, StepsAre DEF Left
  <2> QED
    BY <1>4, <2>1, <2>3
<1>8. i <= n + 1
  <2>1. i = 1 \/ i - 1 \in 1 .. i - 1
    BY <1>6
  <2> QED
    BY <1>4, <1>6, <1>7, <2>1
<1>9. Applicable(database.schema, Steps[i])
  <2>1. backend = "postgres" /\ i = 2 => TenantsKnown(database.schema)
    <3> SUFFICES ASSUME backend = "postgres", i = 2 PROVE TenantsKnown(database.schema)
      OBVIOUS
    <3>1. 1 \in 1 .. n
      BY <1>7
    <3> QED
      BY <1>4, <1>6, <3>1
  <2>2. UpTo(backend, n, database.schema)
    BY <1>3 DEF DatabaseIsUpTo
  <2>3. i \in 1 .. Len(Migrations(backend)) /\ backend \in Backends
    BY <1>6, StepsAre DEF SchemaInv
  <2>4. Applicable(database.schema, Migrations(backend)[i])
    BY <1>4, <1>8, <2>1, <2>2, <2>3, IsApplicable
  <2> QED
    BY <2>4, StepsAre
<1>10. PICK next : next = [opener EXCEPT !.pc = "applying", !.next = i]
  OBVIOUS
<1>11. /\ openers' = [openers EXCEPT ![p] = next] /\ writer' = p
       /\ UNCHANGED <<backend, database, filled>>
  BY <1>1, <1>2, <1>9, <1>10 DEF BeginMigration
<1>12. /\ next \in OpenerType /\ next.pc = "applying" /\ next.next = i
       /\ next.applied = opener.applied
  <2>1. i \in Nat
    BY <1>6, StepsAre
  <2> QED
    BY <1>4, <1>10, <2>1 DEF OpenerType
<1>13. \A q \in Openers \ {p} : openers[q].pc # "applying"
  <2>1. writer = None /\ None \notin Openers
    BY SchemaMigrationsAssumption DEF BeginMigration
  <2> QED
    BY <2>1 DEF SchemaInv, OpenerKnows
<1>14. i \in DOMAIN Steps /\ 1 .. i - 1 \subseteq database.recorded
  BY <1>4, <1>6, <1>7, StepsAre
<1> QED
  BY <1>4, <1>11, <1>12, <1>13, <1>14, OneOpener

\* A process that has nothing left opens the store.
LEMMA OpenedKeeps == ASSUME SchemaInv, NEW p \in Openers, Opened(p) PROVE SchemaInv'
<1>1. PICK opener : opener = openers[p]
  OBVIOUS
<1>2. PICK next : next = [opener EXCEPT !.pc = "open"]
  OBVIOUS
<1>3. opener \in OpenerType /\ opener.pc = "listed" /\ OpenerKnows(p)
  BY <1>1 DEF Opened, SchemaInv
<1>4. /\ next \in OpenerType /\ next.pc = "open" /\ next.applied = opener.applied
      /\ next.next = opener.next
  BY <1>2, <1>3 DEF OpenerType
<1>5. openers' = [openers EXCEPT ![p] = next] /\ UNCHANGED <<backend, database, writer, filled>>
  BY <1>1, <1>2 DEF Opened
<1>6. {i \in DOMAIN Steps : i > next.next} \ next.applied = {}
  BY <1>1, <1>4 DEF Opened, Left
<1>7. /\ next.applied \subseteq database.recorded
      /\ backend = "postgres" /\ 1 \in database.recorded /\ 2 \notin next.applied
            => TenantsKnown(database.schema)
      /\ 1 .. next.next \subseteq database.recorded
  BY <1>1, <1>3, <1>4 DEF OpenerKnows
<1> QED
  BY <1>4, <1>5, <1>6, <1>7, OneOpener

\* A process that ends does not touch the transaction of another.
LEMMA CloseKeeps == ASSUME SchemaInv, NEW p \in Openers, Close(p) PROVE SchemaInv'
<1>1. openers' = [openers EXCEPT ![p] = Closed] /\ UNCHANGED <<backend, database, filled>>
  BY DEF Close
<1>2. \A q \in Openers \ {p} : openers[q].pc = "applying" => writer' = writer
  BY DEF Close, SchemaInv, OpenerKnows
<1> QED
  BY <1>1, <1>2, ClosedFields, OneOpener

\* A backfill changes neither the schema nor what is recorded.
LEMMA FillInKeeps == ASSUME SchemaInv, NEW p \in Openers, FillIn(p) PROVE SchemaInv'
<1>1. /\ UNCHANGED <<backend, openers, writer>> /\ filled' = TRUE /\ filled' \in BOOLEAN
      /\ database' = [database EXCEPT !.marked = TRUE]
  BY DEF FillIn
<1>2. /\ DOMAIN database' = {"schema", "recorded", "marked"} /\ database'.marked
      /\ database'.schema = database.schema /\ database'.recorded = database.recorded
  BY <1>1 DEF SchemaInv
<1>3. Steps' = Steps
  BY <1>1 DEF Steps
<1>4. \A n : DatabaseIsUpTo(n) => DatabaseIsUpTo(n)'
  BY <1>1, <1>2 DEF DatabaseIsUpTo
<1>5. ASSUME NEW q \in Openers PROVE OpenerKnows(q)'
  <2>1. OpenerKnows(q)
    BY DEF SchemaInv
  <2> QED
    BY <1>1, <1>2, <1>3, <2>1 DEF OpenerKnows, Left
<1> QED
  BY <1>1, <1>2, <1>3, <1>4, <1>5 DEF SchemaInv

\* A migration that is recorded is the next one, or is rolled back.
LEMMA EndMigrationKeeps == ASSUME SchemaInv, NEW p \in Openers, EndMigration(p) PROVE SchemaInv'
<1>1. PICK opener : opener = openers[p]
  OBVIOUS
<1>2. PICK i : i = opener.next
  OBVIOUS
<1>3. PICK n \in 0 .. Len(Steps) : DatabaseIsUpTo(n)
  BY DEF SchemaInv
<1>4. /\ opener \in OpenerType /\ opener.pc = "applying" /\ writer = p /\ OpenerKnows(p)
      /\ i \in 1 .. Len(Steps) /\ 1 .. i - 1 \subseteq 1 .. n
      /\ n \in Nat /\ database.recorded = 1 .. n /\ UpTo(backend, n, database.schema)
  <2>1. opener \in OpenerType /\ opener.pc = "applying" /\ OpenerKnows(p)
    BY <1>1 DEF EndMigration, SchemaInv
  <2>2. n \in Nat /\ database.recorded = 1 .. n /\ UpTo(backend, n, database.schema)
    BY <1>3, StepsAre DEF DatabaseIsUpTo
  <2> QED
    BY <1>1, <1>2, <2>1, <2>2, StepsAre DEF OpenerKnows
<1>5. \A q \in Openers \ {p} : openers[q].pc # "applying"
  BY <1>4 DEF SchemaInv, OpenerKnows
<1>6. CASE RecordedAlready(i)
  <2>1. i \in database.recorded
    BY <1>6 DEF RecordedAlready
  <2>2. /\ openers' = [openers EXCEPT ![p] = Closed] /\ UNCHANGED <<backend, database>>
        /\ filled' = filled
    <3>1. /\ openers' = [openers EXCEPT ![p] = Closed] /\ UNCHANGED <<backend, database>>
          /\ filled' = (filled /\ (TRUE \/ ~Steps[i].unmarks \/ i \in database.recorded))
      BY <1>1, <1>2, <1>6 DEF EndMigration
    <3>2. filled \in BOOLEAN
      BY DEF SchemaInv
    <3> QED
      BY <3>1, <3>2
  <2> QED
    BY <1>5, <2>2, ClosedFields, OneOpener
<1>7. CASE ~RecordedAlready(i)
  <2>1. i \notin 1 .. n
    BY <1>4, <1>7 DEF RecordedAlready
  <2>2. i = n + 1
    <3>1. i > n
      BY <1>4, <2>1
    <3>2. i = 1 \/ i - 1 \in 1 .. i - 1
      BY <1>4
    <3> QED
      BY <1>4, <3>1, <3>2
  <2>3. PICK next : next = [opener EXCEPT !.pc = "listed"]
    OBVIOUS
  <2>4. /\ next \in OpenerType /\ next.pc = "listed" /\ next.applied = opener.applied
        /\ next.next = i
    BY <1>2, <1>4, <2>3 DEF OpenerType
  <2>5. /\ database' = Migrated(i) /\ UNCHANGED backend
        /\ openers' = [openers EXCEPT ![p] = next]
    BY <1>1, <1>2, <1>7, <2>3 DEF EndMigration
  <2>6. /\ DOMAIN database' = {"schema", "recorded", "marked"}
        /\ database'.recorded = 1 .. n + 1
        /\ database'.schema = After(database.schema, Migrations(backend)[n + 1])
    <3>1. 1 .. n + 1 = (1 .. n) \cup {n + 1}
      BY <1>4
    <3> QED
      BY <1>4, <2>2, <2>5, <3>1 DEF Migrated, Steps
  <2>7. /\ n < Len(Migrations(backend)) /\ n + 1 \in 0 .. Len(Steps) /\ backend \in Backends
    BY <1>4, <2>2, StepsAre DEF SchemaInv
  <2>8. UpTo(backend, n + 1, database'.schema)
    BY <1>4, <2>6, <2>7, UpToNext
  <2>9. backend = "postgres" /\ n = 0 => TenantsKnown(database'.schema)
    <3> SUFFICES ASSUME backend = "postgres", n = 0 PROVE TenantsKnown(database'.schema)
      OBVIOUS
    <3>1. database.schema = {} /\ n + 1 = 1
      BY <1>4 DEF UpTo
    <3>2. database'.schema = After({}, PostgresMigrations[1])
      BY <2>6, <3>1, MigrationsAre
    <3> QED
      BY <3>2, FirstKnowsTenants
  <2>10. /\ database.schema \subseteq database'.schema
         /\ database.recorded \subseteq database'.recorded
    <3>1. database.schema \subseteq database'.schema
      BY <2>6 DEF After
    <3>2. database.recorded \subseteq database'.recorded
      BY <1>4, <2>6
    <3> QED
      BY <3>1, <3>2
  <2>11. Steps' = Steps
    BY <2>5 DEF Steps
  <2>12. DatabaseIsUpTo(n + 1)'
    <3>1. n + 1 = 1 => n = 0
      BY <1>4
    <3> QED
      BY <2>5, <2>6, <2>8, <2>9, <3>1 DEF DatabaseIsUpTo
  <2>13. /\ openers' \in [Openers -> OpenerType] /\ openers'[p] = next
         /\ \A q \in Openers : q # p => openers'[q] = openers[q]
    BY <2>4, <2>5 DEF SchemaInv
  <2>14. ASSUME NEW q \in Openers, openers[q].pc # "closed", backend = "postgres",
                2 \notin openers[q].applied
         PROVE  TenantsKnown(database'.schema)
    <3>1. CASE n = 0
      BY <2>9, <2>14, <3>1
    <3>2. CASE n # 0
      <4>1. 1 \in database.recorded
        BY <1>4, <3>2
      <4>2. TenantsKnown(database.schema)
        BY <2>14, <4>1 DEF SchemaInv, OpenerKnows
      <4> QED
        BY <2>10, <4>2 DEF TenantsKnown
    <3> QED
      BY <3>1, <3>2
  <2>15. ASSUME NEW q \in Openers PROVE OpenerKnows(q)'
    <3>1. CASE q = p
      <4>1. 1 .. i \subseteq database'.recorded
        BY <2>2, <2>6
      <4>2. next.applied \subseteq database'.recorded
        BY <1>1, <1>4, <2>4, <2>10 DEF OpenerKnows
      <4>3. backend = "postgres" /\ 2 \notin next.applied => TenantsKnown(database'.schema)
        BY <1>1, <1>4, <2>4, <2>14
      <4> QED
        BY <2>4, <2>5, <2>13, <3>1, <4>1, <4>2, <4>3 DEF OpenerKnows
    <3>2. CASE q # p
      <4>1. openers'[q] = openers[q] /\ OpenerKnows(q) /\ openers[q].pc # "applying"
        BY <1>5, <2>13, <3>2 DEF SchemaInv
      <4> QED
        BY <2>5, <2>10, <2>11, <2>14, <4>1 DEF OpenerKnows, Left
    <3> QED
      BY <3>1, <3>2
  <2>16. filled' \in BOOLEAN /\ (filled' => database'.marked)
    <3>1. filled' \in BOOLEAN
      BY <1>1, <1>2, <1>4, <1>7, <2>1 DEF EndMigration, SchemaInv
    <3>2. filled' => filled /\ ~Steps[i].unmarks
      BY <1>1, <1>2, <1>4, <1>7, <2>1 DEF EndMigration
    <3>3. database'.marked = (database.marked /\ ~Steps[i].unmarks)
      BY <2>5 DEF Migrated
    <3> QED
      BY <3>1, <3>2, <3>3 DEF SchemaInv
  <2> QED
    BY <2>5, <2>6, <2>7, <2>11, <2>12, <2>13, <2>15, <2>16 DEF SchemaInv
<1> QED
  BY <1>6, <1>7

\* Every step keeps the invariant.
LEMMA SchemaNextKeeps == SchemaInv /\ [SchemaNext]_schemaVars => SchemaInv'
<1> SUFFICES ASSUME SchemaInv, [SchemaNext]_schemaVars PROVE SchemaInv'
  OBVIOUS
<1>1. CASE UNCHANGED schemaVars
  <2>1. UNCHANGED <<backend, database, openers, writer, filled>> /\ Steps' = Steps
    BY <1>1 DEF schemaVars, Steps
  <2> QED
    BY <2>1 DEF SchemaInv, DatabaseIsUpTo, OpenerKnows, Left
<1> QED
  BY <1>1, ListAppliedKeeps, BeginMigrationKeeps, EndMigrationKeeps, OpenedKeeps, FillInKeeps,
     CloseKeeps DEF SchemaNext

\* From whatever version the store comes, no migration asks for what is not there, a process
\* that has opened it finds every table and column that it names, and a backfill is not
\* undone: for any number of processes that open the store, and are killed, at once (Open,
\* OpenPostgres, applyMigration).
THEOREM OpenedStoresAreCurrent == SchemaSpec => []OpenedStoreIsCurrent
<1>1. SchemaInv => OpenedStoreIsCurrent
  <2> SUFFICES ASSUME SchemaInv, NEW p \in Openers
               PROVE  /\ openers[p].pc # "broken"
                      /\ openers[p].pc = "open" => SchemaInUse(backend) \subseteq database.schema
                      /\ filled => database.marked
    BY DEF OpenedStoreIsCurrent, SchemaInv
  <2>1. OpenerKnows(p) /\ (filled => database.marked)
    BY DEF SchemaInv
  <2>2. ASSUME openers[p].pc = "open" PROVE SchemaInUse(backend) \subseteq database.schema
    <3>1. PICK n \in 0 .. Len(Steps) : DatabaseIsUpTo(n)
      BY DEF SchemaInv
    <3>2. ASSUME NEW i \in 1 .. Len(Steps) PROVE i \in 1 .. n
      <4>1. openers[p].next \in Nat /\ i \in DOMAIN Steps /\ i \in Nat
        BY StepsAre DEF SchemaInv, OpenerType
      <4>2. i \in 1 .. openers[p].next \/ i \in openers[p].applied
        BY <2>1, <2>2, <4>1 DEF OpenerKnows, Left
      <4> QED
        BY <2>1, <2>2, <3>1, <4>2 DEF OpenerKnows, DatabaseIsUpTo
    <3>3. n = Len(Steps)
      <4>1. Len(Steps) \in Nat /\ n \in Nat /\ n <= Len(Steps)
        BY StepsAre
      <4> QED
        BY <3>2, <4>1
    <3>4. backend \in Backends /\ UpTo(backend, Len(Migrations(backend)), database.schema)
      BY <3>1, <3>3, StepsAre DEF DatabaseIsUpTo, SchemaInv
    <3> QED
      BY <3>4, AllIsInUse
  <2> QED
    BY <2>1, <2>2 DEF OpenerKnows
<1> QED
  BY SchemaInitKeeps, SchemaNextKeeps, <1>1, PTL DEF SchemaSpec

-----------------------------------------------------------------------------
(* The control of the daemon *)

Stages == {"none", "starting", "running", "reloading", "ending", "disowned"}

ProcessType ==
    [stage : Stages, hup : BOOLEAN,
     loaded : Configurations \cup {Invalid}, applied : Configurations \cup {Invalid},
     server : Configurations \cup {NoServer}]

CommandType ==
    [pc : {"idle", "start", "remove stale", "spawn", "write", "stop", "term", "wait",
           "remove", "hup"},
     restart : BOOLEAN, pid : Pids \cup {NoFile}]

\* ControlTypeOK with the records named.
Typed ==
    /\ pidFile \in Pids \cup {NoFile, Unreadable}
    /\ processes \in [Pids -> ProcessType]
    /\ commands \in [Operators -> CommandType]
    /\ crossed \in BOOLEAN
    /\ unwritten \in BOOLEAN
    /\ file \in Configurations \cup {Invalid}
    /\ edits \in 0 .. MaxEdits
    /\ begun \in 0 .. MaxCommands
    /\ told \subseteq Pids

Stage(pid) == processes[pid].stage

InStep(o, pcs) == commands[o].pc \in pcs

\* Of the commands that start or stop there is one at a time.
OneBusy == \A o, other \in Operators : Busy(o) /\ Busy(other) => o = other

\* The daemon is in the file, or about to be written to it.
NamedOrWritten ==
    \A pid \in Pids :
        Owned(pid) => \/ pidFile = pid
                      \/ \E o \in Operators : InStep(o, {"write"}) /\ commands[o].pid = pid

\* What a command knows of the daemon and the file.
KnownBy(o) ==
    /\ InStep(o, {"remove stale", "spawn", "remove"}) => \A pid \in Pids : ~Owned(pid)
    /\ InStep(o, {"spawn", "write"}) => pidFile = NoFile
    /\ InStep(o, {"write"}) => commands[o].pid \in Pids /\ Stage(commands[o].pid) # "disowned"
    /\ InStep(o, {"term", "wait"}) => commands[o].pid = pidFile /\ commands[o].pid \in Pids

\* A daemon whose file could not be written is not the one in the file.
DisownedIsUnnamed ==
    \A pid \in Pids : Stage(pid) = "disowned" => pidFile # pid /\ unwritten

Named == OneBusy /\ NamedOrWritten /\ (\A o \in Operators : KnownBy(o)) /\ DisownedIsUnnamed

NamedInv == Typed /\ (~crossed => Named)

\* What a daemon that was told to reload follows, or has loaded.
Follows ==
    \A pid \in told :
        /\ Stage(pid) = "running" /\ ~processes[pid].hup /\ file # Invalid
              => processes[pid].applied = file
        /\ Stage(pid) = "reloading" /\ ~processes[pid].hup => processes[pid].loaded = file

\* A daemon that follows a configuration serves status pages if it says so.
ServesAs(pid) ==
    /\ Stage(pid) \in {"none", "starting"}
          => /\ processes[pid].server = NoServer
             /\ ~processes[pid].hup
    /\ Stage(pid) \in {"running", "reloading"}
          => /\ processes[pid].applied # Invalid
             /\ processes[pid].applied.port = NoPort => processes[pid].server = NoServer
             /\ processes[pid].applied.port # NoPort /\ processes[pid].server = NoServer
                   => crossed \/ unwritten

Serves == \A pid \in Pids : ServesAs(pid)

ReloadInv == NamedInv /\ Follows /\ Serves

-----------------------------------------------------------------------------
(* Types *)

LEMMA TypesAreTheSame == Typed <=> ControlTypeOK
  BY DEF ControlTypeOK, Typed, ProcessType, CommandType, Stages

LEMMA NoProcessType == NoProcess \in ProcessType
  BY DEF NoProcess, ProcessType, Stages

LEMMA IdleType == Idle \in CommandType
  BY DEF Idle, CommandType

\* What SIGTERM leaves.
LEMMA TerminatedStages ==
    ASSUME processes \in [Pids -> ProcessType], NEW pid, NEW stage \in {"ending", "disowned"},
           NEW after \in Terminated(pid, stage)
    PROVE  /\ after \in [Pids -> ProcessType]
           /\ \A other \in Pids : other # pid => after[other] = processes[other]
           /\ Exists(pid) => \/ after[pid] = NoProcess
                             \/ after[pid].stage = stage
           /\ ~Exists(pid) => after = processes
<1>1. CASE ~Exists(pid)
  BY <1>1 DEF Terminated
<1>2. CASE Exists(pid)
  BY <1>2, NoProcessType DEF Terminated, Exists, ProcessType, Stages
<1> QED
  BY <1>1, <1>2

LEMMA HungUpStages ==
    ASSUME processes \in [Pids -> ProcessType], NEW pid
    PROVE  /\ HungUp(pid) \in [Pids -> ProcessType]
           /\ \A other \in Pids : other # pid => HungUp(pid)[other] = processes[other]
           /\ pid \in Pids =>
                 HungUp(pid)[pid] =
                    CASE Stage(pid) = "starting" -> NoProcess
                      [] Stage(pid) \in {"running", "reloading"} -> [processes[pid] EXCEPT !.hup = TRUE]
                      [] OTHER -> processes[pid]
<1>1. CASE processes[pid].stage = "starting"
  BY <1>1, NoProcessType DEF HungUp, Stage
<1>2. CASE processes[pid].stage \in {"running", "reloading"}
  BY <1>2 DEF HungUp, Stage, ProcessType
<1>3. CASE processes[pid].stage \notin {"starting", "running", "reloading"}
  BY <1>3 DEF HungUp, Stage
<1> QED
  BY <1>1, <1>2, <1>3

\* What a step of an operator does to its own command only.
LEMMA GoesOn ==
    ASSUME commands \in [Operators -> CommandType], NEW o \in Operators, NEW pc,
           pc \in {"idle", "start", "remove stale", "spawn", "write", "stop", "term", "wait",
                   "remove", "hup"},
           Goes(o, pc)
    PROVE  /\ commands' \in [Operators -> CommandType]
           /\ commands'[o] = [commands[o] EXCEPT !.pc = pc]
           /\ commands'[o].pc = pc /\ commands'[o].pid = commands[o].pid
           /\ \A other \in Operators \ {o} : commands'[other] = commands[other]
  BY DEF Goes, CommandType

LEMMA IsDone ==
    ASSUME commands \in [Operators -> CommandType], NEW o \in Operators, Done(o)
    PROVE  /\ commands' \in [Operators -> CommandType]
           /\ commands'[o] = Idle /\ commands'[o].pc = "idle"
           /\ \A other \in Operators \ {o} : commands'[other] = commands[other]
<1>1. commands' = [commands EXCEPT ![o] = Idle]
  BY DEF Done
<1>2. Idle.pc = "idle"
  BY DEF Idle
<1> QED
  BY <1>1, <1>2, IdleType

-----------------------------------------------------------------------------
(* Every step keeps the types *)

LEMMA InitIsTyped == ControlInit => Typed
<1> SUFFICES ASSUME ControlInit PROVE Typed
  OBVIOUS
<1>1. processes \in [Pids -> ProcessType] /\ commands \in [Operators -> CommandType]
  BY NoProcessType, IdleType DEF ControlInit
<1>2. edits \in 0 .. MaxEdits /\ begun \in 0 .. MaxCommands
  BY DaemonControlAssumption DEF ControlInit
<1> QED
  BY <1>1, <1>2 DEF ControlInit, Typed

LEMMA CommandIsTyped ==
    ASSUME Typed, NEW o \in Operators,
           \/ BeginCommand(o) \/ InspectToStart(o) \/ RemoveStale(o) \/ Spawn(o) \/ WritePid(o)
           \/ InspectToStop(o) \/ Terminate(o) \/ AwaitExit(o) \/ RemoveFile(o)
           \/ InspectToReload(o) \/ HangUp(o) \/ Interrupt(o)
    PROVE  Typed'
<1> USE DEF Typed
<1>1. CASE BeginCommand(o)
  <2>1. begun' \in 0 .. MaxCommands /\ crossed' \in BOOLEAN
    <3>1. begun' \in 0 .. MaxCommands
      BY <1>1, DaemonControlAssumption DEF BeginCommand
    <3> QED
      BY <1>1, <3>1 DEF BeginCommand
  <2>2. commands' \in [Operators -> CommandType]
    <3>1. PICK command \in {"start", "stop", "restart"} :
             commands' = [commands EXCEPT ![o] =
                [Idle EXCEPT !.pc = IF command = "start" THEN "start" ELSE "stop",
                             !.restart = command = "restart"]]
      BY <1>1 DEF BeginCommand
    <3>2. CASE command = "start"
      BY <3>1, <3>2 DEF Idle, CommandType
    <3>3. CASE command \in {"stop", "restart"}
      <4>1. (command = "restart") \in BOOLEAN
        OBVIOUS
      <4>2. [Idle EXCEPT !.pc = "stop", !.restart = command = "restart"] \in CommandType
        BY <4>1 DEF Idle, CommandType
      <4>3. commands' = [commands EXCEPT ![o] =
               [Idle EXCEPT !.pc = "stop", !.restart = command = "restart"]]
        BY <3>1, <3>3
      <4> QED
        BY <4>2, <4>3
    <3> QED
      BY <3>2, <3>3
  <2> QED
    BY <1>1, <2>1, <2>2 DEF BeginCommand
<1>2. CASE InspectToStart(o)
  <2>1. commands' \in [Operators -> CommandType]
    BY <1>2, GoesOn, IsDone DEF InspectToStart
  <2> QED
    BY <1>2, <2>1 DEF InspectToStart
<1>3. CASE RemoveStale(o)
  <2>1. commands' \in [Operators -> CommandType]
    BY <1>3, GoesOn, IsDone DEF RemoveStale
  <2> QED
    BY <1>3, <2>1 DEF RemoveStale
<1>4. CASE Spawn(o)
  <2> PICK pid \in Pids :
         /\ processes' = [processes EXCEPT ![pid].stage = "starting"]
         /\ commands' = [commands EXCEPT ![o].pc = "write", ![o].pid = pid]
    BY <1>4 DEF Spawn
  <2>1. commands' \in [Operators -> CommandType]
    BY DEF CommandType
  <2>2. processes' \in [Pids -> ProcessType]
    BY DEF ProcessType, Stages
  <2> QED
    BY <1>4, <2>1, <2>2 DEF Spawn
<1>5. CASE WritePid(o)
  <2>1. commands' \in [Operators -> CommandType]
    BY <1>5, IsDone DEF WritePid
  <2>2. processes' \in [Pids -> ProcessType]
    <3>1. CASE UNCHANGED processes
      BY <3>1
    <3>2. CASE processes' \in Terminated(commands[o].pid, "disowned")
      BY <3>2, TerminatedStages
    <3> QED
      BY <1>5, <3>1, <3>2 DEF WritePid, TerminateUnwritten
  <2>3. pidFile' \in Pids \cup {NoFile, Unreadable}
    <3>1. commands[o].pid \in Pids \cup {NoFile}
      BY DEF CommandType
    <3> QED
      BY <1>5, <3>1 DEF WritePid
  <2> QED
    BY <1>5, <2>1, <2>2, <2>3 DEF WritePid
<1>6. CASE InspectToStop(o)
  <2>1. commands' \in [Operators -> CommandType]
    <3>1. CASE Exists(pidFile)
      <4>1. pidFile \in Pids
        BY <3>1 DEF Exists
      <4>2. commands' = [commands EXCEPT ![o].pc = "term", ![o].pid = pidFile]
        BY <1>6, <3>1, <4>1, DaemonControlAssumption DEF InspectToStop
      <4> QED
        BY <4>1, <4>2 DEF CommandType
    <3>2. CASE ~Exists(pidFile)
      BY <1>6, <3>2, GoesOn, IsDone DEF InspectToStop, NotRunning
    <3> QED
      BY <3>1, <3>2
  <2> QED
    BY <1>6, <2>1 DEF InspectToStop
<1>7. CASE Terminate(o)
  <2>1. commands' \in [Operators -> CommandType]
    BY <1>7, GoesOn DEF Terminate
  <2>2. processes' \in [Pids -> ProcessType]
    BY <1>7, TerminatedStages DEF Terminate
  <2> QED
    BY <1>7, <2>1, <2>2 DEF Terminate
<1>8. CASE AwaitExit(o)
  <2>1. commands' \in [Operators -> CommandType]
    BY <1>8, GoesOn, IsDone DEF AwaitExit
  <2> QED
    BY <1>8, <2>1 DEF AwaitExit
<1>9. CASE RemoveFile(o)
  <2>1. commands' \in [Operators -> CommandType]
    BY <1>9, GoesOn, IsDone DEF RemoveFile, NotRunning
  <2> QED
    BY <1>9, <2>1 DEF RemoveFile
<1>10. CASE InspectToReload(o)
  <2>1. commands' \in [Operators -> CommandType]
    BY <1>10 DEF InspectToReload, Exists, CommandType
  <2> QED
    BY <1>10, <2>1 DEF InspectToReload
<1>11. CASE HangUp(o)
  <2>1. commands' \in [Operators -> CommandType]
    BY <1>11, IsDone DEF HangUp
  <2>2. processes' \in [Pids -> ProcessType]
    BY <1>11, HungUpStages DEF HangUp
  <2> QED
    BY <1>11, <2>1, <2>2 DEF HangUp
<1>12. CASE Interrupt(o)
  <2>1. commands' \in [Operators -> CommandType]
    BY <1>12, IsDone DEF Interrupt
  <2>2. crossed' \in BOOLEAN
    BY <1>12 DEF Interrupt, Busy
  <2> QED
    BY <1>12, <2>1, <2>2 DEF Interrupt
<1> QED
  BY <1>1, <1>2, <1>3, <1>4, <1>5, <1>6, <1>7, <1>8, <1>9, <1>10, <1>11, <1>12

\* What the daemon does to its own process.
LEMMA ServerAfterType ==
    ASSUME NEW old \in Configurations \cup {NoServer}, NEW new \in Configurations
    PROVE  ServerAfter(old, new) \in Configurations \cup {NoServer}
  BY DEF ServerAfter

LEMMA DaemonIsTyped ==
    ASSUME Typed, NEW pid \in Pids,
           BeginRunning(pid) \/ ReceiveAndLoad(pid) \/ ApplyLoaded(pid) \/ Exit(pid)
    PROVE  Typed'
<1> USE DEF Typed
<1>1. CASE BeginRunning(pid)
  <2>1. ServerAfter(NoServer, file) \in Configurations \cup {NoServer}
    BY <1>1, ServerAfterType DEF BeginRunning
  <2>2. processes' \in [Pids -> ProcessType]
    BY <1>1, <2>1, NoProcessType DEF BeginRunning, ProcessType, Stages
  <2> QED
    BY <1>1, <2>2 DEF BeginRunning
<1>2. CASE ReceiveAndLoad(pid)
  <2>1. processes' \in [Pids -> ProcessType]
    BY <1>2 DEF ReceiveAndLoad, ProcessType, Stages
  <2> QED
    BY <1>2, <2>1 DEF ReceiveAndLoad
<1>3. CASE ApplyLoaded(pid)
  <2>1. processes[pid] \in ProcessType
    OBVIOUS
  <2>2. CASE processes[pid].loaded = Invalid
    <3>1. processes' = [processes EXCEPT ![pid] =
                          [processes[pid] EXCEPT !.stage = "running", !.loaded = Invalid]]
      BY <1>3, <2>2 DEF ApplyLoaded
    <3>2. processes' \in [Pids -> ProcessType]
      BY <3>1, <2>1 DEF ProcessType, Stages
    <3> QED
      BY <1>3, <3>2 DEF ApplyLoaded
  <2>3. CASE processes[pid].loaded # Invalid
    <3>1. ServerAfter(processes[pid].server, processes[pid].loaded)
             \in Configurations \cup {NoServer}
      BY <2>1, <2>3, ServerAfterType DEF ProcessType
    <3>2. processes' \in [Pids -> ProcessType]
      BY <1>3, <2>1, <2>3, <3>1 DEF ApplyLoaded, ProcessType, Stages
    <3> QED
      BY <1>3, <3>2 DEF ApplyLoaded
  <2> QED
    BY <2>2, <2>3
<1>4. CASE Exit(pid)
  <2>1. processes' \in [Pids -> ProcessType]
    BY <1>4, NoProcessType DEF Exit
  <2> QED
    BY <1>4, <2>1 DEF Exit
<1> QED
  BY <1>1, <1>2, <1>3, <1>4

LEMMA EditIsTyped == Typed /\ Edit => Typed'
<1> SUFFICES ASSUME Typed, Edit PROVE Typed'
  OBVIOUS
<1>1. edits' \in 0 .. MaxEdits
  BY DaemonControlAssumption DEF Edit, Typed
<1>2. file' \in Configurations \cup {Invalid}
  BY DEF Edit
<1> QED
  BY <1>1, <1>2 DEF Edit, Typed

-----------------------------------------------------------------------------
(* The PID file names the daemon *)

\* One command that starts or stops goes on, while the others are idle or reload.
LEMMA BusyGoesOn ==
    ASSUME Named, NEW o \in Operators, Busy(o),
           \A other \in Operators \ {o} : commands'[other] = commands[other],
           NamedOrWritten', KnownBy(o)', DisownedIsUnnamed'
    PROVE  Named'
<1>1. \A other \in Operators \ {o} : ~Busy(other) /\ ~Busy(other)'
  <2>1. \A other \in Operators \ {o} : ~Busy(other)
    BY DEF Named, OneBusy
  <2> QED
    BY <2>1 DEF Busy
<1>2. OneBusy'
  BY <1>1 DEF OneBusy
<1>3. \A other \in Operators : KnownBy(other)'
  <2>1. ASSUME NEW other \in Operators \ {o} PROVE KnownBy(other)'
    BY <1>1, <2>1 DEF Busy, KnownBy, InStep
  <2> QED
    BY <2>1
<1> QED
  BY <1>2, <1>3 DEF Named

\* A step of the daemon, or of a command that neither starts nor stops: the file stays,
\* no process joins those that a file should name, and no command gets busy.
LEMMA NobodyJoins ==
    ASSUME Named, pidFile' = pidFile, unwritten' = unwritten,
           \A o \in Operators : Busy(o) \/ Busy(o)' => commands'[o] = commands[o],
           \A pid \in Pids : /\ Owned(pid)' => Owned(pid)
                             /\ Stage(pid)' = "disowned" => Stage(pid) = "disowned"
    PROVE  Named'
<1>1. \A o \in Operators : Busy(o)' => Busy(o)
  BY DEF Busy
<1>2. OneBusy'
  BY <1>1 DEF OneBusy, Named
<1>3. NamedOrWritten'
  <2> SUFFICES ASSUME NEW pid \in Pids, Owned(pid)', pidFile' # pid
               PROVE  \E o \in Operators : InStep(o, {"write"})' /\ commands'[o].pid = pid
    BY DEF NamedOrWritten
  <2>1. PICK o \in Operators : InStep(o, {"write"}) /\ commands[o].pid = pid
    BY DEF Named, NamedOrWritten
  <2>2. Busy(o)
    BY <2>1 DEF Busy, InStep
  <2>3. commands'[o] = commands[o]
    BY <2>1, <2>2
  <2> QED
    BY <2>1, <2>3 DEF InStep
<1>4. ASSUME NEW o \in Operators PROVE KnownBy(o)'
  <2>1. CASE ~Busy(o)'
    BY <2>1 DEF Busy, KnownBy, InStep
  <2>2. CASE Busy(o)'
    <3>1. commands'[o] = commands[o]
      BY <2>2
    <3>2. KnownBy(o)
      BY DEF Named
    <3> QED
      BY <3>1, <3>2 DEF KnownBy, InStep
  <2> QED
    BY <2>1, <2>2
<1>5. DisownedIsUnnamed'
  BY DEF Named, DisownedIsUnnamed
<1> QED
  BY <1>2, <1>3, <1>4, <1>5 DEF Named

\* SIGTERM lets no process join, and none that is named get disowned.
LEMMA EndingIsOwned ==
    ASSUME Typed, NEW pid \in Pids, NEW stage \in {"ending", "disowned"},
           processes' \in Terminated(pid, stage)
    PROVE  /\ \A other \in Pids \ {pid} : processes'[other] = processes[other]
           /\ \/ Stage(pid)' = "none" \/ Stage(pid)' = stage
              \/ ~Exists(pid) /\ processes' = processes
<1>1. /\ \A other \in Pids : other # pid => processes'[other] = processes[other]
      /\ Exists(pid) => \/ processes'[pid] = NoProcess
                        \/ processes'[pid].stage = stage
      /\ ~Exists(pid) => processes' = processes
  <2>1. processes \in [Pids -> ProcessType]
    BY DEF Typed
  <2> QED
    BY <2>1, TerminatedStages
<1>2. processes[pid] \in ProcessType
  BY DEF Typed
<1> QED
  BY <1>1, <1>2 DEF NoProcess, Stage, ProcessType

LEMMA NamedByCommand ==
    ASSUME Typed, Named, NEW o \in Operators,
           \/ InspectToStart(o) \/ RemoveStale(o) \/ Spawn(o) \/ WritePid(o)
           \/ InspectToStop(o) \/ Terminate(o) \/ AwaitExit(o) \/ RemoveFile(o)
    PROVE  Named'
<1> DEFINE OthersStay == \A other \in Operators \ {o} : commands'[other] = commands[other]
<1> USE DaemonControlAssumption
<1>k. KnownBy(o)
  BY DEF Named
<1>1. CASE InspectToStart(o)
  <2>1. Busy(o) /\ ~InStep(o, {"write"})
    BY <1>1 DEF InspectToStart, Busy, InStep
  <2>2. OthersStay /\ commands'[o].pc \in {"idle", "spawn", "remove stale"}
    BY <1>1, GoesOn, IsDone DEF InspectToStart, Typed
  <2>3. \A pid \in Pids : Owned(pid) => pidFile = pid
    BY <2>1 DEF Named, NamedOrWritten, OneBusy, Busy, InStep
  <2>4. commands'[o].pc \in {"spawn", "remove stale"} => ~Exists(pidFile)
    BY <1>1, IsDone DEF InspectToStart, Typed
  <2>5. commands'[o].pc = "spawn" => pidFile = NoFile
    BY <1>1, GoesOn, IsDone DEF InspectToStart, Typed
  <2>6. commands'[o].pc \in {"spawn", "remove stale"} => \A pid \in Pids : ~Owned(pid)
    BY <2>3, <2>4 DEF Owned, Alive, Exists
  <2>7. KnownBy(o)'
    BY <1>1, <2>2, <2>5, <2>6 DEF KnownBy, InStep, InspectToStart, Owned, Alive
  <2>8. NamedOrWritten'
    BY <1>1, <2>3 DEF NamedOrWritten, InspectToStart, Owned, Alive
  <2>9. DisownedIsUnnamed'
    BY <1>1 DEF InspectToStart, Named, DisownedIsUnnamed, Stage
  <2> QED
    BY <2>1, <2>2, <2>7, <2>8, <2>9, BusyGoesOn
<1>2. CASE RemoveStale(o)
  <2>1. Busy(o) /\ \A pid \in Pids : ~Owned(pid)
    BY <1>2, <1>k DEF RemoveStale, Busy, KnownBy, InStep
  <2>2. OthersStay /\ commands'[o].pc \in {"idle", "spawn"}
    BY <1>2, GoesOn, IsDone DEF RemoveStale, Typed
  <2>3. pidFile' = NoFile /\ processes' = processes /\ unwritten' = unwritten
    BY <1>2 DEF RemoveStale
  <2>4. \A pid \in Pids : ~Owned(pid)'
    BY <2>1, <2>3 DEF Owned, Alive
  <2>5. KnownBy(o)' /\ NamedOrWritten'
    BY <2>2, <2>3, <2>4 DEF KnownBy, InStep, NamedOrWritten
  <2>6. DisownedIsUnnamed'
    BY <2>3 DEF Named, DisownedIsUnnamed, Stage
  <2> QED
    BY <2>1, <2>2, <2>5, <2>6, BusyGoesOn
<1>3. CASE Spawn(o)
  <2> PICK pid \in Pids :
         /\ processes' = [processes EXCEPT ![pid].stage = "starting"]
         /\ commands' = [commands EXCEPT ![o].pc = "write", ![o].pid = pid]
    BY <1>3 DEF Spawn
  <2>1. Busy(o) /\ pidFile = NoFile /\ \A other \in Pids : ~Owned(other)
    BY <1>3, <1>k DEF Spawn, Busy, KnownBy, InStep
  <2>2. OthersStay /\ commands'[o].pc = "write" /\ commands'[o].pid = pid
    BY DEF Typed, CommandType
  <2>3. /\ Stage(pid)' = "starting"
        /\ \A other \in Pids \ {pid} : processes'[other] = processes[other]
    BY DEF Typed, ProcessType, Stage
  <2>4. pidFile' = NoFile /\ unwritten' = unwritten
    BY <1>3, <2>1 DEF Spawn
  <2>5. \A other \in Pids \ {pid} : ~Owned(other)'
    BY <2>1, <2>3 DEF Owned, Alive
  <2>6. KnownBy(o)' /\ NamedOrWritten'
    BY <2>2, <2>3, <2>4, <2>5 DEF KnownBy, InStep, NamedOrWritten
  <2>7. DisownedIsUnnamed'
    BY <2>3, <2>4 DEF Named, DisownedIsUnnamed, Stage
  <2> QED
    BY <2>1, <2>2, <2>6, <2>7, BusyGoesOn
<1>4. CASE WritePid(o)
  <2> PICK pid \in {commands[o].pid} : TRUE
    OBVIOUS
  <2>0. commands[o].pid = pid
    OBVIOUS
  <2>1. /\ Busy(o) /\ InStep(o, {"write"})
        /\ pidFile = NoFile /\ pid \in Pids /\ Stage(pid) # "disowned"
    BY <1>4, <1>k DEF WritePid, Busy, KnownBy, InStep
  <2>2. OthersStay /\ commands'[o].pc = "idle"
    BY <1>4, IsDone DEF WritePid, Typed
  <2>3. \A other \in Pids : Owned(other) => other = pid
    <3> SUFFICES ASSUME NEW other \in Pids, Owned(other) PROVE other = pid
      OBVIOUS
    <3>1. PICK o2 \in Operators : InStep(o2, {"write"}) /\ commands[o2].pid = other
      BY <2>1 DEF Named, NamedOrWritten
    <3>2. o2 = o
      BY <2>1, <3>1 DEF Named, OneBusy, Busy, InStep
    <3> QED
      BY <3>1, <3>2
  <2>4. KnownBy(o)'
    BY <2>2 DEF KnownBy, InStep
  <2>5. CASE pidFile' = pid /\ UNCHANGED <<processes, unwritten>>
    <3>1. NamedOrWritten'
      BY <2>3, <2>5 DEF NamedOrWritten, Owned, Alive
    <3>2. DisownedIsUnnamed'
      BY <2>1, <2>5 DEF DisownedIsUnnamed, Named, Stage
    <3> QED
      BY <2>1, <2>2, <2>4, <3>1, <3>2, BusyGoesOn
  <2>6. CASE /\ pidFile' \in {pidFile, Unreadable} /\ unwritten' = TRUE
             /\ processes' \in Terminated(pid, "disowned")
    <3>1. \A other \in Pids \ {pid} : processes'[other] = processes[other]
      BY <2>1, <2>6, EndingIsOwned
    <3>2. ~Owned(pid)'
      <4>1. ~Exists(pid) => ~Owned(pid)
        BY <2>1 DEF Exists, Owned, Alive
      <4>2. Stage(pid)' \in {"none", "disowned"} => ~Owned(pid)'
        BY <2>1 DEF Owned, Alive, Stage
      <4>3. processes' = processes => Owned(pid)' = Owned(pid)
        BY DEF Owned, Alive
      <4>4. \/ Stage(pid)' = "none" \/ Stage(pid)' = "disowned"
            \/ ~Exists(pid) /\ processes' = processes
        BY <2>1, <2>6, EndingIsOwned
      <4> QED
        BY <4>1, <4>2, <4>3, <4>4
    <3>3. NamedOrWritten'
      BY <2>3, <3>1, <3>2 DEF NamedOrWritten, Owned, Alive
    <3>4. DisownedIsUnnamed'
      BY <2>1, <2>6 DEF DisownedIsUnnamed
    <3> QED
      BY <2>1, <2>2, <2>4, <3>3, <3>4, BusyGoesOn
  <2> QED
    BY <1>4, <2>5, <2>6 DEF WritePid, TerminateUnwritten
<1>5. CASE InspectToStop(o)
  <2>1. Busy(o) /\ ~InStep(o, {"write"})
    BY <1>5 DEF InspectToStop, Busy, InStep
  <2>2. pidFile' = pidFile /\ processes' = processes /\ unwritten' = unwritten
    BY <1>5 DEF InspectToStop
  <2>3. \A pid \in Pids : Owned(pid) => pidFile = pid
    BY <2>1 DEF Named, NamedOrWritten, OneBusy, Busy, InStep
  <2>4. ASSUME Exists(pidFile) PROVE OthersStay /\ KnownBy(o)'
    <3>1. pidFile \in Pids
      BY <2>4 DEF Exists
    <3>2. commands' = [commands EXCEPT ![o].pc = "term", ![o].pid = pidFile]
      BY <1>5, <2>4, <3>1 DEF InspectToStop
    <3>3. OthersStay /\ commands'[o].pc = "term" /\ commands'[o].pid = pidFile
      BY <3>2 DEF Typed, CommandType
    <3> QED
      BY <2>2, <3>1, <3>3 DEF KnownBy, InStep
  <2>5. ASSUME ~Exists(pidFile) PROVE OthersStay /\ KnownBy(o)'
    <3>1. \A pid \in Pids : ~Owned(pid)
      BY <2>3, <2>5 DEF Exists, Owned, Alive
    <3>2. OthersStay /\ commands'[o].pc \in {"idle", "start", "remove"}
      BY <1>5, <2>5, GoesOn, IsDone DEF InspectToStop, NotRunning, Typed
    <3> QED
      BY <2>2, <3>1, <3>2 DEF KnownBy, InStep, Owned, Alive
  <2>6. OthersStay /\ KnownBy(o)'
    BY <2>4, <2>5
  <2>7. NamedOrWritten'
    BY <2>2, <2>3 DEF NamedOrWritten, Owned, Alive
  <2>8. DisownedIsUnnamed'
    BY <2>2 DEF Named, DisownedIsUnnamed, Stage
  <2> QED
    BY <2>1, <2>6, <2>7, <2>8, BusyGoesOn
<1>6. CASE Terminate(o)
  <2> PICK pid \in {commands[o].pid} : TRUE
    OBVIOUS
  <2>0. commands[o].pid = pid
    OBVIOUS
  <2>1. Busy(o) /\ ~InStep(o, {"write"}) /\ pid = pidFile /\ pid \in Pids
    BY <1>6, <1>k DEF Terminate, Busy, KnownBy, InStep
  <2>2. OthersStay /\ commands'[o].pid = pid
    BY <1>6, GoesOn DEF Terminate, Typed
  <2>3. commands'[o].pc = IF Exists(pid) THEN "wait" ELSE "remove"
    BY <1>6, GoesOn DEF Terminate, Typed
  <2>4. pidFile' = pidFile /\ unwritten' = unwritten
    BY <1>6 DEF Terminate
  <2>5. \A other \in Pids : Owned(other) => pidFile = other
    BY <2>1 DEF Named, NamedOrWritten, OneBusy, Busy, InStep
  <2>6. /\ \A other \in Pids \ {pid} : processes'[other] = processes[other]
        /\ \/ Stage(pid)' = "none" \/ Stage(pid)' = "ending"
           \/ ~Exists(pid) /\ processes' = processes
    BY <1>6, <2>1, EndingIsOwned DEF Terminate
  <2>7. \A other \in Pids : Owned(other)' => pidFile = other
    BY <2>1, <2>5, <2>6 DEF Owned, Alive
  <2>8. KnownBy(o)'
    <3>1. CASE Exists(pid)
      BY <2>1, <2>2, <2>3, <2>4, <3>1 DEF KnownBy, InStep
    <3>2. CASE ~Exists(pid)
      <4>1. ~Owned(pid) /\ processes' = processes
        BY <1>6, <2>1, <3>2, TerminatedStages DEF Terminate, Typed, Exists, Owned, Alive
      <4>2. \A other \in Pids : ~Owned(other)'
        BY <2>1, <2>5, <4>1 DEF Owned, Alive
      <4> QED
        BY <2>3, <3>2, <4>2 DEF KnownBy, InStep
    <3> QED
      BY <3>1, <3>2
  <2>9. NamedOrWritten'
    BY <2>4, <2>7 DEF NamedOrWritten
  <2>10. DisownedIsUnnamed'
    <3>1. Stage(pid)' # "disowned"
      <4>1. Stage(pid) # "disowned"
        BY <2>1 DEF Named, DisownedIsUnnamed
      <4> QED
        BY <2>6, <4>1 DEF Stage
    <3> QED
      BY <2>1, <2>4, <2>6, <3>1 DEF Named, DisownedIsUnnamed, Stage
  <2> QED
    BY <2>1, <2>2, <2>8, <2>9, <2>10, BusyGoesOn
<1>7. CASE AwaitExit(o)
  <2> PICK pid \in {commands[o].pid} : TRUE
    OBVIOUS
  <2>0. commands[o].pid = pid
    OBVIOUS
  <2>1. Busy(o) /\ ~InStep(o, {"write"}) /\ pid = pidFile /\ pid \in Pids
    BY <1>7, <1>k DEF AwaitExit, Busy, KnownBy, InStep
  <2>2. OthersStay /\ commands'[o].pc = IF Exists(pid) THEN "idle" ELSE "remove"
    BY <1>7, GoesOn, IsDone DEF AwaitExit, Typed
  <2>3. pidFile' = pidFile /\ processes' = processes /\ unwritten' = unwritten
    BY <1>7 DEF AwaitExit
  <2>4. \A other \in Pids : Owned(other) => pidFile = other
    BY <2>1 DEF Named, NamedOrWritten, OneBusy, Busy, InStep
  <2>5. KnownBy(o)'
    <3>1. ~Exists(pid) => \A other \in Pids : ~Owned(other)
      BY <2>1, <2>4 DEF Exists, Owned, Alive
    <3> QED
      BY <2>2, <2>3, <3>1 DEF KnownBy, InStep, Owned, Alive
  <2>6. NamedOrWritten'
    BY <2>3, <2>4 DEF NamedOrWritten, Owned, Alive
  <2>7. DisownedIsUnnamed'
    BY <2>3 DEF Named, DisownedIsUnnamed, Stage
  <2> QED
    BY <2>1, <2>2, <2>5, <2>6, <2>7, BusyGoesOn
<1>8. CASE RemoveFile(o)
  <2>1. Busy(o) /\ \A pid \in Pids : ~Owned(pid)
    BY <1>8, <1>k DEF RemoveFile, Busy, KnownBy, InStep
  <2>2. OthersStay /\ commands'[o].pc \in {"idle", "start"}
    BY <1>8, GoesOn, IsDone DEF RemoveFile, NotRunning, Typed
  <2>3. pidFile' = NoFile /\ processes' = processes /\ unwritten' = unwritten
    BY <1>8 DEF RemoveFile
  <2>4. \A pid \in Pids : ~Owned(pid)'
    BY <2>1, <2>3 DEF Owned, Alive
  <2>5. KnownBy(o)' /\ NamedOrWritten'
    BY <2>2, <2>4 DEF KnownBy, InStep, NamedOrWritten
  <2>6. DisownedIsUnnamed'
    BY <2>3 DEF Named, DisownedIsUnnamed, Stage
  <2> QED
    BY <2>1, <2>2, <2>5, <2>6, BusyGoesOn
<1> QED
  BY <1>1, <1>2, <1>3, <1>4, <1>5, <1>6, <1>7, <1>8

\* What a step of the daemon leaves of its process.
LEMMA OthersStay ==
    ASSUME Typed, NEW pid \in Pids,
           BeginRunning(pid) \/ ReceiveAndLoad(pid) \/ ApplyLoaded(pid) \/ Exit(pid)
    PROVE  \A other \in Pids \ {pid} : processes'[other] = processes[other]
<1>1. CASE BeginRunning(pid)
  BY <1>1 DEF BeginRunning, Typed
<1>2. CASE ReceiveAndLoad(pid)
  BY <1>2 DEF ReceiveAndLoad, Typed
<1>3. CASE ApplyLoaded(pid)
  BY <1>3 DEF ApplyLoaded, Typed
<1>4. CASE Exit(pid)
  BY <1>4 DEF Exit, Typed
<1> QED
  BY <1>1, <1>2, <1>3, <1>4

LEMMA Began ==
    ASSUME Typed, NEW pid \in Pids, BeginRunning(pid)
    PROVE  \/ processes'[pid] = NoProcess
           \/ /\ ~Bound(file.port)
              /\ Stage(pid)' = "running"
              /\ processes'[pid].applied = file
              /\ processes'[pid].server = ServerAfter(NoServer, file)
<1>1. processes[pid] \in ProcessType
  BY DEF Typed
<1>2. CASE Bound(file.port)
  BY <1>2 DEF BeginRunning, Typed
<1>3. CASE ~Bound(file.port)
  <2>1. processes' = [processes EXCEPT ![pid] =
           [processes[pid] EXCEPT !.stage = "running", !.applied = file,
                                  !.server = ServerAfter(NoServer, file)]]
    BY <1>3 DEF BeginRunning
  <2>2. processes'[pid] =
           [processes[pid] EXCEPT !.stage = "running", !.applied = file,
                                  !.server = ServerAfter(NoServer, file)]
    BY <2>1 DEF Typed
  <2> QED
    BY <1>1, <1>3, <2>2 DEF ProcessType, Stage
<1> QED
  BY <1>2, <1>3

LEMMA Received ==
    ASSUME Typed, NEW pid \in Pids, ReceiveAndLoad(pid)
    PROVE  /\ Stage(pid)' = "reloading"
           /\ processes'[pid].loaded = file
           /\ processes'[pid].applied = processes[pid].applied
           /\ processes'[pid].server = processes[pid].server
  BY DEF Typed, ProcessType, ReceiveAndLoad, Stage

LEMMA Applied ==
    ASSUME Typed, NEW pid \in Pids, ApplyLoaded(pid)
    PROVE  /\ Stage(pid)' = "running"
           /\ processes'[pid].hup = processes[pid].hup
           /\ processes[pid].loaded = Invalid =>
                 /\ processes'[pid].applied = processes[pid].applied
                 /\ processes'[pid].server = processes[pid].server
           /\ processes[pid].loaded # Invalid =>
                 /\ processes'[pid].applied = processes[pid].loaded
                 /\ processes'[pid].server
                       = ServerAfter(processes[pid].server, processes[pid].loaded)
<1>1. processes[pid] \in ProcessType
  BY DEF Typed
<1>2. CASE processes[pid].loaded = Invalid
  <2>1. processes'[pid] = [processes[pid] EXCEPT !.stage = "running", !.loaded = Invalid]
    BY <1>2 DEF ApplyLoaded, Typed
  <2> QED
    BY <1>1, <1>2, <2>1 DEF ProcessType, Stage
<1>3. CASE processes[pid].loaded # Invalid
  <2> DEFINE Kept == [processes[pid] EXCEPT !.stage = "running", !.loaded = Invalid]
  <2>1. processes' = [processes EXCEPT ![pid] =
           [Kept EXCEPT !.applied = processes[pid].loaded,
                        !.server = ServerAfter(@, processes[pid].loaded)]]
    BY <1>3 DEF ApplyLoaded
  <2>2. Kept \in ProcessType /\ Kept.server = processes[pid].server /\ Kept.stage = "running"
        /\ Kept.hup = processes[pid].hup
    BY <1>1 DEF ProcessType, Stages
  <2>3. processes'[pid] =
           [Kept EXCEPT !.applied = processes[pid].loaded,
                        !.server = ServerAfter(Kept.server, processes[pid].loaded)]
    BY <2>1 DEF Typed
  <2> HIDE DEF Kept
  <2> QED
    BY <1>3, <2>2, <2>3 DEF ProcessType, Stage
<1> QED
  BY <1>2, <1>3

LEMMA NamedByDaemon ==
    ASSUME Typed, Named, NEW pid \in Pids,
           BeginRunning(pid) \/ ReceiveAndLoad(pid) \/ ApplyLoaded(pid) \/ Exit(pid)
    PROVE  Named'
<1>1. UNCHANGED <<pidFile, commands, unwritten>>
  BY DEF BeginRunning, ReceiveAndLoad, ApplyLoaded, Exit
<1>2. \A other \in Pids \ {pid} : processes'[other] = processes[other]
  BY OthersStay
<1>3. Owned(pid)' => Owned(pid)
  BY DEF BeginRunning, ReceiveAndLoad, ApplyLoaded, Exit, Owned, Alive, NoProcess, Typed
<1>4. Stage(pid)' # "disowned"
  <2>1. CASE BeginRunning(pid)
    BY <2>1, Began DEF NoProcess, Stage
  <2>2. CASE ReceiveAndLoad(pid)
    BY <2>2, Received
  <2>3. CASE ApplyLoaded(pid)
    BY <2>3, Applied
  <2>4. CASE Exit(pid)
    BY <2>4 DEF Exit, NoProcess, Stage, Typed
  <2> QED
    BY <2>1, <2>2, <2>3, <2>4
<1>5. \A other \in Pids : /\ Owned(other)' => Owned(other)
                          /\ Stage(other)' = "disowned" => Stage(other) = "disowned"
  BY <1>2, <1>3, <1>4 DEF Owned, Alive, Stage
<1> QED
  BY <1>1, <1>5, NobodyJoins

LEMMA NamedByReload ==
    ASSUME Typed, Named, NEW o \in Operators,
           InspectToReload(o) \/ HangUp(o) \/ (Interrupt(o) /\ ~crossed')
    PROVE  Named'
<1>1. ~Busy(o) /\ ~Busy(o)'
  <2>1. CASE InspectToReload(o)
    <3>1. commands[o] = Idle /\ commands'[o].pc = "hup"
      BY <2>1 DEF InspectToReload, Typed, CommandType
    <3> QED
      BY <3>1 DEF Busy, Idle
  <2>2. CASE HangUp(o)
    BY <2>2, IsDone DEF HangUp, Busy, Typed
  <2>3. CASE Interrupt(o) /\ ~crossed'
    BY <2>3, IsDone DEF Interrupt, Busy, Typed
  <2> QED
    BY <2>1, <2>2, <2>3
<1>2. \A other \in Operators \ {o} : commands'[other] = commands[other]
  BY IsDone DEF InspectToReload, HangUp, Interrupt, Typed
<1>3. pidFile' = pidFile /\ unwritten' = unwritten
  BY DEF InspectToReload, HangUp, Interrupt
<1>4. \A pid \in Pids : /\ Owned(pid)' => Owned(pid)
                        /\ Stage(pid)' = "disowned" => Stage(pid) = "disowned"
  <2>1. CASE processes' = processes
    BY <2>1 DEF Owned, Alive, Stage
  <2>2. CASE HangUp(o)
    <3> SUFFICES ASSUME NEW pid \in Pids PROVE Stage(pid)' \in {"none", Stage(pid)}
      BY DEF Owned, Alive, Stage
    <3>1. CASE pid # commands[o].pid
      BY <2>2, <3>1, HungUpStages DEF HangUp, Typed, Stage
    <3>2. CASE pid = commands[o].pid
      <4>1. processes'[pid] = HungUp(pid)[pid]
        BY <2>2, <3>2 DEF HangUp
      <4>2. processes[pid] \in ProcessType
        BY DEF Typed
      <4>3. CASE Stage(pid) = "starting"
        <5>1. processes'[pid] = NoProcess
          BY <4>1, <4>3, HungUpStages DEF Typed
        <5> QED
          BY <5>1 DEF Stage, NoProcess
      <4>4. CASE Stage(pid) \in {"running", "reloading"}
        <5>1. processes'[pid] = [processes[pid] EXCEPT !.hup = TRUE]
          BY <4>1, <4>4, HungUpStages DEF Typed
        <5> QED
          BY <4>2, <5>1 DEF Stage, ProcessType
      <4>5. CASE Stage(pid) \notin {"starting", "running", "reloading"}
        BY <4>1, <4>5, HungUpStages DEF Typed, Stage
      <4> QED
        BY <4>3, <4>4, <4>5
    <3> QED
      BY <3>1, <3>2
  <2> QED
    BY <2>1, <2>2 DEF InspectToReload, Interrupt
<1>5. \A other \in Operators : Busy(other) \/ Busy(other)' => commands'[other] = commands[other]
  BY <1>1, <1>2
<1> QED
  BY <1>3, <1>4, <1>5, NobodyJoins

LEMMA NamedByBegin ==
    ASSUME Typed, Named, NEW o \in Operators, BeginCommand(o), ~crossed'
    PROVE  Named'
<1>1. \A other \in Operators \ {o} : ~Busy(other) /\ commands'[other] = commands[other]
  BY DEF BeginCommand, Typed
<1>2. commands[o].pc = "idle"
  BY DEF BeginCommand, Idle
<1>3. commands'[o].pc \in {"start", "stop"}
  BY DEF BeginCommand, Idle, Typed
<1>4. UNCHANGED <<pidFile, processes, unwritten>>
  BY DEF BeginCommand
<1>5. OneBusy'
  BY <1>1 DEF OneBusy, Busy
<1>6. \A other \in Operators : KnownBy(other)'
  <2>1. KnownBy(o)'
    BY <1>3 DEF KnownBy, InStep
  <2>2. ASSUME NEW other \in Operators \ {o} PROVE KnownBy(other)'
    BY <1>1 DEF KnownBy, InStep, Busy
  <2> QED
    BY <2>1, <2>2
<1>7. NamedOrWritten'
  <2> SUFFICES ASSUME NEW pid \in Pids, Owned(pid)' PROVE pidFile' = pid
    BY DEF NamedOrWritten
  <2>1. Owned(pid)
    BY <1>4 DEF Owned, Alive
  <2>2. \A other \in Operators : ~InStep(other, {"write"})
    BY <1>1, <1>2 DEF InStep, Busy
  <2> QED
    BY <1>4, <2>1, <2>2 DEF Named, NamedOrWritten
<1>8. DisownedIsUnnamed'
  BY <1>4 DEF Named, DisownedIsUnnamed, Stage
<1> QED
  BY <1>5, <1>6, <1>7, <1>8 DEF Named

LEMMA InitIsNamed == ControlInit => NamedInv
<1> SUFFICES ASSUME ControlInit PROVE NamedInv
  OBVIOUS
<1>1. \A pid \in Pids : Stage(pid) = "none" /\ ~Owned(pid)
  BY DEF ControlInit, NoProcess, Stage, Owned, Alive
<1>2. \A o \in Operators : commands[o].pc = "idle"
  BY DEF ControlInit, Idle
<1>3. OneBusy /\ NamedOrWritten /\ DisownedIsUnnamed
  BY <1>1, <1>2 DEF OneBusy, Busy, NamedOrWritten, DisownedIsUnnamed
<1>4. \A o \in Operators : KnownBy(o)
  BY <1>2 DEF KnownBy, InStep
<1> QED
  BY <1>3, <1>4, InitIsTyped DEF NamedInv, Named

LEMMA NextIsNamed == NamedInv /\ [ControlNext]_controlVars => NamedInv'
<1> SUFFICES ASSUME NamedInv, [ControlNext]_controlVars PROVE NamedInv'
  OBVIOUS
<1> USE DEF NamedInv
<1>1. ASSUME NEW o \in Operators,
             \/ InspectToStart(o) \/ RemoveStale(o) \/ Spawn(o) \/ WritePid(o)
             \/ InspectToStop(o) \/ Terminate(o) \/ AwaitExit(o) \/ RemoveFile(o)
      PROVE  NamedInv'
  <2>1. crossed' = crossed
    BY <1>1 DEF InspectToStart, RemoveStale, Spawn, WritePid, InspectToStop, Terminate, AwaitExit,
                RemoveFile
  <2>2. Typed'
    BY <1>1, CommandIsTyped
  <2>3. ~crossed => Named'
    BY <1>1, NamedByCommand
  <2> QED
    BY <2>1, <2>2, <2>3
<1>2. ASSUME NEW o \in Operators, BeginCommand(o) PROVE NamedInv'
  <2>1. ~crossed' => ~crossed
    BY <1>2 DEF BeginCommand
  <2>2. Typed'
    BY <1>2, CommandIsTyped
  <2>3. ~crossed' => Named'
    BY <1>2, <2>1, NamedByBegin
  <2> QED
    BY <2>2, <2>3
<1>3. ASSUME NEW o \in Operators, InspectToReload(o) \/ HangUp(o) \/ Interrupt(o)
      PROVE  NamedInv'
  <2>1. ~crossed' => ~crossed
    BY <1>3 DEF InspectToReload, HangUp, Interrupt
  <2>2. Typed'
    BY <1>3, CommandIsTyped
  <2>3. ~crossed' => Named'
    BY <1>3, <2>1, NamedByReload
  <2> QED
    BY <2>2, <2>3
<1>4. ASSUME NEW pid \in Pids,
             BeginRunning(pid) \/ ReceiveAndLoad(pid) \/ ApplyLoaded(pid) \/ Exit(pid)
      PROVE  NamedInv'
  <2>1. crossed' = crossed
    BY <1>4 DEF BeginRunning, ReceiveAndLoad, ApplyLoaded, Exit
  <2>2. Typed'
    BY <1>4, DaemonIsTyped
  <2>3. ~crossed => Named'
    BY <1>4, NamedByDaemon
  <2> QED
    BY <2>1, <2>2, <2>3
<1>5. CASE Edit
  <2>1. Typed'
    BY <1>5, EditIsTyped
  <2>2. UNCHANGED <<pidFile, processes, commands, crossed, unwritten>>
    BY <1>5 DEF Edit
  <2>3. ~crossed => Named'
    BY <2>2, NobodyJoins DEF Owned, Alive, Stage
  <2> QED
    BY <2>1, <2>2, <2>3
<1>6. CASE UNCHANGED controlVars
  <2>1. Typed'
    BY <1>6 DEF controlVars, Typed
  <2>2. UNCHANGED <<pidFile, processes, commands, crossed, unwritten>>
    BY <1>6 DEF controlVars
  <2>3. ~crossed => Named'
    BY <2>2, NobodyJoins DEF Owned, Alive, Stage
  <2> QED
    BY <2>1, <2>2, <2>3
<1> QED
  BY <1>1, <1>2, <1>3, <1>4, <1>5, <1>6 DEF ControlNext

LEMMA AtMostOneOwned ==
    ASSUME Named, NEW a \in Pids, NEW b \in Pids, Owned(a), Owned(b)
    PROVE  a = b
<1>1. CASE pidFile = a /\ pidFile = b
  BY <1>1
<1>2. ASSUME NEW o \in Operators, InStep(o, {"write"}) PROVE a = commands[o].pid /\ b = commands[o].pid
  <2>1. pidFile = NoFile
    BY <1>2 DEF Named, KnownBy, InStep
  <2>2. \A other \in Operators : InStep(other, {"write"}) => other = o
    BY <1>2 DEF Named, OneBusy, Busy, InStep
  <2>3. pidFile \notin Pids
    BY <2>1, DaemonControlAssumption
  <2> QED
    BY <2>2, <2>3 DEF Named, NamedOrWritten
<1> QED
  BY <1>1, <1>2 DEF Named, NamedOrWritten

\* The processes, the PID file and the commands are well-formed (the types of
\* daemon.go and main.go), for any number of commands and edits.
THEOREM ControlIsTyped == ControlSpec => []ControlTypeOK
<1>1. NamedInv => ControlTypeOK
  BY TypesAreTheSame DEF NamedInv
<1> QED
  BY InitIsNamed, NextIsNamed, <1>1, PTL DEF ControlSpec

\* Where commands that start or stop do not overlap and are not killed, there is at most
\* one daemon, whatever fails on the way, and between commands the PID file names it
\* (daemon.Start and daemon.Stop).
THEOREM DaemonIsAlwaysNamed == ControlSpec => []DaemonIsNamed
<1>1. NamedInv => DaemonIsNamed
  <2> SUFFICES ASSUME NamedInv, ~crossed PROVE DaemonIsNamed
    BY DEF DaemonIsNamed
  <2>1. \A a, b \in Pids : Owned(a) /\ Owned(b) => a = b
    BY AtMostOneOwned DEF NamedInv
  <2>2. ASSUME \A o \in Operators : ~Busy(o), NEW pid \in Pids, Owned(pid) PROVE pidFile = pid
    BY <2>2 DEF NamedInv, Named, NamedOrWritten, Busy, InStep
  <2> QED
    BY <2>1, <2>2 DEF DaemonIsNamed
<1> QED
  BY InitIsNamed, NextIsNamed, <1>1, PTL DEF ControlSpec

-----------------------------------------------------------------------------
(* No reload is lost *)

LEMMA InitServes == ControlInit => ReloadInv
  BY InitIsNamed DEF ControlInit, ReloadInv, Follows, Serves, ServesAs, Stage, NoProcess

\* A port is taken by a process that has a server.
LEMMA WhoServes ==
    ASSUME Serves, NEW port, Bound(port)
    PROVE  \E pid \in Pids : /\ processes[pid].server.port = port
                             /\ processes[pid].server # NoServer
                             /\ Stage(pid) \notin {"none", "starting"}
<1>1. PICK pid \in Pids : processes[pid].server.port = port
  BY DEF Bound
<1>2. port # NoPort /\ NoServer.port = NoPort
  BY DEF Bound, NoServer
<1>3. processes[pid].server # NoServer
  BY <1>1, <1>2
<1> QED
  BY <1>1, <1>3 DEF Serves, ServesAs

\* The only port a daemon can find taken, in good order, is its own.
LEMMA TakenByItself ==
    ASSUME ReloadInv, NEW pid \in Pids, Owned(pid), NEW port, Bound(port), ~crossed, ~unwritten
    PROVE  processes[pid].server # NoServer
<1>1. PICK other \in Pids : /\ processes[other].server # NoServer
                            /\ Stage(other) \notin {"none", "starting"}
  BY WhoServes DEF ReloadInv
<1>2. Named /\ processes[other] \in ProcessType
  BY DEF ReloadInv, NamedInv, Typed
<1>3. Stage(other) # "disowned"
  BY <1>2 DEF Named, DisownedIsUnnamed
<1>4. Owned(other)
  BY <1>1, <1>2, <1>3 DEF Owned, Alive, Stage, ProcessType, Stages
<1> QED
  BY <1>1, <1>2, <1>4, AtMostOneOwned

\* A process that does not change goes on to serve as it did.
LEMMA StaysServing ==
    ASSUME NEW pid \in Pids, ServesAs(pid), processes'[pid] = processes[pid],
           crossed => crossed', unwritten => unwritten'
    PROVE  ServesAs(pid)'
  BY DEF ServesAs, Stage

LEMMA StaysFollowing ==
    ASSUME Follows, file' = file, told' \subseteq told, processes' = processes
    PROVE  Follows'
  BY DEF Follows, Stage

\* No server, and no signal.
LEMMA FreshServes ==
    ASSUME NEW pid \in Pids, processes'[pid] = NoProcess PROVE ServesAs(pid)'
  BY DEF ServesAs, Stage, NoProcess

LEMMA ReloadByCommand ==
    ASSUME ReloadInv, NEW o \in Operators,
           \/ BeginCommand(o) \/ InspectToStart(o) \/ RemoveStale(o) \/ InspectToStop(o)
           \/ AwaitExit(o) \/ RemoveFile(o) \/ InspectToReload(o) \/ Interrupt(o)
    PROVE  Follows' /\ Serves'
<1>1. UNCHANGED <<processes, unwritten, file, told>> /\ (crossed => crossed')
  <2>1. UNCHANGED <<processes, unwritten, file, told>>
    BY DEF BeginCommand, InspectToStart, RemoveStale, InspectToStop, AwaitExit, RemoveFile,
           InspectToReload, Interrupt
  <2>2. CASE BeginCommand(o) \/ Interrupt(o)
    BY <2>1, <2>2 DEF BeginCommand, Interrupt
  <2>3. CASE \/ InspectToStart(o) \/ RemoveStale(o) \/ InspectToStop(o)
             \/ AwaitExit(o) \/ RemoveFile(o) \/ InspectToReload(o)
    <3>1. crossed' = crossed
      BY <2>3 DEF InspectToStart, RemoveStale, InspectToStop, AwaitExit, RemoveFile,
                  InspectToReload
    <3> QED
      BY <2>1, <3>1
  <2> QED
    BY <2>1, <2>2, <2>3
<1>2. Follows'
  BY <1>1, StaysFollowing DEF ReloadInv
<1>3. Serves'
  BY <1>1, StaysServing DEF ReloadInv, Serves
<1> QED
  BY <1>2, <1>3

\* A step that changes one process and leaves no daemon there that runs.
LEMMA ReloadByEnd ==
    ASSUME ReloadInv, NEW pid \in Pids,
           \A other \in Pids \ {pid} : processes'[other] = processes[other],
           Stage(pid)' \notin {"running", "reloading"}, ServesAs(pid)',
           file' = file, told' \subseteq told, crossed => crossed', unwritten => unwritten'
    PROVE  Follows' /\ Serves'
<1>1. Follows'
  <2>1. \A other \in told' : other # pid => processes'[other] = processes[other]
    BY DEF ReloadInv, NamedInv, Typed
  <2> QED
    BY <2>1 DEF ReloadInv, Follows, Stage
<1>2. Serves'
  BY StaysServing DEF ReloadInv, Serves
<1> QED
  BY <1>1, <1>2

LEMMA ReloadBySpawn ==
    ASSUME ReloadInv, NEW o \in Operators, Spawn(o)
    PROVE  Follows' /\ Serves'
<1> PICK pid \in Pids : ~Exists(pid) /\ processes' = [processes EXCEPT ![pid].stage = "starting"]
  BY DEF Spawn
<1>1. Typed /\ processes[pid] \in ProcessType /\ ServesAs(pid)
  BY DEF ReloadInv, NamedInv, Typed, Serves
<1>2. /\ \A other \in Pids \ {pid} : processes'[other] = processes[other]
      /\ processes'[pid] = [processes[pid] EXCEPT !.stage = "starting"]
  BY <1>1 DEF Typed
<1>3. Stage(pid)' = "starting" /\ processes'[pid].server = processes[pid].server
         /\ processes'[pid].hup = processes[pid].hup
  BY <1>1, <1>2 DEF ProcessType, Stage
<1>4. ServesAs(pid)'
  BY <1>1, <1>3 DEF ServesAs, Exists, Stage
<1>5. UNCHANGED <<crossed, unwritten, file, told>>
  BY DEF Spawn
<1> QED
  BY <1>2, <1>3, <1>4, <1>5, ReloadByEnd

LEMMA ReloadByTerminating ==
    ASSUME ReloadInv, NEW pid, NEW stage \in {"ending", "disowned"},
           processes' \in Terminated(pid, stage),
           file' = file, told' = told, crossed => crossed', unwritten => unwritten'
    PROVE  Follows' /\ Serves'
<1>1. processes \in [Pids -> ProcessType]
  BY DEF ReloadInv, NamedInv, Typed
<1>2. CASE Exists(pid)
  <2>1. pid \in Pids
    BY <1>2 DEF Exists
  <2>2. \A other \in Pids \ {pid} : processes'[other] = processes[other]
    BY <1>1, TerminatedStages
  <2>3. processes'[pid] = NoProcess \/ processes'[pid].stage = stage
    BY <1>1, <1>2, TerminatedStages
  <2>4. Stage(pid)' \in {"none", "ending", "disowned"}
    BY <2>3 DEF Stage, NoProcess
  <2>5. ServesAs(pid)'
    BY <2>3 DEF ServesAs, Stage, NoProcess
  <2> QED
    BY <2>1, <2>2, <2>4, <2>5, ReloadByEnd
<1>3. CASE ~Exists(pid)
  <2>1. processes' = processes
    BY <1>1, <1>3, TerminatedStages
  <2> QED
    BY <2>1, StaysFollowing, StaysServing DEF ReloadInv, Serves
<1> QED
  BY <1>2, <1>3

LEMMA ReloadByHangUp ==
    ASSUME ReloadInv, NEW o \in Operators, HangUp(o)
    PROVE  Follows' /\ Serves'
<1> PICK pid \in {commands[o].pid} : TRUE
  OBVIOUS
<1>1. Typed /\ processes \in [Pids -> ProcessType]
  BY DEF ReloadInv, NamedInv, Typed
<1>2. /\ \A other \in Pids : other # pid => processes'[other] = processes[other]
      /\ UNCHANGED <<crossed, unwritten, file>>
      /\ told' = told \cup ({pid} \cap {p \in Pids : Alive(p)})
  BY <1>1, HungUpStages DEF HangUp
<1>3. CASE pid \notin Pids
  <2>1. told' = told /\ \A other \in Pids : processes'[other] = processes[other]
    BY <1>2, <1>3
  <2>2. told \subseteq Pids
    BY <1>1 DEF Typed
  <2> QED
    BY <1>2, <2>1, <2>2, StaysServing DEF ReloadInv, Follows, Serves, Stage
<1>4. CASE pid \in Pids
  <2>1. processes[pid] \in ProcessType /\ processes' = HungUp(pid)
    BY <1>1, <1>4 DEF HangUp
  <2>2. \A other \in told' : other = pid \/ (other \in told /\ processes'[other] = processes[other])
    <3>1. told \subseteq Pids
      BY <1>1 DEF Typed
    <3>2. \A other \in told' : other = pid \/ other \in told
      BY <1>2
    <3> QED
      BY <1>2, <3>1, <3>2
  <2>3. CASE Stage(pid) = "starting"
    <3>1. processes'[pid] = NoProcess
      BY <1>1, <1>4, <2>1, <2>3, HungUpStages
    <3>2. Stage(pid)' = "none" /\ ServesAs(pid)'
      <4>1. ServesAs(pid)'
        BY <1>4, <3>1, FreshServes
      <4> QED
        BY <3>1, <4>1 DEF Stage, NoProcess
    <3>3. Follows'
      BY <1>2, <2>2, <3>2 DEF ReloadInv, Follows, Stage
    <3>4. Serves'
      BY <1>2, <3>2, StaysServing DEF ReloadInv, Serves
    <3> QED
      BY <3>3, <3>4
  <2>4. CASE Stage(pid) \in {"running", "reloading"}
    <3>1. processes'[pid] = [processes[pid] EXCEPT !.hup = TRUE]
      BY <1>1, <1>4, <2>1, <2>4, HungUpStages
    <3>2. /\ processes'[pid].hup = TRUE /\ Stage(pid)' = Stage(pid)
          /\ processes'[pid].applied = processes[pid].applied
          /\ processes'[pid].server = processes[pid].server
      BY <2>1, <3>1 DEF ProcessType, Stage
    <3>3. ServesAs(pid)'
      BY <1>2, <1>4, <2>4, <3>2 DEF ReloadInv, Serves, ServesAs
    <3>4. Follows'
      BY <1>2, <2>2, <3>2 DEF ReloadInv, Follows, Stage
    <3>5. Serves'
      BY <1>2, <3>3, StaysServing DEF ReloadInv, Serves
    <3> QED
      BY <3>4, <3>5
  <2>5. CASE Stage(pid) \notin {"starting", "running", "reloading"}
    <3>1. processes'[pid] = processes[pid]
      BY <1>1, <1>4, <2>1, <2>5, HungUpStages
    <3>2. Stage(pid)' \notin {"running", "reloading"}
      BY <2>5, <3>1 DEF Stage
    <3>3. Follows'
      BY <1>2, <2>2, <3>2 DEF ReloadInv, Follows, Stage
    <3>4. Serves'
      BY <1>2, <1>4, <3>1, StaysServing DEF ReloadInv, Serves
    <3> QED
      BY <3>3, <3>4
  <2> QED
    BY <2>3, <2>4, <2>5
<1> QED
  BY <1>3, <1>4

LEMMA ReloadByDaemon ==
    ASSUME ReloadInv, NEW pid \in Pids,
           BeginRunning(pid) \/ ReceiveAndLoad(pid) \/ ApplyLoaded(pid) \/ Exit(pid)
    PROVE  Follows' /\ Serves'
<1>1. Typed /\ ServesAs(pid) /\ processes[pid] \in ProcessType
  BY DEF ReloadInv, NamedInv, Typed, Serves
<1>2. UNCHANGED <<crossed, unwritten, file>> /\ told' \subseteq told
  BY DEF BeginRunning, ReceiveAndLoad, ApplyLoaded, Exit
<1>3. \A other \in Pids \ {pid} : processes'[other] = processes[other]
  BY <1>1, OthersStay
<1>4. ASSUME /\ pid \in told' /\ Stage(pid)' = "running" /\ ~processes'[pid].hup /\ file # Invalid
                   => processes'[pid].applied = file
             /\ pid \in told' /\ Stage(pid)' = "reloading" => processes'[pid].loaded = file,
             ServesAs(pid)'
      PROVE  Follows' /\ Serves'
  <2>1. \A other \in told' : other = pid \/ (other \in told /\ processes'[other] = processes[other])
    <3>1. told \subseteq Pids
      BY <1>1 DEF Typed
    <3> QED
      BY <1>2, <1>3, <3>1
  <2>2. Follows'
    BY <1>2, <1>4, <2>1 DEF ReloadInv, Follows, Stage
  <2>3. Serves'
    BY <1>2, <1>3, <1>4, StaysServing DEF ReloadInv, Serves
  <2> QED
    BY <2>2, <2>3
<1>5. CASE BeginRunning(pid)
  <2>1. CASE processes'[pid] = NoProcess
    <3>1. ServesAs(pid)'
      BY <2>1, FreshServes
    <3>2. Stage(pid)' \notin {"running", "reloading"}
      BY <2>1 DEF Stage, NoProcess
    <3> QED
      BY <1>2, <1>3, <3>1, <3>2, ReloadByEnd
  <2>2. CASE /\ ~Bound(file.port)
             /\ Stage(pid)' = "running"
             /\ processes'[pid].applied = file
             /\ processes'[pid].server = ServerAfter(NoServer, file)
    <3>1. file \in Configurations
      BY <1>1, <1>5 DEF BeginRunning, Typed
    <3>2. file # Invalid /\ file.port \in Nat
      BY <3>1, DaemonControlAssumption
    <3>3. file.port = NoPort => processes'[pid].server = NoServer
      BY <2>2 DEF ServerAfter
    <3>4. file.port # NoPort => processes'[pid].server # NoServer
      <4>1. NoServer.port = NoPort
        BY DEF NoServer
      <4> QED
        BY <2>2, <4>1 DEF ServerAfter
    <3>5. ServesAs(pid)'
      BY <2>2, <3>2, <3>3, <3>4 DEF ServesAs
    <3> QED
      BY <1>4, <2>2, <3>5
  <2> QED
    BY <1>1, <1>5, <2>1, <2>2, Began
<1>6. CASE ReceiveAndLoad(pid)
  <2>1. /\ Stage(pid)' = "reloading"
        /\ processes'[pid].loaded = file
        /\ processes'[pid].applied = processes[pid].applied
        /\ processes'[pid].server = processes[pid].server
    BY <1>1, <1>6, Received
  <2>2. ServesAs(pid)'
    BY <1>1, <1>2, <1>6, <2>1 DEF ServesAs, ReceiveAndLoad, Stage
  <2> QED
    BY <1>4, <2>1, <2>2
<1>7. CASE ApplyLoaded(pid)
  <2>1. /\ Stage(pid)' = "running" /\ Stage(pid) = "reloading"
        /\ processes'[pid].hup = processes[pid].hup
    BY <1>1, <1>7, Applied DEF ApplyLoaded, Stage
  <2>2. pid \in told' /\ ~processes'[pid].hup => processes[pid].loaded = file
    BY <1>2, <2>1 DEF ReloadInv, Follows
  <2>3. CASE processes[pid].loaded = Invalid
    <3>1. /\ processes'[pid].applied = processes[pid].applied
          /\ processes'[pid].server = processes[pid].server
      BY <1>1, <1>7, <2>3, Applied
    <3>2. ServesAs(pid)'
      BY <1>1, <1>2, <2>1, <3>1 DEF ServesAs
    <3> QED
      BY <1>4, <2>1, <2>2, <2>3, <3>2
  <2>4. CASE processes[pid].loaded # Invalid
    <3> PICK loaded \in {processes[pid].loaded} : TRUE
      OBVIOUS
    <3>1. /\ processes'[pid].applied = loaded
          /\ processes'[pid].server = ServerAfter(processes[pid].server, loaded)
      BY <1>1, <1>7, <2>4, Applied
    <3>2. loaded.port = NoPort => processes'[pid].server = NoServer
      BY <3>1 DEF ServerAfter
    <3>3. ASSUME loaded.port # NoPort, processes'[pid].server = NoServer
          PROVE  crossed \/ unwritten
      <4>1. Bound(loaded.port) /\ processes[pid].server = NoServer
        <5>1. NoServer.port = NoPort
          BY DEF NoServer
        <5> QED
          BY <3>1, <3>3, <5>1 DEF ServerAfter
      <4>2. Owned(pid)
        BY <2>1 DEF Owned, Alive, Stage
      <4> QED
        BY <4>1, <4>2, TakenByItself
    <3>4. ServesAs(pid)'
      BY <1>2, <2>1, <2>4, <3>1, <3>2, <3>3 DEF ServesAs
    <3> QED
      BY <1>4, <2>1, <2>2, <3>1, <3>4
  <2> QED
    BY <2>3, <2>4
<1>8. CASE Exit(pid)
  <2>1. processes'[pid] = NoProcess
    BY <1>1, <1>8 DEF Exit, Typed
  <2>2. ServesAs(pid)'
    BY <2>1, FreshServes
  <2>3. Stage(pid)' \notin {"running", "reloading"}
    BY <2>1 DEF Stage, NoProcess
  <2> QED
    BY <1>2, <1>3, <2>2, <2>3, ReloadByEnd
<1> QED
  BY <1>5, <1>6, <1>7, <1>8

LEMMA NextServes == ReloadInv /\ [ControlNext]_controlVars => ReloadInv'
<1> SUFFICES ASSUME ReloadInv, [ControlNext]_controlVars PROVE ReloadInv'
  OBVIOUS
<1>1. NamedInv'
  BY NextIsNamed DEF ReloadInv
<1> SUFFICES Follows' /\ Serves'
  BY <1>1 DEF ReloadInv
<1>2. ASSUME NEW o \in Operators,
             \/ BeginCommand(o) \/ InspectToStart(o) \/ RemoveStale(o) \/ InspectToStop(o)
             \/ AwaitExit(o) \/ RemoveFile(o) \/ InspectToReload(o) \/ Interrupt(o)
      PROVE  Follows' /\ Serves'
  BY <1>2, ReloadByCommand
<1>3. ASSUME NEW o \in Operators, Spawn(o) PROVE Follows' /\ Serves'
  BY <1>3, ReloadBySpawn
<1>4. ASSUME NEW o \in Operators, WritePid(o) PROVE Follows' /\ Serves'
  <2>1. UNCHANGED <<crossed, file, told>> /\ (unwritten => unwritten')
    BY <1>4 DEF WritePid
  <2>2. CASE processes' = processes
    BY <2>1, <2>2, StaysFollowing, StaysServing DEF ReloadInv, Serves
  <2>3. CASE processes' \in Terminated(commands[o].pid, "disowned")
    BY <2>1, <2>3, ReloadByTerminating
  <2> QED
    BY <1>4, <2>2, <2>3 DEF WritePid, TerminateUnwritten
<1>5. ASSUME NEW o \in Operators, Terminate(o) PROVE Follows' /\ Serves'
  <2>1. UNCHANGED <<crossed, unwritten, file, told>>
    BY <1>5 DEF Terminate
  <2>2. processes' \in Terminated(commands[o].pid, "ending")
    BY <1>5 DEF Terminate
  <2> QED
    BY <2>1, <2>2, ReloadByTerminating
<1>6. ASSUME NEW o \in Operators, HangUp(o) PROVE Follows' /\ Serves'
  BY <1>6, ReloadByHangUp
<1>7. ASSUME NEW pid \in Pids,
             BeginRunning(pid) \/ ReceiveAndLoad(pid) \/ ApplyLoaded(pid) \/ Exit(pid)
      PROVE  Follows' /\ Serves'
  BY <1>7, ReloadByDaemon
<1>8. CASE Edit
  <2>1. told' = {} /\ UNCHANGED <<processes, crossed, unwritten>>
    BY <1>8 DEF Edit
  <2> QED
    BY <2>1, StaysServing DEF ReloadInv, Follows, Serves
<1>9. CASE UNCHANGED controlVars
  BY <1>9, StaysFollowing, StaysServing DEF controlVars, ReloadInv, Serves
<1> QED
  BY <1>2, <1>3, <1>4, <1>5, <1>6, <1>7, <1>8, <1>9 DEF ControlNext

\* No reload is lost: a daemon that was told to reload since the file was edited, and has
\* nothing more to do, follows the file, and serves status pages exactly if the file says
\* so, as long as commands do not overlap and every PID file could be written (Runner.Run
\* and applyStatusServer), for any number of operators, processes and edits.
THEOREM ReloadsAreApplied == ControlSpec => []ReloadIsApplied
<1>1. ReloadInv => ReloadIsApplied
  <2> SUFFICES ASSUME ReloadInv, NEW pid \in told,
                      processes[pid].stage = "running", ~processes[pid].hup, file # Invalid
               PROVE  /\ processes[pid].applied = file
                      /\ file.port = NoPort => processes[pid].server = NoServer
                      /\ file.port # NoPort /\ processes[pid].server = NoServer
                            => crossed \/ unwritten
    BY DEF ReloadIsApplied
  <2>1. processes[pid].applied = file
    BY DEF ReloadInv, Follows, Stage
  <2>2. ServesAs(pid)
    BY DEF ReloadInv, NamedInv, Typed, Serves
  <2> QED
    BY <2>1, <2>2 DEF ServesAs, Stage
<1> QED
  BY InitServes, NextServes, <1>1, PTL DEF ControlSpec

=============================================================================
