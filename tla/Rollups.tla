------------------------------ MODULE Rollups ------------------------------
(***************************************************************************)
(* Probe results of a monitor and what becomes of them: raw results are    *)
(* compacted into runs of equal outcomes and summed up by the minute, those *)
(* sums by the hour and by the day, each after its own retention; and the  *)
(* numbers that are reported from all of these tables together.            *)
(*                                                                         *)
(* Moments are small numbers, and minutes, hours and days are shortened to *)
(* the widths that the CONSTANTS give them.                                *)
(***************************************************************************)
EXTENDS Integers, Sequences, FiniteSetsExt, SequencesExt

CONSTANTS
    Backends,       \* what the daemon may be started with: "sqlite", "postgres"
    Policies,       \* what config.storage may say, see Retention
    Outcomes,       \* the outcomes of probes that occur, see Outcome
    Minute, Hour, Day,
    MaxProbes,      \* bound on the number of probes
    LastTime,       \* bound on the clock
    MaxLate         \* how long a probe or a prune takes, at most

Outcome == {"ok", "failed", "suppressed", "maintenance_ok", "maintenance_failed"}
Levels == {"raw", "minute", "hour", "day"}
Forever == -1
Retention == [Levels -> {Forever} \cup (Nat \ {0})]

ASSUME RollupsAssumption ==
    /\ Backends \subseteq {"sqlite", "postgres"}
    /\ Policies \subseteq Retention
    /\ Outcomes \subseteq Outcome
    /\ {Minute, Hour, Day} \subseteq Nat \ {0}
    /\ Hour % Minute = 0 /\ Day % Hour = 0
    /\ MaxProbes \in Nat /\ LastTime \in Nat /\ MaxLate \in Nat
    \* A probe is stored long before raw results are pruned.
    /\ \A p \in Policies : p["raw"] = Forever \/ MaxLate < p["raw"]

VARIABLES
    time,       \* the clock
    backend,    \* which store is used
    policy,     \* the retention of the configuration in use
    tables,     \* what is committed, see Tables
    pruning,    \* the transaction of a prune that is under way
    \* History variable:
    probes      \* every probe that was stored

rollupVars == <<time, backend, policy, tables, pruning, probes>>

-----------------------------------------------------------------------------
(* Rows *)

None == -1      \* no moment, no transaction

Probe == [at : Nat, outcome : Outcomes]
Reportable(p) == p.outcome \in {"ok", "failed"}
OK(p) == p.outcome \in {"ok", "maintenance_ok"}

LeastOf(moments) == IF moments = {} THEN None ELSE Min(moments)
GreatestOf(moments) == IF moments = {} THEN None ELSE Max(moments)

\* The sums over some raw results.
Summary(some) ==
    LET reportable == {p \in some : Reportable(p)}
        covered == {p \in some : p.outcome \in {"maintenance_ok", "maintenance_failed"}}
        moments == {p.at : p \in reportable}
    IN  [total |-> Cardinality(reportable),
         successful |-> Cardinality({p \in reportable : OK(p)}),
         maintenance |-> Cardinality(covered),
         maintenanceFailed |-> Cardinality({p \in covered : ~OK(p)}),
         first |-> LeastOf(moments), last |-> GreatestOf(moments)]

Nothing == Summary({})

MergedFirst(a, b) == LeastOf({a, b} \ {None})
MergedLast(a, b) == GreatestOf({a, b} \ {None})

Plus(a, b) ==
    [total |-> a.total + b.total,
     successful |-> a.successful + b.successful,
     maintenance |-> a.maintenance + b.maintenance,
     maintenanceFailed |-> a.maintenanceFailed + b.maintenanceFailed,
     first |-> MergedFirst(a.first, b.first),
     last |-> MergedLast(a.last, b.last)]

\* The sums over some rows of a table of rollups.
SumOf(rollups, starts) ==
    MapThenFoldSet(Plus, Nothing, LAMBDA s : rollups[s], LAMBDA S : CHOOSE s \in S : TRUE, starts)

\* Faulty variant: a bucket is named by its end.
RoundedUp(t, width) == t - (t % width) + width

Truncated(t, width) == t - (t % width)

Tables == {"raw", "runs", "minute", "hour", "day"}
Empty == [raw |-> {}, runs |-> {}, minute |-> <<>>, hour |-> <<>>, day |-> <<>>]

-----------------------------------------------------------------------------
(* The statements of RollupAndPruneProbeResults *)

Older(rows, cutoff) == {p \in rows : p.at < cutoff}
Starts(rollups, cutoff) == {s \in DOMAIN rollups : s < cutoff}

LastStarted(runs) == CHOOSE r \in runs : \A q \in runs : q.from <= r.from

\* The last run of equal outcomes grows while the outcome stays the same.
AppendOutcomeRun(runs, p) ==
    LET last == LastStarted(runs)
    IN  IF runs # {} /\ last.ok = OK(p)
        THEN (runs \ {last}) \cup {[last EXCEPT !.to = p.at, !.count = @ + 1]}
        ELSE runs \cup {[ok |-> OK(p), from |-> p.at, to |-> p.at, count |-> 1]}

Latest(some) == CHOOSE p \in some : \A q \in some : q.at <= p.at

\* Probes are appended in the order of their moments, the latest at the end.
OutcomeRuns(runs, some) ==
    MapThenFoldSet(LAMBDA p, before : AppendOutcomeRun(before, p), runs, LAMBDA p : p, Latest,
                   {p \in some : Reportable(p)})

CompactRawOutcomeRuns(t, cutoff) ==
    [t EXCEPT !.runs = OutcomeRuns(@, Older(t.raw, cutoff))]

\* Faulty variant: a row replaces the one of the same bucket.
UpsertReplacing(target, rows) ==
    [s \in DOMAIN target \cup DOMAIN rows |-> IF s \in DOMAIN rows THEN rows[s] ELSE target[s]]

\* New rows are added to those of the same bucket.
Upsert(target, rows) ==
    [s \in DOMAIN target \cup DOMAIN rows |->
        IF s \notin DOMAIN target THEN rows[s]
        ELSE IF s \notin DOMAIN rows THEN target[s] ELSE Plus(target[s], rows[s])]

RollupRaw(t, cutoff) ==
    LET old == Older(t.raw, cutoff)
        rows == [s \in {Truncated(p.at, Minute) : p \in old} |->
                    Summary({p \in old : Truncated(p.at, Minute) = s})]
    IN  [t EXCEPT !.minute = Upsert(@, rows)]

RollupStored(source, target, width, cutoff) ==
    LET old == Starts(source, cutoff)
    IN  Upsert(target, [s \in {Truncated(r, width) : r \in old} |->
                           SumOf(source, {r \in old : Truncated(r, width) = s})])

DeleteOlder(rollups, cutoff) ==
    [s \in DOMAIN rollups \ Starts(rollups, cutoff) |-> rollups[s]]

RunsFrom(runs, cutoff) == {r \in runs : r.to >= cutoff}

Statements == 1 .. 9
OnRaw == 1 .. 3     \* those that use probe_results

\* Faulty variant: runs of outcomes are pruned as early as raw results.
LevelOfRuns(k) == CASE k \in {1, 2, 3, 9} -> "raw" [] k \in 4 .. 5 -> "minute"
                    [] k \in 6 .. 7 -> "hour" [] k = 8 -> "day"

\* The level whose retention decides about each statement.
LevelOf(k) == CASE k \in 1 .. 3 -> "raw" [] k \in 4 .. 5 -> "minute"
                [] k \in 6 .. 7 -> "hour" [] k \in 8 .. 9 -> "day"

Execute(k, t, cutoff) ==
    CASE k = 1 -> CompactRawOutcomeRuns(t, cutoff)
      [] k = 2 -> RollupRaw(t, cutoff)
      [] k = 3 -> [t EXCEPT !.raw = @ \ Older(@, cutoff)]
      [] k = 4 -> [t EXCEPT !.hour = RollupStored(t.minute, @, Hour, cutoff)]
      [] k = 5 -> [t EXCEPT !.minute = DeleteOlder(@, cutoff)]
      [] k = 6 -> [t EXCEPT !.day = RollupStored(t.hour, @, Day, cutoff)]
      [] k = 7 -> [t EXCEPT !.hour = DeleteOlder(@, cutoff)]
      [] k = 8 -> [t EXCEPT !.day = DeleteOlder(@, cutoff)]
      [] k = 9 -> [t EXCEPT !.runs = RunsFrom(@, cutoff)]

\* Statement k of a prune that was begun at moment from; a level that is kept
\* for ever is left alone.
Statement(k, t, from) ==
    IF policy[LevelOf(k)] = Forever THEN t ELSE Execute(k, t, from - policy[LevelOf(k)])

Run(first, last, t, from) ==
    FoldLeft(LAMBDA u, k : Statement(k, u, from), t, [k \in 1 .. last - first + 1 |-> first + k - 1])

RollupAndPrune(t, from) == Run(1, 9, t, from)

-----------------------------------------------------------------------------
(* What is reported *)

\* Faulty variant: a bucket counts if it ends after the cutoff.
WindowStatsByEnd(t, cutoff) ==
    LET From(rollups, width) == SumOf(rollups, {s \in DOMAIN rollups : s + width > cutoff})
    IN  Plus(Summary({p \in t.raw : p.at >= cutoff}),
             Plus(From(t.minute, Minute), Plus(From(t.hour, Hour), From(t.day, Day))))

\* The sums over all that the tables have of the time since a cutoff: a row of a
\* table of rollups counts if its bucket begins then or later.
WindowStats(t, cutoff) ==
    LET From(rollups) == SumOf(rollups, {s \in DOMAIN rollups : s >= cutoff})
    IN  Plus(Summary({p \in t.raw : p.at >= cutoff}),
             Plus(From(t.minute), Plus(From(t.hour), From(t.day))))

\* The runs that status intervals are computed from.
ReportableRuns(t) == OutcomeRuns(t.runs, t.raw)

-----------------------------------------------------------------------------

Idle == [step |-> None]     \* pruning, between two transactions

RollupTypeOK ==
    /\ time \in 0 .. LastTime
    /\ backend \in Backends /\ policy \in Policies
    /\ probes \subseteq Probe
    /\ DOMAIN tables = Tables
    /\ tables.raw \subseteq probes
    /\ \A s \in DOMAIN tables.minute : s % Minute = 0 /\ s <= time
    /\ \A s \in DOMAIN tables.hour : s % Hour = 0 /\ s <= time
    /\ \A s \in DOMAIN tables.day : s % Day = 0 /\ s <= time
    /\ pruning = Idle \/ (pruning.step \in OnRaw \cup {4} /\ pruning.from <= time)

RollupInit ==
    /\ time = 0
    /\ backend \in Backends /\ policy \in Policies
    /\ tables = Empty
    /\ pruning = Idle
    /\ probes = {}

TimePasses ==
    /\ time < LastTime
    /\ pruning # Idle => time < pruning.from + MaxLate
    /\ time' = time + 1
    /\ UNCHANGED <<backend, policy, tables, pruning, probes>>

\* The worker of the monitor took the time before it probed.  The result is
\* committed, and is seen by the statements of a prune that come later.
SaveProbe ==
    /\ Cardinality(probes) < MaxProbes
    /\ \E at \in {t \in 0 .. time : t >= time - MaxLate}, o \in Outcomes :
          LET p == [at |-> at, outcome |-> o]
          IN  /\ \A q \in probes : q.at < at
              /\ probes' = probes \cup {p}
              /\ tables' = [tables EXCEPT !.raw = @ \cup {p}]
              /\ pruning' = IF pruning = Idle THEN Idle
                            ELSE [pruning EXCEPT !.tables.raw = @ \cup {p}]
    /\ UNCHANGED <<time, backend, policy>>

\* A prune that finds nothing to do is left out.
PruneIsDue == pruning = Idle /\ RollupAndPrune(tables, time) # tables

\* SQLite has one writer at a time.
PruneSQLite ==
    /\ backend = "sqlite"
    /\ PruneIsDue
    /\ tables' = RollupAndPrune(tables, time)
    /\ UNCHANGED <<time, backend, policy, pruning, probes>>

\* Postgres lets others commit between two statements of a transaction.
BeginPrune ==
    /\ backend = "postgres"
    /\ PruneIsDue
    /\ pruning' = [step |-> 1, from |-> time, tables |-> tables]
    /\ UNCHANGED <<time, backend, policy, tables, probes>>

PruneStatement ==
    /\ pruning.step \in OnRaw
    /\ pruning' = [pruning EXCEPT !.step = @ + 1,
                                  !.tables = Statement(pruning.step, @, pruning.from)]
    /\ UNCHANGED <<time, backend, policy, tables, probes>>

\* The other statements use tables that no one else writes.
CommitPrune ==
    /\ pruning.step = 4
    /\ tables' = Run(4, 9, pruning.tables, pruning.from)
    /\ pruning' = Idle
    /\ UNCHANGED <<time, backend, policy, probes>>

\* A statement fails, or the daemon ends: the transaction is rolled back.
AbortPrune ==
    /\ pruning # Idle
    /\ pruning' = Idle
    /\ UNCHANGED <<time, backend, policy, tables, probes>>

\* The main goroutine applies other retentions, never while it prunes.
ReloadPolicy ==
    /\ pruning = Idle
    /\ policy' \in Policies \ {policy}
    /\ UNCHANGED <<time, backend, tables, pruning, probes>>

RollupNext ==
    \/ TimePasses
    \/ SaveProbe
    \/ PruneSQLite \/ BeginPrune \/ PruneStatement \/ CommitPrune \/ AbortPrune
    \/ ReloadPolicy

RollupSpec == RollupInit /\ [][RollupNext]_rollupVars

-----------------------------------------------------------------------------
(* Properties *)

Since(t) == {p \in probes : p.at >= t}

\* Probes younger than the retention of days under every configuration, but for
\* some margin.
Kept(margin) == {p \in probes : \A c \in Policies :
                    c["day"] = Forever \/ p.at >= time - c["day"] + margin}

\* What is reported of all retained time counts each probe once, wherever it is
\* kept by now, and forgets only those before some moment, all of them older than
\* the retention of days, but for the day in which it ends.
CountedOnce ==
    LET reported == WindowStats(tables, 0)
    IN  \E t \in {0} \cup {p.at + 1 : p \in probes} :
            Kept(Day - 1) \subseteq Since(t) /\ reported = Summary(Since(t))

\* What the backfill of status intervals is given are the runs of equal outcomes of
\* the reportable probes since some moment, as if nothing had been compacted.
RunsAreKept ==
    LET runs == ReportableRuns(tables)
    IN  \E t \in {0} \cup {p.at + 1 : p \in probes} :
            Kept(0) \subseteq Since(t) /\ runs = OutcomeRuns({}, Since(t))

SumOver(rollups, starts, f) == MapThenSumSet(LAMBDA s : rollups[s][f], starts)

Straddling(rollups, width, cutoff) == {s \in DOMAIN rollups : s < cutoff /\ cutoff < s + width}

\* What is reported since a cutoff counts no probe before it, and misses at most
\* those in the rows whose bucket began before the cutoff and ends after it.
WindowCountsAreClose ==
    LET forgotten == Summary(probes \ Kept(Day - 1))
    IN  \A cutoff \in 1 .. time :
           LET reported == WindowStats(tables, cutoff)
               exact == Summary(Since(cutoff))
               missed(f) == SumOver(tables.minute, Straddling(tables.minute, Minute, cutoff), f)
                            + SumOver(tables.hour, Straddling(tables.hour, Hour, cutoff), f)
                            + SumOver(tables.day, Straddling(tables.day, Day, cutoff), f)
           IN  \A f \in {"total", "successful", "maintenance", "maintenanceFailed"} :
                  reported[f] \in exact[f] - missed(f) - forgotten[f] .. exact[f]
=============================================================================
