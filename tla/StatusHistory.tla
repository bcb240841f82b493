--------------------------- MODULE StatusHistory ---------------------------
(***************************************************************************)
(* The history of one monitor: how probes, maintenance windows, the        *)
(* observer and the backfill write monitor_status_intervals, and what the  *)
(* reports of module Availability make of it at every moment.              *)
(*                                                                         *)
(* The writers are those of MonitorAlerts, whole and in one step: the      *)
(* worker of the monitor is their only concurrent writer, which            *)
(* MonitorAlerts checks (SnapshotIsFresh).  Alerts are left out here, and  *)
(* time is left out there.                                                 *)
(***************************************************************************)
EXTENDS MonitorStates, Availability

CONSTANTS
    Threshold,      \* failure_threshold of the monitor
    Scenarios,      \* records of the events that may happen besides probes, see
                    \* EventKinds, and end, a bound on the clock
    MaxWindows,     \* bound on the maintenance windows ever added
    DayLengths      \* lengths of a day for which daily entries are compared

EventKinds == {"maintenance", "observer", "guard", "removal", "upgrade"}

ASSUME HistoryAssumptions ==
    /\ Threshold \in 1 .. MaxFailures
    /\ \A s \in Scenarios : s.events \subseteq EventKinds /\ s.end \in Nat \ {0}
    /\ MaxWindows \in Nat
    /\ DayLengths \subseteq Nat \ {0}

VARIABLES
    scenario,       \* the one of Scenarios that this behaviour follows
    now,            \* the time
    row,            \* monitor_states
    probes,         \* probe_results, oldest first
    intervals,      \* monitor_status_intervals, oldest first
    recording,      \* this version of the program keeps the intervals
    marked,         \* monitor_status_interval_backfills has its row
    windows,        \* maintenance_windows
    observerLog,    \* the incidents of the observer, oldest first
    removed         \* history variable: the monitor was removed at some time

vars == <<scenario, now, row, probes, intervals, recording, marked, windows, observerLog, removed>>

-----------------------------------------------------------------------------

ObserverStatus == IF observerLog = <<>> THEN "OBSERVER_UP" ELSE Last(observerLog).status

LastTime(log) == IF log = <<>> THEN NoTime ELSE Last(log).at

Covers(window, t) == window.start <= t /\ t < window.end

\* ActiveMaintenanceWindow finds one.
InMaintenance == \E w \in windows : ~w.cancelled /\ Covers(w, now)

Open(status, start) ==
    [status |-> status, start |-> start, end |-> NoTime, downtime |-> status = "DOWN"]

\* Faulty variant: a FAILING interval that turns into an outage is not counted.
SaveStatusIntervalForgetful(history, status, at) ==
    IF history # <<>> /\ Last(history).status = status THEN history
    ELSE Append(IF history = <<>> THEN history
                ELSE [history EXCEPT ![Len(history)].end = at], Open(status, at))

\* Faulty variant: the interval that ends is left open.
SaveStatusIntervalUnclosed(history, status, at) ==
    IF history # <<>> /\ Last(history).status = status THEN history
    ELSE Append(history, Open(status, at))

\* The open interval ends when the status changes; a FAILING one that turns out
\* to be the start of an outage counts as downtime from then on.
SaveStatusInterval(history, status, at) ==
    IF history # <<>> /\ Last(history).status = status THEN history
    ELSE LET Ended(i) ==
                [i EXCEPT !.end = at,
                          !.downtime = i.status = "DOWN"
                                       \/ (i.status = "FAILING" /\ status = "DOWN")]
         IN  Append(IF history = <<>> THEN history
                    ELSE [history EXCEPT ![Len(history)] = Ended(@)], Open(status, at))

\* One probe more: those that count are joined while their outcome is the same.
ExtendRuns(runs, p) ==
    IF p.kind # "evaluate" THEN runs
    ELSE IF runs # <<>> /\ Last(runs).ok = p.ok
    THEN [runs EXCEPT ![Len(runs)].count = @ + 1]
    ELSE Append(runs, [start |-> p.at, ok |-> p.ok, count |-> 1])

UptimeRuns(results) == FoldLeft(ExtendRuns, <<>>, results)

\* Faulty variant: a run of failures is an outage only beyond the threshold.
BackfilledIntervalsStrict(runs) ==
    [n \in DOMAIN runs |->
        [Open(IF runs[n].ok THEN "UP"
              ELSE IF runs[n].count > Threshold THEN "DOWN" ELSE "FAILING", runs[n].start)
         EXCEPT !.end = IF n < Len(runs) THEN runs[n + 1].start ELSE NoTime]]

BackfilledIntervals(runs) ==
    [n \in DOMAIN runs |->
        [Open(IF runs[n].ok THEN "UP"
              ELSE IF runs[n].count >= Threshold THEN "DOWN" ELSE "FAILING", runs[n].start)
         EXCEPT !.end = IF n < Len(runs) THEN runs[n + 1].start ELSE NoTime]]

-----------------------------------------------------------------------------

\* A database that an earlier version has filled, or a new one, which the daemon
\* marks before its first probe.
Init ==
    /\ scenario \in Scenarios
    /\ now = 1
    /\ row = NoRow
    /\ probes = <<>>
    /\ intervals = <<>>
    /\ recording = ("upgrade" \notin scenario.events)
    /\ marked = recording
    /\ windows = {}
    /\ observerLog = <<>>
    /\ removed = FALSE

Tick ==
    /\ now < scenario.end
    /\ now' = now + 1
    /\ UNCHANGED <<row, probes, intervals, recording, marked, windows, observerLog, removed>>

\* Faulty variant: a suppressed failure ends the open interval, too.
SaveProbeSuppressedToo(ok, kind) ==
    LET next == IF kind = "maintenance" THEN MaintenanceState(Previous(row))
                ELSE Evaluated(Previous(row), ok, Threshold)
    IN  /\ probes' = Append(probes, [at |-> now, ok |-> ok, kind |-> kind])
        /\ row' = IF kind = "suppressed" THEN row ELSE next
        /\ intervals' = IF recording /\ kind # "maintenance"
                        THEN SaveStatusInterval(intervals, next.status, now) ELSE intervals

\* The next row and interval of a probe of the given kind.
SaveProbe(ok, kind) ==
    LET next == IF kind = "maintenance" THEN MaintenanceState(Previous(row))
                ELSE Evaluated(Previous(row), ok, Threshold)
    IN  /\ probes' = Append(probes, [at |-> now, ok |-> ok, kind |-> kind])
        /\ row' = IF kind = "suppressed" THEN row ELSE next
        /\ intervals' = IF recording /\ kind = "evaluate"
                        THEN SaveStatusInterval(intervals, next.status, now) ELSE intervals

\* A probe, from its check to its save; two of them are never at the same time.
Probe(ok) ==
    /\ LastTime(probes) < now
    /\ \E degraded \in (IF "guard" \in scenario.events THEN BOOLEAN ELSE {FALSE}) :
          SaveProbe(ok, KindOfProbe(ok, ObserverStatus, InMaintenance, degraded))
    /\ UNCHANGED <<now, recording, marked, windows, observerLog, removed>>

\* EnsureStatusIntervalsBackfilled, which applyConfig and every report call: all
\* intervals are written anew, once.  A failed call is tried by the next report.
Backfill ==
    /\ recording
    /\ ~marked
    /\ intervals' = BackfilledIntervals(UptimeRuns(probes))
    /\ marked' = TRUE
    /\ UNCHANGED <<now, row, probes, recording, windows, observerLog, removed>>

\* A window may lie in the past, and must not overlap another that is in force.
AddWindow(start, end) ==
    /\ "maintenance" \in scenario.events
    /\ Cardinality(windows) < MaxWindows
    /\ Exists(row)
    /\ start < end
    /\ \A w \in windows : w.cancelled \/ ~(w.start < end /\ w.end > start)
    /\ windows' = windows \cup {[start |-> start, end |-> end, cancelled |-> FALSE]}
    /\ UNCHANGED <<now, row, probes, intervals, recording, marked, observerLog, removed>>

CancelWindow(w) ==
    /\ ~w.cancelled
    /\ windows' = (windows \ {w}) \cup {[w EXCEPT !.cancelled = TRUE]}
    /\ UNCHANGED <<now, row, probes, intervals, recording, marked, observerLog, removed>>

\* SaveObserverCheck with an incident; the observer checks once at a time.
ObserverTransition ==
    /\ "observer" \in scenario.events
    /\ LastTime(observerLog) < now
    /\ LET next == IF ObserverStatus = "OBSERVER_DOWN" THEN "OBSERVER_UP" ELSE "OBSERVER_DOWN"
       IN  observerLog' = Append(observerLog, [status |-> next, at |-> now])
    /\ UNCHANGED <<now, row, probes, intervals, recording, marked, windows, removed>>

\* A reload without the monitor: DeleteStatesExcept leaves its history alone.
RemoveMonitor ==
    /\ "removal" \in scenario.events
    /\ Exists(row)
    /\ row' = NoRow
    /\ removed' = TRUE
    /\ UNCHANGED <<now, probes, intervals, recording, marked, windows, observerLog>>

\* The migration that clears the marker; the intervals of the earlier version are
\* not modelled, as the backfill that follows discards them.
Upgrade ==
    /\ ~recording
    /\ recording' = TRUE
    /\ UNCHANGED <<now, row, probes, intervals, marked, windows, observerLog, removed>>

Next ==
    /\ UNCHANGED scenario
    /\ \/ Tick
       \/ \E ok \in BOOLEAN : Probe(ok)
       \/ Backfill
       \/ \E start \in 1 .. scenario.end, end \in 2 .. scenario.end + 1 : AddWindow(start, end)
       \/ \E w \in windows : CancelWindow(w)
       \/ ObserverTransition
       \/ RemoveMonitor
       \/ Upgrade

Spec == Init /\ [][Next]_vars

-----------------------------------------------------------------------------
(* Properties *)

Times == 1 .. scenario.end + 1

\* The type of the state.
TypeOK ==
    /\ now \in 1 .. scenario.end
    /\ row \in MonitorRow
    /\ probes \in Seq([at : Times, ok : BOOLEAN,
                       kind : {"evaluate", "maintenance", "suppressed"}])
    /\ intervals \in Seq([status : {"UP", "FAILING", "DOWN"}, start : Times,
                          end : Times \cup {NoTime}, downtime : BOOLEAN])
    /\ recording \in BOOLEAN
    /\ marked \in BOOLEAN
    /\ windows \subseteq [start : Times, end : Times, cancelled : BOOLEAN]
    /\ removed \in BOOLEAN
    /\ observerLog \in Seq([status : {"OBSERVER_UP", "OBSERVER_DOWN"}, at : Times])

Contiguous(history) ==
    \A n \in DOMAIN history :
        IF n = Len(history) THEN history[n].end = NoTime
        ELSE /\ history[n].start < history[n].end
             /\ history[n].end = history[n + 1].start
             /\ history[n].status # history[n + 1].status

\* The intervals of a monitor tile the time since its first one: each ends where
\* the next begins, only the last is open, and two neighbours differ.  The
\* reports rely on it, and three writers (probes, the backfill, a monitor that
\* was removed and comes back) have to keep it.
IntervalsContiguous == Contiguous(intervals)

\* Once the history is backfilled, its open interval and the stored status of the
\* monitor agree, whichever of probes and backfill wrote it; in maintenance the
\* interval from before it continues.
OpenIntervalTellsStatus ==
    marked /\ StatusOutsideMaintenance(row) # "UNKNOWN" =>
        intervals # <<>> /\ Last(intervals).status = StatusOutsideMaintenance(row)

IntervalAt(t) ==
    CHOOSE i \in Range(intervals) : i.start <= t /\ (i.end = NoTime \/ t < i.end)

Recorded == IF intervals = <<>> THEN {} ELSE Head(intervals).start .. now - 1

\* The probes that decide: suppressed ones do not.
AddDeciding(past, p) == IF p.kind = "suppressed" THEN past ELSE Append(past, p)

DecidingAmong(results) == FoldLeft(AddDeciding, <<>>, results)

Deciding == DecidingAmong(probes)

Failing(p) == p.kind = "evaluate" /\ ~p.ok

\* The deciding probe numbered n is the last of enough failures in a row.
ReachesThreshold(n) ==
    n >= Threshold /\ \A k \in n - Threshold + 1 .. n : Failing(Deciding[k])

\* The deciding probe numbered n is the first after maintenance, and fails.
FailsAfterMaintenance(n) ==
    Failing(Deciding[n]) /\ n > 1 /\ Deciding[n - 1].kind = "maintenance"

\* The deciding probe numbered n belongs to the failures that the one numbered k
\* belongs to: no success between them.
SameStreak(n, k) ==
    LET past == Deciding
    IN  \A j \in Min({n, k}) .. Max({n, k}) : past[j].kind = "evaluate" => ~past[j].ok

\* The streak of failures that is on at time t, later ones included: none if the last
\* probe evaluated until then succeeded.
StreakAt(t) ==
    LET past == Deciding
        last == {n \in DOMAIN past : past[n].kind = "evaluate" /\ past[n].at <= t}
    IN  IF last = {} \/ past[Max(last)].ok THEN {}
        ELSE {n \in DOMAIN past : SameStreak(n, Max(last))}

\* An outage is on, as README.md defines it: the streak reaches failure_threshold,
\* perhaps later than t.
OutageAt(t) == \E n \in StreakAt(t) : ReachesThreshold(n)

\* The streak has a failure that was the first after maintenance.
AfterMaintenanceAt(t) == \E n \in StreakAt(t) : FailsAfterMaintenance(n)

\* What is recorded as downtime is exactly the outages: from the first failure of
\* a streak that reaches the threshold to the first success, through failures that
\* become an outage only later, maintenance and suppressed probes in between, and a
\* backfill that interrupts the recording - as long as the monitor is configured.
\* The exception: a streak with the first failure after maintenance is downtime
\* however short it is (Runner.probe; see DowntimeReachesThreshold).
DowntimeIsOutage ==
    marked /\ ~removed =>
        \A t \in Recorded :
            IF AfterMaintenanceAt(t) THEN IntervalAt(t).downtime
            ELSE IntervalAt(t).downtime = OutageAt(t)

\* Only confirmed outages are downtime: "A confirmed outage starts at the first failed
\* probe in a consecutive failure streak once that streak reaches failure_threshold"
\* (README.md:517-518); it has as many failures, even if maintenance is no interruption.
\* The program does not keep it: the first failure after maintenance takes the monitor
\* down, whatever the threshold.
DowntimeReachesThreshold ==
    marked /\ ~removed =>
        \A t \in Recorded :
            IntervalAt(t).downtime =>
                Cardinality({n \in StreakAt(t) : Failing(Deciding[n])}) >= Threshold

Uncancelled == {w \in windows : ~w.cancelled}

\* What the listing has to show at time t.
ShownAt(t) ==
    IF \E w \in Uncancelled : Covers(w, t) THEN <<"MAINTENANCE", FALSE>>
    ELSE <<IntervalAt(t).status, IntervalAt(t).downtime>>

\* The listing shows, for every moment of the recorded time and no other, the
\* maintenance that covers it or else the recorded interval, in segments that
\* cannot be joined further, of which the last is the open one - wherever windows
\* begin and end, and although they are added afterwards and cancelled.
ProjectionIsPointwise ==
    LET shown == ProjectStatusIntervals(intervals, windows, now)
    IN  /\ \A n \in DOMAIN shown :
              /\ shown[n].start .. shown[n].end - 1 \subseteq Recorded
              /\ \A t \in shown[n].start .. shown[n].end - 1 :
                    ShownAt(t) = <<shown[n].status, shown[n].downtime>>
              /\ shown[n].open = (n = Len(shown) /\ Last(intervals).start < now)
              /\ n < Len(shown) =>
                    /\ shown[n].end = shown[n + 1].start
                    /\ <<shown[n].status, shown[n].downtime>>
                          # <<shown[n + 1].status, shown[n + 1].downtime>>
        /\ Recorded # {} =>
              shown # <<>> /\ Head(shown).start = Min(Recorded) /\ Last(shown).end = now

\* The time of the first probe that counts.
FirstProbe ==
    LET counted == {p \in Range(probes) : p.kind = "evaluate"}
    IN  IF counted = {} THEN NoTime ELSE Min({p.at : p \in counted})

Excluded ==
    ExcludedIntervals({[start |-> w.start, end |-> w.end] : w \in Uncancelled}
                      \cup ObserverDownIntervals(observerLog, now))

ObserverDownAt(t) ==
    LET past == {n \in DOMAIN observerLog : observerLog[n].at <= t}
    IN  past # {} /\ observerLog[Max(past)].status = "OBSERVER_DOWN"

CountedAt(t) ==
    /\ t \in Recorded
    /\ IntervalAt(t).downtime
    /\ ~\E w \in Uncancelled : Covers(w, t)
    /\ ~ObserverDownAt(t)

\* The daily entries add up to the retained window: an outage that crosses the
\* end of a day is split between them without loss.
DailyAddsUp ==
    \A length \in DayLengths :
        LET outages == Outages(intervals, now)
            days == [n \in 1 .. (now \div length) + 1 |->
                        DailyUptimeStats(FirstProbe, (n - 1) * length, length, now,
                                         outages, Excluded)]
            Total(field) == FoldLeft(LAMBDA sum, d : sum + d[field], 0, days)
        IN  [reportable |-> Total("reportable"), downtime |-> Total("downtime")]
              = ApplyAvailabilityWindow(FirstProbe, NoTime, now, outages, Excluded)

\* The downtime of a window of time is the number of moments in it that are
\* recorded as downtime and lie neither in maintenance nor in an absence of the
\* observer, each counted once however these overlap; for every window.  And the
\* days that it consists of say the same.
AvailabilityIsPointwise ==
    FirstProbe # NoTime =>
        /\ DailyAddsUp
        /\ marked =>
              \A cutoff \in 0 .. now :
                  LET start == Max({FirstProbe, cutoff})
                  IN  ApplyAvailabilityWindow(FirstProbe, cutoff, now, Outages(intervals, now),
                                              Excluded)
                        = [reportable |-> now - start,
                           downtime |-> Cardinality({t \in start .. now - 1 : CountedAt(t)})]

\* The streaks that the report of uptime shows begin where they say: nothing but
\* UP since the one, which a failure precedes, and no DOWN since the other.  Once the
\* history is backfilled, a monitor that has been probed has them exactly when it is
\* UP, or was when the maintenance began that it is in: to be shown with streaks in
\* maintenance is the exception that StreaksOnlyWhenUp is about.
StreaksAreTrue ==
    LET streak == StreakStarts(intervals)
    IN  /\ streak.failureFree # NoTime =>
              /\ \A t \in Recorded : t >= streak.failureFree <=> \A u \in t .. now - 1 :
                    IntervalAt(u).status = "UP"
              /\ \A t \in Recorded : t >= streak.downtimeFree <=> \A u \in t .. now - 1 :
                    IntervalAt(u).status # "DOWN"
        /\ marked /\ StatusOutsideMaintenance(row) # "UNKNOWN" =>
              (streak.failureFree # NoTime <=> StatusOutsideMaintenance(row) = "UP")

\* Streaks are of monitors that are UP: "A monitor that is not currently UP displays -;
\* JSON output uses null" (README.md:178-179).  The program does not keep it: the UP
\* interval of a monitor stays open in maintenance.
StreaksOnlyWhenUp ==
    Exists(row) /\ StreakStarts(intervals).failureFree # NoTime => row.status = "UP"

=============================================================================
