---------------------------- MODULE Availability ----------------------------
(***************************************************************************)
(* What upag reports about the past of one monitor, computed from its rows *)
(* of monitor_status_intervals, its maintenance windows and the incidents  *)
(* of the observer (internal/storage/storage.go):                          *)
(*   - the downtime of a window of time and of a day                       *)
(*   - the status intervals with maintenance projected onto them           *)
(*   - since when the monitor has been free of failures and of downtime    *)
(*                                                                         *)
(* Time is a natural number; NoTime is the zero time, which stands for the *)
(* end of what has not ended.  An interval covers its start and not its    *)
(* end.  IDs, limits and the Since filter of the listings are left out.    *)
(***************************************************************************)
EXTENDS Integers, SequencesExt

NoTime == 0

Clipped(start, end, interval) ==
    [start |-> Max({start, interval.start}), end |-> Min({end, interval.end})]

Duration(interval) == IF interval.end > interval.start THEN interval.end - interval.start ELSE 0

OverlapDuration(start, end, intervals) ==
    FoldLeft(LAMBDA total, i : total + Duration(Clipped(start, end, i)), 0, intervals)

\* Faulty variant: intervals that overlap are not merged.
ExcludedIntervalsUnmerged(intervals) == SetToSeq(intervals)

\* The union of the given intervals as disjoint ones, ordered by start.
ExcludedIntervals(intervals) ==
    LET Merge(merged, i) ==
            IF merged # <<>> /\ i.start <= Last(merged).end
            THEN [merged EXCEPT ![Len(merged)].end = Max({@, i.end})]
            ELSE Append(merged, i)
    IN  FoldLeft(Merge, <<>>, SetToSortSeq(intervals, LAMBDA a, b : a.start < b.start))

\* Each OBSERVER_DOWN of the log paired with the next OBSERVER_UP.
ObserverDownIntervals(log, now) ==
    LET Pair(acc, t) ==
            IF t.status = "OBSERVER_DOWN" /\ acc.since = NoTime
            THEN [acc EXCEPT !.since = t.at]
            ELSE IF t.status = "OBSERVER_UP" /\ acc.since # NoTime
            THEN [since |-> NoTime, down |-> acc.down \cup {[start |-> acc.since, end |-> t.at]}]
            ELSE acc
        all == FoldLeft(Pair, [since |-> NoTime, down |-> {}], log)
    IN  IF all.since = NoTime THEN all.down
        ELSE all.down \cup {[start |-> all.since, end |-> now]}

\* The intervals that count as downtime; an open one lasts until now.
Outages(history, now) ==
    LET down == SelectSeq(history, LAMBDA i : i.downtime)
    IN  [n \in DOMAIN down |->
            [start |-> down[n].start, end |-> IF down[n].end = NoTime THEN now ELSE down[n].end]]

\* Outages within the given bounds, less what is excluded of them.
DowntimeWithin(start, end, outages, excluded) ==
    LET Counted(o) ==
            LET c == Clipped(start, end, o)
            IN  IF Duration(c) = 0 THEN 0
                ELSE Max({0, Duration(c) - OverlapDuration(c.start, c.end, excluded)})
        total == FoldLeft(LAMBDA sum, o : sum + Counted(o), 0, outages)
    IN  Min({total, end - start})

NothingReported == [reportable |-> 0, downtime |-> 0]

ApplyAvailabilityWindow(firstProbe, cutoff, now, outages, excluded) ==
    LET start == Max({firstProbe, cutoff})
    IN  IF now <= start THEN NothingReported
        ELSE [reportable |-> now - start,
              downtime |-> DowntimeWithin(start, now, outages, excluded)]

\* Faulty variant: an outage is counted from its start on every day it lasts.
DailyUptimeStatsUnclipped(firstProbe, day, dayLength, now, outages, excluded) ==
    LET start == Max({day, firstProbe})
        end == Min({day + dayLength, now})
    IN  IF firstProbe = NoTime \/ end <= start THEN NothingReported
        ELSE [reportable |-> end - start,
              downtime |-> DowntimeWithin(firstProbe, end, outages, excluded)]

\* The entry of the day that starts at the given time.
DailyUptimeStats(firstProbe, day, dayLength, now, outages, excluded) ==
    LET start == Max({day, firstProbe})
        end == Min({day + dayLength, now})
    IN  IF firstProbe = NoTime \/ end <= start THEN NothingReported
        ELSE [reportable |-> end - start,
              downtime |-> DowntimeWithin(start, end, outages, excluded)]

-----------------------------------------------------------------------------

Segment(status, downtime, start, end, open) ==
    [status |-> status, downtime |-> downtime, start |-> start, end |-> end, open |-> open]

\* The windows that matter to the listing, by start.
ProjectedWindows(windows, now) ==
    SetToSortSeq({w \in windows : ~w.cancelled /\ w.end > w.start /\ w.start < now},
                 LAMBDA a, b : a.start < b.start)

\* One interval cut at the bounds of the windows, from left to right.
SegmentsOf(interval, windows, now) ==
    LET open == interval.end = NoTime
        end == IF open THEN now ELSE Min({interval.end, now})
        Own(start, stop, isOpen) ==
            IF stop > start
            THEN <<Segment(interval.status, interval.downtime, start, stop, isOpen)>> ELSE <<>>
        Cut(acc, w) ==
            LET c == Clipped(acc.cursor, end, w)
            IN  IF Duration(c) = 0 THEN acc
                ELSE [cursor |-> c.end,
                      out |-> acc.out
                              \o Own(acc.cursor, c.start, FALSE)
                              \o <<Segment("MAINTENANCE", FALSE, c.start, c.end,
                                           open /\ c.end = end)>>]
        cut == FoldLeft(Cut, [cursor |-> interval.start, out |-> <<>>], windows)
    IN  cut.out \o Own(cut.cursor, end, open)

\* Faulty variant: a segment is joined to the one before it whatever its status.
JoinAny(joined, s) ==
    IF joined # <<>> /\ Last(joined).downtime = s.downtime /\ Last(joined).end = s.start
    THEN [joined EXCEPT ![Len(joined)].end = s.end, ![Len(joined)].open = s.open]
    ELSE Append(joined, s)

\* A segment that continues the one before it is joined to it.
Join(joined, s) ==
    IF /\ joined # <<>>
       /\ Last(joined).status = s.status
       /\ Last(joined).downtime = s.downtime
       /\ Last(joined).end = s.start
    THEN [joined EXCEPT ![Len(joined)].end = s.end, ![Len(joined)].open = s.open]
    ELSE Append(joined, s)

\* The listing of status intervals, oldest first.
ProjectStatusIntervals(history, windows, now) ==
    LET active == ProjectedWindows(windows, now)
        segments == FlattenSeq([n \in DOMAIN history |-> SegmentsOf(history[n], active, now)])
    IN  FoldLeft(Join, <<>>, SortSeq(segments, LAMBDA a, b : a.start < b.start))

\* Faulty variant: a failure that was no outage counts as downtime.
StreakStartsOfFailures(history) ==
    LET openUp == {i \in Range(history) : i.status = "UP" /\ i.end = NoTime}
        ended == {i.end : i \in {j \in Range(history) : j.status # "UP" /\ j.end # NoTime}}
        starts == {i.start : i \in Range(history)}
    IN  IF openUp = {} THEN [failureFree |-> NoTime, downtimeFree |-> NoTime]
        ELSE [failureFree |-> Max({i.start : i \in openUp}),
              downtimeFree |-> IF ended # {} THEN Max(ended) ELSE Min(starts)]

\* Since when the monitor has been up, and since when it has had no downtime;
\* NoTime when its last interval is not an open UP.
StreakStarts(history) ==
    LET openUp == {i \in Range(history) : i.status = "UP" /\ i.end = NoTime}
        ended == {i.end : i \in {j \in Range(history) : j.status = "DOWN" /\ j.end # NoTime}}
        starts == {i.start : i \in Range(history)}
    IN  IF openUp = {} THEN [failureFree |-> NoTime, downtimeFree |-> NoTime]
        ELSE [failureFree |-> Max({i.start : i \in openUp}),
              downtimeFree |-> IF ended # {} THEN Max(ended) ELSE Min(starts)]

=============================================================================
