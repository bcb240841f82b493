----------------------- MODULE StatusHistoryProofs -----------------------
(***************************************************************************)
(* The status intervals of a monitor, for every threshold and every set of *)
(* events, the migration and its backfill included.                        *)
(*                                                                         *)
(* What the intervals must tell is a matter of the probes that decided the *)
(* status, and none of the properties is inductive.  The invariant is in   *)
(* three parts, each of which rests on the one before:                     *)
(*                                                                         *)
(*   Base       the types, the clock, the probes and the runs in the order *)
(*              of their times, and intervals that tile the time;          *)
(*   StatusInv  the stored status: maintenance keeps the one before it,    *)
(*              before the backfill the last run of probes tells it, and   *)
(*              after that the open interval does;                         *)
(*   OutageInv  the history: the failures of the row are the latest ones   *)
(*              among the deciding probes; before the backfill the runs    *)
(*              divide these, and after it each interval has probes of one *)
(*              outcome, is an outage exactly if one of them confirms it,  *)
(*              and a FAILING one is downtime exactly if DOWN follows.     *)
(*                                                                         *)
(* UptimeRuns, Deciding and BackfilledIntervals are folds; what one more   *)
(* element does to each comes from FoldLemmas.  The backfill and a probe   *)
(* in a migrated database lead to the same kind of intervals (MadeOf and   *)
(* Saved), which is why one invariant covers both.                         *)
(***************************************************************************)
EXTENDS StatusHistory, FoldLemmas

-----------------------------------------------------------------------------
(* The functions of MonitorStates *)

\* Counting stays within the bound, and an incident is the status it leads to.
LEMMA EvaluateResult ==
    ASSUME NEW prev \in MonitorRow, NEW ok \in BOOLEAN, NEW limit \in Int
    PROVE  LET e == Evaluate(prev, ok, limit)
           IN  /\ e.status \in Status \ {"MAINTENANCE"}
               /\ e.failures \in 0 .. MaxFailures
               /\ e.incident # NoIncident =>
                     e.incident \in Transition /\ e.status = e.incident
<1>1. Saturated(prev.failures + 1) \in 0 .. MaxFailures
  BY MaxFailuresAssumption DEF MonitorRow, Saturated
<1>2. CASE ok
  BY MaxFailuresAssumption, <1>2 DEF Evaluate, Status, Transition, NoIncident
<1>3. CASE ~ok
  BY <1>1, <1>3 DEF Evaluate, Status, Transition, NoIncident
<1>4. QED
  BY <1>2, <1>3

\* An evaluated probe is a row again, its incident - if there is one - is the
\* status the row ends in, and that status is never MAINTENANCE.
LEMMA EvaluatedRow ==
    ASSUME NEW prev \in MonitorRow, NEW ok \in BOOLEAN, NEW limit \in 1 .. MaxFailures
    PROVE  /\ Evaluated(prev, ok, limit) \in MonitorRow
           /\ Evaluated(prev, ok, limit).status \in Status \ {"MAINTENANCE"}
           /\ LET incident == EvaluateProbe(prev, ok, limit).incident
              IN  incident # NoIncident =>
                      /\ incident \in Transition
                      /\ Evaluated(prev, ok, limit).status = incident
<1> DEFINE from == IF prev.status = "MAINTENANCE" /\ ok /\ prev.before = "DOWN"
                   THEN [prev EXCEPT !.status = "DOWN"] ELSE prev
           n == IF prev.status = "MAINTENANCE" /\ ~ok THEN 1 ELSE limit
<1>1. EvaluateProbe(prev, ok, limit) = Evaluate(from, ok, n)
  BY DEF EvaluateProbe
<1>2. from \in MonitorRow /\ n \in Int
  BY DEF MonitorRow, Status
<1> HIDE DEF from, n
<1>3. /\ EvaluateProbe(prev, ok, limit).status \in Status \ {"MAINTENANCE"}
      /\ EvaluateProbe(prev, ok, limit).failures \in 0 .. MaxFailures
      /\ EvaluateProbe(prev, ok, limit).incident # NoIncident =>
            /\ EvaluateProbe(prev, ok, limit).incident \in Transition
            /\ EvaluateProbe(prev, ok, limit).status
                   = EvaluateProbe(prev, ok, limit).incident
  BY <1>1, <1>2, EvaluateResult
<1>4. QED
  BY <1>3 DEF Evaluated, MonitorRow, NoStatus

\* A probe inside a window leaves a row that is in maintenance.
LEMMA MaintenanceRow ==
    ASSUME NEW prev \in MonitorRow
    PROVE  /\ MaintenanceState(prev) \in MonitorRow
           /\ MaintenanceState(prev).status = "MAINTENANCE"
BY MaxFailuresAssumption DEF MaintenanceState, MonitorRow, Status

\* A monitor without a row is evaluated as one.
LEMMA PreviousRow ==
    ASSUME NEW prev \in MonitorRow
    PROVE  Previous(prev) \in MonitorRow
BY MaxFailuresAssumption DEF Previous, MonitorRow, Exists, Status

\* The missing row is represented by a row.
LEMMA NoRowIsRow == NoRow \in MonitorRow
BY MaxFailuresAssumption DEF NoRow, MonitorRow, NoStatus

-----------------------------------------------------------------------------
(* Records of the history *)

\* Records of the history with times in T.
IntervalIn(T) ==
    [status : {"UP", "FAILING", "DOWN"}, start : T, end : T \cup {NoTime}, downtime : BOOLEAN]

ProbeIn(T) == [at : T, ok : BOOLEAN, kind : {"evaluate", "maintenance", "suppressed"}]

RunIn(T) == [start : T, ok : BOOLEAN, count : Nat \ {0}]

\* One probe more leaves runs.
LEMMA ExtendRunsType ==
    ASSUME NEW T, NEW runs \in Seq(RunIn(T)), NEW p \in ProbeIn(T)
    PROVE  ExtendRuns(runs, p) \in Seq(RunIn(T))
<1>1. CASE p.kind # "evaluate"
  BY <1>1 DEF ExtendRuns
<1>2. CASE p.kind = "evaluate" /\ runs # <<>> /\ Last(runs).ok = p.ok
  <2> DEFINE n == Len(runs)
  <2>1. n \in DOMAIN runs /\ runs[n] \in RunIn(T)
    BY <1>2
  <2>2. [runs[n] EXCEPT !.count = runs[n].count + 1] \in RunIn(T)
    BY <2>1 DEF RunIn
  <2>3. ExtendRuns(runs, p) = [runs EXCEPT ![n] = [runs[n] EXCEPT !.count = runs[n].count + 1]]
    BY <1>2 DEF ExtendRuns
  <2> QED
    BY <2>1, <2>2, <2>3
<1>3. CASE p.kind = "evaluate" /\ ~(runs # <<>> /\ Last(runs).ok = p.ok)
  <2>1. [start |-> p.at, ok |-> p.ok, count |-> 1] \in RunIn(T)
    BY DEF RunIn, ProbeIn
  <2>2. ExtendRuns(runs, p) = Append(runs, [start |-> p.at, ok |-> p.ok, count |-> 1])
    BY <1>3, Zenon DEF ExtendRuns
  <2> QED
    BY <2>1, <2>2
<1> QED
  BY <1>1, <1>2, <1>3

\* What UptimeRuns computes, probe by probe.
LEMMA RunsFold ==
    ASSUME NEW T, NEW seq \in Seq(ProbeIn(T))
    PROVE  \E f : /\ f[1 .. 0] = <<>>
                  /\ UptimeRuns(seq) = f[1 .. Len(seq)]
                  /\ \A k \in 1 .. Len(seq) :
                        f[1 .. k] = ExtendRuns(f[1 .. k - 1], seq[k])
<1>1. PICK n \in Nat : n = Len(seq) /\ DOMAIN seq = 1 .. n /\ \A k \in 1 .. n : seq[k] \in ProbeIn(T)
  OBVIOUS
<1> DEFINE R == Seq(RunIn(T))
           P == ProbeIn(T)
           step == [p \in R \X P |-> ExtendRuns(p[1], p[2])]
           Folds(h) == \A s \in SUBSET (1 .. n) :
                   h[s] = IF s = {} THEN <<>> ELSE ExtendRuns(h[s \ {Max(s)}], seq[Max(s)])
           f == CHOOSE h : h = [s \in SUBSET DOMAIN seq |->
                   IF s = {} THEN <<>> ELSE ExtendRuns(h[s \ {Max(s)}], seq[Max(s)])]
<1>2. UptimeRuns(seq) = f[1 .. n]
  BY <1>1 DEF UptimeRuns, FoldLeft, MapThenFoldSet
<1>3. \E h \in [SUBSET (1 .. n) -> R] : Folds(h)
  <2>1. \A a \in R, b \in P : step[<<a, b>>] = ExtendRuns(a, b)
    OBVIOUS
  <2>2. IsStep(step, R, P)
    BY <2>1, ExtendRunsType DEF IsStep
  <2>3. <<>> \in R
    OBVIOUS
  <2>4. ElementsIn(seq, n, P)
    BY <1>1 DEF ElementsIn
  <2> HIDE DEF step, R, P
  <2>5. \E h \in [SUBSET (1 .. n) -> R] : IsFold(h, step, <<>>, seq, n)
    <3>1. PICK none \in R : none = <<>>
      BY <2>3
    <3>2. \E h \in [SUBSET (1 .. n) -> R] : IsFold(h, step, none, seq, n)
      BY <2>2, <2>4, FoldExists, Zenon
    <3> QED
      BY <3>1, <3>2
  <2>6. PICK h \in [SUBSET (1 .. n) -> R] : IsFold(h, step, <<>>, seq, n)
    BY <2>5
  <2>7. ASSUME NEW s \in SUBSET (1 .. n), s # {}
        PROVE  h[s] = ExtendRuns(h[s \ {Max(s)}], seq[Max(s)])
    <3>1. Max(s) \in s
      BY <1>1, <2>7, MaxOfPlaces
    <3>2. h[s \ {Max(s)}] \in R /\ seq[Max(s)] \in P
      BY <2>4, <3>1 DEF ElementsIn
    <3>3. h[s] = step[<<h[s \ {Max(s)}], seq[Max(s)]>>]
      BY <2>6, <2>7 DEF IsFold
    <3> QED
      BY <2>1, <3>2, <3>3
  <2>8. h[{}] = <<>>
    BY <2>6 DEF IsFold
  <2> QED
    BY <2>6, <2>7, <2>8
<1>4. Folds(f)
  <2>1. PICK h \in [SUBSET (1 .. n) -> R] : Folds(h)
    BY <1>3
  <2>2. h = [s \in SUBSET DOMAIN seq |->
              IF s = {} THEN <<>> ELSE ExtendRuns(h[s \ {Max(s)}], seq[Max(s)])]
    BY <1>1, <2>1
  <2>3. f = [s \in SUBSET DOMAIN seq |->
              IF s = {} THEN <<>> ELSE ExtendRuns(f[s \ {Max(s)}], seq[Max(s)])]
    BY <2>2, Zenon
  <2> HIDE DEF f
  <2> QED
    BY <1>1, <2>3
<1> HIDE DEF f
<1>5. f[1 .. 0] = <<>>
  <2>1. 1 .. 0 = {} /\ {} \in SUBSET (1 .. n)
    OBVIOUS
  <2> QED
    BY <1>4, <2>1
<1>6. ASSUME NEW k \in 1 .. n PROVE f[1 .. k] = ExtendRuns(f[1 .. k - 1], seq[k])
  <2>1. /\ 1 .. k \in SUBSET (1 .. n) /\ 1 .. k # {}
        /\ Max(1 .. k) = k /\ (1 .. k) \ {k} = 1 .. k - 1
    BY <1>1, Prefix
  <2> QED
    BY <1>4, <2>1
<1> QED
  BY <1>1, <1>2, <1>5, <1>6

\* No probes make no runs, and one probe more extends the runs of those before it.
LEMMA RunsOfNone == UptimeRuns(<<>>) = <<>>
<1>1. <<>> \in Seq(ProbeIn({})) /\ Len(<<>>) = 0
  OBVIOUS
<1>2. PICK f : f[1 .. 0] = <<>> /\ UptimeRuns(<<>>) = f[1 .. Len(<<>>)]
  BY <1>1, RunsFold
<1> QED
  BY <1>1, <1>2

\* One probe more extends the last run or starts one.
LEMMA RunsOfOneMore ==
    ASSUME NEW T, NEW seq \in Seq(ProbeIn(T)), NEW p \in ProbeIn(T)
    PROVE  UptimeRuns(Append(seq, p)) = ExtendRuns(UptimeRuns(seq), p)
<1> DEFINE longer == Append(seq, p)
<1>1. PICK n \in Nat : /\ n = Len(seq) /\ Len(longer) = n + 1 /\ longer[n + 1] = p
                       /\ \A k \in 1 .. n : longer[k] = seq[k]
                       /\ longer \in Seq(ProbeIn(T))
  OBVIOUS
<1> HIDE DEF longer
<1>2. PICK f : /\ f[1 .. 0] = <<>>
               /\ UptimeRuns(seq) = f[1 .. n]
               /\ \A k \in 1 .. n : f[1 .. k] = ExtendRuns(f[1 .. k - 1], seq[k])
  BY <1>1, RunsFold
<1>3. PICK g : /\ g[1 .. 0] = <<>>
               /\ UptimeRuns(longer) = g[1 .. n + 1]
               /\ \A k \in 1 .. n + 1 : g[1 .. k] = ExtendRuns(g[1 .. k - 1], longer[k])
  <2>1. longer \in Seq(ProbeIn(T)) /\ Len(longer) = n + 1
    BY <1>1
  <2>2. PICK g : /\ g[1 .. 0] = <<>>
               /\ UptimeRuns(longer) = g[1 .. Len(longer)]
               /\ \A k \in 1 .. Len(longer) : g[1 .. k] = ExtendRuns(g[1 .. k - 1], longer[k])
    BY <2>1, RunsFold, Zenon
  <2> QED
    BY <2>1, <2>2
<1>4. StepTogether(f, g, n)
  <2>1. ASSUME NEW k \in 1 .. n, f[1 .. k - 1] = g[1 .. k - 1]
        PROVE  f[1 .. k] = g[1 .. k]
    <3>1. k \in 1 .. n + 1 /\ longer[k] = seq[k]
      BY <1>1
    <3> QED
      BY <2>1, <3>1, <1>2, <1>3
  <2> QED
    BY <2>1, <1>2, <1>3 DEF StepTogether
<1>5. f[1 .. n] = g[1 .. n]
  BY <1>4, FoldsAgree, Zenon
<1>6. UptimeRuns(longer) = ExtendRuns(g[1 .. n], p)
  <2>1. n + 1 \in 1 .. n + 1 /\ n + 1 - 1 = n
    OBVIOUS
  <2>2. g[1 .. n + 1] = ExtendRuns(g[1 .. n + 1 - 1], longer[n + 1])
    BY <1>3, <2>1
  <2> QED
    BY <1>1, <1>3, <2>1, <2>2
<1> QED
  BY <1>2, <1>5, <1>6 DEF longer

\* The clock does not run behind the probes, nor these behind the open interval.
Chronological ==
    /\ LastTime(probes) <= now
    /\ intervals # <<>> => intervals[Len(intervals)].start <= LastTime(probes)

\* Runs up to time t begin one after the other, and two neighbours differ.
RunsAreOrdered(runs, t) ==
    /\ \A n \in DOMAIN runs : n < Len(runs) =>
          runs[n].start < runs[n + 1].start /\ runs[n].ok # runs[n + 1].ok
    /\ runs # <<>> => runs[Len(runs)].start <= t

\* The runs that a backfill would make of the probes.
RunsInOrder ==
    /\ UptimeRuns(probes) \in Seq(RunIn(Times))
    /\ RunsAreOrdered(UptimeRuns(probes), LastTime(probes))

\* What holds of the history of every monitor.
Base ==
    /\ TypeOK
    /\ scenario \in Scenarios
    /\ Chronological
    /\ RunsInOrder
    /\ IntervalsContiguous

-----------------------------------------------------------------------------

\* Times are positive numbers.
LEMMA TimesAreNumbers ==
    ASSUME scenario \in Scenarios
    PROVE  Times \in SUBSET (Nat \ {0}) /\ scenario.end \in Nat \ {0}
BY HistoryAssumptions DEF Times

\* The status of an evaluated probe is one that intervals are recorded with.
LEMMA EvaluatedStatus ==
    ASSUME NEW prev, NEW ok \in BOOLEAN
    PROVE  Evaluated(prev, ok, Threshold).status \in {"UP", "FAILING", "DOWN"}
BY DEF Evaluated, EvaluateProbe, Evaluate

\* An open interval is well typed.
LEMMA OpenType ==
    ASSUME NEW T, NEW status \in {"UP", "FAILING", "DOWN"}, NEW at \in T
    PROVE  /\ Open(status, at) \in IntervalIn(T)
           /\ Open(status, at).start = at
           /\ Open(status, at).end = NoTime
           /\ Open(status, at).status = status
           /\ Open(status, at).downtime = (status = "DOWN")
BY DEF Open, IntervalIn, NoTime

\* A status that the open interval has leaves the history as it is.
LEMMA SaveSame ==
    ASSUME NEW h, NEW status, NEW at, h # <<>>, Last(h).status = status
    PROVE  SaveStatusInterval(h, status, at) = h
BY DEF SaveStatusInterval

\* Another status closes the open interval, if there is one, and opens the next.
LEMMA SaveOther ==
    ASSUME NEW T, NEW h \in Seq(IntervalIn(T)),
           NEW status \in {"UP", "FAILING", "DOWN"}, NEW at \in T,
           h = <<>> \/ Last(h).status # status
    PROVE  LET g == SaveStatusInterval(h, status, at)
               n == Len(h)
           IN  /\ g \in Seq(IntervalIn(T))
               /\ Len(g) = n + 1
               /\ g[n + 1] = Open(status, at)
               /\ \A k \in 1 .. n - 1 : g[k] = h[k]
               /\ n > 0 => /\ g[n].status = h[n].status
                           /\ g[n].start = h[n].start
                           /\ g[n].end = at
                           /\ g[n].downtime = (h[n].status = "DOWN"
                                               \/ (h[n].status = "FAILING" /\ status = "DOWN"))
<1>1. PICK n \in Nat : n = Len(h) /\ DOMAIN h = 1 .. n
  OBVIOUS
<1>2. PICK g : g = SaveStatusInterval(h, status, at)
  OBVIOUS
<1>3. PICK new \in IntervalIn(T) : new = Open(status, at)
  BY OpenType
<1>4. CASE h = <<>>
  <2>1. g = Append(<<>>, new) /\ n = 0
    BY <1>1, <1>2, <1>3, <1>4 DEF SaveStatusInterval
  <2> QED
    BY <1>1, <1>2, <1>3, <1>4, <2>1
<1>5. CASE h # <<>> /\ Last(h).status # status
  <2> DEFINE flag == h[n].status = "DOWN" \/ (h[n].status = "FAILING" /\ status = "DOWN")
             ended == [h[n] EXCEPT !.end = at, !.downtime = flag]
             closed == [h EXCEPT ![n] = ended]
  <2>1. n > 0 /\ h[n] \in IntervalIn(T)
    BY <1>1, <1>5
  <2>2. ended \in IntervalIn(T) /\ ended.start = h[n].start /\ ended.end = at
        /\ ended.status = h[n].status /\ ended.downtime = flag
    BY <2>1 DEF IntervalIn
  <2>3. g = Append(closed, new)
    BY <1>1, <1>2, <1>3, <1>5 DEF SaveStatusInterval
  <2> HIDE DEF ended, flag
  <2>4. /\ closed \in Seq(IntervalIn(T)) /\ Len(closed) = n /\ closed[n] = ended
        /\ \A k \in 1 .. n - 1 : closed[k] = h[k]
    BY <1>1, <2>1, <2>2
  <2> HIDE DEF closed
  <2>5. /\ g \in Seq(IntervalIn(T)) /\ Len(g) = n + 1 /\ g[n + 1] = new
        /\ g[n] = ended
        /\ \A k \in 1 .. n - 1 : g[k] = h[k]
    BY <1>1, <2>1, <2>3, <2>4
  <2>6. g[n].downtime = (h[n].status = "DOWN" \/ (h[n].status = "FAILING" /\ status = "DOWN"))
    BY <2>2, <2>5, Zenon DEF flag
  <2>7. g[n].status = h[n].status /\ g[n].start = h[n].start /\ g[n].end = at
    BY <2>2, <2>5, Zenon
  <2> QED
    BY <1>1, <1>2, <1>3, <2>5, <2>6, <2>7
<1> QED
  BY <1>4, <1>5

\* Saving an interval keeps contiguous intervals contiguous when it starts
\* later than the one that is open, and leaves one open that starts no later.
LEMMA SaveKeepsContiguous ==
    ASSUME NEW T \in SUBSET Nat, NEW h \in Seq(IntervalIn(T)), Contiguous(h),
           NEW status \in {"UP", "FAILING", "DOWN"}, NEW at \in T,
           h # <<>> => h[Len(h)].start < at,
           NEW g, g = SaveStatusInterval(h, status, at)
    PROVE  /\ g \in Seq(IntervalIn(T))
           /\ Contiguous(g)
           /\ g # <<>> /\ g[Len(g)].start <= at /\ g[Len(g)].status = status
<1>1. PICK n \in Nat : n = Len(h) /\ DOMAIN h = 1 .. n
  OBVIOUS
<1>2. CASE h # <<>> /\ Last(h).status = status
  <2>1. g = h
    BY <1>2, SaveSame
  <2>2. h[Len(h)] \in IntervalIn(T)
    BY <1>2
  <2>3. h[Len(h)].start \in Nat /\ at \in Nat
    BY <2>2 DEF IntervalIn
  <2>4. h[Len(h)].start <= at /\ h[Len(h)].status = status
    BY <1>2, <2>3 DEF Last
  <2> QED
    BY <1>2, <2>1, <2>4
<1>3. CASE h = <<>> \/ Last(h).status # status
  <2>1. /\ g \in Seq(IntervalIn(T))
        /\ Len(g) = n + 1
        /\ g[n + 1] = Open(status, at)
        /\ \A k \in 1 .. n - 1 : g[k] = h[k]
        /\ n > 0 => g[n].status = h[n].status /\ g[n].start = h[n].start /\ g[n].end = at
    BY <1>1, <1>3, SaveOther
  <2>2. /\ g[n + 1].start = at /\ g[n + 1].end = NoTime /\ g[n + 1].status = status
        /\ at \in Nat
    BY <2>1, OpenType
  <2>3. n > 0 => h[n].status # status /\ h[n].start < at /\ h # <<>>
    BY <1>1, <1>3 DEF Last
  <2>4. ASSUME NEW k \in 1 .. n + 1
        PROVE  IF k = n + 1 THEN g[k].end = NoTime
               ELSE /\ g[k].start < g[k].end
                    /\ g[k].end = g[k + 1].start
                    /\ g[k].status # g[k + 1].status
    <3>1. CASE k = n + 1
      BY <3>1, <2>2
    <3>2. CASE k = n
      BY <3>2, <2>1, <2>2, <2>3
    <3>3. CASE k \in 1 .. n - 1
      <4>1. g[k] = h[k] /\ g[k + 1].start = h[k + 1].start
            /\ g[k + 1].status = h[k + 1].status
        <5>1. CASE k = n - 1
          BY <5>1, <3>3, <2>1
        <5>2. CASE k # n - 1
          BY <5>2, <3>3, <2>1
        <5> QED
          BY <5>1, <5>2
      <4>2. k \in DOMAIN h /\ k # Len(h) /\ k # n + 1
        BY <3>3, <1>1
      <4> QED
        BY <4>1, <4>2 DEF Contiguous
    <3> QED
      BY <3>1, <3>2, <3>3
  <2>5. DOMAIN g = 1 .. n + 1 /\ g # <<>>
    BY <2>1
  <2>6. Contiguous(g)
    BY <2>1, <2>4, <2>5 DEF Contiguous
  <2> QED
    BY <2>1, <2>2, <2>5, <2>6
<1> QED
  BY <1>2, <1>3

\* A probe that is later than all before it leaves the runs in order.
LEMMA RunsStayOrdered ==
    ASSUME NEW T \in SUBSET Nat, NEW runs \in Seq(RunIn(T)), NEW t \in Nat,
           RunsAreOrdered(runs, t), NEW p \in ProbeIn(T), t < p.at,
           NEW g, g = ExtendRuns(runs, p)
    PROVE  g \in Seq(RunIn(T)) /\ RunsAreOrdered(g, p.at)
<1>1. g \in Seq(RunIn(T))
  BY ExtendRunsType
<1>2. p.at \in Nat /\ \A k \in 1 .. Len(runs) : runs[k].start \in Nat
  <2>1. \A k \in 1 .. Len(runs) : runs[k] \in RunIn(T)
    OBVIOUS
  <2> QED
    BY <2>1 DEF ProbeIn, RunIn
<1>3. PICK n \in Nat : n = Len(runs) /\ DOMAIN runs = 1 .. n /\ (runs # <<>> <=> n > 0)
  OBVIOUS
<1>4. n > 0 => runs[n].start <= t
  BY <1>3 DEF RunsAreOrdered
<1>5. \A k \in 1 .. n - 1 : runs[k].start < runs[k + 1].start /\ runs[k].ok # runs[k + 1].ok
  <2> TAKE k \in 1 .. n - 1
  <2>1. k \in DOMAIN runs /\ k < Len(runs)
    BY <1>3
  <2> QED
    BY <2>1 DEF RunsAreOrdered
<1>6. CASE p.kind # "evaluate"
  <2>1. g = runs
    BY <1>6 DEF ExtendRuns
  <2>2. n > 0 => runs[n].start <= p.at
    BY <1>2, <1>3, <1>4
  <2> QED
    BY <1>1, <1>3, <2>1, <2>2 DEF RunsAreOrdered
<1>7. CASE p.kind = "evaluate" /\ runs # <<>> /\ Last(runs).ok = p.ok
  <2>1. g = [runs EXCEPT ![n] = [runs[n] EXCEPT !.count = runs[n].count + 1]]
    BY <1>3, <1>7 DEF ExtendRuns
  <2>2. \A k \in 1 .. n : runs[k] \in RunIn(T)
    BY <1>3
  <2>3. Len(g) = n /\ DOMAIN g = 1 .. n /\ g # <<>>
    BY <1>1, <1>3, <1>7, <2>1
  <2>4. \A k \in 1 .. n : g[k].start = runs[k].start /\ g[k].ok = runs[k].ok
    <3>1. [runs[n] EXCEPT !.count = runs[n].count + 1].start = runs[n].start
          /\ [runs[n] EXCEPT !.count = runs[n].count + 1].ok = runs[n].ok
      BY <1>3, <1>7, <2>2 DEF RunIn
    <3> QED
      BY <1>3, <2>1, <3>1
  <2>5. \A k \in 1 .. n : k < n => g[k].start < g[k + 1].start /\ g[k].ok # g[k + 1].ok
    <3> TAKE k \in 1 .. n
    <3> HAVE k < n
    <3>1. k \in 1 .. n - 1 /\ k + 1 \in 1 .. n
      OBVIOUS
    <3> QED
      BY <1>5, <2>4, <3>1
  <2>6. g[n].start <= p.at
    BY <1>2, <1>3, <1>4, <1>7, <2>4
  <2> QED
    BY <1>1, <2>3, <2>5, <2>6 DEF RunsAreOrdered
<1>8. CASE p.kind = "evaluate" /\ ~(runs # <<>> /\ Last(runs).ok = p.ok)
  <2> DEFINE new == [start |-> p.at, ok |-> p.ok, count |-> 1]
  <2>1. g = Append(runs, new)
    BY <1>8, Zenon DEF ExtendRuns
  <2>2. Len(g) = n + 1 /\ DOMAIN g = 1 .. n + 1 /\ g # <<>> /\ g[n + 1].start = p.at
        /\ g[n + 1].ok = p.ok
    BY <1>3, <2>1
  <2>3. \A k \in 1 .. n : g[k] = runs[k]
    BY <1>3, <2>1
  <2>4. n > 0 => runs[n].ok # p.ok
    BY <1>3, <1>8 DEF Last
  <2>5. ASSUME NEW k \in 1 .. n + 1, k < n + 1
        PROVE  g[k].start < g[k + 1].start /\ g[k].ok # g[k + 1].ok
    <3>1. CASE k = n
      <4>1. k \in 1 .. n /\ n > 0
        BY <2>5, <3>1
      <4> QED
        BY <1>2, <1>3, <1>4, <2>2, <2>3, <2>4, <3>1, <4>1
    <3>2. CASE k # n
      <4>1. k \in 1 .. n - 1 /\ k + 1 \in 1 .. n /\ k \in 1 .. n
        BY <2>5, <3>2
      <4> QED
        BY <1>5, <2>3, <4>1
    <3> QED
      BY <3>1, <3>2
  <2>6. p.at <= p.at
    BY <1>2
  <2> QED
    BY <1>1, <2>2, <2>5, <2>6 DEF RunsAreOrdered
<1> QED
  BY <1>6, <1>7, <1>8

\* The intervals that a backfill makes of runs are contiguous: one of each run.
LEMMA BackfillIsContiguous ==
    ASSUME NEW T \in SUBSET Nat, NEW runs \in Seq(RunIn(T)), NEW t \in Nat,
           RunsAreOrdered(runs, t),
           NEW g, g = BackfilledIntervals(runs)
    PROVE  /\ g \in Seq(IntervalIn(T))
           /\ Contiguous(g)
           /\ Len(g) = Len(runs)
           /\ \A k \in 1 .. Len(runs) :
                 /\ g[k].start = runs[k].start
                 /\ g[k].status = IF runs[k].ok THEN "UP"
                                  ELSE IF runs[k].count >= Threshold THEN "DOWN" ELSE "FAILING"
                 /\ g[k].downtime = (g[k].status = "DOWN")
           /\ g # <<>> => g[Len(g)].start <= t
<1>1. PICK n \in Nat : /\ n = Len(runs) /\ DOMAIN runs = 1 .. n
                       /\ \A k \in 1 .. n : runs[k] \in RunIn(T)
  OBVIOUS
<1>2. ASSUME NEW k \in 1 .. n
      PROVE  /\ g[k] \in IntervalIn(T)
             /\ g[k].start = runs[k].start
             /\ g[k].end = IF k < n THEN runs[k + 1].start ELSE NoTime
             /\ g[k].status = IF runs[k].ok THEN "UP"
                              ELSE IF runs[k].count >= Threshold THEN "DOWN" ELSE "FAILING"
             /\ g[k].downtime = (g[k].status = "DOWN")
  <2> DEFINE status == IF runs[k].ok THEN "UP"
                       ELSE IF runs[k].count >= Threshold THEN "DOWN" ELSE "FAILING"
             end == IF k < n THEN runs[k + 1].start ELSE NoTime
  <2>1. g[k] = [Open(status, runs[k].start) EXCEPT !.end = end]
    BY <1>1 DEF BackfilledIntervals
  <2>2. status \in {"UP", "FAILING", "DOWN"}
    OBVIOUS
  <2>3. end \in T \cup {NoTime}
    <3>1. k < n => runs[k + 1] \in RunIn(T)
      BY <1>1
    <3> QED
      BY <3>1 DEF RunIn
  <2>4. runs[k].start \in T
    BY <1>1 DEF RunIn
  <2> HIDE DEF status, end
  <2>5. /\ Open(status, runs[k].start) \in IntervalIn(T)
        /\ Open(status, runs[k].start).start = runs[k].start
        /\ Open(status, runs[k].start).status = status
        /\ Open(status, runs[k].start).downtime = (status = "DOWN")
    BY <2>2, <2>4, OpenType
  <2>6. PICK o \in IntervalIn(T) : o = Open(status, runs[k].start)
    BY <2>5
  <2>7. /\ g[k] \in IntervalIn(T)
        /\ g[k].start = o.start /\ g[k].end = end /\ g[k].status = o.status
        /\ g[k].downtime = o.downtime
    BY <2>1, <2>3, <2>6 DEF IntervalIn
  <2>8. g[k].status = status /\ g[k].downtime = (status = "DOWN")
    BY <2>5, <2>6, <2>7, Zenon
  <2>9. g[k].downtime = (g[k].status = "DOWN")
    BY <2>8, Zenon
  <2> QED
    BY <2>5, <2>6, <2>7, <2>8, <2>9 DEF status, end
<1>3. g \in Seq(IntervalIn(T)) /\ Len(g) = n /\ DOMAIN g = 1 .. n
  <2>1. g = [k \in 1 .. n |-> g[k]]
    BY <1>1 DEF BackfilledIntervals
  <2>2. \A k \in 1 .. n : g[k] \in IntervalIn(T)
    BY <1>2
  <2> QED
    BY <2>1, <2>2
<1>4. ASSUME NEW k \in 1 .. n
      PROVE  IF k = n THEN g[k].end = NoTime
             ELSE /\ g[k].start < g[k].end
                  /\ g[k].end = g[k + 1].start
                  /\ g[k].status # g[k + 1].status
  <2>1. CASE k = n
    BY <1>2, <2>1
  <2>2. CASE k # n
    <3>1. k \in 1 .. n /\ k < n /\ k + 1 \in 1 .. n
      BY <2>2
    <3>2. runs[k].start < runs[k + 1].start /\ runs[k].ok # runs[k + 1].ok
      BY <1>1, <3>1 DEF RunsAreOrdered
    <3>3. /\ g[k].start = runs[k].start /\ g[k].end = runs[k + 1].start
          /\ g[k + 1].start = runs[k + 1].start
      BY <1>2, <3>1
    <3>4. (g[k].status = "UP" <=> runs[k].ok) /\ (g[k + 1].status = "UP" <=> runs[k + 1].ok)
      BY <1>2, <3>1
    <3>5. runs[k].ok \in BOOLEAN /\ runs[k + 1].ok \in BOOLEAN
      BY <1>1, <3>1 DEF RunIn
    <3>6. g[k].status # g[k + 1].status
      BY <3>2, <3>4, <3>5
    <3> QED
      BY <2>2, <3>2, <3>3, <3>6
  <2> QED
    BY <2>1, <2>2
<1>5. Contiguous(g)
  BY <1>3, <1>4 DEF Contiguous
<1>6. g # <<>> => g[Len(g)].start <= t
  <2>1. g # <<>> => n \in 1 .. n /\ runs # <<>>
    BY <1>1, <1>3
  <2> QED
    BY <1>1, <1>2, <1>3, <2>1 DEF RunsAreOrdered
<1> QED
  BY <1>1, <1>2, <1>3, <1>5, <1>6

\* The time of the last probe is a number.
LEMMA LastTimeIsNumber ==
    ASSUME NEW T \in SUBSET Nat, NEW seq \in Seq(ProbeIn(T))
    PROVE  LastTime(seq) \in Nat
<1>1. seq # <<>> => seq[Len(seq)] \in ProbeIn(T)
  OBVIOUS
<1> QED
  BY <1>1 DEF LastTime, Last, NoTime, ProbeIn

\* A probe that is added is the last one.
LEMMA LastTimeOfOneMore ==
    ASSUME NEW T, NEW seq \in Seq(ProbeIn(T)), NEW p \in ProbeIn(T)
    PROVE  Append(seq, p) \in Seq(ProbeIn(T)) /\ LastTime(Append(seq, p)) = p.at
<1>1. /\ Append(seq, p) \in Seq(ProbeIn(T)) /\ Append(seq, p) # <<>>
      /\ Append(seq, p)[Len(Append(seq, p))] = p
  OBVIOUS
<1> QED
  BY <1>1 DEF LastTime, Last

\* What Base says of the types, in the terms of the lemmas.
LEMMA BaseTypes ==
    ASSUME Base
    PROVE  /\ Times \in SUBSET Nat
           /\ now \in Times /\ now \in Nat
           /\ probes \in Seq(ProbeIn(Times)) /\ LastTime(probes) \in Nat
           /\ intervals \in Seq(IntervalIn(Times))
           /\ row \in MonitorRow
<1>1. Times \in SUBSET (Nat \ {0}) /\ scenario.end \in Nat \ {0}
  BY TimesAreNumbers DEF Base
<1>2. now \in Times
  BY <1>1 DEF Base, TypeOK, Times
<1>3. /\ probes \in Seq(ProbeIn(Times)) /\ intervals \in Seq(IntervalIn(Times))
      /\ row \in MonitorRow
  BY Zenon DEF Base, TypeOK, ProbeIn, IntervalIn
<1>4. Times \in SUBSET Nat
  BY <1>1
<1> HIDE DEF Times
<1>5. LastTime(probes) \in Nat
  BY <1>3, <1>4, LastTimeIsNumber, Zenon
<1> QED
  BY <1>2, <1>3, <1>4, <1>5

\* At first there is nothing.
LEMMA BaseInit ==
    ASSUME Init
    PROVE  Base
<1>1. scenario \in Scenarios /\ Times \in SUBSET (Nat \ {0}) /\ scenario.end \in Nat \ {0}
  BY TimesAreNumbers DEF Init
<1>2. TypeOK
  <2>1. /\ now = 1 /\ row = NoRow /\ probes = <<>> /\ intervals = <<>> /\ windows = {}
        /\ observerLog = <<>> /\ removed \in BOOLEAN
    BY DEF Init
  <2>2. recording \in BOOLEAN /\ marked \in BOOLEAN
    <3>1. recording = ("upgrade" \notin scenario.events) /\ marked = recording
      BY Zenon DEF Init
    <3> QED
      BY <3>1
  <2>3. now \in 1 .. scenario.end
    BY <1>1, <2>1
  <2> QED
    BY <2>1, <2>2, <2>3, NoRowIsRow DEF TypeOK
<1>3. Chronological
  BY DEF Init, Chronological, LastTime, NoTime
<1>4. RunsInOrder
  <2>1. UptimeRuns(probes) = <<>>
    BY RunsOfNone DEF Init
  <2> QED
    BY <2>1 DEF RunsInOrder, RunsAreOrdered
<1>5. IntervalsContiguous
  BY DEF Init, IntervalsContiguous, Contiguous
<1> QED
  BY <1>1, <1>2, <1>3, <1>4, <1>5 DEF Base

\* A probe is recorded now, and so is the interval it may open.
LEMMA BaseProbe ==
    ASSUME Base, scenario' = scenario, NEW ok \in BOOLEAN, Probe(ok)
    PROVE  Base'
<1>1. PICK degraded \in BOOLEAN :
        SaveProbe(ok, KindOfProbe(ok, ObserverStatus, InMaintenance, degraded))
  BY DEF Probe
<1>2. PICK kind \in {"evaluate", "maintenance", "suppressed"} : SaveProbe(ok, kind)
  <2>1. KindOfProbe(ok, ObserverStatus, InMaintenance, degraded)
          \in {"evaluate", "maintenance", "suppressed"}
    BY DEF KindOfProbe
  <2> QED
    BY <1>1, <2>1
<1>3. /\ Times \in SUBSET Nat
      /\ now \in Times /\ now \in Nat
      /\ probes \in Seq(ProbeIn(Times)) /\ LastTime(probes) \in Nat
      /\ intervals \in Seq(IntervalIn(Times))
      /\ row \in MonitorRow
  BY BaseTypes
<1>4. PICK p \in ProbeIn(Times) : p = [at |-> now, ok |-> ok, kind |-> kind]
  BY <1>3 DEF ProbeIn
<1>5. p.at = now /\ probes' = Append(probes, p)
  BY <1>2, <1>4 DEF SaveProbe
<1>6. LastTime(probes) < now /\ now' = now /\ Times' = Times
  BY DEF Probe, Times
<1> HIDE DEF Times
<1>7. probes' \in Seq(ProbeIn(Times)) /\ LastTime(probes') = now
  BY <1>3, <1>5, LastTimeOfOneMore
<1>8. RunsInOrder'
  <2>1. UptimeRuns(probes') = ExtendRuns(UptimeRuns(probes), p)
    BY <1>3, <1>5, RunsOfOneMore
  <2>2. UptimeRuns(probes) \in Seq(RunIn(Times)) /\ RunsAreOrdered(UptimeRuns(probes), LastTime(probes))
    BY DEF Base, RunsInOrder
  <2>3. UptimeRuns(probes') \in Seq(RunIn(Times)) /\ RunsAreOrdered(UptimeRuns(probes'), now)
    BY <1>3, <1>5, <1>6, <2>1, <2>2, RunsStayOrdered
  <2> QED
    BY <1>6, <1>7, <2>3 DEF RunsInOrder
<1>9. intervals # <<>> =>
        intervals[Len(intervals)].start \in Nat /\ intervals[Len(intervals)].start < now
  <2>1. intervals # <<>> => intervals[Len(intervals)] \in IntervalIn(Times)
    BY <1>3
  <2>2. intervals # <<>> => intervals[Len(intervals)].start \in Nat
    BY <1>3, <2>1 DEF IntervalIn
  <2>3. intervals # <<>> => intervals[Len(intervals)].start <= LastTime(probes)
    BY DEF Base, Chronological
  <2> QED
    BY <1>3, <1>6, <2>2, <2>3
<1>10. /\ intervals' \in Seq(IntervalIn(Times))
       /\ Contiguous(intervals')
       /\ intervals' # <<>> => intervals'[Len(intervals')].start <= now
  <2>1. CASE ~(recording /\ kind = "evaluate")
    <3>1. intervals' = intervals
      BY <1>2, <2>1 DEF SaveProbe
    <3> QED
      BY <1>3, <1>9, <3>1 DEF Base, IntervalsContiguous
  <2>2. CASE recording /\ kind = "evaluate"
    <3>1. PICK status \in {"UP", "FAILING", "DOWN"} :
            intervals' = SaveStatusInterval(intervals, status, now)
      <4>1. Evaluated(Previous(row), ok, Threshold).status \in {"UP", "FAILING", "DOWN"}
        BY EvaluatedStatus
      <4> QED
        BY <1>2, <2>2, <4>1 DEF SaveProbe
    <3>2. Contiguous(intervals)
      BY DEF Base, IntervalsContiguous
    <3> QED
      BY <1>3, <1>9, <3>1, <3>2, SaveKeepsContiguous
  <2> QED
    BY <2>1, <2>2
<1>11. row' \in MonitorRow
  BY <1>2, <1>3, PreviousRow, EvaluatedRow, MaintenanceRow, HistoryAssumptions DEF SaveProbe
<1>12. /\ now' \in 1 .. scenario'.end /\ recording' \in BOOLEAN /\ marked' \in BOOLEAN
       /\ windows' \subseteq [start : Times', end : Times', cancelled : BOOLEAN]
       /\ removed' \in BOOLEAN
       /\ observerLog' \in Seq([status : {"OBSERVER_UP", "OBSERVER_DOWN"}, at : Times'])
  BY <1>6, Zenon DEF Base, TypeOK, Probe
<1>13. TypeOK'
  BY <1>6, <1>7, <1>10, <1>11, <1>12, Zenon DEF TypeOK, ProbeIn, IntervalIn
<1>14. Chronological'
  <2>1. LastTime(probes)' = now
    BY <1>7
  <2> QED
    BY <1>3, <1>6, <1>10, <2>1 DEF Chronological
<1> QED
  BY <1>8, <1>10, <1>13, <1>14 DEF Base, IntervalsContiguous

\* The backfill writes an interval of each run.
LEMMA BaseBackfill ==
    ASSUME Base, scenario' = scenario, Backfill
    PROVE  Base'
<1>1. Times \in SUBSET Nat /\ LastTime(probes) \in Nat
  BY BaseTypes
<1>2. /\ UptimeRuns(probes) \in Seq(RunIn(Times))
      /\ RunsAreOrdered(UptimeRuns(probes), LastTime(probes))
  BY DEF Base, RunsInOrder
<1>3. /\ intervals' = BackfilledIntervals(UptimeRuns(probes)) /\ marked' = TRUE
      /\ UNCHANGED <<now, row, probes, recording, windows, observerLog, removed>>
      /\ Times' = Times
  BY DEF Backfill, Times
<1> HIDE DEF Times
<1>4. /\ intervals' \in Seq(IntervalIn(Times)) /\ Contiguous(intervals')
      /\ intervals' # <<>> => intervals'[Len(intervals')].start <= LastTime(probes)
  BY <1>1, <1>2, <1>3, BackfillIsContiguous
<1>5. TypeOK'
  <2>1. /\ now' \in 1 .. scenario'.end /\ recording' \in BOOLEAN /\ marked' \in BOOLEAN
        /\ windows' \subseteq [start : Times', end : Times', cancelled : BOOLEAN]
        /\ removed' \in BOOLEAN /\ row' \in MonitorRow
        /\ probes' \in Seq([at : Times', ok : BOOLEAN,
                            kind : {"evaluate", "maintenance", "suppressed"}])
        /\ observerLog' \in Seq([status : {"OBSERVER_UP", "OBSERVER_DOWN"}, at : Times'])
    BY <1>3, Zenon DEF Base, TypeOK
  <2> QED
    BY <1>3, <1>4, <2>1, Zenon DEF TypeOK, IntervalIn
<1>6. Chronological'
  <2>1. LastTime(probes)' = LastTime(probes)
    BY <1>3
  <2> QED
    BY <1>3, <1>4, <2>1 DEF Base, Chronological
<1>7. RunsInOrder'
  BY <1>2, <1>3 DEF RunsInOrder
<1> QED
  BY <1>4, <1>5, <1>6, <1>7 DEF Base, IntervalsContiguous

\* Whatever writes neither probes nor intervals.
LEMMA BaseKept ==
    ASSUME Base, scenario' = scenario, UNCHANGED <<probes, intervals>>,
           now' \in {now, now + 1}, TypeOK'
    PROVE  Base'
<1>1. now \in Nat /\ LastTime(probes) \in Nat /\ Times' = Times
  BY BaseTypes DEF Times
<1>2. LastTime(probes)' = LastTime(probes) /\ LastTime(probes) <= now'
  BY <1>1 DEF Base, Chronological
<1>3. Chronological'
  BY <1>2 DEF Base, Chronological
<1>4. RunsInOrder'
  BY <1>1, <1>2 DEF Base, RunsInOrder
<1> QED
  BY <1>3, <1>4 DEF Base, IntervalsContiguous

\* The history of a monitor stays in order.
LEMMA BaseNext ==
    ASSUME Base, [Next]_vars
    PROVE  Base'
<1>1. scenario' = scenario /\ Times' = Times
  BY DEF Next, vars, Times
<1>2. scenario.end \in Nat \ {0}
  BY TimesAreNumbers DEF Base
<1>3. /\ now \in 1 .. scenario.end
      /\ row \in MonitorRow
      /\ probes \in Seq([at : Times, ok : BOOLEAN,
                         kind : {"evaluate", "maintenance", "suppressed"}])
      /\ intervals \in Seq([status : {"UP", "FAILING", "DOWN"}, start : Times,
                            end : Times \cup {NoTime}, downtime : BOOLEAN])
      /\ recording \in BOOLEAN /\ marked \in BOOLEAN /\ removed \in BOOLEAN
      /\ windows \subseteq [start : Times, end : Times, cancelled : BOOLEAN]
      /\ observerLog \in Seq([status : {"OBSERVER_UP", "OBSERVER_DOWN"}, at : Times])
  BY Zenon DEF Base, TypeOK
<1>4. CASE Tick
  <2>1. /\ UNCHANGED <<row, probes, intervals, recording, marked, windows, observerLog, removed>>
        /\ now' = now + 1 /\ now < scenario.end
    BY <1>4 DEF Tick
  <2>2. now' \in 1 .. scenario.end
    BY <1>2, <1>3, <2>1
  <2>3. TypeOK'
    BY <1>1, <1>3, <2>1, <2>2, Zenon DEF TypeOK
  <2> QED
    BY <1>1, <2>1, <2>3, BaseKept
<1>5. CASE \E ok \in BOOLEAN : Probe(ok)
  BY <1>1, <1>5, BaseProbe
<1>6. CASE Backfill
  BY <1>1, <1>6, BaseBackfill
<1>7. CASE \E start \in 1 .. scenario.end, end \in 2 .. scenario.end + 1 : AddWindow(start, end)
  <2>1. PICK start \in 1 .. scenario.end, end \in 2 .. scenario.end + 1 : AddWindow(start, end)
    BY <1>7
  <2>2. /\ UNCHANGED <<now, row, probes, intervals, recording, marked, observerLog, removed>>
        /\ windows' = windows \cup {[start |-> start, end |-> end, cancelled |-> FALSE]}
    BY <2>1 DEF AddWindow
  <2>3. start \in Times /\ end \in Times
    BY <1>2 DEF Times
  <2>4. windows' \subseteq [start : Times, end : Times, cancelled : BOOLEAN]
    <3> HIDE DEF Times
    <3>1. [start |-> start, end |-> end, cancelled |-> FALSE]
            \in [start : Times, end : Times, cancelled : BOOLEAN]
      BY <2>3
    <3> QED
      BY <1>3, <2>2, <3>1, Zenon
  <2>5. TypeOK'
    BY <1>1, <1>3, <2>2, <2>4, Zenon DEF TypeOK
  <2> QED
    BY <1>1, <2>2, <2>5, BaseKept
<1>8. CASE \E w \in windows : CancelWindow(w)
  <2>1. PICK w \in windows : CancelWindow(w)
    BY <1>8
  <2>2. /\ UNCHANGED <<now, row, probes, intervals, recording, marked, observerLog, removed>>
        /\ windows' = (windows \ {w}) \cup {[w EXCEPT !.cancelled = TRUE]}
    BY <2>1 DEF CancelWindow
  <2>3. [w EXCEPT !.cancelled = TRUE] \in [start : Times, end : Times, cancelled : BOOLEAN]
    BY <1>3
  <2>4. windows' \subseteq [start : Times, end : Times, cancelled : BOOLEAN]
    BY <1>3, <2>2, <2>3
  <2>5. TypeOK'
    BY <1>1, <1>3, <2>2, <2>4, Zenon DEF TypeOK
  <2> QED
    BY <1>1, <2>2, <2>5, BaseKept
<1>9. CASE ObserverTransition
  <2>1. PICK status \in {"OBSERVER_UP", "OBSERVER_DOWN"} :
           observerLog' = Append(observerLog, [status |-> status, at |-> now])
    BY <1>9 DEF ObserverTransition
  <2>2. UNCHANGED <<now, row, probes, intervals, recording, marked, windows, removed>>
    BY <1>9 DEF ObserverTransition
  <2>3. now \in Times
    BY <1>2, <1>3 DEF Times
  <2>4. observerLog' \in Seq([status : {"OBSERVER_UP", "OBSERVER_DOWN"}, at : Times])
    BY <1>3, <2>1, <2>3
  <2>5. TypeOK'
    BY <1>1, <1>3, <2>2, <2>4, Zenon DEF TypeOK
  <2> QED
    BY <1>1, <2>2, <2>5, BaseKept
<1>10. CASE RemoveMonitor
  <2>1. /\ UNCHANGED <<now, probes, intervals, recording, marked, windows, observerLog>>
        /\ row' = NoRow /\ removed' = TRUE
    BY <1>10 DEF RemoveMonitor
  <2>2. row' \in MonitorRow /\ removed' \in BOOLEAN
    BY <2>1, NoRowIsRow
  <2>3. TypeOK'
    BY <1>1, <1>3, <2>1, <2>2, Zenon DEF TypeOK
  <2> QED
    BY <1>1, <2>1, <2>3, BaseKept
<1>11. CASE Upgrade
  <2>1. /\ UNCHANGED <<now, row, probes, intervals, marked, windows, observerLog, removed>>
        /\ recording' = TRUE
    BY <1>11 DEF Upgrade
  <2>2. recording' \in BOOLEAN
    BY <2>1
  <2>3. TypeOK'
    BY <1>1, <1>3, <2>1, <2>2, Zenon DEF TypeOK
  <2> QED
    BY <1>1, <2>1, <2>3, BaseKept
<1>12. CASE UNCHANGED vars
  <2>1. UNCHANGED <<now, row, probes, intervals, recording, marked, windows, observerLog, removed>>
    BY <1>12 DEF vars
  <2>2. TypeOK'
    BY <1>1, <1>3, <2>1, Zenon DEF TypeOK
  <2> QED
    BY <1>1, <2>1, <2>2, BaseKept
<1> QED
  BY <1>4, <1>5, <1>6, <1>7, <1>8, <1>9, <1>10, <1>11, <1>12 DEF Next

\* In maintenance the status from before it is kept.
StatusIsKept == row.status = "MAINTENANCE" => row.before \notin {NoStatus, "MAINTENANCE"}

\* The history of the probes says what the rows have said: while a backfill is due, the
\* monitor is neither in maintenance, which the backfill looks through and the program
\* does not, nor removed.
Undisturbed ==
    "upgrade" \in scenario.events => scenario.events \cap {"maintenance", "removal"} = {}

\* Only a migration makes a backfill due.
DueIfMigrated ==
    /\ "upgrade" \notin scenario.events => marked
    /\ marked => recording
    /\ Undisturbed /\ "upgrade" \in scenario.events =>
          windows = {} /\ row.status # "MAINTENANCE" /\ ~removed

\* The row is the one that the last run leads to.
RunsTellRow ==
    LET runs == UptimeRuns(probes)
        last == runs[Len(runs)]
    IN  /\ runs = <<>> => row = NoRow
        /\ runs # <<>> =>
              /\ row.failures = (IF last.ok THEN 0 ELSE Saturated(last.count))
              /\ row.status = (IF last.ok THEN "UP"
                               ELSE IF last.count >= Threshold THEN "DOWN" ELSE "FAILING")

StatusInv ==
    /\ StatusIsKept
    /\ DueIfMigrated
    /\ Undisturbed /\ ~marked => RunsTellRow
    /\ Undisturbed => OpenIntervalTellsStatus

-----------------------------------------------------------------------------

\* Maintenance is looked through: the status outside of it does not change when a
\* probe inside a window is saved, nor when a monitor without a row gets one.
LEMMA MaintenanceKeepsStatus ==
    ASSUME row \in MonitorRow, StatusIsKept, row' = MaintenanceState(Previous(row))
    PROVE  StatusIsKept' /\ StatusOutsideMaintenance(row)' = StatusOutsideMaintenance(row)
BY DEF MonitorRow, Status, StatusIsKept, StatusOutsideMaintenance, MaintenanceState, Previous,
       Exists, NoStatus

\* The run that a counted probe belongs to.
LEMMA LastOfExtended ==
    ASSUME NEW T, NEW runs \in Seq(RunIn(T)), NEW p \in ProbeIn(T), p.kind = "evaluate",
           NEW g, g = ExtendRuns(runs, p)
    PROVE  /\ g # <<>>
           /\ g[Len(g)].ok = p.ok
           /\ IF runs # <<>> /\ runs[Len(runs)].ok = p.ok
              THEN g[Len(g)].count = runs[Len(runs)].count + 1
              ELSE g[Len(g)].count = 1
<1>1. CASE runs # <<>> /\ Last(runs).ok = p.ok
  <2> DEFINE n == Len(runs)
  <2>1. n \in DOMAIN runs /\ runs[n] \in RunIn(T) /\ Len(runs) = n /\ n \in Nat
    BY <1>1
  <2>2. PICK new \in RunIn(T) : /\ new = [runs[n] EXCEPT !.count = runs[n].count + 1]
                                /\ new.ok = runs[n].ok /\ new.count = runs[n].count + 1
    <3>1. PICK old \in RunIn(T) : old = runs[n]
      BY <2>1
    <3>2. /\ [old EXCEPT !.count = old.count + 1] \in RunIn(T)
          /\ [old EXCEPT !.count = old.count + 1].ok = old.ok
          /\ [old EXCEPT !.count = old.count + 1].count = old.count + 1
      BY DEF RunIn
    <3> QED
      BY <3>1, <3>2
  <2>3. g = [runs EXCEPT ![n] = new]
    BY <1>1, <2>2 DEF ExtendRuns
  <2>4. Len(g) = n /\ g[n] = new /\ g # <<>>
    BY <2>1, <2>3
  <2> QED
    BY <1>1, <2>2, <2>4 DEF Last
<1>2. CASE ~(runs # <<>> /\ Last(runs).ok = p.ok)
  <2>1. PICK new : new = [start |-> p.at, ok |-> p.ok, count |-> 1]
    OBVIOUS
  <2>2. g = Append(runs, new)
    BY <1>2, <2>1, Zenon DEF ExtendRuns
  <2>3. g # <<>> /\ g[Len(g)] = new
    BY <2>2
  <2>4. ~(runs # <<>> /\ runs[Len(runs)].ok = p.ok)
    BY <1>2 DEF Last
  <2> QED
    BY <2>1, <2>3, <2>4
<1> QED
  BY <1>1, <1>2

\* Outside of maintenance a probe is evaluated with the threshold.
LEMMA EvaluatedOutside ==
    ASSUME NEW prev \in MonitorRow, prev.status # "MAINTENANCE", NEW ok \in BOOLEAN,
           NEW next, next = Evaluated(prev, ok, Threshold)
    PROVE  /\ ok => next.status = "UP" /\ next.failures = 0
           /\ ~ok => /\ next.failures = Saturated(prev.failures + 1)
                     /\ next.status = IF \/ prev.status = "DOWN"
                                         \/ Saturated(prev.failures + 1) >= Threshold
                                      THEN "DOWN" ELSE "FAILING"
<1>1. EvaluateProbe(prev, ok, Threshold) = Evaluate(prev, ok, Threshold)
  BY DEF EvaluateProbe
<1>2. /\ next.status = Evaluate(prev, ok, Threshold).status
      /\ next.failures = Evaluate(prev, ok, Threshold).failures
  BY <1>1 DEF Evaluated
<1> QED
  BY <1>2 DEF Evaluate

\* Counting beyond the bound of the count makes no difference to it.
LEMMA SaturatedTwice ==
    ASSUME NEW n \in Nat
    PROVE  /\ Saturated(Saturated(n) + 1) = Saturated(n + 1)
           /\ Saturated(n) >= Threshold <=> n >= Threshold
           /\ Saturated(0 + 1) = 1
BY HistoryAssumptions, MaxFailuresAssumption DEF Saturated

\* A counted probe keeps the row what the last run leads to.
LEMMA RunsTellNextRow ==
    ASSUME Base, RunsTellRow, row.status # "MAINTENANCE",
           NEW ok \in BOOLEAN, NEW p \in ProbeIn(Times), p.kind = "evaluate", p.ok = ok,
           probes' = Append(probes, p), row' = Evaluated(Previous(row), ok, Threshold)
    PROVE  RunsTellRow'
<1> DEFINE runs == UptimeRuns(probes)
           more == UptimeRuns(probes')
           last == runs[Len(runs)]
           new == more[Len(more)]
<1>1. runs \in Seq(RunIn(Times)) /\ probes \in Seq(ProbeIn(Times)) /\ row \in MonitorRow
  BY BaseTypes DEF Base, RunsInOrder
<1>2. more = ExtendRuns(runs, p)
  BY <1>1, RunsOfOneMore
<1>3. /\ more # <<>> /\ new.ok = ok
      /\ IF runs # <<>> /\ last.ok = ok THEN new.count = last.count + 1 ELSE new.count = 1
  BY <1>1, <1>2, LastOfExtended
<1>4. PICK prev \in MonitorRow : /\ prev = Previous(row) /\ prev.status # "MAINTENANCE"
                                 /\ prev.failures = row.failures
                                 /\ prev.status = "DOWN" <=> row.status = "DOWN"
  BY <1>1, PreviousRow DEF Previous, Exists, MonitorRow, NoStatus
<1>5. /\ ok => row'.status = "UP" /\ row'.failures = 0
      /\ ~ok => /\ row'.failures = Saturated(row.failures + 1)
                /\ row'.status = IF \/ row.status = "DOWN"
                                    \/ Saturated(row.failures + 1) >= Threshold
                                 THEN "DOWN" ELSE "FAILING"
  BY <1>4, EvaluatedOutside
<1>6. runs # <<>> => last \in RunIn(Times)
  BY <1>1
<1>7. runs # <<>> => last.count \in Nat /\ last.count > 0 /\ last.ok \in BOOLEAN
  BY <1>6 DEF RunIn
<1>8. /\ runs = <<>> => row.failures = 0 /\ row.status # "DOWN"
      /\ runs # <<>> =>
              /\ row.failures = (IF last.ok THEN 0 ELSE Saturated(last.count))
              /\ row.status = (IF last.ok THEN "UP"
                               ELSE IF last.count >= Threshold THEN "DOWN" ELSE "FAILING")
  <2>1. /\ runs = <<>> => row = NoRow
        /\ runs # <<>> =>
              /\ row.failures = (IF last.ok THEN 0 ELSE Saturated(last.count))
              /\ row.status = (IF last.ok THEN "UP"
                               ELSE IF last.count >= Threshold THEN "DOWN" ELSE "FAILING")
    BY Zenon DEF RunsTellRow
  <2>2. NoRow.failures = 0 /\ NoRow.status # "DOWN"
    BY DEF NoRow, NoStatus
  <2> QED
    BY <2>1, <2>2, Zenon
<1> HIDE DEF runs, more, last, new
<1>9. /\ row'.failures = (IF new.ok THEN 0 ELSE Saturated(new.count))
      /\ row'.status = (IF new.ok THEN "UP"
                        ELSE IF new.count >= Threshold THEN "DOWN" ELSE "FAILING")
  <2>1. CASE ok
    BY <1>3, <1>5, <2>1
  <2>2. CASE ~ok /\ runs # <<>> /\ ~last.ok
    <3>1. new.count = last.count + 1 /\ ~new.ok
      BY <1>3, <1>7, <2>2
    <3>2. PICK c \in Nat : c = last.count
      BY <1>7, <2>2
    <3>3. /\ row.failures = Saturated(c)
          /\ row.status = (IF c >= Threshold THEN "DOWN" ELSE "FAILING")
      BY <1>8, <2>2, <3>2
    <3>4. row'.failures = Saturated(c + 1)
      BY <1>5, <2>2, <3>3, SaturatedTwice
    <3>5. Threshold \in Int
      BY HistoryAssumptions
    <3>6. row'.status = (IF c + 1 >= Threshold THEN "DOWN" ELSE "FAILING")
      <4>1. Saturated(row.failures + 1) = Saturated(c + 1)
        BY <3>3, SaturatedTwice
      <4>2. Saturated(c + 1) >= Threshold <=> c + 1 >= Threshold
        BY SaturatedTwice
      <4>3. row.status = "DOWN" => c + 1 >= Threshold
        BY <3>3, <3>5
      <4> QED
        BY <1>5, <2>2, <4>1, <4>2, <4>3
    <3> QED
      BY <3>1, <3>2, <3>4, <3>6
  <2>3. CASE ~ok /\ ~(runs # <<>> /\ ~last.ok)
    <3>1. new.count = 1 /\ ~new.ok
      BY <1>3, <1>7, <2>3
    <3>2. row.failures = 0 /\ row.status # "DOWN"
      BY <1>8, <2>3
    <3>3. row'.failures = 1 /\ row'.status = IF 1 >= Threshold THEN "DOWN" ELSE "FAILING"
      BY <1>5, <2>3, <3>2, SaturatedTwice
    <3>4. Saturated(1) = 1
      BY MaxFailuresAssumption DEF Saturated
    <3> QED
      BY <3>1, <3>3, <3>4
  <2> QED
    BY <1>7, <2>1, <2>2, <2>3
<1> QED
  BY <1>3, <1>9 DEF RunsTellRow, more, new

\* Statuses before the first probe.
LEMMA StatusInit ==
    ASSUME Init
    PROVE  StatusInv
<1>1. StatusIsKept /\ OpenIntervalTellsStatus
  BY DEF Init, NoRow, NoStatus, StatusIsKept, OpenIntervalTellsStatus,
         StatusOutsideMaintenance, Exists
<1>2. RunsTellRow
  BY RunsOfNone DEF Init, RunsTellRow
<1>3. DueIfMigrated
  <2>1. recording = ("upgrade" \notin scenario.events) /\ marked = recording
    BY Zenon DEF Init
  <2>2. windows = {} /\ row.status # "MAINTENANCE" /\ ~removed
    BY DEF Init, NoRow, NoStatus
  <2> QED
    BY <2>1, <2>2 DEF DueIfMigrated
<1> QED
  BY <1>1, <1>2, <1>3 DEF StatusInv

\* A probe writes the row and the interval together.
LEMMA StatusProbe ==
    ASSUME Base, StatusInv, scenario' = scenario, NEW ok \in BOOLEAN, Probe(ok)
    PROVE  StatusInv'
<1>1. PICK degraded \in BOOLEAN :
        SaveProbe(ok, KindOfProbe(ok, ObserverStatus, InMaintenance, degraded))
  BY DEF Probe
<1>2. PICK kind \in {"evaluate", "maintenance", "suppressed"} :
         SaveProbe(ok, kind) /\ (kind = "maintenance" => InMaintenance)
  <2>1. KindOfProbe(ok, ObserverStatus, InMaintenance, degraded)
          \in {"evaluate", "maintenance", "suppressed"}
        /\ (KindOfProbe(ok, ObserverStatus, InMaintenance, degraded) = "maintenance"
              => InMaintenance)
    BY DEF KindOfProbe
  <2> QED
    BY <1>1, <2>1
<1>3. /\ Times \in SUBSET Nat
      /\ now \in Times /\ now \in Nat
      /\ probes \in Seq(ProbeIn(Times)) /\ LastTime(probes) \in Nat
      /\ intervals \in Seq(IntervalIn(Times))
      /\ row \in MonitorRow
  BY BaseTypes
<1>4. PICK p \in ProbeIn(Times) : p = [at |-> now, ok |-> ok, kind |-> kind]
  BY <1>3 DEF ProbeIn
<1>5. /\ p.at = now /\ p.ok = ok /\ p.kind = kind /\ probes' = Append(probes, p)
      /\ Undisturbed' = Undisturbed
  BY <1>2, <1>4 DEF SaveProbe, Undisturbed
<1>6. /\ LastTime(probes) < now /\ now' = now /\ marked' = marked /\ recording' = recording
      /\ windows' = windows /\ removed' = removed
  BY DEF Probe
<1>7. ~marked /\ Undisturbed =>
         kind # "maintenance" /\ row.status # "MAINTENANCE" /\ windows = {}
  BY <1>2 DEF StatusInv, DueIfMigrated, InMaintenance
<1>8. CASE kind = "suppressed"
  <2>1. intervals' = intervals /\ row' = row
    BY <1>2, <1>8 DEF SaveProbe
  <2>2. UptimeRuns(probes') = UptimeRuns(probes)
    <3>1. UptimeRuns(probes') = ExtendRuns(UptimeRuns(probes), p)
      BY <1>3, <1>5, RunsOfOneMore
    <3> QED
      BY <1>5, <1>8, <3>1 DEF ExtendRuns
  <2>3. DueIfMigrated'
    BY <1>5, <1>6, <2>1 DEF StatusInv, DueIfMigrated
  <2>4. RunsTellRow' = RunsTellRow
    BY <2>1, <2>2 DEF RunsTellRow
  <2> QED
    BY <1>5, <1>6, <2>1, <2>3, <2>4 DEF StatusInv, StatusIsKept, OpenIntervalTellsStatus
<1>9. CASE kind = "maintenance"
  <2>1. intervals' = intervals /\ row' = MaintenanceState(Previous(row))
    BY <1>2, <1>9 DEF SaveProbe
  <2>2. StatusIsKept' /\ StatusOutsideMaintenance(row)' = StatusOutsideMaintenance(row)
    BY <1>3, <2>1, MaintenanceKeepsStatus DEF StatusInv
  <2>3. windows # {} /\ ("upgrade" \notin scenario.events \/ ~Undisturbed)
    BY <1>2, <1>9 DEF InMaintenance, StatusInv, DueIfMigrated
  <2>4. DueIfMigrated'
    BY <1>5, <1>6, <2>3 DEF StatusInv, DueIfMigrated
  <2> QED
    BY <1>5, <1>6, <1>7, <1>9, <2>1, <2>2, <2>4 DEF StatusInv, OpenIntervalTellsStatus
<1>10. CASE kind = "evaluate"
  <2> DEFINE next == Evaluated(Previous(row), ok, Threshold)
             status == next.status
  <2>1. /\ row' = next
        /\ recording => intervals' = SaveStatusInterval(intervals, status, now)
    BY <1>2, <1>10 DEF SaveProbe
  <2>2. status \in {"UP", "FAILING", "DOWN"}
    BY EvaluatedStatus
  <2>3. StatusOutsideMaintenance(row)' = status /\ StatusIsKept' /\ row'.status # "MAINTENANCE"
    <3>1. row'.status = status
      BY <2>1
    <3> QED
      BY <2>2, <3>1 DEF StatusOutsideMaintenance, StatusIsKept, Exists, NoStatus
  <2>4. DueIfMigrated'
    BY <1>5, <1>6, <2>3 DEF StatusInv, DueIfMigrated
  <2>5. Undisturbed /\ ~marked => RunsTellRow'
    BY <1>3, <1>5, <1>7, <1>10, <2>1, RunsTellNextRow DEF StatusInv
  <2>6. marked => OpenIntervalTellsStatus'
    <3> SUFFICES ASSUME marked PROVE OpenIntervalTellsStatus'
      OBVIOUS
    <3>1. intervals' = SaveStatusInterval(intervals, status, now)
      BY <2>1 DEF StatusInv, DueIfMigrated
    <3> HIDE DEF next, status
    <3>2. intervals # <<>> => intervals[Len(intervals)].start < now
      <4>1. intervals # <<>> => intervals[Len(intervals)] \in IntervalIn(Times)
        BY <1>3
      <4>2. intervals # <<>> => intervals[Len(intervals)].start \in Nat
        BY <1>3, <4>1 DEF IntervalIn
      <4>3. intervals # <<>> => intervals[Len(intervals)].start <= LastTime(probes)
        BY DEF Base, Chronological
      <4> QED
        BY <1>3, <1>6, <4>2, <4>3
    <3>3. intervals' # <<>> /\ intervals'[Len(intervals')].status = status
      BY <1>3, <2>2, <3>1, <3>2, SaveKeepsContiguous DEF Base, IntervalsContiguous
    <3> QED
      BY <2>3, <3>3 DEF OpenIntervalTellsStatus, Last
  <2>7. ~marked => OpenIntervalTellsStatus'
    BY <1>6 DEF OpenIntervalTellsStatus
  <2> QED
    BY <1>5, <1>6, <2>3, <2>4, <2>5, <2>6, <2>7 DEF StatusInv
<1> QED
  BY <1>8, <1>9, <1>10

\* The backfill says of the last run what the row says.
LEMMA StatusBackfill ==
    ASSUME Base, StatusInv, scenario' = scenario, Backfill
    PROVE  StatusInv'
<1>1. /\ intervals' = BackfilledIntervals(UptimeRuns(probes)) /\ marked' = TRUE /\ recording
      /\ ~marked
      /\ UNCHANGED <<now, row, probes, recording, windows, observerLog, removed>>
      /\ Undisturbed' = Undisturbed
  BY DEF Backfill, Undisturbed
<1>2. Undisturbed => OpenIntervalTellsStatus'
  <2> SUFFICES ASSUME Undisturbed, StatusOutsideMaintenance(row) # "UNKNOWN"
               PROVE  intervals' # <<>> /\ Last(intervals').status = StatusOutsideMaintenance(row)
    BY <1>1 DEF OpenIntervalTellsStatus
  <2> DEFINE runs == UptimeRuns(probes)
  <2>1. RunsTellRow
    BY <1>1 DEF StatusInv
  <2>2. runs # <<>>
    <3>1. StatusOutsideMaintenance(NoRow) = "UNKNOWN"
      BY DEF NoRow, StatusOutsideMaintenance, Exists, NoStatus
    <3>2. runs = <<>> => row = NoRow
      BY <2>1, Zenon DEF RunsTellRow
    <3> QED
      BY <3>1, <3>2, Zenon
  <2>3. /\ Times \in SUBSET Nat /\ LastTime(probes) \in Nat
        /\ runs \in Seq(RunIn(Times)) /\ RunsAreOrdered(runs, LastTime(probes))
    BY BaseTypes DEF Base, RunsInOrder
  <2>4. PICK n \in Nat : n = Len(runs) /\ n \in 1 .. n
    BY <2>2, <2>3
  <2>5. /\ Len(intervals') = n
        /\ intervals' \in Seq(IntervalIn(Times))
        /\ intervals'[n].status = IF runs[n].ok THEN "UP"
                                  ELSE IF runs[n].count >= Threshold THEN "DOWN" ELSE "FAILING"
    BY <1>1, <2>3, <2>4, BackfillIsContiguous
  <2>6. row.status = IF runs[n].ok THEN "UP"
                     ELSE IF runs[n].count >= Threshold THEN "DOWN" ELSE "FAILING"
    BY <2>1, <2>2, <2>4 DEF RunsTellRow
  <2>7. StatusOutsideMaintenance(row) = row.status
    BY <2>6 DEF StatusOutsideMaintenance, Exists, NoStatus
  <2>8. intervals' # <<>>
    BY <2>4, <2>5
  <2> QED
    BY <2>5, <2>6, <2>7, <2>8 DEF Last
<1>3. DueIfMigrated' /\ StatusIsKept'
  BY <1>1 DEF StatusInv, DueIfMigrated, StatusIsKept
<1> QED
  BY <1>1, <1>2, <1>3 DEF StatusInv

\* No other step changes the status of a monitor that stays.
LEMMA StatusNext ==
    ASSUME Base, StatusInv, [Next]_vars
    PROVE  StatusInv'
<1>1. scenario' = scenario /\ Undisturbed' = Undisturbed
  BY DEF Next, vars, Undisturbed
<1>2. ASSUME UNCHANGED <<row, probes, intervals, marked, windows, removed>>,
             recording' \in {recording, TRUE}
      PROVE  StatusInv'
  BY <1>1, <1>2
  DEF StatusInv, StatusIsKept, DueIfMigrated, RunsTellRow, OpenIntervalTellsStatus
<1>3. ASSUME UNCHANGED <<row, probes, intervals, marked, recording, removed>>,
             "maintenance" \in scenario.events \/ windows # {}
      PROVE  StatusInv'
  <2>1. "upgrade" \notin scenario.events \/ ~Undisturbed
    BY <1>3 DEF StatusInv, DueIfMigrated, Undisturbed
  <2> QED
    BY <1>1, <1>3, <2>1
    DEF StatusInv, StatusIsKept, DueIfMigrated, RunsTellRow, OpenIntervalTellsStatus
<1>4. CASE Tick
  BY <1>2, <1>4 DEF Tick
<1>5. CASE \E ok \in BOOLEAN : Probe(ok)
  BY <1>1, <1>5, StatusProbe
<1>6. CASE Backfill
  BY <1>1, <1>6, StatusBackfill
<1>7. CASE \E start \in 1 .. scenario.end, end \in 2 .. scenario.end + 1 : AddWindow(start, end)
  BY <1>3, <1>7 DEF AddWindow
<1>8. CASE \E w \in windows : CancelWindow(w)
  BY <1>3, <1>8 DEF CancelWindow
<1>9. CASE ObserverTransition
  BY <1>2, <1>9 DEF ObserverTransition
<1>10. CASE RemoveMonitor
  <2>1. /\ UNCHANGED <<now, probes, intervals, recording, marked, windows, observerLog>>
        /\ row' = NoRow /\ "removal" \in scenario.events
    BY <1>10 DEF RemoveMonitor
  <2>2. "upgrade" \notin scenario.events \/ ~Undisturbed
    BY <2>1 DEF Undisturbed
  <2>3. StatusOutsideMaintenance(row)' = "UNKNOWN" /\ StatusIsKept'
    BY <2>1 DEF StatusIsKept, StatusOutsideMaintenance, NoRow, Exists, NoStatus
  <2>4. OpenIntervalTellsStatus'
    BY <2>3 DEF OpenIntervalTellsStatus
  <2> QED
    BY <1>1, <2>1, <2>2, <2>3, <2>4 DEF StatusInv, DueIfMigrated
<1>11. CASE Upgrade
  BY <1>2, <1>11 DEF Upgrade
<1>12. CASE UNCHANGED vars
  BY <1>2, <1>12 DEF vars
<1> QED
  BY <1>4, <1>5, <1>6, <1>7, <1>8, <1>9, <1>10, <1>11, <1>12 DEF Next

\* What Base says of the intervals, n being the number of them.
Tiled(h, T, n) ==
    /\ T \in SUBSET (Nat \ {0}) /\ n \in Nat
    /\ h \in Seq(IntervalIn(T)) /\ Len(h) = n /\ DOMAIN h = 1 .. n
    /\ \A k \in 1 .. n : /\ h[k].start \in Nat /\ h[k].start > 0 /\ h[k].end \in Nat
                         /\ h[k].status \in {"UP", "FAILING", "DOWN"}
    /\ \A k \in 1 .. n - 1 : /\ h[k].start < h[k].end /\ h[k].end = h[k + 1].start
                             /\ h[k].status # h[k + 1].status
    /\ n > 0 => h[n].end = NoTime

\* Contiguity, in terms of every pair of intervals.
LEMMA ContiguousIsTiled ==
    ASSUME NEW T \in SUBSET (Nat \ {0}), NEW h \in Seq(IntervalIn(T)), Contiguous(h)
    PROVE  Tiled(h, T, Len(h))
<1>1. PICK n \in Nat : n = Len(h) /\ DOMAIN h = 1 .. n
  OBVIOUS
<1>2. ASSUME NEW k \in 1 .. n
      PROVE  /\ h[k].start \in Nat /\ h[k].start > 0 /\ h[k].end \in Nat
             /\ h[k].status \in {"UP", "FAILING", "DOWN"}
  <2>1. h[k] \in IntervalIn(T)
    BY <1>1
  <2>2. h[k].start \in T /\ h[k].end \in T \cup {0} /\ h[k].status \in {"UP", "FAILING", "DOWN"}
    BY <2>1 DEF IntervalIn, NoTime
  <2>3. \A x \in T : x \in Nat /\ x > 0
    OBVIOUS
  <2>4. h[k].start \in Nat /\ h[k].start > 0
    BY <2>2, <2>3
  <2>5. h[k].end \in Nat
    <3>1. PICK e : e = h[k].end
      OBVIOUS
    <3>2. CASE e \in T
      BY <2>3, <3>1, <3>2, Zenon
    <3>3. CASE e = 0
      <4>1. e \in Nat
        BY <3>3
      <4> QED
        BY <3>1, <4>1, Zenon
    <3> QED
      BY <2>2, <3>1, <3>2, <3>3, Zenon
  <2> QED
    BY <2>2, <2>4, <2>5
<1>3. ASSUME NEW k \in 1 .. n - 1
      PROVE  /\ h[k].start < h[k].end /\ h[k].end = h[k + 1].start
             /\ h[k].status # h[k + 1].status
  <2>1. k \in DOMAIN h /\ k # Len(h)
    BY <1>1
  <2> QED
    BY <2>1, Zenon DEF Contiguous
<1>4. n > 0 => h[n].end = NoTime
  <2>1. n > 0 => n \in DOMAIN h
    BY <1>1
  <2> QED
    BY <1>1, <2>1, Zenon DEF Contiguous
<1> QED
  BY <1>1, <1>2, <1>3, <1>4 DEF Tiled

\* Intervals follow one another without overlap.
LEMMA TiledInOrder ==
    ASSUME NEW T, NEW h, NEW n \in Nat, Tiled(h, T, n), NEW i \in 1 .. n, NEW j \in 1 .. n, i < j
    PROVE  h[i].start < h[i].end /\ h[i].end <= h[j].start
<1>1. i \in 1 .. n - 1 /\ i \in Nat /\ j \in Nat
  OBVIOUS
<1>2. h[i].start < h[i].end /\ h[i].end = h[i + 1].start /\ h[i].end \in Nat
  BY <1>1 DEF Tiled
<1> DEFINE good == {d \in 0 .. n - i - 1 : h[i].end <= h[i + 1 + d].start}
<1>3. 0 \in good
  <2>1. 0 \in 0 .. n - i - 1 /\ i + 1 + 0 = i + 1
    BY <1>1
  <2>2. h[i].end <= h[i + 1].start
    BY <1>2
  <2> QED
    BY <2>1, <2>2
<1>4. ASSUME NEW d \in 0 .. n - i - 1 - 1, d \in good PROVE d + 1 \in good
  <2>1. PICK m \in 1 .. n - 1 : m = i + 1 + d /\ m + 1 = i + 1 + (d + 1)
    BY <1>1
  <2>2. d + 1 \in 0 .. n - i - 1 /\ h[i].end <= h[m].start
    BY <1>1, <1>4, <2>1
  <2>3. h[m].start < h[m].end /\ h[m].end = h[m + 1].start
    BY DEF Tiled
  <2>4. h[m].start \in Nat /\ h[m + 1].start \in Nat
    BY DEF Tiled
  <2>5. h[i].end <= h[m + 1].start
    BY <1>2, <2>2, <2>3, <2>4
  <2> QED
    BY <2>1, <2>2, <2>5
<1> HIDE DEF good
<1>5. n - i - 1 \in Nat /\ j - i - 1 \in 0 .. n - i - 1 /\ i + 1 + (j - i - 1) = j
  BY <1>1
<1>6. 0 .. n - i - 1 \subseteq good
  BY <1>3, <1>4, <1>5, Counting
<1>7. j - i - 1 \in good
  BY <1>5, <1>6
<1>8. h[i].end <= h[i + 1 + (j - i - 1)].start
  BY <1>7 DEF good
<1> QED
  BY <1>2, <1>5, <1>8

\* The interval with number k covers time t.
CoversTime(h, k, t) == h[k].start <= t /\ (k = Len(h) \/ t < h[k].end)

\* No other interval does.
LEMMA OneCovers ==
    ASSUME NEW T, NEW h, NEW n \in Nat, Tiled(h, T, n),
           NEW i \in 1 .. n, NEW j \in 1 .. n, NEW t \in Nat,
           CoversTime(h, i, t), CoversTime(h, j, t)
    PROVE  i = j
<1>1. ASSUME NEW a \in 1 .. n, NEW b \in 1 .. n, a < b, CoversTime(h, a, t), CoversTime(h, b, t)
      PROVE  FALSE
  <2>1. h[a].end <= h[b].start
    BY <1>1, TiledInOrder
  <2>2. h[b].start <= t /\ t < h[a].end
    BY <1>1 DEF CoversTime, Tiled
  <2>3. h[a].end \in Nat /\ h[b].start \in Nat
    BY DEF Tiled
  <2> QED
    BY <2>1, <2>2, <2>3
<1> QED
  BY <1>1

\* Every moment since the first interval is covered.
LEMMA SomeCovers ==
    ASSUME NEW T, NEW h, NEW n \in Nat, Tiled(h, T, n), NEW t \in Nat, n > 0, h[1].start <= t
    PROVE  \E k \in 1 .. n : CoversTime(h, k, t)
<1> DEFINE begun == {k \in 1 .. n : h[k].start <= t}
<1>1. begun \in SUBSET (1 .. n) /\ begun # {}
  OBVIOUS
<1>2. PICK k : k = Max(begun)
  OBVIOUS
<1>3. k \in begun /\ \A x \in begun : x <= k
  <2> HIDE DEF begun
  <2> QED
    BY <1>1, <1>2, MaxOfPlaces
<1>4. k \in 1 .. n /\ h[k].start <= t
  BY <1>3
<1>5. k # n => t < h[k].end
  <2> SUFFICES ASSUME k # n PROVE t < h[k].end
    OBVIOUS
  <2>1. k \in 1 .. n - 1 /\ k + 1 \in 1 .. n /\ ~(k + 1 <= k)
    BY <1>4
  <2>2. ~(h[k + 1].start <= t)
    BY <1>3, <2>1
  <2>3. h[k].end = h[k + 1].start /\ h[k + 1].start \in Nat
    BY <2>1 DEF Tiled
  <2> QED
    BY <2>2, <2>3
<1> QED
  BY <1>4, <1>5 DEF CoversTime, Tiled

\* IntervalAt finds the interval that covers a time.
LEMMA IntervalAtIs ==
    ASSUME NEW T, NEW n \in Nat, Tiled(intervals, T, n), NEW k \in 1 .. n, NEW t \in Nat,
           CoversTime(intervals, k, t)
    PROVE  IntervalAt(t) = intervals[k]
<1> DEFINE At(i) == i.start <= t /\ (i.end = NoTime \/ t < i.end)
<1>1. \A m \in 1 .. n : At(intervals[m]) <=> CoversTime(intervals, m, t)
  <2> TAKE m \in 1 .. n
  <2>1. m = n => intervals[m].end = NoTime
    BY DEF Tiled
  <2>2. m # n => intervals[m].end # NoTime
    <3>1. m # n => m \in 1 .. n - 1
      OBVIOUS
    <3>2. m # n => intervals[m].start < intervals[m].end /\ intervals[m].start \in Nat
      BY <3>1 DEF Tiled
    <3> QED
      BY <3>2 DEF NoTime
  <2>3. Len(intervals) = n
    BY DEF Tiled
  <2> QED
    BY <2>1, <2>2, <2>3 DEF CoversTime
<1>2. Range(intervals) = {intervals[m] : m \in 1 .. n}
  BY DEF Range, Tiled
<1>3. intervals[k] \in Range(intervals) /\ At(intervals[k])
  BY <1>1, <1>2
<1>4. IntervalAt(t) \in Range(intervals) /\ At(IntervalAt(t))
  <2>1. IntervalAt(t) = CHOOSE i \in Range(intervals) : At(i)
    BY DEF IntervalAt
  <2> HIDE DEF At
  <2> QED
    BY <1>3, <2>1, Zenon
<1>5. PICK m \in 1 .. n : IntervalAt(t) = intervals[m]
  BY <1>2, <1>4
<1>6. CoversTime(intervals, m, t)
  BY <1>1, <1>4, <1>5
<1>7. m = k
  BY <1>6, OneCovers
<1> QED
  BY <1>5, <1>7

\* The same of the intervals that are recorded.
LEMMA BaseIsTiled ==
    ASSUME Base
    PROVE  /\ Tiled(intervals, Times, Len(intervals))
           /\ Len(intervals) \in Nat
           /\ intervals # <<>> => intervals[Len(intervals)].start <= now
           /\ now \in Nat
<1>1. Times \in SUBSET (Nat \ {0})
  BY TimesAreNumbers DEF Base
<1>2. /\ intervals \in Seq(IntervalIn(Times)) /\ now \in Nat /\ LastTime(probes) \in Nat
      /\ Contiguous(intervals)
  BY BaseTypes DEF Base, IntervalsContiguous
<1>3. Tiled(intervals, Times, Len(intervals)) /\ Len(intervals) \in Nat
  BY <1>1, <1>2, ContiguousIsTiled
<1>4. intervals # <<>> => intervals[Len(intervals)].start \in Nat
  BY <1>2, <1>3 DEF Tiled
<1>5. intervals # <<>> => intervals[Len(intervals)].start <= LastTime(probes)
      /\ LastTime(probes) <= now
  BY DEF Base, Chronological
<1> QED
  BY <1>2, <1>3, <1>4, <1>5

\* The streaks of a history that ends in an open UP interval.
LEMMA StreaksOf ==
    ASSUME NEW T, NEW h, NEW n \in Nat, Tiled(h, T, n), NEW bound \in Nat,
           n > 0 => h[n].start <= bound
    PROVE  /\ n = 0 \/ h[n].status # "UP" =>
                 StreakStarts(h) = [failureFree |-> NoTime, downtimeFree |-> NoTime]
           /\ n > 0 /\ h[n].status = "UP" =>
                 /\ StreakStarts(h).failureFree = h[n].start
                 /\ StreakStarts(h).downtimeFree \in Nat
                 /\ \A k \in 1 .. n - 1 :
                       h[k].status = "DOWN" => h[k].end <= StreakStarts(h).downtimeFree
                 /\ \/ /\ \A k \in 1 .. n : h[k].status # "DOWN"
                       /\ StreakStarts(h).downtimeFree <= h[1].start
                    \/ \E k \in 1 .. n - 1 : /\ h[k].status = "DOWN"
                                             /\ h[k].end = StreakStarts(h).downtimeFree
<1> DEFINE openUp == {i \in Range(h) : i.status = "UP" /\ i.end = NoTime}
           downs == {j \in Range(h) : j.status = "DOWN" /\ j.end # NoTime}
           ended == {i.end : i \in downs}
           starts == {i.start : i \in Range(h)}
           tops == {i.start : i \in openUp}
<1>1. Range(h) = {h[k] : k \in 1 .. n}
  BY DEF Range, Tiled
<1>2. \A k \in 1 .. n : h[k].end = NoTime <=> k = n
  <2> TAKE k \in 1 .. n
  <2>1. k = n => h[k].end = NoTime
    BY DEF Tiled
  <2>2. k # n => k \in 1 .. n - 1
    OBVIOUS
  <2>3. k # n => h[k].start < h[k].end /\ h[k].start \in Nat
    BY <2>2 DEF Tiled
  <2> QED
    BY <2>1, <2>3 DEF NoTime
<1>3. n = 0 \/ h[n].status # "UP" => openUp = {}
  BY <1>1, <1>2
<1>4. StreakStarts(h) = IF openUp = {} THEN [failureFree |-> NoTime, downtimeFree |-> NoTime]
                        ELSE [failureFree |-> Max(tops),
                              downtimeFree |-> IF ended # {} THEN Max(ended) ELSE Min(starts)]
  BY Zenon DEF StreakStarts
<1> HIDE DEF openUp, ended, starts, tops
<1>5. ASSUME n > 0, h[n].status = "UP"
      PROVE  /\ openUp # {}
             /\ Max(tops) = h[n].start
             /\ ended # {} => /\ Max(ended) \in Nat
                              /\ \A k \in 1 .. n - 1 :
                                    h[k].status = "DOWN" => h[k].end <= Max(ended)
                              /\ \E k \in 1 .. n - 1 : /\ h[k].status = "DOWN"
                                                       /\ h[k].end = Max(ended)
             /\ ended = {} => /\ Min(starts) \in Nat
                              /\ \A k \in 1 .. n : h[k].status # "DOWN"
                              /\ Min(starts) <= h[1].start
  <2>1. n \in 1 .. n /\ 1 \in 1 .. n
    BY <1>5
  <2>2. openUp = {h[n]}
    BY <1>1, <1>2, <1>5, <2>1 DEF openUp
  <2>3. tops = {h[n].start} /\ h[n].start \in Nat /\ h[1].start \in Nat
    BY <2>1, <2>2 DEF Tiled, tops
  <2>4. Max(tops) = h[n].start
    <3>1. tops \in SUBSET Nat /\ tops # {} /\ \A x \in tops : x <= h[n].start
      BY <2>3
    <3>2. Max(tops) \in tops
      BY <2>3, <3>1, MaxOf
    <3> QED
      BY <2>3, <3>2
  <2>5. /\ \A x \in ended : \E k \in 1 .. n - 1 : h[k].status = "DOWN" /\ h[k].end = x
        /\ \A k \in 1 .. n - 1 : h[k].status = "DOWN" => h[k].end \in ended
    <3>1. ASSUME NEW x \in ended
          PROVE  \E k \in 1 .. n - 1 : h[k].status = "DOWN" /\ h[k].end = x
      <4>1. PICK k \in 1 .. n : h[k].status = "DOWN" /\ h[k].end = x /\ h[k].end # NoTime
        BY <1>1 DEF ended
      <4>2. k \in 1 .. n - 1
        BY <1>2, <4>1
      <4> QED
        BY <4>1, <4>2
    <3>2. ASSUME NEW k \in 1 .. n - 1, h[k].status = "DOWN" PROVE h[k].end \in ended
      <4>1. k \in 1 .. n /\ k # n
        OBVIOUS
      <4>2. h[k] \in downs
        BY <1>1, <1>2, <3>2, <4>1
      <4> QED
        BY <4>2 DEF ended
    <3> QED
      BY <3>1, <3>2
  <2>6. \A x \in ended : x \in Nat /\ x <= bound
    <3> TAKE x \in ended
    <3>1. PICK k \in 1 .. n - 1 : h[k].end = x
      BY <2>5
    <3>2. k \in 1 .. n /\ k < n
      OBVIOUS
    <3>3. h[k].end <= h[n].start /\ h[k].end \in Nat
      BY <2>1, <3>2, TiledInOrder DEF Tiled
    <3> QED
      BY <1>5, <2>3, <3>1, <3>3
  <2>7. starts \in SUBSET Nat /\ h[1].start \in starts
    BY <1>1, <2>1 DEF Tiled, starts
  <2>8. ended # {} => Max(ended) \in ended /\ \A x \in ended : x <= Max(ended)
    <3>1. ended \in SUBSET Nat
      BY <2>6
    <3> QED
      BY <2>6, <3>1, MaxOf
  <2>9. Min(starts) \in starts /\ \A x \in starts : Min(starts) <= x
    BY <2>7, MinOf
  <2>10. ended = {} => \A k \in 1 .. n : h[k].status # "DOWN"
    <3> SUFFICES ASSUME ended = {}, NEW k \in 1 .. n, h[k].status = "DOWN" PROVE FALSE
      OBVIOUS
    <3>1. k \in 1 .. n - 1
      BY <1>5
    <3> QED
      BY <2>5, <3>1
  <2>11. Min(starts) \in Nat /\ Min(starts) <= h[1].start
    BY <2>7, <2>9
  <2>12. ended # {} =>
           /\ Max(ended) \in Nat
           /\ \A k \in 1 .. n - 1 : h[k].status = "DOWN" => h[k].end <= Max(ended)
           /\ \E k \in 1 .. n - 1 : h[k].status = "DOWN" /\ h[k].end = Max(ended)
    BY <2>5, <2>6, <2>8
  <2>13. openUp # {}
    BY <2>2
  <2>14. ended = {} =>
           /\ Min(starts) \in Nat
           /\ \A k \in 1 .. n : h[k].status # "DOWN"
           /\ Min(starts) <= h[1].start
    BY <2>10, <2>11, Zenon
  <2> QED
    BY <2>4, <2>12, <2>13, <2>14, Zenon
<1>6. ASSUME n > 0, h[n].status = "UP"
      PROVE  /\ StreakStarts(h).failureFree = Max(tops)
             /\ StreakStarts(h).downtimeFree = IF ended # {} THEN Max(ended) ELSE Min(starts)
  BY <1>4, <1>5, <1>6
<1>7. CASE n = 0 \/ h[n].status # "UP"
  BY <1>3, <1>4, <1>7
<1>8. CASE n > 0 /\ h[n].status = "UP"
  <2>1. CASE ended # {}
    BY <1>5, <1>6, <1>8, <2>1
  <2>2. CASE ended = {}
    <3>1. /\ StreakStarts(h).failureFree = h[n].start
          /\ StreakStarts(h).downtimeFree = Min(starts)
      BY <1>5, <1>6, <1>8, <2>2
    <3>2. \A k \in 1 .. n - 1 : h[k].status # "DOWN"
      <4>1. \A k \in 1 .. n - 1 : k \in 1 .. n
        OBVIOUS
      <4> QED
        BY <1>5, <1>8, <2>2, <4>1
    <3> QED
      BY <1>5, <1>8, <2>2, <3>1, <3>2
  <2> QED
    BY <2>1, <2>2
<1> QED
  BY <1>7, <1>8

\* The streaks fit the intervals: StreaksAreTrue, but for the stored status.
StreaksFit ==
    LET streak == StreakStarts(intervals)
    IN  /\ streak.failureFree # NoTime =>
              /\ \A t \in Recorded : t >= streak.failureFree <=> \A u \in t .. now - 1 :
                    IntervalAt(u).status = "UP"
              /\ \A t \in Recorded : t >= streak.downtimeFree <=> \A u \in t .. now - 1 :
                    IntervalAt(u).status # "DOWN"
        /\ streak.failureFree = NoTime <=>
              (intervals = <<>> \/ Last(intervals).status # "UP")

\* The reported streaks begin where they say.
LEMMA StreaksHold ==
    ASSUME Base
    PROVE  StreaksFit
<1> DEFINE streak == StreakStarts(intervals)
<1>0. PICK n \in Nat : \E T : /\ n = Len(intervals) /\ Tiled(intervals, T, n)
                              /\ n > 0 => intervals[n].start <= now
                              /\ intervals = <<>> <=> n = 0
  <2>1. Len(intervals) \in Nat /\ Tiled(intervals, Times, Len(intervals))
    BY BaseIsTiled
  <2>2. intervals = <<>> <=> Len(intervals) = 0
    BY <2>1 DEF Tiled
  <2>3. Len(intervals) > 0 => intervals[Len(intervals)].start <= now
    BY <2>2, BaseIsTiled
  <2> QED
    BY <2>1, <2>2, <2>3
<1>1. PICK T : /\ n = Len(intervals) /\ Tiled(intervals, T, n)
               /\ n > 0 => intervals[n].start <= now
               /\ intervals = <<>> <=> n = 0
  BY <1>0
<1>2. now \in Nat
  BY BaseIsTiled
<1>3. n > 0 => Last(intervals) = intervals[n] /\ Head(intervals) = intervals[1]
  <2>1. intervals \in Seq(IntervalIn(T))
    BY <1>1 DEF Tiled
  <2> QED
    BY <1>1, <2>1 DEF Last
<1>4. CASE n = 0 \/ intervals[n].status # "UP"
  <2>1. streak.failureFree = NoTime
    BY <1>1, <1>2, <1>4, StreaksOf
  <2> QED
    BY <1>1, <1>3, <1>4, <2>1 DEF StreaksFit
<1>5. CASE n > 0 /\ intervals[n].status = "UP"
  <2>1. /\ streak.failureFree = intervals[n].start
        /\ streak.downtimeFree \in Nat
        /\ \A k \in 1 .. n - 1 :
              intervals[k].status = "DOWN" => intervals[k].end <= streak.downtimeFree
        /\ \/ /\ \A k \in 1 .. n : intervals[k].status # "DOWN"
              /\ streak.downtimeFree <= intervals[1].start
           \/ \E k \in 1 .. n - 1 : /\ intervals[k].status = "DOWN"
                                    /\ intervals[k].end = streak.downtimeFree
    BY <1>1, <1>2, <1>5, StreaksOf
  <2> HIDE DEF streak
  <2>2. /\ n \in 1 .. n /\ 1 \in 1 .. n /\ intervals[n].start \in Nat
        /\ intervals[n].start > 0 /\ intervals[1].start \in Nat
    BY <1>1, <1>5 DEF Tiled
  <2>3. Recorded = intervals[1].start .. now - 1
    BY <1>1, <1>3, <1>5 DEF Recorded
  <2>4. \A t \in Recorded : t \in Nat /\ intervals[1].start <= t /\ t < now
    BY <1>2, <2>2, <2>3
  <2>5. ASSUME NEW t \in Recorded
        PROVE  t >= streak.failureFree <=> \A u \in t .. now - 1 : IntervalAt(u).status = "UP"
    <3>1. CASE t >= streak.failureFree
      <4>1. ASSUME NEW u \in t .. now - 1 PROVE IntervalAt(u).status = "UP"
        <5>1. u \in Nat /\ intervals[n].start <= u
          BY <2>1, <2>2, <2>4, <3>1
        <5>2. CoversTime(intervals, n, u)
          BY <1>1, <5>1 DEF CoversTime
        <5> QED
          BY <1>1, <1>5, <2>2, <5>1, <5>2, IntervalAtIs
      <4> QED
        BY <3>1, <4>1
    <3>2. CASE ~(t >= streak.failureFree)
      <4>1. t < intervals[n].start
        BY <2>1, <2>2, <2>4, <3>2
      <4>2. PICK u \in Nat : u + 1 = intervals[n].start /\ u \in t .. now - 1
        <5>1. intervals[n].start - 1 \in t .. now - 1 /\ intervals[n].start - 1 \in Nat
          BY <1>1, <1>2, <1>5, <2>2, <2>4, <4>1
        <5> QED
          BY <2>2, <5>1
      <4>3. n # 1
        BY <2>2, <2>4, <4>1
      <4>4. PICK k \in 1 .. n - 1 : k + 1 = n
        BY <2>2, <4>3
      <4>5. /\ intervals[k].start < intervals[k].end
            /\ intervals[k].end = intervals[n].start
            /\ intervals[k].status # intervals[n].status
            /\ intervals[k].start \in Nat
        BY <1>1, <4>4 DEF Tiled
      <4>6. intervals[k].start <= u /\ u < intervals[k].end /\ k \in 1 .. n
        BY <2>2, <4>2, <4>4, <4>5
      <4>7. IntervalAt(u) = intervals[k]
        BY <1>1, <4>6, IntervalAtIs DEF CoversTime
      <4> QED
        BY <1>5, <3>2, <4>2, <4>5, <4>7
    <3> QED
      BY <3>1, <3>2
  <2>6. ASSUME NEW t \in Recorded
        PROVE  t >= streak.downtimeFree <=>
                  \A u \in t .. now - 1 : IntervalAt(u).status # "DOWN"
    <3>1. CASE t >= streak.downtimeFree
      <4>1. ASSUME NEW u \in t .. now - 1, IntervalAt(u).status = "DOWN" PROVE FALSE
        <5>1. u \in Nat /\ intervals[1].start <= u /\ streak.downtimeFree <= u
          BY <2>1, <2>2, <2>4, <3>1
        <5>2. PICK k \in 1 .. n : CoversTime(intervals, k, u)
          BY <1>1, <1>5, <5>1, SomeCovers
        <5>3. IntervalAt(u) = intervals[k]
          BY <1>1, <5>1, <5>2, IntervalAtIs
        <5>4. k # n
          BY <1>5, <4>1, <5>3
        <5>5. k \in 1 .. n - 1
          BY <5>4
        <5>6. intervals[k].end <= streak.downtimeFree /\ u < intervals[k].end
          BY <1>1, <2>1, <4>1, <5>2, <5>3, <5>4, <5>5 DEF CoversTime
        <5>7. intervals[k].end \in Nat
          BY <1>1 DEF Tiled
        <5> QED
          BY <2>1, <5>1, <5>6, <5>7
      <4> QED
        BY <3>1, <4>1
    <3>2. CASE ~(t >= streak.downtimeFree)
      <4>1. t < streak.downtimeFree /\ ~(streak.downtimeFree <= intervals[1].start)
        BY <2>1, <2>2, <2>4, <3>2
      <4>2. PICK k \in 1 .. n - 1 : /\ intervals[k].status = "DOWN"
                                    /\ intervals[k].end = streak.downtimeFree
        BY <2>1, <4>1
      <4>3. k \in 1 .. n /\ k < n
        OBVIOUS
      <4>4. /\ intervals[k].start < intervals[k].end /\ intervals[k].end <= intervals[n].start
            /\ intervals[k].start \in Nat /\ intervals[k].end \in Nat
        BY <1>1, <2>2, <4>3, TiledInOrder DEF Tiled
      <4>5. PICK u \in Nat : u + 1 = intervals[k].end /\ u \in t .. now - 1
        <5>1. intervals[k].end - 1 \in Nat
          BY <4>4
        <5>2. intervals[k].end - 1 \in t .. now - 1
          BY <1>1, <1>2, <1>5, <2>2, <2>4, <4>1, <4>2, <4>4
        <5> QED
          BY <4>4, <5>1, <5>2
      <4>6. intervals[k].start <= u /\ u < intervals[k].end
        BY <4>4, <4>5
      <4>7. IntervalAt(u) = intervals[k]
        BY <1>1, <4>3, <4>6, IntervalAtIs DEF CoversTime
      <4> QED
        BY <3>2, <4>2, <4>5, <4>7
    <3> QED
      BY <3>1, <3>2
  <2>7. streak.failureFree # NoTime
    BY <2>1, <2>2 DEF NoTime
  <2> QED
    BY <1>1, <1>3, <1>5, <2>5, <2>6, <2>7 DEF StreaksFit, streak
<1> QED
  BY <1>4, <1>5

\* A probe that decides.
DecidingIn(T) == [at : T, ok : BOOLEAN, kind : {"evaluate", "maintenance"}]

\* One probe more leaves probes that decide.
LEMMA AddDecidingType ==
    ASSUME NEW T, NEW past \in Seq(DecidingIn(T)), NEW p \in ProbeIn(T)
    PROVE  AddDeciding(past, p) \in Seq(DecidingIn(T))
<1>1. CASE p.kind = "suppressed"
  BY <1>1 DEF AddDeciding
<1>2. CASE p.kind # "suppressed"
  <2>1. p \in DecidingIn(T)
    BY <1>2 DEF ProbeIn, DecidingIn
  <2> QED
    BY <1>2, <2>1 DEF AddDeciding
<1> QED
  BY <1>1, <1>2

\* What DecidingAmong computes, probe by probe.
LEMMA DecidingFold ==
    ASSUME NEW T, NEW seq \in Seq(ProbeIn(T))
    PROVE  \E f : /\ f[1 .. 0] = <<>>
                  /\ DecidingAmong(seq) = f[1 .. Len(seq)]
                  /\ \A k \in 1 .. Len(seq) :
                        f[1 .. k] = AddDeciding(f[1 .. k - 1], seq[k])
<1>1. PICK n \in Nat : n = Len(seq) /\ DOMAIN seq = 1 .. n /\ \A k \in 1 .. n : seq[k] \in ProbeIn(T)
  OBVIOUS
<1> DEFINE R == Seq(DecidingIn(T))
           P == ProbeIn(T)
           step == [p \in R \X P |-> AddDeciding(p[1], p[2])]
           Folds(h) == \A s \in SUBSET (1 .. n) :
                   h[s] = IF s = {} THEN <<>> ELSE AddDeciding(h[s \ {Max(s)}], seq[Max(s)])
           f == CHOOSE h : h = [s \in SUBSET DOMAIN seq |->
                   IF s = {} THEN <<>> ELSE AddDeciding(h[s \ {Max(s)}], seq[Max(s)])]
<1>2. DecidingAmong(seq) = f[1 .. n]
  BY <1>1 DEF DecidingAmong, FoldLeft, MapThenFoldSet
<1>3. \E h \in [SUBSET (1 .. n) -> R] : Folds(h)
  <2>1. \A a \in R, b \in P : step[<<a, b>>] = AddDeciding(a, b)
    OBVIOUS
  <2>2. IsStep(step, R, P)
    BY <2>1, AddDecidingType DEF IsStep
  <2>3. <<>> \in R
    OBVIOUS
  <2>4. ElementsIn(seq, n, P)
    BY <1>1 DEF ElementsIn
  <2> HIDE DEF step, R, P
  <2>5. \E h \in [SUBSET (1 .. n) -> R] : IsFold(h, step, <<>>, seq, n)
    <3>1. PICK none \in R : none = <<>>
      BY <2>3
    <3>2. \E h \in [SUBSET (1 .. n) -> R] : IsFold(h, step, none, seq, n)
      BY <2>2, <2>4, FoldExists, Zenon
    <3> QED
      BY <3>1, <3>2
  <2>6. PICK h \in [SUBSET (1 .. n) -> R] : IsFold(h, step, <<>>, seq, n)
    BY <2>5
  <2>7. ASSUME NEW s \in SUBSET (1 .. n), s # {}
        PROVE  h[s] = AddDeciding(h[s \ {Max(s)}], seq[Max(s)])
    <3>1. Max(s) \in s
      BY <1>1, <2>7, MaxOfPlaces
    <3>2. h[s \ {Max(s)}] \in R /\ seq[Max(s)] \in P
      BY <2>4, <3>1 DEF ElementsIn
    <3>3. h[s] = step[<<h[s \ {Max(s)}], seq[Max(s)]>>]
      BY <2>6, <2>7 DEF IsFold
    <3> QED
      BY <2>1, <3>2, <3>3
  <2>8. h[{}] = <<>>
    BY <2>6 DEF IsFold
  <2> QED
    BY <2>6, <2>7, <2>8
<1>4. Folds(f)
  <2>1. PICK h \in [SUBSET (1 .. n) -> R] : Folds(h)
    BY <1>3
  <2>2. h = [s \in SUBSET DOMAIN seq |->
              IF s = {} THEN <<>> ELSE AddDeciding(h[s \ {Max(s)}], seq[Max(s)])]
    BY <1>1, <2>1
  <2>3. f = [s \in SUBSET DOMAIN seq |->
              IF s = {} THEN <<>> ELSE AddDeciding(f[s \ {Max(s)}], seq[Max(s)])]
    BY <2>2, Zenon
  <2> HIDE DEF f
  <2> QED
    BY <1>1, <2>3
<1> HIDE DEF f
<1>5. f[1 .. 0] = <<>>
  <2>1. 1 .. 0 = {} /\ {} \in SUBSET (1 .. n)
    OBVIOUS
  <2> QED
    BY <1>4, <2>1
<1>6. ASSUME NEW k \in 1 .. n PROVE f[1 .. k] = AddDeciding(f[1 .. k - 1], seq[k])
  <2>1. /\ 1 .. k \in SUBSET (1 .. n) /\ 1 .. k # {}
        /\ Max(1 .. k) = k /\ (1 .. k) \ {k} = 1 .. k - 1
    BY <1>1, Prefix
  <2> QED
    BY <1>4, <2>1
<1> QED
  BY <1>1, <1>2, <1>5, <1>6

\* Among no probes none decides, and one probe more is added if it does.
LEMMA DecidingOfNone == DecidingAmong(<<>>) = <<>>
<1>1. <<>> \in Seq(ProbeIn({})) /\ Len(<<>>) = 0
  OBVIOUS
<1>2. PICK f : f[1 .. 0] = <<>> /\ DecidingAmong(<<>>) = f[1 .. Len(<<>>)]
  BY <1>1, DecidingFold
<1> QED
  BY <1>1, <1>2

\* One probe more is added to the deciding ones, or passed over.
LEMMA DecidingOfOneMore ==
    ASSUME NEW T, NEW seq \in Seq(ProbeIn(T)), NEW p \in ProbeIn(T)
    PROVE  DecidingAmong(Append(seq, p)) = AddDeciding(DecidingAmong(seq), p)
<1> DEFINE longer == Append(seq, p)
<1>1. PICK n \in Nat : /\ n = Len(seq) /\ Len(longer) = n + 1 /\ longer[n + 1] = p
                       /\ \A k \in 1 .. n : longer[k] = seq[k]
                       /\ longer \in Seq(ProbeIn(T))
  OBVIOUS
<1> HIDE DEF longer
<1>2. PICK f : /\ f[1 .. 0] = <<>>
               /\ DecidingAmong(seq) = f[1 .. n]
               /\ \A k \in 1 .. n : f[1 .. k] = AddDeciding(f[1 .. k - 1], seq[k])
  BY <1>1, DecidingFold
<1>3. PICK g : /\ g[1 .. 0] = <<>>
               /\ DecidingAmong(longer) = g[1 .. n + 1]
               /\ \A k \in 1 .. n + 1 : g[1 .. k] = AddDeciding(g[1 .. k - 1], longer[k])
  <2>1. longer \in Seq(ProbeIn(T)) /\ Len(longer) = n + 1
    BY <1>1
  <2>2. PICK g : /\ g[1 .. 0] = <<>>
               /\ DecidingAmong(longer) = g[1 .. Len(longer)]
               /\ \A k \in 1 .. Len(longer) : g[1 .. k] = AddDeciding(g[1 .. k - 1], longer[k])
    BY <2>1, DecidingFold, Zenon
  <2> QED
    BY <2>1, <2>2
<1>4. StepTogether(f, g, n)
  <2>1. ASSUME NEW k \in 1 .. n, f[1 .. k - 1] = g[1 .. k - 1]
        PROVE  f[1 .. k] = g[1 .. k]
    <3>1. k \in 1 .. n + 1 /\ longer[k] = seq[k]
      BY <1>1
    <3> QED
      BY <2>1, <3>1, <1>2, <1>3
  <2> QED
    BY <2>1, <1>2, <1>3 DEF StepTogether
<1>5. f[1 .. n] = g[1 .. n]
  BY <1>4, FoldsAgree, Zenon
<1>6. DecidingAmong(longer) = AddDeciding(g[1 .. n], p)
  <2>1. n + 1 \in 1 .. n + 1 /\ n + 1 - 1 = n
    OBVIOUS
  <2>2. g[1 .. n + 1] = AddDeciding(g[1 .. n + 1 - 1], longer[n + 1])
    BY <1>3, <2>1
  <2> QED
    BY <1>1, <1>3, <2>1, <2>2
<1> QED
  BY <1>2, <1>5, <1>6 DEF longer

\* The m deciding probes up to the one numbered n failed, one after the other.
AllFailing(past, n, m) == n >= m /\ \A k \in n - m + 1 .. n : Failing(past[k])

\* Confirms, of any list of deciding probes.
ConfirmsIn(past, n) ==
    /\ Failing(past[n])
    /\ (n > 1 /\ past[n - 1].kind = "maintenance") \/ AllFailing(past, n, Threshold)

\* Probes that decide are later than those before them, and none is later than time t.
PastInOrder(past, t) ==
    /\ past \in Seq(DecidingIn(Times))
    /\ \A i, j \in 1 .. Len(past) : i < j => past[i].at < past[j].at
    /\ \A n \in 1 .. Len(past) : past[n].at <= t

\* The row is what the deciding probes lead to.
RowTellsPast(past) ==
    /\ past = <<>> => row = NoRow
    /\ past # <<>> =>
          LET p == past[Len(past)]
          IN  /\ p.kind = "maintenance" => row.status = "MAINTENANCE"
              /\ p.kind = "evaluate" /\ p.ok => row.status = "UP"
              /\ p.kind = "evaluate" /\ ~p.ok => row.status \in {"FAILING", "DOWN"}
    /\ \A m \in 1 .. MaxFailures : row.failures >= m <=> AllFailing(past, Len(past), m)

\* Run number k stands for the probes from first[k] to the one before first[k + 1].
Divides(first, past, runs) ==
    /\ first \in [1 .. Len(runs) + 1 -> Nat]
    /\ first[1] = 1 /\ first[Len(runs) + 1] = Len(past) + 1
    /\ \A k \in 1 .. Len(runs) :
          /\ first[k + 1] = first[k] + runs[k].count
          /\ past[first[k]].at = runs[k].start
          /\ \A j \in first[k] .. first[k + 1] - 1 : past[j].ok = runs[k].ok

\* Before the backfill the runs stand for all probes that decide.
RunsTellPast(past, runs) ==
    /\ \A n \in 1 .. Len(past) : past[n].kind = "evaluate"
    /\ \E first : Divides(first, past, runs)

\* Probe number n was evaluated in interval number k.
Within(past, h, k, n) == past[n].kind = "evaluate" /\ CoversTime(h, k, past[n].at)

\* What the intervals say of the probes: each starts with one and has probes of one
\* outcome, an outage is confirmed by one of its probes, and failures that are not
\* counted as downtime by none.
HistoryTellsPast(past, h) ==
    /\ \A n \in 1 .. Len(past) : past[n].kind = "evaluate" => h # <<>> /\ h[1].start <= past[n].at
    /\ \A k \in 1 .. Len(h) :
          /\ \E a \in 1 .. Len(past) : past[a].kind = "evaluate" /\ past[a].at = h[k].start
          /\ \A n \in 1 .. Len(past) : Within(past, h, k, n) => (past[n].ok <=> h[k].status = "UP")
          /\ h[k].downtime <=>
                \/ h[k].status = "DOWN"
                \/ h[k].status = "FAILING" /\ k < Len(h) /\ h[k + 1].status = "DOWN"
          /\ h[k].status = "FAILING" /\ k > 1 => h[k - 1].status = "UP"
          /\ h[k].status = "DOWN" =>
                \E n \in 1 .. Len(past) : Within(past, h, k, n) /\ ConfirmsIn(past, n)
          /\ h[k].status = "FAILING" /\ ~h[k].downtime =>
                \A n \in 1 .. Len(past) : Within(past, h, k, n) => ~ConfirmsIn(past, n)

\* The history of the probes, the row and the intervals, as far as they agree.
OutageInv ==
    /\ PastInOrder(Deciding, LastTime(probes))
    /\ ~removed => RowTellsPast(Deciding)
    /\ Undisturbed /\ ~marked => RunsTellPast(Deciding, UptimeRuns(probes))
    /\ Undisturbed /\ marked /\ ~removed => HistoryTellsPast(Deciding, intervals)

-----------------------------------------------------------------------------

\* The two ways in which a deciding probe takes the monitor down are those of ConfirmsIn.
LEMMA ConfirmsIsIn ==
    ASSUME NEW n \in Nat
    PROVE  ReachesThreshold(n) \/ FailsAfterMaintenance(n) <=> ConfirmsIn(Deciding, n)
<1>1. Threshold \in Nat /\ Threshold >= 1
  BY HistoryAssumptions, MaxFailuresAssumption
<1>2. ReachesThreshold(n) <=> AllFailing(Deciding, n, Threshold)
  BY DEF ReachesThreshold, AllFailing
<1>3. AllFailing(Deciding, n, Threshold) => Failing(Deciding[n])
  <2>1. n >= Threshold => n \in n - Threshold + 1 .. n
    BY <1>1
  <2> QED
    BY <2>1 DEF AllFailing
<1> QED
  BY <1>2, <1>3 DEF FailsAfterMaintenance, ConfirmsIn

\* Whether a probe confirms depends on the ones before it only.
LEMMA ConfirmsKept ==
    ASSUME NEW N \in Nat, NEW past, NEW more, \A j \in 1 .. N : more[j] = past[j],
           NEW n \in 1 .. N
    PROVE  ConfirmsIn(more, n) <=> ConfirmsIn(past, n)
<1>1. Threshold \in Nat \ {0}
  BY HistoryAssumptions
<1>2. more[n] = past[n]
  OBVIOUS
<1>3. n > 1 => more[n - 1] = past[n - 1]
  <2>1. n > 1 => n - 1 \in 1 .. N
    OBVIOUS
  <2> QED
    BY <2>1
<1>4. AllFailing(more, n, Threshold) <=> AllFailing(past, n, Threshold)
  <2>1. n >= Threshold => \A k \in n - Threshold + 1 .. n : k \in 1 .. N
    BY <1>1
  <2> QED
    BY <2>1 DEF AllFailing
<1> QED
  BY <1>2, <1>3, <1>4 DEF ConfirmsIn

\* Failures go on with one more.
LEMMA OneMoreFailing ==
    ASSUME NEW N \in Nat, NEW past, NEW more, \A j \in 1 .. N : more[j] = past[j],
           NEW m \in Nat, m >= 1
    PROVE  AllFailing(more, N + 1, m) <=>
              Failing(more[N + 1]) /\ (m = 1 \/ AllFailing(past, N, m - 1))
<1>1. CASE m = 1
  <2>1. N + 1 - m + 1 .. N + 1 = {N + 1} /\ N + 1 >= m
    BY <1>1
  <2> QED
    BY <1>1, <2>1 DEF AllFailing
<1>2. CASE m > 1 /\ N >= m - 1
  <2>1. /\ N + 1 - m + 1 .. N + 1 = (N - (m - 1) + 1 .. N) \cup {N + 1}
        /\ N + 1 >= m
    BY <1>2
  <2>2. \A k \in N - (m - 1) + 1 .. N : more[k] = past[k]
    <3>1. \A k \in N - (m - 1) + 1 .. N : k \in 1 .. N
      BY <1>2
    <3> QED
      BY <3>1
  <2> QED
    BY <1>2, <2>1, <2>2 DEF AllFailing
<1>3. CASE m > 1 /\ ~(N >= m - 1)
  BY <1>3 DEF AllFailing
<1> QED
  BY <1>1, <1>2, <1>3

\* One more probe that decides is the latest.
LEMMA PastGoesOn ==
    ASSUME scenario \in Scenarios, NEW past, NEW t \in Nat, PastInOrder(past, t),
           NEW p \in DecidingIn(Times), t < p.at, NEW more, more = Append(past, p)
    PROVE  /\ PastInOrder(more, p.at)
           /\ Len(past) \in Nat /\ Len(more) = Len(past) + 1
           /\ more[Len(past) + 1] = p
           /\ \A j \in 1 .. Len(past) : more[j] = past[j] /\ past[j].at < p.at /\ past[j].at \in Nat
           /\ p.at \in Nat
<1>1. Times \in SUBSET (Nat \ {0})
  BY TimesAreNumbers
<1> HIDE DEF Times
<1>2. PICK N \in Nat : N = Len(past) /\ past \in Seq(DecidingIn(Times))
  BY DEF PastInOrder
<1>3. /\ more \in Seq(DecidingIn(Times)) /\ Len(more) = N + 1 /\ more[N + 1] = p
      /\ \A j \in 1 .. N : more[j] = past[j] /\ past[j] \in DecidingIn(Times)
  BY <1>2
<1>4. p.at \in Nat
  BY <1>1 DEF DecidingIn
<1>5. ASSUME NEW j \in 1 .. N PROVE past[j].at < p.at /\ past[j].at \in Nat
  <2>1. past[j] \in DecidingIn(Times)
    BY <1>3
  <2>2. past[j].at \in Nat
    BY <1>1, <2>1 DEF DecidingIn
  <2>3. past[j].at <= t
    BY <1>2 DEF PastInOrder
  <2> QED
    BY <1>4, <2>2, <2>3
<1>6. ASSUME NEW i \in 1 .. N + 1, NEW j \in 1 .. N + 1, i < j PROVE more[i].at < more[j].at
  <2>1. i \in 1 .. N
    BY <1>6
  <2>2. CASE j = N + 1
    BY <1>3, <1>5, <2>1, <2>2
  <2>3. CASE j # N + 1
    <3>1. j \in 1 .. N
      BY <2>3
    <3>2. past[i].at < past[j].at
      BY <1>2, <1>6, <2>1, <3>1 DEF PastInOrder
    <3> QED
      BY <1>3, <2>1, <3>1, <3>2
  <2> QED
    BY <2>2, <2>3
<1>7. ASSUME NEW n \in 1 .. N + 1 PROVE more[n].at <= p.at
  <2>1. CASE n = N + 1
    BY <1>3, <1>4, <2>1
  <2>2. CASE n # N + 1
    <3>1. n \in 1 .. N
      BY <2>2
    <3> QED
      BY <1>3, <1>4, <1>5, <3>1
  <2> QED
    BY <2>1, <2>2
<1>8. PastInOrder(more, p.at)
  BY <1>3, <1>6, <1>7 DEF PastInOrder
<1> QED
  BY <1>2, <1>3, <1>4, <1>5, <1>8

\* A list of N probes goes on with one more.
GoesOn(past, more, N) ==
    /\ N = Len(past) /\ Len(more) = N + 1
    /\ \A j \in 1 .. N : more[j] = past[j]

\* A failure that is evaluated takes the monitor down exactly when it confirms an outage,
\* or when it is down already.
LEMMA DownIfConfirmed ==
    ASSUME row \in MonitorRow, NEW past, NEW N \in Nat, past # <<>> <=> N > 0,
           NEW more, GoesOn(past, more, N), Failing(more[N + 1]),
           N > 0 => past[N].kind \in {"evaluate", "maintenance"},
           RowTellsPast(past),
           NEW next, next = Evaluated(Previous(row), FALSE, Threshold)
    PROVE  /\ next.failures = Saturated(row.failures + 1)
           /\ next.status \in {"FAILING", "DOWN"}
           /\ next.status = "DOWN" <=> row.status = "DOWN" \/ ConfirmsIn(more, N + 1)
           /\ row.status = "MAINTENANCE" => next.status = "DOWN"
<1>0. N = Len(past) /\ \A j \in 1 .. N : more[j] = past[j]
  BY DEF GoesOn
<1>1. PICK prev \in MonitorRow :
        /\ prev = Previous(row) /\ prev.failures = row.failures
        /\ prev.status = "MAINTENANCE" <=> row.status = "MAINTENANCE"
        /\ prev.status = "DOWN" <=> row.status = "DOWN"
  BY PreviousRow DEF Previous, Exists, MonitorRow, NoStatus
<1>2. PICK limit \in Nat : /\ limit = IF row.status = "MAINTENANCE" THEN 1 ELSE Threshold
                           /\ limit > 0
  BY HistoryAssumptions
<1>3. PICK f \in 0 .. MaxFailures : f = row.failures
  BY DEF MonitorRow
<1>4. EvaluateProbe(prev, FALSE, Threshold) = Evaluate(prev, FALSE, limit)
  BY <1>1, <1>2 DEF EvaluateProbe
<1>5. /\ next.status = Evaluate(prev, FALSE, limit).status
      /\ next.failures = Evaluate(prev, FALSE, limit).failures
  BY <1>1, <1>4 DEF Evaluated
<1>6. /\ next.failures = Saturated(f + 1)
      /\ next.status = IF row.status = "DOWN" \/ Saturated(f + 1) >= limit
                       THEN "DOWN" ELSE "FAILING"
  BY <1>1, <1>3, <1>5 DEF Evaluate
<1>7. MaxFailures \in Nat \ {0} /\ Threshold \in 1 .. MaxFailures
  BY MaxFailuresAssumption, HistoryAssumptions
<1>8. Saturated(f + 1) >= Threshold <=> AllFailing(more, N + 1, Threshold)
  <2>1. Saturated(f + 1) >= Threshold <=> Threshold = 1 \/ f >= Threshold - 1
    BY <1>7 DEF Saturated
  <2>2. Threshold # 1 => (f >= Threshold - 1 <=> AllFailing(past, N, Threshold - 1))
    <3>1. Threshold # 1 => Threshold - 1 \in 1 .. MaxFailures
      BY <1>7
    <3> QED
      BY <1>0, <1>3, <3>1 DEF RowTellsPast
  <2>3. AllFailing(more, N + 1, Threshold) <=>
           Failing(more[N + 1]) /\ (Threshold = 1 \/ AllFailing(past, N, Threshold - 1))
    <3>1. Threshold \in Nat /\ Threshold >= 1
      BY <1>7
    <3> QED
      BY <1>0, <3>1, OneMoreFailing
  <2> QED
    BY <2>1, <2>2, <2>3
<1>9. row.status = "MAINTENANCE" <=> N + 1 > 1 /\ more[N + 1 - 1].kind = "maintenance"
  <2>1. CASE N = 0
    <3>1. row = NoRow
      BY <2>1 DEF RowTellsPast
    <3>2. row.status # "MAINTENANCE"
      BY <3>1 DEF NoRow, NoStatus
    <3>3. N + 1 > 1 <=> N > 0
      OBVIOUS
    <3> QED
      BY <2>1, <3>2, <3>3
  <2>2. CASE N > 0
    <3>1. N + 1 - 1 = N /\ N + 1 > 1 /\ more[N] = past[N]
      BY <1>0, <2>2
    <3>2. /\ past[N].kind = "maintenance" => row.status = "MAINTENANCE"
          /\ past[N].kind = "evaluate" => row.status \in {"UP", "FAILING", "DOWN"}
      BY <1>0, <2>2 DEF RowTellsPast
    <3> QED
      BY <2>2, <3>1, <3>2
  <2> QED
    BY <2>1, <2>2
<1>10. ConfirmsIn(more, N + 1) <=>
          row.status = "MAINTENANCE" \/ AllFailing(more, N + 1, Threshold)
  BY <1>9 DEF ConfirmsIn
<1>11. Saturated(f + 1) >= 1
  BY <1>7 DEF Saturated
<1>12. CASE row.status = "MAINTENANCE"
  BY <1>2, <1>3, <1>6, <1>10, <1>11, <1>12
<1>13. CASE row.status # "MAINTENANCE"
  BY <1>2, <1>3, <1>6, <1>8, <1>10, <1>13
<1> QED
  BY <1>12, <1>13

\* The row goes on to tell the probes.
LEMMA RowTellsMore ==
    ASSUME row \in MonitorRow, NEW past \in Seq(DecidingIn(Times)), RowTellsPast(past),
           NEW ok \in BOOLEAN,
           NEW p \in DecidingIn(Times), p.ok = ok, NEW more, more = Append(past, p),
           row' = IF p.kind = "maintenance" THEN MaintenanceState(Previous(row))
                  ELSE Evaluated(Previous(row), ok, Threshold)
    PROVE  RowTellsPast(more)'
<1>1. PICK N \in Nat : /\ N = Len(past) /\ (past # <<>> <=> N > 0)
                       /\ Len(more) = N + 1 /\ more # <<>> /\ more[N + 1] = p
                       /\ \A j \in 1 .. N : more[j] = past[j] /\ past[j] \in DecidingIn(Times)
  OBVIOUS
<1>2. p.kind \in {"evaluate", "maintenance"} /\ (N > 0 => past[N].kind \in {"evaluate", "maintenance"})
  <2>1. N > 0 => past[N] \in DecidingIn(Times)
    BY <1>1
  <2> QED
    BY <2>1 DEF DecidingIn
<1>3. /\ p.kind = "maintenance" => row'.status = "MAINTENANCE" /\ row'.failures = 0
      /\ p.kind = "evaluate" /\ ok => row'.status = "UP" /\ row'.failures = 0
      /\ p.kind = "evaluate" /\ ~ok =>
            row'.status \in {"FAILING", "DOWN"} /\ row'.failures = Saturated(row.failures + 1)
  <2>1. CASE p.kind = "maintenance"
    BY <2>1 DEF MaintenanceState
  <2>2. CASE p.kind = "evaluate" /\ ok
    BY <2>2 DEF Evaluated, EvaluateProbe, Evaluate
  <2>3. CASE p.kind = "evaluate" /\ ~ok
    <3>1. Failing(more[N + 1])
      BY <1>1, <2>3 DEF Failing
    <3>2. PICK no \in BOOLEAN : no = ok /\ ok = FALSE
      BY <2>3
    <3>3. row' = Evaluated(Previous(row), FALSE, Threshold)
      BY <2>3, <3>2
    <3>5. N = Len(past) /\ (past # <<>> <=> N > 0)
      BY <1>1
    <3>6. N > 0 => past[N].kind \in {"evaluate", "maintenance"}
      BY <1>2
    <3>7. PICK next : next = row' /\ next = Evaluated(Previous(row), FALSE, Threshold)
      BY <3>3
    <3>8. next.status \in {"FAILING", "DOWN"} /\ next.failures = Saturated(row.failures + 1)
      <4>1. GoesOn(past, more, N)
        BY <1>1 DEF GoesOn
      <4>2. past # <<>> <=> N > 0
        BY <3>5
      <4>3. next = Evaluated(Previous(row), FALSE, Threshold)
        BY <3>7
      <4> QED
        BY <3>1, <3>6, <4>1, <4>2, <4>3, DownIfConfirmed, ZenonT(30)
    <3> QED
      BY <2>3, <3>7, <3>8
  <2> QED
    BY <1>2, <2>1, <2>2, <2>3
<1>4. MaxFailures \in Nat \ {0}
  BY MaxFailuresAssumption
<1>5. ASSUME NEW m \in 1 .. MaxFailures
      PROVE  row'.failures >= m <=> AllFailing(more, N + 1, m)
  <2>1. AllFailing(more, N + 1, m) <=>
           Failing(p) /\ (m = 1 \/ AllFailing(past, N, m - 1))
    <3>1. \A j \in 1 .. N : more[j] = past[j]
      BY <1>1
    <3>2. m \in Nat /\ m >= 1 /\ more[N + 1] = p
      BY <1>1, <1>4
    <3> QED
      BY <3>1, <3>2, OneMoreFailing
  <2>2. CASE p.kind = "maintenance" \/ ok
    <3>1. row'.failures = 0 /\ ~Failing(p)
      BY <1>2, <1>3, <2>2 DEF Failing
    <3> QED
      BY <2>1, <3>1
  <2>3. CASE ~(p.kind = "maintenance" \/ ok)
    <3>1. Failing(p) /\ row'.failures = Saturated(row.failures + 1)
      BY <1>2, <1>3, <2>3 DEF Failing
    <3>2. PICK f \in 0 .. MaxFailures : f = row.failures
      BY DEF MonitorRow
    <3>3. Saturated(f + 1) >= m <=> m = 1 \/ f >= m - 1
      BY <1>4 DEF Saturated
    <3>4. m # 1 => (f >= m - 1 <=> AllFailing(past, N, m - 1))
      <4>1. m # 1 => m - 1 \in 1 .. MaxFailures
        BY <1>4
      <4> QED
        BY <1>1, <3>2, <4>1 DEF RowTellsPast
    <3> QED
      BY <2>1, <3>1, <3>2, <3>3, <3>4
  <2> QED
    BY <2>2, <2>3
<1>6. RowTellsPast(more)' <=>
         /\ more = <<>> => row' = NoRow
         /\ more # <<>> =>
               LET q == more[Len(more)]
               IN  /\ q.kind = "maintenance" => row'.status = "MAINTENANCE"
                   /\ q.kind = "evaluate" /\ q.ok => row'.status = "UP"
                   /\ q.kind = "evaluate" /\ ~q.ok => row'.status \in {"FAILING", "DOWN"}
         /\ \A m \in 1 .. MaxFailures : row'.failures >= m <=> AllFailing(more, Len(more), m)
  BY Zenon DEF RowTellsPast
<1> QED
  BY <1>1, <1>3, <1>5, <1>6

\* Where the probes before were, they are still.
LEMMA WithinKept ==
    ASSUME NEW N \in Nat, NEW past, NEW more, GoesOn(past, more, N), NEW h, NEW k,
           NEW n \in 1 .. N
    PROVE  Within(more, h, k, n) <=> Within(past, h, k, n)
BY DEF GoesOn, Within

\* A history h of n intervals becomes g: the last one ends, and the next is opened.
Saved(h, n, status, at, g) ==
    /\ Len(g) = n + 1
    /\ g[n + 1].start = at /\ g[n + 1].status = status
    /\ g[n + 1].downtime = (status = "DOWN")
    /\ \A k \in 1 .. n - 1 : g[k] = h[k]
    /\ n > 0 => /\ g[n].status = h[n].status
                /\ g[n].start = h[n].start
                /\ g[n].end = at
                /\ g[n].downtime = (h[n].status = "DOWN"
                                    \/ (h[n].status = "FAILING" /\ status = "DOWN"))

\* A status that is not the open interval's closes that one and opens another.
LEMMA SaveAnother ==
    ASSUME NEW T, NEW h, Tiled(h, T, Len(h)), NEW n, n = Len(h),
           NEW status \in {"UP", "FAILING", "DOWN"}, NEW at \in T,
           h = <<>> \/ h[n].status # status,
           NEW g, g = SaveStatusInterval(h, status, at)
    PROVE  Saved(h, n, status, at, g)
<1>1. h \in Seq(IntervalIn(T))
  BY DEF Tiled
<1>2. h = <<>> \/ Last(h).status # status
  BY DEF Last
<1>3. /\ Len(g) = n + 1
      /\ g[n + 1] = Open(status, at)
      /\ \A k \in 1 .. n - 1 : g[k] = h[k]
      /\ n > 0 => /\ g[n].status = h[n].status
                  /\ g[n].start = h[n].start
                  /\ g[n].end = at
                  /\ g[n].downtime = (h[n].status = "DOWN"
                                      \/ (h[n].status = "FAILING" /\ status = "DOWN"))
  BY <1>1, <1>2, SaveOther
<1>4. /\ Open(status, at).start = at /\ Open(status, at).status = status
      /\ Open(status, at).downtime = (status = "DOWN")
  BY OpenType
<1> QED
  BY <1>3, <1>4, Zenon DEF Saved

\* What the intervals say of the probes they go on to say, when the next probe does not
\* contradict it.
LEMMA HistoryKept ==
    ASSUME NEW N \in Nat, NEW past, NEW more, GoesOn(past, more, N), NEW h, Len(h) \in Nat,
           HistoryTellsPast(past, h),
           more[N + 1].kind = "evaluate" => h # <<>> /\ h[1].start <= more[N + 1].at,
           \A k \in 1 .. Len(h) : Within(more, h, k, N + 1) =>
              /\ more[N + 1].ok <=> h[k].status = "UP"
              /\ h[k].status = "FAILING" /\ ~h[k].downtime => ~ConfirmsIn(more, N + 1)
    PROVE  HistoryTellsPast(more, h)
<1>1. N = Len(past) /\ Len(more) = N + 1 /\ \A j \in 1 .. N : more[j] = past[j]
  BY DEF GoesOn
<1>2. \A n \in 1 .. N + 1 : n \in 1 .. N \/ n = N + 1
  OBVIOUS
<1>3. ASSUME NEW n \in 1 .. N + 1, more[n].kind = "evaluate"
      PROVE  h # <<>> /\ h[1].start <= more[n].at
  <2>1. CASE n \in 1 .. N
    BY <1>1, <1>3, <2>1 DEF HistoryTellsPast
  <2>2. CASE n = N + 1
    BY <1>3, <2>2
  <2> QED
    BY <1>2, <2>1, <2>2
<1>4. ASSUME NEW k \in 1 .. Len(h)
      PROVE  /\ \E a \in 1 .. N + 1 : more[a].kind = "evaluate" /\ more[a].at = h[k].start
             /\ \A n \in 1 .. N + 1 :
                   Within(more, h, k, n) => (more[n].ok <=> h[k].status = "UP")
             /\ h[k].status = "DOWN" =>
                   \E n \in 1 .. N + 1 : Within(more, h, k, n) /\ ConfirmsIn(more, n)
             /\ h[k].status = "FAILING" /\ ~h[k].downtime =>
                   \A n \in 1 .. N + 1 : Within(more, h, k, n) => ~ConfirmsIn(more, n)
  <2>1. \A n \in 1 .. N : /\ Within(more, h, k, n) <=> Within(past, h, k, n)
                          /\ ConfirmsIn(more, n) <=> ConfirmsIn(past, n)
                          /\ more[n] = past[n] /\ n \in 1 .. N + 1
    <3> TAKE n \in 1 .. N
    <3>1. Within(more, h, k, n) <=> Within(past, h, k, n)
      BY WithinKept
    <3>2. ConfirmsIn(more, n) <=> ConfirmsIn(past, n)
      BY <1>1, ConfirmsKept
    <3> QED
      BY <1>1, <3>1, <3>2
  <2>2. /\ \E a \in 1 .. N : past[a].kind = "evaluate" /\ past[a].at = h[k].start
        /\ \A n \in 1 .. N : Within(past, h, k, n) => (past[n].ok <=> h[k].status = "UP")
        /\ h[k].status = "DOWN" =>
              \E n \in 1 .. N : Within(past, h, k, n) /\ ConfirmsIn(past, n)
        /\ h[k].status = "FAILING" /\ ~h[k].downtime =>
              \A n \in 1 .. N : Within(past, h, k, n) => ~ConfirmsIn(past, n)
    BY <1>1 DEF HistoryTellsPast
  <2>3. \E a \in 1 .. N + 1 : more[a].kind = "evaluate" /\ more[a].at = h[k].start
    BY <2>1, <2>2
  <2>4. ASSUME NEW n \in 1 .. N + 1, Within(more, h, k, n)
        PROVE  /\ more[n].ok <=> h[k].status = "UP"
               /\ h[k].status = "FAILING" /\ ~h[k].downtime => ~ConfirmsIn(more, n)
    <3>1. CASE n \in 1 .. N
      BY <2>1, <2>2, <2>4, <3>1
    <3>2. CASE n = N + 1
      BY <2>4, <3>2
    <3> QED
      BY <1>2, <3>1, <3>2
  <2>5. h[k].status = "DOWN" =>
           \E n \in 1 .. N + 1 : Within(more, h, k, n) /\ ConfirmsIn(more, n)
    BY <2>1, <2>2
  <2> QED
    BY <2>3, <2>4, <2>5
<1>5. ASSUME NEW k \in 1 .. Len(h)
      PROVE  /\ h[k].downtime <=>
                    \/ h[k].status = "DOWN"
                    \/ h[k].status = "FAILING" /\ k < Len(h) /\ h[k + 1].status = "DOWN"
             /\ h[k].status = "FAILING" /\ k > 1 => h[k - 1].status = "UP"
  BY DEF HistoryTellsPast
<1> QED
  BY <1>1, <1>3, <1>4, <1>5 DEF HistoryTellsPast

\* A probe that is evaluated, saved with the interval of its status.
LEMMA HistoryGoesOn ==
    ASSUME NEW N \in Nat, NEW past, NEW more, GoesOn(past, more, N),
           NEW T, NEW h, Tiled(h, T, Len(h)), Len(h) \in Nat, HistoryTellsPast(past, h),
           NEW at \in T, more[N + 1].kind = "evaluate", more[N + 1].at = at,
           \A j \in 1 .. N : past[j].at \in Nat /\ past[j].at < at,
           NEW status \in {"UP", "FAILING", "DOWN"}, more[N + 1].ok <=> status = "UP",
           status = "FAILING" => /\ ~ConfirmsIn(more, N + 1)
                                 /\ h # <<>> => h[Len(h)].status # "DOWN",
           status = "DOWN" => \/ h # <<>> /\ h[Len(h)].status = "DOWN"
                              \/ ConfirmsIn(more, N + 1),
           NEW g, g = SaveStatusInterval(h, status, at)
    PROVE  HistoryTellsPast(more, g)
<1>0. at \in Nat
  BY DEF Tiled
<1>1. PICK n \in Nat : n = Len(h) /\ Tiled(h, T, n) /\ (h # <<>> <=> n > 0)
  <2>1. h \in Seq(IntervalIn(T))
    BY DEF Tiled
  <2>2. h # <<>> <=> Len(h) > 0
    BY <2>1
  <2> QED
    BY <2>2
<1>2. N = Len(past) /\ Len(more) = N + 1 /\ \A j \in 1 .. N : more[j] = past[j]
  BY DEF GoesOn
<1>3. ASSUME NEW k \in 1 .. n PROVE h[k].start < at /\ h[k].start \in Nat
  <2>1. PICK a \in 1 .. N : past[a].at = h[k].start
    BY <1>1, <1>2 DEF HistoryTellsPast
  <2> QED
    BY <1>0, <2>1
<1>4. CASE h # <<>> /\ h[n].status = status
  <2>1. g = h
    BY <1>1, <1>4, SaveSame DEF Last
  <2>2. n \in 1 .. n /\ 1 \in 1 .. n
    BY <1>1, <1>4
  <2>3. h # <<>> /\ h[1].start <= more[N + 1].at
    BY <1>0, <1>3, <1>4, <2>2
  <2>4. \A k \in 1 .. Len(h) : Within(more, h, k, N + 1) =>
              /\ more[N + 1].ok <=> h[k].status = "UP"
              /\ h[k].status = "FAILING" /\ ~h[k].downtime => ~ConfirmsIn(more, N + 1)
    <3> SUFFICES ASSUME NEW k \in 1 .. n, Within(more, h, k, N + 1)
                 PROVE  /\ more[N + 1].ok <=> h[k].status = "UP"
                        /\ h[k].status = "FAILING" /\ ~h[k].downtime => ~ConfirmsIn(more, N + 1)
      BY <1>1
    <3>1. CoversTime(h, k, at)
      BY DEF Within
    <3>2. CoversTime(h, n, at)
      BY <1>0, <1>1, <1>3, <2>2 DEF CoversTime
    <3>3. k = n
      BY <1>0, <1>1, <2>2, <3>1, <3>2, OneCovers
    <3> QED
      BY <1>4, <3>3
  <2>5. HistoryTellsPast(more, h)
    BY <1>1, <2>3, <2>4, HistoryKept
  <2> QED
    BY <2>1, <2>5
<1>5. CASE h = <<>> \/ h[n].status # status
  <2>1. /\ Len(g) = n + 1
        /\ \A k \in 1 .. n - 1 : g[k] = h[k]
        /\ n > 0 => /\ g[n].status = h[n].status
                    /\ g[n].start = h[n].start
                    /\ g[n].end = at
                    /\ g[n].downtime = (h[n].status = "DOWN"
                                        \/ (h[n].status = "FAILING" /\ status = "DOWN"))
    <3>1. Saved(h, n, status, at, g)
      BY <1>1, <1>5, SaveAnother
    <3> QED
      BY <3>1 DEF Saved
  <2>2. /\ g[n + 1].start = at /\ g[n + 1].status = status
        /\ g[n + 1].downtime = (status = "DOWN")
    <3>1. Saved(h, n, status, at, g)
      BY <1>1, <1>5, SaveAnother
    <3> QED
      BY <3>1 DEF Saved
  <2>3. ASSUME NEW k \in 1 .. n
        PROVE  /\ g[k].status = h[k].status /\ g[k].start = h[k].start
               /\ k # n => g[k] = h[k] /\ k + 1 \in 1 .. n /\ k \in 1 .. n - 1
               /\ k = n => g[k].end = at
    <3>1. CASE k = n
      BY <2>1, <3>1
    <3>2. CASE k # n
      <4>1. k + 1 \in 1 .. n /\ k \in 1 .. n - 1
        BY <3>2
      <4>2. g[k] = h[k]
        BY <2>1, <4>1
      <4> QED
        BY <3>2, <4>1, <4>2
    <3> QED
      BY <3>1, <3>2
  <2>4. ASSUME NEW k \in 1 .. n, NEW t \in Nat, t < at
        PROVE  CoversTime(g, k, t) <=> CoversTime(h, k, t)
    <3>1. k # n + 1
      OBVIOUS
    <3>2. CASE k = n
      BY <1>0, <1>1, <2>1, <2>3, <2>4, <3>1, <3>2 DEF CoversTime
    <3>3. CASE k # n
      BY <1>0, <1>1, <2>1, <2>3, <3>1, <3>3 DEF CoversTime
    <3> QED
      BY <3>2, <3>3
  <2>5. ASSUME NEW k \in 1 .. n PROVE ~CoversTime(g, k, at)
    <3>1. CASE k = n
      BY <1>0, <1>1, <2>1, <2>3, <3>1 DEF CoversTime
    <3>2. CASE k # n
      <4>1. k \in 1 .. n /\ n \in 1 .. n /\ k < n
        BY <3>2
      <4>2. h[k].end <= h[n].start /\ h[k].end \in Nat
        BY <1>1, <4>1, TiledInOrder DEF Tiled
      <4>3. ~(at < h[k].end)
        BY <1>0, <1>3, <4>1, <4>2
      <4> QED
        BY <1>0, <2>1, <2>3, <3>2, <4>3 DEF CoversTime
    <3> QED
      BY <3>1, <3>2
  <2>6. \A t \in Nat : t < at => ~CoversTime(g, n + 1, t)
    BY <1>0, <2>2 DEF CoversTime
  <2>7. CoversTime(g, n + 1, at)
    BY <1>0, <2>1, <2>2 DEF CoversTime
  <2>8. ASSUME NEW k \in 1 .. n, NEW j \in 1 .. N
        PROVE  /\ Within(more, g, k, j) <=> Within(past, h, k, j)
               /\ ConfirmsIn(more, j) <=> ConfirmsIn(past, j)
               /\ more[j] = past[j]
    <3>1. ConfirmsIn(more, j) <=> ConfirmsIn(past, j)
      BY <1>2, ConfirmsKept
    <3>2. more[j] = past[j] /\ past[j].at \in Nat /\ past[j].at < at
      BY <1>2
    <3>3. CoversTime(g, k, past[j].at) <=> CoversTime(h, k, past[j].at)
      BY <2>4, <3>2
    <3> QED
      BY <3>1, <3>2, <3>3 DEF Within
  <2>9. \A j \in 1 .. N + 1 : j \in 1 .. N \/ j = N + 1
    OBVIOUS
  <2>10. \A k \in 1 .. n : ~Within(more, g, k, N + 1)
    BY <2>5 DEF Within
  <2>11. Within(more, g, n + 1, N + 1)
    BY <2>7 DEF Within
  <2>12. \A j \in 1 .. N : ~Within(more, g, n + 1, j)
    BY <1>2, <2>6 DEF Within
  <2>13. g # <<>>
    BY <2>1
  <2>14. ASSUME NEW j \in 1 .. N + 1, more[j].kind = "evaluate" PROVE g[1].start <= more[j].at
    <3>1. CASE n = 0
      <4>1. g[1].start = at
        BY <2>2, <3>1
      <4>2. j \notin 1 .. N
        BY <1>1, <1>2, <2>14, <3>1 DEF HistoryTellsPast
      <4> QED
        BY <1>0, <2>9, <4>1, <4>2
    <3>2. CASE n > 0
      <4>1. 1 \in 1 .. n
        BY <3>2
      <4>2. g[1].start = h[1].start
        BY <2>3, <4>1
      <4>3. CASE j \in 1 .. N
        BY <1>2, <2>14, <4>2, <4>3 DEF HistoryTellsPast
      <4>4. CASE j = N + 1
        BY <1>0, <1>3, <4>1, <4>2, <4>4
      <4> QED
        BY <2>9, <4>3, <4>4
    <3> QED
      BY <3>1, <3>2
  <2>15. ASSUME NEW k \in 1 .. n
         PROVE  /\ \E a \in 1 .. N + 1 : more[a].kind = "evaluate" /\ more[a].at = g[k].start
                /\ \A j \in 1 .. N + 1 :
                      Within(more, g, k, j) => (more[j].ok <=> g[k].status = "UP")
                /\ g[k].downtime <=>
                      \/ g[k].status = "DOWN"
                      \/ g[k].status = "FAILING" /\ k < n + 1 /\ g[k + 1].status = "DOWN"
                /\ g[k].status = "FAILING" /\ k > 1 => g[k - 1].status = "UP"
                /\ g[k].status = "DOWN" =>
                      \E j \in 1 .. N + 1 : Within(more, g, k, j) /\ ConfirmsIn(more, j)
                /\ g[k].status = "FAILING" /\ ~g[k].downtime =>
                      \A j \in 1 .. N + 1 : Within(more, g, k, j) => ~ConfirmsIn(more, j)
    <3>1. /\ \E a \in 1 .. N : past[a].kind = "evaluate" /\ past[a].at = h[k].start
          /\ \A j \in 1 .. N : Within(past, h, k, j) => (past[j].ok <=> h[k].status = "UP")
          /\ h[k].status = "DOWN" =>
                \E j \in 1 .. N : Within(past, h, k, j) /\ ConfirmsIn(past, j)
          /\ h[k].status = "FAILING" /\ ~h[k].downtime =>
                \A j \in 1 .. N : Within(past, h, k, j) => ~ConfirmsIn(past, j)
      BY <1>1, <1>2 DEF HistoryTellsPast
    <3>2. /\ h[k].downtime <=>
                \/ h[k].status = "DOWN"
                \/ h[k].status = "FAILING" /\ k < n /\ h[k + 1].status = "DOWN"
          /\ h[k].status = "FAILING" /\ k > 1 => h[k - 1].status = "UP"
      BY <1>1 DEF HistoryTellsPast
    <3>3. g[k].status = h[k].status /\ g[k].start = h[k].start
      BY <2>3
    <3>4. \A j \in 1 .. N : j \in 1 .. N + 1
      OBVIOUS
    <3>5. \E a \in 1 .. N + 1 : more[a].kind = "evaluate" /\ more[a].at = g[k].start
      BY <2>8, <3>1, <3>3, <3>4
    <3>6. \A j \in 1 .. N + 1 : Within(more, g, k, j) => (more[j].ok <=> g[k].status = "UP")
      BY <2>8, <2>9, <2>10, <3>1, <3>3
    <3>7. g[k].status = "DOWN" =>
             \E j \in 1 .. N + 1 : Within(more, g, k, j) /\ ConfirmsIn(more, j)
      BY <2>8, <3>1, <3>3, <3>4
    <3>8. g[k].downtime <=>
             \/ g[k].status = "DOWN"
             \/ g[k].status = "FAILING" /\ k < n + 1 /\ g[k + 1].status = "DOWN"
      <4>1. CASE k = n
        <5>1. /\ n > 0
              /\ g[n].downtime = (h[n].status = "DOWN"
                                  \/ (h[n].status = "FAILING" /\ status = "DOWN"))
          BY <2>1, <4>1
        <5>2. g[n].status = h[n].status /\ g[n + 1].status = status /\ n < n + 1
          BY <2>2, <3>3, <4>1
        <5>3. g[n].downtime <=>
                 \/ g[n].status = "DOWN"
                 \/ g[n].status = "FAILING" /\ n < n + 1 /\ g[n + 1].status = "DOWN"
          BY <5>1, <5>2
        <5> QED
          BY <4>1, <5>3
      <4>2. CASE k # n
        <5>1. /\ g[k] = h[k] /\ k + 1 \in 1 .. n /\ k < n /\ k < n + 1
              /\ g[k + 1].status = h[k + 1].status
          BY <2>3, <4>2
        <5> QED
          BY <3>2, <5>1
      <4> QED
        BY <4>1, <4>2
    <3>9. g[k].status = "FAILING" /\ k > 1 => g[k - 1].status = "UP"
      <4>1. k > 1 => k - 1 \in 1 .. n
        OBVIOUS
      <4> QED
        BY <2>3, <3>2, <3>3, <4>1
    <3>10. g[k].status = "FAILING" /\ ~g[k].downtime => ~h[k].downtime
      <4>1. CASE k = n
        <5>1. h[n].downtime <=> h[n].status = "DOWN"
          BY <3>2, <4>1
        <5> QED
          BY <3>3, <4>1, <5>1
      <4>2. CASE k # n
        BY <2>3, <4>2
      <4> QED
        BY <4>1, <4>2
    <3>11. g[k].status = "FAILING" /\ ~g[k].downtime =>
              \A j \in 1 .. N + 1 : Within(more, g, k, j) => ~ConfirmsIn(more, j)
      BY <2>8, <2>9, <2>10, <3>1, <3>3, <3>10
    <3> QED
      BY <3>5, <3>6, <3>7, <3>8, <3>9, <3>11
  <2>16. /\ \E a \in 1 .. N + 1 : more[a].kind = "evaluate" /\ more[a].at = g[n + 1].start
         /\ \A j \in 1 .. N + 1 :
               Within(more, g, n + 1, j) => (more[j].ok <=> g[n + 1].status = "UP")
         /\ g[n + 1].status = "DOWN" =>
               \E j \in 1 .. N + 1 : Within(more, g, n + 1, j) /\ ConfirmsIn(more, j)
         /\ g[n + 1].status = "FAILING" /\ ~g[n + 1].downtime =>
               \A j \in 1 .. N + 1 : Within(more, g, n + 1, j) => ~ConfirmsIn(more, j)
    <3>1. N + 1 \in 1 .. N + 1
      OBVIOUS
    <3>2. \E a \in 1 .. N + 1 : more[a].kind = "evaluate" /\ more[a].at = g[n + 1].start
      BY <2>2, <3>1
    <3>3. \A j \in 1 .. N + 1 :
               Within(more, g, n + 1, j) => (more[j].ok <=> g[n + 1].status = "UP")
      BY <2>2, <2>9, <2>12
    <3>4. status = "DOWN" => ConfirmsIn(more, N + 1)
      BY <1>1, <1>5
    <3>5. g[n + 1].status = "DOWN" =>
               \E j \in 1 .. N + 1 : Within(more, g, n + 1, j) /\ ConfirmsIn(more, j)
      BY <2>2, <2>11, <3>1, <3>4
    <3>6. g[n + 1].status = "FAILING" =>
               \A j \in 1 .. N + 1 : Within(more, g, n + 1, j) => ~ConfirmsIn(more, j)
      BY <2>2, <2>9, <2>12
    <3> QED
      BY <3>2, <3>3, <3>5, <3>6
  <2>17. /\ g[n + 1].downtime <=>
               \/ g[n + 1].status = "DOWN"
               \/ g[n + 1].status = "FAILING" /\ n + 1 < n + 1 /\ g[n + 1 + 1].status = "DOWN"
         /\ g[n + 1].status = "FAILING" /\ n + 1 > 1 => g[n + 1 - 1].status = "UP"
    <3>1. g[n + 1].downtime <=> g[n + 1].status = "DOWN"
      BY <2>2
    <3>2. ~(n + 1 < n + 1) /\ n + 1 - 1 = n
      OBVIOUS
    <3>3. g[n + 1].status = "FAILING" /\ n > 0 => g[n].status = "UP"
      <4> SUFFICES ASSUME status = "FAILING", n > 0 PROVE g[n].status = "UP"
        BY <2>2
      <4>1. n \in 1 .. n /\ h[n].status # "DOWN" /\ h[n].status # "FAILING"
        BY <1>1, <1>5
      <4>2. h[n].status \in {"UP", "FAILING", "DOWN"}
        BY <1>1, <4>1 DEF Tiled
      <4> QED
        BY <2>3, <4>1, <4>2
    <3>4. n + 1 > 1 <=> n > 0
      OBVIOUS
    <3> QED
      BY <3>1, <3>2, <3>3, <3>4
  <2>18. \A k \in 1 .. n + 1 : k \in 1 .. n \/ k = n + 1
    OBVIOUS
  <2>19. ASSUME NEW k \in 1 .. n + 1
         PROVE  /\ \E a \in 1 .. N + 1 : more[a].kind = "evaluate" /\ more[a].at = g[k].start
                /\ \A j \in 1 .. N + 1 :
                      Within(more, g, k, j) => (more[j].ok <=> g[k].status = "UP")
                /\ g[k].downtime <=>
                      \/ g[k].status = "DOWN"
                      \/ g[k].status = "FAILING" /\ k < n + 1 /\ g[k + 1].status = "DOWN"
                /\ g[k].status = "FAILING" /\ k > 1 => g[k - 1].status = "UP"
                /\ g[k].status = "DOWN" =>
                      \E j \in 1 .. N + 1 : Within(more, g, k, j) /\ ConfirmsIn(more, j)
                /\ g[k].status = "FAILING" /\ ~g[k].downtime =>
                      \A j \in 1 .. N + 1 : Within(more, g, k, j) => ~ConfirmsIn(more, j)
    <3>1. CASE k \in 1 .. n
      BY <2>15, <3>1
    <3>2. CASE k = n + 1
      <4>1. k = n + 1
        BY <3>2
      <4> QED
        BY <2>16, <2>17, <4>1
    <3> QED
      BY <2>18, <3>1, <3>2
  <2> QED
    BY <1>2, <2>1, <2>13, <2>14, <2>19 DEF HistoryTellsPast
<1> QED
  BY <1>4, <1>5

\* The n runs and the intervals h that a backfill makes of them.
MadeOf(h, runs, n) ==
    /\ n \in Nat /\ Len(h) = n /\ Len(runs) = n /\ (h = <<>> <=> n = 0)
    /\ \A k \in 1 .. n : /\ h[k].start = runs[k].start
                         /\ h[k].status = IF runs[k].ok THEN "UP"
                                          ELSE IF runs[k].count >= Threshold THEN "DOWN"
                                          ELSE "FAILING"
                         /\ h[k].downtime = (h[k].status = "DOWN")
                         /\ runs[k].ok \in BOOLEAN
                         /\ runs[k].count \in Nat \ {0}
    /\ \A k \in 1 .. n - 1 : h[k].end = runs[k + 1].start /\ runs[k].ok # runs[k + 1].ok

\* The backfill makes one interval of each run, which ends with the next one's start.
LEMMA BackfillIsMadeOf ==
    ASSUME NEW T \in SUBSET Nat, NEW runs \in Seq(RunIn(T)), NEW t \in Nat,
           RunsAreOrdered(runs, t), NEW h, h = BackfilledIntervals(runs)
    PROVE  MadeOf(h, runs, Len(runs))
<1>1. PICK n \in Nat : /\ n = Len(runs) /\ DOMAIN runs = 1 .. n
                       /\ \A k \in 1 .. n : runs[k] \in RunIn(T)
  OBVIOUS
<1>2. /\ h \in Seq(IntervalIn(T))
      /\ Contiguous(h)
      /\ Len(h) = Len(runs)
      /\ \A k \in 1 .. Len(runs) :
            /\ h[k].start = runs[k].start
            /\ h[k].status = IF runs[k].ok THEN "UP"
                             ELSE IF runs[k].count >= Threshold THEN "DOWN" ELSE "FAILING"
            /\ h[k].downtime = (h[k].status = "DOWN")
  BY BackfillIsContiguous
<1>3. DOMAIN h = 1 .. n /\ (h = <<>> <=> n = 0)
  BY <1>1, <1>2
<1>4. ASSUME NEW k \in 1 .. n PROVE runs[k].ok \in BOOLEAN /\ runs[k].count \in Nat \ {0}
  <2>1. runs[k] \in RunIn(T)
    BY <1>1
  <2> QED
    BY <2>1 DEF RunIn
<1>5. ASSUME NEW k \in 1 .. n - 1
      PROVE  h[k].end = runs[k + 1].start /\ runs[k].ok # runs[k + 1].ok
  <2>1. k \in DOMAIN runs /\ k < Len(runs) /\ k \in DOMAIN h /\ k # Len(h) /\ k + 1 \in 1 .. n
    BY <1>1, <1>2, <1>3
  <2>2. h[k].end = h[k + 1].start
    BY <2>1, <1>2, Zenon DEF Contiguous
  <2>3. h[k + 1].start = runs[k + 1].start
    BY <1>1, <1>2, <2>1
  <2>4. runs[k].ok # runs[k + 1].ok
    BY <2>1 DEF RunsAreOrdered
  <2> QED
    BY <2>2, <2>3, <2>4
<1> QED
  BY <1>1, <1>2, <1>3, <1>4, <1>5 DEF MadeOf

\* The runs stand for the probes in their order.
LEMMA DividesInOrder ==
    ASSUME NEW past, NEW h, NEW runs, NEW n, MadeOf(h, runs, n), NEW first,
           Divides(first, past, runs), NEW N \in Nat, N = Len(past)
    PROVE  /\ \A k \in 1 .. n + 1 : first[k] \in 1 .. N + 1
           /\ \A k \in 1 .. n : first[k] \in 1 .. N /\ first[k] < first[k + 1]
           /\ first[1] = 1 /\ first[n + 1] = N + 1
           /\ n = 0 <=> N = 0
<1>1. /\ n \in Nat /\ Len(runs) = n
      /\ \A k \in 1 .. n : runs[k].count \in Nat \ {0}
  BY DEF MadeOf
<1>2. /\ \A k \in 1 .. n + 1 : first[k] \in Nat
      /\ first[1] = 1 /\ first[n + 1] = N + 1
      /\ \A k \in 1 .. n : first[k + 1] = first[k] + runs[k].count
  BY <1>1 DEF Divides
<1>3. ASSUME NEW k \in 1 .. n PROVE first[k] < first[k + 1] /\ k \in 1 .. n + 1 /\ k + 1 \in 1 .. n + 1
  <2>1. k \in 1 .. n + 1 /\ k + 1 \in 1 .. n + 1
    BY <1>1
  <2>2. PICK c \in Nat \ {0} : c = runs[k].count
    BY <1>1
  <2>3. PICK x \in Nat : x = first[k]
    BY <1>2, <2>1
  <2>4. first[k + 1] = x + c
    BY <1>2, <2>2, <2>3
  <2> QED
    BY <2>1, <2>3, <2>4
<1> DEFINE up == {k \in 0 .. n : first[k + 1] >= 1}
           down == {d \in 0 .. n : first[n + 1 - d] <= N + 1}
<1>4. 0 .. n \subseteq up
  <2>1. 0 \in up
    BY <1>1, <1>2
  <2>2. ASSUME NEW k \in 0 .. n - 1, k \in up PROVE k + 1 \in up
    <3>1. PICK m \in 1 .. n : m = k + 1
      BY <1>1
    <3>2. first[m] >= 1 /\ first[m] < first[m + 1] /\ m \in 0 .. n
      BY <1>3, <2>2, <3>1
    <3>3. first[m] \in Nat /\ first[m + 1] \in Nat
      BY <1>2, <1>3
    <3>4. first[m + 1] >= 1
      BY <3>2, <3>3
    <3> QED
      BY <3>1, <3>2, <3>4
  <2> HIDE DEF up
  <2> QED
    BY <1>1, <2>1, <2>2, Counting
<1>5. 0 .. n \subseteq down
  <2>1. 0 \in down
    BY <1>1, <1>2
  <2>2. ASSUME NEW d \in 0 .. n - 1, d \in down PROVE d + 1 \in down
    <3>1. PICK m \in 1 .. n : m = n + 1 - (d + 1) /\ m + 1 = n + 1 - d
      BY <1>1
    <3>2. first[m + 1] <= N + 1 /\ first[m] < first[m + 1] /\ d + 1 \in 0 .. n
      BY <1>1, <1>3, <2>2, <3>1
    <3>3. first[m] \in Nat /\ first[m + 1] \in Nat
      BY <1>2, <1>3
    <3>4. first[m] <= N + 1
      BY <3>2, <3>3
    <3> QED
      BY <3>1, <3>2, <3>4
  <2> HIDE DEF down
  <2> QED
    BY <1>1, <2>1, <2>2, Counting
<1>6. ASSUME NEW k \in 1 .. n + 1 PROVE first[k] \in 1 .. N + 1
  <2>1. k - 1 \in 0 .. n /\ k - 1 + 1 = k /\ n + 1 - k \in 0 .. n /\ n + 1 - (n + 1 - k) = k
    BY <1>1
  <2>2. k - 1 \in up /\ n + 1 - k \in down
    BY <1>4, <1>5, <2>1
  <2>3. first[k] >= 1 /\ first[k] <= N + 1
    BY <2>1, <2>2
  <2> QED
    BY <1>2, <2>3
<1> HIDE DEF up, down
<1>7. ASSUME NEW k \in 1 .. n PROVE first[k] \in 1 .. N /\ first[k] < first[k + 1]
  <2>1. first[k] < first[k + 1] /\ first[k] \in 1 .. N + 1 /\ first[k + 1] \in 1 .. N + 1
    BY <1>3, <1>6
  <2> QED
    BY <2>1
<1>8. n = 0 <=> N = 0
  <2>1. n = 0 => N = 0
    BY <1>2
  <2>2. n # 0 => first[1] \in 1 .. N
    BY <1>1, <1>7
  <2> QED
    BY <2>1, <2>2
<1> QED
  BY <1>2, <1>6, <1>7, <1>8
\* A backfilled interval covers the times of the probes that its run stands for.
LEMMA RunCovers ==
    ASSUME NEW past, NEW h, NEW runs, NEW n, MadeOf(h, runs, n), NEW first,
           Divides(first, past, runs), NEW N \in Nat, N = Len(past),
           \A j \in 1 .. N : past[j].at \in Nat,
           \A i, j \in 1 .. N : i < j => past[i].at < past[j].at,
           NEW k \in 1 .. n, NEW j \in 1 .. N
    PROVE  CoversTime(h, k, past[j].at) <=> first[k] <= j /\ j < first[k + 1]
<1>1. /\ n \in Nat /\ Len(runs) = n /\ Len(h) = n
      /\ h[k].start = runs[k].start
      /\ k # n => h[k].end = runs[k + 1].start
  BY DEF MadeOf
<1>2. /\ first[k] \in 1 .. N /\ first[k + 1] \in 1 .. N + 1
      /\ first[n + 1] = N + 1
      /\ k # n => first[k + 1] \in 1 .. N
  <2>1. k # n => k + 1 \in 1 .. n
    BY <1>1
  <2>2. k + 1 \in 1 .. n + 1
    BY <1>1
  <2> QED
    BY <2>1, <2>2, DividesInOrder
<1>3. ASSUME NEW i \in 1 .. N PROVE past[i].at <= past[j].at <=> i <= j
  <2>1. CASE i < j
    BY <2>1
  <2>2. CASE i = j
    BY <2>2
  <2>3. CASE i > j
    <3>1. past[j].at < past[i].at
      BY <2>3
    <3>2. past[j].at \in Nat /\ past[i].at \in Nat
      OBVIOUS
    <3> QED
      BY <2>3, <3>1, <3>2
  <2> QED
    BY <2>1, <2>2, <2>3
<1>4. h[k].start <= past[j].at <=> first[k] <= j
  <2>1. past[first[k]].at = h[k].start
    BY <1>1 DEF Divides
  <2> QED
    BY <1>2, <1>3, <2>1
<1>5. k = n => j < first[k + 1]
  BY <1>2
<1>6. k # n => (past[j].at < h[k].end <=> j < first[k + 1])
  <2> SUFFICES ASSUME k # n PROVE past[j].at < h[k].end <=> j < first[k + 1]
    OBVIOUS
  <2>1. PICK i \in 1 .. N : i = first[k + 1]
    BY <1>2
  <2>2. k + 1 \in 1 .. n
    BY <1>1
  <2>3. past[i].at = h[k].end
    BY <1>1, <2>1, <2>2 DEF Divides
  <2>4. past[i].at <= past[j].at <=> i <= j
    BY <1>3
  <2>5. past[i].at \in Nat /\ past[j].at \in Nat
    OBVIOUS
  <2>6. past[j].at < past[i].at <=> j < i
    BY <2>4, <2>5
  <2> QED
    BY <2>1, <2>3, <2>6
<1> QED
  BY <1>1, <1>4, <1>5, <1>6 DEF CoversTime

\* An interval that is made of a run of failures is an outage exactly when one of the
\* run's probes confirms it.
LEMMA RunConfirms ==
    ASSUME NEW N \in Nat, NEW past, \A j \in 1 .. N : past[j].kind = "evaluate",
           NEW a \in 1 .. N, NEW c \in Nat \ {0}, a + c - 1 \in 1 .. N,
           \A j \in a .. a + c - 1 : past[j].ok = FALSE,
           a > 1 => past[a - 1].ok = TRUE
    PROVE  /\ c >= Threshold => ConfirmsIn(past, a + Threshold - 1)
           /\ c < Threshold => \A j \in a .. a + c - 1 : ~ConfirmsIn(past, j)
<1>1. Threshold \in Nat \ {0}
  BY HistoryAssumptions
<1>2. \A j \in a .. a + c - 1 : j \in 1 .. N
  OBVIOUS
<1>3. \A j \in a .. a + c - 1 : Failing(past[j])
  BY <1>2 DEF Failing
<1>4. ASSUME c >= Threshold PROVE ConfirmsIn(past, a + Threshold - 1)
  <2>1. PICK j \in a .. a + c - 1 : j = a + Threshold - 1
    BY <1>1, <1>4
  <2>2. j >= Threshold /\ \A k \in j - Threshold + 1 .. j : k \in a .. a + c - 1
    BY <1>1, <1>4, <2>1
  <2>3. AllFailing(past, j, Threshold)
    BY <1>3, <2>2 DEF AllFailing
  <2>4. ConfirmsIn(past, j)
    BY <1>3, <2>3 DEF ConfirmsIn
  <2> QED
    BY <2>1, <2>4
<1>5. ASSUME c < Threshold, NEW j \in a .. a + c - 1 PROVE ~ConfirmsIn(past, j)
  <2>1. ~(j > 1 /\ past[j - 1].kind = "maintenance")
    <3>1. j > 1 => j - 1 \in 1 .. N
      BY <1>2
    <3> QED
      BY <3>1
  <2>2. ~AllFailing(past, j, Threshold)
    <3>1. CASE a = 1
      <4>1. j < Threshold
        BY <1>1, <1>5, <3>1
      <4> QED
        BY <1>1, <4>1 DEF AllFailing
    <3>2. CASE a > 1
      <4>1. a - 1 \in j - Threshold + 1 .. j
        BY <1>1, <1>5, <3>2
      <4>2. ~Failing(past[a - 1])
        BY <3>2 DEF Failing
      <4> QED
        BY <4>1, <4>2 DEF AllFailing
    <3> QED
      BY <3>1, <3>2
  <2> QED
    BY <2>1, <2>2 DEF ConfirmsIn
<1> QED
  BY <1>4, <1>5

\* What a backfill writes tells of all probes that decide.
LEMMA BackfillTells ==
    ASSUME NEW past, NEW t \in Nat, scenario \in Scenarios, PastInOrder(past, t),
           NEW runs, RunsTellPast(past, runs), NEW h, NEW n, MadeOf(h, runs, n)
    PROVE  HistoryTellsPast(past, h)
<1>1. Times \in SUBSET (Nat \ {0})
  BY TimesAreNumbers
<1> HIDE DEF Times
<1>2. PICK N \in Nat : N = Len(past) /\ \A j \in 1 .. N : past[j] \in DecidingIn(Times)
  BY DEF PastInOrder
<1>3. \A j \in 1 .. N : past[j].kind = "evaluate" /\ past[j].at \in Nat /\ past[j].ok \in BOOLEAN
  BY <1>1, <1>2 DEF RunsTellPast, DecidingIn
<1>4. \A i, j \in 1 .. N : i < j => past[i].at < past[j].at
  BY <1>2 DEF PastInOrder
<1>5. PICK first : Divides(first, past, runs)
  BY DEF RunsTellPast
<1>6. /\ \A k \in 1 .. n + 1 : first[k] \in 1 .. N + 1
      /\ \A k \in 1 .. n : first[k] \in 1 .. N /\ first[k] < first[k + 1]
      /\ first[1] = 1 /\ first[n + 1] = N + 1
      /\ n = 0 <=> N = 0
  BY <1>2, <1>5, DividesInOrder
<1>7. /\ n \in Nat /\ Len(h) = n /\ Len(runs) = n /\ (h = <<>> <=> n = 0)
  BY DEF MadeOf
<1>8. ASSUME NEW k \in 1 .. n, NEW j \in 1 .. N
      PROVE  Within(past, h, k, j) <=> first[k] <= j /\ j < first[k + 1]
  <2>1. CoversTime(h, k, past[j].at) <=> first[k] <= j /\ j < first[k + 1]
    <3>1. \A i \in 1 .. N : past[i].at \in Nat
      BY <1>3
    <3> QED
      BY <1>2, <1>4, <1>5, <3>1, RunCovers
  <2> QED
    BY <1>3, <2>1 DEF Within
<1>9. ASSUME NEW j \in 1 .. N PROVE h # <<>> /\ h[1].start <= past[j].at
  <2>1. n # 0 /\ 1 \in 1 .. n /\ h # <<>>
    BY <1>6, <1>7
  <2>2. h[1].start = past[1].at
    <3>1. h[1].start = runs[1].start /\ past[first[1]].at = runs[1].start
      BY <1>5, <1>7, <2>1 DEF MadeOf, Divides
    <3> QED
      BY <1>6, <3>1
  <2>3. 1 \in 1 .. N /\ (j = 1 \/ 1 < j)
    OBVIOUS
  <2>4. past[1].at <= past[j].at
    BY <1>3, <1>4, <2>3
  <2> QED
    BY <2>1, <2>2, <2>4
<1>10. ASSUME NEW k \in 1 .. n
       PROVE  /\ \E a \in 1 .. N : past[a].kind = "evaluate" /\ past[a].at = h[k].start
              /\ \A j \in 1 .. N : Within(past, h, k, j) => (past[j].ok <=> h[k].status = "UP")
              /\ h[k].status = "DOWN" =>
                    \E j \in 1 .. N : Within(past, h, k, j) /\ ConfirmsIn(past, j)
              /\ h[k].status = "FAILING" /\ ~h[k].downtime =>
                    \A j \in 1 .. N : Within(past, h, k, j) => ~ConfirmsIn(past, j)
  <2>1. /\ h[k].start = runs[k].start
        /\ h[k].status = IF runs[k].ok THEN "UP"
                         ELSE IF runs[k].count >= Threshold THEN "DOWN" ELSE "FAILING"
        /\ runs[k].ok \in BOOLEAN
    BY DEF MadeOf
  <2>2. PICK c \in Nat \ {0} : c = runs[k].count
    BY DEF MadeOf
  <2>3. PICK a \in 1 .. N : a = first[k] /\ first[k + 1] \in Nat
    <3>1. k + 1 \in 1 .. n + 1
      BY <1>7
    <3> QED
      BY <1>6, <3>1
  <2>4. first[k + 1] = a + c /\ past[a].at = h[k].start
    BY <1>5, <1>7, <2>1, <2>2, <2>3 DEF Divides
  <2>5. \A j \in a .. a + c - 1 : past[j].ok = runs[k].ok
    <3>1. \A j \in first[k] .. first[k + 1] - 1 : past[j].ok = runs[k].ok
      BY <1>5, <1>7 DEF Divides
    <3>2. first[k] = a /\ first[k + 1] = a + c
      BY <2>3, <2>4
    <3> QED
      BY <3>1, <3>2
  <2>6. a + c - 1 \in 1 .. N
    <3>1. first[k + 1] \in 1 .. N + 1
      <4>1. k + 1 \in 1 .. n + 1
        BY <1>7
      <4> QED
        BY <1>6, <4>1
    <3> QED
      BY <2>3, <2>4, <3>1
  <2>7. \A j \in 1 .. N : Within(past, h, k, j) <=> j \in a .. a + c - 1
    BY <1>8, <2>2, <2>3, <2>4
  <2>8. \A j \in 1 .. N : Within(past, h, k, j) => (past[j].ok <=> h[k].status = "UP")
    <3> SUFFICES ASSUME NEW j \in 1 .. N, Within(past, h, k, j)
                 PROVE  past[j].ok <=> h[k].status = "UP"
      OBVIOUS
    <3>1. past[j].ok = runs[k].ok
      BY <2>5, <2>7
    <3>2. runs[k].ok <=> h[k].status = "UP"
      BY <2>1
    <3> QED
      BY <3>1, <3>2, Zenon
  <2>9. CASE runs[k].ok = TRUE
    <3>1. h[k].status = "UP"
      BY <2>1, <2>9
    <3> QED
      BY <1>3, <2>3, <2>4, <2>8, <3>1
  <2>10. CASE runs[k].ok = FALSE
    <3>1. a > 1 => past[a - 1].ok = TRUE
      <4> SUFFICES ASSUME a > 1 PROVE past[a - 1].ok = TRUE
        OBVIOUS
      <4>1. k # 1
        BY <1>6, <2>3
      <4>2. PICK m \in 1 .. n - 1 : m = k - 1 /\ m + 1 = k /\ m \in 1 .. n
        BY <1>7, <4>1
      <4>3. runs[m].ok # runs[m + 1].ok /\ runs[m].ok \in BOOLEAN
        BY <4>2 DEF MadeOf
      <4>4. runs[m].ok = TRUE
        BY <2>10, <4>2, <4>3
      <4>5. first[m] \in 1 .. N /\ first[m] < first[m + 1] /\ first[m + 1] = a
        BY <1>6, <2>3, <4>2
      <4>6. a - 1 \in first[m] .. first[m + 1] - 1
        BY <2>3, <4>5
      <4>7. past[a - 1].ok = runs[m].ok
        BY <1>5, <1>7, <4>2, <4>6 DEF Divides
      <4> QED
        BY <4>4, <4>7
    <3>2. \A j \in a .. a + c - 1 : past[j].ok = FALSE
      BY <2>5, <2>10
    <3>3. \A j \in 1 .. N : past[j].kind = "evaluate"
      BY <1>3
    <3>4. /\ c >= Threshold => ConfirmsIn(past, a + Threshold - 1)
          /\ c < Threshold => \A j \in a .. a + c - 1 : ~ConfirmsIn(past, j)
      BY <2>6, <3>1, <3>2, <3>3, RunConfirms
    <3>5. h[k].status = IF c >= Threshold THEN "DOWN" ELSE "FAILING"
      BY <2>1, <2>2, <2>10
    <3>6. Threshold \in Nat \ {0}
      BY HistoryAssumptions
    <3>7. h[k].status = "DOWN" =>
             \E j \in 1 .. N : Within(past, h, k, j) /\ ConfirmsIn(past, j)
      <4> SUFFICES ASSUME h[k].status = "DOWN"
                   PROVE  \E j \in 1 .. N : Within(past, h, k, j) /\ ConfirmsIn(past, j)
        OBVIOUS
      <4>1. c >= Threshold
        BY <3>5
      <4>2. PICK j \in a .. a + c - 1 : j = a + Threshold - 1
        BY <3>6, <4>1
      <4>3. j \in 1 .. N
        BY <2>6
      <4> QED
        BY <2>7, <3>4, <4>1, <4>2, <4>3
    <3>8. h[k].status = "FAILING" =>
             \A j \in 1 .. N : Within(past, h, k, j) => ~ConfirmsIn(past, j)
      <4>1. h[k].status = "FAILING" => c < Threshold
        BY <3>5, <3>6
      <4> QED
        BY <2>7, <3>4, <4>1
    <3> QED
      BY <1>3, <2>3, <2>4, <2>8, <3>7, <3>8
  <2> QED
    BY <2>1, <2>9, <2>10
<1>11. ASSUME NEW k \in 1 .. n
       PROVE  /\ h[k].downtime <=>
                    \/ h[k].status = "DOWN"
                    \/ h[k].status = "FAILING" /\ k < n /\ h[k + 1].status = "DOWN"
              /\ h[k].status = "FAILING" /\ k > 1 => h[k - 1].status = "UP"
  <2>1. /\ h[k].downtime = (h[k].status = "DOWN")
        /\ h[k].status = "UP" <=> runs[k].ok
        /\ runs[k].ok \in BOOLEAN
    BY DEF MadeOf
  <2>2. h[k].status = "FAILING" /\ k < n => h[k + 1].status # "DOWN"
    <3> SUFFICES ASSUME h[k].status = "FAILING", k < n PROVE h[k + 1].status # "DOWN"
      OBVIOUS
    <3>1. k \in 1 .. n - 1 /\ k + 1 \in 1 .. n
      BY <1>7
    <3>2. runs[k].ok # runs[k + 1].ok /\ runs[k + 1].ok \in BOOLEAN
          /\ (h[k + 1].status = "UP" <=> runs[k + 1].ok)
      BY <3>1 DEF MadeOf
    <3> QED
      BY <2>1, <3>2
  <2>3. h[k].status = "FAILING" /\ k > 1 => h[k - 1].status = "UP"
    <3> SUFFICES ASSUME h[k].status = "FAILING", k > 1 PROVE h[k - 1].status = "UP"
      OBVIOUS
    <3>1. PICK m \in 1 .. n - 1 : m = k - 1 /\ m + 1 = k /\ m \in 1 .. n
      BY <1>7
    <3>2. runs[m].ok # runs[m + 1].ok /\ runs[m].ok \in BOOLEAN
          /\ (h[m].status = "UP" <=> runs[m].ok)
      BY <3>1 DEF MadeOf
    <3>3. h[m].status = "UP"
      BY <2>1, <3>1, <3>2
    <3> QED
      BY <3>1, <3>3
  <2> QED
    BY <2>1, <2>2, <2>3
<1> QED
  BY <1>2, <1>7, <1>9, <1>10, <1>11 DEF HistoryTellsPast

\* SameStreak, of any N deciding probes.
InStreak(past, N, i, m) ==
    \A j \in 1 .. N : (i <= j /\ j <= m) \/ (m <= j /\ j <= i) =>
        (past[j].kind = "evaluate" => ~past[j].ok)

\* SameStreak, in terms of positions.
LEMMA SameStreakIs ==
    ASSUME NEW N \in Nat, NEW i \in 1 .. N, NEW m \in 1 .. N
    PROVE  SameStreak(i, m) <=> InStreak(Deciding, N, i, m)
<1>1. PICK a \in 1 .. N, b \in 1 .. N : /\ a = Min({i, m}) /\ b = Max({i, m})
                                        /\ a <= i /\ a <= m /\ i <= b /\ m <= b
                                        /\ a = i \/ a = m
                                        /\ b = i \/ b = m
  <2>1. {i, m} \in SUBSET Nat /\ {i, m} # {} /\ i \in {i, m} /\ m \in {i, m}
    OBVIOUS
  <2>2. Min({i, m}) \in {i, m} /\ \A x \in {i, m} : Min({i, m}) <= x
    BY <2>1, MinOf
  <2>3. \A x \in {i, m} : x <= N
    OBVIOUS
  <2>4. Max({i, m}) \in {i, m} /\ \A x \in {i, m} : x <= Max({i, m})
    BY <2>1, <2>3, MaxOf
  <2> QED
    BY <2>2, <2>4
<1>2. \A j \in a .. b : j \in 1 .. N
  OBVIOUS
<1>4. ASSUME NEW j \in 1 .. N PROVE j \in a .. b <=> (i <= j /\ j <= m) \/ (m <= j /\ j <= i)
  <2>1. a <= i /\ a <= m /\ i <= b /\ m <= b /\ (a = i \/ a = m) /\ (b = i \/ b = m)
    BY <1>1
  <2>2. CASE i <= m
    <3>1. a = i /\ b = m
      BY <2>1, <2>2
    <3> QED
      BY <2>2, <3>1
  <2>3. CASE ~(i <= m)
    <3>1. a = m /\ b = i
      BY <2>1, <2>3
    <3> QED
      BY <2>3, <3>1
  <2> QED
    BY <2>2, <2>3
<1>3. SameStreak(i, m) <=>
         \A j \in a .. b : Deciding[j].kind = "evaluate" => ~Deciding[j].ok
  BY <1>1 DEF SameStreak
<1> QED
  BY <1>2, <1>3, <1>4 DEF InStreak

\* A streak that is confirmed either way, in terms of the last probe evaluated until then.
LEMMA OutageIs ==
    ASSUME NEW past, past = Deciding, NEW N \in Nat, DOMAIN past = 1 .. N, NEW t,
           NEW m \in 1 .. N, past[m].kind = "evaluate", past[m].at <= t,
           \A j \in 1 .. N : past[j].kind = "evaluate" /\ past[j].at <= t => j <= m
    PROVE  OutageAt(t) \/ AfterMaintenanceAt(t) <=>
              ~past[m].ok /\ \E i \in 1 .. N : ConfirmsIn(past, i) /\ InStreak(past, N, i, m)
<1> DEFINE last == {j \in DOMAIN past : past[j].kind = "evaluate" /\ past[j].at <= t}
           Confirmed(j) == ReachesThreshold(j) \/ FailsAfterMaintenance(j)
<1>1. last \in SUBSET Nat /\ m \in last /\ \A j \in last : j <= m
  OBVIOUS
<1>2. PICK x : x = Max(last)
  OBVIOUS
<1>3. StreakAt(t) = IF last = {} \/ past[Max(last)].ok THEN {}
                    ELSE {j \in DOMAIN past : SameStreak(j, Max(last))}
  BY DEF StreakAt
<1> HIDE DEF last
<1>4. Max(last) = m
  <2>1. Max(last) \in last /\ \A y \in last : y <= Max(last)
    <3>1. last # {} /\ m \in Nat
      BY <1>1
    <3> QED
      BY <1>1, <3>1, MaxOf
  <2>2. Max(last) \in Nat /\ Max(last) <= m /\ m <= Max(last)
    BY <1>1, <2>1
  <2> QED
    BY <2>2
<1>5. OutageAt(t) \/ AfterMaintenanceAt(t) <=>
         ~past[m].ok /\ \E j \in 1 .. N : Confirmed(j) /\ SameStreak(j, m)
  <2>1. StreakAt(t) = IF past[m].ok THEN {} ELSE {j \in 1 .. N : SameStreak(j, m)}
    BY <1>1, <1>3, <1>4
  <2> QED
    BY <2>1 DEF OutageAt, AfterMaintenanceAt
<1>6. ASSUME NEW j \in 1 .. N
      PROVE  Confirmed(j) /\ SameStreak(j, m) <=> ConfirmsIn(past, j) /\ InStreak(past, N, j, m)
  BY ConfirmsIsIn, SameStreakIs
<1> QED
  BY <1>5, <1>6

\* An interval covers the times between two of its own.
LEMMA CoversBetween ==
    ASSUME NEW T, NEW h, NEW n \in Nat, Tiled(h, T, n), NEW k \in 1 .. n,
           NEW a \in Nat, NEW b \in Nat, NEW c \in Nat, a <= b, b <= c,
           h[k].start <= a, CoversTime(h, k, c)
    PROVE  CoversTime(h, k, b)
<1>1. h[k].start \in Nat /\ h[k].end \in Nat
  BY DEF Tiled
<1> QED
  BY <1>1 DEF CoversTime

\* The probe that an interval starts with is evaluated in it.
LEMMA StartWithin ==
    ASSUME NEW T, NEW h, NEW n \in Nat, Tiled(h, T, n), NEW k \in 1 .. n,
           NEW past, NEW a, past[a].kind = "evaluate", past[a].at = h[k].start
    PROVE  Within(past, h, k, a)
<1>1. h[k].start \in Nat /\ Len(h) = n
  BY DEF Tiled
<1>2. k # n => h[k].start < h[k].end
  <2>1. k # n => k \in 1 .. n - 1
    OBVIOUS
  <2> QED
    BY <2>1 DEF Tiled
<1> QED
  BY <1>1, <1>2 DEF Within, CoversTime

\* The order of the probes is that of the intervals they are in.
LEMMA EarlierWithin ==
    ASSUME NEW T, NEW h, NEW n \in Nat, Tiled(h, T, n), NEW k \in 1 .. n, NEW l \in 1 .. n, k < l,
           NEW past, NEW N \in Nat,
           \A j \in 1 .. N : past[j].at \in Nat,
           \A i, j \in 1 .. N : i < j => past[i].at < past[j].at,
           NEW a \in 1 .. N, NEW b \in 1 .. N, Within(past, h, k, a), Within(past, h, l, b)
    PROVE  a < b
<1>1. h[k].end <= h[l].start /\ h[k].end \in Nat /\ h[l].start \in Nat /\ Len(h) = n
  BY TiledInOrder DEF Tiled
<1>2. past[a].at < h[k].end /\ h[l].start <= past[b].at
  BY <1>1 DEF Within, CoversTime
<1>3. past[a].at \in Nat /\ past[b].at \in Nat
  OBVIOUS
<1>4. past[a].at < past[b].at
  BY <1>1, <1>2, <1>3
<1>5. ~(b < a) /\ a # b
  BY <1>3, <1>4
<1> QED
  BY <1>5

\* The deciding probes, as far as the lemmas below need to know them.
Ordered(past, N) ==
    /\ N \in Nat /\ Len(past) = N /\ DOMAIN past = 1 .. N
    /\ \A j \in 1 .. N : past[j].at \in Nat /\ past[j].ok \in BOOLEAN
    /\ \A i, j \in 1 .. N : i < j => past[i].at < past[j].at

\* The order of the deciding probes, with their times as numbers.
LEMMA InOrderIsOrdered ==
    ASSUME scenario \in Scenarios, NEW past, NEW t, PastInOrder(past, t)
    PROVE  Ordered(past, Len(past))
<1>1. Times \in SUBSET (Nat \ {0})
  BY TimesAreNumbers
<1> HIDE DEF Times
<1>2. PICK N \in Nat : /\ N = Len(past) /\ DOMAIN past = 1 .. N
                       /\ \A j \in 1 .. N : past[j] \in DecidingIn(Times)
  BY DEF PastInOrder
<1>3. \A j \in 1 .. N : past[j].at \in Nat /\ past[j].ok \in BOOLEAN
  BY <1>1, <1>2 DEF DecidingIn
<1>4. \A i, j \in 1 .. N : i < j => past[i].at < past[j].at
  BY <1>2 DEF PastInOrder
<1> QED
  BY <1>2, <1>3, <1>4 DEF Ordered

\* An interval counts as downtime exactly when the failures in it are confirmed.
LEMMA IntervalTellsOutage ==
    ASSUME NEW past, NEW N, Ordered(past, N), NEW T, NEW h, NEW n \in Nat, Tiled(h, T, n),
           HistoryTellsPast(past, h), NEW k \in 1 .. n, NEW m \in 1 .. N, Within(past, h, k, m)
    PROVE  h[k].downtime <=>
              ~past[m].ok /\ \E i \in 1 .. N : ConfirmsIn(past, i) /\ InStreak(past, N, i, m)
<1>1. /\ N \in Nat /\ Len(past) = N /\ Len(h) = n
      /\ \A j \in 1 .. N : past[j].at \in Nat
      /\ \A i, j \in 1 .. N : i < j => past[i].at < past[j].at
  BY DEF Ordered, Tiled
<1>2. \A l \in 1 .. n : \E a \in 1 .. N : Within(past, h, l, a)
  <2> TAKE l \in 1 .. n
  <2>1. PICK a \in 1 .. N : past[a].kind = "evaluate" /\ past[a].at = h[l].start
    BY <1>1 DEF HistoryTellsPast
  <2> QED
    BY <2>1, StartWithin
<1>3. ASSUME NEW l \in 1 .. n, NEW j \in 1 .. N, Within(past, h, l, j)
      PROVE  past[j].ok <=> h[l].status = "UP"
  BY <1>1, <1>3 DEF HistoryTellsPast
<1>4. /\ h[k].downtime <=>
             \/ h[k].status = "DOWN"
             \/ h[k].status = "FAILING" /\ k < n /\ h[k + 1].status = "DOWN"
      /\ h[k].status = "FAILING" /\ k > 1 => h[k - 1].status = "UP"
      /\ h[k].status \in {"UP", "FAILING", "DOWN"}
  BY <1>1 DEF HistoryTellsPast, Tiled
<1>5. \A l \in 1 .. n : h[l].status = "DOWN" =>
         \E i \in 1 .. N : Within(past, h, l, i) /\ ConfirmsIn(past, i)
  BY <1>1 DEF HistoryTellsPast
<1>6. h[k].status = "FAILING" /\ ~h[k].downtime =>
         \A i \in 1 .. N : Within(past, h, k, i) => ~ConfirmsIn(past, i)
  BY <1>1 DEF HistoryTellsPast
<1>7. ASSUME NEW i \in 1 .. N, ConfirmsIn(past, i)
      PROVE  \E l \in 1 .. n : Within(past, h, l, i) /\ h[l].status # "UP"
  <2>1. past[i].kind = "evaluate" /\ ~past[i].ok
    BY <1>7 DEF ConfirmsIn, Failing
  <2>2. n > 0 /\ h[1].start <= past[i].at /\ past[i].at \in Nat
    BY <1>1, <2>1 DEF HistoryTellsPast
  <2>3. PICK l \in 1 .. n : CoversTime(h, l, past[i].at)
    BY <2>2, SomeCovers
  <2>4. Within(past, h, l, i)
    BY <2>1, <2>3 DEF Within
  <2> QED
    BY <1>3, <2>1, <2>4
\* Two probes of an interval have only probes of it between them.
<1>8. ASSUME NEW l \in 1 .. n, NEW a \in 1 .. N, NEW b \in 1 .. N, NEW j \in 1 .. N,
             a <= j, j <= b, past[j].kind = "evaluate",
             Within(past, h, l, a), Within(past, h, l, b)
      PROVE  Within(past, h, l, j)
  <2>1. past[a].at <= past[j].at
    <3>1. a = j \/ a < j
      BY <1>8
    <3> QED
      BY <1>1, <3>1
  <2>2. past[j].at <= past[b].at
    <3>1. j = b \/ j < b
      BY <1>8
    <3> QED
      BY <1>1, <3>1
  <2>3. h[l].start <= past[a].at /\ CoversTime(h, l, past[b].at)
    BY <1>8 DEF Within, CoversTime
  <2>4. CoversTime(h, l, past[j].at)
    BY <1>1, <2>1, <2>2, <2>3, CoversBetween
  <2> QED
    BY <1>8, <2>4 DEF Within
<1>9. CASE h[k].status = "UP"
  <2>1. past[m].ok
    BY <1>3, <1>9
  <2> QED
    BY <1>4, <1>9, <2>1
<1>10. CASE h[k].status = "DOWN"
  <2>1. ~past[m].ok /\ h[k].downtime
    BY <1>3, <1>4, <1>10
  <2>2. PICK i \in 1 .. N : Within(past, h, k, i) /\ ConfirmsIn(past, i)
    BY <1>5, <1>10
  <2>3. ASSUME NEW j \in 1 .. N, (i <= j /\ j <= m) \/ (m <= j /\ j <= i), past[j].kind = "evaluate"
        PROVE  ~past[j].ok
    <3>1. Within(past, h, k, j)
      BY <1>8, <2>2, <2>3
    <3> QED
      BY <1>3, <1>10, <3>1
  <2>4. InStreak(past, N, i, m)
    BY <2>3 DEF InStreak
  <2> QED
    BY <2>1, <2>2, <2>4
<1>11. CASE h[k].status = "FAILING" /\ h[k].downtime
  <2>1. ~past[m].ok /\ k < n /\ h[k + 1].status = "DOWN"
    BY <1>3, <1>4, <1>11
  <2>2. PICK l \in 1 .. n : l = k + 1 /\ k < l /\ h[l].status = "DOWN"
    BY <2>1
  <2>3. PICK i \in 1 .. N : Within(past, h, l, i) /\ ConfirmsIn(past, i)
    BY <1>5, <2>2
  <2>4. PICK b \in 1 .. N : past[b].kind = "evaluate" /\ past[b].at = h[l].start
    BY <1>1 DEF HistoryTellsPast
  <2>5. Within(past, h, l, b)
    BY <2>4, StartWithin
  <2>6. m < i /\ m < b
    BY <1>1, <2>2, <2>3, <2>5, EarlierWithin
  <2>7. ASSUME NEW j \in 1 .. N, (i <= j /\ j <= m) \/ (m <= j /\ j <= i), past[j].kind = "evaluate"
        PROVE  ~past[j].ok
    <3>1. m <= j /\ j <= i
      BY <1>1, <2>6, <2>7
    <3>2. CASE b <= j
      <4>1. Within(past, h, l, j)
        BY <1>8, <2>3, <2>5, <2>7, <3>1, <3>2
      <4> QED
        BY <1>3, <2>2, <4>1
    <3>3. CASE j < b
      <4>1. past[j].at < h[l].start
        BY <1>1, <2>4, <3>3
      <4>2. h[k].end = h[l].start
        <5>1. k \in 1 .. n - 1
          BY <2>1
        <5> QED
          BY <2>2, <5>1 DEF Tiled
      <4>3. past[m].at <= past[j].at
        <5>1. m = j \/ m < j
          BY <1>1, <3>1
        <5> QED
          BY <1>1, <5>1
      <4>4. h[k].start <= past[m].at /\ h[k].start \in Nat
        BY DEF Within, CoversTime, Tiled
      <4>5. h[k].start <= past[j].at
        BY <1>1, <4>3, <4>4
      <4>6. Within(past, h, k, j)
        BY <2>7, <4>1, <4>2, <4>5 DEF Within, CoversTime
      <4> QED
        BY <1>3, <1>11, <4>6
    <3> QED
      BY <1>1, <3>2, <3>3
  <2>8. InStreak(past, N, i, m)
    BY <2>7 DEF InStreak
  <2> QED
    BY <1>11, <2>1, <2>3, <2>8
<1>12. CASE h[k].status = "FAILING" /\ ~h[k].downtime
  <2> SUFFICES ASSUME NEW i \in 1 .. N, ConfirmsIn(past, i), InStreak(past, N, i, m)
               PROVE  FALSE
    BY <1>12
  <2>1. PICK l \in 1 .. n : Within(past, h, l, i) /\ h[l].status # "UP"
    BY <1>7
  \* A neighbour of the interval is UP, and the probe that it starts with lies between.
  <2>2. ASSUME NEW u \in 1 .. n, h[u].status = "UP", (l < u /\ u < k) \/ (k < u /\ u < l)
        PROVE  FALSE
    <3>1. PICK b \in 1 .. N : Within(past, h, u, b)
      BY <1>2
    <3>2. past[b].ok /\ past[b].kind = "evaluate"
      BY <1>3, <2>2, <3>1 DEF Within
    <3>3. (i < b /\ b < m) \/ (m < b /\ b < i)
      <4>0. /\ \A j \in 1 .. N : past[j].at \in Nat
            /\ \A c, d \in 1 .. N : c < d => past[c].at < past[d].at
        BY <1>1
      <4>1. CASE l < u /\ u < k
        <5>1. i < b
          BY <1>1, <2>1, <3>1, <4>0, <4>1, EarlierWithin
        <5>2. b < m
          BY <1>1, <3>1, <4>0, <4>1, EarlierWithin
        <5> QED
          BY <5>1, <5>2
      <4>2. CASE k < u /\ u < l
        <5>1. b < i
          BY <1>1, <2>1, <3>1, <4>0, <4>2, EarlierWithin
        <5>2. m < b
          BY <1>1, <3>1, <4>0, <4>2, EarlierWithin
        <5> QED
          BY <5>1, <5>2
      <4> QED
        BY <2>2, <4>1, <4>2
    <3>4. (i <= b /\ b <= m) \/ (m <= b /\ b <= i)
      BY <1>1, <3>3
    <3> QED
      BY <3>2, <3>4 DEF InStreak
  <2>3. l # k
    BY <1>6, <1>12, <2>1
  <2>4. CASE l < k
    <3>1. PICK u \in 1 .. n : u = k - 1 /\ k > 1
      BY <2>4
    <3>2. h[u].status = "UP"
      BY <1>4, <1>12, <3>1
    <3>3. l = u \/ (l < u /\ u < k)
      BY <2>4, <3>1
    <3>4. l # u
      BY <2>1, <3>2
    <3>5. l < u /\ u < k
      BY <3>3, <3>4
    <3> QED
      BY <2>2, <3>2, <3>5
  <2>5. CASE k < l
    <3>1. PICK u \in 1 .. n : u = k + 1 /\ k < n /\ k \in 1 .. n - 1
      BY <2>5
    <3>2. h[u].status \in {"UP", "FAILING", "DOWN"} /\ h[k].status # h[u].status
      BY <3>1 DEF Tiled
    <3>3. h[u].status # "DOWN"
      BY <1>4, <1>12, <3>1
    <3>4. h[u].status = "UP"
      BY <1>12, <3>2, <3>3
    <3>5. l = u \/ (k < u /\ u < l)
      BY <2>5, <3>1
    <3>6. l # u
      BY <2>1, <3>4
    <3>7. k < u /\ u < l
      BY <3>5, <3>6
    <3> QED
      BY <2>2, <3>4, <3>7
  <2> QED
    BY <2>3, <2>4, <2>5
<1> QED
  BY <1>4, <1>9, <1>10, <1>11, <1>12

\* One probe more that counts: the last run stands for it, too, or a new one does.
LEMMA RunsGoOn ==
    ASSUME scenario \in Scenarios, NEW past \in Seq(DecidingIn(Times)),
           NEW runs \in Seq(RunIn(Times)), NEW t \in Nat, RunsAreOrdered(runs, t),
           RunsTellPast(past, runs), NEW p \in ProbeIn(Times), p.kind = "evaluate",
           NEW more, more = Append(past, p), NEW g, g = ExtendRuns(runs, p)
    PROVE  RunsTellPast(more, g)
<1>1. Times \in SUBSET Nat
  BY TimesAreNumbers
<1> HIDE DEF Times
<1>2. PICK N \in Nat : /\ N = Len(past) /\ Len(more) = N + 1 /\ more[N + 1] = p
                       /\ \A j \in 1 .. N : more[j] = past[j]
  OBVIOUS
<1>3. PICK n \in Nat : /\ n = Len(runs) /\ (runs # <<>> <=> n > 0)
                       /\ \A k \in 1 .. n : runs[k] \in RunIn(Times)
  OBVIOUS
<1>4. PICK first : Divides(first, past, runs)
  BY DEF RunsTellPast
<1>5. /\ \A k \in 1 .. n + 1 : first[k] \in 1 .. N + 1
      /\ \A k \in 1 .. n : first[k] \in 1 .. N /\ first[k] < first[k + 1]
      /\ first[1] = 1 /\ first[n + 1] = N + 1
  <2>1. MadeOf(BackfilledIntervals(runs), runs, n)
    BY <1>1, <1>3, BackfillIsMadeOf
  <2> QED
    BY <1>2, <1>4, <2>1, DividesInOrder
<1>6. \A k \in 1 .. n :
          /\ first[k + 1] = first[k] + runs[k].count
          /\ past[first[k]].at = runs[k].start
          /\ \A j \in first[k] .. first[k + 1] - 1 : past[j].ok = runs[k].ok
  BY <1>3, <1>4 DEF Divides
<1>7. \A j \in 1 .. N + 1 : more[j].kind = "evaluate"
  <2> TAKE j \in 1 .. N + 1
  <2>1. CASE j \in 1 .. N
    BY <1>2, <2>1 DEF RunsTellPast
  <2>2. CASE j = N + 1
    BY <1>2, <2>2
  <2>3. j \in 1 .. N \/ j = N + 1
    OBVIOUS
  <2> QED
    BY <2>1, <2>2, <2>3
\* What the runs before the last one stand for does not change.
<1>8. ASSUME NEW k \in 1 .. n
      PROVE  /\ first[k] \in 1 .. N /\ first[k + 1] \in 1 .. N + 1
             /\ more[first[k]].at = runs[k].start
             /\ \A j \in first[k] .. first[k + 1] - 1 : more[j].ok = runs[k].ok
  <2>1. first[k] \in 1 .. N /\ first[k + 1] \in 1 .. N + 1
    <3>1. k + 1 \in 1 .. n + 1
      BY <1>3
    <3> QED
      BY <1>5, <3>1
  <2>2. \A j \in first[k] .. first[k + 1] - 1 : j \in 1 .. N
    BY <2>1
  <2> QED
    BY <1>2, <1>6, <2>1, <2>2
<1>9. CASE runs # <<>> /\ Last(runs).ok = p.ok
  <2>1. n \in 1 .. n /\ runs[n].ok = p.ok /\ n > 0
    BY <1>3, <1>9 DEF Last
  <2>2. g = [runs EXCEPT ![n] = [runs[n] EXCEPT !.count = runs[n].count + 1]]
    BY <1>3, <1>9 DEF ExtendRuns
  <2>3. PICK r \in RunIn(Times) : r = runs[n] /\ r.count \in Nat
    BY <1>3, <2>1 DEF RunIn
  <2>4. PICK x : x = [r EXCEPT !.count = r.count + 1]
    OBVIOUS
  <2>5. x.start = r.start /\ x.ok = r.ok /\ x.count = r.count + 1
    BY <2>3, <2>4 DEF RunIn
  <2>6. Len(g) = n /\ g[n] = x /\ \A k \in 1 .. n - 1 : g[k] = runs[k]
    BY <1>3, <2>1, <2>2, <2>3, <2>4
  <2> DEFINE next == [k \in 1 .. n + 1 |-> IF k = n + 1 THEN N + 2 ELSE first[k]]
  <2>7. /\ next \in [1 .. n + 1 -> Nat] /\ next[1] = 1 /\ next[n + 1] = N + 2
        /\ \A k \in 1 .. n : next[k] = first[k]
    <3>1. \A k \in 1 .. n + 1 : first[k] \in Nat
      BY <1>5
    <3>2. 1 \in 1 .. n + 1 /\ 1 # n + 1 /\ n + 1 \in 1 .. n + 1
      BY <2>1
    <3>3. next \in [1 .. n + 1 -> Nat]
      BY <3>1
    <3> QED
      BY <1>5, <3>2, <3>3
  <2> HIDE DEF next
  <2>8. ASSUME NEW k \in 1 .. n
        PROVE  /\ next[k + 1] = next[k] + g[k].count
               /\ more[next[k]].at = g[k].start
               /\ \A j \in next[k] .. next[k + 1] - 1 : more[j].ok = g[k].ok
    <3>1. CASE k # n
      <4>1. k \in 1 .. n - 1 /\ k + 1 \in 1 .. n
        BY <3>1
      <4>2. g[k] = runs[k] /\ next[k] = first[k] /\ next[k + 1] = first[k + 1]
        BY <2>6, <2>7, <4>1
      <4>3. /\ first[k + 1] = first[k] + runs[k].count
            /\ more[first[k]].at = runs[k].start
            /\ \A j \in first[k] .. first[k + 1] - 1 : more[j].ok = runs[k].ok
        BY <1>6, <1>8
      <4> QED
        BY <4>2, <4>3
    <3>2. CASE k = n
      <4>1. PICK a \in 1 .. N : a = first[n] /\ next[n] = a
        BY <1>8, <2>1, <2>7
      <4>2. N + 1 = a + r.count
        <5>1. first[n + 1] = first[n] + runs[n].count
          BY <1>6, <2>1
        <5> QED
          BY <1>5, <2>3, <4>1, <5>1
      <4>3. next[n + 1] = next[n] + g[n].count
        <5>1. PICK c \in Nat : c = r.count
          BY <2>3
        <5>2. g[n].count = c + 1 /\ next[n + 1] = N + 2 /\ N + 1 = a + c /\ next[n] = a
          BY <2>5, <2>6, <2>7, <4>1, <4>2, <5>1
        <5>3. N + 2 = a + (c + 1)
          BY <5>2
        <5> QED
          BY <5>2, <5>3
      <4>4. more[next[n]].at = g[n].start
        <5>1. more[first[n]].at = runs[n].start
          BY <1>8, <2>1
        <5>2. g[n].start = runs[n].start
          BY <2>3, <2>5, <2>6
        <5>3. next[n] = first[n]
          BY <4>1
        <5> QED
          BY <5>1, <5>2, <5>3
      <4>5. \A j \in a .. N : more[j].ok = r.ok
        <5>1. \A j \in first[n] .. first[n + 1] - 1 : more[j].ok = runs[n].ok
          BY <1>8, <2>1
        <5>2. first[n] = a /\ first[n + 1] - 1 = N
          BY <1>5, <4>1
        <5> QED
          BY <2>3, <5>1, <5>2
      <4>6. more[N + 1].ok = r.ok
        BY <1>2, <2>1, <2>3
      <4>7. ASSUME NEW j \in next[n] .. next[n + 1] - 1 PROVE more[j].ok = g[n].ok
        <5>1. j \in a .. N \/ j = N + 1
          BY <2>7, <4>1
        <5> QED
          BY <2>5, <2>6, <4>5, <4>6, <5>1
      <4> QED
        BY <3>2, <4>3, <4>4, <4>7
    <3> QED
      BY <3>1, <3>2
  <2>9. Divides(next, more, g)
    <3>1. Len(g) + 1 = n + 1 /\ Len(more) + 1 = N + 2
      BY <1>2, <2>6
    <3> QED
      BY <2>6, <2>7, <2>8, <3>1 DEF Divides
  <2> QED
    BY <1>2, <1>7, <2>9 DEF RunsTellPast
<1>10. CASE ~(runs # <<>> /\ Last(runs).ok = p.ok)
  <2>1. PICK x : x = [start |-> p.at, ok |-> p.ok, count |-> 1]
    OBVIOUS
  <2>2. g = Append(runs, x)
    BY <1>10, <2>1, Zenon DEF ExtendRuns
  <2>3. x.start = p.at /\ x.ok = p.ok /\ x.count = 1
    BY <2>1
  <2>4. Len(g) = n + 1 /\ g[n + 1] = x /\ \A k \in 1 .. n : g[k] = runs[k]
    BY <1>3, <2>2
  <2> DEFINE next == [k \in 1 .. n + 2 |-> IF k = n + 2 THEN N + 2 ELSE first[k]]
  <2>5. /\ next \in [1 .. n + 2 -> Nat] /\ next[1] = 1 /\ next[n + 2] = N + 2
        /\ \A k \in 1 .. n + 1 : next[k] = first[k]
    <3>1. \A k \in 1 .. n + 1 : first[k] \in Nat
      BY <1>5
    <3>2. 1 \in 1 .. n + 2 /\ 1 # n + 2 /\ n + 2 \in 1 .. n + 2
      BY <1>3
    <3>3. \A k \in 1 .. n + 2 : k = n + 2 \/ k \in 1 .. n + 1
      BY <1>3
    <3>4. next \in [1 .. n + 2 -> Nat]
      BY <3>1, <3>3
    <3> QED
      BY <1>5, <3>2, <3>4
  <2> HIDE DEF next
  <2>6. ASSUME NEW k \in 1 .. n + 1
        PROVE  /\ next[k + 1] = next[k] + g[k].count
               /\ more[next[k]].at = g[k].start
               /\ \A j \in next[k] .. next[k + 1] - 1 : more[j].ok = g[k].ok
    <3>1. CASE k # n + 1
      <4>1. k \in 1 .. n /\ k \in 1 .. n + 1 /\ k + 1 \in 1 .. n + 1
        BY <3>1
      <4> QED
        BY <1>6, <1>8, <2>4, <2>5, <4>1
    <3>2. CASE k = n + 1
      <4>1. n + 1 \in 1 .. n + 1 /\ n + 1 + 1 = n + 2
        BY <1>3
      <4>2. next[n + 1] = N + 1 /\ next[n + 1 + 1] = N + 2
        BY <1>5, <2>5, <4>1
      <4>3. \A j \in N + 1 .. N + 2 - 1 : j = N + 1
        OBVIOUS
      <4>4. N + 2 = N + 1 + 1
        OBVIOUS
      <4> QED
        BY <1>2, <2>3, <2>4, <3>2, <4>2, <4>3, <4>4
    <3> QED
      BY <3>1, <3>2
  <2>7. Divides(next, more, g)
    <3>1. Len(g) + 1 = n + 2 /\ Len(more) + 1 = N + 2 /\ Len(g) = n + 1
      BY <1>2, <2>4
    <3> QED
      BY <2>5, <2>6, <3>1 DEF Divides
  <2> QED
    BY <1>2, <1>7, <2>7 DEF RunsTellPast
<1> QED
  BY <1>9, <1>10

\* What is recorded as downtime are the outages.
LEMMA DowntimeTold ==
    ASSUME Base, OutageInv, Undisturbed
    PROVE  DowntimeIsOutage
<1> SUFFICES ASSUME marked, ~removed, NEW t \in Recorded
             PROVE  IF AfterMaintenanceAt(t) THEN IntervalAt(t).downtime
                    ELSE IntervalAt(t).downtime = OutageAt(t)
  BY DEF DowntimeIsOutage
<1>1. PICK n \in Nat : n = Len(intervals) /\ Tiled(intervals, Times, n)
  BY BaseIsTiled
<1>2. /\ n > 0 /\ intervals[1].start \in Nat
      /\ t \in Nat /\ intervals[1].start <= t
  <2>1. intervals # <<>> /\ t \in Head(intervals).start .. now - 1 /\ now \in Nat
    BY BaseIsTiled DEF Recorded
  <2>2. intervals \in Seq(IntervalIn(Times))
    BY <1>1 DEF Tiled
  <2>3. n > 0 /\ 1 \in 1 .. n /\ Head(intervals) = intervals[1]
    BY <1>1, <2>1, <2>2
  <2>4. intervals[1].start \in Nat
    BY <1>1, <2>3 DEF Tiled
  <2> QED
    BY <2>1, <2>3, <2>4
<1>3. PICK k \in 1 .. n : CoversTime(intervals, k, t)
  BY <1>1, <1>2, SomeCovers
<1>4. IntervalAt(t) = intervals[k]
  BY <1>1, <1>2, <1>3, IntervalAtIs
<1>5. PICK past : past = Deciding /\ PastInOrder(past, LastTime(probes))
                  /\ HistoryTellsPast(past, intervals)
  BY DEF OutageInv
<1>6. PICK N \in Nat : N = Len(past) /\ Ordered(past, N)
  <2>1. Ordered(past, Len(past))
    BY <1>5, InOrderIsOrdered DEF Base
  <2> QED
    BY <2>1 DEF Ordered
<1>7. /\ DOMAIN past = 1 .. N
      /\ \A j \in 1 .. N : past[j].at \in Nat
      /\ \A i, j \in 1 .. N : i < j => past[i].at < past[j].at
  BY <1>6 DEF Ordered
<1>8. PICK a \in 1 .. N : past[a].kind = "evaluate" /\ past[a].at = intervals[k].start
  BY <1>1, <1>5, <1>6 DEF HistoryTellsPast
<1> DEFINE until == {j \in 1 .. N : past[j].kind = "evaluate" /\ past[j].at <= t}
<1>9. until \in SUBSET (1 .. N) /\ a \in until
  <2>1. intervals[k].start <= t
    BY <1>3 DEF CoversTime
  <2> QED
    BY <1>8, <2>1
<1>10. PICK m \in until : \A j \in until : j <= m
  <2> HIDE DEF until
  <2>1. until # {}
    BY <1>9
  <2> QED
    BY <1>9, <2>1, MaxOfPlaces
<1>11. m \in 1 .. N /\ past[m].kind = "evaluate" /\ past[m].at <= t
  BY <1>10
<1>12. \A j \in 1 .. N : past[j].kind = "evaluate" /\ past[j].at <= t => j <= m
  BY <1>10
<1>13. a <= m
  BY <1>9, <1>10
<1> HIDE DEF until
<1>14. past[a].at <= past[m].at
  <2>1. a = m \/ a < m
    BY <1>11, <1>13
  <2> QED
    BY <1>7, <1>11, <2>1
<1>15. Within(past, intervals, k, m)
  <2>1. intervals[k].start \in Nat /\ intervals[k].start <= intervals[k].start
    BY <1>1 DEF Tiled
  <2>2. past[m].at \in Nat /\ intervals[k].start <= past[m].at
    BY <1>7, <1>8, <1>11, <1>14
  <2>3. CoversTime(intervals, k, past[m].at)
    BY <1>1, <1>2, <1>3, <1>11, <2>1, <2>2, CoversBetween
  <2> QED
    BY <1>11, <2>3 DEF Within
<1>16. OutageAt(t) \/ AfterMaintenanceAt(t) <=>
          ~past[m].ok /\ \E i \in 1 .. N : ConfirmsIn(past, i) /\ InStreak(past, N, i, m)
  BY <1>5, <1>7, <1>11, <1>12, OutageIs
<1>17. intervals[k].downtime <=>
          ~past[m].ok /\ \E i \in 1 .. N : ConfirmsIn(past, i) /\ InStreak(past, N, i, m)
  BY <1>1, <1>5, <1>6, <1>11, <1>15, IntervalTellsOutage
<1>18. intervals[k].downtime \in BOOLEAN
  <2>1. intervals[k] \in IntervalIn(Times)
    BY <1>1 DEF Tiled
  <2> QED
    BY <2>1 DEF IntervalIn
<1>19. OutageAt(t) \in BOOLEAN
  BY DEF OutageAt
<1>20. intervals[k].downtime <=> OutageAt(t) \/ AfterMaintenanceAt(t)
  BY <1>16, <1>17
<1> QED
  BY <1>4, <1>18, <1>19, <1>20

\* A monitor without a probe has nothing to tell.
LEMMA OutageInit ==
    ASSUME Init
    PROVE  OutageInv
<1>1. probes = <<>> /\ row = NoRow /\ intervals = <<>>
  BY DEF Init
<1>2. Deciding = <<>> /\ UptimeRuns(probes) = <<>>
  BY <1>1, DecidingOfNone, RunsOfNone DEF Deciding
<1>3. <<>> \in Seq(DecidingIn(Times)) /\ Len(<<>>) = 0
  OBVIOUS
<1>4. PastInOrder(Deciding, LastTime(probes))
  <2>1. 1 .. 0 = {}
    OBVIOUS
  <2> QED
    BY <1>2, <1>3, <2>1 DEF PastInOrder
<1>5. RowTellsPast(Deciding)
  <2>1. \A m \in 1 .. MaxFailures : row.failures >= m <=> AllFailing(Deciding, Len(Deciding), m)
    <3> TAKE m \in 1 .. MaxFailures
    <3>1. m \in Nat /\ ~(0 >= m)
      BY MaxFailuresAssumption
    <3>2. row.failures = 0
      BY <1>1 DEF NoRow
    <3> QED
      BY <1>2, <1>3, <3>1, <3>2 DEF AllFailing
  <2> QED
    BY <1>1, <1>2, <2>1 DEF RowTellsPast
<1>6. RunsTellPast(Deciding, UptimeRuns(probes))
  <2> DEFINE first == [k \in 1 .. 1 |-> 1]
  <2>1. /\ first \in [1 .. 0 + 1 -> Nat] /\ first[1] = 1 /\ first[0 + 1] = 0 + 1
        /\ 1 .. 0 = {}
    OBVIOUS
  <2> HIDE DEF first
  <2>2. Divides(first, Deciding, UptimeRuns(probes))
    BY <1>2, <1>3, <2>1 DEF Divides
  <2> QED
    BY <1>2, <1>3, <2>1, <2>2 DEF RunsTellPast
<1>7. HistoryTellsPast(Deciding, intervals)
  <2>1. Len(Deciding) = 0 /\ Len(intervals) = 0 /\ 1 .. 0 = {}
    BY <1>1, <1>2, <1>3
  <2> QED
    BY <2>1 DEF HistoryTellsPast
<1> QED
  BY <1>4, <1>5, <1>6, <1>7 DEF OutageInv

\* A probe that is evaluated leaves the intervals telling what the probes do.
LEMMA EvaluatedTells ==
    ASSUME Base, StatusInv, Undisturbed, marked, ~removed,
           NEW past, PastInOrder(past, LastTime(probes)),
           RowTellsPast(past), HistoryTellsPast(past, intervals), LastTime(probes) < now,
           NEW ok \in BOOLEAN, NEW p \in DecidingIn(Times), p.at = now, p.ok = ok,
           p.kind = "evaluate", NEW more, more = Append(past, p),
           NEW status, status = Evaluated(Previous(row), ok, Threshold).status,
           NEW g, g = SaveStatusInterval(intervals, status, now)
    PROVE  HistoryTellsPast(more, g)
<1>1. /\ now \in Times /\ now \in Nat /\ LastTime(probes) \in Nat /\ row \in MonitorRow
      /\ scenario \in Scenarios
  BY BaseTypes DEF Base
<1>2. Tiled(intervals, Times, Len(intervals)) /\ Len(intervals) \in Nat
  BY BaseIsTiled
<1>3. PICK N \in Nat : /\ N = Len(past) /\ Len(more) = N + 1 /\ more[N + 1] = p
                       /\ \A j \in 1 .. N : /\ more[j] = past[j]
                                            /\ past[j].at < now /\ past[j].at \in Nat
  <2>1. /\ Len(past) \in Nat /\ Len(more) = Len(past) + 1
        /\ more[Len(past) + 1] = p
        /\ \A j \in 1 .. Len(past) : more[j] = past[j] /\ past[j].at < p.at /\ past[j].at \in Nat
    BY <1>1, PastGoesOn
  <2> QED
    BY <2>1
<1>4. /\ past # <<>> <=> N > 0
      /\ N > 0 => past[N].kind \in {"evaluate", "maintenance"}
  <2>1. past \in Seq(DecidingIn(Times))
    BY DEF PastInOrder
  <2>2. past # <<>> <=> N > 0
    BY <1>3, <2>1
  <2>3. N > 0 => past[N] \in DecidingIn(Times)
    BY <1>3, <2>1
  <2> QED
    BY <2>2, <2>3 DEF DecidingIn
<1>5. GoesOn(past, more, N)
  BY <1>3 DEF GoesOn
<1>6. status \in {"UP", "FAILING", "DOWN"}
  BY EvaluatedStatus
<1>7. CASE ok = TRUE
  <2>1. status = "UP"
    BY <1>7 DEF Evaluated, EvaluateProbe, Evaluate
  <2>2. more[N + 1].kind = "evaluate" /\ more[N + 1].at = now /\ more[N + 1].ok
    BY <1>3, <1>7
  <2> QED
    BY <1>1, <1>2, <1>3, <1>5, <1>6, <2>1, <2>2, HistoryGoesOn
<1>8. CASE ok = FALSE
  <2>1. Failing(more[N + 1])
    BY <1>3, <1>8 DEF Failing
  <2>2. /\ status \in {"FAILING", "DOWN"}
        /\ status = "DOWN" <=> row.status = "DOWN" \/ ConfirmsIn(more, N + 1)
        /\ row.status = "MAINTENANCE" => status = "DOWN"
    <3>1. PICK next : /\ next = Evaluated(Previous(row), FALSE, Threshold)
                      /\ status = next.status
      BY <1>8
    <3>3. next = Evaluated(Previous(row), FALSE, Threshold)
      BY <3>1
    <3>4. /\ next.failures = Saturated(row.failures + 1)
          /\ next.status \in {"FAILING", "DOWN"}
          /\ next.status = "DOWN" <=> row.status = "DOWN" \/ ConfirmsIn(more, N + 1)
          /\ row.status = "MAINTENANCE" => next.status = "DOWN"
      <4>2. past # <<>> <=> N > 0
        BY <1>4
      <4>3. N > 0 => past[N].kind \in {"evaluate", "maintenance"}
        BY <1>4
      <4>4. row \in MonitorRow
        BY <1>1
      <4> QED
        BY <1>5, <2>1, <3>3, <4>2, <4>3, <4>4, DownIfConfirmed, ZenonT(30)
    <3> QED
      BY <3>1, <3>4
  \* The open interval has the status of the row, unless there was no probe yet.
  <2>3. intervals # <<>> => past # <<>>
    <3> SUFFICES ASSUME intervals # <<>> PROVE past # <<>>
      OBVIOUS
    <3>1. 1 \in 1 .. Len(intervals)
      <4>1. intervals \in Seq(IntervalIn(Times))
        BY <1>2 DEF Tiled
      <4> QED
        BY <4>1
    <3>2. PICK a \in 1 .. Len(past) : past[a].kind = "evaluate"
      BY <3>1 DEF HistoryTellsPast
    <3> QED
      BY <1>3, <1>4, <3>2
  <2>4. row.status \in {"UP", "FAILING", "DOWN"} =>
           intervals # <<>> /\ intervals[Len(intervals)].status = row.status
    <3> SUFFICES ASSUME row.status \in {"UP", "FAILING", "DOWN"}
                 PROVE  intervals # <<>> /\ intervals[Len(intervals)].status = row.status
      OBVIOUS
    <3>1. StatusOutsideMaintenance(row) = row.status
      BY DEF StatusOutsideMaintenance, Exists, NoStatus
    <3>2. OpenIntervalTellsStatus
      BY DEF StatusInv
    <3> QED
      BY <3>1, <3>2 DEF OpenIntervalTellsStatus, Last
  <2>5. past # <<>> => row.status \in {"MAINTENANCE", "UP", "FAILING", "DOWN"}
    <3> SUFFICES ASSUME past # <<>> PROVE row.status \in {"MAINTENANCE", "UP", "FAILING", "DOWN"}
      OBVIOUS
    <3>1. past[N].kind \in {"evaluate", "maintenance"}
      BY <1>4
    <3>2. /\ past[N].kind = "maintenance" => row.status = "MAINTENANCE"
          /\ past[N].kind = "evaluate" /\ past[N].ok => row.status = "UP"
          /\ past[N].kind = "evaluate" /\ ~past[N].ok => row.status \in {"FAILING", "DOWN"}
      BY <1>3 DEF RowTellsPast
    <3> QED
      BY <3>1, <3>2
  <2>6. status = "FAILING" =>
           /\ ~ConfirmsIn(more, N + 1)
           /\ intervals # <<>> => intervals[Len(intervals)].status # "DOWN"
    BY <2>2, <2>3, <2>4, <2>5
  <2>7. status = "DOWN" => \/ intervals # <<>> /\ intervals[Len(intervals)].status = "DOWN"
                           \/ ConfirmsIn(more, N + 1)
    BY <2>2, <2>4
  <2>8. more[N + 1].kind = "evaluate" /\ more[N + 1].at = now /\ ~more[N + 1].ok
    BY <1>3, <1>8
  <2>9. more[N + 1].ok <=> status = "UP"
    BY <2>2, <2>8
  <2>10. \A j \in 1 .. N : past[j].at \in Nat /\ past[j].at < now
    BY <1>3
  <2> QED
    BY <1>1, <1>2, <1>5, <1>6, <2>6, <2>7, <2>8, <2>9, <2>10, HistoryGoesOn
<1> QED
  BY <1>7, <1>8

\* What a probe saves; only one inside a maintenance window is of kind maintenance.
LEMMA ProbeSaves ==
    ASSUME Base, scenario' = scenario, NEW ok \in BOOLEAN, Probe(ok)
    PROVE  \E kind \in {"evaluate", "maintenance", "suppressed"}, p \in ProbeIn(Times) :
              /\ SaveProbe(ok, kind) /\ (kind = "maintenance" => windows # {})
              /\ p.at = now /\ p.ok = ok /\ p.kind = kind
              /\ probes' = Append(probes, p) /\ LastTime(probes') = now
              /\ UptimeRuns(probes') = ExtendRuns(UptimeRuns(probes), p)
              /\ Deciding' = AddDeciding(Deciding, p)
<1>1. PICK degraded \in BOOLEAN :
        SaveProbe(ok, KindOfProbe(ok, ObserverStatus, InMaintenance, degraded))
  BY DEF Probe
<1>2. PICK kind \in {"evaluate", "maintenance", "suppressed"} :
         SaveProbe(ok, kind) /\ (kind = "maintenance" => windows # {})
  <2>1. KindOfProbe(ok, ObserverStatus, InMaintenance, degraded)
          \in {"evaluate", "maintenance", "suppressed"}
        /\ (KindOfProbe(ok, ObserverStatus, InMaintenance, degraded) = "maintenance"
              => InMaintenance)
    BY DEF KindOfProbe
  <2>2. InMaintenance => windows # {}
    BY DEF InMaintenance
  <2> QED
    BY <1>1, <2>1, <2>2
<1>3. now \in Times /\ probes \in Seq(ProbeIn(Times))
  BY BaseTypes
<1>4. PICK p \in ProbeIn(Times) : p = [at |-> now, ok |-> ok, kind |-> kind]
  BY <1>3 DEF ProbeIn
<1>5. p.at = now /\ p.ok = ok /\ p.kind = kind /\ probes' = Append(probes, p)
  BY <1>2, <1>4 DEF SaveProbe
<1>6. LastTime(probes') = now
  BY <1>3, <1>5, LastTimeOfOneMore
<1>7. UptimeRuns(probes') = ExtendRuns(UptimeRuns(probes), p)
  BY <1>3, <1>5, RunsOfOneMore
<1>8. Deciding' = AddDeciding(Deciding, p)
  BY <1>3, <1>5, DecidingOfOneMore DEF Deciding
<1> QED
  BY <1>2, <1>5, <1>6, <1>7, <1>8

\* Nothing that decides happens in a step that leaves the probes that decide, the row, the
\* runs and the intervals alone.
LEMMA OutageKept ==
    ASSUME OutageInv, scenario' = scenario, Deciding' = Deciding,
           NEW t \in Nat, NEW u \in Nat, t = LastTime(probes), u = LastTime(probes'), t <= u,
           scenario \in Scenarios,
           UptimeRuns(probes') = UptimeRuns(probes), row' = row \/ removed',
           UNCHANGED <<intervals, marked>>, removed => removed'
    PROVE  OutageInv'
<1>1. Times' = Times /\ Undisturbed' = Undisturbed
  BY DEF Times, Undisturbed
<1>2. PICK past : past = Deciding
  OBVIOUS
<1>3. PastInOrder(past, t)
  BY <1>2 DEF OutageInv
<1>4. PastInOrder(past, u)
  <2>1. Ordered(past, Len(past))
    BY <1>3, InOrderIsOrdered
  <2>2. ASSUME NEW n \in 1 .. Len(past) PROVE past[n].at <= u
    <3>1. past[n].at <= t /\ past[n].at \in Nat
      BY <1>3, <2>1 DEF PastInOrder, Ordered
    <3> QED
      BY <3>1
  <2> QED
    BY <1>3, <2>2 DEF PastInOrder
<1>5. PastInOrder(Deciding, LastTime(probes))'
  <2>1. Deciding' = past /\ LastTime(probes') = u
    BY <1>2
  <2> QED
    BY <1>1, <1>4, <2>1 DEF PastInOrder
<1>6. ~removed' => RowTellsPast(Deciding)'
  <2> SUFFICES ASSUME ~removed' PROVE RowTellsPast(Deciding)'
    OBVIOUS
  <2>1. RowTellsPast(Deciding) /\ row' = row /\ Deciding' = Deciding
    BY DEF OutageInv
  <2> QED
    BY <2>1, Zenon DEF RowTellsPast
<1>7. RunsTellPast(Deciding', UptimeRuns(probes')) = RunsTellPast(Deciding, UptimeRuns(probes))
      /\ HistoryTellsPast(Deciding', intervals') = HistoryTellsPast(Deciding, intervals)
  OBVIOUS
<1> QED
  BY <1>1, <1>5, <1>6, <1>7 DEF OutageInv

\* more is past with the probe p after it, later than the others.
LaterThan(past, p, more) ==
    /\ Len(past) \in Nat /\ Len(more) = Len(past) + 1
    /\ more[Len(past) + 1] = p
    /\ \A j \in 1 .. Len(past) : more[j] = past[j] /\ past[j].at < p.at /\ past[j].at \in Nat

\* The probe taken now goes after the deciding ones.
LEMMA PastGoesOnNow ==
    ASSUME scenario \in Scenarios, LastTime(probes) \in Nat, now \in Nat, now \in Times,
           NEW past, PastInOrder(past, LastTime(probes)), LastTime(probes) < now,
           NEW p \in DecidingIn(Times), p.at = now,
           NEW more, more = Append(past, p)
    PROVE  LaterThan(past, p, more) /\ PastInOrder(more, now)
<1>1. LaterThan(past, p, more)
  BY PastGoesOn DEF LaterThan
<1>2. PastInOrder(more, now)
  <2>1. PICK N \in Nat : N = Len(past)
    BY <1>1 DEF LaterThan
  <2>2. /\ more \in Seq(DecidingIn(Times)) /\ Len(more) = N + 1 /\ more[N + 1].at = now
        /\ \A j \in 1 .. N : more[j].at = past[j].at /\ past[j].at < now /\ past[j].at \in Nat
    BY <1>1, <2>1 DEF LaterThan, PastInOrder
  <2>3. \A i, j \in 1 .. N : i < j => past[i].at < past[j].at
    BY <2>1 DEF PastInOrder
  <2>4. 1 .. N + 1 = 1 .. N \cup {N + 1}
    OBVIOUS
  <2>5. \A n \in 1 .. N + 1 : more[n].at <= now
    BY <2>2, <2>4
  <2>6. \A i, j \in 1 .. N + 1 : i < j => more[i].at < more[j].at
    <3> TAKE i, j \in 1 .. N + 1
    <3> HAVE i < j
    <3>1. i \in 1 .. N
      OBVIOUS
    <3> QED
      BY <2>2, <2>3, <2>4, <3>1
  <2> QED
    BY <2>2, <2>5, <2>6 DEF PastInOrder
<1> QED
  BY <1>1, <1>2

\* A probe leaves row, runs and intervals telling what the probes did.
LEMMA OutageProbe ==
    ASSUME Base, StatusInv, OutageInv, scenario' = scenario, NEW ok \in BOOLEAN, Probe(ok)
    PROVE  OutageInv'
<1>1. PICK kind \in {"evaluate", "maintenance", "suppressed"}, p \in ProbeIn(Times) :
              /\ SaveProbe(ok, kind) /\ (kind = "maintenance" => windows # {})
              /\ p.at = now /\ p.ok = ok /\ p.kind = kind
              /\ probes' = Append(probes, p) /\ LastTime(probes') = now
              /\ UptimeRuns(probes') = ExtendRuns(UptimeRuns(probes), p)
              /\ Deciding' = AddDeciding(Deciding, p)
  BY ProbeSaves
<1>2. /\ LastTime(probes) < now /\ marked' = marked /\ removed' = removed
      /\ recording' = recording
  BY DEF Probe
<1>3. /\ now \in Times /\ now \in Nat /\ LastTime(probes) \in Nat /\ row \in MonitorRow
      /\ scenario \in Scenarios /\ Times \in SUBSET Nat
  BY BaseTypes DEF Base
<1>4. Times' = Times /\ Undisturbed' = Undisturbed
  BY DEF Times, Undisturbed
<1>5. PICK past : past = Deciding
  OBVIOUS
<1>6. /\ PastInOrder(past, LastTime(probes)) /\ past \in Seq(DecidingIn(Times))
      /\ ~removed => RowTellsPast(past)
      /\ Undisturbed /\ ~marked => RunsTellPast(past, UptimeRuns(probes))
      /\ Undisturbed /\ marked /\ ~removed => HistoryTellsPast(past, intervals)
  BY <1>5 DEF OutageInv, PastInOrder
<1> HIDE DEF Times
<1>7. CASE kind = "suppressed"
  <2>1. intervals' = intervals /\ row' = row
    BY <1>1, <1>7 DEF SaveProbe
  <2>2. Deciding' = Deciding
    BY <1>1, <1>7 DEF AddDeciding
  <2>3. UptimeRuns(probes') = UptimeRuns(probes)
    BY <1>1, <1>7 DEF ExtendRuns
  <2>4. PICK t \in Nat, u \in Nat : t = LastTime(probes) /\ u = LastTime(probes') /\ t <= u
    BY <1>1, <1>2, <1>3
  <2> QED
    BY <1>2, <1>3, <2>1, <2>2, <2>3, <2>4, OutageKept
<1>8. CASE kind # "suppressed"
  <2>1. p \in DecidingIn(Times) /\ p.kind = kind /\ p.at = now
    BY <1>1, <1>8 DEF ProbeIn, DecidingIn
  <2>2. PICK more : more = Append(past, p) /\ Deciding' = more
    BY <1>1, <1>5, <1>8 DEF AddDeciding
  <2>3. /\ PastInOrder(more, now)
        /\ Len(past) \in Nat /\ Len(more) = Len(past) + 1
        /\ more[Len(past) + 1] = p
        /\ \A j \in 1 .. Len(past) : more[j] = past[j]
    <3>1. /\ scenario \in Scenarios /\ LastTime(probes) \in Nat /\ now \in Nat /\ now \in Times
          /\ PastInOrder(past, LastTime(probes)) /\ LastTime(probes) < now
      BY <1>2, <1>3, <1>6
    <3>2. p \in DecidingIn(Times) /\ p.at = now /\ more = Append(past, p)
      BY <2>1, <2>2
    <3>3. LaterThan(past, p, more) /\ PastInOrder(more, now)
      BY <3>1, <3>2, PastGoesOnNow
    <3> QED
      BY <2>1, <3>3 DEF LaterThan
  <2>4. row' = IF p.kind = "maintenance" THEN MaintenanceState(Previous(row))
               ELSE Evaluated(Previous(row), ok, Threshold)
    BY <1>1, <1>8 DEF SaveProbe
  <2>5. PastInOrder(Deciding, LastTime(probes))'
    BY <1>1, <1>4, <2>2, <2>3 DEF PastInOrder
  <2>6. ~removed' => RowTellsPast(Deciding)'
    <3> SUFFICES ASSUME ~removed PROVE RowTellsPast(Deciding)'
      BY <1>2
    <3>1. RowTellsPast(more)'
      BY <1>1, <1>3, <1>6, <2>1, <2>2, <2>4, RowTellsMore
    <3> QED
      BY <2>2, <3>1, Zenon DEF RowTellsPast
  <2>7. Undisturbed /\ ~marked => RunsTellPast(more, UptimeRuns(probes'))
    <3> SUFFICES ASSUME Undisturbed, ~marked PROVE RunsTellPast(more, UptimeRuns(probes'))
      OBVIOUS
    <3>1. windows = {}
      BY DEF StatusInv, DueIfMigrated
    <3>2. p.kind = "evaluate"
      BY <1>1, <1>8, <3>1
    <3>3. PICK runs : /\ runs = UptimeRuns(probes) /\ runs \in Seq(RunIn(Times))
                      /\ RunsAreOrdered(runs, LastTime(probes)) /\ RunsTellPast(past, runs)
      BY <1>6 DEF Base, RunsInOrder
    <3>4. UptimeRuns(probes') = ExtendRuns(runs, p)
      BY <1>1, <3>3
    <3> QED
      BY <1>3, <1>6, <2>2, <3>2, <3>3, <3>4, RunsGoOn
  <2>8. Undisturbed /\ marked /\ ~removed => HistoryTellsPast(more, intervals')
    <3> SUFFICES ASSUME Undisturbed, marked, ~removed PROVE HistoryTellsPast(more, intervals')
      OBVIOUS
    <3>1. CASE kind = "maintenance"
      <4>1. intervals' = intervals
        BY <1>1, <3>1 DEF SaveProbe
      <4>2. GoesOn(past, more, Len(past)) /\ Len(past) \in Nat
        BY <2>3 DEF GoesOn
      <4>3. more[Len(past) + 1].kind # "evaluate"
        BY <2>1, <2>3, <3>1
      <4>4. \A k \in 1 .. Len(intervals) : ~Within(more, intervals, k, Len(past) + 1)
        BY <4>3 DEF Within
      <4>5. Len(intervals) \in Nat
        BY BaseIsTiled
      <4>6. HistoryTellsPast(more, intervals)
        BY <1>6, <4>2, <4>3, <4>4, <4>5, HistoryKept
      <4> QED
        BY <4>1, <4>6
    <3>2. CASE kind = "evaluate"
      <4>1. recording
        BY DEF StatusInv, DueIfMigrated
      <4>2. PICK status : /\ status = Evaluated(Previous(row), ok, Threshold).status
                          /\ intervals' = SaveStatusInterval(intervals, status, now)
        BY <1>1, <3>2, <4>1 DEF SaveProbe
      <4>3. p.ok = ok /\ p.kind = "evaluate" /\ p.at = now
        BY <1>1, <3>2
      <4> QED
        BY <1>2, <1>6, <2>1, <2>2, <4>2, <4>3, EvaluatedTells
    <3> QED
      BY <1>8, <3>1, <3>2
  <2> QED
    BY <1>2, <1>4, <2>2, <2>5, <2>6, <2>7, <2>8 DEF OutageInv
<1> QED
  BY <1>7, <1>8

\* The backfill makes the intervals tell what the runs told.
LEMMA OutageBackfill ==
    ASSUME Base, StatusInv, OutageInv, scenario' = scenario, Backfill
    PROVE  OutageInv'
<1>1. /\ intervals' = BackfilledIntervals(UptimeRuns(probes)) /\ ~marked /\ marked'
      /\ UNCHANGED <<row, probes, removed>>
  BY DEF Backfill
<1>2. Times' = Times /\ Undisturbed' = Undisturbed /\ Deciding' = Deciding
  BY <1>1 DEF Times, Undisturbed, Deciding
<1>3. PastInOrder(Deciding, LastTime(probes))'
  <2>1. LastTime(probes') = LastTime(probes)
    BY <1>1
  <2>2. PastInOrder(Deciding, LastTime(probes))
    BY DEF OutageInv
  <2> QED
    BY <1>2, <2>1, <2>2 DEF PastInOrder
<1>4. ~removed' => RowTellsPast(Deciding)'
  <2>1. ~removed => RowTellsPast(Deciding)
    BY DEF OutageInv
  <2>2. RowTellsPast(Deciding)' = RowTellsPast(Deciding)
    BY <1>1, <1>2 DEF RowTellsPast
  <2> QED
    BY <1>1, <2>1, <2>2
<1>5. Undisturbed => HistoryTellsPast(Deciding', intervals')
  <2> SUFFICES ASSUME Undisturbed PROVE HistoryTellsPast(Deciding, intervals')
    BY <1>2
  <2>1. PICK past : past = Deciding /\ PastInOrder(past, LastTime(probes))
                    /\ RunsTellPast(past, UptimeRuns(probes))
    BY <1>1 DEF OutageInv
  <2>2. PICK t \in Nat : t = LastTime(probes)
    BY BaseTypes
  <2>3. PICK runs : runs = UptimeRuns(probes) /\ runs \in Seq(RunIn(Times)) /\ RunsAreOrdered(runs, t)
    BY <2>2 DEF Base, RunsInOrder
  <2>4. Times \in SUBSET Nat /\ scenario \in Scenarios
    BY BaseTypes DEF Base
  <2>5. PICK h : h = intervals' /\ h = BackfilledIntervals(runs)
    BY <1>1, <2>3
  <2>6. MadeOf(h, runs, Len(runs))
    BY <2>2, <2>3, <2>4, <2>5, BackfillIsMadeOf
  <2>7. HistoryTellsPast(past, h)
    BY <2>1, <2>2, <2>3, <2>4, <2>6, BackfillTells
  <2> QED
    BY <2>1, <2>5, <2>7
<1> QED
  BY <1>1, <1>2, <1>3, <1>4, <1>5 DEF OutageInv

\* No step spoils what the row, the runs and the intervals tell.
LEMMA OutageNext ==
    ASSUME Base, StatusInv, OutageInv, [Next]_vars
    PROVE  OutageInv'
<1>1. scenario' = scenario /\ scenario \in Scenarios
  BY DEF Next, vars, Base
<1>2. LastTime(probes) \in Nat
  BY BaseTypes
<1>3. ASSUME UNCHANGED <<probes, intervals, marked>>, row' = row \/ removed', removed => removed'
      PROVE  OutageInv'
  <2>1. PICK t \in Nat, u \in Nat : t = LastTime(probes) /\ u = LastTime(probes') /\ t <= u
    BY <1>2, <1>3
  <2>2. Deciding' = Deciding /\ UptimeRuns(probes') = UptimeRuns(probes)
    BY <1>3 DEF Deciding
  <2> QED
    BY <1>1, <1>3, <2>1, <2>2, OutageKept
<1>4. CASE Tick
  BY <1>3, <1>4 DEF Tick
<1>5. CASE \E ok \in BOOLEAN : Probe(ok)
  BY <1>1, <1>5, OutageProbe
<1>6. CASE Backfill
  BY <1>1, <1>6, OutageBackfill
<1>7. CASE \E start \in 1 .. scenario.end, end \in 2 .. scenario.end + 1 : AddWindow(start, end)
  BY <1>3, <1>7 DEF AddWindow
<1>8. CASE \E w \in windows : CancelWindow(w)
  BY <1>3, <1>8 DEF CancelWindow
<1>9. CASE ObserverTransition
  BY <1>3, <1>9 DEF ObserverTransition
<1>10. CASE RemoveMonitor
  BY <1>3, <1>10 DEF RemoveMonitor
<1>11. CASE Upgrade
  BY <1>3, <1>11 DEF Upgrade
<1>12. CASE UNCHANGED vars
  BY <1>3, <1>12 DEF vars
<1> QED
  BY <1>4, <1>5, <1>6, <1>7, <1>8, <1>9, <1>10, <1>11, <1>12 DEF Next

-----------------------------------------------------------------------------

\* All of it together.
IInv == Base /\ StatusInv /\ OutageInv

\* The inductive invariant holds, for every combination of events: what maintenance and
\* a removal during a migration spoil is conditional in it.
THEOREM Invariant == Spec => []IInv
<1>1. Init => IInv
  BY BaseInit, StatusInit, OutageInit DEF IInv
<1>2. IInv /\ [Next]_vars => IInv'
  <2> SUFFICES ASSUME IInv, [Next]_vars PROVE IInv'
    OBVIOUS
  <2>1. Base /\ StatusInv /\ OutageInv
    BY DEF IInv
  <2>2. Base'
    BY <2>1, BaseNext
  <2>3. StatusInv'
    BY <2>1, StatusNext
  <2>4. OutageInv'
    BY <2>1, OutageNext
  <2> QED
    BY <2>2, <2>3, <2>4 DEF IInv
<1> QED
  BY <1>1, <1>2, PTL DEF Spec

\* The rows and the lists of a monitor's history are well typed, whatever its events.
THEOREM TypeCorrect == Spec => []TypeOK
<1>1. IInv => TypeOK
  BY DEF IInv, Base
<1> QED
  BY <1>1, Invariant, PTL

\* Whatever a monitor meets, maintenance, the observer, reloads, removal or a migration with
\* its backfill, its intervals tile the time since the first of them: SaveProbeAndState and
\* EnsureStatusIntervalsBackfilled leave no gap and no overlap.
THEOREM AlwaysContiguous == Spec => []IntervalsContiguous
<1>1. IInv => IntervalsContiguous
  BY DEF IInv, Base
<1> QED
  BY <1>1, Invariant, PTL

\* The open interval and the stored status, which SaveProbeAndState writes to two tables, never
\* disagree, provided no maintenance and no removal falls into the time before a migration: the
\* backfill counts failures on both sides of maintenance as one streak (storage.go:1712).
THEOREM AlwaysTellsStatus ==
    ASSUME \A s \in Scenarios :
              "upgrade" \in s.events => s.events \cap {"maintenance", "removal"} = {}
    PROVE  Spec => []OpenIntervalTellsStatus
<1>1. IInv => OpenIntervalTellsStatus
  BY DEF IInv, Base, StatusInv, Undisturbed
<1> QED
  BY <1>1, Invariant, PTL

\* Under the same condition the streaks that the report of uptime shows begin where the intervals
\* say, and are those of monitors that are UP or were when their maintenance began:
\* ListUptimeStreakStarts asks only for the open interval and the last end of a DOWN one.
THEOREM StreaksAlwaysTrue ==
    ASSUME \A s \in Scenarios :
              "upgrade" \in s.events => s.events \cap {"maintenance", "removal"} = {}
    PROVE  Spec => []StreaksAreTrue
<1>1. IInv => StreaksAreTrue
  <2> SUFFICES ASSUME IInv PROVE StreaksAreTrue
    OBVIOUS
  <2>1. StreaksFit
    BY StreaksHold DEF IInv
  <2>2. OpenIntervalTellsStatus
    BY DEF IInv, Base, StatusInv, Undisturbed
  <2> QED
    BY <2>1, <2>2 DEF StreaksFit, OpenIntervalTellsStatus, StreaksAreTrue
<1> QED
  BY <1>1, Invariant, PTL

\* Under the same condition the recorded downtime is exactly the time of the streaks of failures
\* that reach the threshold, and of those with a failure right after maintenance:
\* saveStatusInterval counts the FAILING interval before DOWN too, and the backfill agrees.
THEOREM DowntimeAlwaysOutage ==
    ASSUME \A s \in Scenarios :
              "upgrade" \in s.events => s.events \cap {"maintenance", "removal"} = {}
    PROVE  Spec => []DowntimeIsOutage
<1>1. IInv => DowntimeIsOutage
  BY DowntimeTold DEF IInv, Base, Undisturbed
<1> QED
  BY <1>1, Invariant, PTL

=============================================================================
