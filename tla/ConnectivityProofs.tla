------------------------ MODULE ConnectivityProofs ------------------------
(***************************************************************************)
(* The observer's incidents alternate and tell its stored status, and the  *)
(* transfer guard is what the samples say, for every threshold, limit and  *)
(* interval, any monitors, events, and bounds.                             *)
(*                                                                         *)
(* IncidentsTellStatus is not inductive: the incident that SaveCheck adds  *)
(* follows from the row that was read before the sentinels were asked, so  *)
(* that row must still be the stored one (ReadIsFresh).                    *)
(*                                                                         *)
(* StatusTellsChecks is about the results of the checks, of which the row  *)
(* keeps counts only: they are the lengths of the runs that the results    *)
(* end in (CountsTellChecks).                                              *)
(*                                                                         *)
(* GuardTellsSamples is about a guard that is moved sample by sample and   *)
(* restored by a fold over the stored ones.  Both make the runs of slow    *)
(* samples that the property speaks of (Tells, GuardFollows,               *)
(* RestoredTells).  That samples are spaced needs what the lock protects:  *)
(* while one is downloaded, its start is far enough from the last one      *)
(* (HolderIsSpaced), because the guard knows that one or it is so old that *)
(* the window of a restore left it out (LastIsKnown).                      *)
(***************************************************************************)
EXTENDS Connectivity, FoldLemmas, SequenceTheorems

\* Nobody else writes the row between the read and the save of a check.
ReadIsFresh ==
    worker.pc = "checked" => worker.seen = observerState /\ worker.healthy \in BOOLEAN

IInv ==
    /\ incidents \in Seq({"UP", "DOWN"})
    /\ observerState \in ObserverRow
    /\ ReadIsFresh
    /\ IncidentsTellStatus

\* The row that a check leads to is well typed, and its incident is its status.
LEMMA EvaluatedRow ==
    ASSUME NEW previous \in ObserverRow, NEW healthy \in BOOLEAN
    PROVE  Evaluate(previous, healthy) \in ObserverRow
BY DEF Evaluate, Counted, ObserverRow

\* The incident of a check continues incidents that alternate up to the row it
\* started from.
LEMMA IncidentContinues ==
    ASSUME incidents \in Seq({"UP", "DOWN"}), IncidentsTellStatus,
           observerState \in ObserverRow, NEW next \in ObserverRow,
           observerState' = next,
           incidents' = incidents \o Incident(observerState, next)
    PROVE  incidents' \in Seq({"UP", "DOWN"}) /\ IncidentsTellStatus'
<1>1. CASE observerState.status = next.status
  <2>1. incidents' = incidents
    BY <1>1 DEF Incident
  <2>2. QED
    BY <1>1, <2>1 DEF IncidentsTellStatus
<1>2. CASE observerState.status # next.status
  <2>1. incidents' = Append(incidents, next.status) /\ next.status \in {"UP", "DOWN"}
    BY <1>2 DEF Incident, ObserverRow
  <2>2. incidents' \in Seq({"UP", "DOWN"})
    BY <2>1
  <2>3. /\ incidents' # <<>> /\ Len(incidents') = Len(incidents) + 1
        /\ Last(incidents') = next.status
        /\ \A i \in DOMAIN incidents : incidents'[i] = incidents[i]
    BY <2>1 DEF Last
  <2>4. \A i \in DOMAIN incidents' :
           IF i = 1 THEN incidents'[i] = "DOWN" ELSE incidents'[i] # incidents'[i - 1]
    <3>1. SUFFICES ASSUME NEW i \in DOMAIN incidents'
                   PROVE  IF i = 1 THEN incidents'[i] = "DOWN"
                          ELSE incidents'[i] # incidents'[i - 1]
      OBVIOUS
    <3>2. CASE i \in DOMAIN incidents
      <4>1. i # 1 => i - 1 \in DOMAIN incidents
        BY <3>2
      <4>2. QED
        BY <2>3, <3>2, <4>1 DEF IncidentsTellStatus
    <3>3. CASE i = Len(incidents) + 1 /\ incidents = <<>>
      BY <1>2, <2>1, <3>3 DEF IncidentsTellStatus
    <3>4. CASE i = Len(incidents) + 1 /\ incidents # <<>>
      <4>1. Len(incidents) \in DOMAIN incidents /\ i # 1
        BY <3>4
      <4>2. incidents'[i] = next.status /\ incidents'[i - 1] = Last(incidents)
        BY <2>1, <2>3, <3>4, <4>1 DEF Last
      <4>3. QED
        BY <1>2, <3>4, <4>1, <4>2 DEF IncidentsTellStatus
    <3>5. QED
      BY <2>1, <2>3, <3>2, <3>3, <3>4
  <2>5. QED
    BY <2>2, <2>3, <2>4 DEF IncidentsTellStatus
<1>3. QED
  BY <1>1, <1>2

\* There are no incidents at first, and the observer is taken to be UP.
LEMMA InvInit == Init => IInv
<1> SUFFICES ASSUME Init PROVE IInv
  OBVIOUS
<1>1. incidents = <<>> /\ observerState = NoObserver /\ worker.pc = "starting"
  BY DEF Init, WorkerAt
<1>2. NoObserver \in ObserverRow
  BY DEF NoObserver, ObserverRow
<1>3. IncidentsTellStatus
  <2>1. DOMAIN incidents = {}
    BY <1>1
  <2>2. observerState.status = "UP"
    BY <1>1 DEF NoObserver
  <2>3. QED
    BY <1>1, <2>1, <2>2 DEF IncidentsTellStatus
<1>4. QED
  BY <1>1, <1>2, <1>3 DEF IInv, ReadIsFresh

\* Only SaveCheck writes the row, and only Check reads it.
LEMMA InvNext ==
    ASSUME IInv, [Next]_vars
    PROVE  IInv'
<1> USE DEF IInv
<1>1. CASE UNCHANGED <<observerState, incidents>> /\ (worker' = worker \/ worker'.pc # "checked")
  BY <1>1 DEF ReadIsFresh, IncidentsTellStatus
<1>2. CASE ListSamples
  <2>1. CASE worker' = WorkerAt("idle")
    BY <1>1, <1>2, <2>1 DEF ListSamples, WorkerAt, store
  <2>2. CASE worker' = [WorkerAt("listed") EXCEPT !.upTo = Len(samples), !.at = now]
    <3>1. worker'.pc = "listed"
      BY <2>2 DEF WorkerAt
    <3>2. QED
      BY <1>1, <1>2, <3>1 DEF ListSamples, store
  <2>3. QED
    BY <1>2, <2>1, <2>2 DEF ListSamples
<1>3. CASE Restore \/ RestoreOrphan
  BY <1>1, <1>3 DEF Restore, RestoreOrphan, WorkerAt, store
<1>4. CASE Check
  <2>1. /\ UNCHANGED <<observerState, incidents>>
        /\ worker'.seen = observerState /\ worker'.healthy \in BOOLEAN
    BY <1>4 DEF Check, WorkerAt, store
  <2>2. QED
    BY <2>1 DEF ReadIsFresh, IncidentsTellStatus
<1>5. CASE SaveCheck
  <2>1. worker.seen = observerState /\ worker.healthy \in BOOLEAN
    BY <1>5 DEF SaveCheck, ReadIsFresh
  <2>2. Evaluate(observerState, worker.healthy) \in ObserverRow
    BY <2>1, EvaluatedRow
  <2>3. /\ observerState' = Evaluate(observerState, worker.healthy)
        /\ incidents' = incidents \o
              Incident(observerState, Evaluate(observerState, worker.healthy))
    BY <1>5, <2>1 DEF SaveCheck
  <2>4. incidents' \in Seq({"UP", "DOWN"}) /\ IncidentsTellStatus'
    BY <2>2, <2>3, IncidentContinues
  <2>5. ReadIsFresh'
    BY <1>5 DEF SaveCheck, ReadIsFresh, WorkerAt
  <2>6. QED
    BY <2>2, <2>3, <2>4, <2>5
<1>6. CASE FailCheck
  BY <1>1, <1>6 DEF FailCheck, WorkerAt, store
<1>7. CASE \E m \in Monitors : ProbeFails(m) \/ ReloadMonitor(m)
  BY <1>1, <1>7 DEF ProbeFails, ReloadMonitor, store
<1>8. CASE Sampling
  <2>1. PICK who \in Monitors \cup {Observer} :
           \/ Reuse(who)
           \/ StartSample(who)
           \/ \E kind \in SampleKind : FinishSample(who, kind)
           \/ FailSample(who)
    BY <1>8 DEF Sampling
  <2>2. UNCHANGED <<observerState, incidents>>
    BY <2>1 DEF Reuse, StartSample, FinishSample, FailSample, store
  <2>3. worker' = worker \/ worker' \in {WorkerAt("idle"), WorkerAt("sampling")}
    BY <2>1 DEF Reuse, StartSample, FinishSample, FailSample, Answer
  <2>4. QED
    BY <1>1, <2>2, <2>3 DEF WorkerAt
<1>9. CASE Release \/ Tick
  BY <1>1, <1>9 DEF Release, Tick, store
<1>10. CASE Reload \/ Crash
  BY <1>1, <1>10 DEF Reload, Crash, WorkerAt, store
<1>11. CASE UNCHANGED vars
  BY <1>1, <1>11 DEF vars, store
<1>12. QED
  BY <1>2, <1>3, <1>4, <1>5, <1>6, <1>7, <1>8, <1>9, <1>10, <1>11 DEF Next

\* The inductive invariant holds in every reachable state.
THEOREM Invariant == Spec => []IInv
<1>1. Init => IInv
  BY InvInit
<1>2. IInv /\ [Next]_vars => IInv'
  BY InvNext
<1>3. QED
  BY <1>1, <1>2, PTL DEF Spec

\* The incidents of the observer alternate and end in its stored status, through
\* reloads that replace its goroutine, crashes and failing stores.
THEOREM AlwaysTellsStatus == Spec => []IncidentsTellStatus
<1>1. IInv => IncidentsTellStatus
  BY DEF IInv
<1>2. QED
  BY <1>1, Invariant, PTL

-----------------------------------------------------------------------------
(* The stored status against the checks *)

\* The last n elements are the result, and the one before them is not.
TrailingRun(s, n, result) ==
    /\ n <= Len(s)
    /\ \A j \in Len(s) - n + 1 .. Len(s) : s[j] = result
    /\ n < Len(s) => s[Len(s) - n] # result

\* The counts of the row are the runs the saved checks end in.
CountsTellChecks ==
    /\ checks \in Seq(BOOLEAN)
    /\ TrailingRun(checks, observerState.failures, FALSE)
    /\ TrailingRun(checks, observerState.successes, TRUE)

\* One more result lengthens its own run and ends the other.
LEMMA RunGrows ==
    ASSUME NEW s \in Seq(BOOLEAN), NEW n \in Nat, NEW result \in BOOLEAN,
           TrailingRun(s, n, result), NEW h \in BOOLEAN
    PROVE  TrailingRun(Append(s, h), IF h = result THEN n + 1 ELSE 0, result)
<1> DEFINE t == Append(s, h)
<1>1. /\ Len(t) = Len(s) + 1 /\ Len(s) \in Nat
      /\ t[Len(t)] = h
      /\ \A j \in 1 .. Len(s) : t[j] = s[j]
  OBVIOUS
<1> HIDE DEF t
<1>2. CASE h = result
  <2>1. ASSUME NEW j \in Len(t) - (n + 1) + 1 .. Len(t)
        PROVE  t[j] = result
    <3>1. CASE j = Len(t)
      BY <1>1, <1>2, <3>1
    <3>2. CASE j # Len(t)
      <4>1. j \in Len(s) - n + 1 .. Len(s) /\ j \in 1 .. Len(s)
        BY <1>1, <2>1, <3>2 DEF TrailingRun
      <4>2. QED
        BY <1>1, <4>1 DEF TrailingRun
    <3>3. QED
      BY <3>1, <3>2
  <2>2. ASSUME n + 1 < Len(t)
        PROVE  t[Len(t) - (n + 1)] # result
    <3>1. /\ Len(t) - (n + 1) = Len(s) - n /\ Len(s) - n \in 1 .. Len(s)
          /\ n < Len(s)
      BY <1>1, <2>2
    <3>2. QED
      BY <1>1, <3>1 DEF TrailingRun
  <2>3. n + 1 <= Len(t)
    BY <1>1 DEF TrailingRun
  <2>4. TrailingRun(t, n + 1, result)
    BY <2>1, <2>2, <2>3 DEF TrailingRun
  <2>5. QED
    BY <1>2, <2>4 DEF t
<1>3. CASE h # result
  <2>1. TrailingRun(t, 0, result)
    BY <1>1, <1>3 DEF TrailingRun
  <2>2. QED
    BY <1>3, <2>1 DEF t
<1>4. QED
  BY <1>2, <1>3

\* The last k elements are the result exactly if the run is that long.
LEMMA RunLength ==
    ASSUME NEW s \in Seq(BOOLEAN), NEW n \in Nat, NEW result \in BOOLEAN,
           TrailingRun(s, n, result), NEW k \in Nat \ {0}
    PROVE  k <= n <=> /\ k <= Len(s)
                      /\ \A j \in Len(s) - k + 1 .. Len(s) : s[j] = result
<1>1. Len(s) \in Nat
  OBVIOUS
<1>2. ASSUME k <= n
      PROVE  /\ k <= Len(s)
             /\ \A j \in Len(s) - k + 1 .. Len(s) : s[j] = result
  BY <1>1, <1>2 DEF TrailingRun
<1>3. ASSUME ~(k <= n), k <= Len(s)
      PROVE  ~\A j \in Len(s) - k + 1 .. Len(s) : s[j] = result
  <2>1. Len(s) - n \in Len(s) - k + 1 .. Len(s) /\ n < Len(s)
    BY <1>1, <1>3
  <2>2. QED
    BY <2>1 DEF TrailingRun
<1>4. QED
  BY <1>2, <1>3

\* The run of bad checks up to k put the observer DOWN, and no run of good ones
\* has put it UP since.
DownSince(k) ==
    k \in 1 .. Len(checks) /\ BadRun(k) /\ \A i \in k .. Len(checks) : ~GoodRun(k, i)

\* One more check leaves the runs before it as they are.
LEMMA RunsStay ==
    ASSUME checks \in Seq(BOOLEAN), NEW h \in BOOLEAN, checks' = Append(checks, h)
    PROVE  /\ Len(checks') = Len(checks) + 1 /\ Len(checks) \in Nat
           /\ (checks')[Len(checks) + 1] = h
           /\ \A i \in 1 .. Len(checks) : BadRun(i)' <=> BadRun(i)
           /\ \A k, i \in 1 .. Len(checks) : GoodRun(k, i)' <=> GoodRun(k, i)
<1>1. /\ Len(checks') = Len(checks) + 1 /\ Len(checks) \in Nat
      /\ (checks')[Len(checks) + 1] = h
      /\ \A j \in 1 .. Len(checks) : (checks')[j] = checks[j]
  OBVIOUS
<1>2. ASSUME NEW i \in 1 .. Len(checks)
      PROVE  BadRun(i)' <=> BadRun(i)
  <2>1. i >= FailureThreshold => i - FailureThreshold + 1 .. i \subseteq 1 .. Len(checks)
    BY <1>1, ObserverThresholdsAssumption
  <2>2. QED
    BY <1>1, <2>1 DEF BadRun
<1>3. ASSUME NEW k \in 1 .. Len(checks), NEW i \in 1 .. Len(checks)
      PROVE  GoodRun(k, i)' <=> GoodRun(k, i)
  <2>1. i - RecoveryThreshold >= k => i - RecoveryThreshold + 1 .. i \subseteq 1 .. Len(checks)
    BY <1>1, ObserverThresholdsAssumption
  <2>2. QED
    BY <1>1, <2>1 DEF GoodRun
<1>4. QED
  BY <1>1, <1>2, <1>3

\* A saved check moves the status exactly as the definition by runs says.
LEMMA StatusFollows ==
    ASSUME observerState \in ObserverRow, CountsTellChecks, StatusTellsChecks,
           NEW h \in BOOLEAN, checks' = Append(checks, h),
           observerState' = Evaluate(observerState, h)
    PROVE  CountsTellChecks' /\ StatusTellsChecks'
<1> USE ObserverThresholdsAssumption
<1>0. PICK n \in Nat : n = Len(checks)
  BY DEF CountsTellChecks
<1>1. /\ checks \in Seq(BOOLEAN) /\ checks' \in Seq(BOOLEAN)
      /\ observerState.failures \in Nat /\ observerState.successes \in Nat
      /\ observerState.status \in {"UP", "DOWN"}
  BY DEF CountsTellChecks, ObserverRow
<1>2. /\ (observerState').failures = (IF h THEN 0 ELSE observerState.failures + 1)
      /\ (observerState').successes = (IF h THEN observerState.successes + 1 ELSE 0)
      /\ (observerState').status =
            IF observerState.status = "UP" /\ ~h /\ observerState.failures + 1 >= FailureThreshold
            THEN "DOWN"
            ELSE IF observerState.status = "DOWN" /\ h /\ observerState.successes + 1 >= RecoveryThreshold
            THEN "UP" ELSE observerState.status
  <2>1. CASE h
    BY <1>1, <2>1 DEF Evaluate, Counted
  <2>2. CASE ~h
    BY <1>1, <2>2 DEF Evaluate, Counted
  <2>3. QED
    BY <2>1, <2>2
<1>3. /\ TrailingRun(checks', (observerState').failures, FALSE)
      /\ TrailingRun(checks', (observerState').successes, TRUE)
  <2>1. /\ TrailingRun(checks', IF h = FALSE THEN observerState.failures + 1 ELSE 0, FALSE)
        /\ TrailingRun(checks', IF h = TRUE THEN observerState.successes + 1 ELSE 0, TRUE)
    BY <1>1, RunGrows DEF CountsTellChecks
  <2>2. /\ (observerState').failures = IF h = FALSE THEN observerState.failures + 1 ELSE 0
        /\ (observerState').successes = IF h = TRUE THEN observerState.successes + 1 ELSE 0
    BY <1>2
  <2>3. QED
    BY <2>1, <2>2
<1>4. /\ Len(checks') = n + 1 /\ n \in Nat
      /\ (checks')[n + 1] = h
      /\ \A i \in 1 .. n : BadRun(i)' <=> BadRun(i)
      /\ \A k, i \in 1 .. n : GoodRun(k, i)' <=> GoodRun(k, i)
  BY <1>0, <1>1, RunsStay
<1>5. observerState.status = "DOWN" <=> \E k \in 1 .. n : DownSince(k)
  BY <1>0 DEF StatusTellsChecks, DownSince
<1>6. (\E k \in 1 .. n + 1 : DownSince(k)') <=>
          \/ DownSince(n + 1)'
          \/ \E k \in 1 .. n : DownSince(k) /\ ~GoodRun(k, n + 1)'
  <2>1. ASSUME NEW k \in 1 .. n
        PROVE  DownSince(k)' <=> DownSince(k) /\ ~GoodRun(k, n + 1)'
    BY <1>0, <1>4 DEF DownSince
  <2>2. QED
    BY <1>4, <2>1
<1>7. ASSUME ~h
      PROVE  StatusTellsChecks'
  <2>1. \A k \in 1 .. n + 1 : ~GoodRun(k, n + 1)'
    BY <1>4, <1>7 DEF GoodRun
  <2>2. BadRun(n + 1)' <=> observerState.failures + 1 >= FailureThreshold
    <3>1. TrailingRun(checks', (observerState').failures, FALSE)
      BY <1>3
    <3>2. (observerState').failures \in Nat
      BY <1>1, <1>2, <1>7
    <3>3. FailureThreshold <= (observerState').failures <=>
             /\ FailureThreshold <= Len(checks')
             /\ \A j \in Len(checks') - FailureThreshold + 1 .. Len(checks') : (checks')[j] = FALSE
      BY <1>1, <3>1, <3>2, RunLength
    <3>4. BadRun(n + 1)' <=>
             /\ FailureThreshold <= Len(checks')
             /\ \A j \in Len(checks') - FailureThreshold + 1 .. Len(checks') : ~(checks')[j]
      BY <1>4 DEF BadRun
    <3>5. \A j \in Len(checks') - FailureThreshold + 1 .. Len(checks') :
             FailureThreshold <= Len(checks') => ((checks')[j] = FALSE <=> ~(checks')[j])
      BY <1>1, <1>4
    <3>6. QED
      BY <1>1, <1>2, <1>4, <1>7, <3>3, <3>4, <3>5
  <2>3. DownSince(n + 1)' <=> BadRun(n + 1)'
    BY <1>4, <2>1 DEF DownSince
  <2>4. (\E k \in 1 .. n + 1 : DownSince(k)') <=>
           observerState.failures + 1 >= FailureThreshold \/ observerState.status = "DOWN"
    BY <1>4, <1>5, <1>6, <2>1, <2>2, <2>3
  <2>5. QED
    BY <1>1, <1>2, <1>4, <1>7, <2>4 DEF StatusTellsChecks, DownSince
<1>8. ASSUME h
      PROVE  StatusTellsChecks'
  <2>1. ~DownSince(n + 1)'
    BY <1>4, <1>8 DEF DownSince, BadRun
  <2>2. ASSUME NEW k \in 1 .. n, DownSince(k)
        PROVE  GoodRun(k, n + 1)' <=> observerState.successes + 1 >= RecoveryThreshold
    <3>1. TrailingRun(checks', (observerState').successes, TRUE)
      BY <1>3
    <3>2. /\ (observerState').successes \in Nat
          /\ (observerState').successes = observerState.successes + 1
      BY <1>1, <1>2, <1>8
    <3>3. RecoveryThreshold <= (observerState').successes <=>
             /\ RecoveryThreshold <= Len(checks')
             /\ \A j \in Len(checks') - RecoveryThreshold + 1 .. Len(checks') : (checks')[j] = TRUE
      BY <1>1, <3>1, <3>2, RunLength
    <3>4. GoodRun(k, n + 1)' <=>
             /\ n + 1 - RecoveryThreshold >= k
             /\ \A j \in Len(checks') - RecoveryThreshold + 1 .. Len(checks') : (checks')[j]
      BY <1>4 DEF GoodRun
    <3>5. (checks')[k] = FALSE
      <4>1. checks[k] = FALSE
        BY <1>0, <1>1, <1>4, <2>2 DEF DownSince, BadRun
      <4>2. QED
        BY <1>4, <4>1
    <3>6. (\A j \in Len(checks') - RecoveryThreshold + 1 .. Len(checks') : (checks')[j] = TRUE)
              => n + 1 - RecoveryThreshold >= k
      BY <1>4, <3>5
    <3>7. \A j \in 1 .. Len(checks') : (checks')[j] = TRUE <=> (checks')[j]
      BY <1>1
    <3>8. QED
      BY <1>4, <3>2, <3>3, <3>4, <3>6, <3>7
  <2>3. (\E k \in 1 .. n + 1 : DownSince(k)') <=>
           observerState.status = "DOWN" /\ ~(observerState.successes + 1 >= RecoveryThreshold)
    BY <1>5, <1>6, <2>1, <2>2
  <2>4. QED
    BY <1>1, <1>2, <1>4, <1>8, <2>3 DEF StatusTellsChecks, DownSince
<1>9. CountsTellChecks'
  BY <1>1, <1>3 DEF CountsTellChecks, TrailingRun
<1>10. QED
  BY <1>7, <1>8, <1>9

\* Nothing was checked at first, and the observer is taken to be UP.
LEMMA StatusInit == Init => CountsTellChecks /\ StatusTellsChecks
<1> SUFFICES ASSUME Init PROVE CountsTellChecks /\ StatusTellsChecks
  OBVIOUS
<1>1. /\ checks = <<>> /\ Len(checks) = 0
      /\ observerState.failures = 0 /\ observerState.successes = 0
      /\ observerState.status = "UP"
  BY DEF Init, NoObserver
<1>2. QED
  BY <1>1 DEF CountsTellChecks, TrailingRun, StatusTellsChecks

\* Only SaveCheck writes the row, and it saves the check with it.
LEMMA StatusNext ==
    ASSUME IInv, CountsTellChecks, StatusTellsChecks, [Next]_vars
    PROVE  CountsTellChecks' /\ StatusTellsChecks'
<1>1. CASE UNCHANGED <<observerState, checks>>
  BY <1>1 DEF CountsTellChecks, TrailingRun, StatusTellsChecks, BadRun, GoodRun
<1>2. CASE SaveCheck
  <2>1. worker.seen = observerState /\ worker.healthy \in BOOLEAN
    BY <1>2 DEF SaveCheck, IInv, ReadIsFresh
  <2>2. /\ checks' = Append(checks, worker.healthy)
        /\ observerState' = Evaluate(observerState, worker.healthy)
    BY <1>2, <2>1 DEF SaveCheck
  <2>3. QED
    BY <2>1, <2>2, StatusFollows DEF IInv
<1>3. CASE ListSamples \/ Restore \/ RestoreOrphan \/ Check \/ FailCheck \/ Release
             \/ Reload \/ Crash \/ Tick
  BY <1>1, <1>3 DEF ListSamples, Restore, RestoreOrphan, Check, FailCheck, Release,
                    Reload, Crash, Tick, store
<1>4. CASE \E m \in Monitors : ProbeFails(m) \/ ReloadMonitor(m)
  BY <1>1, <1>4 DEF ProbeFails, ReloadMonitor, store
<1>5. CASE Sampling
  BY <1>1, <1>5 DEF Sampling, Reuse, StartSample, FinishSample, FailSample, store
<1>6. CASE UNCHANGED vars
  BY <1>1, <1>6 DEF vars, store
<1>7. QED
  BY <1>2, <1>3, <1>4, <1>5, <1>6 DEF Next

\* The observer is DOWN exactly from a full run of bad checks on until a full run
\* of good ones after it, whatever reloads, crashes and lost saves did between
\* the checks.
THEOREM StatusIsEarned == Spec => []StatusTellsChecks
<1>1. IInv /\ CountsTellChecks /\ StatusTellsChecks /\ [Next]_vars
         => CountsTellChecks' /\ StatusTellsChecks'
  BY StatusNext
<1>2. QED
  BY <1>1, StatusInit, Invariant, PTL DEF Spec

-----------------------------------------------------------------------------
(* Restoring the guard *)

\* A sample moves a guard to a guard.
LEMMA AfterSampleType ==
    ASSUME NEW g \in Guard, NEW x \in Sample
    PROVE  AfterSample(g, x) \in Guard
<1> DEFINE n == IF x.kind # "slow" THEN 0
                ELSE IF Continues(g, x) THEN g.streak + 1
                ELSE 1
<1>1. n \in Nat
  BY DEF Guard
<1>2. AfterSample(g, x) = Moved(g, x, n)
  BY DEF AfterSample
<1> HIDE DEF n
<1>3. (n >= Limit \/ (g.degraded /\ x.kind # "fast")) \in BOOLEAN
  OBVIOUS
<1>4. x.at \in Nat
  BY DEF Sample
<1> QED
  BY <1>1, <1>2, <1>3, <1>4 DEF Moved, Guard

\* The empty guard.
LEMMA NoGuardType == NoGuard \in Guard
  BY DEF NoGuard, Guard, NoTime

\* A guard that is restored goes from one sample to the next.
LEMMA GuardFolds ==
    ASSUME NEW seq \in Seq(Sample)
    PROVE  \E g \in [0 .. Len(seq) -> Guard] :
              /\ g[0] = NoGuard
              /\ FoldLeft(AfterSample, NoGuard, seq) = g[Len(seq)]
              /\ \A k \in 1 .. Len(seq) : g[k] = AfterSample(g[k - 1], seq[k])
<1>1. PICK n \in Nat : n = Len(seq) /\ DOMAIN seq = 1 .. n /\ \A k \in 1 .. n : seq[k] \in Sample
  OBVIOUS
<1> DEFINE step == [p \in Guard \X Sample |-> AfterSample(p[1], p[2])]
           Folds(h) == \A s \in SUBSET (1 .. n) :
                   h[s] = IF s = {} THEN NoGuard ELSE AfterSample(h[s \ {Max(s)}], seq[Max(s)])
           f == CHOOSE h : h = [s \in SUBSET DOMAIN seq |->
                   IF s = {} THEN NoGuard ELSE AfterSample(h[s \ {Max(s)}], seq[Max(s)])]
<1>2. FoldLeft(AfterSample, NoGuard, seq) = f[1 .. n]
  BY <1>1 DEF FoldLeft, MapThenFoldSet
<1>3. \E h \in [SUBSET (1 .. n) -> Guard] : Folds(h)
  <2>1. \A a \in Guard, b \in Sample : step[<<a, b>>] = AfterSample(a, b)
    OBVIOUS
  <2>2. IsStep(step, Guard, Sample) /\ ElementsIn(seq, n, Sample)
    BY <1>1, <2>1, AfterSampleType DEF IsStep, ElementsIn
  <2> HIDE DEF step
  <2>3. \E h \in [SUBSET (1 .. n) -> Guard] : IsFold(h, step, NoGuard, seq, n)
    BY <2>2, NoGuardType, FoldExists, Zenon
  <2>4. PICK h \in [SUBSET (1 .. n) -> Guard] : IsFold(h, step, NoGuard, seq, n)
    BY <2>3
  <2>5. ASSUME NEW s \in SUBSET (1 .. n), s # {}
        PROVE  h[s] = AfterSample(h[s \ {Max(s)}], seq[Max(s)])
    <3>1. Max(s) \in s
      BY <1>1, <2>5, MaxOfPlaces
    <3>2. h[s \ {Max(s)}] \in Guard /\ seq[Max(s)] \in Sample
      BY <1>1, <3>1
    <3>3. h[s] = step[<<h[s \ {Max(s)}], seq[Max(s)]>>]
      BY <2>4, <2>5 DEF IsFold
    <3> QED
      BY <2>1, <3>2, <3>3
  <2>6. h[{}] = NoGuard
    BY <2>4 DEF IsFold
  <2> QED
    BY <2>4, <2>5, <2>6
<1>4. Folds(f)
  <2>1. PICK h \in [SUBSET (1 .. n) -> Guard] : Folds(h)
    BY <1>3
  <2>2. h = [s \in SUBSET DOMAIN seq |->
              IF s = {} THEN NoGuard ELSE AfterSample(h[s \ {Max(s)}], seq[Max(s)])]
    BY <1>1, <2>1
  <2>3. f = [s \in SUBSET DOMAIN seq |->
              IF s = {} THEN NoGuard ELSE AfterSample(f[s \ {Max(s)}], seq[Max(s)])]
    BY <2>2, Zenon
  <2> HIDE DEF f
  <2> QED
    BY <1>1, <2>3
<1> HIDE DEF f
<1> DEFINE g == [k \in 0 .. n |-> f[1 .. k]]
<1>5. g[0] = NoGuard /\ g[n] = f[1 .. n]
  <2>1. 1 .. 0 = {} /\ {} \in SUBSET (1 .. n)
    OBVIOUS
  <2>2. f[1 .. 0] = NoGuard
    BY <1>4, <2>1
  <2> QED
    BY <1>1, <2>2
<1>6. ASSUME NEW k \in 1 .. n PROVE g[k] = AfterSample(g[k - 1], seq[k])
  <2>1. /\ 1 .. k \in SUBSET (1 .. n) /\ 1 .. k # {}
        /\ Max(1 .. k) = k /\ (1 .. k) \ {k} = 1 .. k - 1
    BY <1>1, Prefix
  <2>2. f[1 .. k] = AfterSample(f[1 .. k - 1], seq[k])
    BY <1>4, <2>1
  <2>3. g[k] = f[1 .. k] /\ g[k - 1] = f[1 .. k - 1]
    BY <1>1
  <2> QED
    BY <2>2, <2>3
<1>7. \A k \in 0 .. n : g[k] \in Guard
  <2> DEFINE good == {k \in 0 .. n : g[k] \in Guard}
  <2> HIDE DEF g
  <2>1. 0 \in good
    BY <1>5, NoGuardType
  <2>2. ASSUME NEW k \in 0 .. n - 1, k \in good PROVE k + 1 \in good
    <3>1. k + 1 \in 1 .. n /\ k + 1 - 1 = k
      OBVIOUS
    <3> QED
      BY <1>1, <1>6, <2>2, <3>1, AfterSampleType
  <2> HIDE DEF good
  <2>3. 0 .. n \subseteq good
    BY <2>1, <2>2, Counting
  <2> QED
    BY <2>3 DEF good
<1>8. g \in [0 .. n -> Guard]
  BY <1>7
<1> HIDE DEF g
<1> QED
  BY <1>1, <1>2, <1>5, <1>6, <1>8

\* SlowRun of the samples of a list, of which the guard accounts for those from k on.
SlowUpTo(s, k, n, i) ==
    /\ \A j \in i - n + 1 .. i : j >= k /\ s[j].kind = "slow"
    /\ \A j \in i - n + 2 .. i : s[j].at - s[j - 1].at <= Interval

\* A guard is what the samples from k to n of a list say.
Tells(g, s, k, n) ==
    /\ g.last = IF k <= n THEN s[n].at ELSE NoTime
    /\ SlowUpTo(s, k, g.streak, n) /\ ~SlowUpTo(s, k, g.streak + 1, n)
    /\ g.degraded <=>
          \E i \in k .. n : SlowUpTo(s, k, Limit, i) /\ \A j \in i .. n : s[j].kind # "fast"

\* The streak that one more sample makes.
Streak(g, x) ==
    IF x.kind # "slow" THEN 0 ELSE IF Continues(g, x) THEN g.streak + 1 ELSE 1

\* A run of slow samples has the shorter ones in it.
LEMMA ShorterRun ==
    ASSUME NEW s, NEW k \in Nat, NEW i \in Nat, NEW m \in Nat, NEW l \in Nat,
           l <= m, SlowUpTo(s, k, m, i)
    PROVE  SlowUpTo(s, k, l, i)
  BY DEF SlowUpTo

\* One more sample makes the streak that the definition by runs says.
LEMMA StreakFollows ==
    ASSUME NEW s \in Seq(Sample), NEW n \in Nat, n < Len(s), NEW k \in 1 .. n + 1,
           NEW g \in Guard, Tells(g, s, k, n)
    PROVE  /\ Streak(g, s[n + 1]) \in Nat
           /\ SlowUpTo(s, k, Streak(g, s[n + 1]), n + 1)
           /\ ~SlowUpTo(s, k, Streak(g, s[n + 1]) + 1, n + 1)
<1> DEFINE x == s[n + 1]
<1>1. /\ x \in Sample /\ x.at \in Nat /\ Interval \in Nat
      /\ g.streak \in Nat /\ n + 1 \in Nat /\ k \in Nat
  <2>1. n + 1 \in 1 .. Len(s)
    OBVIOUS
  <2>2. x \in Sample
    BY <2>1
  <2> QED
    BY <2>2, TransferAssumption DEF Sample, Guard
<1>2. CASE x.kind # "slow"
  <2>1. Streak(g, x) = 0
    BY <1>2 DEF Streak
  <2>2. SlowUpTo(s, k, 0, n + 1)
    BY DEF SlowUpTo
  <2>3. ~SlowUpTo(s, k, 0 + 1, n + 1)
    <3>1. n + 1 \in n + 1 - (0 + 1) + 1 .. n + 1
      OBVIOUS
    <3> QED
      BY <1>2, <3>1 DEF SlowUpTo
  <2> HIDE DEF x
  <2> QED
    BY <2>1, <2>2, <2>3 DEF x
<1>3. CASE x.kind = "slow" /\ Continues(g, x)
  <2>1. Streak(g, x) = g.streak + 1
    BY <1>3 DEF Streak
  <2>2. g.streak >= 1 => k <= n /\ x.at - s[n].at <= Interval
    <3> SUFFICES ASSUME g.streak >= 1 PROVE k <= n /\ x.at - s[n].at <= Interval
      OBVIOUS
    <3>1. n \in n - g.streak + 1 .. n
      BY <1>1
    <3>2. k <= n
      BY <3>1 DEF Tells, SlowUpTo
    <3>3. g.last = s[n].at /\ s[n].at \in Nat
      <4>1. n \in 1 .. Len(s)
        BY <3>2
      <4>2. s[n] \in Sample
        BY <4>1
      <4> QED
        BY <3>2, <4>2 DEF Tells, Sample
    <3> QED
      BY <1>3, <3>2, <3>3 DEF Continues, NoTime
  <2>3. PICK m \in Nat, r \in Nat : m = g.streak /\ r = n + 1
    BY <1>1
  <2>4. SlowUpTo(s, k, m, n) /\ ~SlowUpTo(s, k, m + 1, n) /\ s[r].kind = "slow"
    BY <1>3, <2>3 DEF Tells
  <2>5. k \in Nat /\ k <= r
    BY <1>1, <2>3
  <2> HIDE DEF x
  <2>6. SlowUpTo(s, k, m + 1, r)
    <3>1. ASSUME NEW j \in r - (m + 1) + 1 .. r PROVE j >= k /\ s[j].kind = "slow"
      <4>1. CASE j = r
        BY <2>4, <2>5, <4>1
      <4>2. CASE j # r
        <5>1. j <= n
          BY <2>3, <4>2
        <5>2. j \in n - m + 1 .. n
          BY <2>3, <5>1
        <5> QED
          BY <2>4, <5>2 DEF SlowUpTo
      <4> QED
        BY <4>1, <4>2
    <3>2. ASSUME NEW j \in r - (m + 1) + 2 .. r PROVE s[j].at - s[j - 1].at <= Interval
      <4>1. CASE j = r
        <5>1. m >= 1
          BY <4>1
        <5>2. g.streak >= 1 /\ j - 1 = n /\ j = n + 1
          BY <2>3, <4>1, <5>1
        <5> QED
          BY <2>2, <5>2 DEF x
      <4>2. CASE j # r
        <5>1. j <= n
          BY <2>3, <4>2
        <5>2. j \in n - m + 2 .. n
          BY <2>3, <5>1
        <5> QED
          BY <2>4, <5>2 DEF SlowUpTo
      <4> QED
        BY <4>1, <4>2
    <3> QED
      BY <3>1, <3>2 DEF SlowUpTo
  <2>7. ~SlowUpTo(s, k, m + 1 + 1, r)
    <3> SUFFICES ASSUME SlowUpTo(s, k, m + 1 + 1, r) PROVE FALSE
      OBVIOUS
    <3>0. n = r - 1
      BY <2>3
    <3>1. ASSUME NEW j \in n - (m + 1) + 1 .. n PROVE j >= k /\ s[j].kind = "slow"
      <4>1. j \in r - (m + 1 + 1) + 1 .. r
        BY <3>0
      <4> QED
        BY <4>1 DEF SlowUpTo
    <3>2. ASSUME NEW j \in n - (m + 1) + 2 .. n PROVE s[j].at - s[j - 1].at <= Interval
      <4>1. j \in r - (m + 1 + 1) + 2 .. r
        BY <3>0
      <4> QED
        BY <4>1 DEF SlowUpTo
    <3> QED
      BY <2>4, <3>1, <3>2 DEF SlowUpTo
  <2> QED
    BY <1>1, <2>1, <2>3, <2>6, <2>7 DEF x
<1>4. CASE x.kind = "slow" /\ ~Continues(g, x)
  <2>1. Streak(g, x) = 1
    BY <1>4 DEF Streak
  <2>2. k <= n /\ g.last = s[n].at
    BY <1>4 DEF Continues, Tells
  <2>3. s[n].at \in Nat /\ x.at - s[n].at > Interval
    <3>1. n \in 1 .. Len(s)
      BY <2>2
    <3>2. s[n] \in Sample
      BY <3>1
    <3> QED
      BY <1>1, <1>4, <2>2, <3>2 DEF Continues, Sample
  <2>4. SlowUpTo(s, k, 1, n + 1)
    <3>1. ASSUME NEW j \in n + 1 - 1 + 1 .. n + 1 PROVE j = n + 1
      OBVIOUS
    <3>2. n + 1 - 1 + 2 .. n + 1 = {}
      OBVIOUS
    <3>3. s[n + 1].kind = "slow"
      BY <1>4
    <3> QED
      BY <3>1, <3>2, <3>3 DEF SlowUpTo
  <2>5. ~SlowUpTo(s, k, 1 + 1, n + 1)
    <3>1. n + 1 \in n + 1 - (1 + 1) + 2 .. n + 1 /\ n + 1 - 1 = n
      OBVIOUS
    <3>2. s[n + 1].at - s[n + 1 - 1].at > Interval
      BY <2>3, <3>1
    <3>3. ~(s[n + 1].at - s[n + 1 - 1].at <= Interval)
      BY <1>1, <2>3, <3>1, <3>2
    <3> QED
      BY <3>1, <3>3 DEF SlowUpTo
  <2> HIDE DEF x
  <2> QED
    BY <2>1, <2>4, <2>5 DEF x
<1> QED
  BY <1>2, <1>3, <1>4

\* One more sample moves the guard as the definition by runs says.
LEMMA GuardFollows ==
    ASSUME NEW s \in Seq(Sample), NEW n \in Nat, n < Len(s), NEW k \in 1 .. n + 1,
           NEW g \in Guard, Tells(g, s, k, n)
    PROVE  Tells(AfterSample(g, s[n + 1]), s, k, n + 1)
<1>1. PICK m \in Nat : m = Streak(g, s[n + 1])
  BY StreakFollows
<1>2. SlowUpTo(s, k, m, n + 1) /\ ~SlowUpTo(s, k, m + 1, n + 1)
  BY <1>1, StreakFollows
<1>3. PICK h : h = AfterSample(g, s[n + 1])
  OBVIOUS
<1>4. /\ h.streak = m /\ h.last = s[n + 1].at
      /\ h.degraded = (m >= Limit \/ (g.degraded /\ s[n + 1].kind # "fast"))
  BY <1>1, <1>3 DEF AfterSample, Moved, Streak
<1>5. Limit \in Nat /\ Limit >= 1 /\ g.degraded \in BOOLEAN /\ k \in Nat
  BY TransferAssumption DEF Guard
<1>6. m >= Limit <=> SlowUpTo(s, k, Limit, n + 1)
  <2>1. m >= Limit => SlowUpTo(s, k, Limit, n + 1)
    BY <1>2, <1>5, ShorterRun
  <2>2. ~(m >= Limit) => ~SlowUpTo(s, k, Limit, n + 1)
    <3>1. ~(m >= Limit) => m + 1 <= Limit
      BY <1>5
    <3>2. m + 1 \in Nat /\ n + 1 \in Nat
      OBVIOUS
    <3> QED
      BY <1>2, <1>5, <3>1, <3>2, ShorterRun
  <2> QED
    BY <2>1, <2>2
<1>7. SlowUpTo(s, k, Limit, n + 1) => s[n + 1].kind # "fast"
  <2>1. PICK r \in Nat : r = n + 1
    OBVIOUS
  <2>2. r \in r - Limit + 1 .. r
    BY <1>5, <2>1
  <2>3. SlowUpTo(s, k, Limit, r) => s[r].kind = "slow"
    BY <2>2 DEF SlowUpTo
  <2> QED
    BY <2>1, <2>3
<1> DEFINE Degraded(i, to) == SlowUpTo(s, k, Limit, i) /\ \A j \in i .. to : s[j].kind # "fast"
<1>8. g.degraded <=> \E i \in k .. n : Degraded(i, n)
  BY DEF Tells
<1>9. \A i \in k .. n : Degraded(i, n + 1) <=> Degraded(i, n) /\ s[n + 1].kind # "fast"
  <2>1. \A i \in k .. n : i .. n + 1 = (i .. n) \cup {n + 1}
    OBVIOUS
  <2> QED
    BY <2>1
<1>10. Degraded(n + 1, n + 1) <=> SlowUpTo(s, k, Limit, n + 1)
  <2>1. n + 1 .. n + 1 = {n + 1}
    OBVIOUS
  <2> QED
    BY <1>7, <2>1
<1>11. k .. n + 1 = (k .. n) \cup {n + 1}
  OBVIOUS
<1>12. h.degraded <=> \E i \in k .. n + 1 : Degraded(i, n + 1)
  <2> HIDE DEF Degraded
  <2> QED
    BY <1>4, <1>5, <1>6, <1>7, <1>8, <1>9, <1>10, <1>11
<1>13. k <= n + 1
  OBVIOUS
<1>14. Tells(h, s, k, n + 1)
  BY <1>2, <1>4, <1>12, <1>13 DEF Tells
<1> QED
  BY <1>3, <1>14

\* What a guard tells is about the first samples of a list.
LEMMA TellsOfFirst ==
    ASSUME NEW s, NEW t, NEW n \in Nat, \A i \in 1 .. n : s[i] = t[i],
           NEW k \in 1 .. n + 1, NEW g \in Guard, Tells(g, s, k, n)
    PROVE  Tells(g, t, k, n)
<1>1. Limit \in Nat /\ Limit >= 1 /\ g.streak \in Nat
  BY TransferAssumption DEF Guard
<1>2. ASSUME NEW i \in 0 .. n, NEW m \in Nat
      PROVE  SlowUpTo(s, k, m, i) <=> SlowUpTo(t, k, m, i)
  <2>1. ASSUME NEW a, NEW b, \A j \in 1 .. n : a[j] = b[j], SlowUpTo(a, k, m, i)
        PROVE  SlowUpTo(b, k, m, i)
    <3>1. ASSUME NEW j \in i - m + 1 .. i PROVE j >= k /\ b[j].kind = "slow"
      <4>1. j >= k /\ a[j].kind = "slow"
        BY <2>1 DEF SlowUpTo
      <4>2. j \in 1 .. n
        BY <4>1
      <4> QED
        BY <2>1, <4>1, <4>2
    <3>2. ASSUME NEW j \in i - m + 2 .. i PROVE b[j].at - b[j - 1].at <= Interval
      <4>1. j \in i - m + 1 .. i /\ j - 1 \in i - m + 1 .. i
        OBVIOUS
      <4>2. j >= k /\ j - 1 >= k
        BY <3>1, <4>1
      <4>3. j \in 1 .. n /\ j - 1 \in 1 .. n
        BY <4>2
      <4>4. a[j] = b[j] /\ a[j - 1] = b[j - 1]
        BY <2>1, <4>3
      <4>5. a[j].at - a[j - 1].at <= Interval
        BY <2>1 DEF SlowUpTo
      <4> QED
        BY <4>4, <4>5
    <3> QED
      BY <3>1, <3>2 DEF SlowUpTo
  <2> QED
    BY <2>1
<1>3. g.last = IF k <= n THEN t[n].at ELSE NoTime
  <2>1. k <= n => n \in 1 .. n
    OBVIOUS
  <2> QED
    BY <2>1 DEF Tells
<1>4. SlowUpTo(t, k, g.streak, n) /\ ~SlowUpTo(t, k, g.streak + 1, n)
  BY <1>1, <1>2 DEF Tells
<1>5. \A i \in k .. n : i \in 0 .. n /\ \A j \in i .. n : s[j] = t[j]
  OBVIOUS
<1>6. g.degraded <=>
          \E i \in k .. n : SlowUpTo(t, k, Limit, i) /\ \A j \in i .. n : t[j].kind # "fast"
  BY <1>1, <1>2, <1>5 DEF Tells
<1> QED
  BY <1>3, <1>4, <1>6 DEF Tells

\* A guard that has seen nothing accounts for nothing.
LEMMA NoGuardTells ==
    ASSUME NEW s, NEW n \in Nat
    PROVE  Tells(NoGuard, s, n + 1, n)
<1>1. SlowUpTo(s, n + 1, 0, n)
  BY DEF SlowUpTo
<1>2. ~SlowUpTo(s, n + 1, 1, n)
  <2>1. n \in n - 1 + 1 .. n /\ ~(n >= n + 1)
    OBVIOUS
  <2> QED
    BY <2>1 DEF SlowUpTo
<1>3. n + 1 .. n = {} /\ ~(n + 1 <= n) /\ 0 + 1 = 1
  OBVIOUS
<1> QED
  BY <1>1, <1>2, <1>3 DEF Tells, NoGuard

\* The first fresh sample.
LEMMA FirstFreshIsFirst ==
    ASSUME NEW s \in Seq(Sample), NEW at \in Nat
    PROVE  /\ FirstFresh(s, at) \in 1 .. Len(s) + 1
           /\ \A i \in 1 .. Len(s) : i < FirstFresh(s, at) => at - s[i].at > 2 * Interval
<1> DEFINE S == {i \in DOMAIN s : at - s[i].at <= 2 * Interval} \cup {Len(s) + 1}
<1>1. PICK n \in Nat : n = Len(s) /\ DOMAIN s = 1 .. n /\ \A i \in 1 .. n : s[i] \in Sample
  OBVIOUS
<1>2. S \in SUBSET Nat /\ S # {} /\ S \subseteq 1 .. n + 1
  BY <1>1
<1>3. ASSUME NEW i \in 1 .. n, i \notin S PROVE at - s[i].at > 2 * Interval
  <2>1. ~(at - s[i].at <= 2 * Interval)
    BY <1>1, <1>3
  <2>2. s[i].at \in Nat /\ Interval \in Nat
    BY <1>1, TransferAssumption DEF Sample
  <2> QED
    BY <2>1, <2>2
<1>4. FirstFresh(s, at) = Min(S)
  BY DEF FirstFresh
<1> HIDE DEF S
<1>5. Min(S) \in S /\ \A i \in S : Min(S) <= i
  BY <1>2, MinOf
<1>6. PICK m \in 1 .. n + 1 : m = Min(S) /\ \A i \in S : m <= i
  BY <1>2, <1>5
<1>7. ASSUME NEW i \in 1 .. n, i < m PROVE i \notin S
  <2>1. ~(m <= i)
    BY <1>7
  <2> QED
    BY <1>6, <2>1
<1>8. \A i \in 1 .. n : i < m => at - s[i].at > 2 * Interval
  BY <1>3, <1>7
<1> QED
  BY <1>1, <1>4, <1>6, <1>8

\* A restored guard is what the fresh samples of the list say.
LEMMA RestoredTells ==
    ASSUME NEW s \in Seq(Sample), NEW at \in Nat
    PROVE  Restored(s, at) \in Guard /\ Tells(Restored(s, at), s, FirstFresh(s, at), Len(s))
<1>1. PICK n \in Nat : n = Len(s) /\ \A i \in 1 .. n : s[i] \in Sample
  OBVIOUS
<1>2. PICK k \in 1 .. n + 1 : k = FirstFresh(s, at)
  BY <1>1, FirstFreshIsFirst
<1>3. PICK t \in Seq(Sample) : t = SubSeq(s, k, n)
  <2>1. \A i \in k .. n : s[i] \in Sample
    BY <1>1
  <2>2. SubSeq(s, k, n) \in Seq(Sample)
    BY <2>1, SubSeqProperties
  <2> QED
    BY <2>2
<1>4. PICK l \in Nat : l = n - k + 1 /\ k - 1 + l = n
  OBVIOUS
<1>5. Len(t) = l /\ \A j \in 1 .. l : t[j] = s[k + j - 1]
  BY <1>1, <1>3, <1>4
<1>6. PICK g \in [0 .. l -> Guard] :
          /\ g[0] = NoGuard
          /\ FoldLeft(AfterSample, NoGuard, t) = g[l]
          /\ \A j \in 1 .. l : g[j] = AfterSample(g[j - 1], t[j])
  BY <1>5, GuardFolds
<1>7. Restored(s, at) = g[l]
  BY <1>1, <1>2, <1>3, <1>6 DEF Restored, Fresh
<1> DEFINE good == {j \in 0 .. l : Tells(g[j], s, k, k - 1 + j)}
<1>8. 0 \in good
  <2>1. PICK m \in Nat : m = k - 1 /\ k = m + 1 /\ k - 1 + 0 = m
    OBVIOUS
  <2>2. Tells(NoGuard, s, m + 1, m)
    BY NoGuardTells
  <2>3. Tells(g[0], s, k, k - 1 + 0)
    BY <1>6, <2>1, <2>2
  <2> QED
    BY <2>3
<1>9. ASSUME NEW j \in 0 .. l - 1, j \in good PROVE j + 1 \in good
  <2>1. PICK m \in Nat : m = k - 1 + j
    OBVIOUS
  <2>2. m < Len(s) /\ k \in 1 .. m + 1 /\ m + 1 = k - 1 + (j + 1)
    <3>1. m < n
      BY <1>4, <2>1
    <3>2. k <= m + 1 /\ m + 1 = k - 1 + (j + 1)
      BY <2>1
    <3> QED
      BY <1>1, <3>1, <3>2
  <2>3. g[j] \in Guard /\ Tells(g[j], s, k, m)
    BY <1>9, <2>1
  <2>4. Tells(AfterSample(g[j], s[m + 1]), s, k, m + 1)
    BY <2>2, <2>3, GuardFollows
  <2>5. j + 1 \in 1 .. l /\ j + 1 - 1 = j /\ k + (j + 1) - 1 = m + 1
    <3>1. j + 1 \in 1 .. l /\ j + 1 - 1 = j
      OBVIOUS
    <3>2. k + (j + 1) - 1 = m + 1
      BY <2>1
    <3> QED
      BY <3>1, <3>2
  <2>6. g[j + 1] = AfterSample(g[j], s[m + 1])
    <3>1. t[j + 1] = s[k + (j + 1) - 1]
      BY <1>5, <2>5
    <3>2. g[j + 1] = AfterSample(g[j + 1 - 1], t[j + 1])
      BY <1>6, <2>5
    <3> QED
      BY <2>5, <3>1, <3>2
  <2> QED
    BY <2>2, <2>4, <2>5, <2>6
<1> HIDE DEF good
<1>10. 0 .. l \subseteq good
  BY <1>8, <1>9, Counting
<1>11. Tells(g[l], s, k, k - 1 + l)
  BY <1>10 DEF good
<1> QED
  BY <1>1, <1>2, <1>4, <1>6, <1>7, <1>11
-----------------------------------------------------------------------------
(* Types *)

\* A list that waits to be restored was taken from the stored samples before.
ListsAreOld ==
    \A list \in {worker, orphan} :
        list.pc = "listed" => list.upTo <= Len(samples) /\ list.at <= now

TypeInv == TypeOK /\ ListsAreOld

\* The bounds are numbers.
LEMMA Bounds ==
    MaxTime \in Nat /\ MaxRestarts \in Nat
  BY ConnectivityAssumption

\* What a step needs of the types.
LEMMA TypeFacts ==
    ASSUME TypeOK
    PROVE  /\ now \in Nat /\ now <= MaxTime /\ restarts \in Nat /\ restarts <= MaxRestarts
           /\ samples \in Seq(Sample) /\ Len(samples) \in Nat
           /\ life \in 0 .. Len(samples) /\ known \in 1 .. Len(samples) + 1
           /\ worker \in Worker /\ orphan \in Worker /\ guard \in Guard
           /\ guard.degraded \in BOOLEAN
           /\ holder \in [who : Monitors \cup {Observer, Nobody, Cancelled}, at : Nat]
           /\ probing \in [Monitors -> {"idle", "asking", "sampling"}]
           /\ outcome \in [Monitors -> {"", "observer_down", "cloudflare_transfer_slow"}]
           /\ observerState \in ObserverRow
           /\ incidents \in Seq({"UP", "DOWN"}) /\ checks \in Seq(BOOLEAN)
<1>1. now \in 0 .. MaxTime /\ restarts \in 0 .. MaxRestarts
  BY DEF TypeOK
<1>2. now \in Nat /\ now <= MaxTime /\ restarts \in Nat /\ restarts <= MaxRestarts
  BY <1>1, Bounds
<1>3. samples \in Seq(Sample) /\ guard \in Guard
  BY DEF TypeOK
<1>4. Len(samples) \in Nat /\ guard.degraded \in BOOLEAN
  BY <1>3 DEF Guard
<1> QED
  BY <1>2, <1>3, <1>4 DEF TypeOK

\* The states of the observer's goroutine.
LEMMA WorkerTypes ==
    /\ \A pc \in {"gone", "starting", "listed", "idle", "checked", "asking", "sampling"} :
           WorkerAt(pc) \in Worker /\ WorkerAt(pc).pc = pc
    /\ \A upTo, at \in Nat :
           LET list == [WorkerAt("listed") EXCEPT !.upTo = upTo, !.at = at]
           IN  list \in Worker /\ list.pc = "listed" /\ list.upTo = upTo /\ list.at = at
    /\ \A seen \in ObserverRow, healthy \in BOOLEAN :
           LET checked == [WorkerAt("checked") EXCEPT !.seen = seen, !.healthy = healthy]
           IN  checked \in Worker /\ checked.pc = "checked"
<1>1. NoObserver \in ObserverRow
  BY DEF NoObserver, ObserverRow
<1> QED
  BY <1>1 DEF WorkerAt, Worker

\* Nobody holds the lock.
LEMMA FreeType ==
    Free \in [who : Monitors \cup {Observer, Nobody, Cancelled}, at : Nat] /\ Free.who = Nobody
  BY DEF Free

\* What a list leads to is well typed.
LEMMA RestoreTypes ==
    ASSUME TypeOK, NEW list \in Worker, list.upTo <= Len(samples),
           RestoreGuard(list), samples' = samples
    PROVE  /\ guard' \in Guard /\ known' \in 1 .. Len(samples) + 1
           /\ life' \in 0 .. Len(samples) /\ overtaken' \in BOOLEAN
<1>1. PICK s \in Seq(Sample) : s = SubSeq(samples, 1, list.upTo) /\ Len(s) = list.upTo
  <2>1. list.upTo \in Nat /\ samples \in Seq(Sample)
    BY TypeFacts DEF Worker
  <2>2. \A i \in 1 .. list.upTo : samples[i] \in Sample
    BY <2>1
  <2>3. /\ SubSeq(samples, 1, list.upTo) \in Seq(Sample)
        /\ Len(SubSeq(samples, 1, list.upTo)) = IF 1 <= list.upTo THEN list.upTo - 1 + 1 ELSE 0
    BY <2>1, <2>2, SubSeqProperties
  <2>4. Len(SubSeq(samples, 1, list.upTo)) = list.upTo
    BY <2>1, <2>3
  <2> QED
    BY <2>3, <2>4
<1>2. list.at \in Nat /\ list.upTo \in Nat /\ samples \in Seq(Sample) /\ life \in 0 .. Len(samples)
  BY TypeFacts DEF Worker
<1>3. guard' = Restored(s, list.at) /\ known' = FirstFresh(s, list.at)
  BY <1>1 DEF RestoreGuard
<1>4. guard' \in Guard
  BY <1>2, <1>3, RestoredTells
<1>5. known' \in 1 .. list.upTo + 1
  BY <1>1, <1>2, <1>3, FirstFreshIsFirst
<1>6. overtaken' = (list.upTo < Len(samples)) /\ life' \in {life, Len(samples)}
  BY DEF RestoreGuard
<1>7. overtaken' \in BOOLEAN /\ life' \in 0 .. Len(samples)
  BY <1>2, <1>6
<1> QED
  BY <1>2, <1>4, <1>5, <1>7

\* Whoever asks goes on with what is well typed.
LEMMA AnswerTypes ==
    ASSUME TypeInv, NEW who \in Monitors \cup {Observer}, NEW degraded \in BOOLEAN,
           Answer(who, degraded)
    PROVE  /\ worker' \in Worker
           /\ worker' = worker \/ worker'.pc # "listed"
           /\ probing' \in [Monitors -> {"idle", "asking", "sampling"}]
           /\ outcome' \in [Monitors -> {"", "observer_down", "cloudflare_transfer_slow"}]
<1>0. /\ worker \in Worker
      /\ probing \in [Monitors -> {"idle", "asking", "sampling"}]
      /\ outcome \in [Monitors -> {"", "observer_down", "cloudflare_transfer_slow"}]
  BY TypeFacts DEF TypeInv
<1>1. CASE who = Observer
  <2>1. worker' = WorkerAt("idle") /\ probing' = probing /\ outcome' = outcome
    BY <1>1 DEF Answer, monitors
  <2>2. WorkerAt("idle") \in Worker /\ WorkerAt("idle").pc = "idle"
    BY WorkerTypes
  <2> QED
    BY <1>0, <2>1, <2>2
<1>2. CASE who # Observer
  <2>1. who \in Monitors
    BY <1>2
  <2> QED
    BY <1>0, <1>2, <2>1 DEF Answer
<1> QED
  BY <1>1, <1>2

\* The first state is well typed.
LEMMA InitTypes == Init => TypeInv
<1> SUFFICES ASSUME Init PROVE TypeInv
  OBVIOUS
<1>1. MaxTime \in Nat /\ MaxRestarts \in Nat
  BY Bounds
<1>2. worker \in Worker /\ worker.pc = "starting" /\ orphan \in Worker /\ orphan.pc = "gone"
  BY WorkerTypes DEF Init, NoOrphan
<1>3. observerState \in ObserverRow
  BY DEF Init, NoObserver, ObserverRow
<1>4. ListsAreOld
  BY <1>2 DEF ListsAreOld
<1>5. /\ samples = <<>> /\ incidents = <<>> /\ checks = <<>> /\ known = 1 /\ life = 0
      /\ overtaken = FALSE /\ enabled = TRUE /\ now = 0 /\ restarts = 0 /\ events \in Scenarios
      /\ guard = NoGuard /\ holder = Free
  BY DEF Init
<1>6. /\ samples \in Seq(Sample) /\ incidents \in Seq({"UP", "DOWN"}) /\ checks \in Seq(BOOLEAN)
      /\ known \in 1 .. Len(samples) + 1 /\ life \in 0 .. Len(samples)
      /\ now \in 0 .. MaxTime /\ restarts \in 0 .. MaxRestarts
  BY <1>1, <1>5
<1>7. /\ probing \in [Monitors -> {"idle", "asking", "sampling"}]
      /\ outcome \in [Monitors -> {"", "observer_down", "cloudflare_transfer_slow"}]
  BY DEF Init
<1>8. TypeOK
  BY <1>2, <1>3, <1>5, <1>6, <1>7, NoGuardType, FreeType DEF TypeOK
<1> QED
  BY <1>4, <1>8 DEF TypeInv

\* A step leads from types to types.
LEMMA NextTypes ==
    ASSUME TypeInv, [Next]_vars
    PROVE  TypeInv'
<1> USE DEF TypeInv
<1>0. /\ now \in Nat /\ now <= MaxTime /\ restarts \in Nat /\ restarts <= MaxRestarts
      /\ samples \in Seq(Sample) /\ Len(samples) \in Nat
      /\ life \in 0 .. Len(samples) /\ known \in 1 .. Len(samples) + 1
      /\ worker \in Worker /\ orphan \in Worker /\ guard \in Guard
      /\ guard.degraded \in BOOLEAN
      /\ holder \in [who : Monitors \cup {Observer, Nobody, Cancelled}, at : Nat]
      /\ probing \in [Monitors -> {"idle", "asking", "sampling"}]
      /\ outcome \in [Monitors -> {"", "observer_down", "cloudflare_transfer_slow"}]
      /\ observerState \in ObserverRow
      /\ incidents \in Seq({"UP", "DOWN"}) /\ checks \in Seq(BOOLEAN)
  BY TypeFacts
<1>1. CASE UNCHANGED vars
  BY <1>1 DEF vars, clock, store, monitors, guarded, TypeOK, ListsAreOld
<1>2. CASE ListSamples
  <2>1. /\ worker' \in Worker
        /\ worker'.pc = "listed" => worker'.upTo = Len(samples) /\ worker'.at = now
    <3>1. CASE worker' = [WorkerAt("listed") EXCEPT !.upTo = Len(samples), !.at = now]
      <4>1. now \in Nat /\ Len(samples) \in Nat
        BY <1>0
      <4>2. worker' \in Worker
        BY <3>1, <4>1, WorkerTypes
      <4>3. worker'.upTo = Len(samples) /\ worker'.at = now
        BY <3>1 DEF WorkerAt
      <4> QED
        BY <4>2, <4>3
    <3>2. CASE worker' = WorkerAt("idle")
      <4>1. WorkerAt("idle") \in Worker /\ WorkerAt("idle").pc = "idle"
        BY WorkerTypes
      <4> QED
        BY <3>2, <4>1
    <3> QED
      BY <1>2, <3>1, <3>2 DEF ListSamples
  <2>2. ListsAreOld'
    <3>1. orphan' = orphan /\ samples' = samples /\ now' = now
      BY <1>2 DEF ListSamples, clock, guarded
    <3>2. now \in Nat /\ Len(samples) \in Nat
      BY <1>0
    <3>3. now <= now /\ Len(samples) <= Len(samples)
      BY <3>2
    <3> QED
      BY <2>1, <3>1, <3>3 DEF ListsAreOld
  <2> QED
    BY <1>2, <2>1, <2>2 DEF ListSamples, clock, store, monitors, guarded, TypeOK
<1>3. CASE Restore
  <2>1. worker' \in Worker /\ worker'.pc = "idle"
    BY <1>3, WorkerTypes DEF Restore
  <2>2. RestoreGuard(worker) /\ worker.upTo <= Len(samples) /\ samples' = samples
    BY <1>3 DEF Restore, ListsAreOld
  <2>3. /\ guard' \in Guard /\ known' \in 1 .. Len(samples) + 1
        /\ life' \in 0 .. Len(samples) /\ overtaken' \in BOOLEAN
    BY <1>0, <2>2, RestoreTypes
  <2>4. ListsAreOld'
    BY <1>3, <2>1 DEF Restore, clock, ListsAreOld
  <2> QED
    BY <1>3, <2>1, <2>3, <2>4 DEF Restore, clock, store, monitors, TypeOK
<1>4. CASE RestoreOrphan
  <2>1. orphan' \in Worker /\ orphan'.pc = "gone"
    BY <1>4, WorkerTypes DEF RestoreOrphan, NoOrphan
  <2>2. RestoreGuard(orphan) /\ orphan.upTo <= Len(samples) /\ samples' = samples
    BY <1>4 DEF RestoreOrphan, ListsAreOld
  <2>3. /\ guard' \in Guard /\ known' \in 1 .. Len(samples) + 1
        /\ life' \in 0 .. Len(samples) /\ overtaken' \in BOOLEAN
    BY <1>0, <2>2, RestoreTypes
  <2>4. ListsAreOld'
    BY <1>4, <2>1 DEF RestoreOrphan, clock, ListsAreOld
  <2> QED
    BY <1>4, <2>1, <2>3, <2>4 DEF RestoreOrphan, clock, store, monitors, TypeOK
<1>5. CASE Check
  <2>1. PICK healthy \in BOOLEAN :
            worker' = [WorkerAt("checked") EXCEPT !.seen = observerState, !.healthy = healthy]
    BY <1>5 DEF Check
  <2>2. observerState \in ObserverRow
    BY DEF TypeOK
  <2>3. worker' \in Worker /\ worker'.pc = "checked"
    BY <2>1, <2>2, WorkerTypes
  <2> QED
    BY <1>5, <2>3 DEF Check, clock, store, monitors, guarded, TypeOK, ListsAreOld
<1>6. CASE SaveCheck
  <2>1. worker.seen \in ObserverRow /\ worker.healthy \in BOOLEAN
    BY <1>0 DEF Worker
  <2>2. observerState' \in ObserverRow
    BY <1>6, <2>1, EvaluatedRow DEF SaveCheck
  <2>3. incidents' \in Seq({"UP", "DOWN"})
    <3>1. PICK row \in ObserverRow : row = observerState'
      BY <2>2
    <3>2. row.status \in {"UP", "DOWN"} /\ incidents \in Seq({"UP", "DOWN"})
      BY <1>0 DEF ObserverRow
    <3>3. Incident(worker.seen, row) \in Seq({"UP", "DOWN"})
      <4>1. <<row.status>> \in Seq({"UP", "DOWN"}) /\ << >> \in Seq({"UP", "DOWN"})
        BY <3>2
      <4> QED
        BY <4>1 DEF Incident
    <3>4. incidents' = incidents \o Incident(worker.seen, row)
      BY <1>6, <3>1 DEF SaveCheck
    <3> QED
      BY <3>2, <3>3, <3>4
  <2>4. checks' \in Seq(BOOLEAN)
    <3>1. checks \in Seq(BOOLEAN) /\ checks' = Append(checks, worker.healthy)
      BY <1>0, <1>6 DEF SaveCheck
    <3> QED
      BY <2>1, <3>1
  <2>5. worker' \in Worker /\ worker'.pc # "listed"
    BY <1>6, WorkerTypes DEF SaveCheck
  <2> QED
    BY <1>6, <2>2, <2>3, <2>4, <2>5 DEF SaveCheck, clock, monitors, guarded, TypeOK, ListsAreOld
<1>7. CASE FailCheck
  <2>1. worker' \in Worker /\ worker'.pc = "idle"
    BY <1>7, WorkerTypes DEF FailCheck
  <2> QED
    BY <1>7, <2>1 DEF FailCheck, clock, store, monitors, guarded, TypeOK, ListsAreOld
<1>8. CASE \E m \in Monitors : ProbeFails(m)
  BY <1>8 DEF ProbeFails, clock, store, guarded, TypeOK, ListsAreOld
<1>9. CASE \E m \in Monitors : ReloadMonitor(m)
  <2>1. holder' \in [who : Monitors \cup {Observer, Nobody, Cancelled}, at : Nat]
    BY <1>9 DEF ReloadMonitor, TypeOK
  <2>2. restarts' \in 0 .. MaxRestarts
    <3>1. restarts < MaxRestarts /\ restarts' = restarts + 1
      BY <1>9 DEF ReloadMonitor
    <3>2. restarts \in Nat
      BY <1>0
    <3> QED
      BY <3>1, <3>2, Bounds
  <2> QED
    BY <1>9, <2>1, <2>2 DEF ReloadMonitor, clock, store, guarded, TypeOK, ListsAreOld
<1>10. ASSUME NEW who \in Monitors \cup {Observer}, Reuse(who) PROVE TypeInv'
  <2>1. guard.degraded \in BOOLEAN
    BY <1>0 DEF Guard
  <2>2. /\ worker' \in Worker
        /\ worker' = worker \/ worker'.pc # "listed"
        /\ probing' \in [Monitors -> {"idle", "asking", "sampling"}]
        /\ outcome' \in [Monitors -> {"", "observer_down", "cloudflare_transfer_slow"}]
    BY <1>10, <2>1, AnswerTypes DEF Reuse
  <2> QED
    BY <1>10, <2>2 DEF Reuse, clock, store, guarded, TypeOK, ListsAreOld
<1>11. ASSUME NEW who \in Monitors \cup {Observer}, StartSample(who) PROVE TypeInv'
  <2>1. /\ worker' \in Worker
        /\ worker' = worker \/ worker'.pc # "listed"
        /\ probing' \in [Monitors -> {"idle", "asking", "sampling"}]
        /\ outcome' = outcome
    <3>1. CASE who = Observer
      BY <1>11, <3>1, WorkerTypes DEF StartSample, monitors, TypeOK
    <3>2. CASE who # Observer
      <4>1. who \in Monitors
        BY <3>2
      <4> QED
        BY <1>11, <3>2, <4>1 DEF StartSample, TypeOK
    <3> QED
      BY <3>1, <3>2
  <2>2. holder' \in [who : Monitors \cup {Observer, Nobody, Cancelled}, at : Nat]
    BY <1>0, <1>11 DEF StartSample
  <2> QED
    BY <1>11, <2>1, <2>2 DEF StartSample, clock, store, guarded, TypeOK, ListsAreOld
<1>12. ASSUME NEW who \in Monitors \cup {Observer}, NEW kind \in SampleKind, FinishSample(who, kind)
       PROVE  TypeInv'
  <2>1. PICK sample \in Sample : sample = [kind |-> kind, at |-> holder.at]
    BY DEF TypeOK, Sample
  <2>2. samples' = Append(samples, sample) /\ guard' = AfterSample(guard, sample)
    BY <1>12, <2>1 DEF FinishSample
  <2>3. guard' \in Guard
    BY <1>0, <2>2, AfterSampleType
  <2>4. samples' \in Seq(Sample) /\ Len(samples') = Len(samples) + 1
    <3>1. samples \in Seq(Sample)
      BY <1>0
    <3> QED
      BY <2>2, <3>1
  <2>5. guard'.degraded \in BOOLEAN
    BY <2>3 DEF Guard
  <2>6. /\ worker' \in Worker
        /\ worker' = worker \/ worker'.pc # "listed"
        /\ probing' \in [Monitors -> {"idle", "asking", "sampling"}]
        /\ outcome' \in [Monitors -> {"", "observer_down", "cloudflare_transfer_slow"}]
    BY <1>12, <2>5, AnswerTypes DEF FinishSample
  <2>7. known' \in 1 .. Len(samples') + 1 /\ life' \in 0 .. Len(samples')
    <3>1. known' = known /\ life' = life
      BY <1>12 DEF FinishSample
    <3>2. Len(samples) \in Nat /\ life \in 0 .. Len(samples) /\ known \in 1 .. Len(samples) + 1
      BY <1>0
    <3> QED
      BY <2>4, <3>1, <3>2
  <2>8. ListsAreOld'
    <3>1. orphan' = orphan /\ now' = now
      BY <1>12 DEF FinishSample, clock
    <3>2. ASSUME NEW list \in {worker, orphan}, list.pc = "listed"
          PROVE  list.upTo <= Len(samples') /\ list.at <= now
      <4>1. list.upTo <= Len(samples) /\ list.at <= now /\ list.upTo \in Nat
        BY <1>0, <3>2 DEF ListsAreOld, Worker
      <4>2. Len(samples) \in Nat
        BY <1>0
      <4> QED
        BY <2>4, <4>1, <4>2
    <3> QED
      BY <2>6, <3>1, <3>2 DEF ListsAreOld
  <2> QED
    BY <1>12, <2>3, <2>4, <2>6, <2>7, <2>8, FreeType DEF FinishSample, clock, store, TypeOK
<1>13. ASSUME NEW who \in Monitors \cup {Observer}, FailSample(who) PROVE TypeInv'
  <2>1. guard.degraded \in BOOLEAN
    BY <1>0 DEF Guard
  <2>2. /\ worker' \in Worker
        /\ worker' = worker \/ worker'.pc # "listed"
        /\ probing' \in [Monitors -> {"idle", "asking", "sampling"}]
        /\ outcome' \in [Monitors -> {"", "observer_down", "cloudflare_transfer_slow"}]
    BY <1>13, <2>1, AnswerTypes DEF FailSample
  <2> QED
    BY <1>13, <2>2, FreeType DEF FailSample, clock, store, guarded, TypeOK, ListsAreOld
<1>14. CASE Release
  BY <1>14, FreeType DEF Release, clock, store, monitors, guarded, TypeOK, ListsAreOld
<1>15. CASE Reload
  <2>1. worker' \in Worker /\ worker'.pc # "listed"
    BY <1>15, WorkerTypes DEF Reload
  <2>2. orphan' \in {worker, orphan} /\ enabled' \in BOOLEAN
    BY <1>15 DEF Reload
  <2>3. holder' \in [who : Monitors \cup {Observer, Nobody, Cancelled}, at : Nat]
    BY <1>0, <1>15 DEF Reload
  <2>4. restarts' \in 0 .. MaxRestarts
    <3>1. restarts < MaxRestarts /\ restarts' = restarts + 1
      BY <1>15 DEF Reload
    <3>2. restarts \in Nat
      BY <1>0
    <3> QED
      BY <3>1, <3>2, Bounds
  <2>5. now' = now /\ events' = events
    BY <1>15 DEF Reload
  <2>6. ListsAreOld'
    BY <1>15, <2>1, <2>2, <2>5 DEF Reload, guarded, ListsAreOld
  <2> QED
    BY <1>0, <1>15, <2>1, <2>2, <2>3, <2>4, <2>5, <2>6 DEF Reload, store, monitors, guarded, TypeOK
<1>16. CASE Crash
  <2>1. worker' \in Worker /\ worker'.pc # "listed" /\ orphan' \in Worker /\ orphan'.pc = "gone"
    BY <1>16, WorkerTypes DEF Crash, NoOrphan
  <2>2. restarts' \in 0 .. MaxRestarts
    <3>1. restarts < MaxRestarts /\ restarts' = restarts + 1
      BY <1>16 DEF Crash
    <3>2. restarts \in Nat
      BY <1>0
    <3> QED
      BY <3>1, <3>2, Bounds
  <2>3. /\ known' \in 1 .. Len(samples) + 1 /\ life' \in 0 .. Len(samples) /\ overtaken' \in BOOLEAN
        /\ probing' \in [Monitors -> {"idle", "asking", "sampling"}]
    <3>1. /\ known' = Len(samples) + 1 /\ life' = Len(samples) /\ overtaken' = FALSE
          /\ probing' = [m \in Monitors |-> "idle"]
      BY <1>16 DEF Crash
    <3>2. Len(samples) \in Nat
      BY <1>0
    <3>3. Len(samples) + 1 \in 1 .. Len(samples) + 1 /\ Len(samples) \in 0 .. Len(samples)
      BY <3>2
    <3> QED
      BY <3>1, <3>3
  <2> QED
    BY <1>16, <2>1, <2>2, <2>3, FreeType, NoGuardType DEF Crash, store, TypeOK, ListsAreOld
<1>17. CASE Tick
  <2>1. now' \in 0 .. MaxTime /\ now' = now + 1
    <3>1. now < MaxTime /\ now' = now + 1 /\ now \in Nat
      BY <1>0, <1>17 DEF Tick
    <3> QED
      BY <3>1, Bounds
  <2>2. ListsAreOld'
    <3>1. worker' = worker /\ orphan' = orphan /\ samples' = samples
      BY <1>17 DEF Tick, guarded
    <3>2. ASSUME NEW list \in {worker, orphan}, list.pc = "listed"
          PROVE  list.upTo <= Len(samples) /\ list.at <= now'
      <4>1. list.upTo <= Len(samples) /\ list.at <= now /\ list.at \in Nat /\ now \in Nat
        BY <1>0, <3>2 DEF ListsAreOld, Worker
      <4> QED
        BY <2>1, <4>1
    <3> QED
      BY <3>1, <3>2 DEF ListsAreOld
  <2> QED
    BY <1>17, <2>1, <2>2 DEF Tick, store, monitors, guarded, TypeOK
<1> QED
  BY <1>1, <1>2, <1>3, <1>4, <1>5, <1>6, <1>7, <1>8, <1>9, <1>10, <1>11, <1>12, <1>13,
     <1>14, <1>15, <1>16, <1>17 DEF Next, Sampling

\* The daemon's connectivity state is well typed, and a list that waits to be restored is
\* not newer than the samples.
THEOREM TypeCorrect == Spec => []TypeOK
<1>1. Init => TypeInv
  BY InitTypes
<1>2. TypeInv /\ [Next]_vars => TypeInv'
  BY NextTypes
<1>3. TypeInv => TypeOK
  BY DEF TypeInv
<1> QED
  BY <1>1, <1>2, <1>3, PTL DEF Spec

-----------------------------------------------------------------------------
(* The guard and the samples *)

\* The least time between the starts of two samples.
Spacing == Min({IncidentInterval, Interval})

\* The guard is what the samples that it accounts for say.
GuardIsKnown == overtaken \/ Tells(guard, samples, known, Len(samples))

\* The guard knows when the last sample of its life was taken, unless that is so long ago
\* that the next one is due in any case.
LastIsKnown ==
    Len(samples) > life =>
        \/ guard.last = samples[Len(samples)].at
        \/ guard.last = NoTime /\ now - samples[Len(samples)].at > 2 * Interval

\* A download that goes on began long enough after the last sample.
HolderIsSpaced ==
    holder.who # Nobody /\ Len(samples) > life =>
        holder.at - samples[Len(samples)].at >= Spacing

SamplesAreSpaced ==
    \A i \in life + 2 .. Len(samples) : samples[i].at - samples[i - 1].at >= Spacing

GuardInv == GuardIsKnown /\ LastIsKnown /\ HolderIsSpaced /\ SamplesAreSpaced

\* What the configured intervals have in common.
LEMMA SpacingIs ==
    Spacing \in Nat /\ Spacing <= Interval /\ Spacing <= IncidentInterval
<1>1. {IncidentInterval, Interval} \in SUBSET Nat
  BY TransferAssumption
<1> QED
  BY <1>1, MinOf DEF Spacing

\* What depends on the guard and the samples goes on as long as they do.
LEMMA GuardKept ==
    ASSUME TypeOK, GuardInv, UNCHANGED guarded, now' \in Nat, now' >= now,
           holder'.who = Nobody \/ (holder.who # Nobody /\ holder'.at = holder.at)
    PROVE  GuardInv'
<1>1. /\ guard' = guard /\ samples' = samples /\ known' = known /\ life' = life
      /\ overtaken' = overtaken
  BY DEF guarded
<1>2. GuardIsKnown' /\ SamplesAreSpaced'
  BY <1>1 DEF GuardInv, GuardIsKnown, SamplesAreSpaced
<1>3. LastIsKnown'
  <2> SUFFICES ASSUME Len(samples) > life
               PROVE  \/ guard.last = samples[Len(samples)].at
                      \/ guard.last = NoTime /\ now' - samples[Len(samples)].at > 2 * Interval
    BY <1>1 DEF LastIsKnown
  <2>1. samples[Len(samples)].at \in Nat /\ now \in Nat /\ Interval \in Nat
    <3>1. samples \in Seq(Sample) /\ life \in 0 .. Len(samples) /\ now \in Nat
      BY TypeFacts
    <3>2. samples[Len(samples)] \in Sample
      BY <3>1
    <3> QED
      BY <3>1, <3>2, TransferAssumption DEF Sample
  <2> QED
    BY <2>1 DEF GuardInv, LastIsKnown
<1>4. HolderIsSpaced'
  BY <1>1 DEF GuardInv, HolderIsSpaced
<1> QED
  BY <1>2, <1>3, <1>4 DEF GuardInv

\* At first there are no samples.
LEMMA GuardInit == Init => GuardInv
<1> SUFFICES ASSUME Init PROVE GuardInv
  OBVIOUS
<1>1. samples = << >> /\ Len(samples) = 0 /\ life = 0 /\ known = 0 + 1 /\ guard = NoGuard
  <2>1. samples = << >> /\ life = 0 /\ known = 1 /\ guard = NoGuard
    BY DEF Init
  <2>2. 0 + 1 = 1
    OBVIOUS
  <2> QED
    BY <2>1, <2>2
<1>2. Tells(NoGuard, samples, 0 + 1, 0)
  BY NoGuardTells
<1>3. GuardIsKnown
  BY <1>1, <1>2 DEF GuardIsKnown
<1>4. ~(Len(samples) > life) /\ life + 2 .. Len(samples) = {}
  BY <1>1
<1> QED
  BY <1>3, <1>4 DEF GuardInv, LastIsKnown, HolderIsSpaced, SamplesAreSpaced

\* A restored guard is what the samples say, unless the list was overtaken.
LEMMA GuardRestored ==
    ASSUME TypeOK, GuardInv, NEW list \in Worker, list.upTo <= Len(samples), list.at <= now,
           RestoreGuard(list), samples' = samples, now' = now, holder' = holder
    PROVE  GuardInv'
<1>0. PICK n \in Nat : n = Len(samples) /\ \A i \in 1 .. n : samples[i] \in Sample
  <2>1. samples \in Seq(Sample)
    BY TypeFacts
  <2> QED
    BY <2>1
<1>1. /\ list.at \in Nat /\ list.upTo \in Nat /\ samples \in Seq(Sample)
      /\ life \in 0 .. n /\ now \in Nat /\ Interval \in Nat
  BY <1>0, TypeFacts, TransferAssumption DEF Worker
<1>2. /\ holder'.who = Nobody
      /\ overtaken' = (list.upTo < n)
      /\ life' = IF overtaken' THEN n ELSE life
      /\ guard' = Restored(SubSeq(samples, 1, list.upTo), list.at)
      /\ known' = FirstFresh(SubSeq(samples, 1, list.upTo), list.at)
  BY <1>0 DEF RestoreGuard
<1>3. HolderIsSpaced'
  BY <1>2 DEF HolderIsSpaced
<1>4. CASE list.upTo < n
  <2>1. overtaken' = TRUE /\ life' = n
    BY <1>2, <1>4
  <2>2. ~(n > n) /\ n + 2 .. n = {}
    OBVIOUS
  <2>3. LastIsKnown' /\ SamplesAreSpaced'
    BY <1>0, <2>1, <2>2 DEF LastIsKnown, SamplesAreSpaced
  <2> QED
    BY <1>3, <2>1, <2>3 DEF GuardInv, GuardIsKnown
<1>5. CASE ~(list.upTo < n)
  <2>1. list.upTo = n /\ life' = life
    <3>1. list.upTo <= n
      BY <1>0
    <3>2. list.upTo = n
      BY <1>1, <1>5, <3>1
    <3> QED
      BY <1>2, <1>5, <3>2
  <2>2. PICK s \in Seq(Sample) :
            s = SubSeq(samples, 1, n) /\ Len(s) = n /\ \A i \in 1 .. n : s[i] = samples[i]
    <3>1. /\ SubSeq(samples, 1, n) \in Seq(Sample)
          /\ Len(SubSeq(samples, 1, n)) = IF 1 <= n THEN n - 1 + 1 ELSE 0
          /\ \A i \in 1 .. n - 1 + 1 : SubSeq(samples, 1, n)[i] = samples[1 + i - 1]
      BY <1>0, SubSeqProperties
    <3>2. Len(SubSeq(samples, 1, n)) = n /\ n - 1 + 1 = n /\ \A i \in 1 .. n : 1 + i - 1 = i
      BY <3>1
    <3>3. \A i \in 1 .. n : SubSeq(samples, 1, n)[i] = samples[i]
      BY <3>1, <3>2
    <3> QED
      BY <3>1, <3>2, <3>3
  <2>3. guard' = Restored(s, list.at) /\ known' = FirstFresh(s, list.at)
    BY <1>2, <2>1, <2>2
  <2>4. /\ known' \in 1 .. n + 1
        /\ \A i \in 1 .. n : i < known' => list.at - s[i].at > 2 * Interval
    BY <1>1, <2>2, <2>3, FirstFreshIsFirst
  <2>5. guard' \in Guard /\ Tells(guard', s, known', n)
    BY <1>1, <2>2, <2>3, RestoredTells
  <2>6. Tells(guard', samples, known', n)
    BY <1>0, <2>2, <2>4, <2>5, TellsOfFirst
  <2>7. LastIsKnown'
    <3> SUFFICES ASSUME n > life
                 PROVE  \/ guard'.last = samples[n].at
                        \/ guard'.last = NoTime /\ now - samples[n].at > 2 * Interval
      BY <1>0, <2>1 DEF LastIsKnown
    <3>1. guard'.last = IF known' <= n THEN samples[n].at ELSE NoTime
      BY <2>6 DEF Tells
    <3>2. CASE ~(known' <= n)
      <4>1. n \in 1 .. n /\ n < known'
        BY <1>1, <2>4, <3>2
      <4>2. list.at - samples[n].at > 2 * Interval
        BY <2>2, <2>4, <4>1
      <4>3. samples[n].at \in Nat
        BY <1>0, <4>1 DEF Sample
      <4>4. now - samples[n].at > 2 * Interval
        BY <1>1, <4>2, <4>3
      <4> QED
        BY <3>1, <3>2, <4>4
    <3> QED
      BY <3>1, <3>2
  <2>8. SamplesAreSpaced' /\ GuardIsKnown'
    BY <1>0, <2>1, <2>6 DEF SamplesAreSpaced, GuardIsKnown, GuardInv
  <2> QED
    BY <1>3, <2>7, <2>8 DEF GuardInv
<1> QED
  BY <1>4, <1>5

\* A download that begins is due.
LEMMA SampleStarts ==
    ASSUME TypeOK, GuardInv, NEW who \in Monitors \cup {Observer}, StartSample(who)
    PROVE  GuardInv'
<1>1. /\ guard' = guard /\ samples' = samples /\ known' = known /\ life' = life
      /\ overtaken' = overtaken /\ now' = now
      /\ Due(guard, MinimumInterval(who), now) /\ holder' = [who |-> who, at |-> now]
  BY DEF StartSample, guarded, clock
<1>2. GuardIsKnown' /\ SamplesAreSpaced' /\ LastIsKnown'
  BY <1>1 DEF GuardInv, GuardIsKnown, SamplesAreSpaced, LastIsKnown
<1>3. HolderIsSpaced'
  <2> SUFFICES ASSUME Len(samples) > life
               PROVE  now - samples[Len(samples)].at >= Spacing
    BY <1>1 DEF HolderIsSpaced
  <2>1. samples \in Seq(Sample) /\ life \in 0 .. Len(samples) /\ now \in Nat
    BY TypeFacts
  <2>2. PICK last \in Nat : last = samples[Len(samples)].at
    <3>1. samples[Len(samples)] \in Sample
      BY <2>1
    <3> QED
      BY <3>1 DEF Sample
  <2>3. Interval \in Nat /\ IncidentInterval \in Nat
    BY TransferAssumption
  <2>4. CASE guard.last = last
    <3>1. now - last >= MinimumInterval(who)
      BY <1>1, <2>4 DEF Due, NoTime
    <3>2. MinimumInterval(who) \in {Interval, IncidentInterval}
      BY DEF MinimumInterval
    <3> QED
      BY <2>1, <2>2, <2>3, <3>1, <3>2, SpacingIs
  <2>5. CASE now - last > 2 * Interval
    BY <2>1, <2>2, <2>3, <2>5, SpacingIs
  <2> QED
    BY <2>2, <2>4, <2>5 DEF GuardInv, LastIsKnown
<1> QED
  BY <1>2, <1>3 DEF GuardInv

\* A sample that is saved moves the guard.
LEMMA SampleFinishes ==
    ASSUME TypeOK, GuardInv, NEW who \in Monitors \cup {Observer}, NEW kind \in SampleKind,
           FinishSample(who, kind)
    PROVE  GuardInv'
<1>1. PICK n \in Nat : n = Len(samples) /\ \A i \in 1 .. n : samples[i] \in Sample
  <2>1. samples \in Seq(Sample)
    BY TypeFacts
  <2> QED
    BY <2>1
<1>2. /\ samples \in Seq(Sample) /\ life \in 0 .. n /\ known \in 1 .. n + 1 /\ guard \in Guard
      /\ holder.at \in Nat
  BY <1>1, TypeFacts
<1>3. PICK sample \in Sample : sample = [kind |-> kind, at |-> holder.at]
  BY <1>2 DEF Sample
<1>4. /\ samples' = Append(samples, sample) /\ guard' = AfterSample(guard, sample)
      /\ holder' = Free /\ known' = known /\ life' = life /\ overtaken' = overtaken
      /\ holder.who = who
  BY <1>3 DEF FinishSample
<1>5. /\ samples' \in Seq(Sample) /\ Len(samples') = n + 1 /\ samples'[n + 1] = sample
      /\ \A i \in 1 .. n : samples'[i] = samples[i]
  BY <1>1, <1>2, <1>4
<1>6. GuardIsKnown'
  <2> SUFFICES ASSUME ~overtaken PROVE Tells(guard', samples', known, n + 1)
    BY <1>4, <1>5 DEF GuardIsKnown
  <2>1. Tells(guard, samples, known, n)
    BY <1>1 DEF GuardInv, GuardIsKnown
  <2>2. Tells(guard, samples', known, n)
    BY <1>2, <1>5, <2>1, TellsOfFirst
  <2>3. n < Len(samples')
    BY <1>5
  <2>4. Tells(AfterSample(guard, samples'[n + 1]), samples', known, n + 1)
    BY <1>2, <1>5, <2>2, <2>3, GuardFollows
  <2> QED
    BY <1>4, <1>5, <2>4
<1>7. LastIsKnown'
  <2>1. guard'.last = sample.at
    BY <1>4 DEF AfterSample, Moved
  <2> QED
    BY <1>5, <2>1 DEF LastIsKnown
<1>8. HolderIsSpaced'
  BY <1>4, FreeType DEF HolderIsSpaced
<1>9. SamplesAreSpaced'
  <2> SUFFICES ASSUME NEW i \in life + 2 .. n + 1
               PROVE  samples'[i].at - samples'[i - 1].at >= Spacing
    BY <1>4, <1>5 DEF SamplesAreSpaced
  <2>1. CASE i = n + 1
    <3>1. n > life /\ i - 1 = n /\ n \in 1 .. n
      BY <1>2, <2>1
    <3>2. holder.who # Nobody
      BY <1>4, ConnectivityAssumption DEF Observer, Nobody
    <3>3. holder.at - samples[n].at >= Spacing
      BY <1>1, <3>1, <3>2 DEF GuardInv, HolderIsSpaced
    <3> QED
      BY <1>3, <1>5, <2>1, <3>1, <3>3
  <2>2. CASE i # n + 1
    <3>1. i \in 1 .. n /\ i - 1 \in 1 .. n /\ i \in life + 2 .. n
      BY <1>2, <2>2
    <3>2. samples[i].at - samples[i - 1].at >= Spacing
      BY <1>1, <3>1 DEF GuardInv, SamplesAreSpaced
    <3> QED
      BY <1>5, <3>1, <3>2
  <2> QED
    BY <2>1, <2>2
<1> QED
  BY <1>6, <1>7, <1>8, <1>9 DEF GuardInv

\* A step keeps the guard and the samples together.
LEMMA GuardNext ==
    ASSUME TypeInv, GuardInv, [Next]_vars
    PROVE  GuardInv'
<1>0. /\ TypeOK /\ ListsAreOld /\ now \in Nat /\ now >= now
      /\ worker \in Worker /\ orphan \in Worker
  <2>1. TypeOK /\ ListsAreOld
    BY DEF TypeInv
  <2>2. now \in Nat /\ worker \in Worker /\ orphan \in Worker
    BY <2>1, TypeFacts
  <2> QED
    BY <2>1, <2>2
<1>1. CASE UNCHANGED guarded /\ now' = now /\ holder' = holder
  BY <1>0, <1>1, GuardKept
<1>2. CASE UNCHANGED vars \/ ListSamples \/ Check \/ SaveCheck \/ FailCheck
  BY <1>1, <1>2 DEF vars, clock, ListSamples, Check, SaveCheck, FailCheck
<1>3. CASE Restore
  BY <1>0, <1>3, GuardRestored DEF Restore, clock, ListsAreOld
<1>4. CASE RestoreOrphan
  BY <1>0, <1>4, GuardRestored DEF RestoreOrphan, clock, ListsAreOld
<1>5. CASE \E m \in Monitors : ProbeFails(m)
  BY <1>1, <1>5 DEF ProbeFails, clock
<1>6. CASE \E m \in Monitors : ReloadMonitor(m)
  <2>1. PICK m \in Monitors : ReloadMonitor(m)
    BY <1>6
  <2>2. holder.who = m => holder.who # Nobody /\ holder'.at = holder.at
    <3>1. m # Nobody
      BY ConnectivityAssumption DEF Nobody
    <3>2. holder \in [who : Monitors \cup {Observer, Nobody, Cancelled}, at : Nat]
      BY <1>0, TypeFacts
    <3> QED
      BY <2>1, <3>1, <3>2 DEF ReloadMonitor
  <2>3. UNCHANGED guarded /\ now' = now /\ (holder.who # m => holder' = holder)
    BY <2>1 DEF ReloadMonitor
  <2>4. CASE holder.who = m
    BY <1>0, <2>2, <2>3, <2>4, GuardKept
  <2> QED
    BY <1>1, <2>3, <2>4
<1>7. ASSUME NEW who \in Monitors \cup {Observer}, Reuse(who) PROVE GuardInv'
  BY <1>1, <1>7 DEF Reuse, clock
<1>8. ASSUME NEW who \in Monitors \cup {Observer}, StartSample(who) PROVE GuardInv'
  BY <1>0, <1>8, SampleStarts
<1>9. ASSUME NEW who \in Monitors \cup {Observer}, NEW kind \in SampleKind, FinishSample(who, kind)
      PROVE  GuardInv'
  BY <1>0, <1>9, SampleFinishes
<1>10. ASSUME NEW who \in Monitors \cup {Observer}, FailSample(who) PROVE GuardInv'
  <2>1. UNCHANGED guarded /\ now' = now /\ holder'.who = Nobody
    BY <1>10, FreeType DEF FailSample, clock
  <2> QED
    BY <1>0, <2>1, GuardKept
<1>11. CASE Release
  <2>1. UNCHANGED guarded /\ now' = now /\ holder'.who = Nobody
    BY <1>11, FreeType DEF Release, clock
  <2> QED
    BY <1>0, <2>1, GuardKept
<1>12. CASE Reload
  <2>1. UNCHANGED guarded /\ now' = now
    BY <1>12 DEF Reload
  <2>2. CASE holder.who = Observer
    <3>1. holder \in [who : Monitors \cup {Observer, Nobody, Cancelled}, at : Nat]
      BY <1>0, TypeFacts
    <3>2. holder.who # Nobody /\ holder'.at = holder.at
      BY <1>12, <2>2, <3>1 DEF Reload, Observer, Nobody
    <3> QED
      BY <1>0, <2>1, <3>2, GuardKept
  <2> QED
    BY <1>1, <1>12, <2>1, <2>2 DEF Reload
<1>13. CASE Crash
  <2>1. PICK n \in Nat : n = Len(samples)
    BY <1>0, TypeFacts
  <2>2. /\ guard' = NoGuard /\ samples' = samples /\ known' = n + 1 /\ life' = n
        /\ holder'.who = Nobody
    BY <1>13, <2>1, FreeType DEF Crash
  <2>3. Tells(NoGuard, samples, n + 1, n)
    BY NoGuardTells
  <2>4. ~(n > n) /\ n + 2 .. n = {}
    OBVIOUS
  <2> QED
    BY <2>1, <2>2, <2>3, <2>4
    DEF GuardInv, GuardIsKnown, LastIsKnown, HolderIsSpaced, SamplesAreSpaced
<1>14. CASE Tick
  <2>1. UNCHANGED guarded /\ now' = now + 1 /\ holder' = holder
    BY <1>14 DEF Tick
  <2>2. now' \in Nat /\ now' >= now
    BY <1>0, <2>1
  <2> QED
    BY <1>0, <2>1, <2>2, GuardKept
<1> QED
  BY <1>2, <1>3, <1>4, <1>5, <1>6, <1>7, <1>8, <1>9, <1>10, <1>11, <1>12, <1>13, <1>14
  DEF Next, Sampling

\* What the invariant says of the guard is what the property says.
LEMMA GuardInvTells ==
    ASSUME TypeOK, GuardInv
    PROVE  GuardTellsSamples
<1>1. PICK n \in Nat : n = Len(samples) /\ known \in 1 .. n + 1
  BY TypeFacts
<1>2. SamplesAreSpaced
  BY DEF GuardInv
<1>3. ASSUME ~overtaken
      PROVE  /\ guard.last = IF known .. n = {} THEN NoTime ELSE Last(samples).at
             /\ SlowRun(guard.streak, n) /\ ~SlowRun(guard.streak + 1, n)
             /\ guard.degraded <=>
                   \E i \in known .. n :
                      SlowRun(Limit, i) /\ \A j \in i .. n : samples[j].kind # "fast"
  <2>1. Tells(guard, samples, known, n)
    BY <1>1, <1>3 DEF GuardInv, GuardIsKnown
  <2>2. known .. n = {} <=> ~(known <= n)
    BY <1>1
  <2>3. \A m, i : SlowRun(m, i) <=> SlowUpTo(samples, known, m, i)
    BY DEF SlowRun, SlowUpTo
  <2> QED
    BY <1>1, <2>1, <2>2, <2>3 DEF Tells, Last
<1> QED
  BY <1>1, <1>2, <1>3 DEF GuardTellsSamples, SamplesAreSpaced, Spacing

\* The transfer guard is exactly what the samples it accounts for say, and no two samples
\* in a life of it are closer than the configuration allows, for every limit and interval,
\* any number of monitors, reloads, crashes, lost samples and restores: only a restore
\* from a list that was overtaken breaks it.
THEOREM GuardCorrect == Spec => []GuardTellsSamples
<1>1. Init => TypeInv /\ GuardInv
  BY InitTypes, GuardInit
<1>2. TypeInv /\ GuardInv /\ [Next]_vars => (TypeInv /\ GuardInv)'
  BY NextTypes, GuardNext
<1>3. TypeInv /\ GuardInv => GuardTellsSamples
  BY GuardInvTells DEF TypeInv
<1> QED
  BY <1>1, <1>2, <1>3, PTL DEF Spec

=============================================================================
