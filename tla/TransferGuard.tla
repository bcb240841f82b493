--------------------------- MODULE TransferGuard ---------------------------
(***************************************************************************)
(* The guard that the transfer samples feed: whether transfers are slow,   *)
(* how many were in a row, and when the last one was taken.                *)
(*                                                                         *)
(* A sample is "slow" when transferSampleIsSlow says so - a slow download, *)
(* or one that failed on the way -, "fast" when it was a good one, and     *)
(* "odd" when the server answered with another status, which says nothing. *)
(***************************************************************************)
EXTENDS Integers, SequencesExt

CONSTANTS
    Limit,              \* transfer_check.consecutive_slow_results
    Interval,           \* transfer_check.interval, in ticks
    IncidentInterval    \* transfer_check.incident_interval, in ticks

ASSUME TransferAssumption ==
    Limit \in Nat \ {0} /\ Interval \in Nat \ {0} /\ IncidentInterval \in Nat \ {0}

-----------------------------------------------------------------------------

SampleKind == {"slow", "fast", "odd"}
Sample == [kind : SampleKind, at : Nat]

NoTime == -1

\* Runner.transferSlowStreak, transferDegraded and transferLastSample.
Guard == [streak : Nat, degraded : BOOLEAN, last : Nat \cup {NoTime}]
NoGuard == [streak |-> 0, degraded |-> FALSE, last |-> NoTime]

\* The guard once the sample has made the streak this long.
Moved(guard, sample, streak) ==
    [streak   |-> streak,
     degraded |-> streak >= Limit \/ (guard.degraded /\ sample.kind # "fast"),
     last     |-> sample.at]

\* A sample continues a streak only when it is at most transferGuardMaxStreakGap
\* after the one before it.
Continues(guard, sample) == guard.last = NoTime \/ sample.at - guard.last <= Interval

\* Faulty variant: any sample that is not slow takes back one that was.
AfterSampleForgiving(guard, sample) ==
    Moved(guard, sample, IF sample.kind = "slow" THEN guard.streak + 1 ELSE guard.streak - 1)

\* One more sample.
AfterSample(guard, sample) ==
    Moved(guard, sample,
          IF sample.kind # "slow" THEN 0
          ELSE IF Continues(guard, sample) THEN guard.streak + 1
          ELSE 1)

\* The place of the first sample that is not older than transferGuardFreshnessWindow.
FirstFresh(samples, at) ==
    Min({i \in DOMAIN samples : at - samples[i].at <= 2 * Interval} \cup {Len(samples) + 1})

\* What that window leaves of the stored samples, which are in the order of their times.
Fresh(samples, at) == SubSeq(samples, FirstFresh(samples, at), Len(samples))

\* Faulty variant: the list is taken as it is returned, newest first.
RestoredNewestFirst(samples, at) == FoldLeft(AfterSample, NoGuard, Reverse(Fresh(samples, at)))

\* restoreTransferGuard: the guard that the listed samples, oldest first, lead to.
Restored(samples, at) == FoldLeft(AfterSample, NoGuard, Fresh(samples, at))

\* Faulty variant: a tick too early.
DueEarly(guard, minimum, at) == guard.last = NoTime \/ at - guard.last + 1 >= minimum

\* A sample is due when the last one is old enough for whoever asks.
Due(guard, minimum, at) == guard.last = NoTime \/ at - guard.last >= minimum

=============================================================================
