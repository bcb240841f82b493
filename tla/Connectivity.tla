--------------------------- MODULE Connectivity ---------------------------
(***************************************************************************)
(* Whether the host itself is connected: the observer's goroutine, the     *)
(* transfer guard that it shares with the monitor workers under            *)
(* transferMu, reloads that replace the goroutine, and restarts.           *)
(*                                                                         *)
(* A store transaction is one step, and so is what is done under           *)
(* transferMu without waiting.  A download holds the lock while other      *)
(* steps go on.  A goroutine that is cancelled can no longer save, but one *)
(* that waits for the lock to restore the guard still does.                *)
(***************************************************************************)
EXTENDS ObserverStates, TransferGuard

CONSTANTS
    Monitors,       \* monitors with failing probes
    Scenarios,      \* what may happen: sets of events, see EventKind
    MaxTime,        \* bound on the clock
    MaxChecks,      \* bound on the saved observer checks
    MaxSamples,     \* bound on connectivity_samples of kind "transfer"
    MaxRestarts     \* bound on reloads and crashes

\* "transfer": the transfer check is enabled.  "outage": checks may miss the
\* quorum.  "reload", "disable": a reload may change the observer's
\* configuration, or disable it.  "crash": the daemon may stop and be started
\* again.  "store_error": any store operation may fail.
EventKind == {"transfer", "outage", "reload", "disable", "crash", "store_error"}

Observer == "observer"
Nobody == "nobody"
Cancelled == "cancelled"

ASSUME ConnectivityAssumption ==
    /\ Monitors \cap {Observer, Nobody, Cancelled} = {}
    /\ Scenarios \subseteq SUBSET EventKind
    /\ {MaxTime, MaxChecks, MaxSamples, MaxRestarts} \subseteq Nat

VARIABLES
    now,            \* the clock
    events,         \* the events of this behaviour, one of Scenarios
    restarts,       \* reloads and crashes so far
    enabled,        \* observer.enabled of the applied configuration
    worker,         \* the observer's goroutine
    orphan,         \* the restore a cancelled goroutine still waits to do
    probing,        \* where each monitor is in probe
    outcome,        \* suppression_reason of each monitor's last failing probe
    holder,         \* the holder of transferMu while it downloads
    guard,          \* Runner.transferSlowStreak, transferDegraded, ...LastSample
    observerState,  \* observer_state
    incidents,      \* the transitions in the incidents of __observer__
    samples,        \* connectivity_samples of kind "transfer", oldest first
    \* History variables:
    checks,         \* the saved checks, TRUE when the quorum was met
    known,          \* the first sample that the guard accounts for
    life,           \* the last sample before the guard was reset
    overtaken       \* the guard was restored from a list older than the samples

clock == <<now, events, restarts>>
store == <<observerState, incidents, checks>>
monitors == <<probing, outcome>>
guarded == <<guard, samples, known, life, overtaken>>
vars == <<clock, enabled, worker, orphan, monitors, holder, store, guarded>>

-----------------------------------------------------------------------------

\* seen and healthy belong to a check, upTo and at to the list of a restore.
Worker ==
    [pc      : {"gone", "starting", "listed", "idle", "checked", "asking", "sampling"},
     seen    : ObserverRow,
     healthy : BOOLEAN,
     upTo    : Nat,
     at      : Nat]

WorkerAt(pc) ==
    [pc |-> pc, seen |-> NoObserver, healthy |-> FALSE, upTo |-> 0, at |-> 0]

NoOrphan == WorkerAt("gone")
Free == [who |-> Nobody, at |-> 0]

TransferEnabled == enabled /\ "transfer" \in events
Failing == "store_error" \in events

TypeOK ==
    /\ now \in 0 .. MaxTime /\ events \in Scenarios /\ restarts \in 0 .. MaxRestarts
    /\ enabled \in BOOLEAN
    /\ worker \in Worker
    /\ orphan \in Worker
    /\ probing \in [Monitors -> {"idle", "asking", "sampling"}]
    /\ outcome \in [Monitors -> {"", "observer_down", "cloudflare_transfer_slow"}]
    /\ holder \in [who : Monitors \cup {Observer, Nobody, Cancelled}, at : Nat]
    /\ guard \in Guard
    /\ observerState \in ObserverRow
    /\ incidents \in Seq({"UP", "DOWN"})
    /\ samples \in Seq(Sample)
    /\ checks \in Seq(BOOLEAN)
    /\ known \in 1 .. Len(samples) + 1
    /\ life \in 0 .. Len(samples)
    /\ overtaken \in BOOLEAN

Init ==
    /\ now = 0 /\ events \in Scenarios /\ restarts = 0
    /\ enabled = TRUE
    /\ worker = WorkerAt("starting")
    /\ orphan = NoOrphan
    /\ probing = [m \in Monitors |-> "idle"]
    /\ outcome = [m \in Monitors |-> ""]
    /\ holder = Free
    /\ guard = NoGuard
    /\ observerState = NoObserver
    /\ incidents = <<>>
    /\ samples = <<>>
    /\ checks = <<>>
    /\ known = 1 /\ life = 0 /\ overtaken = FALSE

-----------------------------------------------------------------------------
(* restoreTransferGuard *)

\* The stored samples are listed before transferMu is taken.
ListSamples ==
    /\ worker.pc = "starting"
    /\ \/ /\ TransferEnabled
          /\ worker' = [WorkerAt("listed") EXCEPT !.upTo = Len(samples), !.at = now]
       \/ /\ ~TransferEnabled \/ Failing
          /\ worker' = WorkerAt("idle")
    /\ UNCHANGED <<clock, enabled, orphan, monitors, holder, store, guarded>>

\* The guard is replaced by what the list leads to.
RestoreGuard(list) ==
    LET listed == SubSeq(samples, 1, list.upTo)
    IN  /\ holder.who = Nobody
        /\ guard' = Restored(listed, list.at)
        /\ known' = FirstFresh(listed, list.at)
        /\ overtaken' = (list.upTo < Len(samples))
        /\ life' = IF overtaken' THEN Len(samples) ELSE life

Restore ==
    /\ worker.pc = "listed"
    /\ RestoreGuard(worker)
    /\ worker' = WorkerAt("idle")
    /\ UNCHANGED <<clock, enabled, orphan, monitors, holder, store, samples>>

\* The goroutine was cancelled after it had listed the samples.
RestoreOrphan ==
    /\ orphan.pc = "listed"
    /\ RestoreGuard(orphan)
    /\ orphan' = NoOrphan
    /\ UNCHANGED <<clock, enabled, worker, monitors, holder, store, samples>>

-----------------------------------------------------------------------------
(* probeObserver *)

\* The row is read and the sentinels are asked.
Check ==
    /\ worker.pc = "idle"
    /\ Len(checks) < MaxChecks
    /\ \E healthy \in IF "outage" \in events THEN BOOLEAN ELSE {TRUE} :
          worker' = [WorkerAt("checked") EXCEPT !.seen = observerState, !.healthy = healthy]
    /\ UNCHANGED <<clock, enabled, orphan, monitors, holder, store, guarded>>

\* The new row and the incident are saved in one transaction, before the
\* scheduled sample.  Telling the incident afterwards changes nothing here.
SaveCheck ==
    /\ worker.pc = "checked"
    /\ LET next == Evaluate(worker.seen, worker.healthy)
       IN  /\ observerState' = next
           /\ incidents' = incidents \o Incident(worker.seen, next)
    /\ checks' = Append(checks, worker.healthy)
    /\ worker' = WorkerAt(IF TransferEnabled THEN "asking" ELSE "idle")
    /\ UNCHANGED <<clock, enabled, orphan, monitors, holder, guarded>>

\* Without the row there is no sample either.
FailCheck ==
    /\ Failing
    /\ worker.pc = "checked"
    /\ worker' = WorkerAt("idle")
    /\ UNCHANGED <<clock, enabled, orphan, monitors, holder, store, guarded>>

-----------------------------------------------------------------------------
(* The part of probe that decides whether a failure is suppressed *)

\* Only these failures reach the guard: the observer is up, its last check met
\* the quorum, and the failure is a timeout or a slow response.
AsksGuard ==
    /\ observerState.known /\ observerState.status = "UP" /\ ~observerState.failed
    /\ TransferEnabled

ProbeFails(m) ==
    /\ probing[m] = "idle"
    /\ \/ /\ observerState.known /\ observerState.status = "DOWN"
          /\ outcome' = [outcome EXCEPT ![m] = "observer_down"]
          /\ probing' = probing
       \/ /\ AsksGuard
          /\ probing' = [probing EXCEPT ![m] = "asking"]
          /\ outcome' = outcome
       \/ /\ observerState.status = "UP"
          /\ outcome' = [outcome EXCEPT ![m] = ""]
          /\ probing' = probing
    /\ UNCHANGED <<clock, enabled, worker, orphan, holder, store, guarded>>

-----------------------------------------------------------------------------
(* sampleTransfer *)

Asking(who) == IF who = Observer THEN worker.pc = "asking" ELSE probing[who] = "asking"

MinimumInterval(who) == IF who = Observer THEN Interval ELSE IncidentInterval

\* Whoever asked goes on: the observer is done, a probe is saved as suppressed
\* when the guard is degraded and is evaluated otherwise.
Answer(who, degraded) ==
    IF who = Observer
    THEN worker' = WorkerAt("idle") /\ UNCHANGED monitors
    ELSE /\ probing' = [probing EXCEPT ![who] = "idle"]
         /\ outcome' = [outcome EXCEPT ![who] =
                           IF degraded THEN "cloudflare_transfer_slow" ELSE ""]
         /\ worker' = worker

\* The last sample is recent enough.
Reuse(who) ==
    /\ Asking(who) /\ holder.who = Nobody
    /\ ~Due(guard, MinimumInterval(who), now)
    /\ Answer(who, guard.degraded)
    /\ UNCHANGED <<clock, enabled, orphan, holder, store, guarded>>

\* The download begins, and the lock is kept.
StartSample(who) ==
    /\ Asking(who) /\ holder.who = Nobody
    /\ Due(guard, MinimumInterval(who), now)
    /\ Len(samples) < MaxSamples
    /\ holder' = [who |-> who, at |-> now]
    /\ IF who = Observer
       THEN worker' = WorkerAt("sampling") /\ UNCHANGED monitors
       ELSE /\ probing' = [probing EXCEPT ![who] = "sampling"]
            /\ UNCHANGED <<worker, outcome>>
    /\ UNCHANGED <<clock, enabled, orphan, store, guarded>>

\* The sample is saved, carries the time of its start, and moves the guard.
FinishSample(who, kind) ==
    /\ holder.who = who
    /\ LET sample == [kind |-> kind, at |-> holder.at]
       IN  /\ samples' = Append(samples, sample)
           /\ guard' = AfterSample(guard, sample)
    /\ Answer(who, guard'.degraded)
    /\ holder' = Free
    /\ UNCHANGED <<clock, enabled, orphan, store, known, life, overtaken>>

\* A sample that cannot be saved is forgotten.
FailSample(who) ==
    /\ Failing
    /\ holder.who = who
    /\ Answer(who, guard.degraded)
    /\ holder' = Free
    /\ UNCHANGED <<clock, enabled, orphan, store, guarded>>

\* A cancelled download returns and lets go of the lock.
Release ==
    /\ holder.who = Cancelled
    /\ holder' = Free
    /\ UNCHANGED <<clock, enabled, worker, orphan, monitors, store, guarded>>

Sampling ==
    \E who \in Monitors \cup {Observer} :
        \/ Reuse(who)
        \/ StartSample(who)
        \/ \E kind \in SampleKind : FinishSample(who, kind)
        \/ FailSample(who)

-----------------------------------------------------------------------------
(* Reloads, restarts, time *)

\* applyConfig with another observer configuration: the goroutine is cancelled
\* and, unless the observer is disabled, another one started.  observer_state
\* and the guard stay as they are.
Reload ==
    /\ events \cap {"reload", "disable"} # {}
    /\ restarts < MaxRestarts
    /\ worker.pc = "listed" => orphan = NoOrphan
    /\ enabled' \in BOOLEAN
    /\ enabled' \/ "disable" \in events
    /\ worker' = WorkerAt(IF enabled' THEN "starting" ELSE "gone")
    /\ orphan' = IF worker.pc = "listed" THEN worker ELSE orphan
    /\ holder' = IF holder.who = Observer THEN [holder EXCEPT !.who = Cancelled] ELSE holder
    /\ restarts' = restarts + 1
    /\ UNCHANGED <<now, events, monitors, store, guarded>>

\* applyConfig with another configuration of a monitor cancels its probe.
ReloadMonitor(m) ==
    /\ "reload" \in events
    /\ restarts < MaxRestarts
    /\ probing[m] # "idle"
    /\ probing' = [probing EXCEPT ![m] = "idle"]
    /\ holder' = IF holder.who = m THEN [holder EXCEPT !.who = Cancelled] ELSE holder
    /\ restarts' = restarts + 1
    /\ UNCHANGED <<now, events, enabled, worker, orphan, outcome, store, guarded>>

\* The process stops and is started again: the guard is empty, and monitors
\* probe before it is restored.
Crash ==
    /\ "crash" \in events
    /\ restarts < MaxRestarts
    /\ restarts' = restarts + 1
    /\ worker' = WorkerAt(IF enabled THEN "starting" ELSE "gone")
    /\ orphan' = NoOrphan
    /\ probing' = [m \in Monitors |-> "idle"]
    /\ holder' = Free
    /\ guard' = NoGuard
    /\ known' = Len(samples) + 1 /\ life' = Len(samples) /\ overtaken' = FALSE
    /\ UNCHANGED <<now, events, enabled, outcome, store, samples>>

Tick ==
    /\ now < MaxTime
    /\ now' = now + 1
    /\ UNCHANGED <<events, restarts, enabled, worker, orphan, monitors, holder, store, guarded>>

Next ==
    \/ ListSamples \/ Restore \/ RestoreOrphan
    \/ Check \/ SaveCheck \/ FailCheck
    \/ \E m \in Monitors : ProbeFails(m) \/ ReloadMonitor(m)
    \/ Sampling \/ Release
    \/ Reload \/ Crash \/ Tick

Spec == Init /\ [][Next]_vars

-----------------------------------------------------------------------------
(* Properties *)

\* The FailureThreshold checks up to i missed the quorum.
BadRun(i) == i >= FailureThreshold /\ \A j \in i - FailureThreshold + 1 .. i : ~checks[j]

\* The RecoveryThreshold checks up to i met it, all of them after k.
GoodRun(k, i) ==
    i - RecoveryThreshold >= k /\ \A j \in i - RecoveryThreshold + 1 .. i : checks[j]

\* The stored status is what the saved checks say, through reloads, restarts and
\* checks that were lost: DOWN from a full run of bad checks on until a full run
\* of good ones after it.
StatusTellsChecks ==
    observerState.status = "DOWN" <=>
        \E k \in 1 .. Len(checks) :
            BadRun(k) /\ \A i \in k .. Len(checks) : ~GoodRun(k, i)

\* The incidents of the observer alternate, beginning with DOWN, and the last one
\* is the stored status: reports pair them to subtract the time the observer was
\* down, and nobody is told of the same transition twice.
IncidentsTellStatus ==
    /\ \A i \in DOMAIN incidents :
          IF i = 1 THEN incidents[i] = "DOWN" ELSE incidents[i] # incidents[i - 1]
    /\ observerState.status = IF incidents = <<>> THEN "UP" ELSE Last(incidents)

\* The n samples up to i were slow, and none was late.
SlowRun(n, i) ==
    /\ \A j \in i - n + 1 .. i : j >= known /\ samples[j].kind = "slow"
    /\ \A j \in i - n + 2 .. i : samples[j].at - samples[j - 1].at <= Interval

\* The guard is exactly what the samples it accounts for say, whoever took them
\* and however often it was restored: degraded from a full run of slow ones until
\* a fast one.  Only a restore from a list that was overtaken breaks this.  And
\* the monitors and the observer together do not sample more often than the
\* configuration says, within one life of the guard.
GuardTellsSamples ==
    LET accounted == known .. Len(samples)
    IN  /\ overtaken \/
            /\ guard.last = IF accounted = {} THEN NoTime ELSE Last(samples).at
            /\ SlowRun(guard.streak, Len(samples)) /\ ~SlowRun(guard.streak + 1, Len(samples))
            /\ guard.degraded <=>
                  \E i \in accounted :
                      SlowRun(Limit, i) /\ \A j \in i .. Len(samples) : samples[j].kind # "fast"
        /\ \A i \in life + 2 .. Len(samples) :
              samples[i].at - samples[i - 1].at >= Min({IncidentInterval, Interval})

\* What README.md promises: a failing probe is suppressed because the observer
\* found the host offline.  An observer that does not run has found nothing.
SuppressedOnlyWhileWatched ==
    [][\A m \in Monitors :
          outcome'[m] = "observer_down" /\ outcome[m] # "observer_down" => enabled]_vars

=============================================================================
