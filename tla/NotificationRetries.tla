------------------------ MODULE NotificationRetries ------------------------
(***************************************************************************)
(* The attempts to tell an incident: the first one of a monitor's incident *)
(* by the dispatcher, that of an observer's incident by the observer's     *)
(* goroutine, and the repeated ones by the main goroutine, while stores    *)
(* fail, reloads change providers and policy, and the daemon restarts.     *)
(*                                                                         *)
(* A store transaction is one step, and so is a call of the providers.     *)
(* Times are kept as the ticks that are left until the next retry.         *)
(***************************************************************************)
EXTENDS Integers, Sequences

CONSTANTS
    MonitorIncidents,   \* IDs of incidents of monitors
    ObserverIncidents,  \* IDs of incidents of __observer__
    Providers,          \* names of alert providers
    Configurations,     \* what a reload may apply: [providers, max, backoff]
    Events,             \* what may happen, see EventKind
    MaxFaults           \* bound on reloads, crashes and store errors

EventKind == {"reload", "crash", "store_error"}

Incidents == MonitorIncidents \cup ObserverIncidents
Pairs == Incidents \X Providers

ASSUME NotificationAssumption ==
    /\ MonitorIncidents \cap ObserverIncidents = {}
    /\ \A c \in Configurations :
          /\ c.providers \subseteq Providers
          /\ c.max \in Nat \ {0}
          /\ c.backoff \in Seq(Nat)
    /\ Events \subseteq EventKind
    /\ MaxFaults \in Nat

VARIABLES
    config,         \* Runner.cfg.Alerts and Runner.emailer
    stage,          \* how far the first attempt of each incident has come
    using,          \* the providers it was begun with
    cancelled,      \* the incidents whose goroutine a reload has cancelled
    memory,         \* the rows of first attempts that are not stored yet
    notifications,  \* the rows of alert_notifications of each incident and
                    \* provider, in order of their IDs
    retries,        \* what retryAlertNotifications has still to repeat
    retrying,       \* the repetition that is not stored yet, if any
    faults,         \* reloads, crashes and store errors so far
    \* History variables:
    attempts,       \* attempts to tell an incident by a provider
    lost            \* those of them that left no row

firsts == <<stage, using, cancelled, memory>>
loop == <<retries, retrying>>
tried == <<attempts, lost>>
vars == <<config, firsts, notifications, loop, faults, tried>>

-----------------------------------------------------------------------------
(* alert_notifications *)

NoWait == -1
Row == [number : Nat, success : BOOLEAN, exhausted : BOOLEAN, wait : {NoWait} \cup Nat]

\* The delay after attempt n; the last one serves all later attempts.
RetryBackoff(policy, n) ==
    IF policy.backoff = <<>> THEN 0
    ELSE policy.backoff[IF n < Len(policy.backoff) THEN n ELSE Len(policy.backoff)]

\* Faulty variant: attempts are not counted against max_attempts.
AlertNotificationUnlimited(policy, n, ok) ==
    [number |-> n, success |-> ok, exhausted |-> FALSE,
     wait |-> IF ok THEN NoWait ELSE RetryBackoff(policy, n)]

AlertNotification(policy, n, ok) ==
    [number |-> n, success |-> ok,
     exhausted |-> ~ok /\ n >= policy.max,
     wait |-> IF ok \/ n >= policy.max THEN NoWait ELSE RetryBackoff(policy, n)]

\* Faulty variant: it waits for nothing, but is not given up.
NotConfiguredNow(row) == [row EXCEPT !.wait = NoWait]

\* A repetition by a provider that is not configured any more.
NotConfigured(row) == [row EXCEPT !.exhausted = TRUE, !.wait = NoWait]

\* Faulty variant: any row that failed and whose time has come, also if a newer one exists.
DueDespiteNewer(rows, k) == ~rows[k].success /\ ~rows[k].exhausted /\ rows[k].wait = 0

\* Row k of a pair is to be repeated: it failed, its time has come, none is newer.
Due(rows, k) ==
    /\ ~rows[k].success /\ ~rows[k].exhausted
    /\ rows[k].wait = 0
    /\ k = Len(rows)

ListDueAlertNotificationRetries ==
    UNION {{[pair |-> d, number |-> notifications[d][k].number] :
               k \in {l \in DOMAIN notifications[d] : Due(notifications[d], l)}} : d \in Pairs}

\* Faulty variant: failures that a newer row has made good are shown, too.
AnyFailure(rows, k) == ~rows[k].success

\* Row k is a failure that the status page shows.
Actionable(rows, k) == ~rows[k].success /\ k = Len(rows)

ListActionableAlertDeliveryFailures ==
    {d \in Pairs : \E k \in DOMAIN notifications[d] : Actionable(notifications[d], k)}

-----------------------------------------------------------------------------

Idle == <<>>    \* retrying, between two repetitions

TypeOK ==
    /\ config \in Configurations
    /\ stage \in [Incidents -> {"new", "claimed", "sent", "unrecorded", "recorded", "lost"}]
    /\ using \in [Incidents -> SUBSET Providers]
    /\ cancelled \subseteq Incidents
    /\ \A i \in Incidents :
          memory[i] \in IF stage[i] \in {"sent", "unrecorded"} THEN [using[i] -> Row] ELSE {<<>>}
    /\ notifications \in [Pairs -> Seq(Row)]
    /\ \A x \in retries : x.pair \in Pairs /\ x.number \in Nat
    /\ retrying = Idle \/ (retrying.pair \in Pairs /\ retrying.row \in Row)
    /\ faults \in 0 .. MaxFaults
    /\ attempts \in [Pairs -> Nat] /\ lost \in [Pairs -> Nat]

Init ==
    /\ config \in Configurations
    /\ stage = [i \in Incidents |-> "new"]
    /\ using = [i \in Incidents |-> {}]
    /\ cancelled = {}
    /\ memory = [i \in Incidents |-> <<>>]
    /\ notifications = [d \in Pairs |-> <<>>]
    /\ retries = {} /\ retrying = Idle
    /\ faults = 0
    /\ attempts = [d \in Pairs |-> 0] /\ lost = [d \in Pairs |-> 0]

Fault(kind) == kind \in Events /\ faults < MaxFaults /\ faults' = faults + 1

\* One more for each provider with which incident i was begun.
Count(f, i) == [d \in Pairs |-> IF d[1] = i /\ d[2] \in using[i] THEN f[d] + 1 ELSE f[d]]

\* Faulty variant: a delivery that was recorded late stays in memory.
ForgottenNever(i) == memory' = memory

Forgotten(i) == memory' = [memory EXCEPT ![i] = <<>>]

-----------------------------------------------------------------------------
(* First attempts *)

\* The incidents that share a goroutine with i: the dispatcher holds
\* alertDispatchMu, and the observer probes again only when it has told.
Beside(i) == IF i \in MonitorIncidents THEN MonitorIncidents ELSE ObserverIncidents \ cancelled

\* The dispatcher claims the alert, or the observer saves the incident; then the
\* senders are taken from the runner.
Begin(i) ==
    /\ stage[i] = "new"
    /\ \A j \in Beside(i) : stage[j] \notin {"claimed", "sent"}
    /\ stage' = [stage EXCEPT ![i] = "claimed"]
    /\ using' = [using EXCEPT ![i] = config.providers]
    /\ UNCHANGED <<config, cancelled, memory, notifications, loop, faults, tried>>

\* All of its providers are called; the policy is taken after that.
Send(i) ==
    /\ stage[i] = "claimed"
    /\ \E ok \in [using[i] -> BOOLEAN] :
          memory' = [memory EXCEPT ![i] = [p \in using[i] |-> AlertNotification(config, 1, ok[p])]]
    /\ stage' = [stage EXCEPT ![i] = "sent"]
    /\ attempts' = Count(attempts, i)
    /\ UNCHANGED <<config, using, cancelled, notifications, loop, faults, lost>>

Store(i) ==
    /\ notifications' = [d \in Pairs |->
          IF d[1] = i /\ d[2] \in using[i] THEN Append(notifications[d], memory[i][d[2]])
                                           ELSE notifications[d]]
    /\ stage' = [stage EXCEPT ![i] = "recorded"]
    /\ Forgotten(i)
    /\ UNCHANGED <<config, using, cancelled, loop, faults, tried>>

Record(i) == stage[i] = "sent" /\ i \notin cancelled /\ Store(i)

\* The dispatcher keeps what it could not store, the observer does not.
RecordFails(i) ==
    /\ stage[i] = "sent"
    /\ \/ i \in cancelled /\ UNCHANGED faults
       \/ i \notin cancelled /\ Fault("store_error")
    /\ \/ /\ i \in MonitorIncidents
          /\ stage' = [stage EXCEPT ![i] = "unrecorded"]
          /\ UNCHANGED <<memory, lost>>
       \/ /\ i \in ObserverIncidents
          /\ stage' = [stage EXCEPT ![i] = "lost"]
          /\ Forgotten(i)
          /\ lost' = Count(lost, i)
    /\ UNCHANGED <<config, using, cancelled, notifications, loop, attempts>>

\* Faulty variant: a delivery that was recorded late is recorded again.
RewriteKeeping(i) ==
    /\ stage[i] = "unrecorded"
    /\ \A j \in MonitorIncidents : stage[j] \notin {"claimed", "sent"}
    /\ notifications' = [d \in Pairs |->
          IF d[1] = i /\ d[2] \in using[i] THEN Append(notifications[d], memory[i][d[2]])
                                           ELSE notifications[d]]
    /\ UNCHANGED <<config, firsts, loop, faults, tried>>

\* A later dispatch stores it.
Rewrite(i) ==
    /\ stage[i] = "unrecorded"
    /\ \A j \in MonitorIncidents : stage[j] \notin {"claimed", "sent"}
    /\ Store(i)

-----------------------------------------------------------------------------
(* retryAlertNotifications *)

ListRetries ==
    /\ retries = {} /\ retrying = Idle
    /\ retries' = ListDueAlertNotificationRetries
    /\ retries' # {}
    /\ UNCHANGED <<config, firsts, notifications, retrying, faults, tried>>

\* The provider is called; one that is not configured any more fails, for good.
Retry(x) ==
    LET Repeated(ok) == AlertNotification(config, x.number + 1, ok)
        configured == x.pair[2] \in config.providers
    IN  /\ retrying = Idle
        /\ retries' = retries \ {x}
        /\ \/ /\ configured
              /\ \E ok \in BOOLEAN : retrying' = [pair |-> x.pair, row |-> Repeated(ok)]
           \/ /\ ~configured
              /\ retrying' = [pair |-> x.pair, row |-> NotConfigured(Repeated(FALSE))]
        /\ attempts' = [attempts EXCEPT ![x.pair] = @ + 1]
        /\ UNCHANGED <<config, firsts, notifications, faults, lost>>

SaveRetry ==
    /\ retrying # Idle
    /\ notifications' = [notifications EXCEPT ![retrying.pair] = Append(@, retrying.row)]
    /\ retrying' = Idle
    /\ UNCHANGED <<config, firsts, retries, faults, tried>>

\* What a repetition that is not stored adds to the lost attempts.
LostRetry(f) == IF retrying = Idle THEN f ELSE [f EXCEPT ![retrying.pair] = @ + 1]

SaveRetryFails ==
    /\ retrying # Idle
    /\ Fault("store_error")
    /\ retrying' = Idle
    /\ lost' = LostRetry(lost)
    /\ UNCHANGED <<config, firsts, notifications, retries, attempts>>

-----------------------------------------------------------------------------

\* The main goroutine applies another configuration, which may cancel workers
\* and the observer while they tell an incident.
Reload ==
    /\ retries = {} /\ retrying = Idle
    /\ Fault("reload")
    /\ config' \in Configurations
    /\ \E c \in SUBSET {i \in Incidents : stage[i] \in {"claimed", "sent"}} :
          cancelled' = cancelled \cup c
    /\ UNCHANGED <<stage, using, memory, notifications, loop, tried>>

\* The daemon ends and is started again: what it had in memory is gone.
Crash ==
    LET gone == {i \in Incidents : stage[i] \in {"claimed", "sent", "unrecorded"}}
        unstored == {i \in gone : stage[i] # "claimed"}
    IN  /\ Fault("crash")
        /\ stage' = [i \in Incidents |-> IF i \in gone THEN "lost" ELSE stage[i]]
        /\ memory' = [i \in Incidents |-> <<>>]
        /\ cancelled' = {}
        /\ lost' = LostRetry([d \in Pairs |->
              IF d[1] \in unstored /\ d[2] \in using[d[1]] THEN lost[d] + 1 ELSE lost[d]])
        /\ retries' = {} /\ retrying' = Idle
        /\ UNCHANGED <<config, using, notifications, attempts>>

Earlier(row) == [row EXCEPT !.wait = IF row.wait > 0 THEN row.wait - 1 ELSE row.wait]

Waiting ==
    \/ \E d \in Pairs : \E k \in DOMAIN notifications[d] : notifications[d][k].wait > 0
    \/ \E i \in Incidents : \E p \in DOMAIN memory[i] : memory[i][p].wait > 0
    \/ retrying # Idle /\ retrying.row.wait > 0

Tick ==
    /\ Waiting
    /\ notifications' = [d \in Pairs |->
          [k \in DOMAIN notifications[d] |-> Earlier(notifications[d][k])]]
    /\ memory' = [i \in Incidents |-> [p \in DOMAIN memory[i] |-> Earlier(memory[i][p])]]
    /\ retrying' = IF retrying = Idle THEN Idle ELSE [retrying EXCEPT !.row = Earlier(@)]
    /\ UNCHANGED <<config, stage, using, cancelled, retries, faults, tried>>

\* A provider answers or times out, a store operation returns.
Telling == \E i \in Incidents : Send(i) \/ Record(i) \/ RecordFails(i) \/ Rewrite(i)
Retrying == ListRetries \/ (\E x \in retries : Retry(x)) \/ SaveRetry

Next ==
    \/ \E i \in Incidents : Begin(i)
    \/ Telling
    \/ Retrying \/ SaveRetryFails
    \/ Reload \/ Crash \/ Tick

Spec == Init /\ [][Next]_vars

\* The main goroutine's ticker goes on, time passes, and nothing fails for ever.
FairSpec == Spec /\ WF_vars(Retrying) /\ WF_vars(Tick)

-----------------------------------------------------------------------------
(* Properties *)

InMemory(d) ==
    (IF stage[d[1]] \in {"sent", "unrecorded"} /\ d[2] \in using[d[1]] THEN 1 ELSE 0)
    + (IF retrying # Idle /\ retrying.pair = d THEN 1 ELSE 0)

\* Each attempt has exactly one row, but for the one that is about to be stored and
\* those that a fault has lost: no row is written twice, through late records,
\* reloads and restarts.
AttemptsAreRecorded ==
    \A d \in Pairs : attempts[d] = Len(notifications[d]) + InMemory(d) + lost[d]

\* The rows of an incident and a provider are one history: numbered from one, with
\* nothing after a success or after giving up.  And max_attempts is the total number
\* of attempts, the first one included: no configuration is exceeded that was ever
\* applied, unless attempts were lost.
AttemptsAreNumbered ==
    \A d \in Pairs :
        /\ \A k \in DOMAIN notifications[d] :
              /\ notifications[d][k].number = k
              /\ k < Len(notifications[d]) =>
                    ~notifications[d][k].success /\ ~notifications[d][k].exhausted
        /\ \E c \in Configurations : attempts[d] <= c.max + lost[d]

\* The status page shows exactly the pairs that were tried and never succeeded.
ActionableIsUntold ==
    ListActionableAlertDeliveryFailures =
        {d \in Pairs : /\ notifications[d] # <<>>
                       /\ \A k \in DOMAIN notifications[d] : ~notifications[d][k].success}

Told(d) == \E k \in DOMAIN notifications[d] : notifications[d][k].success
GivenUp(d) == \E k \in DOMAIN notifications[d] : notifications[d][k].exhausted

\* A failed attempt that was recorded is repeated until one succeeds or the daemon
\* gives up, also when the provider is removed from the configuration meanwhile.
FailureIsSettled ==
    \A d \in Pairs : notifications[d] # <<>> ~> Told(d) \/ GivenUp(d)

-----------------------------------------------------------------------------
(* The attempts implement the abstract specification. *)

Delivery == INSTANCE AlertDelivery WITH
    delivery <- [d \in Pairs |->
        IF Told(d) THEN "told" ELSE IF GivenUp(d) THEN "given_up"
        ELSE IF notifications[d] = <<>> THEN "unsent" ELSE "retrying"]

\* What the rows say of an incident and a provider changes only as AlertDelivery says.
ImplementsDelivery == Delivery!Spec

=============================================================================
