--------------------- MODULE NotificationRetriesProofs ---------------------
(***************************************************************************)
(* The attempts to tell an incident: for any incidents, providers,         *)
(* configurations, events and bounds, every attempt has one row, the rows  *)
(* are one numbered history, and what they say of an incident and a        *)
(* provider changes only as AlertDelivery allows.                          *)
(*                                                                         *)
(* None of it is inductive.  What keeps a repetition from adding to a      *)
(* history that has ended is what the main goroutine has listed before it  *)
(* calls a provider: the pairs that it will repeat are all open, different *)
(* from one another, and nobody else adds to them (Listed, Repeated),      *)
(* since a first attempt is stored only where there is no row (Fresh).     *)
(***************************************************************************)
EXTENDS NotificationRetries, TLAPS

OneOfConfigured(n) == \E c \in Configurations : n < c.max

\* A row of attempt n: some configuration allowed more if it is not the last.
Numbered(row, n) ==
    /\ row.number = n
    /\ ~row.success /\ ~row.exhausted => OneOfConfigured(n)

Open(rows) ==
    /\ rows # <<>>
    /\ \A k \in DOMAIN rows : ~rows[k].success /\ ~rows[k].exhausted

History(rows) ==
    \A k \in DOMAIN rows :
        /\ Numbered(rows[k], k)
        /\ k < Len(rows) => ~rows[k].success /\ ~rows[k].exhausted

WellTyped ==
    /\ TypeOK
    /\ memory = [i \in Incidents |-> memory[i]]
    /\ retrying = Idle \/ retrying \in [pair : Pairs, row : Row]

Histories == \A d \in Pairs : History(notifications[d])

Firsts ==
    \A i \in Incidents :
        stage[i] \in {"sent", "unrecorded"} => \A p \in using[i] : Numbered(memory[i][p], 1)

Fresh ==
    \A d \in Pairs :
        stage[d[1]] # "recorded" \/ d[2] \notin using[d[1]] => notifications[d] = <<>>

Listed ==
    /\ \A x \in retries :
          Open(notifications[x.pair]) /\ x.number = Len(notifications[x.pair])
    /\ \A x, y \in retries : x.pair = y.pair => x = y

Repeated ==
    retrying # Idle =>
        /\ Open(notifications[retrying.pair])
        /\ Numbered(retrying.row, Len(notifications[retrying.pair]) + 1)
        /\ \A x \in retries : x.pair # retrying.pair

IInv ==
    /\ WellTyped /\ Histories /\ Firsts /\ Fresh /\ Listed /\ Repeated
    /\ AttemptsAreRecorded

-----------------------------------------------------------------------------
(* Rows *)

LEMMA RowOfAttempt ==
    ASSUME NEW c \in Configurations, NEW n \in Nat \ {0}, NEW ok \in BOOLEAN
    PROVE  /\ AlertNotification(c, n, ok) \in Row
           /\ Numbered(AlertNotification(c, n, ok), n)
<1>1. c.max \in Nat /\ c.backoff \in Seq(Nat)
  BY NotificationAssumption
<1>2. RetryBackoff(c, n) \in Nat
  BY <1>1 DEF RetryBackoff
<1>3. AlertNotification(c, n, ok) \in Row
  BY <1>1, <1>2 DEF AlertNotification, Row, NoWait
<1>4. Numbered(AlertNotification(c, n, ok), n)
  <2>1. /\ AlertNotification(c, n, ok).number = n /\ AlertNotification(c, n, ok).success = ok
        /\ AlertNotification(c, n, ok).exhausted = (~ok /\ n >= c.max)
    BY DEF AlertNotification
  <2>2. ~ok /\ ~(n >= c.max) => OneOfConfigured(n)
    BY <1>1 DEF OneOfConfigured
  <2> QED
    BY <2>1, <2>2 DEF Numbered
<1> QED
  BY <1>3, <1>4

LEMMA RowOfNotConfigured ==
    ASSUME NEW row \in Row, NEW n \in Nat, row.number = n
    PROVE  NotConfigured(row) \in Row /\ Numbered(NotConfigured(row), n)
BY DEF NotConfigured, Row, Numbered, NoWait

LEMMA RowInTime ==
    ASSUME NEW row \in Row
    PROVE  /\ Earlier(row) \in Row
           /\ Earlier(row).number = row.number
           /\ Earlier(row).success = row.success
           /\ Earlier(row).exhausted = row.exhausted
BY DEF Earlier, Row, NoWait

LEMMA RowsInTime ==
    ASSUME NEW rows \in Seq(Row), NEW later, later = [k \in DOMAIN rows |-> Earlier(rows[k])]
    PROVE  /\ later \in Seq(Row) /\ Len(later) = Len(rows) /\ DOMAIN later = DOMAIN rows
           /\ \A k \in DOMAIN rows :
                 /\ rows[k] \in Row
                 /\ later[k].number = rows[k].number
                 /\ later[k].success = rows[k].success
                 /\ later[k].exhausted = rows[k].exhausted
<1>1. \A k \in DOMAIN rows : rows[k] \in Row
  OBVIOUS
<1>2. later \in [1 .. Len(rows) -> Row]
  BY <1>1, RowInTime
<1>3. later \in Seq(Row) /\ Len(later) = Len(rows) /\ DOMAIN later = DOMAIN rows
  BY <1>2
<1> QED
  BY <1>1, <1>3, RowInTime

\* A row that comes after an open history continues it.
LEMMA HistoryGoesOn ==
    ASSUME NEW rows \in Seq(Row), NEW row \in Row, History(rows),
           rows = <<>> \/ Open(rows), Numbered(row, Len(rows) + 1)
    PROVE  /\ Append(rows, row) \in Seq(Row) /\ Len(Append(rows, row)) = Len(rows) + 1
           /\ History(Append(rows, row))
<1> DEFINE more == Append(rows, row)
<1>1. /\ more \in Seq(Row) /\ Len(more) = Len(rows) + 1 /\ Len(rows) \in Nat
      /\ more[Len(rows) + 1] = row /\ \A k \in 1 .. Len(rows) : more[k] = rows[k]
      /\ DOMAIN more = 1 .. Len(rows) + 1 /\ DOMAIN rows = 1 .. Len(rows)
  OBVIOUS
<1>2. ASSUME NEW k \in 1 .. Len(rows)
      PROVE  Numbered(more[k], k) /\ ~more[k].success /\ ~more[k].exhausted
  <2>1. rows # <<>>
    BY <1>1, <1>2
  <2> QED
    BY <1>1, <2>1 DEF History, Open
<1>3. Numbered(more[Len(rows) + 1], Len(rows) + 1)
  BY <1>1
<1> HIDE DEF more
<1>4. History(more)
  BY <1>1, <1>2, <1>3 DEF History
<1> QED
  BY <1>1, <1>4 DEF more

LEMMA RepetitionIsNotIdle == \A pair, row : [pair |-> pair, row |-> row] # Idle
<1> SUFFICES ASSUME NEW pair, NEW row, [pair |-> pair, row |-> row] = Idle PROVE FALSE
  OBVIOUS
<1>1. DOMAIN [pair |-> pair, row |-> row] = {"pair", "row"}
  OBVIOUS
<1>2. DOMAIN Idle = {}
  BY DEF Idle
<1> QED
  BY <1>1, <1>2

-----------------------------------------------------------------------------
(* First attempts *)

LEMMA PairParts == \A d \in Pairs : d[1] \in Incidents /\ d[2] \in Providers
BY DEF Pairs

LEMMA InitIsInvariant == Init => IInv
<1> SUFFICES ASSUME Init PROVE IInv
  OBVIOUS
<1>1. WellTyped
  <2>1. <<>> \in Seq(Row)
    OBVIOUS
  <2> QED
    BY <2>1, NotificationAssumption DEF Init, WellTyped, TypeOK
<1>2. \A d \in Pairs : Len(notifications[d]) = 0 /\ DOMAIN notifications[d] = {}
  BY DEF Init
<1>3. Histories /\ Firsts /\ Fresh /\ Listed /\ Repeated
  BY <1>2 DEF Init, Histories, History, Firsts, Fresh, Listed, Repeated
<1>4. AttemptsAreRecorded
  <2>1. \A d \in Pairs : InMemory(d) = 0
    BY PairParts DEF Init, InMemory
  <2> QED
    BY <1>2, <2>1 DEF Init, AttemptsAreRecorded
<1> QED
  BY <1>1, <1>3, <1>4 DEF IInv

\* What a step that leaves the rows and the repetitions alone keeps anyway.
LEMMA RowsAlone ==
    ASSUME IInv, UNCHANGED <<notifications, loop>>
    PROVE  Histories' /\ Listed' /\ Repeated'
BY DEF IInv, Histories, Listed, Repeated, loop

LEMMA BeginKeeps ==
    ASSUME IInv, NEW i \in Incidents, Begin(i)
    PROVE  IInv'
<1>1. WellTyped'
  <2>1. config.providers \subseteq Providers
    BY NotificationAssumption DEF IInv, WellTyped, TypeOK
  <2> QED
    BY <2>1 DEF IInv, WellTyped, TypeOK, Begin, loop, tried
<1>2. Firsts' /\ Fresh'
  BY PairParts DEF IInv, WellTyped, TypeOK, Firsts, Fresh, Begin
<1>3. AttemptsAreRecorded'
  <2>1. \A d \in Pairs : InMemory(d)' = InMemory(d)
    BY PairParts DEF IInv, WellTyped, TypeOK, InMemory, Begin, loop
  <2> QED
    BY <2>1 DEF IInv, AttemptsAreRecorded, Begin, tried
<1> QED
  BY <1>1, <1>2, <1>3, RowsAlone DEF IInv, Begin

LEMMA SendKeeps ==
    ASSUME IInv, NEW i \in Incidents, Send(i)
    PROVE  IInv'
<1>1. PICK ok \in [using[i] -> BOOLEAN] :
        memory' = [memory EXCEPT ![i] = [p \in using[i] |-> AlertNotification(config, 1, ok[p])]]
  BY DEF Send
<1>2. config \in Configurations /\ using[i] \subseteq Providers /\ stage[i] = "claimed"
  BY DEF Send, IInv, WellTyped, TypeOK
<1>3. \A p \in using[i] : memory'[i][p] \in Row /\ Numbered(memory'[i][p], 1)
  BY <1>1, <1>2, RowOfAttempt DEF IInv, WellTyped
<1>4. memory'[i] \in [using[i] -> Row] /\ \A j \in Incidents \ {i} : memory'[j] = memory[j]
  BY <1>1, <1>3 DEF IInv, WellTyped
<1>5. \A d \in Pairs :
        /\ attempts'[d] = attempts[d] + IF d[1] = i /\ d[2] \in using[i] THEN 1 ELSE 0
        /\ attempts[d] \in Nat
  BY DEF Send, Count, IInv, WellTyped, TypeOK
<1>6. /\ stage' = [stage EXCEPT ![i] = "sent"]
      /\ UNCHANGED <<config, using, cancelled, notifications, loop, faults, lost>>
  BY DEF Send
<1>7. WellTyped'
  <2>1. attempts' \in [Pairs -> Nat]
    BY DEF Send, Count, IInv, WellTyped, TypeOK
  <2>2. memory' = [j \in Incidents |-> memory'[j]]
    BY <1>1 DEF IInv, WellTyped
  <2> QED
    BY <1>4, <1>6, <2>1, <2>2 DEF IInv, WellTyped, TypeOK, loop
<1>8. Firsts' /\ Fresh'
  BY <1>2, <1>3, <1>4, <1>6, PairParts DEF IInv, WellTyped, TypeOK, Firsts, Fresh
<1>9. AttemptsAreRecorded'
  <2>1. \A d \in Pairs :
          InMemory(d)' = InMemory(d) + IF d[1] = i /\ d[2] \in using[i] THEN 1 ELSE 0
    BY <1>2, <1>6, PairParts DEF IInv, WellTyped, TypeOK, InMemory, loop
  <2>2. \A d \in Pairs : InMemory(d) \in Nat /\ Len(notifications[d]) \in Nat /\ lost[d] \in Nat
    BY DEF InMemory, IInv, WellTyped, TypeOK
  <2> QED
    BY <1>5, <1>6, <2>1, <2>2 DEF IInv, AttemptsAreRecorded
<1> QED
  BY <1>6, <1>7, <1>8, <1>9, RowsAlone DEF IInv

LEMMA RecordFailsKeeps ==
    ASSUME IInv, NEW i \in Incidents, RecordFails(i)
    PROVE  IInv'
<1>1. /\ UNCHANGED <<config, using, cancelled, notifications, loop, attempts>>
      /\ faults' \in 0 .. MaxFaults
      /\ stage[i] = "sent"
  BY NotificationAssumption DEF RecordFails, Fault, IInv, WellTyped, TypeOK
<1>2. \A d \in Pairs : /\ InMemory(d) \in Nat /\ Len(notifications[d]) \in Nat
                       /\ lost[d] \in Nat /\ attempts[d] \in Nat
  BY DEF InMemory, IInv, WellTyped, TypeOK
<1>3. CASE stage' = [stage EXCEPT ![i] = "unrecorded"] /\ UNCHANGED <<memory, lost>>
  <2>1. WellTyped'
    BY <1>1, <1>3 DEF IInv, WellTyped, TypeOK, loop
  <2>2. Firsts' /\ Fresh'
    BY <1>1, <1>3, PairParts DEF IInv, WellTyped, TypeOK, Firsts, Fresh
  <2>3. \A d \in Pairs : InMemory(d)' = InMemory(d)
    BY <1>1, <1>3, PairParts DEF IInv, WellTyped, TypeOK, InMemory, loop
  <2> QED
    BY <1>1, <1>3, <2>1, <2>2, <2>3, RowsAlone DEF IInv, AttemptsAreRecorded
<1>4. CASE /\ stage' = [stage EXCEPT ![i] = "lost"]
           /\ Forgotten(i) /\ lost' = Count(lost, i)
  <2>1. WellTyped'
    <3>1. lost' \in [Pairs -> Nat]
      BY <1>4 DEF IInv, WellTyped, TypeOK, Count
    <3>2. memory' = [j \in Incidents |-> memory'[j]]
      BY <1>4 DEF IInv, WellTyped, Forgotten
    <3>3. \A j \in Incidents :
            memory'[j] \in IF stage'[j] \in {"sent", "unrecorded"} THEN [using'[j] -> Row] ELSE {<<>>}
      BY <1>1, <1>4 DEF IInv, WellTyped, TypeOK, Forgotten
    <3>4. stage' \in [Incidents -> {"new", "claimed", "sent", "unrecorded", "recorded", "lost"}]
      BY <1>4 DEF IInv, WellTyped, TypeOK
    <3> QED
      BY <1>1, <3>1, <3>2, <3>3, <3>4 DEF IInv, WellTyped, TypeOK, loop
  <2>2. Firsts' /\ Fresh'
    BY <1>1, <1>4, PairParts DEF IInv, WellTyped, TypeOK, Firsts, Fresh, Forgotten
  <2>3. \A d \in Pairs :
          /\ InMemory(d) = InMemory(d)' + IF d[1] = i /\ d[2] \in using[i] THEN 1 ELSE 0
          /\ lost'[d] = lost[d] + IF d[1] = i /\ d[2] \in using[i] THEN 1 ELSE 0
          /\ InMemory(d)' \in Nat
    BY <1>1, <1>2, <1>4, PairParts DEF IInv, WellTyped, TypeOK, InMemory, loop, Count
  <2>4. AttemptsAreRecorded'
    <3> SUFFICES ASSUME NEW d \in Pairs
                 PROVE  attempts'[d] = Len(notifications'[d]) + InMemory(d)' + lost'[d]
      BY DEF AttemptsAreRecorded
    <3>1. attempts[d] = Len(notifications[d]) + InMemory(d) + lost[d]
      BY DEF IInv, AttemptsAreRecorded
    <3>2. attempts' = attempts /\ notifications' = notifications
      BY <1>1
    <3>3. /\ Len(notifications[d]) \in Nat /\ lost[d] \in Nat
      BY <1>2
    <3>4. CASE d[1] = i /\ d[2] \in using[i]
      <4>1. InMemory(d) = InMemory(d)' + 1 /\ lost'[d] = lost[d] + 1 /\ InMemory(d)' \in Nat
        BY <2>3, <3>4
      <4> QED
        BY <3>1, <3>2, <3>3, <4>1
    <3>5. CASE ~(d[1] = i /\ d[2] \in using[i])
      <4>1. InMemory(d) = InMemory(d)' /\ lost'[d] = lost[d] /\ InMemory(d)' \in Nat
        BY <1>2, <2>3, <3>5
      <4> QED
        BY <3>1, <3>2, <3>3, <4>1
    <3> QED
      BY <3>4, <3>5
  <2> QED
    BY <1>1, <2>1, <2>2, <2>4, RowsAlone DEF IInv
<1> QED
  BY <1>3, <1>4 DEF RecordFails

\* An incident is told for the first time only where there is no row.
LEMMA StoreKeeps ==
    ASSUME IInv, NEW i \in Incidents, stage[i] \in {"sent", "unrecorded"}, Store(i)
    PROVE  /\ IInv'
           /\ \A p \in using[i] :
                 notifications[<<i, p>>] = <<>> /\ notifications'[<<i, p>>] # <<>>
           /\ \A d \in Pairs :
                 ~(d[1] = i /\ d[2] \in using[i]) => notifications'[d] = notifications[d]
<1>1. /\ using[i] \subseteq Providers /\ memory[i] \in [using[i] -> Row]
      /\ \A p \in using[i] : Numbered(memory[i][p], 1)
  BY DEF IInv, WellTyped, TypeOK, Firsts
<1>2. /\ stage' = [stage EXCEPT ![i] = "recorded"] /\ memory' = [memory EXCEPT ![i] = <<>>]
      /\ UNCHANGED <<config, using, cancelled, loop, faults, tried>>
      /\ stage \in [Incidents -> {"new", "claimed", "sent", "unrecorded", "recorded", "lost"}]
      /\ memory = [j \in Incidents |-> memory[j]]
  BY DEF Store, Forgotten, IInv, WellTyped, TypeOK
<1>3. \A d \in Pairs :
        notifications'[d] = IF d[1] = i /\ d[2] \in using[i]
                            THEN Append(notifications[d], memory[i][d[2]]) ELSE notifications[d]
  BY DEF Store
<1>4. ASSUME NEW d \in Pairs, d[1] = i, d[2] \in using[i]
      PROVE  /\ notifications[d] = <<>>
             /\ notifications'[d] \in Seq(Row) /\ Len(notifications'[d]) = 1
             /\ History(notifications'[d])
  <2>1. notifications[d] = <<>>
    BY <1>4 DEF IInv, Fresh
  <2>2. /\ notifications[d] \in Seq(Row) /\ History(notifications[d])
        /\ memory[i][d[2]] \in Row /\ Numbered(memory[i][d[2]], Len(notifications[d]) + 1)
    BY <1>1, <1>4, <2>1 DEF IInv, WellTyped, TypeOK, Histories
  <2>3. notifications'[d] = Append(notifications[d], memory[i][d[2]]) /\ Len(notifications[d]) = 0
    BY <1>3, <1>4, <2>1
  <2>4. /\ Append(notifications[d], memory[i][d[2]]) \in Seq(Row)
        /\ Len(Append(notifications[d], memory[i][d[2]])) = Len(notifications[d]) + 1
        /\ History(Append(notifications[d], memory[i][d[2]]))
    BY <2>1, <2>2, HistoryGoesOn
  <2> QED
    BY <2>1, <2>3, <2>4
<1>5. WellTyped'
  <2>1. notifications' \in [Pairs -> Seq(Row)]
    BY <1>3, <1>4 DEF Store, IInv, WellTyped, TypeOK
  <2> QED
    BY <1>2, <2>1 DEF IInv, WellTyped, TypeOK, loop, tried
<1>6. Histories'
  BY <1>3, <1>4 DEF IInv, Histories
<1>7. Firsts' /\ Fresh'
  BY <1>2, <1>3, PairParts DEF IInv, WellTyped, TypeOK, Firsts, Fresh
<1>8. \A d \in Pairs : Open(notifications[d]) => notifications'[d] = notifications[d]
  BY <1>3, <1>4 DEF Open
<1>9. Listed' /\ Repeated'
  BY <1>2, <1>8 DEF IInv, WellTyped, TypeOK, Listed, Repeated, loop
<1>10. AttemptsAreRecorded'
  <2>1. ASSUME NEW d \in Pairs
        PROVE  /\ InMemory(d) = InMemory(d)' + IF d[1] = i /\ d[2] \in using[i] THEN 1 ELSE 0
               /\ InMemory(d)' \in Nat
    BY <1>2, <2>1, PairParts DEF InMemory, loop
  <2> SUFFICES ASSUME NEW d \in Pairs
               PROVE  attempts'[d] = Len(notifications'[d]) + InMemory(d)' + lost'[d]
    BY DEF AttemptsAreRecorded
  <2>2. attempts[d] = Len(notifications[d]) + InMemory(d) + lost[d]
    BY DEF IInv, AttemptsAreRecorded
  <2>3. /\ attempts' = attempts /\ lost' = lost
        /\ Len(notifications[d]) \in Nat /\ lost[d] \in Nat
    BY <1>2 DEF tried, IInv, WellTyped, TypeOK
  <2>4. CASE d[1] = i /\ d[2] \in using[i]
    <3>1. Len(notifications[d]) = 0 /\ Len(notifications'[d]) = 1
      BY <1>4, <2>4
    <3> QED
      BY <2>1, <2>2, <2>3, <2>4, <3>1
  <2>5. CASE ~(d[1] = i /\ d[2] \in using[i])
    <3>1. notifications'[d] = notifications[d]
      BY <1>3, <2>5
    <3> QED
      BY <2>1, <2>2, <2>3, <2>5, <3>1
  <2> QED
    BY <2>4, <2>5
<1>11. \A p \in using[i] : <<i, p>> \in Pairs
  BY <1>1 DEF Pairs
<1> QED
  BY <1>3, <1>4, <1>5, <1>6, <1>7, <1>9, <1>10, <1>11 DEF IInv

-----------------------------------------------------------------------------
(* Repetitions *)

LEMMA ListRetriesKeeps ==
    ASSUME IInv, ListRetries
    PROVE  IInv'
<1>1. /\ retries' = ListDueAlertNotificationRetries /\ retrying = Idle
      /\ UNCHANGED <<config, firsts, notifications, retrying, faults, tried>>
  BY DEF ListRetries
<1>2. ASSUME NEW x \in retries'
      PROVE  /\ x.pair \in Pairs /\ x.number \in Nat
             /\ x = [pair |-> x.pair, number |-> Len(notifications[x.pair])]
             /\ Open(notifications[x.pair])
  <2>1. PICK d \in Pairs : \E k \in DOMAIN notifications[d] :
          Due(notifications[d], k) /\ x = [pair |-> d, number |-> notifications[d][k].number]
    BY <1>1, <1>2 DEF ListDueAlertNotificationRetries
  <2>2. PICK k \in DOMAIN notifications[d] :
          Due(notifications[d], k) /\ x = [pair |-> d, number |-> notifications[d][k].number]
    BY <2>1
  <2>3. /\ notifications[d] \in Seq(Row) /\ History(notifications[d])
        /\ k = Len(notifications[d]) /\ k \in 1 .. Len(notifications[d]) /\ k \in Nat
        /\ ~notifications[d][k].success /\ ~notifications[d][k].exhausted
    BY <2>2 DEF Due, IInv, WellTyped, TypeOK, Histories
  <2>4. notifications[d][k].number = k
    BY <2>3 DEF History, Numbered
  <2>5. Open(notifications[d])
    <3>1. notifications[d] # <<>>
      BY <2>3
    <3>2. ASSUME NEW l \in DOMAIN notifications[d]
          PROVE  ~notifications[d][l].success /\ ~notifications[d][l].exhausted
      <4>1. l < Len(notifications[d]) \/ l = k
        BY <2>3, <3>2
      <4> QED
        BY <2>3, <4>1 DEF History
    <3> QED
      BY <3>1, <3>2 DEF Open
  <2> QED
    BY <2>2, <2>3, <2>4, <2>5
<1>3. Listed'
  BY <1>1, <1>2 DEF Listed
<1>4. WellTyped'
  BY <1>1, <1>2 DEF IInv, WellTyped, TypeOK, firsts, tried
<1>5. Histories' /\ Firsts' /\ Fresh' /\ Repeated'
  BY <1>1 DEF IInv, Histories, Firsts, Fresh, Repeated, firsts
<1>6. AttemptsAreRecorded'
  BY <1>1 DEF IInv, AttemptsAreRecorded, InMemory, firsts, tried
<1> QED
  BY <1>3, <1>4, <1>5, <1>6 DEF IInv

\* What the main goroutine has listed is still open when it calls the provider.
LEMMA RetryKeeps ==
    ASSUME IInv, NEW x \in retries, Retry(x)
    PROVE  IInv'
<1> DEFINE rows == notifications[x.pair]
           row == retrying'.row
<1>1. /\ retrying = Idle /\ retries' = retries \ {x}
      /\ attempts' = [attempts EXCEPT ![x.pair] = @ + 1]
      /\ UNCHANGED <<config, firsts, notifications, faults, lost>>
  BY DEF Retry
<1>2. /\ x.pair \in Pairs /\ rows \in Seq(Row) /\ Open(rows) /\ Len(rows) \in Nat
      /\ x.number = Len(rows) /\ config \in Configurations
  BY DEF IInv, WellTyped, TypeOK, Listed
<1>3. \A ok \in BOOLEAN : LET repeated == AlertNotification(config, x.number + 1, ok)
                          IN  repeated \in Row /\ Numbered(repeated, Len(rows) + 1)
                              /\ repeated.number = Len(rows) + 1
  <2>1. Len(rows) + 1 \in Nat \ {0}
    BY <1>2
  <2> QED
    BY <1>2, <2>1, RowOfAttempt DEF Numbered
<1>4. /\ retrying' = [pair |-> x.pair, row |-> row]
      /\ row \in Row /\ Numbered(row, Len(rows) + 1)
  <2>1. CASE \E ok \in BOOLEAN :
               retrying' = [pair |-> x.pair, row |-> AlertNotification(config, x.number + 1, ok)]
    BY <1>3, <2>1
  <2>2. CASE retrying' = [pair |-> x.pair,
                          row |-> NotConfigured(AlertNotification(config, x.number + 1, FALSE))]
    <3> DEFINE repeated == AlertNotification(config, x.number + 1, FALSE)
    <3>1. repeated \in Row /\ repeated.number = Len(rows) + 1
      BY <1>3
    <3>4. Len(rows) + 1 \in Nat
      BY <1>2
    <3>2. retrying' = [pair |-> x.pair, row |-> NotConfigured(repeated)]
      BY <2>2
    <3> HIDE DEF repeated
    <3>3. NotConfigured(repeated) \in Row /\ Numbered(NotConfigured(repeated), Len(rows) + 1)
      BY <3>1, <3>4, RowOfNotConfigured
    <3> QED
      BY <3>2, <3>3
  <2> QED
    BY <2>1, <2>2 DEF Retry
<1> HIDE DEF row
<1>5. retrying'.pair = x.pair /\ retrying'.row = row /\ retrying' # Idle
  BY <1>4, RepetitionIsNotIdle
<1>6. WellTyped'
  <2>1. attempts' \in [Pairs -> Nat]
    BY <1>1 DEF IInv, WellTyped, TypeOK
  <2>2. retrying' \in [pair : Pairs, row : Row]
    BY <1>2, <1>4
  <2> QED
    BY <1>1, <1>2, <1>4, <1>5, <2>1, <2>2 DEF IInv, WellTyped, TypeOK, firsts
<1>7. Histories' /\ Firsts' /\ Fresh' /\ Listed'
  BY <1>1 DEF IInv, Histories, Firsts, Fresh, Listed, firsts
<1>8. Repeated'
  <2>1. \A y \in retries' : y.pair # x.pair
    BY <1>1 DEF IInv, Listed
  <2> QED
    BY <1>1, <1>2, <1>4, <1>5, <2>1 DEF Repeated
<1>9. AttemptsAreRecorded'
  <2> SUFFICES ASSUME NEW d \in Pairs
               PROVE  attempts'[d] = Len(notifications'[d]) + InMemory(d)' + lost'[d]
    BY DEF AttemptsAreRecorded
  <2>1. /\ attempts[d] = Len(notifications[d]) + InMemory(d) + lost[d]
        /\ Len(notifications[d]) \in Nat /\ lost[d] \in Nat /\ InMemory(d) \in Nat
        /\ attempts[d] \in Nat /\ attempts \in [Pairs -> Nat]
    BY DEF IInv, WellTyped, TypeOK, AttemptsAreRecorded, InMemory
  <2>2. CASE d = x.pair
    <3>1. InMemory(d)' = InMemory(d) + 1
      BY <1>1, <1>5, <2>2 DEF InMemory, firsts
    <3>2. attempts'[d] = attempts[d] + 1
      BY <1>1, <2>1, <2>2
    <3>3. notifications'[d] = notifications[d] /\ lost'[d] = lost[d]
      BY <1>1
    <3>4. Len(notifications'[d]) = Len(notifications[d])
      BY <3>3
    <3>5. \A a, n, m, k \in Nat : a = n + m + k => a + 1 = n + (m + 1) + k
      OBVIOUS
    <3>6. attempts[d] + 1 = Len(notifications[d]) + (InMemory(d) + 1) + lost[d]
      BY <2>1, <3>5
    <3> QED
      BY <3>1, <3>2, <3>3, <3>4, <3>6
  <2>3. CASE d # x.pair
    <3>1. InMemory(d)' = InMemory(d)
      BY <1>1, <1>5, <2>3 DEF InMemory, firsts
    <3>2. attempts'[d] = attempts[d]
      BY <1>1, <2>1, <2>3
    <3> QED
      BY <1>1, <2>1, <3>1, <3>2
  <2> QED
    BY <2>2, <2>3
<1> QED
  BY <1>6, <1>7, <1>8, <1>9 DEF IInv

LEMMA SaveRetryKeeps ==
    ASSUME IInv, SaveRetry
    PROVE  /\ IInv'
           /\ retrying.pair \in Pairs /\ Open(notifications[retrying.pair])
           /\ notifications'[retrying.pair] # <<>>
           /\ \A d \in Pairs \ {retrying.pair} : notifications'[d] = notifications[d]
<1> DEFINE pair == retrying.pair
           rows == notifications[pair]
<1>1. /\ retrying # Idle /\ retrying' = Idle
      /\ notifications' = [notifications EXCEPT ![pair] = Append(@, retrying.row)]
      /\ UNCHANGED <<config, firsts, retries, faults, tried>>
  BY DEF SaveRetry
<1>2. /\ retrying \in [pair : Pairs, row : Row]
      /\ Open(rows) /\ Numbered(retrying.row, Len(rows) + 1)
      /\ \A x \in retries : x.pair # pair
  BY <1>1 DEF IInv, WellTyped, Repeated
<1>3. pair \in Pairs /\ retrying.row \in Row /\ rows \in Seq(Row) /\ History(rows)
  BY <1>2 DEF IInv, WellTyped, TypeOK, Histories
<1>4. /\ notifications'[pair] \in Seq(Row) /\ Len(notifications'[pair]) = Len(rows) + 1
      /\ Len(rows) \in Nat /\ History(notifications'[pair])
  <2>1. notifications'[pair] = Append(rows, retrying.row)
    BY <1>1, <1>3 DEF IInv, WellTyped, TypeOK
  <2> HIDE DEF rows, pair
  <2>2. Len(rows) \in Nat
    BY <1>3
  <2> QED
    BY <1>2, <1>3, <2>1, <2>2, HistoryGoesOn
<1>5. \A d \in Pairs \ {pair} : notifications'[d] = notifications[d]
  BY <1>1 DEF IInv, WellTyped, TypeOK
<1>6. WellTyped'
  <2>1. notifications' \in [Pairs -> Seq(Row)]
    BY <1>1, <1>4, <1>5 DEF IInv, WellTyped, TypeOK
  <2> QED
    BY <1>1, <2>1 DEF IInv, WellTyped, TypeOK, firsts, tried
<1>7. Histories'
  BY <1>4, <1>5 DEF IInv, Histories
<1>8. Firsts' /\ Fresh' /\ Listed' /\ Repeated'
  <2>1. Firsts' /\ Repeated'
    BY <1>1 DEF IInv, Firsts, Repeated, firsts
  <2>2. Fresh'
    BY <1>1, <1>2, <1>5 DEF IInv, Fresh, Open, firsts
  <2>3. Listed'
    BY <1>1, <1>2, <1>5 DEF IInv, WellTyped, TypeOK, Listed
  <2> QED
    BY <2>1, <2>2, <2>3
<1>9. AttemptsAreRecorded'
  <2> SUFFICES ASSUME NEW d \in Pairs
               PROVE  attempts'[d] = Len(notifications'[d]) + InMemory(d)' + lost'[d]
    BY DEF AttemptsAreRecorded
  <2>1. /\ attempts[d] = Len(notifications[d]) + InMemory(d) + lost[d]
        /\ Len(notifications[d]) \in Nat /\ lost[d] \in Nat
        /\ attempts' = attempts /\ lost' = lost
    BY <1>1 DEF IInv, WellTyped, TypeOK, AttemptsAreRecorded, tried
  <2>2. CASE d = pair
    <3>1. InMemory(d) = InMemory(d)' + 1 /\ InMemory(d)' \in Nat
      BY <1>1, <2>2 DEF InMemory, firsts
    <3>2. Len(notifications'[d]) = Len(notifications[d]) + 1
      BY <1>4, <2>2
    <3> HIDE DEF rows, pair
    <3> QED
      BY <2>1, <3>1, <3>2
  <2>3. CASE d # pair
    <3>1. InMemory(d)' = InMemory(d)
      BY <1>1, <2>3 DEF InMemory, firsts
    <3> QED
      BY <1>5, <2>1, <2>3, <3>1
  <2> QED
    BY <2>2, <2>3
<1>10. notifications'[pair] # <<>>
  BY <1>4
<1> QED
  BY <1>2, <1>3, <1>5, <1>6, <1>7, <1>8, <1>9, <1>10 DEF IInv

LEMMA SaveRetryFailsKeeps ==
    ASSUME IInv, SaveRetryFails
    PROVE  IInv'
<1>1. /\ retrying # Idle /\ retrying' = Idle /\ lost' = [lost EXCEPT ![retrying.pair] = @ + 1]
      /\ UNCHANGED <<config, firsts, notifications, retries, attempts>>
      /\ faults' \in 0 .. MaxFaults
  BY NotificationAssumption DEF SaveRetryFails, LostRetry, Fault, IInv, WellTyped, TypeOK
<1>2. retrying.pair \in Pairs
  BY <1>1 DEF IInv, WellTyped
<1>3. WellTyped'
  <2>1. lost' \in [Pairs -> Nat]
    BY <1>1, <1>2 DEF IInv, WellTyped, TypeOK
  <2> QED
    BY <1>1, <2>1 DEF IInv, WellTyped, TypeOK, firsts
<1>4. Histories' /\ Firsts' /\ Fresh' /\ Listed' /\ Repeated'
  BY <1>1 DEF IInv, Histories, Firsts, Fresh, Listed, Repeated, firsts
<1>5. AttemptsAreRecorded'
  <2> SUFFICES ASSUME NEW d \in Pairs
               PROVE  attempts'[d] = Len(notifications'[d]) + InMemory(d)' + lost'[d]
    BY DEF AttemptsAreRecorded
  <2>1. /\ attempts[d] = Len(notifications[d]) + InMemory(d) + lost[d]
        /\ Len(notifications[d]) \in Nat /\ lost[d] \in Nat /\ lost \in [Pairs -> Nat]
        /\ attempts' = attempts /\ notifications' = notifications
    BY <1>1 DEF IInv, WellTyped, TypeOK, AttemptsAreRecorded
  <2>2. CASE d = retrying.pair
    <3>1. InMemory(d) = InMemory(d)' + 1 /\ InMemory(d)' \in Nat
      BY <1>1, <2>2 DEF InMemory, firsts
    <3>2. lost'[d] = lost[d] + 1
      BY <1>1, <2>1, <2>2
    <3> QED
      BY <2>1, <3>1, <3>2
  <2>3. CASE d # retrying.pair
    <3>1. InMemory(d)' = InMemory(d) /\ InMemory(d) \in Nat
      BY <1>1, <2>3 DEF InMemory, firsts
    <3>2. lost'[d] = lost[d]
      BY <1>1, <2>1, <2>3
    <3> QED
      BY <2>1, <3>1, <3>2
  <2> QED
    BY <2>2, <2>3
<1> QED
  BY <1>3, <1>4, <1>5 DEF IInv

-----------------------------------------------------------------------------
(* Reloads, restarts and time *)

LEMMA ReloadKeeps ==
    ASSUME IInv, Reload
    PROVE  IInv'
<1>1. /\ config' \in Configurations /\ cancelled' \subseteq Incidents
      /\ faults' \in 0 .. MaxFaults
      /\ UNCHANGED <<stage, using, memory, notifications, loop, tried>>
  BY NotificationAssumption DEF Reload, Fault, IInv, WellTyped, TypeOK
<1>2. WellTyped'
  BY <1>1 DEF IInv, WellTyped, TypeOK, loop, tried
<1>3. Firsts' /\ Fresh' /\ AttemptsAreRecorded'
  BY <1>1 DEF IInv, Firsts, Fresh, AttemptsAreRecorded, InMemory, loop, tried
<1> QED
  BY <1>1, <1>2, <1>3, RowsAlone DEF IInv

\* What was in memory is counted as lost.
LEMMA CrashKeeps ==
    ASSUME IInv, Crash
    PROVE  IInv'
<1> DEFINE gone == {i \in Incidents : stage[i] \in {"claimed", "sent", "unrecorded"}}
           firstLost == [d \in Pairs |->
              IF d[1] \in {i \in gone : stage[i] # "claimed"} /\ d[2] \in using[d[1]]
              THEN lost[d] + 1 ELSE lost[d]]
<1>1. /\ stage' = [i \in Incidents |-> IF i \in gone THEN "lost" ELSE stage[i]]
      /\ memory' = [i \in Incidents |-> <<>>] /\ cancelled' = {}
      /\ lost' = LostRetry(firstLost)
      /\ retries' = {} /\ retrying' = Idle
      /\ UNCHANGED <<config, using, notifications, attempts>>
      /\ faults' \in 0 .. MaxFaults
  BY NotificationAssumption DEF Crash, Fault, IInv, WellTyped, TypeOK
<1>2. firstLost \in [Pairs -> Nat]
  BY DEF IInv, WellTyped, TypeOK
<1>3. \A d \in Pairs :
        firstLost[d] = lost[d] + IF stage[d[1]] \in {"sent", "unrecorded"} /\ d[2] \in using[d[1]]
                                 THEN 1 ELSE 0
  BY PairParts DEF IInv, WellTyped, TypeOK
<1> HIDE DEF firstLost
<1>4. /\ lost' \in [Pairs -> Nat]
      /\ \A d \in Pairs :
            lost'[d] = firstLost[d] + IF retrying # Idle /\ retrying.pair = d THEN 1 ELSE 0
  <2>1. CASE retrying = Idle
    BY <1>1, <1>2, <2>1 DEF LostRetry
  <2>2. CASE retrying # Idle
    <3>1. retrying.pair \in Pairs /\ lost' = [firstLost EXCEPT ![retrying.pair] = @ + 1]
      BY <1>1, <2>2 DEF LostRetry, IInv, WellTyped
    <3> QED
      BY <1>2, <2>2, <3>1
  <2> QED
    BY <2>1, <2>2
<1>5. \A i \in Incidents : stage'[i] \notin {"sent", "unrecorded"}
  BY <1>1 DEF IInv, WellTyped, TypeOK
<1>6. WellTyped'
  <2>1. stage' \in [Incidents -> {"new", "claimed", "sent", "unrecorded", "recorded", "lost"}]
    BY <1>1 DEF IInv, WellTyped, TypeOK
  <2> HIDE DEF gone
  <2> QED
    BY <1>1, <1>4, <1>5, <2>1 DEF IInv, WellTyped, TypeOK
<1>7. Histories' /\ Firsts' /\ Listed' /\ Repeated'
  BY <1>1, <1>5 DEF IInv, Histories, Firsts, Listed, Repeated
<1>8. Fresh'
  BY <1>1, PairParts DEF IInv, Fresh
<1>9. AttemptsAreRecorded'
  <2> SUFFICES ASSUME NEW d \in Pairs
               PROVE  attempts'[d] = Len(notifications'[d]) + InMemory(d)' + lost'[d]
    BY DEF AttemptsAreRecorded
  <2>1. /\ attempts[d] = Len(notifications[d]) + InMemory(d) + lost[d]
        /\ Len(notifications[d]) \in Nat /\ lost[d] \in Nat
        /\ attempts' = attempts /\ notifications' = notifications
    BY <1>1 DEF IInv, WellTyped, TypeOK, AttemptsAreRecorded
  <2>2. InMemory(d)' = 0
    BY <1>1, <1>5, PairParts DEF InMemory
  <2>3. lost'[d] = lost[d] + InMemory(d)
    BY <1>3, <1>4, <2>1 DEF InMemory
  <2>4. InMemory(d) \in Nat
    BY DEF InMemory
  <2> QED
    BY <2>1, <2>2, <2>3, <2>4
<1> QED
  BY <1>6, <1>7, <1>8, <1>9 DEF IInv

LEMMA TickKeeps ==
    ASSUME IInv, Tick
    PROVE  /\ IInv'
           /\ \A d \in Pairs :
                 /\ DOMAIN notifications'[d] = DOMAIN notifications[d]
                 /\ notifications'[d] = <<>> <=> notifications[d] = <<>>
                 /\ \A k \in DOMAIN notifications[d] :
                       /\ notifications'[d][k].success = notifications[d][k].success
                       /\ notifications'[d][k].exhausted = notifications[d][k].exhausted
<1>1. /\ \A d \in Pairs :
            notifications'[d] = [k \in DOMAIN notifications[d] |-> Earlier(notifications[d][k])]
      /\ \A i \in Incidents : memory'[i] = [p \in DOMAIN memory[i] |-> Earlier(memory[i][p])]
      /\ memory' = [i \in Incidents |-> memory'[i]]
      /\ retrying' = IF retrying = Idle THEN Idle ELSE [retrying EXCEPT !.row = Earlier(@)]
      /\ UNCHANGED <<config, stage, using, cancelled, retries, faults, tried>>
  BY DEF Tick
<1>2. \A d \in Pairs :
        /\ notifications'[d] \in Seq(Row) /\ Len(notifications'[d]) = Len(notifications[d])
        /\ DOMAIN notifications'[d] = DOMAIN notifications[d]
        /\ \A k \in DOMAIN notifications[d] :
              /\ notifications'[d][k].number = notifications[d][k].number
              /\ notifications'[d][k].success = notifications[d][k].success
              /\ notifications'[d][k].exhausted = notifications[d][k].exhausted
  <2> SUFFICES ASSUME NEW d \in Pairs
               PROVE  /\ notifications'[d] \in Seq(Row)
                      /\ Len(notifications'[d]) = Len(notifications[d])
                      /\ DOMAIN notifications'[d] = DOMAIN notifications[d]
                      /\ \A k \in DOMAIN notifications[d] :
                            /\ notifications'[d][k].number = notifications[d][k].number
                            /\ notifications'[d][k].success = notifications[d][k].success
                            /\ notifications'[d][k].exhausted = notifications[d][k].exhausted
    OBVIOUS
  <2>1. notifications[d] \in Seq(Row)
    BY DEF IInv, WellTyped, TypeOK
  <2>2. notifications'[d] = [k \in DOMAIN notifications[d] |-> Earlier(notifications[d][k])]
    BY <1>1
  <2> QED
    BY <2>1, <2>2, RowsInTime
<1>3. \A d \in Pairs :
        /\ Open(notifications[d]) <=> Open(notifications'[d])
        /\ History(notifications[d]) => History(notifications'[d])
        /\ notifications'[d] = <<>> <=> notifications[d] = <<>>
  <2>1. \A d \in Pairs : notifications[d] \in Seq(Row)
    BY DEF IInv, WellTyped, TypeOK
  <2>2. \A d \in Pairs : notifications'[d] = <<>> <=> notifications[d] = <<>>
    BY <1>2, <2>1
  <2> QED
    BY <1>2, <2>2 DEF Open, History, Numbered
<1>4. \A i \in Incidents : stage[i] \in {"sent", "unrecorded"} =>
        /\ memory'[i] \in [using[i] -> Row]
        /\ \A p \in using[i] : Numbered(memory[i][p], 1) => Numbered(memory'[i][p], 1)
  <2> SUFFICES ASSUME NEW i \in Incidents, stage[i] \in {"sent", "unrecorded"}
               PROVE  /\ memory'[i] \in [using[i] -> Row]
                      /\ \A p \in using[i] : Numbered(memory[i][p], 1) => Numbered(memory'[i][p], 1)
    OBVIOUS
  <2>1. memory[i] \in [using[i] -> Row]
    BY DEF IInv, WellTyped, TypeOK
  <2>2. memory'[i] = [p \in using[i] |-> Earlier(memory[i][p])]
    BY <1>1, <2>1
  <2> QED
    BY <2>1, <2>2, RowInTime DEF Numbered
<1>5. \A i \in Incidents : stage[i] \notin {"sent", "unrecorded"} => memory'[i] = <<>>
  <2> SUFFICES ASSUME NEW i \in Incidents, stage[i] \notin {"sent", "unrecorded"}
               PROVE  memory'[i] = <<>>
    OBVIOUS
  <2>1. memory[i] = <<>>
    BY DEF IInv, WellTyped, TypeOK
  <2> QED
    BY <1>1, <2>1
<1>7. /\ retrying' = Idle <=> retrying = Idle
      /\ retrying # Idle =>
            /\ retrying' \in [pair : Pairs, row : Row]
            /\ retrying'.pair = retrying.pair
            /\ \A n : Numbered(retrying.row, n) => Numbered(retrying'.row, n)
  <2>1. CASE retrying = Idle
    BY <1>1, <2>1
  <2>2. CASE retrying # Idle
    <3>1. retrying \in [pair : Pairs, row : Row]
      BY <2>2 DEF IInv, WellTyped
    <3>2. retrying' = [pair |-> retrying.pair, row |-> Earlier(retrying.row)]
      BY <1>1, <2>2, <3>1
    <3> QED
      BY <2>2, <3>1, <3>2, RowInTime, RepetitionIsNotIdle DEF Numbered
  <2> QED
    BY <2>1, <2>2
<1>8. WellTyped'
  <2>1. notifications' \in [Pairs -> Seq(Row)]
    BY <1>2 DEF Tick
  <2> QED
    BY <1>1, <1>4, <1>5, <1>7, <2>1 DEF IInv, WellTyped, TypeOK, tried
<1>9. Histories' /\ Firsts' /\ Fresh'
  BY <1>1, <1>3, <1>4 DEF IInv, Histories, Firsts, Fresh
<1>10. Listed' /\ Repeated'
  BY <1>1, <1>2, <1>3, <1>7 DEF IInv, WellTyped, TypeOK, Listed, Repeated
<1>11. AttemptsAreRecorded'
  <2>1. \A d \in Pairs : InMemory(d)' = InMemory(d)
    BY <1>1, <1>7 DEF InMemory
  <2> QED
    BY <1>1, <1>2, <2>1 DEF IInv, AttemptsAreRecorded, tried
<1> QED
  BY <1>2, <1>3, <1>8, <1>9, <1>10, <1>11 DEF IInv

-----------------------------------------------------------------------------

LEMMA NextKeeps == IInv /\ [Next]_vars => IInv'
<1> SUFFICES ASSUME IInv, [Next]_vars PROVE IInv'
  OBVIOUS
<1>1. ASSUME NEW i \in Incidents, Begin(i) \/ Send(i) \/ RecordFails(i) PROVE IInv'
  BY <1>1, BeginKeeps, SendKeeps, RecordFailsKeeps
<1>2. ASSUME NEW i \in Incidents, Record(i) \/ Rewrite(i) PROVE IInv'
  BY <1>2, StoreKeeps DEF Record, Rewrite
<1>3. CASE Retrying
  BY <1>3, ListRetriesKeeps, RetryKeeps, SaveRetryKeeps DEF Retrying
<1>4. CASE SaveRetryFails \/ Reload \/ Crash \/ Tick
  BY <1>4, SaveRetryFailsKeeps, ReloadKeeps, CrashKeeps, TickKeeps
<1>5. CASE UNCHANGED vars
  <2>1. UNCHANGED <<config, stage, using, cancelled, memory, notifications, retries, retrying,
                    faults, attempts, lost>>
    BY <1>5 DEF vars, firsts, loop, tried
  <2> QED
    BY <2>1 DEF IInv, WellTyped, TypeOK, Histories, Firsts, Fresh, Listed, Repeated,
                AttemptsAreRecorded, InMemory
<1> QED
  BY <1>1, <1>2, <1>3, <1>4, <1>5 DEF Next, Telling

LEMMA AlwaysInvariant == Spec => []IInv
BY InitIsInvariant, NextKeeps, PTL DEF Spec

\* The variables of the notification pipeline stay well-formed.
THEOREM TypeCorrect == Spec => []TypeOK
<1>1. IInv => TypeOK
  BY DEF IInv, WellTyped
<1> QED
  BY <1>1, AlwaysInvariant, PTL

\* Each attempt has exactly one row, is about to be stored, or was lost by a fault
\* (recordAlertNotifications, pendingAlertWrites, retryAlertNotifications).
THEOREM EachAttemptIsRecorded == Spec => []AttemptsAreRecorded
<1>1. IInv => AttemptsAreRecorded
  BY DEF IInv
<1> QED
  BY <1>1, AlwaysInvariant, PTL

LEMMA NumbersFollow == IInv => AttemptsAreNumbered
<1> SUFFICES ASSUME IInv, NEW d \in Pairs
             PROVE  /\ \A k \in DOMAIN notifications[d] :
                          /\ notifications[d][k].number = k
                          /\ k < Len(notifications[d]) =>
                                ~notifications[d][k].success /\ ~notifications[d][k].exhausted
                    /\ \E c \in Configurations : attempts[d] <= c.max + lost[d]
  BY DEF AttemptsAreNumbered
<1> DEFINE rows == notifications[d]
           n == Len(rows)
<1>1. /\ rows \in Seq(Row) /\ n \in Nat /\ History(rows) /\ DOMAIN rows = 1 .. n
      /\ attempts[d] = n + InMemory(d) + lost[d] /\ lost[d] \in Nat
      /\ config \in Configurations
  BY DEF IInv, WellTyped, TypeOK, Histories, AttemptsAreRecorded
<1>2. \A c \in Configurations : c.max \in Nat \ {0}
  BY NotificationAssumption
<1>3. \E c \in Configurations : n + InMemory(d) <= c.max
  <2>1. CASE retrying # Idle /\ retrying.pair = d
    <3>1. Open(rows)
      BY <2>1 DEF IInv, Repeated
    <3>2. stage[d[1]] = "recorded" /\ n > 0
      BY <1>1, <3>1 DEF IInv, Fresh, Open
    <3>3. InMemory(d) = 1
      BY <2>1, <3>2 DEF InMemory
    <3>4. PICK c \in Configurations : n < c.max
      BY <1>1, <3>1, <3>2 DEF Open, History, Numbered, OneOfConfigured
    <3> QED
      BY <1>1, <1>2, <3>3, <3>4
  <2>2. CASE ~(retrying # Idle /\ retrying.pair = d) /\ rows = <<>>
    <3>1. n = 0 /\ InMemory(d) \in 0 .. 1
      BY <2>2 DEF InMemory
    <3> QED
      BY <1>1, <1>2, <3>1
  <2>3. CASE ~(retrying # Idle /\ retrying.pair = d) /\ rows # <<>>
    <3>1. stage[d[1]] = "recorded" /\ n > 0
      BY <1>1, <2>3 DEF IInv, Fresh
    <3>2. InMemory(d) = 0
      BY <2>3, <3>1 DEF InMemory
    <3>3. CASE n = 1
      BY <1>1, <1>2, <3>2, <3>3
    <3>4. CASE n > 1
      <4>1. n - 1 \in DOMAIN rows /\ n - 1 < Len(rows)
        BY <1>1, <3>4
      <4>2. PICK c \in Configurations : n - 1 < c.max
        BY <1>1, <4>1 DEF History, Numbered, OneOfConfigured
      <4>3. n + InMemory(d) = n /\ c.max \in Nat
        BY <1>1, <1>2, <3>2
      <4> HIDE DEF n
      <4>4. n <= c.max
        BY <1>1, <4>2, <4>3
      <4> QED
        BY <4>3, <4>4
    <3>5. n = 1 \/ n > 1
      <4>1. n \in Nat /\ n > 0
        BY <1>1, <3>1
      <4> HIDE DEF n
      <4> QED
        BY <4>1
    <3> QED
      BY <3>3, <3>4, <3>5
  <2> QED
    BY <2>1, <2>2, <2>3
<1>4. \E c \in Configurations : attempts[d] <= c.max + lost[d]
  <2>1. PICK c \in Configurations : n + InMemory(d) <= c.max
    BY <1>3
  <2>2. InMemory(d) \in Nat
    BY DEF InMemory
  <2> QED
    BY <1>1, <1>2, <2>1, <2>2
<1> QED
  BY <1>1, <1>4 DEF History, Numbered

\* The rows of an incident and a provider are one history, and max_attempts holds
\* through reloads and restarts (alertNotification, retryAlertNotifications).
THEOREM HistoriesAreNumbered == Spec => []AttemptsAreNumbered
BY NumbersFollow, AlwaysInvariant, PTL

-----------------------------------------------------------------------------
(* The refinement *)

Phase(d) ==
    IF Told(d) THEN "told" ELSE IF GivenUp(d) THEN "given_up"
    ELSE IF notifications[d] = <<>> THEN "unsent" ELSE "retrying"

phases == [d \in Pairs |-> Phase(d)]

LEMMA PhaseOfEmpty ==
    ASSUME NEW d \in Pairs, notifications[d] = <<>>
    PROVE  Phase(d) = "unsent"
BY DEF Phase, Told, GivenUp

LEMMA PhaseOfOpen ==
    ASSUME NEW d \in Pairs, Open(notifications[d])
    PROVE  Phase(d) = "retrying"
BY DEF Phase, Told, GivenUp, Open

LEMMA PhaseOfSome ==
    ASSUME NEW d \in Pairs, notifications'[d] # <<>>
    PROVE  Phase(d)' \in {"told", "given_up", "retrying"}
BY DEF Phase

LEMMA PhaseStays ==
    ASSUME NEW d \in Pairs, notifications'[d] = notifications[d]
    PROVE  Phase(d)' = Phase(d)
BY DEF Phase, Told, GivenUp

LEMMA StoreIsAttempt ==
    ASSUME IInv, NEW i \in Incidents, stage[i] \in {"sent", "unrecorded"}, Store(i)
    PROVE  \E p \in SUBSET Providers :
              \E outcome \in [p -> {"retrying", "told", "given_up"}] :
                 /\ \A x \in p : phases[<<i, x>>] = "unsent"
                 /\ phases' = [d \in Pairs |->
                                  IF d[1] = i /\ d[2] \in p THEN outcome[d[2]] ELSE phases[d]]
<1> DEFINE p == using[i]
           outcome == [x \in p |-> phases'[<<i, x>>]]
<1>1. p \subseteq Providers /\ \A x \in p : <<i, x>> \in Pairs
  BY DEF IInv, WellTyped, TypeOK, Pairs
<1>2. \A x \in p : phases[<<i, x>>] = "unsent"
  BY <1>1, StoreKeeps, PhaseOfEmpty DEF phases
<1>3. \A x \in p : phases'[<<i, x>>] \in {"told", "given_up", "retrying"}
  BY <1>1, StoreKeeps, PhaseOfSome DEF phases
<1>4. outcome \in [p -> {"retrying", "told", "given_up"}]
  BY <1>3
<1>5. \A d \in Pairs :
        phases'[d] = IF d[1] = i /\ d[2] \in p THEN outcome[d[2]] ELSE phases[d]
  <2> SUFFICES ASSUME NEW d \in Pairs
               PROVE  phases'[d] = IF d[1] = i /\ d[2] \in p THEN outcome[d[2]] ELSE phases[d]
    OBVIOUS
  <2>1. CASE d[1] = i /\ d[2] \in p
    <3>1. d = <<i, d[2]>>
      BY <2>1 DEF Pairs
    <3> QED
      BY <2>1, <3>1
  <2>2. CASE ~(d[1] = i /\ d[2] \in p)
    BY <2>2, StoreKeeps, PhaseStays DEF phases
  <2> QED
    BY <2>1, <2>2
<1>6. phases' = [d \in Pairs |-> IF d[1] = i /\ d[2] \in p THEN outcome[d[2]] ELSE phases[d]]
  BY <1>5 DEF phases
<1>7. p \in SUBSET Providers
  BY <1>1
<1> HIDE DEF p, outcome
<1> QED
  BY <1>2, <1>4, <1>6, <1>7

LEMMA SaveRetryIsSettle ==
    ASSUME IInv, SaveRetry
    PROVE  \/ phases' = phases
           \/ \E i \in Incidents, x \in Providers :
                 /\ phases[<<i, x>>] = "retrying"
                 /\ \E end \in {"told", "given_up"} : phases' = [phases EXCEPT ![<<i, x>>] = end]
<1> DEFINE d == retrying.pair
<1>1. /\ d \in Pairs /\ phases[d] = "retrying"
      /\ phases'[d] \in {"told", "given_up", "retrying"}
  BY SaveRetryKeeps, PhaseOfOpen, PhaseOfSome DEF phases
<1>2. \A e \in Pairs \ {d} : phases'[e] = phases[e]
  BY SaveRetryKeeps, PhaseStays DEF phases
<1>3. PICK i \in Incidents, x \in Providers : d = <<i, x>>
  BY <1>1 DEF Pairs
<1>4. phases' = [phases EXCEPT ![d] = phases'[d]]
  BY <1>1, <1>2 DEF phases
<1>5. phases = [phases EXCEPT ![d] = phases[d]]
  BY <1>1 DEF phases
<1> HIDE DEF d
<1>6. CASE phases'[d] = "retrying"
  BY <1>1, <1>4, <1>5, <1>6
<1>7. CASE phases'[d] \in {"told", "given_up"}
  BY <1>1, <1>3, <1>4, <1>7
<1> QED
  BY <1>1, <1>6, <1>7

LEMMA OtherStepsStutter ==
    ASSUME IInv, [Next]_vars
    PROVE  \/ phases' = phases
           \/ SaveRetry
           \/ \E i \in Incidents : stage[i] \in {"sent", "unrecorded"} /\ Store(i)
<1>1. CASE UNCHANGED notifications
  BY <1>1, PhaseStays DEF phases
<1>2. CASE Tick
  <2>1. \A d \in Pairs : Phase(d)' = Phase(d)
    BY <1>2, TickKeeps DEF Phase, Told, GivenUp
  <2> QED
    BY <2>1 DEF phases
<1> QED
  BY <1>1, <1>2 DEF Next, Telling, Retrying, Begin, Send, Record, RecordFails, Rewrite,
                    ListRetries, Retry, SaveRetryFails, Reload, Crash, vars

\* What the daemon records of telling an incident by a provider is a delivery as
\* AlertDelivery describes it: begun once, repeated, and ended once.
THEOREM DeliveryIsImplemented == Spec => ImplementsDelivery
<1>1. Init => phases = [d \in Incidents \X Providers |-> "unsent"]
  <2>1. Init => \A d \in Pairs : notifications[d] = <<>>
    BY DEF Init
  <2> QED
    BY <2>1, PhaseOfEmpty DEF phases, Pairs
<1>2. Init => Delivery!Init
  BY <1>1 DEF Delivery!Init, phases, Phase, Pairs
<1>3. IInv /\ [Next]_vars => [Delivery!Next]_phases
  <2> SUFFICES ASSUME IInv, [Next]_vars PROVE [Delivery!Next]_phases
    OBVIOUS
  <2>1. CASE phases' = phases
    BY <2>1
  <2>2. CASE SaveRetry
    <3>1. CASE phases' = phases
      BY <3>1
    <3>2. ASSUME NEW i \in Incidents, NEW x \in Providers, NEW end \in {"told", "given_up"},
                 phases[<<i, x>>] = "retrying", phases' = [phases EXCEPT ![<<i, x>>] = end]
          PROVE  Delivery!Next
      <4>1. Delivery!Settle(i, x)
        BY <3>2 DEF Delivery!Settle, Delivery!Settled, phases, Phase
      <4> QED
        BY <4>1 DEF Delivery!Next
    <3> QED
      BY <2>2, <3>1, <3>2, SaveRetryIsSettle
  <2>3. ASSUME NEW i \in Incidents, stage[i] \in {"sent", "unrecorded"}, Store(i)
        PROVE  Delivery!Next
    <3>1. PICK p \in SUBSET Providers :
            \E outcome \in [p -> {"retrying", "told", "given_up"}] :
              /\ \A x \in p : phases[<<i, x>>] = "unsent"
              /\ phases' = [d \in Pairs |->
                               IF d[1] = i /\ d[2] \in p THEN outcome[d[2]] ELSE phases[d]]
      BY <2>3, StoreIsAttempt
    <3>2. PICK outcome \in [p -> {"retrying", "told", "given_up"}] :
            /\ \A x \in p : phases[<<i, x>>] = "unsent"
            /\ phases' = [d \in Pairs |->
                             IF d[1] = i /\ d[2] \in p THEN outcome[d[2]] ELSE phases[d]]
      BY <3>1
    <3>3. outcome \in [p -> {"retrying"} \cup Delivery!Settled]
      BY DEF Delivery!Settled
    <3>4. \E q \in SUBSET Providers :
            \E end \in [q -> {"retrying"} \cup Delivery!Settled] :
              /\ \A x \in q : phases[<<i, x>>] = "unsent"
              /\ phases' = [d \in Incidents \X Providers |->
                               IF d[1] = i /\ d[2] \in q THEN end[d[2]] ELSE phases[d]]
      BY <3>2, <3>3 DEF Pairs
    <3>5. Delivery!Attempt(i)
      BY <3>4 DEF Delivery!Attempt, phases, Phase
    <3> QED
      BY <3>5 DEF Delivery!Next
  <2> QED
    BY <2>1, <2>2, <2>3, OtherStepsStutter
<1> QED
  BY <1>2, <1>3, AlwaysInvariant, PTL DEF Spec, ImplementsDelivery, Delivery!Spec, phases, Phase

\* The status page shows exactly the pairs that were tried and never succeeded: it looks
\* at the newest row only, and that is enough because nothing follows a success
\* (ListActionableAlertDeliveryFailures).
THEOREM StatusPageIsTrue == Spec => []ActionableIsUntold
<1>1. IInv => ActionableIsUntold
  <2> SUFFICES ASSUME IInv, NEW d \in Pairs
               PROVE  (\E k \in DOMAIN notifications[d] : Actionable(notifications[d], k)) <=>
                          /\ notifications[d] # <<>>
                          /\ \A k \in DOMAIN notifications[d] : ~notifications[d][k].success
    BY DEF ActionableIsUntold, ListActionableAlertDeliveryFailures
  <2>1. notifications[d] \in Seq(Row) /\ History(notifications[d])
    BY DEF IInv, WellTyped, TypeOK, Histories
  <2>2. /\ Len(notifications[d]) \in Nat /\ DOMAIN notifications[d] = 1 .. Len(notifications[d])
        /\ notifications[d] # <<>> <=> Len(notifications[d]) \in DOMAIN notifications[d]
    BY <2>1
  <2>3. \A k \in DOMAIN notifications[d] :
           k # Len(notifications[d]) => ~notifications[d][k].success
    BY <2>1, <2>2 DEF History
  <2> QED
    BY <2>2, <2>3 DEF Actionable
<1> QED
  BY <1>1, AlwaysInvariant, PTL

=============================================================================
