------------------------ MODULE PostgresStoreProofs ------------------------
(***************************************************************************)
(* The transactions of PostgresStore do what they would do at once: for    *)
(* any number of saves, backfills, probes and reloads, for any threshold,  *)
(* and from any contents of the tables.                                    *)
(*                                                                         *)
(* Between two statements a transaction relies on what it has read.  The   *)
(* invariant says what that is (Knows): of each row that it has written,   *)
(* or locked to read, the committed value is the one that it saw, and what *)
(* it wrote is what its operation makes of that.  It is kept because       *)
(* no lock is held twice (Exclusive), and because whoever commits changes  *)
(* only what it has locked (Within).  What is read without a lock is what  *)
(* AtOnce makes exceptions for: that there was no row for the state, the   *)
(* open interval, the probes of a backfill, and the alerts of a removal.   *)
(* The rows that are written stay well-formed all the while (Typed).       *)
(***************************************************************************)
EXTENDS PostgresStore, FoldLemmas

(* What a transaction knows of the tables, by the statement it has come to *)

\* The tables have their fields, and those with probes and alerts are well-formed.
Shaped(tab) ==
    /\ tab = [state |-> tab.state, probes |-> tab.probes, intervals |-> tab.intervals,
              backfilled |-> tab.backfilled, alerts |-> tab.alerts, notified |-> tab.notified]
    /\ tab.probes \in Seq(BOOLEAN)
    /\ tab.backfilled \in BOOLEAN
    /\ tab.alerts \in Seq(Alert)

\* So are the other fields.
Typed(tab) ==
    /\ tab.state \in MonitorRow
    /\ tab.intervals \in Seq(Status)
    /\ tab.notified \in Status \cup {NoStatus}

IsTransaction(x) ==
    x = [pc |-> x.pc, op |-> x.op, locks |-> x.locks, read |-> x.read,
         wrote |-> x.wrote, changed |-> x.changed, inserted |-> x.inserted]

\* Of the alerts ids, x has cancelled and locked those that were pending, but for the
\* transition to keep.
CancelledIn(x, tab, ids, keep) ==
    /\ DOMAIN x.changed = {id \in ids : Stale(tab.alerts[id], keep)}
    /\ \A id \in DOMAIN x.changed :
          /\ RowLock(id) \in x.locks
          /\ x.changed[id] = [tab.alerts[id] EXCEPT !.status = "cancelled"]

Untouched(x) == DOMAIN x.wrote = {} /\ DOMAIN x.changed = {} /\ x.inserted = <<>>

RebuiltSince(x, tab) == "rebuilt" \in DOMAIN x.read /\ x.read.rebuilt # tab.backfilled

(* What a save knows of the tables when it has come to a statement. *)

SaveRead(x, tab) ==
    \/ x.read.previous = "UNKNOWN"
    \/ StateLock \in x.locks /\ x.read.previous = StatusOutsideMaintenance(tab.state)

SaveWrote(x) ==
    /\ StateLock \in x.locks
    /\ "state" \in DOMAIN x.wrote /\ x.wrote.state = x.op.next
    /\ DOMAIN x.wrote \subseteq {"state", "intervals", "notified"}

SaveMarker(x, tab) ==
    "rebuilt" \in DOMAIN x.read => /\ x.read.rebuilt \in BOOLEAN
                                   /\ x.read.rebuilt => tab.backfilled

SaveInterval(x, tab) ==
    IF "intervals" \in DOMAIN x.wrote
    THEN /\ IntervalsLock \in x.locks
         /\ x.wrote.intervals = WithInterval(tab.intervals, x.op.next.status)
    ELSE \/ x.op.next.status = "MAINTENANCE"
         \/ /\ "rebuilt" \in DOMAIN x.read
            /\ RebuiltSince(x, tab) \/ WithInterval(tab.intervals, x.op.next.status) = tab.intervals

SaveBaseline(x, tab) ==
    /\ NotifiedLock \in x.locks
    /\ "notified" \in DOMAIN x.wrote
    /\ x.wrote.notified = IF tab.notified = NoStatus THEN x.read.previous ELSE tab.notified

SaveQueued(x) ==
    x.inserted = IF ~x.op.incident \/ x.op.next.status = x.wrote.notified THEN <<>>
                 ELSE <<Queued(x.op.next.status)>>

SaveOp(op) ==
    /\ op.name = "save"
    /\ op.ok \in BOOLEAN
    /\ op.incident \in BOOLEAN
    /\ op.incident => op.next.status \in Transition
    /\ op.next \in MonitorRow /\ op.next.status \in Status

KnownToSave(x, tab) ==
    /\ SaveOp(x.op)
    /\ \/ x.pc = "failed"
       \/ x.pc = "read" /\ Untouched(x)
       \/ x.pc = "write" /\ Untouched(x) /\ SaveRead(x, tab) /\ "rebuilt" \notin DOMAIN x.read
       \/ /\ SaveRead(x, tab) /\ SaveWrote(x) /\ SaveMarker(x, tab)
          /\ \/ /\ x.pc = "open" /\ x.op.next.status # "MAINTENANCE"
                /\ DOMAIN x.wrote = {"state"} /\ DOMAIN x.changed = {} /\ x.inserted = <<>>
             \/ /\ x.pc = "interval" /\ x.op.next.status # "MAINTENANCE"
                /\ DOMAIN x.wrote = {"state"} /\ DOMAIN x.changed = {} /\ x.inserted = <<>>
                /\ "rebuilt" \in DOMAIN x.read
                /\ RebuiltSince(x, tab)
                   \/ WithInterval(tab.intervals, x.op.next.status) = Append(tab.intervals, x.op.next.status)
             \/ /\ SaveInterval(x, tab)
                /\ \/ /\ x.pc = "cancel"
                      /\ "notified" \notin DOMAIN x.wrote
                      /\ DOMAIN x.changed = {} /\ x.inserted = <<>>
                   \/ /\ x.pc = "baseline"
                      /\ "notified" \notin DOMAIN x.wrote
                      /\ x.op.incident /\ x.inserted = <<>>
                      /\ CancelledIn(x, tab, DOMAIN tab.alerts, x.op.next.status)
                   \/ /\ x.pc = "queue"
                      /\ x.op.incident /\ x.inserted = <<>>
                      /\ SaveBaseline(x, tab)
                      /\ CancelledIn(x, tab, DOMAIN tab.alerts, x.op.next.status)
                   \/ /\ x.pc = "commit"
                      /\ SaveQueued(x)
                      /\ IF x.op.incident
                         THEN /\ SaveBaseline(x, tab)
                              /\ CancelledIn(x, tab, DOMAIN tab.alerts, NoIncident)
                         ELSE /\ "notified" \notin DOMAIN x.wrote
                              /\ CancelledIn(x, tab, DOMAIN tab.alerts, x.op.next.status)

KnownToBackfill(x, tab) ==
    /\ x.op.name = "backfill"
    /\ DOMAIN x.changed = {} /\ x.inserted = <<>>
    /\ \/ x.pc = "lock" /\ DOMAIN x.wrote = {} /\ x.locks = {}
       \/ /\ IntervalsLock \in x.locks
          /\ \/ x.pc = "marker" /\ DOMAIN x.wrote = {}
             \/ x.pc = "remove" /\ DOMAIN x.wrote = {} /\ ~tab.backfilled
             \/ x.pc = "rebuild" /\ DOMAIN x.wrote = {"intervals"} /\ ~tab.backfilled
                /\ x.read.removed = Len(tab.intervals)
             \/ x.pc = "commit" /\ DOMAIN x.wrote = {} /\ tab.backfilled
             \/ /\ x.pc = "commit" /\ ~tab.backfilled
                /\ DOMAIN x.wrote = {"intervals", "backfilled"}
                /\ x.wrote.backfilled = TRUE
                /\ x.read.probes \in 0 .. Len(tab.probes)
                /\ x.wrote.intervals = IntervalsOf(SubSeq(tab.probes, 1, x.read.probes))

DeleteWrote(x) ==
    /\ DOMAIN x.wrote \subseteq {"state", "notified"}
    /\ "state" \in DOMAIN x.wrote => StateLock \in x.locks /\ x.wrote.state = NoRow
    /\ "notified" \in DOMAIN x.wrote => NotifiedLock \in x.locks /\ x.wrote.notified = NoStatus

KnownToDelete(x, tab) ==
    /\ x.op.name = "delete"
    /\ x.inserted = <<>>
    /\ \/ x.pc = "cancel" /\ Untouched(x)
       \/ /\ x.pc \in {"notified", "state", "commit"}
          /\ DeleteWrote(x)
          /\ x.read.alerts \subseteq DOMAIN tab.alerts
          /\ CancelledIn(x, tab, x.read.alerts, NoIncident)

Delivered(x, tab) ==
    /\ DOMAIN x.changed = {x.op.alert}
    /\ x.changed[x.op.alert] = [tab.alerts[x.op.alert] EXCEPT !.status = "delivered"]

KnownToRecord(x, tab) ==
    LET row == tab.alerts[x.op.alert]
    IN  /\ x.op.name = "record"
        /\ x.inserted = <<>>
        /\ x.op.alert \in DOMAIN tab.alerts
        /\ \/ x.pc = "read" /\ Untouched(x) /\ x.locks = {}
           \/ x.pc = "commit" /\ Untouched(x)
           \/ /\ row.status = "sending"
              /\ \/ x.pc = "update" /\ Untouched(x) /\ x.locks = {RowLock(x.op.alert)}
                 \/ x.pc = "notified" /\ DOMAIN x.wrote = {} /\ Delivered(x, tab)
                    /\ x.locks = {RowLock(x.op.alert)}
                 \/ x.pc = "commit" /\ Delivered(x, tab)
                    /\ x.locks = {RowLock(x.op.alert), NotifiedLock}
                    /\ DOMAIN x.wrote = {"notified"} /\ x.wrote.notified = row.transition

Knows(t, x, tab) ==
    /\ IsTransaction(x)
    /\ \/ x = Ended
       \/ t \in Saves /\ KnownToSave(x, tab)
       \/ t \in Backfills /\ KnownToBackfill(x, tab)
       \/ t = "delete" /\ KnownToDelete(x, tab)
       \/ t = "record" /\ KnownToRecord(x, tab)

\* No lock is held by two transactions.
Exclusive == \A t, u \in Transactions : t # u => tx[t].locks \cap tx[u].locks = {}

\* One worker at most saves for the monitor, and none while the monitor is removed.
OneWorker ==
    /\ cancelled \subseteq {t \in Saves : tx[t] # Ended}
    /\ \A t, u \in Live : t = u
    /\ tx["delete"] # Ended => Live = {}

StoreInv ==
    /\ Shaped(tables) /\ Typed(tables)
    /\ DOMAIN tx = Transactions
    /\ \A t \in Transactions : Knows(t, tx[t], tables)
    /\ Exclusive
    /\ OneWorker

-----------------------------------------------------------------------------
(* The rows and intervals that operations make *)

\* Counting stays within the bound, and an incident is the status it leads to.
LEMMA EvaluateResult ==
    ASSUME NEW prev \in MonitorRow, NEW ok \in BOOLEAN, NEW limit \in Int
    PROVE  LET e == Evaluate(prev, ok, limit)
           IN  /\ e.status \in Status \ {"MAINTENANCE"}
               /\ e.failures \in 0 .. MaxFailures
               /\ e.incident # NoIncident =>
                     e.incident \in Transition /\ e.status = e.incident
<1>1. Saturated(prev.failures + 1) \in 0 .. MaxFailures
  BY MaxFailuresAssumption DEF MonitorRow, Saturated
<1>2. CASE ok
  BY MaxFailuresAssumption, <1>2 DEF Evaluate, Status, Transition, NoIncident
<1>3. CASE ~ok
  BY <1>1, <1>3 DEF Evaluate, Status, Transition, NoIncident
<1>4. QED
  BY <1>2, <1>3

\* An evaluated probe is a row again, its incident - if there is one - is the
\* status the row ends in, and that status is never MAINTENANCE.
LEMMA EvaluatedRow ==
    ASSUME NEW prev \in MonitorRow, NEW ok \in BOOLEAN, NEW limit \in 1 .. MaxFailures
    PROVE  /\ Evaluated(prev, ok, limit) \in MonitorRow
           /\ Evaluated(prev, ok, limit).status \in Status \ {"MAINTENANCE"}
           /\ LET incident == EvaluateProbe(prev, ok, limit).incident
              IN  incident # NoIncident =>
                      /\ incident \in Transition
                      /\ Evaluated(prev, ok, limit).status = incident
<1> DEFINE from == IF prev.status = "MAINTENANCE" /\ ok /\ prev.before = "DOWN"
                   THEN [prev EXCEPT !.status = "DOWN"] ELSE prev
           n == IF prev.status = "MAINTENANCE" /\ ~ok THEN 1 ELSE limit
<1>1. EvaluateProbe(prev, ok, limit) = Evaluate(from, ok, n)
  BY DEF EvaluateProbe
<1>2. from \in MonitorRow /\ n \in Int
  BY DEF MonitorRow, Status
<1> HIDE DEF from, n
<1>3. /\ EvaluateProbe(prev, ok, limit).status \in Status \ {"MAINTENANCE"}
      /\ EvaluateProbe(prev, ok, limit).failures \in 0 .. MaxFailures
      /\ EvaluateProbe(prev, ok, limit).incident # NoIncident =>
            /\ EvaluateProbe(prev, ok, limit).incident \in Transition
            /\ EvaluateProbe(prev, ok, limit).status
                   = EvaluateProbe(prev, ok, limit).incident
  BY <1>1, <1>2, EvaluateResult
<1>4. QED
  BY <1>3 DEF Evaluated, MonitorRow, NoStatus

\* A probe inside a window leaves a row that is in maintenance.
LEMMA MaintenanceRow ==
    ASSUME NEW prev \in MonitorRow
    PROVE  /\ MaintenanceState(prev) \in MonitorRow
           /\ MaintenanceState(prev).status = "MAINTENANCE"
BY MaxFailuresAssumption DEF MaintenanceState, MonitorRow, Status

\* A monitor without a row is evaluated as one.
LEMMA PreviousRow ==
    ASSUME NEW prev \in MonitorRow
    PROVE  Previous(prev) \in MonitorRow
BY MaxFailuresAssumption DEF Previous, MonitorRow, Exists, Status

\* The status before an incident is one that a monitor can have.
LEMMA StatusOfRow ==
    ASSUME NEW from \in MonitorRow
    PROVE  StatusOutsideMaintenance(from) \in Status
BY DEF StatusOutsideMaintenance, MonitorRow, Exists, Status

ProbeRun == [ok : BOOLEAN, count : Nat]

\* One probe more leaves runs.
LEMMA ExtendRunsType ==
    ASSUME NEW runs \in Seq(ProbeRun), NEW ok \in BOOLEAN
    PROVE  ExtendRuns(runs, ok) \in Seq(ProbeRun)
<1> DEFINE n == Len(runs)
<1>2. CASE runs # <<>> /\ Last(runs).ok = ok
  <2>1. n \in DOMAIN runs /\ runs[n] \in ProbeRun
    BY <1>2
  <2>2. [runs[n] EXCEPT !.count = runs[n].count + 1] \in ProbeRun
    BY <2>1 DEF ProbeRun
  <2>3. ExtendRuns(runs, ok) = [runs EXCEPT ![n] = [runs[n] EXCEPT !.count = runs[n].count + 1]]
    BY <1>2 DEF ExtendRuns
  <2> QED
    BY <2>1, <2>2, <2>3
<1>3. CASE ~(runs # <<>> /\ Last(runs).ok = ok)
  <2>1. [ok |-> ok, count |-> 1] \in ProbeRun
    BY DEF ProbeRun
  <2>2. ExtendRuns(runs, ok) = Append(runs, [ok |-> ok, count |-> 1])
    BY <1>3, Zenon DEF ExtendRuns
  <2> QED
    BY <2>1, <2>2
<1> QED
  BY <1>2, <1>3

\* The runs of some probes are runs.
LEMMA RunsType ==
    ASSUME NEW seq \in Seq(BOOLEAN)
    PROVE  FoldLeft(ExtendRuns, <<>>, seq) \in Seq(ProbeRun)
<1>1. PICK n \in Nat : n = Len(seq) /\ DOMAIN seq = 1 .. n /\ \A k \in 1 .. n : seq[k] \in BOOLEAN
  OBVIOUS
<1> DEFINE Runs == Seq(ProbeRun)
           step == [p \in Runs \X BOOLEAN |-> ExtendRuns(p[1], p[2])]
           Folds(h) == \A s \in SUBSET (1 .. n) :
                   h[s] = IF s = {} THEN <<>> ELSE ExtendRuns(h[s \ {Max(s)}], seq[Max(s)])
           f == CHOOSE h : h = [s \in SUBSET DOMAIN seq |->
                   IF s = {} THEN <<>> ELSE ExtendRuns(h[s \ {Max(s)}], seq[Max(s)])]
<1>2. FoldLeft(ExtendRuns, <<>>, seq) = f[1 .. n]
  BY <1>1 DEF FoldLeft, MapThenFoldSet
<1>3. PICK h \in [SUBSET (1 .. n) -> Runs] : Folds(h)
  <2>1. \A a \in Runs, b \in BOOLEAN : step[<<a, b>>] = ExtendRuns(a, b)
    OBVIOUS
  <2>2. IsStep(step, Runs, BOOLEAN)
    BY <2>1, ExtendRunsType DEF IsStep
  <2>3. <<>> \in Runs
    OBVIOUS
  <2>4. ElementsIn(seq, n, BOOLEAN)
    BY <1>1 DEF ElementsIn
  <2> HIDE DEF step, Runs
  <2>5. \E h \in [SUBSET (1 .. n) -> Runs] : IsFold(h, step, <<>>, seq, n)
    <3>1. PICK none \in Runs : none = <<>>
      BY <2>3
    <3>2. \E h \in [SUBSET (1 .. n) -> Runs] : IsFold(h, step, none, seq, n)
      BY <2>2, <2>4, FoldExists, Zenon
    <3> QED
      BY <3>1, <3>2
  <2>6. PICK h \in [SUBSET (1 .. n) -> Runs] : IsFold(h, step, <<>>, seq, n)
    BY <2>5
  <2>7. ASSUME NEW s \in SUBSET (1 .. n), s # {}
        PROVE  h[s] = ExtendRuns(h[s \ {Max(s)}], seq[Max(s)])
    <3>1. Max(s) \in s
      BY <1>1, <2>7, MaxOfPlaces
    <3>2. h[s \ {Max(s)}] \in Runs /\ seq[Max(s)] \in BOOLEAN
      BY <2>4, <3>1 DEF ElementsIn
    <3>3. h[s] = step[<<h[s \ {Max(s)}], seq[Max(s)]>>]
      BY <2>6, <2>7 DEF IsFold
    <3> QED
      BY <2>1, <3>2, <3>3
  <2>8. h[{}] = <<>>
    BY <2>6 DEF IsFold
  <2> QED
    BY <2>6, <2>7, <2>8
<1>4. Folds(f)
  <2>1. h = [s \in SUBSET DOMAIN seq |->
              IF s = {} THEN <<>> ELSE ExtendRuns(h[s \ {Max(s)}], seq[Max(s)])]
    BY <1>1, <1>3
  <2>2. f = [s \in SUBSET DOMAIN seq |->
              IF s = {} THEN <<>> ELSE ExtendRuns(f[s \ {Max(s)}], seq[Max(s)])]
    BY <2>1, Zenon
  <2> HIDE DEF f
  <2> QED
    BY <1>1, <2>2
<1> HIDE DEF f
<1>5. f[1 .. 0] = h[1 .. 0]
  <2>1. 1 .. 0 = {} /\ {} \in SUBSET (1 .. n)
    OBVIOUS
  <2> QED
    BY <1>3, <1>4, <2>1
<1>6. ASSUME NEW k \in 1 .. n, f[1 .. k - 1] = h[1 .. k - 1]
      PROVE  f[1 .. k] = h[1 .. k]
  <2>1. /\ 1 .. k \in SUBSET (1 .. n) /\ 1 .. k # {}
        /\ Max(1 .. k) = k /\ (1 .. k) \ {k} = 1 .. k - 1
    BY <1>1, Prefix
  <2>2. f[1 .. k] = ExtendRuns(f[1 .. k - 1], seq[k])
    BY <1>4, <2>1
  <2>3. h[1 .. k] = ExtendRuns(h[1 .. k - 1], seq[k])
    BY <1>3, <2>1
  <2> QED
    BY <1>6, <2>2, <2>3
<1>7. f[1 .. n] = h[1 .. n]
  <2>1. StepTogether(f, h, n)
    BY <1>5, <1>6 DEF StepTogether
  <2> QED
    BY <1>1, <2>1, FoldsAgree, Zenon
<1> QED
  BY <1>2, <1>3, <1>7

\* A backfill computes intervals.
LEMMA IntervalsOfType ==
    ASSUME NEW seq \in Seq(BOOLEAN)
    PROVE  IntervalsOf(seq) \in Seq(Status)
<1>1. PICK runs : runs = FoldLeft(ExtendRuns, <<>>, seq)
  OBVIOUS
<1>2. runs \in Seq(ProbeRun)
  BY <1>1, RunsType
<1>3. PICK n \in Nat : DOMAIN runs = 1 .. n
  BY <1>2
<1>4. IntervalsOf(seq) = [i \in DOMAIN runs |->
            IF runs[i].ok THEN "UP" ELSE IF runs[i].count >= Threshold THEN "DOWN" ELSE "FAILING"]
  BY <1>1, Zenon DEF IntervalsOf
<1>5. IntervalsOf(seq) \in [1 .. n -> Status]
  BY <1>3, <1>4 DEF Status
<1> QED
  BY <1>5

\* So does a save.
LEMMA WithIntervalType ==
    ASSUME NEW intervals \in Seq(Status), NEW status \in Status
    PROVE  WithInterval(intervals, status) \in Seq(Status)
BY DEF WithInterval

\* The missing row is represented by a row.
LEMMA NoRowIsRow == NoRow \in MonitorRow
BY MaxFailuresAssumption DEF NoRow, MonitorRow, NoStatus

-----------------------------------------------------------------------------
(* What others may do to the tables *)

\* The saves, backfills, the removal and the record are different transactions.
LEMMA KindsDiffer ==
    /\ \A t \in Saves : t \notin Backfills /\ t # "delete" /\ t # "record"
    /\ \A t \in Backfills : t # "delete" /\ t # "record"
    /\ Saves \subseteq Transactions /\ Backfills \subseteq Transactions
    /\ "delete" \in Transactions /\ "record" \in Transactions
BY PostgresStoreAssumption DEF Transactions

\* A change of the tables by somebody who holds locks: what is locked by others stays as
\* it is, alerts are only added by those who hold the row of the state, and never wait
\* again, and the intervals change with that row or with a backfill.
Within(locks, tab, new) ==
    /\ StateLock \notin locks => new.state = tab.state
    /\ NotifiedLock \notin locks => new.notified = tab.notified
    /\ IntervalsLock \notin locks =>
          new.intervals = tab.intervals /\ new.backfilled = tab.backfilled
    /\ StateLock \notin locks => new.intervals = tab.intervals \/ new.backfilled # tab.backfilled
    /\ tab.backfilled => new.backfilled
    /\ DOMAIN tab.alerts \subseteq DOMAIN new.alerts
    /\ StateLock \notin locks => DOMAIN new.alerts = DOMAIN tab.alerts
    /\ \A id \in DOMAIN tab.alerts :
          \/ new.alerts[id] = tab.alerts[id]
          \/ RowLock(id) \in locks /\ new.alerts[id].status # "pending"
    /\ \A n \in 0 .. Len(tab.probes) :
          n \in 0 .. Len(new.probes) /\ SubSeq(new.probes, 1, n) = SubSeq(tab.probes, 1, n)

\* The locks are of different things.
LEMMA LocksDiffer ==
    /\ StateLock # NotifiedLock /\ StateLock # IntervalsLock /\ NotifiedLock # IntervalsLock
    /\ \A id : RowLock(id) \notin {StateLock, NotifiedLock, IntervalsLock}
    /\ \A i, j : RowLock(i) = RowLock(j) => i = j
BY DEF StateLock, NotifiedLock, IntervalsLock, TableLock, RowLock

\* Alerts that x has cancelled stay as they were.
LEMMA CancelledInStays ==
    ASSUME NEW x, NEW tab, NEW new, NEW locks, NEW ids, NEW more, NEW keep,
           Within(locks, tab, new), x.locks \cap locks = {},
           ids \subseteq DOMAIN tab.alerts,
           CancelledIn(x, tab, ids, keep)
    PROVE  CancelledIn(x, new, ids, keep)
<1>1. ASSUME NEW id \in DOMAIN x.changed
      PROVE  id \in ids /\ new.alerts[id] = tab.alerts[id]
  BY <1>1 DEF CancelledIn, Within
<1>2. ASSUME NEW id \in ids, Stale(new.alerts[id], keep)
      PROVE  Stale(tab.alerts[id], keep)
  BY <1>2 DEF Within, Stale
<1>3. DOMAIN x.changed = {id \in ids : Stale(new.alerts[id], keep)}
  BY <1>1, <1>2 DEF CancelledIn
<1> QED
  BY <1>1, <1>3 DEF CancelledIn

\* What a save knows of the state, the baseline and the intervals stays true.
LEMMA SaveStays ==
    ASSUME NEW x, NEW tab, NEW new, NEW locks,
           Within(locks, tab, new), x.locks \cap locks = {},
           tab.backfilled \in BOOLEAN, new.backfilled \in BOOLEAN
    PROVE  /\ SaveRead(x, tab) => SaveRead(x, new)
           /\ SaveMarker(x, tab) => SaveMarker(x, new)
           /\ SaveBaseline(x, tab) => SaveBaseline(x, new)
           /\ SaveMarker(x, tab) /\ RebuiltSince(x, tab) => RebuiltSince(x, new)
           /\ StateLock \in x.locks => \/ new.intervals = tab.intervals
                                       \/ new.backfilled # tab.backfilled
           /\ StateLock \in x.locks => DOMAIN new.alerts = DOMAIN tab.alerts
<1>1. SaveRead(x, tab) => SaveRead(x, new)
  BY DEF SaveRead, Within
<1>2. SaveMarker(x, tab) => SaveMarker(x, new)
  BY DEF SaveMarker, Within
<1>3. SaveBaseline(x, tab) => SaveBaseline(x, new)
  BY DEF SaveBaseline, Within
<1>4. SaveMarker(x, tab) /\ RebuiltSince(x, tab) => RebuiltSince(x, new)
  BY DEF SaveMarker, RebuiltSince, Within
<1>5. StateLock \in x.locks => \/ new.intervals = tab.intervals
                               \/ new.backfilled # tab.backfilled
  BY DEF Within
<1>6. StateLock \in x.locks => DOMAIN new.alerts = DOMAIN tab.alerts
  BY DEF Within
<1> QED
  BY <1>1, <1>2, <1>3, <1>4, <1>5, <1>6

\* A backfill after the open interval was looked up shows.
LEMMA RebuildShows ==
    ASSUME NEW x, NEW tab, NEW new, NEW locks,
           Within(locks, tab, new), x.locks \cap locks = {},
           tab.backfilled \in BOOLEAN, new.backfilled \in BOOLEAN,
           StateLock \in x.locks, SaveMarker(x, tab)
    PROVE  RebuiltSince(x, new) \/ new.intervals = tab.intervals \/ "rebuilt" \notin DOMAIN x.read
BY SaveStays DEF SaveMarker, RebuiltSince, Within

\* What a save has made of the intervals stays what it has to make of them.
LEMMA SaveIntervalStays ==
    ASSUME NEW x, NEW tab, NEW new, NEW locks,
           Within(locks, tab, new), x.locks \cap locks = {},
           tab.backfilled \in BOOLEAN, new.backfilled \in BOOLEAN,
           StateLock \in x.locks, SaveMarker(x, tab), SaveInterval(x, tab)
    PROVE  SaveInterval(x, new)
<1>1. CASE "intervals" \in DOMAIN x.wrote
  <2>1. new.intervals = tab.intervals
    BY <1>1 DEF SaveInterval, Within
  <2> QED
    BY <1>1, <2>1 DEF SaveInterval
<1>2. CASE "intervals" \notin DOMAIN x.wrote /\ x.op.next.status = "MAINTENANCE"
  BY <1>2 DEF SaveInterval
<1>3. CASE "intervals" \notin DOMAIN x.wrote /\ "rebuilt" \in DOMAIN x.read
  <2>1. RebuiltSince(x, new) \/ new.intervals = tab.intervals
    BY <1>3, RebuildShows
  <2>2. RebuiltSince(x, tab) => RebuiltSince(x, new)
    BY SaveStays
  <2>3. \/ RebuiltSince(x, new) \/ WithInterval(new.intervals, x.op.next.status) = new.intervals
        \/ x.op.next.status = "MAINTENANCE"
    BY <1>3, <2>1, <2>2 DEF SaveInterval
  <2> QED
    BY <1>3, <2>3 DEF SaveInterval
<1> QED
  BY <1>1, <1>2, <1>3 DEF SaveInterval

\* Others do not change what a save has read or is going to write.
LEMMA KnownToSaveStays ==
    ASSUME NEW x, NEW tab, NEW new, NEW locks,
           Within(locks, tab, new), x.locks \cap locks = {},
           tab.backfilled \in BOOLEAN, new.backfilled \in BOOLEAN,
           KnownToSave(x, tab)
    PROVE  KnownToSave(x, new)
<1>1. CASE x.pc \in {"failed", "read"}
  BY <1>1 DEF KnownToSave
<1>2. CASE x.pc = "write"
  BY <1>2, SaveStays DEF KnownToSave
<1>3. ASSUME x.pc \notin {"failed", "read", "write"}
      PROVE  /\ SaveOp(x.op)
             /\ SaveRead(x, new) /\ SaveWrote(x) /\ SaveMarker(x, new)
             /\ SaveMarker(x, tab)
             /\ StateLock \in x.locks
             /\ DOMAIN new.alerts = DOMAIN tab.alerts
  BY <1>3, SaveStays DEF KnownToSave, SaveWrote
<1>4. CASE x.pc = "open"
  BY <1>3, <1>4 DEF KnownToSave
<1>5. CASE x.pc = "interval"
  <2>1. RebuiltSince(x, new) \/ new.intervals = tab.intervals
    BY <1>3, <1>5, RebuildShows DEF KnownToSave
  <2>2. RebuiltSince(x, tab) => RebuiltSince(x, new)
    BY <1>3, <1>5, SaveStays
  <2> QED
    BY <1>3, <1>5, <2>1, <2>2 DEF KnownToSave
<1>6. ASSUME x.pc \in {"cancel", "baseline", "queue", "commit"}
      PROVE  SaveInterval(x, new)
  <2>1. SaveInterval(x, tab)
    BY <1>6 DEF KnownToSave
  <2> QED
    BY <1>3, <1>6, <2>1, SaveIntervalStays
<1>7. ASSUME NEW keep, CancelledIn(x, tab, DOMAIN tab.alerts, keep), StateLock \in x.locks
      PROVE  CancelledIn(x, new, DOMAIN new.alerts, keep)
  <2>1. CancelledIn(x, new, DOMAIN tab.alerts, keep)
    BY <1>7, CancelledInStays
  <2> QED
    BY <1>7, <2>1, SaveStays
<1>8. CASE x.pc = "cancel"
  BY <1>3, <1>6, <1>8 DEF KnownToSave
<1>9. CASE x.pc = "baseline"
  BY <1>3, <1>6, <1>7, <1>9 DEF KnownToSave
<1>10. CASE x.pc = "queue"
  BY <1>3, <1>6, <1>7, <1>10, SaveStays DEF KnownToSave
<1>11. CASE x.pc = "commit"
  BY <1>3, <1>6, <1>7, <1>11, SaveStays DEF KnownToSave
<1> QED
  BY <1>1, <1>2, <1>4, <1>5, <1>8, <1>9, <1>10, <1>11 DEF KnownToSave

\* Probes may be added while a backfill is under way; those that it read stay.
LEMMA KnownToBackfillStays ==
    ASSUME NEW x, NEW tab, NEW new, NEW locks,
           Within(locks, tab, new), x.locks \cap locks = {},
           tab.backfilled \in BOOLEAN, new.backfilled \in BOOLEAN,
           KnownToBackfill(x, tab)
    PROVE  KnownToBackfill(x, new)
<1>1. CASE x.pc = "lock"
  BY <1>1 DEF KnownToBackfill
<1>2. ASSUME x.pc # "lock"
      PROVE  /\ IntervalsLock \in x.locks
             /\ new.intervals = tab.intervals
             /\ new.backfilled = tab.backfilled
  BY <1>2 DEF KnownToBackfill, Within
<1>3. CASE x.pc \in {"marker", "remove", "rebuild"}
  BY <1>2, <1>3 DEF KnownToBackfill
<1>4. CASE x.pc = "commit" /\ tab.backfilled
  BY <1>2, <1>4 DEF KnownToBackfill
<1>5. CASE x.pc = "commit" /\ ~tab.backfilled
  <2>1. /\ x.read.probes \in 0 .. Len(tab.probes)
        /\ x.wrote.intervals = IntervalsOf(SubSeq(tab.probes, 1, x.read.probes))
    BY <1>5 DEF KnownToBackfill
  <2>2. /\ x.read.probes \in 0 .. Len(new.probes)
        /\ SubSeq(new.probes, 1, x.read.probes) = SubSeq(tab.probes, 1, x.read.probes)
    BY <2>1 DEF Within
  <2>3. x.wrote.intervals = IntervalsOf(SubSeq(new.probes, 1, x.read.probes))
    BY <2>1, <2>2
  <2> QED
    BY <1>2, <1>5, <2>2, <2>3 DEF KnownToBackfill
<1> QED
  BY <1>1, <1>3, <1>4, <1>5 DEF KnownToBackfill

\* Alerts may be added while a monitor is removed; those that it cancelled stay.
LEMMA KnownToDeleteStays ==
    ASSUME NEW x, NEW tab, NEW new, NEW locks,
           Within(locks, tab, new), x.locks \cap locks = {},
           KnownToDelete(x, tab)
    PROVE  KnownToDelete(x, new)
<1>1. CASE x.pc = "cancel"
  BY <1>1 DEF KnownToDelete
<1>2. CASE x.pc # "cancel"
  <2>1. x.read.alerts \subseteq DOMAIN tab.alerts /\ CancelledIn(x, tab, x.read.alerts, NoIncident)
    BY <1>2 DEF KnownToDelete
  <2>2. x.read.alerts \subseteq DOMAIN new.alerts
    BY <2>1 DEF Within
  <2>3. CancelledIn(x, new, x.read.alerts, NoIncident)
    BY <2>1, CancelledInStays
  <2> QED
    BY <1>2, <2>2, <2>3 DEF KnownToDelete
<1> QED
  BY <1>1, <1>2

\* The alert that is being recorded is not changed by others.
LEMMA KnownToRecordStays ==
    ASSUME NEW x, NEW tab, NEW new, NEW locks,
           Within(locks, tab, new), x.locks \cap locks = {},
           KnownToRecord(x, tab)
    PROVE  KnownToRecord(x, new)
<1>1. x.op.alert \in DOMAIN tab.alerts /\ x.op.alert \in DOMAIN new.alerts
  BY DEF KnownToRecord, Within
<1>2. CASE Untouched(x) /\ x.pc \in {"read", "commit"}
  BY <1>1, <1>2 DEF KnownToRecord
<1>3. CASE ~(Untouched(x) /\ x.pc \in {"read", "commit"})
  <2>1. RowLock(x.op.alert) \in x.locks
    BY <1>3 DEF KnownToRecord
  <2>2. new.alerts[x.op.alert] = tab.alerts[x.op.alert]
    BY <1>1, <2>1 DEF Within
  <2> QED
    BY <1>1, <1>3, <2>2 DEF KnownToRecord, Delivered
<1> QED
  BY <1>2, <1>3

\* What a transaction knows of the tables is not changed by those who respect its locks.
LEMMA KnowsStays ==
    ASSUME NEW t, NEW x, NEW tab, NEW new, NEW locks,
           Within(locks, tab, new), x.locks \cap locks = {},
           tab.backfilled \in BOOLEAN, new.backfilled \in BOOLEAN,
           Knows(t, x, tab)
    PROVE  Knows(t, x, new)
BY KnownToSaveStays, KnownToBackfillStays, KnownToDeleteStays, KnownToRecordStays DEF Knows

-----------------------------------------------------------------------------
(* Claims and commits change the tables within locks *)

\* A claim changes the row of one alert.
LEMMA ClaimIsWithin ==
    ASSUME NEW id \in DOMAIN tables.alerts, Claim(id), Shaped(tables)
    PROVE  Shaped(tables') /\ Within({RowLock(id)}, tables, tables')
<1>1. tables' = [tables EXCEPT !.alerts[id].status = "sending"]
  BY DEF Claim
<1>2. tables.alerts \in Seq(Alert) /\ id \in 1 .. Len(tables.alerts)
  BY DEF Shaped
<1>3. DEFINE row == [tables.alerts[id] EXCEPT !.status = "sending"]
             rows == [tables.alerts EXCEPT ![id] = row]
<1>4. row \in Alert
  <2>1. tables.alerts[id] \in Alert
    BY <1>2
  <2> QED
    BY <2>1 DEF Alert
<1>5. rows \in Seq(Alert) /\ DOMAIN rows = DOMAIN tables.alerts
  BY <1>2, <1>4
<1>6. tables' = [state |-> tables.state, probes |-> tables.probes, intervals |-> tables.intervals,
                 backfilled |-> tables.backfilled, alerts |-> rows, notified |-> tables.notified]
  BY <1>1 DEF Shaped
<1>7. Shaped(tables')
  BY <1>5, <1>6 DEF Shaped
<1>8. \A i \in DOMAIN tables.alerts :
          \/ rows[i] = tables.alerts[i]
          \/ i = id /\ rows[i].status # "pending"
  BY <1>2 DEF Alert
<1>9. Within({RowLock(id)}, tables, tables')
  BY <1>5, <1>6, <1>8, LocksDiffer DEF Within, Shaped
<1> QED
  BY <1>7, <1>9

\* What is committed, field by field.
LEMMA CommittedFields ==
    ASSUME NEW t \in Transactions, Shaped(tables), IsTransaction(tx[t])
    PROVE  Committed(t) = [state |-> View(t, "state"), probes |-> View(t, "probes"),
                           intervals |-> View(t, "intervals"),
                           backfilled |-> View(t, "backfilled"),
                           alerts |-> AlertView(t) \o tx[t].inserted,
                           notified |-> View(t, "notified")]
<1>1. DOMAIN tables = {"state", "probes", "intervals", "backfilled", "alerts", "notified"}
  BY DEF Shaped
<1>2. DEFINE alerts == AlertView(t) \o tx[t].inserted
<1>3. Committed(t) = [f \in DOMAIN tables |-> IF f = "alerts" THEN alerts ELSE View(t, f)]
  BY Zenon DEF Committed
<1>4. HIDE DEF alerts
<1>5. Committed(t) = [state |-> View(t, "state"), probes |-> View(t, "probes"),
                      intervals |-> View(t, "intervals"),
                      backfilled |-> View(t, "backfilled"),
                      alerts |-> alerts, notified |-> View(t, "notified")]
  BY <1>1, <1>3, SMT
<1> QED
  BY <1>5 DEF alerts

\* The alerts as a transaction sees them are those of the table, but for its changes.
LEMMA AlertViewIsSeq ==
    ASSUME NEW t \in Transactions, tables.alerts \in Seq(Alert),
           \A id \in DOMAIN tx[t].changed \cap DOMAIN tables.alerts : tx[t].changed[id] \in Alert
    PROVE  /\ AlertView(t) \in Seq(Alert)
           /\ DOMAIN AlertView(t) = DOMAIN tables.alerts
           /\ \A id \in DOMAIN tables.alerts :
                 AlertView(t)[id] = IF id \in DOMAIN tx[t].changed THEN tx[t].changed[id]
                                    ELSE tables.alerts[id]
<1>1. AlertView(t) \in [1 .. Len(tables.alerts) -> Alert]
  BY DEF AlertView
<1>2. Len(tables.alerts) \in Nat
  OBVIOUS
<1>3. AlertView(t) \in Seq(Alert)
  BY <1>1, <1>2
<1> QED
  BY <1>3 DEF AlertView

\* A row that was cancelled is a row.
LEMMA CancelledInRows ==
    ASSUME NEW x, NEW tab, NEW ids, NEW keep, tab.alerts \in Seq(Alert),
           ids \subseteq DOMAIN tab.alerts, CancelledIn(x, tab, ids, keep)
    PROVE  /\ DOMAIN x.changed \subseteq DOMAIN tab.alerts
           /\ \A id \in DOMAIN x.changed :
                 /\ RowLock(id) \in x.locks
                 /\ x.changed[id] \in Alert
                 /\ x.changed[id].status = "cancelled"
                 /\ x.changed[id].transition = tab.alerts[id].transition
<1>1. DOMAIN x.changed \subseteq DOMAIN tab.alerts
  BY DEF CancelledIn
<1>2. ASSUME NEW id \in DOMAIN x.changed
      PROVE  /\ x.changed[id] \in Alert
             /\ x.changed[id].status = "cancelled"
             /\ x.changed[id].transition = tab.alerts[id].transition
  <2>1. tab.alerts[id] \in Alert
    BY <1>1, <1>2
  <2>2. x.changed[id] = [tab.alerts[id] EXCEPT !.status = "cancelled"]
    BY <1>2 DEF CancelledIn
  <2> QED
    BY <2>1, <2>2 DEF Alert
<1> QED
  BY <1>1, <1>2 DEF CancelledIn

\* What a save commits.
LEMMA SaveCommits ==
    ASSUME NEW t \in Saves, Shaped(tables), IsTransaction(tx[t]), KnownToSave(tx[t], tables),
           Commit(t)
    PROVE  /\ AlertView(t) \in Seq(Alert)
           /\ DOMAIN AlertView(t) = DOMAIN tables.alerts
           /\ \A id \in DOMAIN tables.alerts :
                 AlertView(t)[id] = IF id \in DOMAIN tx[t].changed THEN tx[t].changed[id]
                                    ELSE tables.alerts[id]
           /\ tx[t].inserted \in Seq(Alert)
           /\ tables' = [state |-> tx[t].op.next,
                         probes |-> WithProbe(tables.probes, tx[t].op),
                         intervals |-> View(t, "intervals"),
                         backfilled |-> tables.backfilled,
                         alerts |-> AlertView(t) \o tx[t].inserted,
                         notified |-> View(t, "notified")]
<1> t \in Transactions
  BY DEF Transactions
<1>1. tx[t].pc = "commit"
  BY DEF Commit
<1>2. SaveWrote(tx[t]) /\ SaveOp(tx[t].op) /\ SaveQueued(tx[t])
  BY <1>1 DEF KnownToSave
<1>3. \E keep : CancelledIn(tx[t], tables, DOMAIN tables.alerts, keep)
  BY <1>1 DEF KnownToSave
<1>4. tables.alerts \in Seq(Alert)
  BY DEF Shaped
<1>5. \A id \in DOMAIN tx[t].changed : tx[t].changed[id] \in Alert
  BY <1>3, <1>4, CancelledInRows
<1>6. /\ AlertView(t) \in Seq(Alert)
      /\ DOMAIN AlertView(t) = DOMAIN tables.alerts
      /\ \A id \in DOMAIN tables.alerts :
            AlertView(t)[id] = IF id \in DOMAIN tx[t].changed THEN tx[t].changed[id]
                               ELSE tables.alerts[id]
  BY <1>4, <1>5, AlertViewIsSeq
<1>7. tx[t].inserted \in Seq(Alert)
  <2>1. tx[t].op.incident => Queued(tx[t].op.next.status) \in Alert
    BY <1>2 DEF SaveOp, Queued, Alert
  <2>2. \/ tx[t].inserted = <<>>
        \/ tx[t].op.incident /\ tx[t].inserted = <<Queued(tx[t].op.next.status)>>
    BY <1>2 DEF SaveQueued, SaveOp
  <2>3. \A alert \in Alert : <<alert>> \in Seq(Alert)
    OBVIOUS
  <2>4. <<>> \in Seq(Alert)
    OBVIOUS
  <2> QED
    BY <2>1, <2>2, <2>3, <2>4, Zenon
<1>8. /\ View(t, "state") = tx[t].op.next
      /\ View(t, "probes") = tables.probes
      /\ View(t, "backfilled") = tables.backfilled
  BY <1>2 DEF View, SaveWrote
<1>9. tables' = [Committed(t) EXCEPT !.probes = WithProbe(@, tx[t].op)]
  BY DEF Commit
<1>10. Committed(t) = [state |-> View(t, "state"), probes |-> View(t, "probes"),
                       intervals |-> View(t, "intervals"),
                       backfilled |-> View(t, "backfilled"),
                       alerts |-> AlertView(t) \o tx[t].inserted,
                       notified |-> View(t, "notified")]
  BY CommittedFields
<1>11. tables' = [state |-> tx[t].op.next,
                  probes |-> WithProbe(tables.probes, tx[t].op),
                  intervals |-> View(t, "intervals"),
                  backfilled |-> tables.backfilled,
                  alerts |-> AlertView(t) \o tx[t].inserted,
                  notified |-> View(t, "notified")]
  <2>1. PICK alerts \in {AlertView(t) \o tx[t].inserted} : TRUE
    OBVIOUS
  <2>2. PICK with \in {WithProbe(tables.probes, tx[t].op)} : TRUE
    OBVIOUS
  <2>3. Committed(t) = [state |-> tx[t].op.next, probes |-> tables.probes,
                        intervals |-> View(t, "intervals"), backfilled |-> tables.backfilled,
                        alerts |-> alerts, notified |-> View(t, "notified")]
    BY <1>8, <1>10, <2>1
  <2>4. tables' = [Committed(t) EXCEPT !.probes = with]
    BY <1>9, <2>2, <2>3
  <2>5. tables' = [state |-> tx[t].op.next, probes |-> with,
                   intervals |-> View(t, "intervals"), backfilled |-> tables.backfilled,
                   alerts |-> alerts, notified |-> View(t, "notified")]
    BY <2>3, <2>4
  <2> QED
    BY <2>1, <2>2, <2>5, Zenon
<1> QED
  BY <1>6, <1>7, <1>11

\* What any other transaction commits.
LEMMA OtherCommits ==
    ASSUME NEW t \in Transactions \ Saves, Shaped(tables), IsTransaction(tx[t]), Commit(t),
           tx[t].inserted = <<>>,
           \A id \in DOMAIN tx[t].changed \cap DOMAIN tables.alerts : tx[t].changed[id] \in Alert
    PROVE  /\ AlertView(t) \in Seq(Alert)
           /\ DOMAIN AlertView(t) = DOMAIN tables.alerts
           /\ \A id \in DOMAIN tables.alerts :
                 AlertView(t)[id] = IF id \in DOMAIN tx[t].changed THEN tx[t].changed[id]
                                    ELSE tables.alerts[id]
           /\ tables' = [state |-> View(t, "state"), probes |-> View(t, "probes"),
                         intervals |-> View(t, "intervals"),
                         backfilled |-> View(t, "backfilled"),
                         alerts |-> AlertView(t), notified |-> View(t, "notified")]
<1>1. tables.alerts \in Seq(Alert)
  BY DEF Shaped
<1>2. /\ AlertView(t) \in Seq(Alert)
      /\ DOMAIN AlertView(t) = DOMAIN tables.alerts
      /\ \A id \in DOMAIN tables.alerts :
            AlertView(t)[id] = IF id \in DOMAIN tx[t].changed THEN tx[t].changed[id]
                               ELSE tables.alerts[id]
  BY <1>1, AlertViewIsSeq
<1>3. AlertView(t) \o tx[t].inserted = AlertView(t)
  BY <1>2
<1>4. tables' = Committed(t)
  BY DEF Commit
<1> QED
  BY <1>2, <1>3, <1>4, CommittedFields

\* One more probe leaves the ones before it.
LEMMA ProbesGrow ==
    ASSUME NEW probes \in Seq(BOOLEAN), NEW op, op.ok \in BOOLEAN
    PROVE  /\ WithProbe(probes, op) \in Seq(BOOLEAN)
           /\ \A n \in 0 .. Len(probes) :
                 /\ n \in 0 .. Len(WithProbe(probes, op))
                 /\ SubSeq(WithProbe(probes, op), 1, n) = SubSeq(probes, 1, n)
<1>1. CASE op.next.status = "MAINTENANCE"
  BY <1>1 DEF WithProbe
<1>2. CASE op.next.status # "MAINTENANCE"
  <2>1. WithProbe(probes, op) = Append(probes, op.ok)
    BY <1>2 DEF WithProbe
  <2>2. /\ Append(probes, op.ok) \in Seq(BOOLEAN)
        /\ \A n \in 0 .. Len(probes) :
              /\ n \in 0 .. Len(Append(probes, op.ok))
              /\ SubSeq(Append(probes, op.ok), 1, n) = SubSeq(probes, 1, n)
    OBVIOUS
  <2> QED
    BY <2>1, <2>2
<1> QED
  BY <1>1, <1>2

\* Alerts that are added leave the others.
LEMMA AlertsGrow ==
    ASSUME NEW S, NEW alerts \in Seq(S), NEW more \in Seq(S)
    PROVE  /\ alerts \o more \in Seq(S)
           /\ DOMAIN alerts \subseteq DOMAIN (alerts \o more)
           /\ \A id \in DOMAIN alerts : (alerts \o more)[id] = alerts[id]
OBVIOUS

\* A save that commits holds the row of the state, and locks all else that it changes.
LEMMA SaveIsWithin ==
    ASSUME NEW t \in Saves, Shaped(tables), IsTransaction(tx[t]), KnownToSave(tx[t], tables),
           Commit(t)
    PROVE  Shaped(tables') /\ Within(tx[t].locks, tables, tables')
<1>1. tx[t].pc = "commit"
  BY DEF Commit
<1>2. SaveWrote(tx[t]) /\ SaveOp(tx[t].op) /\ SaveInterval(tx[t], tables)
  BY <1>1 DEF KnownToSave
<1>3. PICK keep : CancelledIn(tx[t], tables, DOMAIN tables.alerts, keep)
  BY <1>1 DEF KnownToSave
<1>4. tables.alerts \in Seq(Alert) /\ tables.probes \in Seq(BOOLEAN) /\ tables.backfilled \in BOOLEAN
  BY DEF Shaped
<1>5. PICK view \in {AlertView(t)} : TRUE
  OBVIOUS
<1>6. PICK with \in {WithProbe(tables.probes, tx[t].op)} : TRUE
  OBVIOUS
<1>7. /\ view \in Seq(Alert)
      /\ DOMAIN view = DOMAIN tables.alerts
      /\ \A id \in DOMAIN tables.alerts :
            view[id] = IF id \in DOMAIN tx[t].changed THEN tx[t].changed[id] ELSE tables.alerts[id]
      /\ tx[t].inserted \in Seq(Alert)
      /\ tables' = [state |-> tx[t].op.next, probes |-> with,
                    intervals |-> View(t, "intervals"), backfilled |-> tables.backfilled,
                    alerts |-> view \o tx[t].inserted, notified |-> View(t, "notified")]
  BY <1>5, <1>6, SaveCommits
<1>8. /\ with \in Seq(BOOLEAN)
      /\ \A n \in 0 .. Len(tables.probes) :
            n \in 0 .. Len(with) /\ SubSeq(with, 1, n) = SubSeq(tables.probes, 1, n)
  BY <1>2, <1>4, <1>6, ProbesGrow DEF SaveOp
<1>9. PICK alerts \in {view \o tx[t].inserted} : TRUE
  OBVIOUS
<1>10. /\ alerts \in Seq(Alert)
       /\ DOMAIN view \subseteq DOMAIN alerts
       /\ \A id \in DOMAIN view : alerts[id] = view[id]
  <2>1. view \in Seq(Alert) /\ tx[t].inserted \in Seq(Alert)
    BY <1>7
  <2>2. alerts = view \o tx[t].inserted
    BY <1>9
  <2>3. /\ view \o tx[t].inserted \in Seq(Alert)
        /\ DOMAIN view \subseteq DOMAIN (view \o tx[t].inserted)
        /\ \A id \in DOMAIN view : (view \o tx[t].inserted)[id] = view[id]
    BY <2>1, AlertsGrow, Zenon
  <2> QED
    BY <2>2, <2>3, Zenon
<1>11. tables' = [state |-> tx[t].op.next, probes |-> with,
                  intervals |-> View(t, "intervals"), backfilled |-> tables.backfilled,
                  alerts |-> alerts, notified |-> View(t, "notified")]
  BY <1>7, <1>9
<1>12. Shaped(tables')
  BY <1>4, <1>8, <1>10, <1>11 DEF Shaped
<1>13. \A id \in DOMAIN tables.alerts :
           \/ alerts[id] = tables.alerts[id]
           \/ RowLock(id) \in tx[t].locks /\ alerts[id].status # "pending"
  <2>1. \A id \in DOMAIN tx[t].changed :
            RowLock(id) \in tx[t].locks /\ tx[t].changed[id].status = "cancelled"
    BY <1>3, <1>4, CancelledInRows
  <2> QED
    BY <1>7, <1>10, <2>1
<1>14. StateLock \in tx[t].locks
  BY <1>2 DEF SaveWrote
<1>15. NotifiedLock \notin tx[t].locks => View(t, "notified") = tables.notified
  BY <1>1 DEF KnownToSave, SaveBaseline, View
<1>16. IntervalsLock \notin tx[t].locks => View(t, "intervals") = tables.intervals
  BY <1>2 DEF SaveInterval, View
<1>17. Within(tx[t].locks, tables, tables')
  <2>1. DOMAIN tables.alerts \subseteq DOMAIN alerts
    BY <1>7, <1>10
  <2> QED
    BY <1>8, <1>11, <1>13, <1>14, <1>15, <1>16, <2>1 DEF Within
<1> QED
  BY <1>12, <1>17

\* A backfill that commits holds the table of the intervals.
LEMMA BackfillIsWithin ==
    ASSUME NEW t \in Backfills, Shaped(tables), IsTransaction(tx[t]),
           KnownToBackfill(tx[t], tables), Commit(t)
    PROVE  Shaped(tables') /\ Within(tx[t].locks, tables, tables')
<1> t \in Transactions \ Saves
  BY PostgresStoreAssumption DEF Transactions
<1>1. /\ tx[t].pc = "commit" /\ IntervalsLock \in tx[t].locks
      /\ DOMAIN tx[t].changed = {} /\ tx[t].inserted = <<>>
  BY DEF Commit, KnownToBackfill
<1>2. /\ AlertView(t) \in Seq(Alert)
      /\ DOMAIN AlertView(t) = DOMAIN tables.alerts
      /\ \A id \in DOMAIN tables.alerts : AlertView(t)[id] = tables.alerts[id]
      /\ tables' = [state |-> View(t, "state"), probes |-> View(t, "probes"),
                    intervals |-> View(t, "intervals"),
                    backfilled |-> View(t, "backfilled"),
                    alerts |-> AlertView(t), notified |-> View(t, "notified")]
  BY <1>1, OtherCommits
<1>3. /\ View(t, "state") = tables.state
      /\ View(t, "notified") = tables.notified
      /\ View(t, "probes") = tables.probes
      /\ View(t, "backfilled") = TRUE
      /\ View(t, "intervals") = tables.intervals \/ ~tables.backfilled
  BY <1>1 DEF KnownToBackfill, View
<1>4. tables.probes \in Seq(BOOLEAN) /\ tables.backfilled \in BOOLEAN
  BY DEF Shaped
<1>5. Shaped(tables')
  BY <1>2, <1>3, <1>4 DEF Shaped
<1>6. Within(tx[t].locks, tables, tables')
  BY <1>1, <1>2, <1>3, <1>4 DEF Within
<1> QED
  BY <1>5, <1>6

\* A removal changes only rows that it has locked.
LEMMA DeleteIsWithin ==
    ASSUME Shaped(tables), IsTransaction(tx["delete"]), KnownToDelete(tx["delete"], tables),
           Commit("delete")
    PROVE  Shaped(tables') /\ Within(tx["delete"].locks, tables, tables')
<1> "delete" \in Transactions \ Saves
  BY PostgresStoreAssumption DEF Transactions
<1>1. PICK x \in {tx["delete"]} : TRUE
  OBVIOUS
<1>2. /\ x.pc = "commit" /\ x.inserted = <<>> /\ DeleteWrote(x)
      /\ x.read.alerts \subseteq DOMAIN tables.alerts
      /\ CancelledIn(x, tables, x.read.alerts, NoIncident)
  BY <1>1 DEF Commit, KnownToDelete
<1>3. tables.alerts \in Seq(Alert) /\ tables.probes \in Seq(BOOLEAN) /\ tables.backfilled \in BOOLEAN
  BY DEF Shaped
<1>4. \A id \in DOMAIN x.changed :
          /\ RowLock(id) \in x.locks
          /\ x.changed[id] \in Alert
          /\ x.changed[id].status = "cancelled"
  BY <1>2, <1>3, CancelledInRows
<1>5. PICK view \in {AlertView("delete")} : TRUE
  OBVIOUS
<1>6. /\ view \in Seq(Alert)
      /\ DOMAIN view = DOMAIN tables.alerts
      /\ \A id \in DOMAIN tables.alerts :
            view[id] = IF id \in DOMAIN x.changed THEN x.changed[id] ELSE tables.alerts[id]
      /\ tables' = [state |-> View("delete", "state"), probes |-> View("delete", "probes"),
                    intervals |-> View("delete", "intervals"),
                    backfilled |-> View("delete", "backfilled"),
                    alerts |-> view, notified |-> View("delete", "notified")]
  BY <1>1, <1>2, <1>4, <1>5, OtherCommits
<1>7. /\ View("delete", "probes") = tables.probes
      /\ View("delete", "intervals") = tables.intervals
      /\ View("delete", "backfilled") = tables.backfilled
      /\ StateLock \notin x.locks => View("delete", "state") = tables.state
      /\ NotifiedLock \notin x.locks => View("delete", "notified") = tables.notified
  BY <1>1, <1>2 DEF DeleteWrote, View
<1>8. Shaped(tables')
  BY <1>3, <1>6, <1>7 DEF Shaped
<1>9. \A id \in DOMAIN tables.alerts :
          \/ view[id] = tables.alerts[id]
          \/ RowLock(id) \in x.locks /\ view[id].status # "pending"
  BY <1>4, <1>6
<1>10. Within(x.locks, tables, tables')
  BY <1>3, <1>6, <1>7, <1>9 DEF Within
<1> QED
  BY <1>1, <1>8, <1>10

\* A record changes only the row of its alert and the baseline.
LEMMA RecordIsWithin ==
    ASSUME Shaped(tables), IsTransaction(tx["record"]), KnownToRecord(tx["record"], tables),
           Commit("record")
    PROVE  Shaped(tables') /\ Within(tx["record"].locks, tables, tables')
<1> "record" \in Transactions \ Saves
  BY PostgresStoreAssumption DEF Transactions
<1>1. PICK x \in {tx["record"]} : TRUE
  OBVIOUS
<1>2. x.pc = "commit" /\ x.inserted = <<>> /\ x.op.alert \in DOMAIN tables.alerts
  BY <1>1 DEF Commit, KnownToRecord
<1>3. tables.alerts \in Seq(Alert) /\ tables.probes \in Seq(BOOLEAN) /\ tables.backfilled \in BOOLEAN
  BY DEF Shaped
<1>4. tables.alerts[x.op.alert] \in Alert
  BY <1>2, <1>3
<1>5. \A id \in DOMAIN x.changed :
          /\ RowLock(id) \in x.locks
          /\ x.changed[id] \in Alert
          /\ x.changed[id].status = "delivered"
  <2>1. CASE Untouched(x)
    BY <2>1 DEF Untouched
  <2>2. CASE Delivered(x, tables) /\ RowLock(x.op.alert) \in x.locks
    <3>1. x.changed[x.op.alert] = [tables.alerts[x.op.alert] EXCEPT !.status = "delivered"]
      BY <2>2 DEF Delivered
    <3>2. x.changed[x.op.alert] \in Alert /\ x.changed[x.op.alert].status = "delivered"
      BY <1>4, <3>1 DEF Alert
    <3> QED
      BY <2>2, <3>2 DEF Delivered
  <2> QED
    BY <1>1, <1>2, <2>1, <2>2 DEF KnownToRecord
<1>6. PICK view \in {AlertView("record")} : TRUE
  OBVIOUS
<1>7. /\ view \in Seq(Alert)
      /\ DOMAIN view = DOMAIN tables.alerts
      /\ \A id \in DOMAIN tables.alerts :
            view[id] = IF id \in DOMAIN x.changed THEN x.changed[id] ELSE tables.alerts[id]
      /\ tables' = [state |-> View("record", "state"), probes |-> View("record", "probes"),
                    intervals |-> View("record", "intervals"),
                    backfilled |-> View("record", "backfilled"),
                    alerts |-> view, notified |-> View("record", "notified")]
  BY <1>1, <1>2, <1>5, <1>6, OtherCommits
<1>8. DOMAIN x.wrote = {} \/ (DOMAIN x.wrote = {"notified"} /\ NotifiedLock \in x.locks)
  BY <1>1, <1>2 DEF KnownToRecord, Untouched
<1>9. /\ View("record", "probes") = tables.probes
      /\ View("record", "intervals") = tables.intervals
      /\ View("record", "backfilled") = tables.backfilled
      /\ View("record", "state") = tables.state
      /\ NotifiedLock \notin x.locks => View("record", "notified") = tables.notified
  BY <1>1, <1>8 DEF View
<1>10. Shaped(tables')
  BY <1>3, <1>7, <1>9 DEF Shaped
<1>11. \A id \in DOMAIN tables.alerts :
           \/ view[id] = tables.alerts[id]
           \/ RowLock(id) \in x.locks /\ view[id].status # "pending"
  BY <1>5, <1>7
<1>12. Within(x.locks, tables, tables')
  BY <1>3, <1>7, <1>9, <1>11 DEF Within
<1> QED
  BY <1>1, <1>10, <1>12

\* A transaction changes the tables only within its locks.
LEMMA CommitIsWithin ==
    ASSUME NEW t \in Transactions, Shaped(tables), Knows(t, tx[t], tables), Commit(t)
    PROVE  Shaped(tables') /\ Within(tx[t].locks, tables, tables')
<1>1. tx[t] # Ended
  BY DEF Commit, Ended
<1> QED
  BY <1>1, SaveIsWithin, BackfillIsWithin, DeleteIsWithin, RecordIsWithin DEF Knows

\* A commit leaves the fields that are not Shaped well-formed, too.
LEMMA CommitIsTyped ==
    ASSUME NEW t \in Transactions, Shaped(tables), Typed(tables), Knows(t, tx[t], tables), Commit(t)
    PROVE  Typed(tables')
<1>1. PICK x : x = tx[t]
  OBVIOUS
<1>2. x # Ended /\ IsTransaction(x) /\ x.pc = "commit"
  BY <1>1 DEF Commit, Ended, Knows
<1>3. /\ tables.state \in MonitorRow /\ tables.intervals \in Seq(Status)
      /\ tables.notified \in Status \cup {NoStatus} /\ tables.probes \in Seq(BOOLEAN)
  BY DEF Typed, Shaped
<1>4. CASE t \in Saves /\ KnownToSave(x, tables)
  <2>1. /\ tables'.state = x.op.next
        /\ tables'.intervals = View(t, "intervals")
        /\ tables'.notified = View(t, "notified")
    BY <1>1, <1>2, <1>4, SaveCommits
  <2>2. SaveOp(x.op) /\ SaveRead(x, tables) /\ SaveInterval(x, tables)
    BY <1>2, <1>4 DEF KnownToSave
  <2>3. x.op.next \in MonitorRow /\ x.op.next.status \in Status
    BY <2>2 DEF SaveOp
  <2>4. tables'.intervals \in Seq(Status)
    <3>1. CASE "intervals" \in DOMAIN x.wrote
      <4>1. View(t, "intervals") = WithInterval(tables.intervals, x.op.next.status)
        BY <1>1, <2>2, <3>1 DEF SaveInterval, View
      <4> QED
        BY <1>3, <2>1, <2>3, <4>1, WithIntervalType
    <3>2. CASE "intervals" \notin DOMAIN x.wrote
      BY <1>1, <1>3, <2>1, <3>2 DEF View
    <3> QED
      BY <3>1, <3>2
  <2>5. tables'.notified \in Status \cup {NoStatus}
    <3>1. CASE "notified" \in DOMAIN x.wrote
      <4>1. x.wrote.notified = IF tables.notified = NoStatus THEN x.read.previous ELSE tables.notified
        BY <1>2, <1>4, <3>1 DEF KnownToSave, SaveBaseline
      <4>2. x.read.previous \in Status
        BY <1>3, <2>2, StatusOfRow DEF SaveRead, Status
      <4>3. View(t, "notified") = x.wrote.notified
        BY <1>1, <3>1 DEF View
      <4> QED
        BY <1>3, <2>1, <4>1, <4>2, <4>3
    <3>2. CASE "notified" \notin DOMAIN x.wrote
      BY <1>1, <1>3, <2>1, <3>2 DEF View
    <3> QED
      BY <3>1, <3>2
  <2> QED
    BY <2>1, <2>3, <2>4, <2>5 DEF Typed
<1>5. ASSUME t \notin Saves
      PROVE  /\ tables'.state = View(t, "state")
             /\ tables'.intervals = View(t, "intervals")
             /\ tables'.notified = View(t, "notified")
  <2>1. tables' = Committed(t)
    BY <1>5 DEF Commit
  <2> QED
    BY <1>1, <1>2, <2>1, CommittedFields
<1>6. CASE t \in Backfills /\ KnownToBackfill(x, tables)
  <2>1. View(t, "state") = tables.state /\ View(t, "notified") = tables.notified
    BY <1>1, <1>2, <1>6 DEF KnownToBackfill, View
  <2>2. View(t, "intervals") \in Seq(Status)
    <3>1. CASE DOMAIN x.wrote = {}
      BY <1>1, <1>3, <3>1 DEF View
    <3>2. CASE /\ "intervals" \in DOMAIN x.wrote
               /\ x.read.probes \in 0 .. Len(tables.probes)
               /\ x.wrote.intervals = IntervalsOf(SubSeq(tables.probes, 1, x.read.probes))
      <4>1. PICK seq : seq = SubSeq(tables.probes, 1, x.read.probes)
        OBVIOUS
      <4>2. seq \in Seq(BOOLEAN)
        BY <1>3, <3>2, <4>1
      <4> QED
        BY <1>1, <3>2, <4>1, <4>2, IntervalsOfType DEF View
    <3> QED
      BY <1>2, <1>6, <3>1, <3>2 DEF KnownToBackfill
  <2> QED
    BY <1>3, <1>5, <1>6, <2>1, <2>2, KindsDiffer DEF Typed
<1>7. CASE t = "delete" /\ KnownToDelete(x, tables)
  <2>1. DeleteWrote(x)
    BY <1>2, <1>7 DEF KnownToDelete
  <2>2. /\ View(t, "state") \in {tables.state, NoRow}
        /\ View(t, "intervals") = tables.intervals
        /\ View(t, "notified") \in {tables.notified, NoStatus}
    BY <1>1, <2>1 DEF DeleteWrote, View
  <2> QED
    BY <1>3, <1>5, <1>7, <2>2, KindsDiffer, NoRowIsRow DEF Typed
<1>8. CASE t = "record" /\ KnownToRecord(x, tables)
  <2>1. tables.alerts[x.op.alert] \in Alert
    BY <1>8 DEF KnownToRecord, Shaped
  <2>2. tables.alerts[x.op.alert].transition \in Status
    BY <2>1 DEF Alert, Transition, Status
  <2>3. /\ View(t, "state") = tables.state
        /\ View(t, "intervals") = tables.intervals
        /\ View(t, "notified") \in {tables.notified, tables.alerts[x.op.alert].transition}
    BY <1>1, <1>2, <1>8 DEF KnownToRecord, Untouched, View
  <2> QED
    BY <1>3, <1>5, <1>8, <2>2, <2>3, KindsDiffer DEF Typed
<1> QED
  BY <1>1, <1>2, <1>4, <1>6, <1>7, <1>8 DEF Knows

-----------------------------------------------------------------------------
(* What a transaction knows after a statement of its own *)

\* A statement changes the transaction that runs it and no more.
LEMMA RunIsOwn ==
    ASSUME NEW t \in Transactions, NEW pc, NEW next, DOMAIN tx = Transactions,
           IsTransaction(next), next.locks = tx[t].locks, Run(t, pc, next)
    PROVE  /\ tx[t].pc = pc
           /\ Free(t, Needs(t))
           /\ tables' = tables /\ cancelled' = cancelled
           /\ DOMAIN tx' = Transactions
           /\ tx'[t] = [pc |-> next.pc, op |-> next.op, locks |-> tx[t].locks \cup Needs(t),
                        read |-> next.read, wrote |-> next.wrote, changed |-> next.changed,
                        inserted |-> next.inserted]
           /\ \A u \in Transactions \ {t} : tx'[u] = tx[u]
<1>1. tx' = [tx EXCEPT ![t] = [next EXCEPT !.locks = @ \cup Needs(t)]]
  BY DEF Run
<1>2. PICK locks \in {next.locks \cup Needs(t)} : TRUE
  OBVIOUS
<1>3. [next EXCEPT !.locks = locks] =
          [pc |-> next.pc, op |-> next.op, locks |-> locks, read |-> next.read,
           wrote |-> next.wrote, changed |-> next.changed, inserted |-> next.inserted]
  BY DEF IsTransaction
<1>4. [next EXCEPT !.locks = @ \cup Needs(t)] = [next EXCEPT !.locks = locks]
  BY <1>2, Zenon
<1>5. /\ DOMAIN tx' = Transactions
      /\ tx'[t] = [next EXCEPT !.locks = locks]
      /\ \A u \in Transactions \ {t} : tx'[u] = tx[u]
  BY <1>1, <1>4
<1>6. tx[t].pc = pc /\ Free(t, Needs(t)) /\ tables' = tables /\ cancelled' = cancelled
  BY DEF Run
<1>7. tx'[t] = [pc |-> next.pc, op |-> next.op, locks |-> tx[t].locks \cup Needs(t),
                read |-> next.read, wrote |-> next.wrote, changed |-> next.changed,
                inserted |-> next.inserted]
  BY <1>2, <1>3, <1>5
<1> QED
  BY <1>5, <1>6, <1>7

\* Which statements need which locks.
LEMMA NeedsOf ==
    /\ \A t \in Saves : Needs(t) = SaveNeeds(t)
    /\ \A t \in Backfills : Needs(t) = BackfillNeeds(t)
    /\ Needs("delete") = DeleteNeeds("delete")
    /\ Needs("record") = RecordNeeds("record")
BY PostgresStoreAssumption DEF Needs

\* The UPDATE that cancels alerts, by one that has changed none or those of another status.
LEMMA CancelCancels ==
    ASSUME NEW t \in Transactions, NEW keep, NEW x,
           tables.alerts \in Seq(Alert),
           \/ DOMAIN tx[t].changed = {}
           \/ \E k : CancelledIn(tx[t], tables, DOMAIN tables.alerts, k) /\ keep = NoIncident,
           x.changed = Cancel(t, keep),
           x.locks = tx[t].locks \cup {RowLock(id) : id \in Cancelling(t, keep)}
    PROVE  CancelledIn(x, tables, DOMAIN tables.alerts, keep)
<1>1. CASE DOMAIN tx[t].changed = {}
  <2>1. \A id \in DOMAIN tables.alerts : AlertView(t)[id] = tables.alerts[id]
    BY <1>1 DEF AlertView
  <2>2. Cancelling(t, keep) = {id \in DOMAIN tables.alerts : Stale(tables.alerts[id], keep)}
    BY <2>1 DEF Cancelling
  <2>3. /\ DOMAIN x.changed = Cancelling(t, keep)
        /\ \A id \in Cancelling(t, keep) :
              x.changed[id] = [AlertView(t)[id] EXCEPT !.status = "cancelled"]
    BY <1>1 DEF Cancel
  <2>4. \A id \in Cancelling(t, keep) :
            x.changed[id] = [tables.alerts[id] EXCEPT !.status = "cancelled"]
    BY <2>1, <2>2, <2>3
  <2> QED
    BY <2>2, <2>3, <2>4 DEF CancelledIn
<1>2. ASSUME NEW k, CancelledIn(tx[t], tables, DOMAIN tables.alerts, k), keep = NoIncident
      PROVE  CancelledIn(x, tables, DOMAIN tables.alerts, keep)
  <2>1. /\ DOMAIN tx[t].changed = {id \in DOMAIN tables.alerts : Stale(tables.alerts[id], k)}
        /\ \A id \in DOMAIN tx[t].changed :
              /\ RowLock(id) \in tx[t].locks
              /\ tx[t].changed[id] = [tables.alerts[id] EXCEPT !.status = "cancelled"]
              /\ tx[t].changed[id].status = "cancelled"
    <3>1. \A id \in DOMAIN tx[t].changed : tx[t].changed[id].status = "cancelled"
      BY <1>2, CancelledInRows
    <3> QED
      BY <1>2, <3>1 DEF CancelledIn
  <2>2. \A id \in DOMAIN tables.alerts :
            AlertView(t)[id] = IF id \in DOMAIN tx[t].changed THEN tx[t].changed[id]
                               ELSE tables.alerts[id]
    BY DEF AlertView
  <2>3. Cancelling(t, keep) =
            {id \in DOMAIN tables.alerts \ DOMAIN tx[t].changed : Stale(tables.alerts[id], keep)}
    BY <2>1, <2>2 DEF Cancelling, Stale
  <2>4. /\ DOMAIN x.changed = DOMAIN tx[t].changed \cup Cancelling(t, keep)
        /\ \A id \in Cancelling(t, keep) :
              x.changed[id] = [AlertView(t)[id] EXCEPT !.status = "cancelled"]
        /\ \A id \in DOMAIN tx[t].changed \ Cancelling(t, keep) : x.changed[id] = tx[t].changed[id]
    BY DEF Cancel
  <2>5. \A id \in DOMAIN x.changed :
            x.changed[id] = [tables.alerts[id] EXCEPT !.status = "cancelled"]
    BY <2>1, <2>2, <2>3, <2>4
  <2>6. \A id \in DOMAIN tables.alerts : Stale(tables.alerts[id], k) => Stale(tables.alerts[id], keep)
    <3>1. \A id \in DOMAIN tables.alerts : tables.alerts[id] \in Alert
      OBVIOUS
    <3>2. \A alert \in Alert : alert.transition # NoIncident
      BY DEF Alert, Transition, NoIncident
    <3> QED
      BY <1>2, <3>1, <3>2 DEF Stale
  <2>7. DOMAIN x.changed = {id \in DOMAIN tables.alerts : Stale(tables.alerts[id], keep)}
    BY <2>1, <2>3, <2>4, <2>6
  <2>8. \A id \in DOMAIN x.changed : RowLock(id) \in x.locks
    BY <2>1, <2>4
  <2> QED
    BY <2>5, <2>7, <2>8 DEF CancelledIn
<1> QED
  BY <1>1, <1>2

\* A statement of t takes the locks it needs and keeps the others.
Locking(t) == tx'[t].locks = tx[t].locks \cup Needs(t)

\* What becomes of a transaction that runs a statement.
LEMMA RunMakes ==
    ASSUME NEW t \in Transactions, NEW from, NEW to, NEW read, NEW wrote, NEW changed,
           NEW inserted, NEW next, DOMAIN tx = Transactions,
           next = [pc |-> to, op |-> tx[t].op, locks |-> tx[t].locks, read |-> read,
                   wrote |-> wrote, changed |-> changed, inserted |-> inserted],
           Run(t, from, next)
    PROVE  /\ tx[t].pc = from
           /\ tx'[t] = [pc |-> to, op |-> tx[t].op, locks |-> tx[t].locks \cup Needs(t),
                        read |-> read, wrote |-> wrote, changed |-> changed,
                        inserted |-> inserted]
           /\ Locking(t)
<1>1. IsTransaction(next) /\ next.locks = tx[t].locks
  BY DEF IsTransaction
<1> QED
  BY <1>1, RunIsOwn DEF Locking

\* The row of the state is locked, or there is none.
LEMMA ReadStatusKnows ==
    ASSUME NEW t \in Saves, DOMAIN tx = Transactions, IsTransaction(tx[t]),
           KnownToSave(tx[t], tables), ReadStatus(t)
    PROVE  IsTransaction(tx'[t]) /\ Locking(t) /\ KnownToSave(tx'[t], tables)
<1> t \in Transactions
  BY DEF Transactions
<1>1. PICK x : x = tx[t]
  OBVIOUS
<1>2. PICK previous : previous = StatusOutsideMaintenance(tables.state)
  OBVIOUS
<1>3. PICK read : read = [previous |-> previous]
  OBVIOUS
<1>4. PICK next : next = [x EXCEPT !.pc = "write", !.read = read]
  OBVIOUS
<1>5. next = [pc |-> "write", op |-> x.op, locks |-> x.locks, read |-> read,
              wrote |-> x.wrote, changed |-> x.changed, inserted |-> x.inserted]
  BY <1>1, <1>4 DEF IsTransaction
<1>6. Run(t, "read", next)
  BY <1>1, <1>2, <1>3, <1>4 DEF ReadStatus
<1>7. /\ x.pc = "read"
      /\ tx'[t] = [pc |-> "write", op |-> x.op, locks |-> x.locks \cup Needs(t),
                   read |-> read, wrote |-> x.wrote,
                   changed |-> x.changed, inserted |-> x.inserted]
      /\ Locking(t)
  BY <1>1, <1>5, <1>6, RunMakes
<1>8. SaveOp(x.op) /\ Untouched(x)
  BY <1>1, <1>7 DEF KnownToSave
<1>9. Needs(t) = IF Exists(tables.state) THEN {StateLock} ELSE {}
  BY <1>1, <1>7, NeedsOf DEF SaveNeeds
<1>10. previous = "UNKNOWN" \/ StateLock \in Needs(t)
  BY <1>2, <1>9 DEF StatusOutsideMaintenance, Exists, NoStatus
<1>11. read.previous = previous /\ "rebuilt" \notin DOMAIN read
  BY <1>3
<1>12. SaveRead(tx'[t], tables)
  BY <1>2, <1>7, <1>10, <1>11 DEF SaveRead
<1> QED
  BY <1>7, <1>8, <1>11, <1>12 DEF KnownToSave, IsTransaction, Untouched

\* The row of the state is written and locked.
LEMMA WriteStateKnows ==
    ASSUME NEW t \in Saves, DOMAIN tx = Transactions, IsTransaction(tx[t]),
           KnownToSave(tx[t], tables), WriteState(t)
    PROVE  IsTransaction(tx'[t]) /\ Locking(t) /\ KnownToSave(tx'[t], tables)
<1> t \in Transactions
  BY DEF Transactions
<1>1. PICK x : x = tx[t]
  OBVIOUS
<1>2. PICK pc : pc = IF x.op.next.status = "MAINTENANCE" THEN "cancel" ELSE "open"
  OBVIOUS
<1>3. PICK wrote : wrote = Put(x.wrote, "state", x.op.next)
  OBVIOUS
<1>4. PICK next : next = Wrote(t, "state", x.op.next, pc)
  OBVIOUS
<1>5. next = [pc |-> pc, op |-> x.op, locks |-> x.locks, read |-> x.read,
              wrote |-> wrote, changed |-> x.changed, inserted |-> x.inserted]
  BY <1>1, <1>3, <1>4 DEF IsTransaction, Wrote
<1>6. Run(t, "write", next)
  BY <1>1, <1>2, <1>4 DEF WriteState
<1>7. /\ x.pc = "write"
      /\ tx'[t] = [pc |-> pc, op |-> x.op, locks |-> x.locks \cup Needs(t), read |-> x.read,
                   wrote |-> wrote, changed |-> x.changed, inserted |-> x.inserted]
      /\ Locking(t)
  BY <1>1, <1>5, <1>6, RunMakes
<1>8. SaveOp(x.op) /\ Untouched(x) /\ SaveRead(x, tables) /\ "rebuilt" \notin DOMAIN x.read
  BY <1>1, <1>7 DEF KnownToSave
<1>9. Needs(t) = {StateLock}
  BY <1>1, <1>7, NeedsOf DEF SaveNeeds
<1>10. DOMAIN wrote = {"state"} /\ wrote["state"] = x.op.next
  BY <1>3, <1>8 DEF Put, Untouched
<1>11. PICK y : y = tx'[t]
  OBVIOUS
<1>12. y = [pc |-> pc, op |-> x.op, locks |-> x.locks \cup {StateLock}, read |-> x.read,
            wrote |-> wrote, changed |-> x.changed, inserted |-> x.inserted]
  BY <1>7, <1>9, <1>11
<1>13. SaveRead(y, tables) /\ SaveWrote(y) /\ SaveMarker(y, tables)
  BY <1>8, <1>10, <1>12 DEF SaveRead, SaveWrote, SaveMarker
<1>14. x.op.next.status = "MAINTENANCE" => SaveInterval(y, tables)
  BY <1>10, <1>12 DEF SaveInterval
<1>15. IsTransaction(y) /\ KnownToSave(y, tables)
  BY <1>2, <1>8, <1>10, <1>12, <1>13, <1>14 DEF KnownToSave, IsTransaction, Untouched
<1> QED
  BY <1>7, <1>11, <1>15

\* The open interval has the status, or another one is to be opened.
LEMMA ReadIntervalKnows ==
    ASSUME NEW t \in Saves, DOMAIN tx = Transactions, IsTransaction(tx[t]), Shaped(tables),
           KnownToSave(tx[t], tables), ReadInterval(t)
    PROVE  IsTransaction(tx'[t]) /\ Locking(t) /\ KnownToSave(tx'[t], tables)
<1> t \in Transactions
  BY DEF Transactions
<1>1. PICK x : x = tx[t]
  OBVIOUS
<1>3. PICK pc : pc = IF tables.intervals # <<>> /\ Last(tables.intervals) = x.op.next.status
                     THEN "cancel" ELSE "interval"
  OBVIOUS
<1>4. PICK read : read = [previous |-> x.read.previous, rebuilt |-> tables.backfilled]
  OBVIOUS
<1>5. PICK next : next = [x EXCEPT !.read = read, !.pc = pc]
  OBVIOUS
<1>6. next = [pc |-> pc, op |-> x.op, locks |-> x.locks, read |-> read,
              wrote |-> x.wrote, changed |-> x.changed, inserted |-> x.inserted]
  BY <1>1, <1>5 DEF IsTransaction
<1>7. Run(t, "open", next)
  BY <1>1, <1>3, <1>4, <1>5 DEF ReadInterval
<1>8. /\ x.pc = "open"
      /\ tx'[t] = [pc |-> pc, op |-> x.op, locks |-> x.locks \cup Needs(t), read |-> read,
                   wrote |-> x.wrote, changed |-> x.changed, inserted |-> x.inserted]
      /\ Locking(t)
  BY <1>1, <1>6, <1>7, RunMakes
<1>9. /\ SaveOp(x.op) /\ SaveRead(x, tables) /\ SaveWrote(x)
      /\ x.op.next.status # "MAINTENANCE"
      /\ DOMAIN x.wrote = {"state"} /\ DOMAIN x.changed = {} /\ x.inserted = <<>>
  BY <1>1, <1>8 DEF KnownToSave
<1>10. /\ read.previous = x.read.previous /\ "rebuilt" \in DOMAIN read
       /\ read.rebuilt = tables.backfilled
  BY <1>4
<1>11. \/ pc = "cancel" /\ WithInterval(tables.intervals, x.op.next.status) = tables.intervals
       \/ pc = "interval" /\ WithInterval(tables.intervals, x.op.next.status)
                                 = Append(tables.intervals, x.op.next.status)
  BY <1>3, <1>9, Zenon DEF WithInterval
<1>12. PICK y : y = tx'[t]
  OBVIOUS
<1>13. y = [pc |-> pc, op |-> x.op, locks |-> x.locks \cup Needs(t), read |-> read,
            wrote |-> x.wrote, changed |-> x.changed, inserted |-> x.inserted]
  BY <1>8, <1>12
<1>14. SaveRead(y, tables) /\ SaveWrote(y) /\ SaveMarker(y, tables)
  BY <1>9, <1>10, <1>13 DEF SaveRead, SaveWrote, SaveMarker, Shaped
<1>15. pc = "cancel" => SaveInterval(y, tables)
  BY <1>9, <1>10, <1>11, <1>13 DEF SaveInterval
<1>16. IsTransaction(y) /\ KnownToSave(y, tables)
  BY <1>9, <1>10, <1>11, <1>13, <1>14, <1>15 DEF KnownToSave, IsTransaction
<1> QED
  BY <1>8, <1>12, <1>16

\* An interval is opened, unless a backfill came in between.
LEMMA WriteIntervalKnows ==
    ASSUME NEW t \in Saves, DOMAIN tx = Transactions, IsTransaction(tx[t]),
           KnownToSave(tx[t], tables), WriteInterval(t)
    PROVE  IsTransaction(tx'[t]) /\ Locking(t) /\ KnownToSave(tx'[t], tables)
<1> t \in Transactions
  BY DEF Transactions
<1>1. PICK x : x = tx[t]
  OBVIOUS
<1>2. CASE Conflicting(t)
  <2>1. PICK next : next = [x EXCEPT !.pc = "failed"]
    OBVIOUS
  <2>2. next = [pc |-> "failed", op |-> x.op, locks |-> x.locks, read |-> x.read,
                wrote |-> x.wrote, changed |-> x.changed, inserted |-> x.inserted]
    BY <1>1, <2>1 DEF IsTransaction
  <2>3. Run(t, "interval", next)
    BY <1>1, <1>2, <2>1 DEF WriteInterval
  <2>4. /\ tx'[t] = [pc |-> "failed", op |-> x.op, locks |-> x.locks \cup Needs(t), read |-> x.read,
                     wrote |-> x.wrote, changed |-> x.changed, inserted |-> x.inserted]
        /\ Locking(t)
    BY <1>1, <2>2, <2>3, RunMakes
  <2>5. SaveOp(x.op)
    BY <1>1 DEF KnownToSave
  <2> QED
    BY <2>4, <2>5 DEF KnownToSave, IsTransaction
<1>3. CASE ~Conflicting(t)
  <2>1. PICK intervals : intervals = Append(tables.intervals, x.op.next.status)
    OBVIOUS
  <2>2. PICK wrote : wrote = Put(x.wrote, "intervals", intervals)
    OBVIOUS
  <2>3. PICK next : next = Wrote(t, "intervals", intervals, "cancel")
    OBVIOUS
  <2>4. next = [pc |-> "cancel", op |-> x.op, locks |-> x.locks, read |-> x.read,
                wrote |-> wrote, changed |-> x.changed, inserted |-> x.inserted]
    BY <1>1, <2>2, <2>3 DEF IsTransaction, Wrote
  <2>5. Run(t, "interval", next)
    BY <1>1, <1>3, <2>1, <2>3 DEF WriteInterval
  <2>6. /\ x.pc = "interval"
        /\ tx'[t] = [pc |-> "cancel", op |-> x.op, locks |-> x.locks \cup Needs(t),
                     read |-> x.read, wrote |-> wrote, changed |-> x.changed,
                     inserted |-> x.inserted]
        /\ Locking(t)
    BY <1>1, <2>4, <2>5, RunMakes
  <2>7. /\ SaveOp(x.op) /\ SaveRead(x, tables) /\ SaveWrote(x) /\ SaveMarker(x, tables)
        /\ x.op.next.status # "MAINTENANCE" /\ "rebuilt" \in DOMAIN x.read
        /\ DOMAIN x.wrote = {"state"} /\ DOMAIN x.changed = {} /\ x.inserted = <<>>
        /\ RebuiltSince(x, tables)
           \/ WithInterval(tables.intervals, x.op.next.status) = intervals
    BY <1>1, <2>1, <2>6 DEF KnownToSave
  <2>8. Needs(t) = {IntervalsLock}
    BY <1>1, <2>6, NeedsOf DEF SaveNeeds
  <2>9. /\ DOMAIN wrote = {"state", "intervals"}
        /\ wrote["state"] = x.wrote["state"] /\ wrote["intervals"] = intervals
    BY <2>2, <2>7 DEF Put
  <2>10. WithInterval(tables.intervals, x.op.next.status) = intervals
    <3>1. RebuiltSince(x, tables) => tables.intervals = <<>>
      BY <1>1, <1>3 DEF Conflicting, Rebuilt, RebuiltSince
    <3>2. tables.intervals = <<>> => WithInterval(tables.intervals, x.op.next.status) = intervals
      BY <2>1, <2>7, Zenon DEF WithInterval
    <3> QED
      BY <2>7, <3>1, <3>2
  <2>11. PICK y : y = tx'[t]
    OBVIOUS
  <2>12. y = [pc |-> "cancel", op |-> x.op, locks |-> x.locks \cup {IntervalsLock},
              read |-> x.read, wrote |-> wrote, changed |-> x.changed, inserted |-> x.inserted]
    BY <2>6, <2>8, <2>11
  <2>13. SaveRead(y, tables) /\ SaveWrote(y) /\ SaveMarker(y, tables)
    BY <2>7, <2>9, <2>12 DEF SaveRead, SaveWrote, SaveMarker
  <2>14. SaveInterval(y, tables)
    BY <2>9, <2>10, <2>12 DEF SaveInterval
  <2>15. IsTransaction(y) /\ KnownToSave(y, tables)
    BY <2>7, <2>9, <2>12, <2>13, <2>14 DEF KnownToSave, IsTransaction
  <2> QED
    BY <2>6, <2>11, <2>15
<1> QED
  BY <1>2, <1>3

\* The pending alerts that the new status makes stale are cancelled.
LEMMA CancelStaleKnows ==
    ASSUME NEW t \in Saves, DOMAIN tx = Transactions, IsTransaction(tx[t]), Shaped(tables),
           KnownToSave(tx[t], tables), CancelStale(t)
    PROVE  IsTransaction(tx'[t]) /\ Locking(t) /\ KnownToSave(tx'[t], tables)
<1> t \in Transactions
  BY DEF Transactions
<1>1. PICK x : x = tx[t]
  OBVIOUS
<1>2. PICK pc : pc = IF x.op.incident THEN "baseline" ELSE "commit"
  OBVIOUS
<1>3. PICK keep : keep = x.op.next.status
  OBVIOUS
<1>4. PICK changed : changed = Cancel(t, keep)
  OBVIOUS
<1>5. PICK next : next = [x EXCEPT !.changed = changed, !.pc = pc]
  OBVIOUS
<1>6. next = [pc |-> pc, op |-> x.op, locks |-> x.locks, read |-> x.read,
              wrote |-> x.wrote, changed |-> changed, inserted |-> x.inserted]
  BY <1>1, <1>5 DEF IsTransaction
<1>7. Run(t, "cancel", next)
  BY <1>1, <1>2, <1>3, <1>4, <1>5 DEF CancelStale
<1>8. /\ x.pc = "cancel"
      /\ tx'[t] = [pc |-> pc, op |-> x.op, locks |-> x.locks \cup Needs(t), read |-> x.read,
                   wrote |-> x.wrote, changed |-> changed, inserted |-> x.inserted]
      /\ Locking(t)
  BY <1>1, <1>6, <1>7, RunMakes
<1>9. /\ SaveOp(x.op) /\ SaveRead(x, tables) /\ SaveWrote(x) /\ SaveMarker(x, tables)
      /\ SaveInterval(x, tables) /\ "notified" \notin DOMAIN x.wrote
      /\ DOMAIN x.changed = {} /\ x.inserted = <<>>
  BY <1>1, <1>8 DEF KnownToSave
<1>10. Needs(t) = {RowLock(id) : id \in Cancelling(t, keep)}
  BY <1>1, <1>3, <1>8, NeedsOf DEF SaveNeeds
<1>11. PICK y : y = tx'[t]
  OBVIOUS
<1>12. y = [pc |-> pc, op |-> x.op, locks |-> x.locks \cup Needs(t), read |-> x.read,
            wrote |-> x.wrote, changed |-> changed, inserted |-> x.inserted]
  BY <1>8, <1>11
<1>13. CancelledIn(y, tables, DOMAIN tables.alerts, keep)
  <2>1. y.changed = Cancel(t, keep) /\ y.locks = tx[t].locks \cup {RowLock(id) : id \in Cancelling(t, keep)}
    BY <1>1, <1>4, <1>10, <1>12
  <2>2. tables.alerts \in Seq(Alert) /\ DOMAIN tx[t].changed = {}
    BY <1>1, <1>9 DEF Shaped
  <2> QED
    BY <2>1, <2>2, CancelCancels
<1>14. /\ SaveRead(y, tables) /\ SaveWrote(y) /\ SaveMarker(y, tables)
       /\ SaveInterval(y, tables)
  BY <1>9, <1>12 DEF SaveRead, SaveWrote, SaveMarker, SaveInterval, RebuiltSince
<1>15. IsTransaction(y)
  BY <1>12 DEF IsTransaction
<1>16. ASSUME x.op.incident
       PROVE  KnownToSave(y, tables)
  BY <1>2, <1>3, <1>9, <1>12, <1>13, <1>14, <1>16 DEF KnownToSave
<1>17. ASSUME ~x.op.incident
       PROVE  KnownToSave(y, tables)
  <2>1. SaveQueued(y)
    BY <1>9, <1>12, <1>17 DEF SaveQueued
  <2> QED
    BY <1>2, <1>3, <1>9, <1>12, <1>13, <1>14, <1>17, <2>1 DEF KnownToSave
<1> QED
  BY <1>8, <1>11, <1>15, <1>16, <1>17

\* The baseline is initialized or found, and locked.
LEMMA ReadBaselineKnows ==
    ASSUME NEW t \in Saves, DOMAIN tx = Transactions, IsTransaction(tx[t]), Shaped(tables),
           KnownToSave(tx[t], tables), ReadBaseline(t)
    PROVE  IsTransaction(tx'[t]) /\ Locking(t) /\ KnownToSave(tx'[t], tables)
<1> t \in Transactions
  BY DEF Transactions
<1>1. PICK x : x = tx[t]
  OBVIOUS
<1>2. PICK value : value = IF tables.notified = NoStatus THEN x.read.previous ELSE tables.notified
  OBVIOUS
<1>3. PICK wrote : wrote = Put(x.wrote, "notified", value)
  OBVIOUS
<1>4. PICK next : next = Wrote(t, "notified", value, "queue")
  OBVIOUS
<1>5. next = [pc |-> "queue", op |-> x.op, locks |-> x.locks, read |-> x.read,
              wrote |-> wrote, changed |-> x.changed, inserted |-> x.inserted]
  BY <1>1, <1>3, <1>4 DEF IsTransaction, Wrote
<1>6. Run(t, "baseline", next)
  BY <1>1, <1>2, <1>4 DEF ReadBaseline
<1>7. /\ x.pc = "baseline"
      /\ tx'[t] = [pc |-> "queue", op |-> x.op, locks |-> x.locks \cup Needs(t), read |-> x.read,
                   wrote |-> wrote, changed |-> x.changed, inserted |-> x.inserted]
      /\ Locking(t)
  BY <1>1, <1>5, <1>6, RunMakes
<1>8. /\ SaveOp(x.op) /\ SaveRead(x, tables) /\ SaveWrote(x) /\ SaveMarker(x, tables)
      /\ SaveInterval(x, tables)
      /\ x.op.incident /\ x.inserted = <<>>
      /\ CancelledIn(x, tables, DOMAIN tables.alerts, x.op.next.status)
  BY <1>1, <1>7 DEF KnownToSave
<1>9. Needs(t) = {NotifiedLock}
  BY <1>1, <1>7, NeedsOf DEF SaveNeeds
<1>10. /\ DOMAIN wrote = DOMAIN x.wrote \cup {"notified"}
       /\ wrote["notified"] = value
       /\ wrote["state"] = x.wrote["state"]
       /\ "intervals" \in DOMAIN x.wrote => wrote["intervals"] = x.wrote["intervals"]
  BY <1>3, <1>8 DEF Put, SaveWrote
<1>11. PICK y : y = tx'[t]
  OBVIOUS
<1>12. y = [pc |-> "queue", op |-> x.op, locks |-> x.locks \cup {NotifiedLock}, read |-> x.read,
            wrote |-> wrote, changed |-> x.changed, inserted |-> x.inserted]
  BY <1>7, <1>9, <1>11
<1>13. /\ SaveRead(y, tables) /\ SaveWrote(y) /\ SaveMarker(y, tables)
       /\ SaveInterval(y, tables) /\ SaveBaseline(y, tables)
  <2>1. SaveRead(y, tables) /\ SaveWrote(y) /\ SaveMarker(y, tables)
    BY <1>8, <1>10, <1>12 DEF SaveRead, SaveWrote, SaveMarker
  <2>2. SaveInterval(y, tables)
    BY <1>8, <1>10, <1>12 DEF SaveInterval, RebuiltSince
  <2>3. SaveBaseline(y, tables)
    BY <1>2, <1>10, <1>12 DEF SaveBaseline
  <2> QED
    BY <2>1, <2>2, <2>3
<1>14. CancelledIn(y, tables, DOMAIN tables.alerts, y.op.next.status)
  BY <1>8, <1>12 DEF CancelledIn
<1>15. IsTransaction(y) /\ KnownToSave(y, tables)
  BY <1>8, <1>12, <1>13, <1>14 DEF KnownToSave, IsTransaction
<1> QED
  BY <1>7, <1>11, <1>15

\* All other pending alerts are cancelled and the new one is inserted, if it tells anything.
LEMMA QueueAlertKnows ==
    ASSUME NEW t \in Saves, DOMAIN tx = Transactions, IsTransaction(tx[t]), Shaped(tables),
           KnownToSave(tx[t], tables), QueueAlert(t)
    PROVE  IsTransaction(tx'[t]) /\ Locking(t) /\ KnownToSave(tx'[t], tables)
<1> t \in Transactions
  BY DEF Transactions
<1>1. PICK x : x = tx[t]
  OBVIOUS
<1>2. PICK inserted : inserted = IF x.op.next.status = View(t, "notified") THEN <<>>
                                 ELSE <<Queued(x.op.next.status)>>
  OBVIOUS
<1>3. PICK changed : changed = Cancel(t, NoIncident)
  OBVIOUS
<1>4. PICK next : next = [x EXCEPT !.changed = changed, !.pc = "commit", !.inserted = inserted]
  OBVIOUS
<1>5. next = [pc |-> "commit", op |-> x.op, locks |-> x.locks, read |-> x.read,
              wrote |-> x.wrote, changed |-> changed, inserted |-> inserted]
  BY <1>1, <1>4 DEF IsTransaction
<1>6. Run(t, "queue", next)
  BY <1>1, <1>2, <1>3, <1>4 DEF QueueAlert
<1>7. /\ x.pc = "queue"
      /\ tx'[t] = [pc |-> "commit", op |-> x.op, locks |-> x.locks \cup Needs(t), read |-> x.read,
                   wrote |-> x.wrote, changed |-> changed, inserted |-> inserted]
      /\ Locking(t)
  BY <1>1, <1>5, <1>6, RunMakes
<1>8. /\ SaveOp(x.op) /\ SaveRead(x, tables) /\ SaveWrote(x) /\ SaveMarker(x, tables)
      /\ SaveInterval(x, tables) /\ SaveBaseline(x, tables) /\ x.op.incident
      /\ CancelledIn(x, tables, DOMAIN tables.alerts, x.op.next.status)
  BY <1>1, <1>7 DEF KnownToSave
<1>9. Needs(t) = {RowLock(id) : id \in Cancelling(t, NoIncident)}
  BY <1>1, <1>7, NeedsOf DEF SaveNeeds
<1>10. PICK y : y = tx'[t]
  OBVIOUS
<1>11. y = [pc |-> "commit", op |-> x.op, locks |-> x.locks \cup Needs(t), read |-> x.read,
            wrote |-> x.wrote, changed |-> changed, inserted |-> inserted]
  BY <1>7, <1>10
<1>12. CancelledIn(y, tables, DOMAIN tables.alerts, NoIncident)
  <2>1. /\ y.changed = Cancel(t, NoIncident)
        /\ y.locks = tx[t].locks \cup {RowLock(id) : id \in Cancelling(t, NoIncident)}
    BY <1>1, <1>3, <1>9, <1>11
  <2>2. /\ tables.alerts \in Seq(Alert)
        /\ \E k : CancelledIn(tx[t], tables, DOMAIN tables.alerts, k)
    BY <1>1, <1>8 DEF Shaped
  <2> QED
    BY <2>1, <2>2, CancelCancels
<1>13. /\ SaveRead(y, tables) /\ SaveWrote(y) /\ SaveMarker(y, tables)
       /\ SaveInterval(y, tables) /\ SaveBaseline(y, tables)
  BY <1>8, <1>11 DEF SaveRead, SaveWrote, SaveMarker, SaveInterval, RebuiltSince, SaveBaseline
<1>14. SaveQueued(y)
  <2>1. View(t, "notified") = x.wrote.notified
    BY <1>1, <1>8 DEF View, SaveBaseline
  <2> QED
    BY <1>2, <1>8, <1>11, <2>1 DEF SaveQueued
<1>15. IsTransaction(y) /\ KnownToSave(y, tables)
  BY <1>8, <1>11, <1>12, <1>13, <1>14 DEF KnownToSave, IsTransaction
<1> QED
  BY <1>7, <1>10, <1>15

\* The table of the intervals is locked before anything is read.
LEMMA LockIntervalsKnows ==
    ASSUME NEW t \in Backfills, DOMAIN tx = Transactions, IsTransaction(tx[t]),
           KnownToBackfill(tx[t], tables), LockIntervals(t)
    PROVE  IsTransaction(tx'[t]) /\ Locking(t) /\ KnownToBackfill(tx'[t], tables)
<1> t \in Transactions
  BY DEF Transactions
<1>1. PICK x : x = tx[t]
  OBVIOUS
<1>2. PICK next : next = [x EXCEPT !.pc = "marker"]
  OBVIOUS
<1>3. next = [pc |-> "marker", op |-> x.op, locks |-> x.locks, read |-> x.read,
              wrote |-> x.wrote, changed |-> x.changed, inserted |-> x.inserted]
  BY <1>1, <1>2 DEF IsTransaction
<1>4. Run(t, "lock", next)
  BY <1>1, <1>2 DEF LockIntervals
<1>5. /\ x.pc = "lock"
      /\ tx'[t] = [pc |-> "marker", op |-> x.op, locks |-> x.locks \cup Needs(t), read |-> x.read,
                   wrote |-> x.wrote, changed |-> x.changed, inserted |-> x.inserted]
      /\ Locking(t)
  BY <1>1, <1>3, <1>4, RunMakes
<1>6. Needs(t) = {IntervalsLock}
  BY <1>1, <1>5, NeedsOf DEF BackfillNeeds
<1> QED
  BY <1>1, <1>5, <1>6 DEF KnownToBackfill, IsTransaction

\* The marker tells whether there is anything to do.
LEMMA ReadMarkerKnows ==
    ASSUME NEW t \in Backfills, DOMAIN tx = Transactions, IsTransaction(tx[t]), Shaped(tables),
           KnownToBackfill(tx[t], tables), ReadMarker(t)
    PROVE  IsTransaction(tx'[t]) /\ Locking(t) /\ KnownToBackfill(tx'[t], tables)
<1> t \in Transactions
  BY DEF Transactions
<1>1. PICK x : x = tx[t]
  OBVIOUS
<1>2. PICK pc : pc = IF tables.backfilled THEN "commit" ELSE "remove"
  OBVIOUS
<1>3. PICK next : next = [x EXCEPT !.pc = pc]
  OBVIOUS
<1>4. next = [pc |-> pc, op |-> x.op, locks |-> x.locks, read |-> x.read,
              wrote |-> x.wrote, changed |-> x.changed, inserted |-> x.inserted]
  BY <1>1, <1>3 DEF IsTransaction
<1>5. Run(t, "marker", next)
  BY <1>1, <1>2, <1>3 DEF ReadMarker
<1>6. /\ x.pc = "marker"
      /\ tx'[t] = [pc |-> pc, op |-> x.op, locks |-> x.locks \cup Needs(t), read |-> x.read,
                   wrote |-> x.wrote, changed |-> x.changed, inserted |-> x.inserted]
      /\ Locking(t)
  BY <1>1, <1>4, <1>5, RunMakes
<1> QED
  BY <1>1, <1>2, <1>6 DEF KnownToBackfill, IsTransaction, Shaped

\* All intervals there are have been removed.
LEMMA RemoveIntervalsKnows ==
    ASSUME NEW t \in Backfills, DOMAIN tx = Transactions, IsTransaction(tx[t]),
           KnownToBackfill(tx[t], tables), RemoveIntervals(t)
    PROVE  IsTransaction(tx'[t]) /\ Locking(t) /\ KnownToBackfill(tx'[t], tables)
<1> t \in Transactions
  BY DEF Transactions
<1>1. PICK x : x = tx[t]
  OBVIOUS
<1>2. PICK wrote : wrote = Put(x.wrote, "intervals", <<>>)
  OBVIOUS
<1>3. PICK read : read = [removed |-> Len(tables.intervals)]
  OBVIOUS
<1>4. PICK put : put = Wrote(t, "intervals", <<>>, "rebuild")
  OBVIOUS
<1>5. put = [pc |-> "rebuild", op |-> x.op, locks |-> x.locks, read |-> x.read,
             wrote |-> wrote, changed |-> x.changed, inserted |-> x.inserted]
  BY <1>1, <1>2, <1>4 DEF IsTransaction, Wrote
<1>6. PICK next : next = [put EXCEPT !.read = read]
  OBVIOUS
<1>7. next = [pc |-> "rebuild", op |-> x.op, locks |-> x.locks, read |-> read,
              wrote |-> wrote, changed |-> x.changed, inserted |-> x.inserted]
  BY <1>5, <1>6
<1>8. Run(t, "remove", next)
  BY <1>3, <1>4, <1>6 DEF RemoveIntervals
<1>9. /\ x.pc = "remove"
      /\ tx'[t] = [pc |-> "rebuild", op |-> x.op, locks |-> x.locks \cup Needs(t), read |-> read,
                   wrote |-> wrote, changed |-> x.changed, inserted |-> x.inserted]
      /\ Locking(t)
  BY <1>1, <1>7, <1>8, RunMakes
<1>10. DOMAIN wrote = {"intervals"} /\ read.removed = Len(tables.intervals)
  BY <1>1, <1>2, <1>3, <1>9 DEF KnownToBackfill, Put
<1> QED
  BY <1>1, <1>9, <1>10 DEF KnownToBackfill, IsTransaction

\* The intervals that were removed are all there are: nothing conflicts.
LEMMA RebuildIntervalsKnows ==
    ASSUME NEW t \in Backfills, DOMAIN tx = Transactions, IsTransaction(tx[t]), Shaped(tables),
           KnownToBackfill(tx[t], tables), RebuildIntervals(t)
    PROVE  IsTransaction(tx'[t]) /\ Locking(t) /\ KnownToBackfill(tx'[t], tables)
<1> t \in Transactions
  BY DEF Transactions
<1>1. PICK x : x = tx[t]
  OBVIOUS
<1>2. x.pc = "rebuild"
  BY <1>1 DEF RebuildIntervals, Run
<1>3. /\ x.op.name = "backfill" /\ DOMAIN x.changed = {} /\ x.inserted = <<>>
      /\ IntervalsLock \in x.locks /\ DOMAIN x.wrote = {"intervals"}
      /\ ~tables.backfilled /\ x.read.removed = Len(tables.intervals)
  BY <1>1, <1>2 DEF KnownToBackfill
<1>4. PICK intervals : intervals = IntervalsOf(tables.probes)
  OBVIOUS
<1>5. PICK rebuilt : rebuilt = Put(x.wrote, "intervals", intervals)
  OBVIOUS
<1>6. PICK wrote : wrote = Put(rebuilt, "backfilled", TRUE)
  OBVIOUS
<1>7. PICK read : read = [probes |-> Len(tables.probes)]
  OBVIOUS
<1>8. PICK put : put = Wrote(t, "intervals", intervals, "commit")
  OBVIOUS
<1>9. put = [pc |-> "commit", op |-> x.op, locks |-> x.locks, read |-> x.read,
             wrote |-> rebuilt, changed |-> x.changed, inserted |-> x.inserted]
  BY <1>1, <1>5, <1>8 DEF IsTransaction, Wrote
<1>10. PICK next : next = [put EXCEPT !.wrote = Put(@, "backfilled", TRUE), !.read = read]
  OBVIOUS
<1>11. next = [put EXCEPT !.wrote = wrote, !.read = read]
  BY <1>6, <1>9, <1>10
<1>12. next = [pc |-> "commit", op |-> x.op, locks |-> x.locks, read |-> read,
               wrote |-> wrote, changed |-> x.changed, inserted |-> x.inserted]
  BY <1>9, <1>11
<1>13. Run(t, "rebuild", next)
  BY <1>1, <1>3, <1>4, <1>7, <1>8, <1>10 DEF RebuildIntervals
<1>14. /\ tx'[t] = [pc |-> "commit", op |-> x.op, locks |-> x.locks \cup Needs(t), read |-> read,
                    wrote |-> wrote, changed |-> x.changed, inserted |-> x.inserted]
       /\ Locking(t)
  BY <1>1, <1>12, <1>13, RunMakes
<1>15. /\ DOMAIN wrote = {"intervals", "backfilled"}
       /\ wrote["backfilled"] = TRUE /\ wrote["intervals"] = intervals
  BY <1>3, <1>5, <1>6 DEF Put
<1>16. /\ read.probes \in 0 .. Len(tables.probes)
       /\ SubSeq(tables.probes, 1, read.probes) = tables.probes
  BY <1>7 DEF Shaped
<1>17. PICK y : y = tx'[t]
  OBVIOUS
<1>18. /\ IsTransaction(y) /\ y.pc = "commit" /\ y.op = x.op /\ y.changed = x.changed
       /\ y.inserted = x.inserted /\ x.locks \subseteq y.locks
       /\ y.read = read /\ y.wrote = wrote
  BY <1>14, <1>17 DEF IsTransaction
<1>19. y.wrote.intervals = IntervalsOf(SubSeq(tables.probes, 1, y.read.probes))
  BY <1>4, <1>15, <1>16, <1>18
<1>20. KnownToBackfill(y, tables)
  BY <1>3, <1>15, <1>16, <1>18, <1>19 DEF KnownToBackfill
<1> QED
  BY <1>14, <1>17, <1>18, <1>20

\* A removal writes rows that are there, and locks them.
LEMMA DeleteStatementKnows ==
    ASSUME DOMAIN tx = Transactions, IsTransaction(tx["delete"]), Shaped(tables),
           KnownToDelete(tx["delete"], tables), DeleteStatement
    PROVE  IsTransaction(tx'["delete"]) /\ Locking("delete") /\ KnownToDelete(tx'["delete"], tables)
<1>1. PICK t : t = "delete"
  OBVIOUS
<1>2. t \in Transactions /\ Needs(t) = DeleteNeeds(t)
  BY <1>1, NeedsOf DEF Transactions
<1>3. PICK x : x = tx[t]
  OBVIOUS
<1>4. IsTransaction(x) /\ KnownToDelete(x, tables)
  BY <1>1, <1>3
<1>5. ASSUME Run(t, "cancel", [x EXCEPT !.changed = Cancel(t, NoIncident), !.pc = "notified",
                                        !.read = [alerts |-> DOMAIN tables.alerts]])
      PROVE  IsTransaction(tx'[t]) /\ Locking(t) /\ KnownToDelete(tx'[t], tables)
  <2>1. PICK changed : changed = Cancel(t, NoIncident)
    OBVIOUS
  <2>2. PICK read : read = [alerts |-> DOMAIN tables.alerts]
    OBVIOUS
  <2>3. PICK next : next = [x EXCEPT !.changed = changed, !.pc = "notified", !.read = read]
    OBVIOUS
  <2>4. next = [pc |-> "notified", op |-> x.op, locks |-> x.locks, read |-> read,
                wrote |-> x.wrote, changed |-> changed, inserted |-> x.inserted]
    BY <1>4, <2>3 DEF IsTransaction
  <2>5. Run(t, "cancel", next)
    BY <1>5, <2>1, <2>2, <2>3
  <2>6. /\ x.pc = "cancel"
        /\ tx'[t] = [pc |-> "notified", op |-> x.op, locks |-> x.locks \cup Needs(t),
                     read |-> read, wrote |-> x.wrote, changed |-> changed,
                     inserted |-> x.inserted]
        /\ Locking(t)
    BY <1>2, <1>3, <2>4, <2>5, RunMakes
  <2>7. x.op.name = "delete" /\ Untouched(x)
    BY <1>4, <2>6 DEF KnownToDelete
  <2>8. Needs(t) = {RowLock(id) : id \in Cancelling(t, NoIncident)}
    BY <1>2, <1>3, <2>6 DEF DeleteNeeds
  <2>9. PICK y : y = tx'[t]
    OBVIOUS
  <2>10. y = [pc |-> "notified", op |-> x.op, locks |-> x.locks \cup Needs(t),
              read |-> read, wrote |-> x.wrote, changed |-> changed, inserted |-> x.inserted]
    BY <2>6, <2>9
  <2>11. CancelledIn(y, tables, DOMAIN tables.alerts, NoIncident)
    <3>1. /\ y.changed = Cancel(t, NoIncident)
          /\ y.locks = tx[t].locks \cup {RowLock(id) : id \in Cancelling(t, NoIncident)}
      BY <1>3, <2>1, <2>8, <2>10
    <3>2. tables.alerts \in Seq(Alert) /\ DOMAIN tx[t].changed = {}
      BY <1>3, <2>7 DEF Shaped, Untouched
    <3> QED
      BY <1>2, <3>1, <3>2, CancelCancels
  <2>12. read.alerts = DOMAIN tables.alerts
    BY <2>2
  <2>13. IsTransaction(y) /\ KnownToDelete(y, tables)
    BY <2>7, <2>10, <2>11, <2>12 DEF KnownToDelete, IsTransaction, DeleteWrote, Untouched
  <2> QED
    BY <2>6, <2>9, <2>13
<1>6. ASSUME NEW field, NEW value, NEW from, NEW to, NEW lock,
             \/ /\ from = "notified" /\ to = "state" /\ field = "notified"
                /\ value = NoStatus /\ lock = NotifiedLock
             \/ /\ from = "state" /\ to = "commit" /\ field = "state"
                /\ value = NoRow /\ lock = StateLock,
             Run(t, from, Wrote(t, field, value, to)), lock \in Needs(t)
      PROVE  IsTransaction(tx'[t]) /\ Locking(t) /\ KnownToDelete(tx'[t], tables)
  <2>1. PICK wrote : wrote = Put(x.wrote, field, value)
    OBVIOUS
  <2>2. PICK next : next = Wrote(t, field, value, to)
    OBVIOUS
  <2>3. next = [pc |-> to, op |-> x.op, locks |-> x.locks, read |-> x.read,
                wrote |-> wrote, changed |-> x.changed, inserted |-> x.inserted]
    BY <1>3, <1>4, <2>1, <2>2 DEF IsTransaction, Wrote
  <2>4. /\ x.pc = from
        /\ tx'[t] = [pc |-> to, op |-> x.op, locks |-> x.locks \cup Needs(t), read |-> x.read,
                     wrote |-> wrote, changed |-> x.changed, inserted |-> x.inserted]
        /\ Locking(t)
    BY <1>2, <1>3, <1>6, <2>2, <2>3, RunMakes
  <2>5. /\ x.op.name = "delete" /\ x.inserted = <<>> /\ DeleteWrote(x)
        /\ x.read.alerts \subseteq DOMAIN tables.alerts
        /\ CancelledIn(x, tables, x.read.alerts, NoIncident)
    BY <1>4, <1>6, <2>4 DEF KnownToDelete
  <2>6. PICK y : y = tx'[t]
    OBVIOUS
  <2>7. y = [pc |-> to, op |-> x.op, locks |-> x.locks \cup Needs(t), read |-> x.read,
             wrote |-> wrote, changed |-> x.changed, inserted |-> x.inserted]
    BY <2>4, <2>6
  <2>8. /\ DOMAIN wrote = DOMAIN x.wrote \cup {field}
        /\ wrote[field] = value
        /\ \A f \in DOMAIN x.wrote : f # field => wrote[f] = x.wrote[f]
    BY <2>1 DEF Put
  <2>9. DeleteWrote(y)
    BY <1>6, <2>5, <2>7, <2>8 DEF DeleteWrote
  <2>10. CancelledIn(y, tables, y.read.alerts, NoIncident)
    BY <2>5, <2>7 DEF CancelledIn
  <2>11. IsTransaction(y) /\ KnownToDelete(y, tables)
    BY <1>6, <2>5, <2>7, <2>9, <2>10 DEF KnownToDelete, IsTransaction
  <2> QED
    BY <2>4, <2>6, <2>11
<1>7. ASSUME NEW from, NEW to, NEW next,
             \/ from = "notified" /\ to = "state"
             \/ from = "state" /\ to = "commit",
             next = [x EXCEPT !.pc = to], Run(t, from, next)
      PROVE  IsTransaction(tx'[t]) /\ Locking(t) /\ KnownToDelete(tx'[t], tables)
  <2>1. next = [x EXCEPT !.pc = to]
    BY <1>7
  <2>2. next = [pc |-> to, op |-> x.op, locks |-> x.locks, read |-> x.read,
                wrote |-> x.wrote, changed |-> x.changed, inserted |-> x.inserted]
    BY <1>4, <2>1 DEF IsTransaction
  <2>3. /\ x.pc = from
        /\ tx'[t] = [pc |-> to, op |-> x.op, locks |-> x.locks \cup Needs(t), read |-> x.read,
                     wrote |-> x.wrote, changed |-> x.changed, inserted |-> x.inserted]
        /\ Locking(t)
    <3>1. Run(t, from, next)
      BY <1>7
    <3> QED
      BY <1>2, <1>3, <2>2, <3>1, RunMakes
  <2>4. /\ x.op.name = "delete" /\ x.inserted = <<>> /\ DeleteWrote(x)
        /\ x.read.alerts \subseteq DOMAIN tables.alerts
        /\ CancelledIn(x, tables, x.read.alerts, NoIncident)
    BY <1>4, <1>7, <2>3 DEF KnownToDelete
  <2>5. PICK y : y = tx'[t]
    OBVIOUS
  <2>6. y = [pc |-> to, op |-> x.op, locks |-> x.locks \cup Needs(t), read |-> x.read,
             wrote |-> x.wrote, changed |-> x.changed, inserted |-> x.inserted]
    BY <2>3, <2>5
  <2>7. DeleteWrote(y) /\ CancelledIn(y, tables, y.read.alerts, NoIncident)
    BY <2>4, <2>6 DEF DeleteWrote, CancelledIn
  <2>8. IsTransaction(y) /\ KnownToDelete(y, tables)
    BY <1>7, <2>4, <2>6, <2>7 DEF KnownToDelete, IsTransaction
  <2> QED
    BY <2>3, <2>5, <2>8
<1>8. CASE Run(t, "cancel", [x EXCEPT !.changed = Cancel(t, NoIncident), !.pc = "notified",
                                      !.read = [alerts |-> DOMAIN tables.alerts]])
  BY <1>1, <1>5, <1>8
<1>9. CASE Run(t, "notified", IF tables.notified = NoStatus THEN [x EXCEPT !.pc = "state"]
                              ELSE Wrote(t, "notified", NoStatus, "state"))
  <2>1. CASE tables.notified = NoStatus
    <3>1. PICK next : next = [x EXCEPT !.pc = "state"]
      OBVIOUS
    <3>2. Run(t, "notified", next)
      BY <1>9, <2>1, <3>1
    <3> QED
      BY <1>1, <1>7, <3>1, <3>2
  <2>2. CASE tables.notified # NoStatus
    <3>1. NotifiedLock \in Needs(t)
      BY <1>2, <1>9, <2>2 DEF DeleteNeeds, Run
    <3> QED
      BY <1>1, <1>6, <1>9, <2>2, <3>1
  <2> QED
    BY <2>1, <2>2
<1>10. CASE Run(t, "state", IF Exists(tables.state) THEN Wrote(t, "state", NoRow, "commit")
                            ELSE [x EXCEPT !.pc = "commit"])
  <2>1. CASE ~Exists(tables.state)
    <3>1. PICK next : next = [x EXCEPT !.pc = "commit"]
      OBVIOUS
    <3>2. Run(t, "state", next)
      BY <1>10, <2>1, <3>1
    <3> QED
      BY <1>1, <1>7, <3>1, <3>2
  <2>2. CASE Exists(tables.state)
    <3>1. StateLock \in Needs(t)
      BY <1>2, <1>10, <2>2 DEF DeleteNeeds, Run
    <3> QED
      BY <1>1, <1>6, <1>10, <2>2, <3>1
  <2> QED
    BY <2>1, <2>2
<1> QED
  BY <1>1, <1>3, <1>8, <1>9, <1>10 DEF DeleteStatement

\* The row of the alert is locked, then the baseline.
LEMMA RecordStatementKnows ==
    ASSUME DOMAIN tx = Transactions, IsTransaction(tx["record"]), Shaped(tables),
           KnownToRecord(tx["record"], tables), RecordStatement
    PROVE  IsTransaction(tx'["record"]) /\ Locking("record") /\ KnownToRecord(tx'["record"], tables)
<1>1. PICK t : t = "record"
  OBVIOUS
<1>2. t \in Transactions /\ Needs(t) = RecordNeeds(t)
  BY <1>1, NeedsOf DEF Transactions
<1>3. PICK x : x = tx[t]
  OBVIOUS
<1>4. /\ IsTransaction(x) /\ KnownToRecord(x, tables)
      /\ x.op.name = "record" /\ x.inserted = <<>> /\ x.op.alert \in DOMAIN tables.alerts
  BY <1>1, <1>3 DEF KnownToRecord
<1>5. PICK row : row = tables.alerts[x.op.alert]
  OBVIOUS
<1>6. CASE Run(t, "read", [x EXCEPT !.pc = IF row.status = "sending" THEN "update" ELSE "commit"])
  <2>1. PICK pc : pc = IF row.status = "sending" THEN "update" ELSE "commit"
    OBVIOUS
  <2>2. PICK next : next = [x EXCEPT !.pc = pc]
    OBVIOUS
  <2>3. next = [pc |-> pc, op |-> x.op, locks |-> x.locks, read |-> x.read,
                wrote |-> x.wrote, changed |-> x.changed, inserted |-> x.inserted]
    BY <1>4, <2>2 DEF IsTransaction
  <2>4. Run(t, "read", next)
    BY <1>6, <2>1, <2>2
  <2>5. /\ x.pc = "read"
        /\ tx'[t] = [pc |-> pc, op |-> x.op, locks |-> x.locks \cup Needs(t), read |-> x.read,
                     wrote |-> x.wrote, changed |-> x.changed, inserted |-> x.inserted]
        /\ Locking(t)
    BY <1>2, <1>3, <2>3, <2>4, RunMakes
  <2>6. Untouched(x) /\ x.locks = {}
    BY <1>4, <2>5 DEF KnownToRecord
  <2>7. Needs(t) = {RowLock(x.op.alert)}
    BY <1>2, <1>3, <2>5 DEF RecordNeeds
  <2> QED
    BY <1>1, <1>4, <1>5, <2>1, <2>5, <2>6, <2>7 DEF KnownToRecord, IsTransaction, Untouched
<1>7. CASE Run(t, "update", [x EXCEPT !.pc = "notified",
                  !.changed = [i \in {x.op.alert} |-> [row EXCEPT !.status = "delivered"]]])
  <2>1. PICK changed : changed = [i \in {x.op.alert} |-> [row EXCEPT !.status = "delivered"]]
    OBVIOUS
  <2>2. PICK next : next = [x EXCEPT !.pc = "notified", !.changed = changed]
    OBVIOUS
  <2>3. next = [pc |-> "notified", op |-> x.op, locks |-> x.locks, read |-> x.read,
                wrote |-> x.wrote, changed |-> changed, inserted |-> x.inserted]
    BY <1>4, <2>2 DEF IsTransaction
  <2>4. Run(t, "update", next)
    BY <1>7, <2>1, <2>2
  <2>5. /\ x.pc = "update"
        /\ tx'[t] = [pc |-> "notified", op |-> x.op, locks |-> x.locks \cup Needs(t),
                     read |-> x.read, wrote |-> x.wrote, changed |-> changed,
                     inserted |-> x.inserted]
        /\ Locking(t)
    BY <1>2, <1>3, <2>3, <2>4, RunMakes
  <2>6. Untouched(x) /\ x.locks = {RowLock(x.op.alert)} /\ row.status = "sending"
    BY <1>4, <1>5, <2>5 DEF KnownToRecord
  <2>7. Needs(t) = {}
    BY <1>2, <1>3, <2>5 DEF RecordNeeds
  <2>8. /\ DOMAIN changed = {x.op.alert}
        /\ changed[x.op.alert] = [row EXCEPT !.status = "delivered"]
    BY <2>1
  <2> QED
    BY <1>1, <1>4, <1>5, <2>5, <2>6, <2>7, <2>8
    DEF KnownToRecord, IsTransaction, Untouched, Delivered
<1>8. CASE Run(t, "notified", Wrote(t, "notified", row.transition, "commit"))
  <2>1. PICK wrote : wrote = Put(x.wrote, "notified", row.transition)
    OBVIOUS
  <2>2. PICK next : next = Wrote(t, "notified", row.transition, "commit")
    OBVIOUS
  <2>3. next = [pc |-> "commit", op |-> x.op, locks |-> x.locks, read |-> x.read,
                wrote |-> wrote, changed |-> x.changed, inserted |-> x.inserted]
    BY <1>3, <1>4, <2>1, <2>2 DEF IsTransaction, Wrote
  <2>4. /\ x.pc = "notified"
        /\ tx'[t] = [pc |-> "commit", op |-> x.op, locks |-> x.locks \cup Needs(t),
                     read |-> x.read, wrote |-> wrote, changed |-> x.changed,
                     inserted |-> x.inserted]
        /\ Locking(t)
    BY <1>2, <1>3, <1>8, <2>2, <2>3, RunMakes
  <2>5. /\ row.status = "sending" /\ DOMAIN x.wrote = {} /\ Delivered(x, tables)
        /\ x.locks = {RowLock(x.op.alert)}
    BY <1>4, <1>5, <2>4 DEF KnownToRecord
  <2>6. Needs(t) = {NotifiedLock}
    BY <1>2, <1>3, <2>4 DEF RecordNeeds
  <2>7. DOMAIN wrote = {"notified"} /\ wrote["notified"] = row.transition
    BY <2>1, <2>5 DEF Put
  <2> QED
    BY <1>1, <1>4, <1>5, <2>4, <2>5, <2>6, <2>7 DEF KnownToRecord, IsTransaction, Delivered
<1> QED
  BY <1>1, <1>3, <1>5, <1>6, <1>7, <1>8 DEF RecordStatement

-----------------------------------------------------------------------------
(* Transactions that begin *)

\* A transaction that begins has written, read and locked nothing.
LEMMA BegunFields ==
    ASSUME NEW op, NEW pc
    PROVE  Begun(op, pc) = [pc |-> pc, op |-> op, locks |-> {}, read |-> <<>>, wrote |-> <<>>,
                            changed |-> <<>>, inserted |-> <<>>]
<1>1. PICK ended : ended = Ended
  OBVIOUS
<1>2. ended = [pc |-> "ended", op |-> <<>>, locks |-> {}, read |-> <<>>, wrote |-> <<>>,
               changed |-> <<>>, inserted |-> <<>>]
  BY <1>1, Zenon DEF Ended, Nothing
<1>3. Begun(op, pc) = [ended EXCEPT !.pc = pc, !.op = op]
  BY <1>1, Zenon DEF Begun
<1> QED
  BY <1>2, <1>3

\* Nothing has no fields.
LEMMA NothingIsEmpty == DOMAIN <<>> = {}
<1>1. <<>> \in Seq({}) /\ Len(<<>>) = 0
  OBVIOUS
<1>2. \A s \in Seq({}) : Len(s) = 0 => DOMAIN s = {}
  OBVIOUS
<1> QED
  BY <1>1, <1>2, Zenon

\* An evaluation that is an incident makes the monitor UP or DOWN.
LEMMA IncidentsAreTransitions ==
    ASSUME NEW prev, NEW ok \in BOOLEAN,
           EvaluateProbe(prev, ok, Threshold).incident # NoIncident
    PROVE  Evaluated(prev, ok, Threshold).status \in Transition
<1>1. ASSUME NEW from, NEW threshold, Evaluate(from, ok, threshold).incident # NoIncident
      PROVE  Evaluate(from, ok, threshold).status \in Transition
  BY <1>1 DEF Evaluate, Transition
<1>2. \E from, threshold : EvaluateProbe(prev, ok, Threshold) = Evaluate(from, ok, threshold)
  BY Zenon DEF EvaluateProbe
<1>3. Evaluated(prev, ok, Threshold).status = EvaluateProbe(prev, ok, Threshold).status
  BY DEF Evaluated
<1> QED
  BY <1>1, <1>2, <1>3

\* A save begins with an evaluation that has become its operation.
LEMMA BeginSaveKnows ==
    ASSUME NEW t \in Saves, DOMAIN tx = Transactions, tables.state \in MonitorRow, BeginSave(t)
    PROVE  /\ IsTransaction(tx'[t]) /\ KnownToSave(tx'[t], tables) /\ tx'[t].locks = {}
           /\ DOMAIN tx' = Transactions
           /\ \A u \in Transactions \ {t} : tx'[u] = tx[u]
<1> t \in Transactions
  BY DEF Transactions
<1>1. PICK ok \in BOOLEAN, maintenance \in BOOLEAN :
          LET prev == Previous(tables.state)
              op == [name |-> "save", ok |-> ok,
                     next |-> IF maintenance THEN MaintenanceState(prev)
                              ELSE Evaluated(prev, ok, Threshold),
                     incident |-> /\ ~maintenance
                                  /\ EvaluateProbe(prev, ok, Threshold).incident # NoIncident]
          IN  tx' = [tx EXCEPT ![t] = Begun(op, "read")]
  BY DEF BeginSave
<1>2. PICK prev : prev = Previous(tables.state)
  OBVIOUS
<1>3. PICK next : next = IF maintenance THEN MaintenanceState(prev)
                         ELSE Evaluated(prev, ok, Threshold)
  OBVIOUS
<1>4. PICK incident \in BOOLEAN :
          incident = (/\ ~maintenance
                      /\ EvaluateProbe(prev, ok, Threshold).incident # NoIncident)
  OBVIOUS
<1>5. PICK op : op = [name |-> "save", ok |-> ok, next |-> next, incident |-> incident]
  OBVIOUS
<1>6. tx' = [tx EXCEPT ![t] = Begun(op, "read")]
  BY <1>1, <1>2, <1>3, <1>4, <1>5
<1>7. SaveOp(op)
  <2>1. next \in MonitorRow /\ next.status \in Status
    <3>1. prev \in MonitorRow /\ Threshold \in 1 .. MaxFailures
      BY <1>2, PreviousRow, PostgresStoreAssumption
    <3> QED
      BY <1>3, <3>1, EvaluatedRow, MaintenanceRow DEF Status
  <2> QED
    BY <1>3, <1>4, <1>5, <2>1, IncidentsAreTransitions DEF SaveOp
<1>8. tx'[t] = [pc |-> "read", op |-> op, locks |-> {}, read |-> <<>>, wrote |-> <<>>,
                changed |-> <<>>, inserted |-> <<>>]
  BY <1>6, BegunFields
<1>9. IsTransaction(tx'[t]) /\ KnownToSave(tx'[t], tables) /\ tx'[t].locks = {}
  BY <1>7, <1>8, NothingIsEmpty DEF KnownToSave, IsTransaction, Untouched
<1> QED
  BY <1>6, <1>9

\* A backfill begins without a lock.
LEMMA BeginBackfillKnows ==
    ASSUME NEW t \in Backfills, DOMAIN tx = Transactions, BeginBackfill(t)
    PROVE  /\ IsTransaction(tx'[t]) /\ KnownToBackfill(tx'[t], tables) /\ tx'[t].locks = {}
           /\ DOMAIN tx' = Transactions
           /\ \A u \in Transactions \ {t} : tx'[u] = tx[u]
<1> t \in Transactions
  BY DEF Transactions
<1>1. PICK op : op = [name |-> "backfill"]
  OBVIOUS
<1>2. tx' = [tx EXCEPT ![t] = Begun(op, "lock")]
  BY <1>1 DEF BeginBackfill
<1>3. tx'[t] = [pc |-> "lock", op |-> op, locks |-> {}, read |-> <<>>, wrote |-> <<>>,
                changed |-> <<>>, inserted |-> <<>>]
  BY <1>2, BegunFields
<1>4. IsTransaction(tx'[t]) /\ KnownToBackfill(tx'[t], tables) /\ tx'[t].locks = {}
  BY <1>1, <1>3, NothingIsEmpty DEF KnownToBackfill, IsTransaction
<1> QED
  BY <1>2, <1>4

\* A record begins with an alert that is there.
LEMMA BeginRecordKnows ==
    ASSUME NEW id, DOMAIN tx = Transactions, BeginRecord(id)
    PROVE  /\ IsTransaction(tx'["record"]) /\ KnownToRecord(tx'["record"], tables)
           /\ tx'["record"].locks = {}
           /\ DOMAIN tx' = Transactions
           /\ \A u \in Transactions \ {"record"} : tx'[u] = tx[u]
<1> "record" \in Transactions
  BY DEF Transactions
<1>1. PICK op : op = [name |-> "record", alert |-> id]
  OBVIOUS
<1>2. tx' = [tx EXCEPT !["record"] = Begun(op, "read")] /\ id \in DOMAIN tables.alerts
  BY <1>1 DEF BeginRecord, Sending
<1>3. tx'["record"] = [pc |-> "read", op |-> op, locks |-> {}, read |-> <<>>, wrote |-> <<>>,
                       changed |-> <<>>, inserted |-> <<>>]
  BY <1>2, BegunFields
<1>4. /\ IsTransaction(tx'["record"]) /\ KnownToRecord(tx'["record"], tables)
      /\ tx'["record"].locks = {}
  BY <1>1, <1>2, <1>3, NothingIsEmpty DEF KnownToRecord, IsTransaction, Untouched
<1> QED
  BY <1>2, <1>4

-----------------------------------------------------------------------------
(* What the transactions know of the tables is an invariant *)

\* What has ended holds no locks.
LEMMA EndedFields ==
    IsTransaction(Ended) /\ Ended.pc = "ended" /\ Ended.locks = {}
<1>1. PICK ended : ended = Ended
  OBVIOUS
<1>2. ended = [pc |-> "ended", op |-> <<>>, locks |-> {}, read |-> <<>>, wrote |-> <<>>,
               changed |-> <<>>, inserted |-> <<>>]
  BY <1>1, Zenon DEF Ended, Nothing
<1>3. IsTransaction(ended) /\ ended.pc = "ended" /\ ended.locks = {}
  BY <1>2 DEF IsTransaction
<1> QED
  BY <1>1, <1>3

\* A transaction that knows something is under way.
LEMMA KnowingIsNotEnded ==
    ASSUME NEW x, NEW tab,
           \/ KnownToSave(x, tab) \/ KnownToBackfill(x, tab)
           \/ KnownToDelete(x, tab) \/ KnownToRecord(x, tab)
    PROVE  x # Ended
BY EndedFields DEF KnownToSave, KnownToBackfill, KnownToDelete, KnownToRecord

Statement(t) ==
    \/ t \in Saves /\ SaveStatement(t)
    \/ t \in Backfills /\ BackfillStatement(t)
    \/ t = "delete" /\ DeleteStatement
    \/ t = "record" /\ RecordStatement

\* A statement is run by a transaction that is under way, once its locks are free.
LEMMA StatementRuns ==
    ASSUME NEW t \in Transactions, Statement(t), DOMAIN tx = Transactions
    PROVE  /\ tx[t] # Ended
           /\ Free(t, Needs(t))
           /\ tables' = tables /\ cancelled' = cancelled
           /\ DOMAIN tx' = Transactions
           /\ \A u \in Transactions \ {t} : tx'[u] = tx[u]
<1>1. \E pc, next : pc # "ended" /\ Run(t, pc, next)
  <2>1. ASSUME NEW pc, NEW next, pc # "ended", Run(t, pc, next)
        PROVE  \E p, n : p # "ended" /\ Run(t, p, n)
    BY <2>1
  <2>2. CASE t \in Saves /\ SaveStatement(t)
    BY <2>2 DEF SaveStatement, ReadStatus, WriteState, ReadInterval, WriteInterval, CancelStale,
                ReadBaseline, QueueAlert
  <2>3. CASE t \in Backfills /\ BackfillStatement(t)
    BY <2>3 DEF BackfillStatement, LockIntervals, ReadMarker, RemoveIntervals, RebuildIntervals
  <2>4. CASE t = "delete" /\ DeleteStatement
    BY <2>4 DEF DeleteStatement
  <2>5. CASE t = "record" /\ RecordStatement
    BY <2>5 DEF RecordStatement
  <2> QED
    BY <2>2, <2>3, <2>4, <2>5 DEF Statement
<1>2. PICK pc, next : pc # "ended" /\ Run(t, pc, next)
  BY <1>1
<1>3. /\ tx[t].pc = pc /\ Free(t, Needs(t))
      /\ tx' = [tx EXCEPT ![t] = [next EXCEPT !.locks = @ \cup Needs(t)]]
      /\ tables' = tables /\ cancelled' = cancelled
  BY <1>2 DEF Run
<1>4. tx[t] # Ended
  BY <1>2, <1>3, EndedFields
<1> QED
  BY <1>3, <1>4

\* A transaction that knew what it acts on does so after a statement of its own.
LEMMA StatementKnows ==
    ASSUME NEW t \in Transactions, Statement(t), StoreInv
    PROVE  Knows(t, tx'[t], tables) /\ Locking(t) /\ tx'[t] # Ended
<1>1. /\ DOMAIN tx = Transactions /\ Shaped(tables) /\ Knows(t, tx[t], tables)
      /\ IsTransaction(tx[t])
  BY DEF StoreInv, Knows
<1>2. tx[t] # Ended
  BY <1>1, StatementRuns
<1>3. CASE t \in Saves /\ SaveStatement(t)
  <2>1. KnownToSave(tx[t], tables)
    BY <1>1, <1>2, <1>3, KindsDiffer DEF Knows
  <2>2. IsTransaction(tx'[t]) /\ Locking(t) /\ KnownToSave(tx'[t], tables)
    BY <1>1, <1>3, <2>1, ReadStatusKnows, WriteStateKnows, ReadIntervalKnows, WriteIntervalKnows,
       CancelStaleKnows, ReadBaselineKnows, QueueAlertKnows DEF SaveStatement
  <2> QED
    BY <1>3, <2>2, KnowingIsNotEnded DEF Knows
<1>4. CASE t \in Backfills /\ BackfillStatement(t)
  <2>1. KnownToBackfill(tx[t], tables)
    BY <1>1, <1>2, <1>4, KindsDiffer DEF Knows
  <2>2. IsTransaction(tx'[t]) /\ Locking(t) /\ KnownToBackfill(tx'[t], tables)
    BY <1>1, <1>4, <2>1, LockIntervalsKnows, ReadMarkerKnows, RemoveIntervalsKnows,
       RebuildIntervalsKnows DEF BackfillStatement
  <2> QED
    BY <1>4, <2>2, KnowingIsNotEnded DEF Knows
<1>5. CASE t = "delete" /\ DeleteStatement
  <2>1. KnownToDelete(tx[t], tables)
    BY <1>1, <1>2, <1>5, KindsDiffer DEF Knows
  <2>2. IsTransaction(tx'[t]) /\ Locking(t) /\ KnownToDelete(tx'[t], tables)
    BY <1>1, <1>5, <2>1, DeleteStatementKnows
  <2> QED
    BY <1>5, <2>2, KnowingIsNotEnded DEF Knows
<1>6. CASE t = "record" /\ RecordStatement
  <2>1. KnownToRecord(tx[t], tables)
    BY <1>1, <1>2, <1>6, KindsDiffer DEF Knows
  <2>2. IsTransaction(tx'[t]) /\ Locking(t) /\ KnownToRecord(tx'[t], tables)
    BY <1>1, <1>6, <2>1, RecordStatementKnows
  <2> QED
    BY <1>6, <2>2, KnowingIsNotEnded DEF Knows
<1> QED
  BY <1>3, <1>4, <1>5, <1>6 DEF Statement

\* A step that leaves the tables, and locks only what is free, keeps the invariant if the
\* transactions that it changes know what they are about.
LEMMA InvKept ==
    ASSUME StoreInv, tables' = tables, DOMAIN tx' = Transactions,
           \A u \in Transactions :
              \/ tx'[u] = tx[u]
              \/ /\ Knows(u, tx'[u], tables)
                 /\ \A v \in Transactions \ {u} :
                       tx'[u].locks \cap tx[v].locks = {} /\ tx'[u].locks \cap tx'[v].locks = {},
           OneWorker'
    PROVE  StoreInv'
<1>1. Shaped(tables') /\ Typed(tables') /\ DOMAIN tx' = Transactions
  BY DEF StoreInv
<1>2. \A u \in Transactions : Knows(u, tx'[u], tables')
  BY DEF StoreInv
<1>3. Exclusive'
  BY DEF StoreInv, Exclusive
<1> QED
  BY <1>1, <1>2, <1>3 DEF StoreInv

\* Statements leave the tables and lock only what is free.
LEMMA StatementKeepsInv ==
    ASSUME NEW t \in Transactions, Statement(t), StoreInv
    PROVE  StoreInv'
<1>1. /\ DOMAIN tx = Transactions /\ Exclusive /\ OneWorker
  BY DEF StoreInv
<1>2. /\ tx[t] # Ended
      /\ Free(t, Needs(t))
      /\ tables' = tables /\ cancelled' = cancelled
      /\ DOMAIN tx' = Transactions
      /\ \A u \in Transactions \ {t} : tx'[u] = tx[u]
  BY <1>1, StatementRuns
<1>3. Knows(t, tx'[t], tables) /\ Locking(t) /\ tx'[t] # Ended
  BY StatementKnows
<1>4. \A v \in Transactions \ {t} :
          tx'[t].locks \cap tx[v].locks = {} /\ tx'[t].locks \cap tx'[v].locks = {}
  BY <1>1, <1>2, <1>3 DEF Exclusive, Free, Locking
<1>5. OneWorker'
  <2>1. \A u \in Transactions : tx'[u] # Ended <=> tx[u] # Ended
    BY <1>2, <1>3
  <2>2. Live' = Live
    BY <1>2, <2>1, KindsDiffer DEF Live
  <2> QED
    BY <1>1, <1>2, <2>1, <2>2, KindsDiffer DEF OneWorker
<1> QED
  BY <1>2, <1>3, <1>4, <1>5, InvKept

\* A save begins when no other worker is left but cancelled ones.
LEMMA BeginSaveKeepsInv ==
    ASSUME NEW t \in Saves, BeginSave(t), StoreInv
    PROVE  StoreInv'
<1>1. DOMAIN tx = Transactions /\ OneWorker /\ tables.state \in MonitorRow
  BY DEF StoreInv, Typed
<1>2. /\ IsTransaction(tx'[t]) /\ KnownToSave(tx'[t], tables) /\ tx'[t].locks = {}
      /\ DOMAIN tx' = Transactions
      /\ \A u \in Transactions \ {t} : tx'[u] = tx[u]
  BY <1>1, BeginSaveKnows
<1>3. Knows(t, tx'[t], tables)
  BY <1>2 DEF Knows
<1>4. /\ tx[t] = Ended /\ tx["delete"] = Ended /\ tables' = tables
      /\ \A u \in Saves : tx[u] # Ended => u \in cancelled
      /\ cancelled' = cancelled \ {t}
  BY DEF BeginSave
<1>5. OneWorker'
  <2>1. tx'["delete"] = Ended
    BY <1>2, <1>4, KindsDiffer
  <2>2. tx'[t] # Ended
    BY <1>2, KnowingIsNotEnded
  <2>3. cancelled' \subseteq {u \in Saves : tx'[u] # Ended}
    BY <1>1, <1>2, <1>4, <2>2, KindsDiffer DEF OneWorker
  <2>4. Live' \subseteq {t}
    BY <1>2, <1>4, KindsDiffer DEF Live
  <2> QED
    BY <2>1, <2>3, <2>4 DEF OneWorker
<1> QED
  BY <1>2, <1>3, <1>4, <1>5, InvKept

\* Transactions that begin lock nothing; the worker and its cancelled ones stay.
LEMMA BeginningKeepsInv ==
    ASSUME NEW t \in Transactions \ Saves, t # "delete", StoreInv,
           Knows(t, tx'[t], tables), tx'[t].locks = {}, DOMAIN tx' = Transactions,
           \A u \in Transactions \ {t} : tx'[u] = tx[u],
           UNCHANGED <<tables, cancelled>>
    PROVE  StoreInv'
<1>1. OneWorker
  BY DEF StoreInv
<1>2. Live' = Live /\ tx'["delete"] = tx["delete"]
  BY KindsDiffer DEF Live
<1>3. OneWorker'
  BY <1>1, <1>2, KindsDiffer DEF OneWorker
<1> QED
  BY <1>3, InvKept

\* A reload leaves no worker but cancelled ones.
LEMMA ReloadKeepsInv ==
    ASSUME Reload, StoreInv
    PROVE  StoreInv'
<1>1. /\ DOMAIN tx = Transactions /\ OneWorker /\ Exclusive
      /\ \A t \in Transactions : Knows(t, tx[t], tables)
  BY DEF StoreInv
<1>2. PICK removed \in BOOLEAN :
          tx' = [t \in Transactions |->
                    IF t \in Live /\ tx[t].pc # "commit" THEN [tx[t] EXCEPT !.pc = "failed"]
                    ELSE IF t = "delete" /\ removed THEN Begun([name |-> "delete"], "cancel")
                    ELSE tx[t]]
  BY DEF Reload
<1>3. tx["delete"] = Ended /\ tables' = tables /\ cancelled' = cancelled \cup Live
  BY DEF Reload
<1>4. ASSUME NEW t \in Live, tx[t].pc # "commit"
      PROVE  Knows(t, tx'[t], tables) /\ tx'[t].locks = tx[t].locks
  <2>1. t \in Saves /\ tx[t] # Ended
    BY <1>4 DEF Live
  <2>2. PICK x : x = tx[t]
    OBVIOUS
  <2>3. IsTransaction(x) /\ KnownToSave(x, tables)
    BY <1>1, <2>1, <2>2, KindsDiffer DEF Knows
  <2>4. tx'[t] = [x EXCEPT !.pc = "failed"]
    BY <1>2, <1>4, <2>1, <2>2, KindsDiffer
  <2>5. tx'[t] = [pc |-> "failed", op |-> x.op, locks |-> x.locks, read |-> x.read,
                  wrote |-> x.wrote, changed |-> x.changed, inserted |-> x.inserted]
    BY <2>3, <2>4 DEF IsTransaction
  <2>6. SaveOp(x.op)
    BY <2>3 DEF KnownToSave
  <2>7. IsTransaction(tx'[t]) /\ KnownToSave(tx'[t], tables) /\ tx'[t].locks = x.locks
    BY <2>5, <2>6 DEF KnownToSave, IsTransaction
  <2> QED
    BY <2>1, <2>2, <2>7 DEF Knows
<1>5. ASSUME removed
      PROVE  Knows("delete", tx'["delete"], tables) /\ tx'["delete"].locks = {}
  <2>1. PICK op : op = [name |-> "delete"]
    OBVIOUS
  <2>2. tx'["delete"] = Begun(op, "cancel")
    BY <1>2, <1>5, <2>1, KindsDiffer DEF Live
  <2>3. tx'["delete"] = [pc |-> "cancel", op |-> op, locks |-> {}, read |-> <<>>, wrote |-> <<>>,
                         changed |-> <<>>, inserted |-> <<>>]
    BY <2>2, BegunFields
  <2>4. /\ IsTransaction(tx'["delete"]) /\ KnownToDelete(tx'["delete"], tables)
        /\ tx'["delete"].locks = {}
    BY <2>1, <2>3, NothingIsEmpty DEF KnownToDelete, IsTransaction, Untouched
  <2> QED
    BY <2>4 DEF Knows
<1>6. ASSUME NEW t \in Transactions
      PROVE  \/ tx'[t] = tx[t]
             \/ Knows(t, tx'[t], tables) /\ tx'[t].locks = tx[t].locks
             \/ Knows(t, tx'[t], tables) /\ tx'[t].locks = {}
  BY <1>2, <1>4, <1>5
<1>7. OneWorker'
  <2>1. \A u \in Saves : tx'[u] # Ended <=> tx[u] # Ended
    <3>1. ASSUME NEW u \in Saves, tx[u] = Ended
          PROVE  tx'[u] = Ended
      BY <1>2, <3>1, KindsDiffer DEF Live
    <3>2. ASSUME NEW u \in Saves, tx'[u] = Ended
          PROVE  tx[u] = Ended
      <4>1. CASE u \in Live /\ tx[u].pc # "commit"
        <5>1. IsTransaction(tx[u])
          BY <1>1, KindsDiffer DEF Knows
        <5>2. tx'[u].pc = "failed"
          BY <1>2, <4>1, <5>1, KindsDiffer DEF IsTransaction
        <5> QED
          BY <3>2, <5>2, EndedFields
      <4>2. CASE ~(u \in Live /\ tx[u].pc # "commit")
        BY <1>2, <3>2, <4>2, KindsDiffer
      <4> QED
        BY <4>1, <4>2
    <3> QED
      BY <3>1, <3>2
  <2>2. Live' = {}
    BY <1>3, <2>1 DEF Live
  <2>3. cancelled' \subseteq {u \in Saves : tx'[u] # Ended}
    BY <1>1, <1>3, <2>1 DEF OneWorker, Live
  <2> QED
    BY <2>2, <2>3 DEF OneWorker
<1>8. DOMAIN tx' = Transactions
  BY <1>2
<1>9. \A u, v \in Transactions : u # v => /\ tx'[u].locks \cap tx[v].locks = {}
                                          /\ tx'[u].locks \cap tx'[v].locks = {}
  BY <1>1, <1>6 DEF Exclusive
<1> QED
  BY <1>3, <1>6, <1>7, <1>8, <1>9, InvKept

\* A claim is not done while somebody has the row.
LEMMA ClaimKeepsInv ==
    ASSUME NEW id \in DOMAIN tables.alerts, Claim(id), StoreInv
    PROVE  StoreInv'
<1>1. /\ Shaped(tables) /\ Typed(tables) /\ DOMAIN tx = Transactions /\ OneWorker /\ Exclusive
      /\ \A t \in Transactions : Knows(t, tx[t], tables)
  BY DEF StoreInv
<1>2. tx' = tx /\ cancelled' = cancelled /\ tx["record"] = Ended /\ Free("record", {RowLock(id)})
  BY DEF Claim
<1>3. Shaped(tables') /\ Within({RowLock(id)}, tables, tables')
  BY <1>1, ClaimIsWithin
<1>4. ASSUME NEW t \in Transactions
      PROVE  Knows(t, tx[t], tables')
  <2>1. tx[t].locks \cap {RowLock(id)} = {}
    BY <1>2, EndedFields DEF Free
  <2>2. tables.backfilled \in BOOLEAN /\ tables'.backfilled \in BOOLEAN
    BY <1>1, <1>3 DEF Shaped
  <2> QED
    BY <1>1, <1>3, <2>1, <2>2, KnowsStays
<1>5. Exclusive' /\ OneWorker'
  BY <1>1, <1>2 DEF Exclusive, OneWorker, Live
<1>6. Typed(tables')
  BY <1>1 DEF Claim, Shaped, Typed
<1> QED
  BY <1>1, <1>2, <1>3, <1>4, <1>5, <1>6 DEF StoreInv

\* A commit changes only what nobody else has locked.
LEMMA CommitKeepsInv ==
    ASSUME NEW t \in Transactions, Commit(t), StoreInv
    PROVE  StoreInv'
<1>1. /\ Shaped(tables) /\ Typed(tables) /\ DOMAIN tx = Transactions /\ OneWorker /\ Exclusive
      /\ \A u \in Transactions : Knows(u, tx[u], tables)
  BY DEF StoreInv
<1>2. tx' = [tx EXCEPT ![t] = Ended] /\ cancelled' = cancelled \ {t}
  BY DEF Commit
<1>3. Shaped(tables') /\ Typed(tables') /\ Within(tx[t].locks, tables, tables')
  BY <1>1, CommitIsWithin, CommitIsTyped
<1>4. ASSUME NEW u \in Transactions \ {t}
      PROVE  Knows(u, tx[u], tables')
  <2>1. tx[u].locks \cap tx[t].locks = {}
    BY <1>1 DEF Exclusive
  <2>2. tables.backfilled \in BOOLEAN /\ tables'.backfilled \in BOOLEAN
    BY <1>1, <1>3 DEF Shaped
  <2> QED
    BY <1>1, <1>3, <2>1, <2>2, KnowsStays
<1>5. \A u \in Transactions : Knows(u, tx'[u], tables')
  BY <1>1, <1>2, <1>4, EndedFields DEF Knows
<1>6. Exclusive'
  BY <1>1, <1>2, EndedFields DEF Exclusive
<1>7. OneWorker'
  BY <1>1, <1>2, KindsDiffer DEF OneWorker, Live
<1> QED
  BY <1>1, <1>2, <1>3, <1>5, <1>6, <1>7 DEF StoreInv

\* Nothing is changed by a transaction that is rolled back.
LEMMA RollbackKeepsInv ==
    ASSUME NEW t \in Transactions, Rollback(t), StoreInv
    PROVE  StoreInv'
<1>1. /\ Shaped(tables) /\ Typed(tables) /\ DOMAIN tx = Transactions /\ OneWorker /\ Exclusive
      /\ \A u \in Transactions : Knows(u, tx[u], tables)
  BY DEF StoreInv
<1>2. tx' = [tx EXCEPT ![t] = Ended] /\ cancelled' = cancelled \ {t} /\ tables' = tables
  BY DEF Rollback
<1>3. \A u \in Transactions : Knows(u, tx'[u], tables')
  BY <1>1, <1>2, EndedFields DEF Knows
<1>4. Exclusive'
  BY <1>1, <1>2, EndedFields DEF Exclusive
<1>5. OneWorker'
  BY <1>1, <1>2, KindsDiffer DEF OneWorker, Live
<1> QED
  BY <1>1, <1>2, <1>3, <1>4, <1>5 DEF StoreInv

\* At the start no transaction is under way.
LEMMA InitHasInv == Init => StoreInv
<1> SUFFICES ASSUME Init
             PROVE  StoreInv
  OBVIOUS
<1>1. tables \in Tables /\ tx = [t \in Transactions |-> Ended] /\ cancelled = {}
  BY PostgresStoreAssumption DEF Init
<1>2. Shaped(tables) /\ Typed(tables)
  BY <1>1 DEF Shaped, Typed, Tables
<1>3. \A t \in Transactions : tx[t] = Ended /\ tx[t].locks = {}
  BY <1>1, EndedFields, Zenon
<1>4. \A t \in Transactions : Knows(t, tx[t], tables)
  BY <1>3, EndedFields DEF Knows
<1>5. Exclusive
  BY <1>3 DEF Exclusive
<1>6. Live = {}
  BY <1>3, KindsDiffer DEF Live
<1>7. OneWorker
  BY <1>1, <1>6 DEF OneWorker
<1> QED
  BY <1>1, <1>2, <1>4, <1>5, <1>7 DEF StoreInv

\* Every step keeps the invariant.
LEMMA NextKeepsInv == StoreInv /\ [Next]_vars => StoreInv'
<1> SUFFICES ASSUME StoreInv, [Next]_vars
             PROVE  StoreInv'
  OBVIOUS
<1>1. DOMAIN tx = Transactions
  BY DEF StoreInv
<1>2. CASE UNCHANGED vars
  BY <1>2 DEF vars, StoreInv, Exclusive, OneWorker, Live
<1>3. ASSUME NEW t \in Saves, BeginSave(t) \/ SaveStatement(t)
      PROVE  StoreInv'
  BY <1>3, BeginSaveKeepsInv, StatementKeepsInv, KindsDiffer DEF Statement
<1>4. ASSUME NEW t \in Backfills, BeginBackfill(t) \/ BackfillStatement(t)
      PROVE  StoreInv'
  <2>1. CASE BeginBackfill(t)
    <3>1. /\ Knows(t, tx'[t], tables) /\ tx'[t].locks = {}
          /\ DOMAIN tx' = Transactions
          /\ \A u \in Transactions \ {t} : tx'[u] = tx[u]
          /\ UNCHANGED <<tables, cancelled>>
      BY <1>1, <2>1, BeginBackfillKnows DEF Knows, BeginBackfill
    <3>2. t \in Transactions \ Saves /\ t # "delete"
      BY KindsDiffer
    <3> QED
      BY <3>1, <3>2, BeginningKeepsInv
  <2>2. CASE BackfillStatement(t)
    BY <2>2, StatementKeepsInv, KindsDiffer DEF Statement
  <2> QED
    BY <1>4, <2>1, <2>2
<1>5. CASE Reload
  BY <1>5, ReloadKeepsInv
<1>6. CASE DeleteStatement
  BY <1>6, StatementKeepsInv, KindsDiffer DEF Statement
<1>7. ASSUME NEW id \in DOMAIN tables.alerts, Claim(id) \/ BeginRecord(id)
      PROVE  StoreInv'
  <2>1. CASE BeginRecord(id)
    <3>1. /\ Knows("record", tx'["record"], tables) /\ tx'["record"].locks = {}
          /\ DOMAIN tx' = Transactions
          /\ \A u \in Transactions \ {"record"} : tx'[u] = tx[u]
          /\ UNCHANGED <<tables, cancelled>>
      BY <1>1, <2>1, BeginRecordKnows DEF Knows, BeginRecord
    <3>2. "record" \in Transactions \ Saves /\ "record" # "delete"
      BY KindsDiffer
    <3> QED
      BY <3>1, <3>2, BeginningKeepsInv
  <2>2. CASE Claim(id)
    BY <2>2, ClaimKeepsInv
  <2> QED
    BY <1>7, <2>1, <2>2
<1>8. CASE RecordStatement
  BY <1>8, StatementKeepsInv, KindsDiffer DEF Statement
<1>9. ASSUME NEW t \in Transactions, Commit(t) \/ Rollback(t)
      PROVE  StoreInv'
  BY <1>9, CommitKeepsInv, RollbackKeepsInv
<1> QED
  BY <1>2, <1>3, <1>4, <1>5, <1>6, <1>7, <1>8, <1>9 DEF Next

\* At any time every transaction knows of the tables what it acts on, no lock is held by two,
\* and one worker at most saves for the monitor, none while the monitor is removed.
THEOREM TransactionsKnow == Spec => []StoreInv
<1>1. Init => StoreInv
  BY InitHasInv
<1>2. StoreInv /\ [Next]_vars => StoreInv'
  BY NextKeepsInv
<1> QED
  BY <1>1, <1>2, PTL DEF Spec

\* The reloads are counted.
Counted == reloads \in 0 .. MaxReloads

\* The tables are well-formed, whatever transactions do to them, what has ended has nothing
\* left, and no lock is held twice.
THEOREM TypeCorrect == Spec => []TypeOK
<1>1. Init => Counted
  BY PostgresStoreAssumption DEF Init, Counted
<1>2. Counted /\ [Next]_vars => Counted'
  <2> SUFFICES ASSUME [Next]_vars, reloads \in 0 .. MaxReloads
               PROVE  reloads' \in 0 .. MaxReloads
    BY DEF Counted
  <2>1. reloads' = reloads \/ (reloads < MaxReloads /\ reloads' = reloads + 1)
    <3>1. ASSUME NEW t, NEW pc, NEW next, Run(t, pc, next)
          PROVE  reloads' = reloads
      BY <3>1 DEF Run
    <3>2. CASE UNCHANGED vars
      BY <3>2 DEF vars
    <3>3. ASSUME NEW t \in Saves, BeginSave(t) \/ SaveStatement(t)
          PROVE  reloads' = reloads
      BY <3>1, <3>3 DEF BeginSave, SaveStatement, ReadStatus, WriteState, ReadInterval,
                        WriteInterval, CancelStale, ReadBaseline, QueueAlert
    <3>4. ASSUME NEW t \in Backfills, BeginBackfill(t) \/ BackfillStatement(t)
          PROVE  reloads' = reloads
      BY <3>1, <3>4 DEF BeginBackfill, BackfillStatement, LockIntervals, ReadMarker,
                        RemoveIntervals, RebuildIntervals
    <3>5. CASE Reload
      BY <3>5 DEF Reload
    <3>6. CASE DeleteStatement
      BY <3>1, <3>6 DEF DeleteStatement
    <3>7. ASSUME NEW id \in DOMAIN tables.alerts, Claim(id) \/ BeginRecord(id)
          PROVE  reloads' = reloads
      BY <3>7 DEF Claim, BeginRecord
    <3>8. CASE RecordStatement
      BY <3>1, <3>8 DEF RecordStatement
    <3>9. ASSUME NEW t \in Transactions, Commit(t) \/ Rollback(t)
          PROVE  reloads' = reloads
      BY <3>9 DEF Commit, Rollback
    <3> QED
      BY <3>2, <3>3, <3>4, <3>5, <3>6, <3>7, <3>8, <3>9 DEF Next
  <2> QED
    BY <2>1, PostgresStoreAssumption
<1>3. StoreInv /\ Counted => TypeOK
  <2> SUFFICES ASSUME StoreInv, Counted
               PROVE  TypeOK
    OBVIOUS
  <2>1. tables \in Tables
    BY DEF StoreInv, Shaped, Typed, Tables
  <2>2. ASSUME NEW t \in Transactions, tx[t].pc = "ended"
        PROVE  tx[t] = Ended
    <3>1. Knows(t, tx[t], tables)
      BY DEF StoreInv
    <3> QED
      BY <2>2, <3>1 DEF Knows, KnownToSave, KnownToBackfill, KnownToDelete, KnownToRecord
  <2> QED
    BY <2>1, <2>2 DEF StoreInv, Exclusive, OneWorker, Counted, TypeOK
<1> QED
  BY <1>1, <1>2, <1>3, TransactionsKnow, PTL DEF Spec

\* The intervals that a rebuild removes are all that are there when it inserts its own.
THEOREM RebuildsNeverConflict == Spec => []RebuildNeverConflicts
<1>1. StoreInv => RebuildNeverConflicts
  <2>1. ASSUME StoreInv, NEW t \in Backfills
        PROVE  tx[t].pc # "failed"
    BY <2>1, KindsDiffer, EndedFields DEF StoreInv, Knows, KnownToBackfill
  <2> QED
    BY <2>1 DEF RebuildNeverConflicts
<1> QED
  BY <1>1, TransactionsKnow, PTL

-----------------------------------------------------------------------------
(* Nobody waits for each other *)

\* The locks on rows that a statement asks for are those of pending alerts.
LEMMA NeededRowsArePending ==
    ASSUME StoreInv, NEW t \in Transactions \ {"record"}, tx[t] # Ended,
           NEW id, RowLock(id) \in Needs(t)
    PROVE  id \in DOMAIN tables.alerts /\ tables.alerts[id].status = "pending"
<1>1. Knows(t, tx[t], tables) /\ tables.alerts \in Seq(Alert)
  BY DEF StoreInv, Shaped
<1>2. ASSUME NEW keep, id \in Cancelling(t, keep),
             \A i \in DOMAIN tx[t].changed : tx[t].changed[i].status = "cancelled"
      PROVE  id \in DOMAIN tables.alerts /\ tables.alerts[id].status = "pending"
  BY <1>2 DEF Cancelling, Stale, AlertView
<1>3. CASE t \in Saves
  <2>1. KnownToSave(tx[t], tables) /\ Needs(t) = SaveNeeds(t)
    BY <1>1, <1>3, KindsDiffer, NeedsOf DEF Knows
  <2>2. CASE tx[t].pc = "cancel"
    <3>1. id \in Cancelling(t, tx[t].op.next.status)
      BY <2>1, <2>2, LocksDiffer DEF SaveNeeds
    <3>2. DOMAIN tx[t].changed = {}
      BY <2>1, <2>2 DEF KnownToSave
    <3> QED
      BY <1>2, <3>1, <3>2
  <2>3. CASE tx[t].pc = "queue"
    <3>1. id \in Cancelling(t, NoIncident)
      BY <2>1, <2>3, LocksDiffer DEF SaveNeeds
    <3>2. CancelledIn(tx[t], tables, DOMAIN tables.alerts, tx[t].op.next.status)
      BY <2>1, <2>3 DEF KnownToSave
    <3>3. \A i \in DOMAIN tx[t].changed : tx[t].changed[i].status = "cancelled"
      BY <1>1, <3>2, CancelledInRows
    <3> QED
      BY <1>2, <3>1, <3>3
  <2>4. CASE tx[t].pc \notin {"cancel", "queue"}
    BY <2>1, <2>4, LocksDiffer DEF SaveNeeds
  <2> QED
    BY <2>2, <2>3, <2>4
<1>4. CASE t \in Backfills
  BY <1>4, NeedsOf, LocksDiffer DEF BackfillNeeds
<1>5. CASE t = "delete"
  <2>1. KnownToDelete(tx[t], tables) /\ Needs(t) = DeleteNeeds(t)
    BY <1>1, <1>5, KindsDiffer, NeedsOf DEF Knows
  <2>2. CASE tx[t].pc = "cancel"
    <3>1. id \in Cancelling(t, NoIncident)
      BY <2>1, <2>2, LocksDiffer DEF DeleteNeeds
    <3>2. DOMAIN tx[t].changed = {}
      BY <2>1, <2>2 DEF KnownToDelete, Untouched
    <3> QED
      BY <1>2, <3>1, <3>2
  <2>3. CASE tx[t].pc # "cancel"
    BY <2>1, <2>3, LocksDiffer DEF DeleteNeeds
  <2> QED
    BY <2>2, <2>3
<1> QED
  BY <1>3, <1>4, <1>5 DEF Transactions

\* A backfill that waits holds nothing, and a record that waits holds at most the row of an
\* alert that is being sent, which nobody asks for.
LEMMA WaitersAreNotWaitedFor ==
    ASSUME StoreInv, NEW t \in Transactions, tx[t] # Ended,
           NEW u \in (Backfills \cup {"record"}) \ {t}, Waiting(u)
    PROVE  tx[u].locks \cap Needs(t) = {}
<1>1. Knows(u, tx[u], tables) /\ tx[u] # Ended /\ Needs(u) # {}
  BY KindsDiffer DEF StoreInv, Waiting, Free
<1>2. CASE u \in Backfills
  <2>1. KnownToBackfill(tx[u], tables) /\ tx[u].pc = "lock"
    BY <1>1, <1>2, KindsDiffer, NeedsOf DEF Knows, BackfillNeeds
  <2> QED
    BY <2>1 DEF KnownToBackfill
<1>3. CASE u = "record"
  <2>1. KnownToRecord(tx[u], tables) /\ tx[u].pc \in {"read", "notified"}
    BY <1>1, <1>3, KindsDiffer, NeedsOf DEF Knows, RecordNeeds
  <2>2. CASE tx[u].pc = "read"
    BY <2>1, <2>2 DEF KnownToRecord
  <2>3. CASE tx[u].pc = "notified"
    <3>1. PICK id : id = tx[u].op.alert
      OBVIOUS
    <3>2. tx[u].locks = {RowLock(id)} /\ tables.alerts[id].status = "sending"
      BY <2>1, <2>3, <3>1 DEF KnownToRecord
    <3>3. RowLock(id) \notin Needs(t)
      BY <1>3, <3>2, NeededRowsArePending
    <3> QED
      BY <3>2, <3>3
  <2> QED
    BY <2>1, <2>2, <2>3
<1> QED
  BY <1>2, <1>3

\* Only the one worker, or the removal, is waited for while it waits itself: no transactions
\* of the daemon and the commands wait in a circle.
THEOREM NobodyWaitsInACircle == Spec => []NoWaitCycle
<1>1. ASSUME StoreInv
      PROVE  NoWaitCycle
  <2> SUFFICES ASSUME NEW some \in SUBSET {t \in Transactions : Waiting(t)}, some # {}
               PROVE  \E t \in some : WaitsFor(t) \cap some = {}
    BY DEF NoWaitCycle
  <2>1. \A t \in some : t \in Transactions /\ Waiting(t) /\ tx[t] # Ended
    BY DEF Waiting
  <2>2. ASSUME NEW t \in some, NEW u \in WaitsFor(t) \cap some
        PROVE  u # t /\ u \in Live \cup {"delete"}
    <3>1. u \in Transactions /\ u # t /\ tx[u].locks \cap Needs(t) # {} /\ Waiting(u)
      BY <2>1, <2>2 DEF WaitsFor
    <3>2. u \notin Backfills \cup {"record"}
      BY <1>1, <2>1, <3>1, WaitersAreNotWaitedFor
    <3> QED
      BY <3>1, <3>2 DEF Transactions, Live, Waiting
  <2>3. \A t, u \in some \cap (Live \cup {"delete"}) : t = u
    BY <1>1, <2>1 DEF StoreInv, OneWorker
  <2>4. CASE some \cap (Live \cup {"delete"}) = {}
    BY <2>2, <2>4
  <2>5. CASE some \cap (Live \cup {"delete"}) # {}
    <3>1. PICK t \in some : t \in Live \cup {"delete"}
      BY <2>5
    <3>2. WaitsFor(t) \cap some = {}
      BY <2>2, <2>3, <3>1
    <3> QED
      BY <3>2
  <2> QED
    BY <2>4, <2>5
<1> QED
  BY <1>1, TransactionsKnow, PTL

-----------------------------------------------------------------------------
(* A commit is what the operation would do at once *)

\* Alerts without the stale ones are alerts, and cancelling all that are pending makes up for
\* cancelling some before.
LEMMA WithoutStaleTwice ==
    ASSUME NEW alerts \in Seq(Alert), NEW keep
    PROVE  WithoutStale(WithoutStale(alerts, keep), NoIncident) = WithoutStale(alerts, NoIncident)
<1>1. PICK once : once = WithoutStale(alerts, keep)
  OBVIOUS
<1>2. /\ DOMAIN once = DOMAIN alerts
      /\ \A id \in DOMAIN alerts :
            once[id] = IF Stale(alerts[id], keep) THEN [alerts[id] EXCEPT !.status = "cancelled"]
                       ELSE alerts[id]
  BY <1>1, Zenon DEF WithoutStale
<1>3. ASSUME NEW id \in DOMAIN alerts
      PROVE  (IF Stale(once[id], NoIncident) THEN [once[id] EXCEPT !.status = "cancelled"]
              ELSE once[id])
             = IF Stale(alerts[id], NoIncident) THEN [alerts[id] EXCEPT !.status = "cancelled"]
               ELSE alerts[id]
  <2>1. PICK alert : alert = alerts[id]
    OBVIOUS
  <2>2. alert \in Alert
    BY <2>1
  <2>3. PICK told : told = [alert EXCEPT !.status = "cancelled"]
    OBVIOUS
  <2>4. told.status = "cancelled"
    BY <2>2, <2>3 DEF Alert
  <2>5. CASE Stale(alert, keep)
    <3>1. once[id] = told
      BY <1>2, <2>1, <2>3, <2>5
    <3>2. ~Stale(told, NoIncident)
      BY <2>4 DEF Stale
    <3>3. Stale(alert, NoIncident)
      BY <2>2, <2>5 DEF Stale, Alert, Transition, NoIncident
    <3> QED
      BY <2>1, <2>3, <3>1, <3>2, <3>3, Zenon
  <2>6. CASE ~Stale(alert, keep)
    BY <1>2, <2>1, <2>6
  <2> QED
    BY <2>5, <2>6
<1>4. WithoutStale(once, NoIncident)
          = [id \in DOMAIN alerts |->
                IF Stale(once[id], NoIncident) THEN [once[id] EXCEPT !.status = "cancelled"]
                ELSE once[id]]
  BY <1>2, Zenon DEF WithoutStale
<1>5. WithoutStale(once, NoIncident) = WithoutStale(alerts, NoIncident)
  BY <1>3, <1>4, Zenon DEF WithoutStale
<1> QED
  BY <1>1, <1>5

\* The alerts as a transaction sees them that has cancelled the pending ones.
LEMMA ViewIsWithoutStale ==
    ASSUME NEW t \in Transactions, NEW keep,
           CancelledIn(tx[t], tables, DOMAIN tables.alerts, keep)
    PROVE  AlertView(t) = WithoutStale(tables.alerts, keep)
<1>1. ASSUME NEW id \in DOMAIN tables.alerts
      PROVE  (IF id \in DOMAIN tx[t].changed THEN tx[t].changed[id] ELSE tables.alerts[id])
             = IF Stale(tables.alerts[id], keep)
               THEN [tables.alerts[id] EXCEPT !.status = "cancelled"] ELSE tables.alerts[id]
  BY <1>1, Zenon DEF CancelledIn
<1> QED
  BY <1>1, Zenon DEF AlertView, WithoutStale

\* A commit is the only step that ends a transaction and changes the tables.
LEMMA ChangesAreCommits ==
    ASSUME StoreInv, [Next]_vars, NEW t \in Transactions,
           tx[t].pc = "commit", tx'[t] = Ended, tables' # tables
    PROVE  Commit(t)
<1>1. DOMAIN tx = Transactions /\ tx[t] # Ended
  BY EndedFields DEF StoreInv
<1>2. CASE UNCHANGED vars
  BY <1>2 DEF vars
<1>3. ASSUME NEW u \in Transactions, Statement(u)
      PROVE  FALSE
  BY <1>1, <1>3, StatementRuns
<1>4. ASSUME NEW u \in Saves, BeginSave(u) \/ SaveStatement(u)
      PROVE  FALSE
  BY <1>3, <1>4, KindsDiffer DEF Statement, BeginSave
<1>5. ASSUME NEW u \in Backfills, BeginBackfill(u) \/ BackfillStatement(u)
      PROVE  FALSE
  BY <1>3, <1>5, KindsDiffer DEF Statement, BeginBackfill
<1>6. CASE Reload
  BY <1>6 DEF Reload
<1>7. CASE DeleteStatement
  BY <1>3, <1>7, KindsDiffer DEF Statement
<1>8. ASSUME NEW id \in DOMAIN tables.alerts, Claim(id) \/ BeginRecord(id)
      PROVE  FALSE
  BY <1>1, <1>8 DEF Claim, BeginRecord
<1>9. CASE RecordStatement
  BY <1>3, <1>9, KindsDiffer DEF Statement
<1>10. ASSUME NEW u \in Transactions, Commit(u) \/ Rollback(u)
       PROVE  Commit(t)
  <2>1. CASE Rollback(u)
    BY <2>1 DEF Rollback
  <2>2. CASE Commit(u)
    <3>1. tx' = [tx EXCEPT ![u] = Ended]
      BY <2>2 DEF Commit
    <3>2. u = t
      BY <1>1, <3>1
    <3> QED
      BY <2>2, <3>2
  <2> QED
    BY <1>10, <2>1, <2>2
<1> QED
  BY <1>2, <1>4, <1>5, <1>6, <1>7, <1>8, <1>9, <1>10 DEF Next

\* A record that finds the alert settled changes nothing; any other settles it.
LEMMA RecordIsAtOnce ==
    ASSUME StoreInv, Commit("record"), tables' # tables
    PROVE  tables' = AtOnce("record")
<1>1. Shaped(tables) /\ Knows("record", tx["record"], tables)
  BY KindsDiffer DEF StoreInv
<1>2. PICK x : x = tx["record"]
  OBVIOUS
<1>3. /\ IsTransaction(x) /\ KnownToRecord(x, tables) /\ x.pc = "commit"
      /\ x.op.alert \in DOMAIN tables.alerts /\ x.inserted = <<>> /\ x.op.name = "record"
  BY <1>1, <1>2, KindsDiffer, EndedFields DEF Knows, Commit, KnownToRecord
<1>4. PICK id : id = x.op.alert
  OBVIOUS
<1>5. tables.alerts[id] \in Alert /\ tables.alerts \in Seq(Alert)
  BY <1>1, <1>3, <1>4 DEF Shaped
<1>6. DOMAIN x.changed = {} \/ Delivered(x, tables)
  BY <1>3 DEF KnownToRecord, Untouched
<1>7. \A i \in DOMAIN x.changed : x.changed[i] \in Alert
  <2>1. CASE Delivered(x, tables)
    BY <1>4, <1>5, <2>1 DEF Delivered, Alert
  <2> QED
    BY <1>6, <2>1
<1>8. PICK view : view = AlertView("record")
  OBVIOUS
<1>9. /\ view \in Seq(Alert)
      /\ DOMAIN view = DOMAIN tables.alerts
      /\ \A i \in DOMAIN tables.alerts :
            view[i] = IF i \in DOMAIN x.changed THEN x.changed[i] ELSE tables.alerts[i]
      /\ tables' = [state |-> View("record", "state"), probes |-> View("record", "probes"),
                    intervals |-> View("record", "intervals"),
                    backfilled |-> View("record", "backfilled"),
                    alerts |-> view, notified |-> View("record", "notified")]
  BY <1>1, <1>2, <1>3, <1>7, <1>8, KindsDiffer, OtherCommits
<1>10. CASE Untouched(x)
  <2>1. view = tables.alerts
    BY <1>5, <1>9, <1>10 DEF Untouched
  <2>2. tables' = [state |-> tables.state, probes |-> tables.probes,
                   intervals |-> tables.intervals, backfilled |-> tables.backfilled,
                   alerts |-> tables.alerts, notified |-> tables.notified]
    BY <1>2, <1>9, <1>10, <2>1 DEF Untouched, View
  <2> QED
    BY <1>1, <2>2 DEF Shaped
<1>11. CASE ~Untouched(x)
  <2>1. /\ tables.alerts[id].status = "sending" /\ Delivered(x, tables)
        /\ DOMAIN x.wrote = {"notified"} /\ x.wrote.notified = tables.alerts[id].transition
    BY <1>3, <1>4, <1>11 DEF KnownToRecord
  <2>2. PICK row : row = [tables.alerts[id] EXCEPT !.status = "delivered"]
    OBVIOUS
  <2>3. PICK alerts : alerts = [tables.alerts EXCEPT ![id] = row]
    OBVIOUS
  <2>4. /\ DOMAIN x.changed = {id} /\ x.changed[id] = row
    BY <1>4, <2>1, <2>2 DEF Delivered
  <2>5. view = alerts
    <3>1. alerts \in Seq(Alert) /\ Len(alerts) = Len(tables.alerts)
      BY <1>3, <1>4, <1>5, <1>7, <2>3, <2>4
    <3>2. \A i \in DOMAIN tables.alerts : alerts[i] = view[i]
      BY <1>9, <2>3, <2>4
    <3>3. Len(view) = Len(tables.alerts)
      BY <1>5, <1>9
    <3> QED
      BY <1>5, <1>9, <3>1, <3>2, <3>3
  <2>6. tables' = [state |-> tables.state, probes |-> tables.probes,
                   intervals |-> tables.intervals, backfilled |-> tables.backfilled,
                   alerts |-> alerts, notified |-> tables.alerts[id].transition]
    BY <1>2, <1>9, <2>1, <2>5 DEF View
  <2>7. AtOnce("record") = [tables EXCEPT !.alerts = alerts, !.notified = tables.alerts[id].transition]
    <3>1. AtOnce("record") = Apply(tables, x.op)
      BY <1>2, KindsDiffer DEF AtOnce
    <3>2. Apply(tables, x.op) = Record(tables, id)
      BY <1>3, <1>4 DEF Apply
    <3>3. Record(tables, id) = [tables EXCEPT !.alerts[id].status = "delivered",
                                              !.notified = tables.alerts[id].transition]
      BY <2>1 DEF Record
    <3> QED
      BY <2>2, <2>3, <3>1, <3>2, <3>3
  <2> QED
    BY <1>1, <2>6, <2>7 DEF Shaped
<1> QED
  BY <1>10, <1>11

\* A backfill is the one of the probes that it read.
LEMMA BackfillIsAtOnce ==
    ASSUME StoreInv, NEW t \in Backfills, Commit(t), tables' # tables
    PROVE  tables' = AtOnce(t)
<1>1. Shaped(tables) /\ Knows(t, tx[t], tables)
  BY KindsDiffer DEF StoreInv
<1>2. PICK x : x = tx[t]
  OBVIOUS
<1>3. /\ IsTransaction(x) /\ KnownToBackfill(x, tables) /\ x.pc = "commit"
      /\ DOMAIN x.changed = {} /\ x.inserted = <<>> /\ x.op.name = "backfill"
  BY <1>1, <1>2, KindsDiffer, EndedFields DEF Knows, Commit, KnownToBackfill
<1>4. PICK view : view = AlertView(t)
  OBVIOUS
<1>5. /\ view \in Seq(Alert)
      /\ DOMAIN view = DOMAIN tables.alerts
      /\ \A i \in DOMAIN tables.alerts : view[i] = tables.alerts[i]
      /\ tables' = [state |-> View(t, "state"), probes |-> View(t, "probes"),
                    intervals |-> View(t, "intervals"), backfilled |-> View(t, "backfilled"),
                    alerts |-> view, notified |-> View(t, "notified")]
  BY <1>1, <1>2, <1>3, <1>4, KindsDiffer, OtherCommits
<1>6. view = tables.alerts
  BY <1>1, <1>5 DEF Shaped
<1>7. CASE tables.backfilled
  <2>1. tables' = [state |-> tables.state, probes |-> tables.probes,
                   intervals |-> tables.intervals, backfilled |-> tables.backfilled,
                   alerts |-> tables.alerts, notified |-> tables.notified]
    BY <1>2, <1>3, <1>5, <1>6, <1>7 DEF KnownToBackfill, View
  <2> QED
    BY <1>1, <2>1 DEF Shaped
<1>8. CASE ~tables.backfilled
  <2>1. PICK probes : probes = SubSeq(tables.probes, 1, x.read.probes)
    OBVIOUS
  <2>2. PICK intervals : intervals = IntervalsOf(probes)
    OBVIOUS
  <2>3. /\ DOMAIN x.wrote = {"intervals", "backfilled"}
        /\ x.wrote.backfilled = TRUE /\ x.wrote.intervals = intervals
    BY <1>3, <1>8, <2>1, <2>2 DEF KnownToBackfill
  <2>4. tables' = [state |-> tables.state, probes |-> tables.probes, intervals |-> intervals,
                   backfilled |-> TRUE, alerts |-> tables.alerts, notified |-> tables.notified]
    BY <1>2, <1>5, <1>6, <2>3 DEF View
  <2>5. PICK before : before = [tables EXCEPT !.probes = probes]
    OBVIOUS
  <2>6. before = [state |-> tables.state, probes |-> probes, intervals |-> tables.intervals,
                  backfilled |-> tables.backfilled, alerts |-> tables.alerts,
                  notified |-> tables.notified]
    BY <1>1, <2>5 DEF Shaped
  <2>7. AtOnce(t) = [Apply(before, x.op) EXCEPT !.probes = tables.probes]
    BY <1>2, <1>8, <2>1, <2>5, KindsDiffer DEF AtOnce
  <2>8. PICK after : after = Apply(before, x.op)
    OBVIOUS
  <2>9. after = [before EXCEPT !.intervals = IntervalsOf(before.probes), !.backfilled = TRUE]
    <3>1. after = Backfill(before)
      BY <1>3, <2>8 DEF Apply
    <3>2. ~before.backfilled
      BY <1>8, <2>6
    <3> QED
      BY <3>1, <3>2, Zenon DEF Backfill
  <2>10. after = [state |-> tables.state, probes |-> probes, intervals |-> intervals,
                  backfilled |-> TRUE, alerts |-> tables.alerts, notified |-> tables.notified]
    BY <2>2, <2>6, <2>9
  <2>11. PICK new : new = [after EXCEPT !.probes = tables.probes]
    OBVIOUS
  <2>12. new = [state |-> tables.state, probes |-> tables.probes, intervals |-> intervals,
                backfilled |-> TRUE, alerts |-> tables.alerts, notified |-> tables.notified]
    BY <2>10, <2>11
  <2>13. AtOnce(t) = new
    BY <2>7, <2>8, <2>11, Zenon
  <2> QED
    BY <2>4, <2>12, <2>13, Zenon
<1> QED
  BY <1>7, <1>8

\* A removal is one that misses the rows that it has not seen.
LEMMA DeleteIsAtOnce ==
    ASSUME StoreInv, Commit("delete")
    PROVE  tables' = AtOnce("delete")
<1>1. Shaped(tables) /\ Knows("delete", tx["delete"], tables)
  BY KindsDiffer DEF StoreInv
<1>2. PICK x : x = tx["delete"]
  OBVIOUS
<1>3. /\ IsTransaction(x) /\ x.op.name = "delete" /\ x.inserted = <<>> /\ DeleteWrote(x)
      /\ x.read.alerts \subseteq DOMAIN tables.alerts
      /\ CancelledIn(x, tables, x.read.alerts, NoIncident)
  BY <1>1, <1>2, KindsDiffer, EndedFields DEF Knows, Commit, KnownToDelete
<1>4. tables.alerts \in Seq(Alert)
  BY <1>1 DEF Shaped
<1>5. \A i \in DOMAIN x.changed : x.changed[i] \in Alert
  BY <1>3, <1>4, CancelledInRows
<1>6. PICK view : view = AlertView("delete")
  OBVIOUS
<1>7. tables' = [state |-> View("delete", "state"), probes |-> View("delete", "probes"),
                 intervals |-> View("delete", "intervals"),
                 backfilled |-> View("delete", "backfilled"),
                 alerts |-> view, notified |-> View("delete", "notified")]
  BY <1>1, <1>2, <1>3, <1>5, <1>6, KindsDiffer, OtherCommits
<1>8. PICK cancelledAlerts : cancelledAlerts = WithoutStale(tables.alerts, NoIncident)
  OBVIOUS
<1>9. PICK deleted : deleted = Delete(tables)
  OBVIOUS
<1>10. deleted = [state |-> NoRow, probes |-> tables.probes, intervals |-> tables.intervals,
                  backfilled |-> tables.backfilled, alerts |-> cancelledAlerts,
                  notified |-> NoStatus]
  <2>1. deleted = [tables EXCEPT !.state = NoRow, !.notified = NoStatus,
                                 !.alerts = cancelledAlerts]
    BY <1>8, <1>9, Zenon DEF Delete
  <2> QED
    BY <1>1, <2>1 DEF Shaped
<1>11. AtOnce("delete") = Unseen(deleted)
  <2>1. AtOnce("delete") = Unseen(Apply(tables, x.op))
    BY <1>2, KindsDiffer DEF AtOnce
  <2>2. Apply(tables, x.op) = Delete(tables)
    BY <1>3 DEF Apply
  <2> QED
    BY <1>9, <2>1, <2>2
<1>12. PICK unseen : unseen = [id \in DOMAIN deleted.alerts |->
                                  IF id \in x.read.alerts THEN deleted.alerts[id]
                                  ELSE tables.alerts[id]]
  OBVIOUS
<1>13. unseen = view
  <2>1. /\ DOMAIN cancelledAlerts = DOMAIN tables.alerts
        /\ \A id \in DOMAIN tables.alerts :
              cancelledAlerts[id] = IF Stale(tables.alerts[id], NoIncident)
                                    THEN [tables.alerts[id] EXCEPT !.status = "cancelled"]
                                    ELSE tables.alerts[id]
    BY <1>8, Zenon DEF WithoutStale
  <2>2. ASSUME NEW id \in DOMAIN tables.alerts
        PROVE  (IF id \in x.read.alerts THEN cancelledAlerts[id] ELSE tables.alerts[id])
               = IF id \in DOMAIN x.changed THEN x.changed[id] ELSE tables.alerts[id]
    <3>1. id \in DOMAIN x.changed =>
              /\ id \in x.read.alerts /\ Stale(tables.alerts[id], NoIncident)
              /\ x.changed[id] = [tables.alerts[id] EXCEPT !.status = "cancelled"]
      BY <1>3, Zenon DEF CancelledIn
    <3>2. id \in x.read.alerts /\ Stale(tables.alerts[id], NoIncident) => id \in DOMAIN x.changed
      BY <1>3 DEF CancelledIn
    <3> QED
      BY <2>1, <2>2, <3>1, <3>2, Zenon
  <2>3. unseen = [id \in DOMAIN tables.alerts |->
                     IF id \in x.read.alerts THEN cancelledAlerts[id] ELSE tables.alerts[id]]
    <3>1. deleted.alerts = cancelledAlerts
      BY <1>10
    <3> QED
      BY <1>12, <2>1, <3>1, Zenon
  <2>4. view = [id \in DOMAIN tables.alerts |->
                   IF id \in DOMAIN x.changed THEN x.changed[id] ELSE tables.alerts[id]]
    BY <1>2, <1>6, Zenon DEF AlertView
  <2> QED
    BY <2>2, <2>3, <2>4, Zenon
<1>14. PICK new : new = Unseen(deleted)
  OBVIOUS
<1>15. new = [f \in DOMAIN deleted |->
                 IF f = "alerts" THEN view
                 ELSE IF f \in DOMAIN x.wrote THEN deleted[f] ELSE tables[f]]
  BY <1>2, <1>12, <1>13, <1>14, Zenon DEF Unseen
<1>16. DOMAIN deleted = {"state", "probes", "intervals", "backfilled", "alerts", "notified"}
  BY <1>10
<1>17. /\ View("delete", "state") = IF "state" \in DOMAIN x.wrote THEN NoRow ELSE tables.state
       /\ View("delete", "notified")
             = IF "notified" \in DOMAIN x.wrote THEN NoStatus ELSE tables.notified
       /\ View("delete", "probes") = tables.probes
       /\ View("delete", "intervals") = tables.intervals
       /\ View("delete", "backfilled") = tables.backfilled
  BY <1>2, <1>3 DEF View, DeleteWrote
<1>18. new = [state |-> View("delete", "state"), probes |-> View("delete", "probes"),
              intervals |-> View("delete", "intervals"),
              backfilled |-> View("delete", "backfilled"),
              alerts |-> view, notified |-> View("delete", "notified")]
  <2>1. deleted.state = NoRow /\ deleted.notified = NoStatus
    BY <1>10
  <2>2. "probes" \notin DOMAIN x.wrote /\ "intervals" \notin DOMAIN x.wrote
        /\ "backfilled" \notin DOMAIN x.wrote
    BY <1>3 DEF DeleteWrote
  <2> QED
    BY <1>15, <1>16, <1>17, <2>1, <2>2
<1> QED
  BY <1>7, <1>11, <1>14, <1>18, Zenon

\* The status that a save takes for the one before it is that of the tables as it sees them.
LEMMA SaveSeesStatus ==
    ASSUME NEW t \in Saves, Shaped(tables), SaveRead(tx[t], tables)
    PROVE  /\ StatusOutsideMaintenance(SeenBy(t).state) = tx[t].read.previous
           /\ SeenBy(t) = [state |-> SeenBy(t).state, probes |-> tables.probes,
                           intervals |-> tables.intervals, backfilled |-> tables.backfilled,
                           alerts |-> tables.alerts, notified |-> tables.notified]
<1>1. CASE tx[t].read.previous = "UNKNOWN"
  <2>1. PICK seen : seen = [tables EXCEPT !.state = NoRow]
    OBVIOUS
  <2>2. seen = [state |-> NoRow, probes |-> tables.probes,
                intervals |-> tables.intervals, backfilled |-> tables.backfilled,
                alerts |-> tables.alerts, notified |-> tables.notified]
    BY <2>1 DEF Shaped
  <2>3. SeenBy(t) = seen
    BY <1>1, <2>1 DEF SeenBy
  <2>4. StatusOutsideMaintenance(NoRow) = "UNKNOWN"
    BY DEF StatusOutsideMaintenance, NoRow, NoStatus, Exists
  <2> QED
    BY <1>1, <2>2, <2>3, <2>4
<1>2. CASE tx[t].read.previous # "UNKNOWN"
  BY <1>2 DEF SeenBy, SaveRead, Shaped
<1> QED
  BY <1>1, <1>2

\* A save is one after the status that it read, and before or after a backfill.
LEMMA SaveIsAtOnce ==
    ASSUME StoreInv, NEW t \in Saves, Commit(t)
    PROVE  tables' = AtOnce(t)
<1> t \in Transactions
  BY DEF Transactions
<1>1. Shaped(tables) /\ Knows(t, tx[t], tables) /\ tables.alerts \in Seq(Alert)
  BY DEF StoreInv, Shaped
<1>2. PICK x : x = tx[t]
  OBVIOUS
<1>3. IsTransaction(x) /\ KnownToSave(x, tables) /\ x.pc = "commit"
  BY <1>1, <1>2, KindsDiffer, EndedFields DEF Knows, Commit
<1>4. /\ SaveOp(x.op) /\ SaveRead(x, tables) /\ SaveWrote(x) /\ SaveInterval(x, tables)
      /\ SaveQueued(x)
  BY <1>3 DEF KnownToSave
<1>5. PICK op : op = x.op
  OBVIOUS
<1>6. PICK status : status = op.next.status
  OBVIOUS
<1>7. PICK with : with = WithProbe(tables.probes, op)
  OBVIOUS
<1>8. PICK intervals : intervals = WithInterval(tables.intervals, status)
  OBVIOUS
<1>9. PICK seen : seen = SeenBy(t)
  OBVIOUS
<1>10. /\ StatusOutsideMaintenance(seen.state) = x.read.previous
       /\ seen = [state |-> seen.state, probes |-> tables.probes,
                  intervals |-> tables.intervals, backfilled |-> tables.backfilled,
                  alerts |-> tables.alerts, notified |-> tables.notified]
  BY <1>1, <1>2, <1>4, <1>9, SaveSeesStatus
<1>11. PICK once : once = WithoutStale(tables.alerts, status)
  OBVIOUS
<1>12. PICK baseline : baseline = IF tables.notified = NoStatus THEN x.read.previous
                                  ELSE tables.notified
  OBVIOUS
<1>13. PICK plain : plain = [seen EXCEPT !.state = op.next, !.probes = WithProbe(@, op),
                                         !.intervals = WithInterval(@, op.next.status),
                                         !.alerts = once]
  OBVIOUS
<1>14. plain = [state |-> op.next, probes |-> with, intervals |-> intervals,
                backfilled |-> tables.backfilled, alerts |-> once, notified |-> tables.notified]
  <2>1. seen.probes = tables.probes /\ seen.intervals = tables.intervals
    BY <1>10
  <2>2. plain = [seen EXCEPT !.state = op.next, !.probes = with, !.intervals = intervals,
                             !.alerts = once]
    BY <1>6, <1>7, <1>8, <1>13, <2>1, Zenon
  <2>3. PICK state : state = seen.state
    OBVIOUS
  <2>4. seen = [state |-> state, probes |-> tables.probes, intervals |-> tables.intervals,
                backfilled |-> tables.backfilled, alerts |-> tables.alerts,
                notified |-> tables.notified]
    BY <1>10, <2>3, Zenon
  <2> QED
    BY <2>2, <2>4
<1>15. PICK saved : saved = Save(seen, op)
  OBVIOUS
<1>16. PICK queued : queued = IF status = baseline THEN <<>> ELSE <<Queued(status)>>
  OBVIOUS
<1>17. PICK told : told = WithoutStale(once, NoIncident) \o queued
  OBVIOUS
<1>18. saved = IF ~op.incident THEN plain
               ELSE [plain EXCEPT !.notified = baseline, !.alerts = told]
  <2>1. seen.alerts = tables.alerts /\ seen.notified = tables.notified
    BY <1>10
  <2> QED
    BY <1>6, <1>10, <1>11, <1>12, <1>13, <1>15, <1>16, <1>17, <2>1, Zenon DEF Save
<1>19. tables' = [state |-> op.next, probes |-> with, intervals |-> View(t, "intervals"),
                  backfilled |-> tables.backfilled, alerts |-> AlertView(t) \o x.inserted,
                  notified |-> View(t, "notified")]
  BY <1>1, <1>2, <1>3, <1>5, <1>7, SaveCommits
<1>20. PICK alerts : alerts = AlertView(t) \o x.inserted
  OBVIOUS
<1>21. PICK notified : notified = View(t, "notified")
  OBVIOUS
<1>22. saved = [state |-> op.next, probes |-> with, intervals |-> intervals,
                backfilled |-> tables.backfilled, alerts |-> alerts, notified |-> notified]
  <2>1. CASE op.incident
    <3>1. SaveBaseline(x, tables) /\ CancelledIn(x, tables, DOMAIN tables.alerts, NoIncident)
      BY <1>3, <1>5, <2>1 DEF KnownToSave
    <3>2. AlertView(t) = WithoutStale(once, NoIncident)
      <4>1. AlertView(t) = WithoutStale(tables.alerts, NoIncident)
        BY <1>2, <3>1, ViewIsWithoutStale
      <4> QED
        BY <1>1, <1>11, <4>1, WithoutStaleTwice
    <3>3. notified = baseline /\ x.wrote.notified = baseline
      BY <1>2, <1>12, <1>21, <3>1 DEF SaveBaseline, View
    <3>4. x.inserted = queued
      BY <1>4, <1>5, <1>6, <1>16, <2>1, <3>3 DEF SaveQueued
    <3>5. alerts = told
      BY <1>17, <1>20, <3>2, <3>4, Zenon
    <3>6. saved = [plain EXCEPT !.notified = baseline, !.alerts = told]
      BY <1>18, <2>1
    <3> QED
      BY <1>14, <3>3, <3>5, <3>6
  <2>2. CASE ~op.incident
    <3>1. /\ "notified" \notin DOMAIN x.wrote /\ x.inserted = <<>>
          /\ CancelledIn(x, tables, DOMAIN tables.alerts, status)
      BY <1>3, <1>4, <1>5, <1>6, <2>2 DEF KnownToSave, SaveQueued
    <3>2. AlertView(t) = once
      BY <1>2, <1>11, <3>1, ViewIsWithoutStale
    <3>3. AlertView(t) \in Seq(Alert)
      BY <1>1, <1>2, <1>3, SaveCommits
    <3>4. alerts = once
      BY <1>20, <3>1, <3>2, <3>3
    <3>5. notified = tables.notified
      BY <1>2, <1>21, <3>1 DEF View
    <3> QED
      BY <1>14, <1>18, <2>2, <3>4, <3>5
  <2> QED
    BY <2>1, <2>2
<1>23. Apply(seen, op) = saved
  BY <1>4, <1>5, <1>15 DEF Apply, SaveOp
<1>24. AtOnce(t) = IF Rebuilt(t) /\ "intervals" \notin DOMAIN x.wrote
                   THEN [saved EXCEPT !.intervals = tables.intervals] ELSE saved
  <2>1. Apply(SeenBy(t), tx[t].op) = saved
    BY <1>2, <1>5, <1>9, <1>23, Zenon
  <2>2. AtOnce(t) = IF Rebuilt(t) /\ "intervals" \notin DOMAIN tx[t].wrote
                    THEN [Apply(SeenBy(t), tx[t].op) EXCEPT !.intervals = tables.intervals]
                    ELSE Apply(SeenBy(t), tx[t].op)
    BY KindsDiffer DEF AtOnce
  <2> QED
    BY <1>2, <2>1, <2>2, Zenon
<1>25. CASE Rebuilt(t) /\ "intervals" \notin DOMAIN x.wrote
  <2>1. View(t, "intervals") = tables.intervals
    BY <1>2, <1>25 DEF View
  <2>2. PICK new : new = [saved EXCEPT !.intervals = tables.intervals]
    OBVIOUS
  <2>3. new = [state |-> op.next, probes |-> with, intervals |-> tables.intervals,
               backfilled |-> tables.backfilled, alerts |-> alerts, notified |-> notified]
    BY <1>22, <2>2
  <2>4. AtOnce(t) = new
    BY <1>24, <1>25, <2>2
  <2> QED
    BY <1>19, <1>20, <1>21, <2>1, <2>3, <2>4, Zenon
<1>26. CASE ~(Rebuilt(t) /\ "intervals" \notin DOMAIN x.wrote)
  <2>1. View(t, "intervals") = intervals
    <3>1. CASE "intervals" \in DOMAIN x.wrote
      BY <1>2, <1>4, <1>5, <1>6, <1>8, <3>1 DEF SaveInterval, View
    <3>2. CASE "intervals" \notin DOMAIN x.wrote
      <4>1. status = "MAINTENANCE" => intervals = tables.intervals
        BY <1>8, Zenon DEF WithInterval
      <4>2. ~RebuiltSince(x, tables)
        BY <1>2, <1>26, <3>2 DEF Rebuilt, RebuiltSince
      <4>3. intervals = tables.intervals
        BY <1>4, <1>5, <1>6, <1>8, <3>2, <4>1, <4>2 DEF SaveInterval
      <4> QED
        BY <1>2, <3>2, <4>3 DEF View
    <3> QED
      BY <3>1, <3>2
  <2>2. AtOnce(t) = saved
    BY <1>24, <1>26
  <2> QED
    BY <1>19, <1>20, <1>21, <1>22, <2>1, <2>2, Zenon
<1> QED
  BY <1>25, <1>26

\* Whatever goes on between its statements, a transaction that commits changes the tables as
\* its operation would, if it happened all at once at that moment.
THEOREM CommitsAreAtOnce == Spec => CommitsAreAtomic
<1>1. ASSUME StoreInv, [Next]_vars, NEW t \in Transactions,
             tx[t].pc = "commit", tx'[t] = Ended, tables' # tables
      PROVE  tables' = AtOnce(t)
  <2>1. Commit(t)
    BY <1>1, ChangesAreCommits
  <2> QED
    BY <1>1, <2>1, SaveIsAtOnce, BackfillIsAtOnce, DeleteIsAtOnce, RecordIsAtOnce DEF Transactions
<1>2. StoreInv /\ [Next]_vars =>
          [\A t \in Transactions :
              tx[t].pc = "commit" /\ tx'[t] = Ended /\ tables' # tables => tables' = AtOnce(t)]_vars
  BY <1>1
<1> QED
  BY <1>2, TransactionsKnow, PTL DEF Spec, CommitsAreAtomic

=============================================================================
