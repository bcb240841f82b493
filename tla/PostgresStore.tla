--------------------------- MODULE PostgresStore ---------------------------
(***************************************************************************)
(* The operations of PostgresStore on one monitor, statement by statement, *)
(* as READ COMMITTED transactions: a statement sees what is committed and  *)
(* what its own transaction wrote, and waits for the locks that others     *)
(* hold on the rows it writes or reads FOR UPDATE.  A transaction keeps    *)
(* its locks until it ends.                                                *)
(*                                                                         *)
(* The worker of the monitor saves probes, a reload cancels it and removes *)
(* the monitor, the dispatcher claims and records alerts, and commands     *)
(* that report availability fill in status intervals.                      *)
(***************************************************************************)
EXTENDS AtomicStore, FiniteSets

CONSTANTS
    Saves,          \* saves: one of the worker, others of cancelled workers
    Backfills,      \* processes that ensure that intervals are backfilled
    Beginnings,     \* what the tables may contain at the start
    MaxProbes,      \* bound on the saved probes
    MaxReloads      \* bound on reloads

ASSUME PostgresStoreAssumption ==
    /\ Threshold \in 1 .. MaxFailures
    /\ Saves \cap Backfills = {}
    /\ {"delete", "record"} \cap (Saves \cup Backfills) = {}
    /\ Beginnings \subseteq Tables
    /\ MaxProbes \in Nat /\ MaxReloads \in Nat

VARIABLES
    tables,     \* what is committed
    tx,         \* the transactions
    cancelled,  \* saves whose worker was cancelled
    reloads     \* reloads so far

vars == <<tables, tx, cancelled, reloads>>

Transactions == Saves \cup Backfills \cup {"delete", "record"}

-----------------------------------------------------------------------------
(* Transactions *)

Nothing == <<>>     \* no row was written, no operation is under way

Ended == [pc |-> "ended", op |-> Nothing, locks |-> {}, read |-> Nothing,
          wrote |-> Nothing, changed |-> Nothing, inserted |-> <<>>]

\* wrote has the fields of tables that were written, changed the alerts that were
\* updated, and inserted the alerts that were inserted.
Begun(op, pc) == [Ended EXCEPT !.pc = pc, !.op = op]

View(t, field) == IF field \in DOMAIN tx[t].wrote THEN tx[t].wrote[field] ELSE tables[field]

AlertView(t) ==
    [id \in DOMAIN tables.alerts |->
        IF id \in DOMAIN tx[t].changed THEN tx[t].changed[id] ELSE tables.alerts[id]]

TableLock(name) == <<name, 0>>
RowLock(id) == <<"alert", id>>
StateLock == TableLock("state")
NotifiedLock == TableLock("notified")
IntervalsLock == TableLock("intervals")

\* Faulty variant: nothing is locked for others.
FreeAlways(t, locks) == TRUE

Free(t, locks) == \A u \in Transactions \ {t} : tx[u].locks \cap locks = {}

\* The committed contents that result from what t wrote.
Committed(t) ==
    LET alerts == AlertView(t) \o tx[t].inserted
    IN  [f \in DOMAIN tables |-> IF f = "alerts" THEN alerts ELSE View(t, f)]

Put(wrote, field, value) ==
    [f \in DOMAIN wrote \cup {field} |-> IF f = field THEN value ELSE wrote[f]]

\* Faulty variant: alerts being sent are cancelled, too.
CancellingUnsettled(t, keep) ==
    {id \in DOMAIN tables.alerts :
        /\ AlertView(t)[id].status \in {"pending", "sending"}
        /\ AlertView(t)[id].transition # keep}

Cancelling(t, keep) == {id \in DOMAIN tables.alerts : Stale(AlertView(t)[id], keep)}

\* The alerts after UPDATE ... SET status = 'cancelled' of those to cancel.
Cancel(t, keep) ==
    [id \in DOMAIN tx[t].changed \cup Cancelling(t, keep) |->
        IF id \in Cancelling(t, keep) THEN [AlertView(t)[id] EXCEPT !.status = "cancelled"]
        ELSE tx[t].changed[id]]

-----------------------------------------------------------------------------
(* The locks that the next statement of a transaction asks for *)

\* Faulty variant: last_notified_status is read without FOR UPDATE.
SaveNeedsFewer(t) ==
    CASE tx[t].pc = "read" -> IF Exists(tables.state) THEN {StateLock} ELSE {}
      [] tx[t].pc = "write" -> {StateLock}
      [] tx[t].pc = "interval" -> {IntervalsLock}
      [] tx[t].pc = "cancel" -> {RowLock(id) : id \in Cancelling(t, tx[t].op.next.status)}
      [] tx[t].pc = "queue" -> {RowLock(id) : id \in Cancelling(t, NoIncident)}
      [] OTHER -> {}

SaveNeeds(t) ==
    CASE tx[t].pc = "read" -> IF Exists(tables.state) THEN {StateLock} ELSE {}
      [] tx[t].pc = "write" -> {StateLock}
      [] tx[t].pc = "interval" -> {IntervalsLock}
      [] tx[t].pc = "cancel" -> {RowLock(id) : id \in Cancelling(t, tx[t].op.next.status)}
      [] tx[t].pc = "baseline" -> {NotifiedLock}
      [] tx[t].pc = "queue" -> {RowLock(id) : id \in Cancelling(t, NoIncident)}
      [] OTHER -> {}

\* Faulty variant: without LOCK TABLE.
BackfillNeedsNothing(t) == {}

BackfillNeeds(t) == IF tx[t].pc = "lock" THEN {IntervalsLock} ELSE {}

DeleteNeeds(t) ==
    CASE tx[t].pc = "cancel" -> {RowLock(id) : id \in Cancelling(t, NoIncident)}
      [] tx[t].pc = "notified" -> IF tables.notified = NoStatus THEN {} ELSE {NotifiedLock}
      [] tx[t].pc = "state" -> IF Exists(tables.state) THEN {StateLock} ELSE {}
      [] OTHER -> {}

RecordNeeds(t) ==
    CASE tx[t].pc = "read" -> {RowLock(tx[t].op.alert)}
      [] tx[t].pc = "notified" -> {NotifiedLock}
      [] OTHER -> {}

Needs(t) ==
    CASE t \in Saves -> SaveNeeds(t)
      [] t \in Backfills -> BackfillNeeds(t)
      [] t = "delete" -> DeleteNeeds(t)
      [] t = "record" -> RecordNeeds(t)

\* The next statement of t is run and becomes next, but for the locks.
Run(t, pc, next) ==
    /\ tx[t].pc = pc
    /\ Free(t, Needs(t))
    /\ tx' = [tx EXCEPT ![t] = [next EXCEPT !.locks = @ \cup Needs(t)]]
    /\ UNCHANGED <<tables, cancelled, reloads>>

Wrote(t, field, value, pc) ==
    [tx[t] EXCEPT !.pc = pc, !.wrote = Put(@, field, value)]

-----------------------------------------------------------------------------
(* saveProbeAndState *)

\* The worker has read the state, and evaluates a probe.
BeginSave(t) ==
    /\ tx[t] = Ended
    /\ tx["delete"] = Ended
    /\ \A u \in Saves : tx[u] # Ended => u \in cancelled
    /\ Len(tables.probes) + Cardinality({u \in Saves : tx[u] # Ended}) < MaxProbes
    /\ \E ok \in BOOLEAN, maintenance \in BOOLEAN :
          LET prev == Previous(tables.state)
              op == [name |-> "save", ok |-> ok,
                     next |-> IF maintenance THEN MaintenanceState(prev)
                              ELSE Evaluated(prev, ok, Threshold),
                     incident |-> /\ ~maintenance
                                  /\ EvaluateProbe(prev, ok, Threshold).incident # NoIncident]
          IN  tx' = [tx EXCEPT ![t] = Begun(op, "read")]
    /\ cancelled' = cancelled \ {t}
    /\ UNCHANGED <<tables, reloads>>

ReadStatus(t) ==
    Run(t, "read", [tx[t] EXCEPT !.pc = "write",
                                 !.read = [previous |-> StatusOutsideMaintenance(tables.state)]])

\* The probe and the state; maintenance leaves the intervals alone.
WriteState(t) ==
    Run(t, "write", Wrote(t, "state", tx[t].op.next,
                          IF tx[t].op.next.status = "MAINTENANCE" THEN "cancel" ELSE "open"))

\* The open interval is looked up: nothing to do, if it has the status.
ReadInterval(t) ==
    Run(t, "open",
        [tx[t] EXCEPT !.read = [previous |-> @.previous, rebuilt |-> tables.backfilled],
                      !.pc = IF tables.intervals # <<>> /\ Last(tables.intervals) = tx[t].op.next.status
                             THEN "cancel" ELSE "interval"])

Rebuilt(t) == "rebuilt" \in DOMAIN tx[t].read /\ tx[t].read.rebuilt # tables.backfilled

\* Since ReadInterval, a backfill has replaced the open interval, or made one.
Conflicting(t) == Rebuilt(t) /\ tables.intervals # <<>>

\* It is closed and one of the new status inserted; two open ones violate the index.
WriteInterval(t) ==
    Run(t, "interval",
        IF Conflicting(t) THEN [tx[t] EXCEPT !.pc = "failed"]
        ELSE Wrote(t, "intervals", Append(tables.intervals, tx[t].op.next.status), "cancel"))

CancelStale(t) ==
    Run(t, "cancel",
        [tx[t] EXCEPT !.changed = Cancel(t, tx[t].op.next.status),
                      !.pc = IF tx[t].op.incident THEN "baseline" ELSE "commit"])

\* monitor_alert_states is initialized, if need be, and read FOR UPDATE.
ReadBaseline(t) ==
    Run(t, "baseline",
        Wrote(t, "notified",
              IF tables.notified = NoStatus THEN tx[t].read.previous ELSE tables.notified,
              "queue"))

QueueAlert(t) ==
    Run(t, "queue",
        [tx[t] EXCEPT !.changed = Cancel(t, NoIncident), !.pc = "commit",
                      !.inserted = IF tx[t].op.next.status = View(t, "notified") THEN <<>>
                                   ELSE <<Queued(tx[t].op.next.status)>>])

SaveStatement(t) ==
    \/ ReadStatus(t) \/ WriteState(t) \/ ReadInterval(t) \/ WriteInterval(t)
    \/ CancelStale(t) \/ ReadBaseline(t) \/ QueueAlert(t)

-----------------------------------------------------------------------------
(* EnsureStatusIntervalsBackfilled *)

BeginBackfill(t) ==
    /\ tx[t] = Ended
    /\ ~tables.backfilled
    /\ tx' = [tx EXCEPT ![t] = Begun([name |-> "backfill"], "lock")]
    /\ UNCHANGED <<tables, cancelled, reloads>>

LockIntervals(t) == Run(t, "lock", [tx[t] EXCEPT !.pc = "marker"])

ReadMarker(t) ==
    Run(t, "marker", [tx[t] EXCEPT !.pc = IF tables.backfilled THEN "commit" ELSE "remove"])

RemoveIntervals(t) ==
    Run(t, "remove", [Wrote(t, "intervals", <<>>, "rebuild")
                      EXCEPT !.read = [removed |-> Len(tables.intervals)]])

\* The intervals are computed and inserted; an open one that was committed since
\* the others were removed violates the index.
RebuildIntervals(t) ==
    Run(t, "rebuild",
        IF Len(tables.intervals) # tx[t].read.removed THEN [tx[t] EXCEPT !.pc = "failed"]
        ELSE [Wrote(t, "intervals", IntervalsOf(tables.probes), "commit")
              EXCEPT !.wrote = Put(@, "backfilled", TRUE),
                     !.read = [probes |-> Len(tables.probes)]])

BackfillStatement(t) == LockIntervals(t) \/ ReadMarker(t) \/ RemoveIntervals(t) \/ RebuildIntervals(t)

-----------------------------------------------------------------------------
(* DeleteStatesExcept, ClaimPendingMonitorAlert, RecordPendingMonitorAlertDelivery *)

Live == {t \in Saves : tx[t] # Ended} \ cancelled

\* A reload cancels the worker and gives the monitor another one, or removes the
\* monitor.  A save that is cancelled fails, unless its COMMIT is on the way.
Reload ==
    /\ reloads < MaxReloads
    /\ tx["delete"] = Ended
    /\ reloads' = reloads + 1
    /\ cancelled' = cancelled \cup Live
    /\ \E removed \in BOOLEAN :
          tx' = [t \in Transactions |->
                    IF t \in Live /\ tx[t].pc # "commit" THEN [tx[t] EXCEPT !.pc = "failed"]
                    ELSE IF t = "delete" /\ removed THEN Begun([name |-> "delete"], "cancel")
                    ELSE tx[t]]
    /\ UNCHANGED tables

\* A row that is not there yet is neither deleted nor locked.
DeleteStatement ==
    LET t == "delete"
    IN  \/ Run(t, "cancel", [tx[t] EXCEPT !.changed = Cancel(t, NoIncident), !.pc = "notified",
                                          !.read = [alerts |-> DOMAIN tables.alerts]])
        \/ Run(t, "notified", IF tables.notified = NoStatus THEN [tx[t] EXCEPT !.pc = "state"]
                              ELSE Wrote(t, "notified", NoStatus, "state"))
        \/ Run(t, "state", IF Exists(tables.state) THEN Wrote(t, "state", NoRow, "commit")
                           ELSE [tx[t] EXCEPT !.pc = "commit"])

Sending == {id \in DOMAIN tables.alerts : tables.alerts[id].status = "sending"}

\* One statement, which is a transaction of its own; the dispatcher goes on to
\* record what it has claimed.
Claim(id) ==
    /\ tx["record"] = Ended
    /\ tables.alerts[id].status = "pending"
    /\ tables.state.status = tables.alerts[id].transition
    /\ Free("record", {RowLock(id)})
    /\ tables' = [tables EXCEPT !.alerts[id].status = "sending"]
    /\ UNCHANGED <<tx, cancelled, reloads>>

\* The alert that was sent is recorded, perhaps once more.
BeginRecord(id) ==
    /\ tx["record"] = Ended
    /\ id \in Sending
    /\ tx' = [tx EXCEPT !["record"] = Begun([name |-> "record", alert |-> id], "read")]
    /\ UNCHANGED <<tables, cancelled, reloads>>

RecordStatement ==
    LET t == "record"
        id == tx[t].op.alert
        row == tables.alerts[id]
    IN  /\ tx[t] # Ended
        /\ \/ Run(t, "read", [tx[t] EXCEPT !.pc = IF row.status = "sending" THEN "update" ELSE "commit"])
           \/ Run(t, "update", [tx[t] EXCEPT !.pc = "notified",
                     !.changed = [i \in {id} |-> [row EXCEPT !.status = "delivered"]]])
           \/ Run(t, "notified", Wrote(t, "notified", row.transition, "commit"))

-----------------------------------------------------------------------------

Commit(t) ==
    /\ tx[t].pc = "commit"
    /\ tables' = IF t \in Saves THEN [Committed(t) EXCEPT !.probes = WithProbe(@, tx[t].op)]
                 ELSE Committed(t)
    /\ tx' = [tx EXCEPT ![t] = Ended]
    /\ cancelled' = cancelled \ {t}
    /\ UNCHANGED reloads

\* The connection is lost, the context cancelled, or a statement has failed.
Rollback(t) ==
    /\ tx[t] # Ended
    /\ tx' = [tx EXCEPT ![t] = Ended]
    /\ cancelled' = cancelled \ {t}
    /\ UNCHANGED <<tables, reloads>>

TypeOK ==
    /\ tables \in Tables
    /\ \A t \in Transactions : tx[t].pc = "ended" => tx[t] = Ended
    /\ \A t, u \in Transactions : t # u => tx[t].locks \cap tx[u].locks = {}
    /\ cancelled \subseteq {t \in Saves : tx[t] # Ended}
    /\ reloads \in 0 .. MaxReloads

Init ==
    /\ tables \in Beginnings
    /\ tx = [t \in Transactions |-> Ended]
    /\ cancelled = {}
    /\ reloads = 0

Next ==
    \/ \E t \in Saves : BeginSave(t) \/ SaveStatement(t)
    \/ \E t \in Backfills : BeginBackfill(t) \/ BackfillStatement(t)
    \/ Reload \/ DeleteStatement
    \/ \E id \in DOMAIN tables.alerts : Claim(id) \/ BeginRecord(id)
    \/ RecordStatement
    \/ \E t \in Transactions : Commit(t) \/ Rollback(t)

Spec == Init /\ [][Next]_vars

-----------------------------------------------------------------------------
(* Properties *)

\* The tables as a save has read them.
SeenBy(t) ==
    IF tx[t].read.previous = "UNKNOWN" THEN [tables EXCEPT !.state = NoRow] ELSE tables

\* What a removal leaves of the tables, with the rows that it has not seen.
Unseen(deleted) ==
    [f \in DOMAIN deleted |->
        IF f = "alerts" THEN
            [id \in DOMAIN deleted.alerts |->
                IF id \in tx["delete"].read.alerts THEN deleted.alerts[id] ELSE tables.alerts[id]]
        ELSE IF f \in DOMAIN tx["delete"].wrote THEN deleted[f] ELSE tables[f]]

\* What t makes of the tables at once.  A rebuild goes before probes that have been
\* saved since it read them, which left the intervals alone; a save that left them
\* alone goes before a rebuild; DeleteStatesExcept misses the rows that a cancelled
\* worker's COMMIT adds behind its back; and a save that found no row for the state,
\* and so had none to lock, takes the status before it for UNKNOWN although such a
\* COMMIT has added one since.
AtOnce(t) ==
    CASE t \in Saves ->
            LET saved == Apply(SeenBy(t), tx[t].op)
            IN  IF Rebuilt(t) /\ "intervals" \notin DOMAIN tx[t].wrote
                THEN [saved EXCEPT !.intervals = tables.intervals] ELSE saved
      [] t \in Backfills /\ ~tables.backfilled ->
            [Apply([tables EXCEPT !.probes = SubSeq(@, 1, tx[t].read.probes)], tx[t].op)
                EXCEPT !.probes = tables.probes]
      [] t = "delete" -> Unseen(Apply(tables, tx[t].op))
      [] OTHER -> Apply(tables, tx[t].op)

\* A transaction that commits changes the tables as its operation would, if it
\* happened all at once at that moment.
CommitsAreAtomic ==
    [][\A t \in Transactions :
          tx[t].pc = "commit" /\ tx'[t] = Ended /\ tables' # tables => tables' = AtOnce(t)]_vars

Waiting(t) == tx[t] # Ended /\ t \notin cancelled /\ ~Free(t, Needs(t))
WaitsFor(t) == {u \in Transactions \ {t} : tx[u].locks \cap Needs(t) # {}}

\* No transactions wait for each other, so that Postgres never has to abort one;
\* those of cancelled workers are ended anyway.
NoWaitCycle ==
    \A some \in SUBSET {t \in Transactions : Waiting(t)} :
        some # {} => \E t \in some : WaitsFor(t) \cap some = {}

\* A rebuild of the intervals is never stopped by an open interval that was
\* committed while it was under way.
RebuildNeverConflicts == \A t \in Backfills : tx[t].pc # "failed"

=============================================================================
