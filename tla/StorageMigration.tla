-------------------------- MODULE StorageMigration --------------------------
(***************************************************************************)
(* upag storage migrate: the rows of a SQLite store are copied, table by   *)
(* table, to a PostgreSQL store that was found empty, in one transaction   *)
(* there but without one here.  Nothing keeps a daemon from writing to     *)
(* either store in the meantime, or a second operator from migrating, too. *)
(*                                                                         *)
(* An ID is given out by nextval, which other transactions see at once and *)
(* a rollback does not undo; the row that has it is seen when it commits.  *)
(* So a transaction on the target takes an ID, inserts and commits in      *)
(* steps of their own, and setval may come between any two of them.        *)
(*                                                                         *)
(* A row is told by its ID; what else it holds is left out, but for the    *)
(* incident it refers to.                                                  *)
(***************************************************************************)
EXTENDS Integers, Sequences, FiniteSets, FiniteSetsExt

CONSTANTS
    Movers,         \* commands that migrate
    Adders,         \* connections of the daemon on the target
    Tenants,
    NoTenant,
    MaxWrites       \* bound on the transactions of both daemons

ASSUME StorageMigrationAssumption == NoTenant \notin Tenants /\ MaxWrites \in Nat \ {0}

VARIABLES
    source,     \* the rows of the SQLite store, by table
    target,     \* the rows committed in the PostgreSQL store
    sequences,  \* the last ID that was given out there, by table
    movers,     \* what the migrations are doing
    adders,     \* the transactions of the daemon there
    overtaken,  \* history variable: the tables whose sequence was last set to less
                \* than an ID of a transaction under way
    written,    \* how many transactions of the daemon on the source there were
    added

moveVars == <<source, target, sequences, movers, adders, overtaken, written, added>>

ResetOrder ==
    <<"probe_results", "incidents", "alert_notifications", "maintenance_windows",
      "probe_outcome_runs", "monitor_status_intervals", "connectivity_samples",
      "pending_monitor_alerts">>

\* Tables whose ID is a primary key of its own, whatever the tenant.
Sequenced == {ResetOrder[i] : i \in DOMAIN ResetOrder}

CopyOrder ==
    <<"monitor_states", "observer_state", "observer_sentinel_results", "maintenance_windows",
      "probe_results", "incidents", "connectivity_samples", "monitor_alert_states",
      "pending_monitor_alerts", "alert_notifications", "probe_minute_rollups",
      "probe_hourly_rollups", "probe_daily_rollups", "probe_outcome_runs",
      "monitor_status_intervals", "monitor_status_interval_backfills">>

Copied == {CopyOrder[i] : i \in DOMAIN CopyOrder}

\* Not copied: its events are lost in a migration.
Tables == Copied \cup {"observer_sentinel_events"}

\* Each names an incident, by a foreign key.
Referring == {"pending_monitor_alerts", "alert_notifications"}

Row(id, incident) == [id |-> id, incident |-> incident]

NoIncident == 0

-----------------------------------------------------------------------------
(* The daemon on the source *)

\* The tables that one transaction adds a row to, in order.
Writes ==
    {<<"probe_results", "monitor_states", "monitor_status_intervals">>,
     <<"probe_results", "monitor_states", "monitor_status_intervals", "incidents",
       "monitor_alert_states", "pending_monitor_alerts">>,
     <<"alert_notifications">>,
     <<"maintenance_windows">>,
     <<"observer_state", "observer_sentinel_results", "observer_sentinel_events">>,
     <<"connectivity_samples">>}

TablesOf(statements) == {statements[i] : i \in DOMAIN statements}

Ids(rows) == {row.id : row \in rows}

\* A new row refers to the incident of its transaction, or else to the latest one.
NewRow(t, id, own, incidents) ==
    LET latest == Max((IF own = {} THEN incidents ELSE own) \cup {NoIncident})
    IN  Row(id, IF t \in Referring THEN latest ELSE NoIncident)

\* Messages are about an incident, and a window is for a monitor that has a state.
Possible(tables, monitors, incidents) ==
    /\ "alert_notifications" \in tables => incidents # {}
    /\ "maintenance_windows" \in tables => monitors # {}

\* What a transaction adds to the rows of each table.
WrittenRows(tables, id, incidents) ==
    [t \in Tables |->
        {NewRow(t, id, IF "incidents" \in tables THEN {id} ELSE {}, incidents) :
            table \in tables \cap {t}}]

\* A migration under way or done does not have the rows of the source any more.
Unsteady == [m \in Movers |-> [movers[m] EXCEPT !.steady = FALSE]]

Write ==
    /\ written + added < MaxWrites
    /\ written' = written + 1
    /\ \E statements \in Writes :
          LET tables == TablesOf(statements)
              new == WrittenRows(tables, written', Ids(source["incidents"]))
          IN  /\ Possible(tables, source["monitor_states"], Ids(source["incidents"]))
              /\ source' = [t \in Tables |-> source[t] \cup new[t]]
    /\ movers' = Unsteady
    /\ UNCHANGED <<target, sequences, adders, overtaken, added>>

\* Probes are rolled up and pruned.
RollUpSource ==
    /\ source["probe_results"] # {}
    /\ source' = [source EXCEPT !["probe_results"] = {},
                                !["probe_minute_rollups"] = @ \cup {Row(1, NoIncident)}]
    /\ movers' = Unsteady
    /\ UNCHANGED <<target, sequences, adders, overtaken, written, added>>

-----------------------------------------------------------------------------
(* MigrateSQLiteToPostgres *)

Nothing == [t \in Tables |-> {}]

\* rows are those inserted, copied and reset count the statements done; steady is
\* whether the source has not changed since the first table was copied.
Away == [pc |-> "away", tenant |-> NoTenant, rows |-> Nothing, copied |-> 0, reset |-> 0,
         steady |-> TRUE]

TargetIsEmpty == \A t \in Copied : target[t] = {}

Uncommitted(m) == movers[m].pc = "copying"

\* Faulty variant: the tenant is left out.
BeginMoveOfNobody(m) ==
    /\ movers[m] = Away
    /\ TargetIsEmpty
    /\ movers' = [movers EXCEPT ![m] = [Away EXCEPT !.pc = "copying"]]
    /\ UNCHANGED <<source, target, sequences, adders, overtaken, written, added>>

BeginMove(m) ==
    /\ movers[m] = Away
    /\ TargetIsEmpty
    /\ \E tenant \in Tenants :
          movers' = [movers EXCEPT ![m] = [Away EXCEPT !.pc = "copying", !.tenant = tenant]]
    /\ UNCHANGED <<source, target, sequences, adders, overtaken, written, added>>

OfTenant(row, tenant) == [id |-> row.id, incident |-> row.incident, tenant |-> tenant]

\* The rows that some transactions have inserted and not committed.
Inserted(t, ms, as) ==
    (UNION {{OfTenant(row, movers[m].tenant) : row \in movers[m].rows[t]} : m \in ms})
        \cup (UNION {{OfTenant(row, adders[a].tenant) : row \in adders[a].rows[t]} : a \in as})

\* A row has the primary key of one of these.
Collides(t, row, tenant, others) ==
    \E other \in others : row.id = other.id /\ (t \in Sequenced \/ tenant = other.tenant)

\* The INSERT of a row waits for the transaction that has inserted its key.
Waits(t, rows, tenant, ms, as) == \E row \in rows : Collides(t, row, tenant, Inserted(t, ms, as))

Refused(t, rows, tenant, incidents) ==
    \/ \E row \in rows : Collides(t, row, tenant, target[t])
    \/ t \in Referring /\ \E row \in rows : row.incident \notin incidents \cup Ids(target["incidents"])

\* Faulty variant: a table that is refused is left out.
AfterSkipped(m, t, refused) ==
    [movers[m] EXCEPT !.rows[t] = IF refused THEN {} ELSE source[t], !.copied = @ + 1]

AfterTable(m, t, refused) ==
    IF refused THEN Away ELSE [movers[m] EXCEPT !.rows[t] = source[t], !.copied = @ + 1]

\* The table is read in one statement.
CopyTable(m) ==
    LET mover == movers[m]
        t == CopyOrder[mover.copied + 1]
    IN  /\ mover.pc = "copying"
        /\ mover.copied < Len(CopyOrder)
        /\ ~Waits(t, source[t], mover.tenant, Movers \ {m}, Adders)
        /\ movers' = [movers EXCEPT ![m] =
              [AfterTable(m, t, Refused(t, source[t], mover.tenant, Ids(mover.rows["incidents"])))
                  EXCEPT !.steady = @ \/ mover.copied = 0]]
        /\ UNCHANGED <<source, target, sequences, adders, overtaken, written, added>>

\* Faulty variant: before its rows are seen.
ResetBefore(m, t) == Max(Ids(target[t]) \cup {0})

\* The highest ID that is seen; 0 makes the next one 1.
ResetTo(m, t) == Max(Ids(target[t]) \cup Ids(movers[m].rows[t]) \cup {0})

\* The IDs in transactions under way, which setval does not see.
Unseen(m, t) ==
    (UNION {Ids(movers[n].rows[t]) : n \in Movers \ {m}})
        \cup (UNION {Ids(adders[a].drawn[t]) \cup Ids(adders[a].rows[t]) : a \in Adders})

\* The sequence of one table.  It is set at once, even if the migration is rolled back.
ResetPostgresSequences(m) ==
    LET t == ResetOrder[movers[m].reset + 1]
    IN  /\ movers[m].pc = "copying"
        /\ movers[m].copied = Len(CopyOrder)
        /\ movers[m].reset < Len(ResetOrder)
        /\ sequences' = [sequences EXCEPT ![t] = ResetTo(m, t)]
        /\ overtaken' = (overtaken \ {t})
                            \cup {table \in {t} : \E id \in Unseen(m, t) : id > ResetTo(m, t)}
        /\ movers' = [movers EXCEPT ![m].reset = @ + 1]
        /\ UNCHANGED <<source, target, adders, written, added>>

CommitMove(m) ==
    /\ movers[m].pc = "copying"
    /\ movers[m].reset = Len(ResetOrder)
    /\ target' = [t \in Tables |->
          target[t] \cup {OfTenant(row, movers[m].tenant) : row \in movers[m].rows[t]}]
    /\ movers' = [movers EXCEPT ![m].pc = "done", ![m].rows = Nothing]
    /\ UNCHANGED <<source, sequences, adders, overtaken, written, added>>

\* A statement fails, or the command is killed.
RollBackMove(m) ==
    /\ Uncommitted(m)
    /\ movers' = [movers EXCEPT ![m] = Away]
    /\ UNCHANGED <<source, target, sequences, adders, overtaken, written, added>>

-----------------------------------------------------------------------------
(* The daemon on the target *)

\* key stands for the monitor or the sentinel of rows without an ID, left are the tables
\* to insert into, drawn has the row that has got its ID, rows those inserted.
NoTransaction ==
    [tenant |-> NoTenant, key |-> 0, left |-> <<>>, drawn |-> Nothing, rows |-> Nothing]

CommittedOf(t, tenant) == {row \in target[t] : row.tenant = tenant}

BeginTransaction(a) ==
    /\ written + added < MaxWrites
    /\ added' = added + 1
    /\ adders[a] = NoTransaction
    /\ \E statements \in Writes, tenant \in Tenants, key \in 1 .. MaxWrites :
          /\ Possible(TablesOf(statements), CommittedOf("monitor_states", tenant),
                      CommittedOf("incidents", tenant))
          /\ adders' = [adders EXCEPT ![a].tenant = tenant, ![a].key = key, ![a].left = statements]
    /\ UNCHANGED <<source, target, sequences, movers, overtaken, written>>

\* nextval, where the table has a sequence.
TakeId(a) ==
    LET adder == adders[a]
        t == Head(adder.left)
        id == IF t \in Sequenced THEN sequences[t] + 1 ELSE adder.key
        row == NewRow(t, id, Ids(adder.rows["incidents"]),
                      Ids(CommittedOf("incidents", adder.tenant)))
    IN  /\ adder.left # <<>>
        /\ adder.drawn = Nothing
        /\ sequences' = [u \in Sequenced |-> IF u = t THEN id ELSE sequences[u]]
        /\ adders' = [adders EXCEPT ![a].left = Tail(@),
                                    ![a].drawn = [u \in Tables |-> IF u = t THEN {row} ELSE {}]]
        /\ UNCHANGED <<source, target, movers, overtaken, written, added>>

\* A row that is there is updated, or refused if its key is an ID; then the transaction
\* is rolled back, but its IDs are taken.
InsertRow(a) ==
    LET adder == adders[a]
        refused == \E t \in Sequenced : Refused(t, adder.drawn[t], adder.tenant,
                                                Ids(adder.rows["incidents"]))
    IN  /\ adder.drawn # Nothing
        /\ ~\E t \in Copied : Waits(t, adder.drawn[t], adder.tenant, Movers, Adders \ {a})
        /\ adders' = [adders EXCEPT ![a] =
              IF refused THEN NoTransaction
              ELSE [adder EXCEPT !.drawn = Nothing,
                                 !.rows = [t \in Tables |-> @[t] \cup adder.drawn[t]]]]
        /\ UNCHANGED <<source, target, sequences, movers, overtaken, written, added>>

CommitTransaction(a) ==
    /\ adders[a] # NoTransaction
    /\ adders[a].left = <<>>
    /\ adders[a].drawn = Nothing
    /\ target' = [t \in Tables |->
          target[t] \cup {OfTenant(row, adders[a].tenant) : row \in adders[a].rows[t]}]
    /\ adders' = [adders EXCEPT ![a] = NoTransaction]
    /\ UNCHANGED <<source, sequences, movers, overtaken, written, added>>

\* A statement fails, or the daemon is killed.
RollBackTransaction(a) ==
    /\ adders[a] # NoTransaction
    /\ adders' = [adders EXCEPT ![a] = NoTransaction]
    /\ UNCHANGED <<source, target, sequences, movers, overtaken, written, added>>

-----------------------------------------------------------------------------

MoveTypeOK ==
    /\ source \in [Tables -> SUBSET [id : 1 .. MaxWrites, incident : 0 .. MaxWrites]]
    /\ DOMAIN target = Tables
    /\ \A t \in Tables : \A row \in target[t] : row.tenant \in Tenants
    /\ sequences \in [Sequenced -> 0 .. 2 * MaxWrites]
    /\ overtaken \subseteq Sequenced
    /\ \A m \in Movers :
          /\ movers[m].pc \in {"away", "copying", "done"}
          /\ movers[m].pc # "away" => movers[m].tenant \in Tenants
          /\ movers[m].copied \in 0 .. Len(CopyOrder)
          /\ movers[m].reset \in 0 .. Len(ResetOrder)
          /\ movers[m].rows["observer_sentinel_events"] = {}
    /\ \A a \in Adders : adders[a].tenant = NoTenant => adders[a] = NoTransaction

\* The source has a row in every table, or only those of the observer.
MoveInit ==
    /\ \E tables \in {Tables, {"observer_state", "observer_sentinel_results",
                             "observer_sentinel_events", "connectivity_samples"}} :
          source = WrittenRows(tables, 1, {})
    /\ target = Nothing
    /\ sequences = [t \in Sequenced |-> 0]
    /\ movers = [m \in Movers |-> Away]
    /\ adders = [a \in Adders |-> NoTransaction]
    /\ overtaken = {}
    /\ written = 1
    /\ added = 0

MoveNext ==
    \/ Write \/ RollUpSource
    \/ \E m \in Movers :
          BeginMove(m) \/ CopyTable(m) \/ ResetPostgresSequences(m) \/ CommitMove(m) \/ RollBackMove(m)
    \/ \E a \in Adders :
          BeginTransaction(a) \/ TakeId(a) \/ InsertRow(a) \/ CommitTransaction(a) \/ RollBackTransaction(a)

\* Migrations, and the daemons on both stores, alone.
MoveSpec == MoveInit /\ [][MoveNext]_moveVars

-----------------------------------------------------------------------------
(* Properties *)

\* A migration that has been committed has every row of a source that did not change
\* from the first table on, in the tenant asked for, whoever else writes to the target
\* or migrates, too (MigrateSQLiteToPostgres).  And the target goes on with IDs that are
\* free: no row has one beyond the last of its sequence, unless the last setval came when
\* a transaction of the daemon, or another migration, had taken a higher ID than any it
\* could see (resetPostgresSequences): it puts the sequence back behind that ID.
MigrationIsWhole ==
    /\ \A m \in Movers :
          movers[m].pc = "done" /\ movers[m].steady =>
              \A t \in Copied : \A row \in source[t] : OfTenant(row, movers[m].tenant) \in target[t]
    /\ \A t \in Sequenced \ overtaken : \A row \in target[t] : row.id <= sequences[t]

=============================================================================
