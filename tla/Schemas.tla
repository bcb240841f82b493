------------------------------ MODULE Schemas ------------------------------
(***************************************************************************)
(* The schemas of the two stores, and the migrations that lead to them.    *)
(* A schema is the set of the columns <<table, column>> that came later,   *)
(* and of <<table, "*">> for the ones a table has from the beginning.      *)
(* A migration has the tables that it creates, if they do not exist, with  *)
(* the later columns they come with; the columns that it adds, if missing; *)
(* what its other statements ask for; and whether it has the status        *)
(* intervals rebuilt.                                                      *)
(* Types, defaults and indexes are left out.                               *)
(***************************************************************************)
EXTENDS Integers, Sequences, SequencesExt

Columns(table, columns) == {<<table, column>> : column \in columns}

Rows(tables) == {<<table, "*">> : table \in tables}

Creating(tables) ==
    [tables |-> tables, with |-> {}, adds |-> {}, needs |-> {}, unmarks |-> FALSE]
Adding(columns) == [Creating({}) EXCEPT !.adds = columns]

\* The store of a migration, or of an opener, is a file or a server.
Backends == {"sqlite", "postgres"}

-----------------------------------------------------------------------------
(* SQLite *)

InitialSchema ==
    Creating({"monitor_states", "probe_results", "incidents", "alert_notifications"})

\* Faulty variant: the columns are put into CREATE TABLE IF NOT EXISTS.
AlertNotificationRetriesByCreating ==
    [Creating({"alert_notifications"})
        EXCEPT !.with = Columns("alert_notifications",
                                {"attempt_number", "next_retry_at", "retry_exhausted"})]

AlertNotificationRetries ==
    Adding(Columns("alert_notifications", {"attempt_number", "next_retry_at", "retry_exhausted"}))
MaintenanceWindows == Creating({"maintenance_windows"})
MonitorStatusBeforeMaintenance ==
    Adding(Columns("monitor_states", {"status_before_maintenance"}))
ProbeResponseTimeAndMaintenance ==
    Adding(Columns("probe_results", {"response_time_ms", "maintenance_window_id"}))
ProbeAttemptCount == Adding(Columns("probe_results", {"attempt_count"}))
ObserverHealth ==
    [Adding(Columns("probe_results", {"observer_suppressed"}))
        EXCEPT !.tables = {"observer_state", "observer_sentinel_results"}]
ProbeRollups ==
    Creating({"probe_minute_rollups", "probe_hourly_rollups", "probe_daily_rollups",
              "probe_outcome_runs"})
ObserverSentinelEvents == Creating({"observer_sentinel_events"})
MonitorStatusIntervals ==
    Creating({"monitor_status_intervals", "monitor_status_interval_backfills"})

\* The marker of the backfill is deleted, so that the next one rebuilds the intervals.
MaintenanceStatusIntervals ==
    [Creating({}) EXCEPT !.needs = Rows({"monitor_status_interval_backfills"}), !.unmarks = TRUE]

ConnectivitySamplesAndDelayedAlerts ==
    [Creating({"connectivity_samples", "monitor_alert_states", "pending_monitor_alerts"})
        EXCEPT !.adds = Columns("probe_results", {"connectivity_suppressed", "failure_kind",
                                                  "suppression_reason"})]

SQLiteMigrations ==
    <<InitialSchema, AlertNotificationRetries, MaintenanceWindows, MonitorStatusBeforeMaintenance,
      ProbeResponseTimeAndMaintenance, ProbeAttemptCount, ObserverHealth, ProbeRollups,
      ObserverSentinelEvents, MonitorStatusIntervals, MaintenanceStatusIntervals,
      ConnectivitySamplesAndDelayedAlerts>>

-----------------------------------------------------------------------------
(* Postgres: the first one has what SQLite got by 0001 to 0008, and 0010 *)

TenantTables ==
    UNION {SQLiteMigrations[i].tables : i \in 1 .. 8}

CurrentSchema ==
    [Creating(TenantTables \cup MonitorStatusIntervals.tables)
        EXCEPT !.with = (UNION {SQLiteMigrations[i].adds : i \in 1 .. 8})
                        \cup {<<table, "tenant_id">> :
                                 table \in TenantTables \cup MonitorStatusIntervals.tables}]

\* Indexes only; they begin with the tenant.
QueryPathIndexes ==
    [Creating({}) EXCEPT !.needs = {<<table, "tenant_id">> : table \in TenantTables \ {"observer_state"}}]

TenantIsolation == Adding({<<table, "tenant_id">> : table \in TenantTables})

WithTenants(migration) ==
    [migration EXCEPT !.with = {<<table, "tenant_id">> : table \in migration.tables}]

PostgresMigrations ==
    <<CurrentSchema, QueryPathIndexes, TenantIsolation, WithTenants(ObserverSentinelEvents),
      WithTenants(MonitorStatusIntervals), MaintenanceStatusIntervals,
      WithTenants(ConnectivitySamplesAndDelayedAlerts)>>

Migrations(backend) == IF backend = "sqlite" THEN SQLiteMigrations ELSE PostgresMigrations

-----------------------------------------------------------------------------
(* Applying them *)

\* A statement fails that names a table or column that is not there.
Applicable(schema, migration) ==
    Rows({added[1] : added \in migration.adds}) \cup migration.needs
        \subseteq schema \cup Rows(migration.tables)

\* A table that exists gets no columns by CREATE TABLE IF NOT EXISTS.
After(schema, migration) ==
    schema \cup Rows(migration.tables) \cup migration.adds
           \cup {column \in migration.with : <<column[1], "*">> \notin schema}

SchemaAfter(backend, n) ==
    FoldLeft(After, {}, SubSeq(Migrations(backend), 1, n))

\* What the statements of the store name.
SchemaInUse(backend) ==
    LET tables == TenantTables \cup {"observer_sentinel_events"} \cup MonitorStatusIntervals.tables
                  \cup {"connectivity_samples", "monitor_alert_states", "pending_monitor_alerts"}
    IN  Rows(tables)
        \cup Columns("probe_results", {"response_time_ms", "attempt_count", "maintenance_window_id",
                                       "observer_suppressed", "connectivity_suppressed",
                                       "failure_kind", "suppression_reason"})
        \cup Columns("alert_notifications", {"attempt_number", "next_retry_at", "retry_exhausted"})
        \cup Columns("monitor_states", {"status_before_maintenance"})
        \cup IF backend = "sqlite" THEN {} ELSE {<<table, "tenant_id">> : table \in tables}

=============================================================================
