-------------------------- MODULE SchemaMigrations --------------------------
(***************************************************************************)
(* Open and OpenPostgres: every process that opens the store, be it the    *)
(* daemon or a command, first brings its schema up to date.  It lists the  *)
(* migrations that are recorded and applies the others in order, each in a *)
(* transaction that records it, too.  Several processes do so at once, and *)
(* any of them may be killed.                                              *)
(***************************************************************************)
EXTENDS Schemas, FiniteSets

CONSTANTS
    Openers,        \* processes that open the store
    None            \* no process

ASSUME SchemaMigrationsAssumption == None \notin Openers

VARIABLES
    backend,
    database,   \* its schema, the migrations recorded, and whether the intervals are
                \* marked as filled in
    openers,    \* what the processes are doing
    writer,     \* the one whose transaction has written
    filled      \* the intervals have been filled in since the last migration

schemaVars == <<backend, database, openers, writer, filled>>

Steps == Migrations(backend)

-----------------------------------------------------------------------------

\* applied is what was listed, and next the migration that is being applied.
Closed == [pc |-> "closed", applied |-> {}, next |-> 0]

ListApplied(p) ==
    /\ openers[p] = Closed
    /\ openers' = [openers EXCEPT ![p] = [pc |-> "listed", applied |-> database.recorded, next |-> 0]]
    /\ UNCHANGED <<backend, database, writer, filled>>

Left(p) == {i \in DOMAIN Steps : i > openers[p].next} \ openers[p].applied

\* The first one that was not listed is begun, once no other transaction writes.
BeginMigration(p) ==
    /\ openers[p].pc = "listed"
    /\ Left(p) # {}
    /\ writer = None
    /\ LET i == Min(Left(p))
       IN  openers' = [openers EXCEPT ![p].pc = IF Applicable(database.schema, Steps[i])
                                                THEN "applying" ELSE "broken",
                                      ![p].next = i]
    /\ writer' = p
    /\ UNCHANGED <<backend, database, filled>>

Migrated(i) ==
    [schema |-> After(database.schema, Steps[i]), recorded |-> database.recorded \cup {i},
     marked |-> database.marked /\ ~Steps[i].unmarks]

\* Faulty variant: one that another process has recorded is applied again.
RecordedTwice(i) == FALSE

\* The ID is the primary key of schema_migrations.
RecordedAlready(i) == i \in database.recorded

\* It is recorded and committed; one that is recorded already is rolled back, and
\* the store does not open.
EndMigration(p) ==
    LET i == openers[p].next
        again == RecordedAlready(i)
    IN  /\ openers[p].pc = "applying"
        /\ database' = IF again THEN database ELSE Migrated(i)
        /\ filled' = (filled /\ (again \/ ~Steps[i].unmarks \/ i \in database.recorded))
        /\ openers' = [openers EXCEPT ![p] = IF again THEN Closed ELSE [@ EXCEPT !.pc = "listed"]]
        /\ writer' = None
        /\ UNCHANGED backend

Opened(p) ==
    /\ openers[p].pc = "listed"
    /\ Left(p) = {}
    /\ openers' = [openers EXCEPT ![p].pc = "open"]
    /\ UNCHANGED <<backend, database, writer, filled>>

\* EnsureStatusIntervalsBackfilled, by the daemon or a command that reports.
FillIn(p) ==
    /\ openers[p].pc = "open"
    /\ writer = None
    /\ ~database.marked
    /\ database' = [database EXCEPT !.marked = TRUE]
    /\ filled' = TRUE
    /\ UNCHANGED <<backend, openers, writer>>

\* Faulty variant: a transaction is not rolled back.
CloseHolding(p) ==
    /\ openers[p] # Closed
    /\ openers' = [openers EXCEPT ![p] = Closed]
    /\ UNCHANGED <<backend, database, writer, filled>>

\* A process closes the store, fails to open it or is killed; what it has not
\* committed is rolled back.
Close(p) ==
    /\ openers[p] # Closed
    /\ openers' = [openers EXCEPT ![p] = Closed]
    /\ writer' = IF writer = p THEN None ELSE writer
    /\ UNCHANGED <<backend, database, filled>>

-----------------------------------------------------------------------------
(* Databases that earlier versions may have left *)

RecordedUpTo(b, n) == [schema |-> SchemaAfter(b, n), recorded |-> 1 .. n, marked |-> FALSE]

\* Of versions that did not record migrations.
Unrecorded ==
    {[schema |-> schema, recorded |-> {}, marked |-> FALSE] :
        schema \in {SchemaAfter("sqlite", n) : n \in 0 .. 3} \cup {Rows({"probe_results"})}}

\* Of versions without tenants.
Tenantless ==
    {[schema |-> SchemaAfter("sqlite", 8), recorded |-> 1 .. 2, marked |-> FALSE]}

Databases(b) ==
    {RecordedUpTo(b, n) : n \in 0 .. Len(Migrations(b))}
        \cup (IF b = "sqlite" THEN Unrecorded ELSE Tenantless)

SchemaInit ==
    /\ backend \in Backends
    /\ database \in Databases(backend)
    /\ openers = [p \in Openers |-> Closed]
    /\ writer = None
    /\ filled = FALSE

SchemaNext ==
    \E p \in Openers :
        \/ ListApplied(p) \/ BeginMigration(p) \/ EndMigration(p) \/ Opened(p)
        \/ FillIn(p) \/ Close(p)

\* Processes that open one store, alone.
SchemaSpec == SchemaInit /\ [][SchemaNext]_schemaVars

-----------------------------------------------------------------------------
(* Properties *)

SchemaTypeOK ==
    /\ database.recorded \subseteq DOMAIN Steps
    /\ openers \in [Openers -> [pc : {"closed", "listed", "applying", "broken", "open"},
                                applied : SUBSET DOMAIN Steps, next : 0 .. Len(Steps)]]
    /\ writer = None \/ openers[writer].pc \in {"applying", "broken"}

\* Whatever version the store comes from, and whoever else migrates it, no migration
\* asks for what is not there, and a process that has opened it finds every table
\* and column that it names (Open, OpenPostgres).  And a migration that has the
\* intervals rebuilt does so once: a process that listed the migrations before
\* another applied it does not undo a backfill (applyMigration).
OpenedStoreIsCurrent ==
    /\ \A p \in Openers :
          /\ openers[p].pc # "broken"
          /\ openers[p].pc = "open" => SchemaInUse(backend) \subseteq database.schema
    /\ filled => database.marked

=============================================================================
