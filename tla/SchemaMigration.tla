--------------------------- MODULE SchemaMigration ---------------------------
(***************************************************************************)
(* The migrations under alembic/ and the data they move: an upgrade or     *)
(* downgrade command runs the scripts between the revision of the database *)
(* and its target in one transaction, and may fail at any of them.         *)
(* Between commands the program writes what the schema of the revision has *)
(* room for; while one runs, the locks its DDL takes make the program wait *)
(* for the end of the transaction wherever the two touch the same table.   *)
(***************************************************************************)
EXTENDS Integers, Sequences, FiniteSets

CONSTANTS
    Conditions,
    Bars,          \* daily bars that are stored, and updated, under one identity
    TypesUsed,     \* types of feedback that users give
    MaxVersion,    \* of a condition
    MaxFeedback,   \* rows of feedback on an event
    MaxCommands    \* migration commands started

ASSUME TypesUsedExist ==
    TypesUsed \subseteq {"useful", "not_useful", "false_positive", "confirmed",
                         "ignored", "duplicate", "not_relevant"}

ASSUME BoundsAreNaturals ==
    MaxVersion \in Nat /\ MaxFeedback \in Nat /\ MaxCommands \in Nat

VARIABLES
    database,  \* what is committed
    command,   \* the migration command in progress, with its uncommitted database
    started    \* commands started so far

vars == <<database, command, started>>

-----------------------------------------------------------------------------
(* The schema: 0 is an empty database, revision r follows script r *)

Latest == 4

\* 61dab4850431, 8f3c2a1d9b70, c4d8e2f1a930 and e8f1a3c5d7b9: the tables each
\* creates, in that order.
InitialTables == <<"anomaly_events", "daily_bars", "fundamental_snapshots">>

MonitoringTables ==
    <<"investment_theses", "thesis_conditions", "rule_evaluations",
      "domain_events", "event_evidence", "event_feedback">>

LoopTables ==
    <<"thesis_condition_versions", "ingestion_runs", "ingestion_run_items",
      "thesis_status_history">>

AgentTables ==
    <<"agent_sessions", "agent_messages", "agent_memory", "agent_condition_writes">>

CreatedBy == <<InitialTables, MonitoringTables, LoopTables, AgentTables>>

\* The tables each script drops on the way back.
InitialDrops == <<"fundamental_snapshots", "daily_bars", "anomaly_events">>

MonitoringDrops ==
    <<"event_feedback", "event_evidence", "domain_events", "rule_evaluations",
      "thesis_conditions", "investment_theses">>

\* Mutant: the table of versions stays.
ForgetfulDrops == <<"thesis_status_history", "ingestion_run_items", "ingestion_runs">>

LoopDrops ==
    <<"thesis_status_history", "ingestion_run_items", "ingestion_runs",
      "thesis_condition_versions">>

AgentDrops ==
    <<"agent_condition_writes", "agent_memory", "agent_messages", "agent_sessions">>

DroppedBy == <<InitialDrops, MonitoringDrops, LoopDrops, AgentDrops>>

\* Foreign keys: <<table, table it refers to>>.
MonitoringKeys ==
    {<<"thesis_conditions", "investment_theses">>,
     <<"rule_evaluations", "investment_theses">>,
     <<"rule_evaluations", "thesis_conditions">>,
     <<"domain_events", "rule_evaluations">>,
     <<"event_evidence", "domain_events">>,
     <<"event_feedback", "domain_events">>}

LoopKeys ==
    {<<"thesis_condition_versions", "thesis_conditions">>,
     <<"ingestion_run_items", "ingestion_runs">>,
     <<"thesis_status_history", "investment_theses">>,
     <<"thesis_status_history", "domain_events">>}

AgentKeys ==
    {<<"agent_sessions", "investment_theses">>,
     <<"agent_messages", "agent_sessions">>,
     <<"agent_memory", "agent_sessions">>,
     <<"agent_condition_writes", "agent_sessions">>,
     <<"agent_condition_writes", "agent_messages">>,
     <<"agent_condition_writes", "thesis_conditions">>}

ForeignKeys == MonitoringKeys \cup LoopKeys \cup AgentKeys

Members(names) == {names[i] : i \in DOMAIN names}

\* The tables before place i of names.
Before(names, i) == {names[j] : j \in 1 .. i - 1}

TablesAt(r) == UNION {Members(CreatedBy[i]) : i \in 1 .. r}

\* PostgreSQL refuses to create what exists, to refer to what does not, and to
\* drop a table that another one still refers to.
CanCreate(tables, names) ==
    \A i \in DOMAIN names :
        /\ names[i] \notin tables
        /\ \A key \in ForeignKeys :
              key[1] = names[i] => key[2] \in tables \cup Before(names, i)

CanDrop(tables, names) ==
    \A i \in DOMAIN names :
        /\ names[i] \in tables
        /\ \A key \in ForeignKeys :
              key[2] = names[i] => key[1] \notin tables \ Before(names, i)

-----------------------------------------------------------------------------
(* The rows *)

NoRow == -1
NoId  == 0

OriginalTypes == {"useful", "false_positive", "duplicate", "not_relevant"}

\* Mutant: the widened CHECK forgets the types in use.
ForgetfulTypes(r) ==
    IF r = 2 THEN OriginalTypes ELSE {"useful", "not_useful", "confirmed", "ignored"}

\* The CHECK on event_feedback, widened by c4d8e2f1a930.
FeedbackTypes(r) ==
    IF r = 2 THEN OriginalTypes ELSE OriginalTypes \cup {"not_useful", "confirmed", "ignored"}

\* A matched evaluation and its event.  The observation it cites is a pair of a
\* bar and the draw of gen_random_uuid() that made the bar's observation_id.
Evaluation == [condition : Conditions, rule_version : 1 .. MaxVersion,
               bar : Bars, draw : Nat \ {0}]

Feedback == [event : Evaluation, type : TypesUsed, number : 1 .. MaxFeedback]

\* conditions: the version of each row of thesis_conditions, 0 without a row.
\* snapshots: the rows of thesis_condition_versions.
\* observation_ids: of each row of daily_bars; before 8f3c2a1d9b70 it has none.
\* draws: uuids drawn so far.
Database ==
    [revision        : 0 .. Latest,
     tables          : SUBSET TablesAt(Latest),
     conditions      : [Conditions -> 0 .. MaxVersion],
     snapshots       : SUBSET (Conditions \X (1 .. MaxVersion)),
     observation_ids : [Bars -> Nat \cup {NoRow}],
     evaluations     : SUBSET Evaluation,
     feedback        : SUBSET Feedback,
     draws           : Nat]

EmptyDatabase ==
    [revision        |-> 0,
     tables          |-> {},
     conditions      |-> [c \in Conditions |-> 0],
     snapshots       |-> {},
     observation_ids |-> [b \in Bars |-> NoRow],
     evaluations     |-> {},
     feedback        |-> {},
     draws           |-> 0]

NoCommand == [target |-> -1, work |-> EmptyDatabase]

Command == [target : 0 .. Latest, work : Database]

Running == command # NoCommand

Init ==
    /\ database = EmptyDatabase
    /\ command = NoCommand
    /\ started = 0

-----------------------------------------------------------------------------
(* The scripts, as functions of the database they find *)

Created(db, r) == [db EXCEPT !.revision = r,
                             !.tables = @ \cup Members(CreatedBy[r])]

\* Mutant: rows that exist get no id.
AddColumnOnly(db) == db

\* _add_observation_id: a column with a default, and a value for every row.
AddObservationIds(db) ==
    [db EXCEPT !.draws = @ + 1,
               !.observation_ids =
                   [b \in Bars |-> IF db.observation_ids[b] = NoRow THEN NoRow ELSE db.draws + 1]]

\* Mutant: the snapshot of a backfilled condition is numbered from 1.
BackfillFirstVersion(db) ==
    [db EXCEPT !.snapshots = {<<c, 1>> : c \in {x \in Conditions : db.conditions[x] # 0}}]

\* INSERT INTO thesis_condition_versions SELECT ... FROM thesis_conditions.
BackfillVersions(db) ==
    [db EXCEPT !.snapshots =
        {<<c, db.conditions[c]>> : c \in {x \in Conditions : db.conditions[x] # 0}}]

Upgraded(db) ==
    LET new == Created(db, db.revision + 1)
    IN  CASE new.revision = 2 -> AddObservationIds(new)
          [] new.revision = 3 -> BackfillVersions(new)
          [] OTHER            -> new

Dropped(db, r) ==
    [db EXCEPT !.revision = r - 1, !.tables = @ \ Members(DroppedBy[r])]

DropMonitoring(db) ==
    [db EXCEPT !.conditions = [c \in Conditions |-> 0],
               !.evaluations = {},
               !.feedback = {},
               !.observation_ids = [b \in Bars |-> IF db.observation_ids[b] = NoRow THEN NoRow ELSE NoId]]

\* Mutant: feedback that the old constraints forbid is deleted.
DropMisfits(db) ==
    [db EXCEPT !.snapshots = {},
               !.feedback = {f \in @ : f.type \in OriginalTypes /\ f.number = 1}]

DropLoop(db) == [db EXCEPT !.snapshots = {}]

Downgraded(db) ==
    LET old == Dropped(db, db.revision)
    IN  CASE db.revision = 1 -> [old EXCEPT !.observation_ids = [b \in Bars |-> NoRow]]
          [] db.revision = 2 -> DropMonitoring(old)
          [] db.revision = 3 -> DropLoop(old)
          [] OTHER           -> old

\* event_feedback_user_identity, between 8f3c2a1d9b70 and c4d8e2f1a930.
OneFeedbackPerEvent(db) == \A f, g \in db.feedback : f.event = g.event => f = g

FeedbackFits(db, r) == \A f \in db.feedback : f.type \in FeedbackTypes(r)

UpgradeApplies(db) ==
    /\ CanCreate(db.tables, CreatedBy[db.revision + 1])
    /\ db.revision + 1 = 3 => FeedbackFits(db, 3)

\* c4d8e2f1a930 restores the CHECK and the unique constraint on what it leaves.
DowngradeApplies(db) ==
    /\ CanDrop(db.tables, DroppedBy[db.revision])
    /\ db.revision = 3 =>
          FeedbackFits(Downgraded(db), 2) /\ OneFeedbackPerEvent(Downgraded(db))

-----------------------------------------------------------------------------
(* Migration commands *)

Upward(cmd) == cmd.work.revision < cmd.target

Applies(cmd) ==
    IF Upward(cmd) THEN UpgradeApplies(cmd.work) ELSE DowngradeApplies(cmd.work)

\* alembic upgrade or downgrade; without a script to run it does nothing.
Begin(target) ==
    /\ ~Running
    /\ started < MaxCommands
    /\ target # database.revision
    /\ command' = [target |-> target, work |-> database]
    /\ started' = started + 1
    /\ UNCHANGED database

Migrated(cmd) == IF Upward(cmd) THEN Upgraded(cmd.work) ELSE Downgraded(cmd.work)

\* Mutant: every script has a transaction of its own.
CommitEveryScript ==
    /\ Running
    /\ command.work.revision # command.target
    /\ Applies(command)
    /\ command' = [command EXCEPT !.work = Migrated(command)]
    /\ database' = Migrated(command)
    /\ UNCHANGED started

\* run_migrations: the next script, inside the transaction of the command.
RunScript ==
    /\ Running
    /\ command.work.revision # command.target
    /\ Applies(command)
    /\ command' = [command EXCEPT !.work = Migrated(command)]
    /\ UNCHANGED <<database, started>>

Commit ==
    /\ Running
    /\ command.work.revision = command.target
    /\ database' = command.work
    /\ command' = NoCommand
    /\ UNCHANGED started

\* A script the database refuses ends the command; so does, at any time, a lost
\* connection or a deadlock with the program.
Fail ==
    /\ Running
    /\ command' = NoCommand
    /\ UNCHANGED <<database, started>>

-----------------------------------------------------------------------------
(* The program: at each revision, the one whose schema it is *)

\* create_condition and update_condition.  Versions are recorded since there is
\* a table for them.
SaveCondition(c) ==
    LET version == database.conditions[c] + 1 IN
    /\ ~Running
    /\ database.revision >= 2
    /\ version <= MaxVersion
    /\ database' = [database EXCEPT
           !.conditions[c] = version,
           !.snapshots = IF database.revision >= 3 THEN @ \cup {<<c, version>>} ELSE @]
    /\ UNCHANGED <<command, started>>

\* Mutant: the update of a bar that exists takes the id drawn for the insert.
UpsertEveryColumn(b) ==
    /\ ~Running
    /\ database.revision >= 1
    /\ database' = IF database.revision = 1
                   THEN [database EXCEPT !.observation_ids[b] = NoId]
                   ELSE [database EXCEPT !.observation_ids[b] = database.draws + 1,
                                         !.draws = @ + 1]
    /\ UNCHANGED <<command, started>>

\* save_daily_bars.  A bar that exists keeps its observation_id.
SaveBar(b) ==
    /\ ~Running
    /\ database.revision >= 1
    /\ database.observation_ids[b] = NoRow
    /\ database' = IF database.revision = 1
                   THEN [database EXCEPT !.observation_ids[b] = NoId]
                   ELSE [database EXCEPT !.observation_ids[b] = database.draws + 1,
                                         !.draws = @ + 1]
    /\ UNCHANGED <<command, started>>

\* save_rule_evaluation: one for each condition, version and day.
SaveEvaluation(c, b) ==
    LET evaluation == [condition    |-> c,
                       rule_version |-> database.conditions[c],
                       bar          |-> b,
                       draw         |-> database.observation_ids[b]]
    IN  /\ ~Running
        /\ database.revision >= 2
        /\ database.conditions[c] # 0
        /\ database.observation_ids[b] # NoRow
        /\ \A e \in database.evaluations :
              ~(e.condition = c /\ e.rule_version = evaluation.rule_version /\ e.bar = b)
        /\ database' = [database EXCEPT !.evaluations = @ \cup {evaluation}]
        /\ UNCHANGED <<command, started>>

\* save_feedback, as far as the constraints of the revision allow.
SaveFeedback(e, type) ==
    LET others == {f \in database.feedback : f.event = e}
        row    == [event |-> e, type |-> type, number |-> Cardinality(others) + 1]
    IN  /\ ~Running
        /\ type \in FeedbackTypes(database.revision)
        /\ database.revision = 2 => others = {}
        /\ row.number <= MaxFeedback
        /\ database' = [database EXCEPT !.feedback = @ \cup {row}]
        /\ UNCHANGED <<command, started>>

Next ==
    \/ \E target \in 0 .. Latest : Begin(target)
    \/ RunScript
    \/ Commit
    \/ Fail
    \/ \E c \in Conditions : SaveCondition(c)
    \/ \E b \in Bars : SaveBar(b)
    \/ \E c \in Conditions, b \in Bars : SaveEvaluation(c, b)
    \/ \E e \in database.evaluations, type \in TypesUsed : SaveFeedback(e, type)

Spec == Init /\ [][Next]_vars

-----------------------------------------------------------------------------
(* Properties *)

\* The committed and the uncommitted database have their types.
TypeOK ==
    /\ database \in Database
    /\ command \in Command \cup {NoCommand}
    /\ started \in 0 .. MaxCommands

\* However often it is upgraded and downgraded, a database has the tables of its
\* revision: a script takes back what it made, and nothing else.
SchemaMatchesRevision == database.tables = TablesAt(database.revision)

\* Users have given feedback that the constraints before c4d8e2f1a930 forbid.
MisfitFeedback ==
    \E f \in database.feedback :
        f.type \notin FeedbackTypes(2) \/ \E g \in database.feedback \ {f} : g.event = f.event

\* An upgrade applies to whatever the program has stored, at whichever revision
\* and after whichever commands (database-assumptions.md:41, its first half); a
\* downgrade that would have to take away feedback is refused instead (DB-012).
\* Of the other tables that downgrades drop this says nothing: see HistoryIsKept.
DataFitsOrIsRefused ==
    Running /\ command.work.revision # command.target =>
        /\ Upward(command) => Applies(command)
        /\ ~Upward(command) /\ command.work.revision = 3 /\ MisfitFeedback => ~Applies(command)

\* As soon as there is a table for versions it has the current version of every
\* condition, those included that were written before it, or while a downgrade
\* had removed it (DB-006): update_condition can go on from there.
CurrentVersionsRecorded ==
    database.revision >= 3 =>
        \A c \in Conditions :
            database.conditions[c] # 0 => <<c, database.conditions[c]>> \in database.snapshots

\* An evaluation cites observations that exist under the id it cites, although
\* ids are made anew whenever 8f3c2a1d9b70 is applied again (DB-015).
CitationsResolve ==
    \A e \in database.evaluations : database.observation_ids[e.bar] = e.draw

\* A command takes the database to its target or not at all, however many
\* scripts it runs.
AllOrNothing ==
    [][database'.revision # database.revision => database'.revision = command.target]_vars

\* As long as there is a table for feedback no migration takes rows from it: it
\* is refused instead (DB-012).
FeedbackSurvives ==
    [][database.revision >= 2 /\ database'.revision >= 2 =>
          database.feedback \subseteq database'.feedback]_vars

\* Recorded versions of conditions that are not their current ones: they are in
\* the history and nowhere else.
Superseded(db) == {s \in db.snapshots : s[2] < db.conditions[s[1]]}

\* database-assumptions.md:41: a migration that cannot be taken back safely has
\* to refuse, "rather than silently lose history".
HistoryIsKept == [][Superseded(database) \subseteq database'.snapshots]_vars
=============================================================================
