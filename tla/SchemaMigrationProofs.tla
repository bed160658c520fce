------------------------ MODULE SchemaMigrationProofs ------------------------
(***************************************************************************)
(* Proofs about SchemaMigration, for any conditions, bars and bounds.  The *)
(* invariant says the same of the committed database and of the one a      *)
(* command works on: the scripts are functions that preserve it, and       *)
(* Commit exchanges one for the other.                                     *)
(***************************************************************************)
EXTENDS SchemaMigration, FiniteSetTheorems, TLAPS

SnapshotsCurrent(db) ==
    db.revision >= 3 =>
        \A c \in Conditions :
            db.conditions[c] # 0 => <<c, db.conditions[c]>> \in db.snapshots

CitationsHold(db) ==
    \A e \in db.evaluations : db.observation_ids[e.bar] = e.draw

\* Ids come with 8f3c2a1d9b70 and so do the tables that depend on them.
IdsExist(db) ==
    /\ db.revision >= 2 => \A b \in Bars : db.observation_ids[b] # NoId
    /\ db.revision < 2 => db.evaluations = {}

Sound(db) ==
    /\ db \in Database
    /\ db.tables = TablesAt(db.revision)
    /\ IsFiniteSet(db.feedback)
    /\ SnapshotsCurrent(db)
    /\ CitationsHold(db)
    /\ IdsExist(db)

\* The inductive invariant.
MigrationsAreSound ==
    /\ Sound(database)
    /\ command \in Command \cup {NoCommand}
    /\ Running => Sound(command.work)
    /\ started \in 0 .. MaxCommands

-----------------------------------------------------------------------------
(* The scripts *)

LEMMA InitialMembers ==
    /\ Members(InitialTables) = {"anomaly_events", "daily_bars", "fundamental_snapshots"}
    /\ Members(InitialDrops) = Members(InitialTables)
  BY DEF Members, InitialTables, InitialDrops

LEMMA MonitoringMembers ==
    /\ Members(MonitoringTables) =
          {"investment_theses", "thesis_conditions", "rule_evaluations",
           "domain_events", "event_evidence", "event_feedback"}
    /\ Members(MonitoringDrops) = Members(MonitoringTables)
  BY DEF Members, MonitoringTables, MonitoringDrops

LEMMA LoopMembers ==
    /\ Members(LoopTables) =
          {"thesis_condition_versions", "ingestion_runs", "ingestion_run_items",
           "thesis_status_history"}
    /\ Members(LoopDrops) = Members(LoopTables)
  BY DEF Members, LoopTables, LoopDrops

LEMMA AgentMembers ==
    /\ Members(AgentTables) =
          {"agent_sessions", "agent_messages", "agent_memory", "agent_condition_writes"}
    /\ Members(AgentDrops) = Members(AgentTables)
  BY DEF Members, AgentTables, AgentDrops

\* A script drops the tables it creates, and no two scripts share a table.
LEMMA DropsUndoCreates ==
    \A r \in 1 .. Latest :
        /\ Members(DroppedBy[r]) = Members(CreatedBy[r])
        /\ \A q \in 1 .. r - 1 : Members(CreatedBy[q]) \cap Members(CreatedBy[r]) = {}
<1> DEFINE c == [r \in 1 .. Latest |-> Members(CreatedBy[r])]
<1>1. /\ Members(CreatedBy[1]) = Members(InitialTables)
      /\ Members(CreatedBy[2]) = Members(MonitoringTables)
      /\ Members(CreatedBy[3]) = Members(LoopTables)
      /\ Members(CreatedBy[4]) = Members(AgentTables)
  BY DEF CreatedBy
<1>2. /\ Members(DroppedBy[1]) = Members(InitialDrops)
      /\ Members(DroppedBy[2]) = Members(MonitoringDrops)
      /\ Members(DroppedBy[3]) = Members(LoopDrops)
      /\ Members(DroppedBy[4]) = Members(AgentDrops)
  BY DEF DroppedBy
<1>3. \A r \in 1 .. Latest : Members(DroppedBy[r]) = Members(CreatedBy[r])
  BY <1>1, <1>2, InitialMembers, MonitoringMembers, LoopMembers, AgentMembers DEF Latest
<1>4. \A q, r \in 1 .. 4 : q < r => Members(CreatedBy[q]) \cap Members(CreatedBy[r]) = {}
  BY <1>1, InitialMembers, MonitoringMembers, LoopMembers, AgentMembers
<1> QED
  BY <1>3, <1>4 DEF Latest

LEMMA TablesStep ==
    ASSUME NEW r \in 1 .. Latest
    PROVE  /\ TablesAt(r) = TablesAt(r - 1) \cup Members(CreatedBy[r])
           /\ TablesAt(r - 1) = TablesAt(r) \ Members(DroppedBy[r])
<1>1. TablesAt(r) = TablesAt(r - 1) \cup Members(CreatedBy[r])
  <2>1. 1 .. r = (1 .. r - 1) \cup {r}
    BY DEF Latest
  <2> QED
    BY <2>1 DEF TablesAt
<1>2. TablesAt(r - 1) \cap Members(CreatedBy[r]) = {}
  BY DropsUndoCreates DEF TablesAt
<1> QED
  BY <1>1, <1>2, DropsUndoCreates

LEMMA TablesGrow ==
    ASSUME NEW r \in 1 .. Latest
    PROVE  Members(CreatedBy[r]) \subseteq TablesAt(Latest)
<1>1. r \in 1 .. Latest
  OBVIOUS
<1> QED
  BY <1>1 DEF TablesAt

LEMMA EmptyIsSound == Sound(EmptyDatabase)
<1>1. EmptyDatabase \in Database
  BY BoundsAreNaturals DEF EmptyDatabase, Database, Latest, NoRow
<1>2. IsFiniteSet(EmptyDatabase.feedback)
  BY FS_EmptySet DEF EmptyDatabase
<1>3. EmptyDatabase.tables = TablesAt(EmptyDatabase.revision)
  BY DEF EmptyDatabase, TablesAt
<1> QED
  BY <1>1, <1>2, <1>3 DEF Sound, EmptyDatabase, SnapshotsCurrent, CitationsHold, IdsExist

LEMMA UpgradeIsSound ==
    ASSUME NEW db, Sound(db), db.revision < Latest
    PROVE  Sound(Upgraded(db))
<1> DEFINE r == db.revision + 1
           new == Created(db, r)
<1>1. db \in Database /\ r \in 1 .. Latest
  BY DEF Sound, Database, Latest
<1>2. /\ new \in Database
      /\ new.revision = r
      /\ new.conditions = db.conditions
      /\ new.snapshots = db.snapshots
      /\ new.observation_ids = db.observation_ids
      /\ new.evaluations = db.evaluations
      /\ new.feedback = db.feedback
      /\ new.draws = db.draws
      /\ new.tables = TablesAt(r)
  <2>1. db.tables \cup Members(CreatedBy[r]) \subseteq TablesAt(Latest)
    BY <1>1, TablesGrow DEF Database
  <2> DEFINE tables == db.tables \cup Members(CreatedBy[r])
  <2>2. new = [db EXCEPT !.revision = r, !.tables = tables]
    BY DEF Created
  <2>6. db.tables = TablesAt(r - 1)
    <3>1. r - 1 = db.revision
      BY <1>1 DEF Database
    <3> QED
      BY <3>1 DEF Sound
  <2> HIDE DEF r, tables, new
  <2>3. new = [revision |-> r, tables |-> tables, conditions |-> db.conditions,
               snapshots |-> db.snapshots, observation_ids |-> db.observation_ids,
               evaluations |-> db.evaluations, feedback |-> db.feedback,
               draws |-> db.draws]
    BY <1>1, <2>2 DEF Database
  <2>4. tables \subseteq TablesAt(Latest) /\ r \in 0 .. Latest
    BY <1>1, <2>1 DEF tables, Latest
  <2>5. tables = TablesAt(r)
    BY <1>1, <2>6, TablesStep DEF tables
  <2> QED
    BY <1>1, <2>3, <2>4, <2>5 DEF Database
<1>3. CASE r = 2
  <2>1. Upgraded(db) = AddObservationIds(new)
    BY <1>2, <1>3 DEF Upgraded
  <2> DEFINE ids == [b \in Bars |-> IF new.observation_ids[b] = NoRow THEN NoRow
                                    ELSE new.draws + 1]
  <2>2. AddObservationIds(new) = [new EXCEPT !.draws = @ + 1, !.observation_ids = ids]
    BY DEF AddObservationIds
  <2>3. ids \in [Bars -> Nat \cup {NoRow}] /\ \A b \in Bars : ids[b] # NoId
    BY <1>2 DEF Database, NoRow, NoId
  <2>4. new.evaluations = {}
    BY <1>1, <1>2, <1>3 DEF Sound, IdsExist, Database
  <2> HIDE DEF ids, new
  <2> DEFINE draws == new.draws + 1
  <2>6. draws \in Nat
    BY <1>2 DEF Database
  <2> HIDE DEF draws
  <2>7. Upgraded(db) = [revision |-> new.revision, tables |-> new.tables,
               conditions |-> new.conditions, snapshots |-> new.snapshots,
               observation_ids |-> ids, evaluations |-> new.evaluations,
               feedback |-> new.feedback, draws |-> draws]
    BY <1>2, <2>1, <2>2 DEF Database, draws
  <2>5. /\ Upgraded(db) \in Database
        /\ Upgraded(db).revision = 2
        /\ Upgraded(db).tables = new.tables
        /\ Upgraded(db).evaluations = {}
        /\ Upgraded(db).feedback = db.feedback
        /\ Upgraded(db).observation_ids = ids
    BY <1>2, <1>3, <2>3, <2>4, <2>6, <2>7 DEF Database
  <2> QED
    BY <1>2, <1>3, <2>3, <2>5 DEF Sound, SnapshotsCurrent, CitationsHold, IdsExist
<1>4. CASE r = 3
  <2>1. Upgraded(db) = BackfillVersions(new)
    BY <1>2, <1>4 DEF Upgraded
  <2> DEFINE rows == {<<c, new.conditions[c]>> : c \in {x \in Conditions : new.conditions[x] # 0}}
  <2>2. BackfillVersions(new) = [new EXCEPT !.snapshots = rows]
    BY DEF BackfillVersions
  <2>3. rows \subseteq Conditions \X (1 .. MaxVersion)
    BY <1>2, BoundsAreNaturals DEF Database
  <2>4. \A c \in Conditions : new.conditions[c] # 0 => <<c, new.conditions[c]>> \in rows
    OBVIOUS
  <2> HIDE DEF rows, new
  <2> QED
    BY <1>1, <1>2, <1>4, <2>1, <2>2, <2>3, <2>4
    DEF Sound, Database, SnapshotsCurrent, CitationsHold, IdsExist, Latest
<1>5. CASE r # 2 /\ r # 3
  <2>1. Upgraded(db) = new
    BY <1>2, <1>5 DEF Upgraded
  <2> HIDE DEF new
  <2> QED
    BY <1>1, <1>2, <1>5, <2>1
    DEF Sound, Database, SnapshotsCurrent, CitationsHold, IdsExist, Latest
<1> QED
  BY <1>3, <1>4, <1>5

LEMMA DowngradeIsSound ==
    ASSUME NEW db, Sound(db), db.revision > 0
    PROVE  Sound(Downgraded(db))
<1> DEFINE r == db.revision
           old == Dropped(db, r)
<1>1. db \in Database /\ r \in 1 .. Latest
  BY DEF Sound, Database, Latest
<1>2. /\ old \in Database
      /\ old.revision = r - 1
      /\ old.conditions = db.conditions
      /\ old.snapshots = db.snapshots
      /\ old.observation_ids = db.observation_ids
      /\ old.evaluations = db.evaluations
      /\ old.feedback = db.feedback
      /\ old.tables = TablesAt(r - 1)
  <2> DEFINE tables == db.tables \ Members(DroppedBy[r])
             before == r - 1
  <2>1. old = [db EXCEPT !.revision = before, !.tables = tables]
    BY DEF Dropped
  <2>2. tables \subseteq TablesAt(Latest) /\ before \in 0 .. Latest
    BY <1>1 DEF Database, Latest
  <2>5. tables = TablesAt(r - 1)
    BY <1>1, TablesStep DEF Sound
  <2> HIDE DEF tables, before, old
  <2>3. old = [revision |-> before, tables |-> tables, conditions |-> db.conditions,
               snapshots |-> db.snapshots, observation_ids |-> db.observation_ids,
               evaluations |-> db.evaluations, feedback |-> db.feedback,
               draws |-> db.draws]
    BY <1>1, <2>1 DEF Database
  <2>4. old \in Database /\ old.revision = before
    BY <1>1, <2>2, <2>3 DEF Database
  <2> QED
    BY <2>3, <2>4, <2>5 DEF before
<1>3. IsFiniteSet({})
  BY FS_EmptySet
<1>4. CASE r = 1
  <2>1. Downgraded(db) = [old EXCEPT !.observation_ids = [b \in Bars |-> NoRow]]
    BY <1>4 DEF Downgraded
  <2> HIDE DEF old
  <2> QED
    BY <1>1, <1>2, <1>4, <2>1
    DEF Sound, Database, SnapshotsCurrent, CitationsHold, IdsExist, Latest, NoRow
<1>5. CASE r = 2
  <2>1. Downgraded(db) = DropMonitoring(old)
    BY <1>5 DEF Downgraded
  <2> HIDE DEF old
  <2> DEFINE none == [c \in Conditions |-> 0]
             ids == [b \in Bars |-> IF old.observation_ids[b] = NoRow THEN NoRow ELSE NoId]
  <2>2. DropMonitoring(old) = [old EXCEPT !.conditions = none, !.evaluations = {},
                                          !.feedback = {}, !.observation_ids = ids]
    BY DEF DropMonitoring
  <2>3. none \in [Conditions -> 0 .. MaxVersion] /\ ids \in [Bars -> Nat \cup {NoRow}]
    BY BoundsAreNaturals DEF NoRow, NoId
  <2> HIDE DEF none, ids
  <2>5. Downgraded(db) = [revision |-> old.revision, tables |-> old.tables,
               conditions |-> none, snapshots |-> old.snapshots,
               observation_ids |-> ids, evaluations |-> {}, feedback |-> {},
               draws |-> old.draws]
    BY <1>2, <2>1, <2>2 DEF Database
  <2>4. /\ Downgraded(db) \in Database
        /\ Downgraded(db).revision = 1
        /\ Downgraded(db).tables = old.tables
        /\ Downgraded(db).evaluations = {}
        /\ Downgraded(db).feedback = {}
    BY <1>2, <1>5, <2>3, <2>5 DEF Database
  <2> QED
    BY <1>2, <1>3, <1>5, <2>4 DEF Sound, SnapshotsCurrent, CitationsHold, IdsExist
<1>6. CASE r = 3
  <2>1. Downgraded(db) = DropLoop(old)
    BY <1>6 DEF Downgraded
  <2> HIDE DEF old
  <2> QED
    BY <1>1, <1>2, <1>6, <2>1
    DEF Sound, DropLoop, Database, SnapshotsCurrent, CitationsHold, IdsExist, Latest
<1>7. CASE r = 4
  <2>1. Downgraded(db) = old
    BY <1>7 DEF Downgraded
  <2> HIDE DEF old
  <2> QED
    BY <1>1, <1>2, <1>7, <2>1
    DEF Sound, Database, SnapshotsCurrent, CitationsHold, IdsExist, Latest
<1> QED
  BY <1>1, <1>4, <1>5, <1>6, <1>7 DEF Latest

-----------------------------------------------------------------------------
(* The writes of the program *)

LEMMA SaveConditionIsSound ==
    ASSUME Sound(database), NEW c \in Conditions, SaveCondition(c)
    PROVE  Sound(database')
<1> DEFINE version == database.conditions[c] + 1
           snapshots == IF database.revision >= 3
                        THEN database.snapshots \cup {<<c, version>>} ELSE database.snapshots
           conditions == [database.conditions EXCEPT ![c] = version]
<1>1. database' = [database EXCEPT !.conditions = conditions, !.snapshots = snapshots]
  BY DEF SaveCondition, Sound, Database
<1>2. version \in 1 .. MaxVersion
  BY BoundsAreNaturals DEF SaveCondition, Sound, Database
<1>3. /\ conditions \in [Conditions -> 0 .. MaxVersion]
      /\ snapshots \subseteq Conditions \X (1 .. MaxVersion)
      /\ \A x \in Conditions : conditions[x] = IF x = c THEN version ELSE database.conditions[x]
  BY <1>2 DEF Sound, Database
<1>4. database.revision >= 3 =>
          \A x \in Conditions : conditions[x] # 0 => <<x, conditions[x]>> \in snapshots
  BY <1>3 DEF Sound, SnapshotsCurrent
<1> HIDE DEF version, snapshots, conditions
<1> QED
  BY <1>1, <1>3, <1>4 DEF Sound, Database, SnapshotsCurrent, CitationsHold, IdsExist

LEMMA SaveBarIsSound ==
    ASSUME Sound(database), NEW b \in Bars, SaveBar(b)
    PROVE  Sound(database')
<1>1. \A e \in database.evaluations : e.bar # b /\ e.bar \in Bars
  BY DEF SaveBar, Sound, CitationsHold, Database, Evaluation, NoRow
<1> DEFINE id == IF database.revision = 1 THEN NoId ELSE database.draws + 1
           draws == IF database.revision = 1 THEN database.draws ELSE database.draws + 1
           ids == [database.observation_ids EXCEPT ![b] = id]
<1>2. database' = [database EXCEPT !.observation_ids = ids, !.draws = draws]
  BY DEF SaveBar, Sound, Database
<1>3. /\ ids \in [Bars -> Nat \cup {NoRow}]
      /\ draws \in Nat
      /\ \A x \in Bars : ids[x] = IF x = b THEN id ELSE database.observation_ids[x]
      /\ database.revision >= 2 => id # NoId
  BY DEF Sound, Database, NoId
<1> HIDE DEF id, draws, ids
<1> QED
  BY <1>1, <1>2, <1>3 DEF Sound, Database, SnapshotsCurrent, CitationsHold, IdsExist

LEMMA SaveEvaluationIsSound ==
    ASSUME Sound(database), NEW c \in Conditions, NEW b \in Bars, SaveEvaluation(c, b)
    PROVE  Sound(database')
<1> DEFINE evaluation == [condition    |-> c,
                          rule_version |-> database.conditions[c],
                          bar          |-> b,
                          draw         |-> database.observation_ids[b]]
           evaluations == database.evaluations \cup {evaluation}
<1>1. database' = [database EXCEPT !.evaluations = evaluations]
  BY DEF SaveEvaluation
<1>2. evaluation \in Evaluation
  <2>1. database.conditions[c] \in 1 .. MaxVersion
    BY BoundsAreNaturals DEF SaveEvaluation, Sound, Database
  <2>2. database.observation_ids[b] \in Nat \ {0}
    BY DEF SaveEvaluation, Sound, Database, IdsExist, NoRow, NoId
  <2> QED
    BY <2>1, <2>2 DEF Evaluation
<1>3. /\ evaluations \subseteq Evaluation
      /\ \A e \in evaluations : database.observation_ids[e.bar] = e.draw
  BY <1>2 DEF Sound, Database, CitationsHold
<1>4. database.revision >= 2
  BY DEF SaveEvaluation
<1> HIDE DEF evaluations
<1> QED
  BY <1>1, <1>3, <1>4 DEF Sound, Database, SnapshotsCurrent, CitationsHold, IdsExist

LEMMA SaveFeedbackIsSound ==
    ASSUME Sound(database), NEW e \in database.evaluations, NEW type \in TypesUsed,
           SaveFeedback(e, type)
    PROVE  Sound(database')
<1> DEFINE others == {f \in database.feedback : f.event = e}
           row == [event |-> e, type |-> type, number |-> Cardinality(others) + 1]
           feedback == database.feedback \cup {row}
<1>1. database' = [database EXCEPT !.feedback = feedback]
  BY DEF SaveFeedback
<1>2. row \in Feedback
  <2>1. IsFiniteSet(others)
    BY FS_Subset DEF Sound
  <2>2. Cardinality(others) \in Nat
    BY <2>1, FS_CardinalityType
  <2>3. e \in Evaluation
    BY DEF Sound, Database
  <2> QED
    BY <2>2, <2>3 DEF SaveFeedback, Feedback
<1>3. feedback \subseteq Feedback /\ IsFiniteSet(feedback)
  <2>1. IsFiniteSet(database.feedback) /\ database.feedback \subseteq Feedback
    BY DEF Sound, Database
  <2> HIDE DEF row
  <2> QED
    BY <1>2, <2>1, FS_AddElement
<1> HIDE DEF feedback
<1> QED
  BY <1>1, <1>3 DEF Sound, Database, SnapshotsCurrent, CitationsHold, IdsExist

-----------------------------------------------------------------------------
(* The theorems *)

LEMMA SoundIsTyped == \A db : Sound(db) => db \in Database
  BY DEF Sound

LEMMA InitIsSound == Init => MigrationsAreSound
  BY EmptyIsSound, BoundsAreNaturals DEF Init, MigrationsAreSound, Running

LEMMA RunScriptIsSound ==
    ASSUME MigrationsAreSound, RunScript
    PROVE  MigrationsAreSound'
<1>1. /\ command \in Command
      /\ Sound(command.work)
      /\ command.work \in Database
      /\ command.work.revision # command.target
  BY SoundIsTyped DEF MigrationsAreSound, RunScript, Running
<1>2. Sound(Migrated(command))
  <2>1. CASE Upward(command)
    <3>1. command.work.revision < Latest
      BY <1>1, <2>1 DEF Upward, Command, Database, Latest
    <3> QED
      BY <1>1, <2>1, <3>1, UpgradeIsSound DEF Migrated
  <2>2. CASE ~Upward(command)
    <3>1. command.work.revision > 0
      BY <1>1, <2>2 DEF Upward, Command, Database, Latest
    <3> QED
      BY <1>1, <2>2, <3>1, DowngradeIsSound DEF Migrated
  <2> QED
    BY <2>1, <2>2
<1>3. command' \in Command /\ command'.work = Migrated(command)
  BY <1>1, <1>2, SoundIsTyped DEF RunScript, Command
<1> QED
  BY <1>2, <1>3 DEF MigrationsAreSound, RunScript, Running

LEMMA StepIsSound ==
    ASSUME MigrationsAreSound, [Next]_vars
    PROVE  MigrationsAreSound'
<1>1. CASE Sound(database') /\ UNCHANGED <<command, started>>
  BY <1>1 DEF MigrationsAreSound, Running
<1>2. ASSUME NEW target \in 0 .. Latest, Begin(target) PROVE MigrationsAreSound'
  <2>1. command' \in Command /\ command'.work = database
    BY SoundIsTyped, <1>2 DEF MigrationsAreSound, Begin, Command
  <2>2. started' \in 0 .. MaxCommands
    BY <1>2, BoundsAreNaturals DEF MigrationsAreSound, Begin
  <2> QED
    BY <1>2, <2>1, <2>2 DEF MigrationsAreSound, Begin, Running
<1>3. CASE RunScript
  BY <1>3, RunScriptIsSound
<1>4. CASE Commit
  BY <1>4 DEF Commit, MigrationsAreSound, Running
<1>5. CASE Fail
  BY <1>5 DEF Fail, MigrationsAreSound, Running
<1>6. ASSUME NEW c \in Conditions, SaveCondition(c) PROVE MigrationsAreSound'
  BY <1>1, <1>6, SaveConditionIsSound DEF MigrationsAreSound, SaveCondition
<1>7. ASSUME NEW b \in Bars, SaveBar(b) PROVE MigrationsAreSound'
  BY <1>1, <1>7, SaveBarIsSound DEF MigrationsAreSound, SaveBar
<1>8. ASSUME NEW c \in Conditions, NEW b \in Bars, SaveEvaluation(c, b)
      PROVE  MigrationsAreSound'
  BY <1>1, <1>8, SaveEvaluationIsSound DEF MigrationsAreSound, SaveEvaluation
<1>9. ASSUME NEW e \in database.evaluations, NEW type \in TypesUsed, SaveFeedback(e, type)
      PROVE  MigrationsAreSound'
  BY <1>1, <1>9, SaveFeedbackIsSound DEF MigrationsAreSound, SaveFeedback
<1>10. CASE UNCHANGED vars
  BY <1>1, <1>10 DEF vars, MigrationsAreSound
<1> QED
  BY <1>2, <1>3, <1>4, <1>5, <1>6, <1>7, <1>8, <1>9, <1>10 DEF Next

LEMMA SoundGivesProperties ==
    MigrationsAreSound => TypeOK /\ SchemaMatchesRevision
                          /\ CurrentVersionsRecorded /\ CitationsResolve
  BY SoundIsTyped
  DEF MigrationsAreSound, Sound, SnapshotsCurrent, CitationsHold, TypeOK,
      SchemaMatchesRevision, CurrentVersionsRecorded, CitationsResolve

\* The databases of a specification that runs migrations are sound.
LEMMA MigrationsStaySound == Spec => []MigrationsAreSound
  BY InitIsSound, StepIsSound, PTL DEF Spec

\* Both databases keep their types (e8f1a3c5d7b9 down to the empty database).
THEOREM MigrationsTyped == Spec => []TypeOK
  BY MigrationsStaySound, SoundGivesProperties, PTL

\* Upgrades and downgrades, in any number and order, leave the tables of the
\* revision: what a script of alembic/versions drops is what it created.
THEOREM SchemaFollowsRevision == Spec => []SchemaMatchesRevision
  BY MigrationsStaySound, SoundGivesProperties, PTL

\* The backfill of c4d8e2f1a930 and the writes of the repository together keep
\* the current version of every condition recorded, whatever was migrated when.
THEOREM CurrentVersionsStayRecorded == Spec => []CurrentVersionsRecorded
  BY MigrationsStaySound, SoundGivesProperties, PTL

\* No evaluation cites an observation_id that a migration has replaced.
THEOREM CitationsAlwaysResolve == Spec => []CitationsResolve
  BY MigrationsStaySound, SoundGivesProperties, PTL

-----------------------------------------------------------------------------
(* What a command may do *)

\* A command between revisions that have feedback works on the same feedback.
FeedbackInCommand ==
    Running /\ database.revision >= 2 /\ command.target >= 2 =>
        command.work.revision >= 2 /\ command.work.feedback = database.feedback

LEMMA ScriptsKeepFeedback ==
    ASSUME NEW db \in Database
    PROVE  /\ db.revision < Latest => /\ Upgraded(db).revision = db.revision + 1
                                     /\ Upgraded(db).feedback = db.feedback
           /\ db.revision >= 3 => /\ Downgraded(db).revision = db.revision - 1
                                  /\ Downgraded(db).feedback = db.feedback
<1>1. ASSUME db.revision < Latest
      PROVE  Upgraded(db).revision = db.revision + 1 /\ Upgraded(db).feedback = db.feedback
  BY <1>1 DEF Database, Upgraded, Created, AddObservationIds, BackfillVersions
<1>2. ASSUME db.revision >= 3
      PROVE  Downgraded(db).revision = db.revision - 1 /\ Downgraded(db).feedback = db.feedback
  BY <1>2 DEF Database, Downgraded, Dropped, DropLoop, Latest
<1> QED
  BY <1>1, <1>2

LEMMA DowngradeGoesBack ==
    ASSUME NEW db \in Database, db.revision > 0
    PROVE  Downgraded(db).revision = db.revision - 1
  BY DEF Database, Downgraded, Dropped, DropMonitoring, DropLoop

LEMMA FeedbackInCommandStep ==
    ASSUME MigrationsAreSound, FeedbackInCommand, [Next]_vars
    PROVE  FeedbackInCommand'
<1>1. CASE ~Running'
  BY <1>1 DEF FeedbackInCommand
<1>2. ASSUME NEW target \in 0 .. Latest, Begin(target) PROVE FeedbackInCommand'
  BY <1>2 DEF Begin, FeedbackInCommand
<1>3. ASSUME RunScript PROVE FeedbackInCommand'
  <2>1. command.work \in Database /\ command.target \in 0 .. Latest
    BY <1>3, SoundIsTyped DEF MigrationsAreSound, RunScript, Running, Command
  <2>2. command'.work = Migrated(command) /\ command'.target = command.target
    BY <1>3 DEF RunScript, MigrationsAreSound, Command, Running
  <2>3. SUFFICES ASSUME database.revision >= 2, command.target >= 2
                 PROVE  Migrated(command).revision >= 2
                        /\ Migrated(command).feedback = database.feedback
    BY <1>3, <2>2 DEF FeedbackInCommand, RunScript
  <2>4. command.work.revision >= 2 /\ command.work.feedback = database.feedback
    BY <1>3, <2>3 DEF FeedbackInCommand, RunScript
  <2>5. command.work.revision \in 0 .. Latest /\ command.work.revision # command.target
    BY <1>3, <2>1 DEF RunScript, Database
  <2>6. CASE Upward(command)
    BY <2>1, <2>4, <2>5, <2>6, ScriptsKeepFeedback DEF Upward, Migrated, Latest
  <2>7. CASE ~Upward(command)
    BY <2>1, <2>3, <2>4, <2>5, <2>7, ScriptsKeepFeedback DEF Upward, Migrated, Latest
  <2> QED
    BY <2>6, <2>7
<1>4. CASE Running' /\ ~Running
  BY <1>2, <1>4 DEF Next, vars, RunScript, Commit, Fail, SaveCondition, SaveBar,
                    SaveEvaluation, SaveFeedback, Running
<1>5. CASE Running' /\ Running /\ ~RunScript
  BY <1>5 DEF Next, vars, Begin, Commit, Fail, SaveCondition, SaveBar,
              SaveEvaluation, SaveFeedback, Running, FeedbackInCommand
<1> QED
  BY <1>1, <1>3, <1>4, <1>5

LEMMA StepKeepsFeedback ==
    ASSUME MigrationsAreSound, FeedbackInCommand, [Next]_vars
    PROVE  /\ database'.revision # database.revision => database'.revision = command.target
           /\ database.revision >= 2 /\ database'.revision >= 2 =>
                 database.feedback \subseteq database'.feedback
<1>1. database \in Database
  BY SoundIsTyped DEF MigrationsAreSound
<1>2. CASE Commit
  BY <1>2 DEF Commit, FeedbackInCommand
<1>3. CASE ~Commit
  BY <1>1, <1>3 DEF Next, vars, Begin, RunScript, Fail, SaveCondition, SaveBar,
                    SaveEvaluation, SaveFeedback, Database
<1> QED
  BY <1>2, <1>3

LEMMA FeedbackStaysInCommand == Spec => []FeedbackInCommand
<1>1. Init => FeedbackInCommand
  BY DEF Init, FeedbackInCommand, Running
<1> QED
  BY <1>1, MigrationsStaySound, FeedbackInCommandStep, PTL DEF Spec

\* A command that stops halfway leaves the database where it was (env.py, one
\* transaction for all scripts).
THEOREM CommandsAreAllOrNothing == Spec => AllOrNothing
  BY MigrationsStaySound, FeedbackStaysInCommand, StepKeepsFeedback, PTL
  DEF Spec, AllOrNothing

\* No migration between revisions that store feedback takes a row from it: the
\* downgrade of c4d8e2f1a930 has no way to pass but to leave all of it.
THEOREM FeedbackAlwaysSurvives == Spec => FeedbackSurvives
  BY MigrationsStaySound, FeedbackStaysInCommand, StepKeepsFeedback, PTL
  DEF Spec, FeedbackSurvives

-----------------------------------------------------------------------------
(* The scripts apply *)

\* A table refers to tables created before it: by an earlier script, or earlier
\* in its own.
LEMMA KeysPointBack ==
    ASSUME NEW key \in ForeignKeys
    PROVE  /\ key[1] \notin Members(InitialTables)
           /\ \A i \in 1 .. 6 : key[1] = MonitoringTables[i] =>
                 \E j \in 1 .. i - 1 : key[2] = MonitoringTables[j]
           /\ \A i \in 1 .. 4 : key[1] = LoopTables[i] =>
                 \/ key[2] \in Members(MonitoringTables)
                 \/ \E j \in 1 .. i - 1 : key[2] = LoopTables[j]
           /\ \A i \in 1 .. 4 : key[1] = AgentTables[i] =>
                 \/ key[2] \in Members(MonitoringTables)
                 \/ \E j \in 1 .. i - 1 : key[2] = AgentTables[j]
<1>1. key[1] \notin Members(InitialTables)
  BY InitialMembers DEF ForeignKeys, MonitoringKeys, LoopKeys, AgentKeys
<1>2. ASSUME NEW i \in 1 .. 6, key[1] = MonitoringTables[i]
      PROVE  \E j \in 1 .. i - 1 : key[2] = MonitoringTables[j]
  <2>1. key \in MonitoringKeys
    BY <1>2 DEF ForeignKeys, LoopKeys, AgentKeys, MonitoringTables
  <2> QED
    BY <1>2, <2>1 DEF MonitoringKeys, MonitoringTables
<1>3. ASSUME NEW i \in 1 .. 4, key[1] = LoopTables[i]
      PROVE  \/ key[2] \in Members(MonitoringTables)
             \/ \E j \in 1 .. i - 1 : key[2] = LoopTables[j]
  <2>1. key \in LoopKeys
    BY <1>3 DEF ForeignKeys, MonitoringKeys, AgentKeys, LoopTables
  <2> QED
    BY <1>3, <2>1, MonitoringMembers DEF LoopKeys, LoopTables
<1>4. ASSUME NEW i \in 1 .. 4, key[1] = AgentTables[i]
      PROVE  \/ key[2] \in Members(MonitoringTables)
             \/ \E j \in 1 .. i - 1 : key[2] = AgentTables[j]
  <2>1. key \in AgentKeys
    BY <1>4 DEF ForeignKeys, MonitoringKeys, LoopKeys, AgentTables
  <2> QED
    BY <1>4, <2>1, MonitoringMembers DEF AgentKeys, AgentTables
<1> QED
  BY <1>1, <1>2, <1>3, <1>4

\* A table is referred to by tables dropped before it: by a later script, or
\* earlier in its own.
LEMMA KeysGoFirst ==
    ASSUME NEW key \in ForeignKeys
    PROVE  /\ key[2] \notin Members(InitialTables)
           /\ \A i \in 1 .. 6 : key[2] = MonitoringDrops[i] =>
                 \/ key[1] \in Members(LoopTables) \cup Members(AgentTables)
                 \/ \E j \in 1 .. i - 1 : key[1] = MonitoringDrops[j]
           /\ \A i \in 1 .. 4 : key[2] = LoopDrops[i] =>
                 \E j \in 1 .. i - 1 : key[1] = LoopDrops[j]
           /\ \A i \in 1 .. 4 : key[2] = AgentDrops[i] =>
                 \E j \in 1 .. i - 1 : key[1] = AgentDrops[j]
<1>1. key[2] \notin Members(InitialTables)
  BY InitialMembers DEF ForeignKeys, MonitoringKeys, LoopKeys, AgentKeys
<1>2. ASSUME NEW i \in 1 .. 6, key[2] = MonitoringDrops[i]
      PROVE  \/ key[1] \in Members(LoopTables) \cup Members(AgentTables)
             \/ \E j \in 1 .. i - 1 : key[1] = MonitoringDrops[j]
  <2>1. CASE key \in MonitoringKeys
    BY <1>2, <2>1 DEF MonitoringKeys, MonitoringDrops
  <2>2. CASE key \in LoopKeys
    BY <1>2, <2>2, LoopMembers DEF LoopKeys, MonitoringDrops
  <2>3. CASE key \in AgentKeys
    BY <2>3, AgentMembers DEF AgentKeys
  <2> QED
    BY <2>1, <2>2, <2>3 DEF ForeignKeys
<1>3. ASSUME NEW i \in 1 .. 4, key[2] = LoopDrops[i]
      PROVE  \E j \in 1 .. i - 1 : key[1] = LoopDrops[j]
  <2>1. key \in LoopKeys
    BY <1>3 DEF ForeignKeys, MonitoringKeys, AgentKeys, LoopDrops
  <2> QED
    BY <1>3, <2>1 DEF LoopKeys, LoopDrops
<1>4. ASSUME NEW i \in 1 .. 4, key[2] = AgentDrops[i]
      PROVE  \E j \in 1 .. i - 1 : key[1] = AgentDrops[j]
  <2>1. key \in AgentKeys
    BY <1>4 DEF ForeignKeys, MonitoringKeys, LoopKeys, AgentDrops
  <2> QED
    BY <1>4, <2>1 DEF AgentKeys, AgentDrops
<1> QED
  BY <1>1, <1>2, <1>3, <1>4

\* So every script can be applied to the tables of the revision before it, and
\* taken back from those of its own.
LEMMA CreatesApply ==
    ASSUME NEW r \in 1 .. Latest
    PROVE  CanCreate(TablesAt(r - 1), CreatedBy[r])
<1> DEFINE names == CreatedBy[r]
           tables == TablesAt(r - 1)
<1>1. ASSUME NEW i \in DOMAIN names PROVE names[i] \notin tables
  BY DropsUndoCreates DEF TablesAt, Members
<1>2. r - 1 >= 2 => Members(MonitoringTables) \subseteq tables
  <2>1. CreatedBy[2] = MonitoringTables
    BY DEF CreatedBy
  <2> QED
    BY <2>1 DEF TablesAt, Latest
<1>3. ASSUME NEW i \in DOMAIN names, NEW key \in ForeignKeys, key[1] = names[i]
      PROVE  \/ key[2] \in tables
             \/ \E j \in 1 .. i - 1 : key[2] = names[j]
  <2>1. CASE r = 1
    <3>1. names = InitialTables
      BY <2>1 DEF CreatedBy
    <3> QED
      BY <1>3, <3>1, KeysPointBack DEF Members
  <2>2. CASE r = 2
    <3>1. names = MonitoringTables /\ i \in 1 .. 6
      BY <2>2 DEF CreatedBy, MonitoringTables
    <3> QED
      BY <1>3, <3>1, KeysPointBack
  <2>3. CASE r = 3
    <3>1. names = LoopTables /\ i \in 1 .. 4
      BY <2>3 DEF CreatedBy, LoopTables
    <3> QED
      BY <1>2, <1>3, <2>3, <3>1, KeysPointBack
  <2>4. CASE r = 4
    <3>1. names = AgentTables /\ i \in 1 .. 4
      BY <2>4 DEF CreatedBy, AgentTables
    <3> QED
      BY <1>2, <1>3, <2>4, <3>1, KeysPointBack
  <2> QED
    BY <2>1, <2>2, <2>3, <2>4 DEF Latest
<1> QED
  BY <1>1, <1>3 DEF CanCreate, Before

LEMMA DropsApply ==
    ASSUME NEW r \in 1 .. Latest
    PROVE  CanDrop(TablesAt(r), DroppedBy[r])
<1> DEFINE names == DroppedBy[r]
           tables == TablesAt(r)
<1>1. ASSUME NEW i \in DOMAIN names PROVE names[i] \in tables
  <2>1. names[i] \in Members(CreatedBy[r])
    BY DropsUndoCreates DEF Members
  <2> QED
    BY <2>1, TablesStep
<1>2. /\ CreatedBy[3] = LoopTables /\ CreatedBy[4] = AgentTables
      /\ DroppedBy[1] = InitialDrops /\ DroppedBy[2] = MonitoringDrops
      /\ DroppedBy[3] = LoopDrops /\ DroppedBy[4] = AgentDrops
  BY DEF CreatedBy, DroppedBy
<1>3. r <= 2 => /\ Members(LoopTables) \cap tables = {}
                /\ Members(AgentTables) \cap tables = {}
  <2>1. \A q \in 1 .. 2 : /\ Members(CreatedBy[q]) \cap Members(CreatedBy[3]) = {}
                          /\ Members(CreatedBy[q]) \cap Members(CreatedBy[4]) = {}
    BY DropsUndoCreates DEF Latest
  <2> QED
    BY <1>2, <2>1 DEF TablesAt
<1>4. ASSUME NEW i \in DOMAIN names, NEW key \in ForeignKeys, key[2] = names[i]
      PROVE  \/ key[1] \notin tables
             \/ \E j \in 1 .. i - 1 : key[1] = names[j]
  <2>1. CASE r = 1
    <3>1. key[2] \in Members(InitialTables)
      BY <1>2, <1>4, <2>1, InitialMembers DEF Members
    <3> QED
      BY <3>1, KeysGoFirst
  <2>2. CASE r = 2
    <3>1. names = MonitoringDrops /\ i \in 1 .. 6
      BY <1>2, <2>2 DEF MonitoringDrops
    <3> QED
      BY <1>3, <1>4, <2>2, <3>1, KeysGoFirst
  <2>3. CASE r = 3
    <3>1. names = LoopDrops /\ i \in 1 .. 4
      BY <1>2, <2>3 DEF LoopDrops
    <3> QED
      BY <1>4, <3>1, KeysGoFirst
  <2>4. CASE r = 4
    <3>1. names = AgentDrops /\ i \in 1 .. 4
      BY <1>2, <2>4 DEF AgentDrops
    <3> QED
      BY <1>4, <3>1, KeysGoFirst
  <2> QED
    BY <2>1, <2>2, <2>3, <2>4 DEF Latest
<1> QED
  BY <1>1, <1>4 DEF CanDrop, Before

\* On the way up the database refuses no script, whatever it holds.
LEMMA UpgradesApply ==
    ASSUME NEW db, Sound(db), db.revision < Latest
    PROVE  UpgradeApplies(db)
<1>1. db \in Database /\ db.revision \in 0 .. Latest
  BY DEF Sound, Database
<1> DEFINE r == db.revision + 1
<1>2. r \in 1 .. Latest /\ r - 1 = db.revision
  BY <1>1 DEF Latest
<1>3. CanCreate(db.tables, CreatedBy[r])
  BY <1>2, CreatesApply DEF Sound
<1>4. FeedbackFits(db, 3)
  <2>1. db.feedback \subseteq Feedback
    BY <1>1 DEF Database
  <2>2. \A f \in db.feedback : f.type \in TypesUsed
    BY <2>1 DEF Feedback
  <2>3. FeedbackTypes(3) = OriginalTypes \cup {"not_useful", "confirmed", "ignored"}
    BY DEF FeedbackTypes
  <2>4. TypesUsed \subseteq FeedbackTypes(3)
    BY <2>3, TypesUsedExist DEF OriginalTypes
  <2> QED
    BY <2>2, <2>4 DEF FeedbackFits
<1> QED
  BY <1>3, <1>4 DEF UpgradeApplies

\* c4d8e2f1a930 cannot be taken back over feedback that the old constraints forbid.
LEMMA MisfitsBlock ==
    ASSUME NEW db, Sound(db), db.revision = 3,
           \E f \in db.feedback :
              f.type \notin FeedbackTypes(2) \/ \E g \in db.feedback \ {f} : g.event = f.event
    PROVE  ~DowngradeApplies(db)
<1>1. db \in Database
  BY DEF Sound
<1>2. Downgraded(db).feedback = db.feedback
  BY <1>1, ScriptsKeepFeedback
<1> QED
  BY <1>2 DEF DowngradeApplies, FeedbackFits, OneFeedbackPerEvent

\* A command on the way back has not touched the feedback as long as its database
\* has a table for it.
FeedbackOnTheWayBack ==
    Running /\ command.work.revision > command.target =>
        /\ command.work.revision <= database.revision
        /\ command.work.revision >= 2 => command.work.feedback = database.feedback

LEMMA WayBackStep ==
    ASSUME MigrationsAreSound, FeedbackOnTheWayBack, [Next]_vars
    PROVE  FeedbackOnTheWayBack'
<1>1. CASE ~Running'
  BY <1>1 DEF FeedbackOnTheWayBack
<1>2. ASSUME NEW target \in 0 .. Latest, Begin(target) PROVE FeedbackOnTheWayBack'
  <2>1. command'.work = database /\ database' = database
    BY <1>2 DEF Begin
  <2>2. database.revision \in 0 .. Latest
    BY SoundIsTyped DEF MigrationsAreSound, Database
  <2> QED
    BY <2>1, <2>2 DEF FeedbackOnTheWayBack, Latest
<1>3. ASSUME RunScript PROVE FeedbackOnTheWayBack'
  <2>1. /\ Running /\ Sound(command.work) /\ command.target \in 0 .. Latest
        /\ command.work \in Database /\ command.work.revision \in 0 .. Latest
        /\ database.revision \in 0 .. Latest
    BY <1>3, SoundIsTyped DEF MigrationsAreSound, RunScript, Running, Command, Database
  <2>2. /\ command'.work = Migrated(command) /\ command'.target = command.target
        /\ database' = database /\ command.work.revision # command.target
    BY <1>3 DEF RunScript, MigrationsAreSound, Command, Running
  <2>3. CASE Upward(command)
    <3>1. Migrated(command).revision = command.work.revision + 1
      BY <2>1, <2>3, ScriptsKeepFeedback DEF Upward, Migrated, Latest
    <3>2. ~(Migrated(command).revision > command.target)
      BY <2>1, <2>3, <3>1 DEF Upward, Latest
    <3> QED
      BY <2>2, <3>2 DEF FeedbackOnTheWayBack
  <2>4. CASE ~Upward(command)
    <3>1. command.work.revision > command.target
      BY <2>1, <2>2, <2>4 DEF Upward, Latest
    <3>2. /\ command.work.revision <= database.revision
          /\ command.work.revision >= 2 => command.work.feedback = database.feedback
      BY <2>1, <3>1 DEF FeedbackOnTheWayBack
    <3>3. Migrated(command) = Downgraded(command.work) /\ command.work.revision > 0
      BY <2>1, <2>4, <3>1 DEF Migrated, Latest
    <3>4. Downgraded(command.work).revision = command.work.revision - 1
      BY <2>1, <3>3, DowngradeGoesBack
    <3>5. Downgraded(command.work).revision >= 2 =>
             Downgraded(command.work).feedback = command.work.feedback
      BY <2>1, <3>4, ScriptsKeepFeedback DEF Latest
    <3> QED
      BY <2>1, <2>2, <3>2, <3>3, <3>4, <3>5 DEF FeedbackOnTheWayBack, Latest
  <2> QED
    BY <2>3, <2>4
<1>4. CASE Running' /\ ~Running
  BY <1>2, <1>4 DEF Next, vars, RunScript, Commit, Fail, SaveCondition, SaveBar,
                    SaveEvaluation, SaveFeedback, Running
<1>5. CASE Running' /\ Running /\ ~RunScript
  BY <1>5 DEF Next, vars, Begin, Commit, Fail, SaveCondition, SaveBar,
              SaveEvaluation, SaveFeedback, Running, FeedbackOnTheWayBack
<1> QED
  BY <1>1, <1>3, <1>4, <1>5

\* Whatever was stored, at whichever revision, an upgrade never blocks on it, and
\* c4d8e2f1a930 is not taken back over feedback that the old constraints forbid.
THEOREM MigrationsFitOrRefuse == Spec => []DataFitsOrIsRefused
<1>1. Init => FeedbackOnTheWayBack
  BY DEF Init, FeedbackOnTheWayBack, Running
<1>2. MigrationsAreSound /\ FeedbackOnTheWayBack => DataFitsOrIsRefused
  <2>1. SUFFICES ASSUME MigrationsAreSound, FeedbackOnTheWayBack, Running,
                        command.work.revision # command.target
                 PROVE  /\ Upward(command) => Applies(command)
                        /\ ~Upward(command) /\ command.work.revision = 3 /\ MisfitFeedback
                              => ~Applies(command)
    BY DEF DataFitsOrIsRefused
  <2>2. /\ Sound(command.work) /\ command.target \in 0 .. Latest
        /\ command.work.revision \in 0 .. Latest
    BY <2>1, SoundIsTyped DEF MigrationsAreSound, Running, Command, Database
  <2>3. Upward(command) => Applies(command)
    <3>1. Upward(command) => command.work.revision < Latest
      BY <2>2 DEF Upward, Latest
    <3> QED
      BY <2>2, <3>1, UpgradesApply DEF Applies
  <2>4. ASSUME ~Upward(command), command.work.revision = 3, MisfitFeedback
        PROVE  ~Applies(command)
    <3>1. command.work.revision > command.target
      BY <2>1, <2>2, <2>4 DEF Upward, Latest
    <3>2. command.work.feedback = database.feedback
      BY <2>1, <2>4, <3>1 DEF FeedbackOnTheWayBack
    <3> QED
      BY <2>2, <2>4, <3>2, MisfitsBlock DEF Applies, MisfitFeedback
  <2> QED
    BY <2>3, <2>4
<1> QED
  BY <1>1, <1>2, MigrationsStaySound, WayBackStep, PTL DEF Spec

\* On the way back every script finds the tables it drops, and drops them in an
\* order that the foreign keys permit, after whichever commands.
THEOREM DropsAreInOrder ==
    Spec => [](Running /\ command.work.revision > command.target =>
                  CanDrop(command.work.tables, DroppedBy[command.work.revision]))
<1>1. MigrationsAreSound =>
        (Running /\ command.work.revision > command.target =>
            CanDrop(command.work.tables, DroppedBy[command.work.revision]))
  <2>1. SUFFICES ASSUME MigrationsAreSound, Running, command.work.revision > command.target
                 PROVE  CanDrop(command.work.tables, DroppedBy[command.work.revision])
    OBVIOUS
  <2>2. /\ Sound(command.work) /\ command.target \in 0 .. Latest
        /\ command.work.revision \in 0 .. Latest
    BY <2>1, SoundIsTyped DEF MigrationsAreSound, Running, Command, Database
  <2>3. command.work.revision \in 1 .. Latest
    BY <2>1, <2>2 DEF Latest
  <2>4. command.work.tables = TablesAt(command.work.revision)
    BY <2>2 DEF Sound
  <2> QED
    BY <2>3, <2>4, DropsApply
<1> QED
  BY <1>1, MigrationsStaySound, PTL
=============================================================================
