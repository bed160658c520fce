-------------------------- MODULE ThesisMonitoring --------------------------
(***************************************************************************)
(* The thesis API over PostgreSQL: creating and editing theses and         *)
(* conditions, storing market observations, and evaluating a thesis        *)
(* (thesis_monitoring_service.py).  A request is one READ COMMITTED        *)
(* transaction (dependencies.py); a worker runs one request at a time and  *)
(* each SQL statement of a request is a step, so requests interleave at    *)
(* every await.  What a request has written is its draft: nobody else sees *)
(* it before Commit, and it locks the rows and unique keys it touches.     *)
(* Requests that are one statement, or two on rows nobody knows yet, are   *)
(* single steps.  All theses follow one stock symbol.                      *)
(***************************************************************************)
EXTENDS RuleEngine, FiniteSets

CONSTANTS
    Workers,             \* requests the API serves at the same time
    Definitions,         \* condition definitions clients submit
    PatchStatuses,       \* status of a PATCH thesis; "same" if it sets none
    Feed,                \* observations ingestion may deliver, in any order;
                         \* value is what the metric of their day comes to
    Absent,              \* no observation stored for the day
    Missing,             \* snapshot stored, the field of the metric is null
    Revisable,           \* does ingestion rewrite stored observations?
    MaxDay,              \* bound: days for which data is ingested
    MaxThesisVersion,    \* bound: no PATCH of a thesis beyond this version
    MaxConditionVersion  \* bound: no PATCH of a condition beyond this version

Days == 1 .. MaxDay
Observation == {o.value : o \in Feed} \cup {Absent}

ASSUME InputsAreValid ==
    /\ Definitions \subseteq Definition
    /\ PatchStatuses \subseteq ThesisStatus \cup {"same"}
    /\ Feed \subseteq [source : Sources, kind : InputKinds, day : Days,
                       value : Int \cup {Missing}]
    /\ \A o \in Feed : o.value = Missing => o.kind = "fundamentals"
    /\ Absent \notin Int /\ Missing \notin Int /\ Absent # Missing
    /\ Revisable \in BOOLEAN

ASSUME BoundsAreNatural ==
    MaxDay \in Nat /\ MaxThesisVersion \in Nat /\ MaxConditionVersion \in Nat

VARIABLES
    (* committed rows *)
    thesis,            \* [Theses -> ThesisRow or NoThesis]
    history,           \* [Theses -> Seq(StatusChange)]
    condition,         \* [Conditions -> ConditionRow or NoCondition]
    versions,          \* thesis_condition_versions: set of ConditionRow
    evaluations,       \* set of Evaluation
    events,            \* set of Event with their evidence
    stored,            \* observations, by source, input kind and day
    (* what the request of each worker is doing and has read *)
    pc,
    request,           \* its parameters
    seen,              \* the thesis row it read last
    todo,              \* enabled conditions it still has to evaluate
    current,           \* the condition row it works on
    series,            \* the observations it loaded
    prior,             \* the earlier evaluation it read for current, if any
    update,            \* the arguments of its call of update_thesis
    (* what it has written and not committed *)
    draftThesis, draftCondition, draftEvaluations, draftEvents

database  == <<thesis, history, condition, versions, evaluations, events, stored>>
reads     == <<seen, todo, current, series, prior, update>>
drafts    == <<draftThesis, draftCondition, draftEvaluations, draftEvents>>
vars      == <<database, pc, request, reads, drafts>>

Series == [InputKinds -> [Days -> Observation]]
NoSeries == [k \in InputKinds |-> [d \in Days |-> Absent]]

NoRequest == [kind |-> "none"]
NoUpdate  == [expected |-> 0, status |-> "same", trigger |-> {}]

Init ==
    /\ thesis = [t \in Theses |-> NoThesis]
    /\ history = [t \in Theses |-> <<>>]
    /\ condition = [c \in Conditions |-> NoCondition]
    /\ versions = {}
    /\ evaluations = {}
    /\ events = {}
    /\ stored = [s \in Sources |-> NoSeries]
    /\ pc = [r \in Workers |-> "idle"]
    /\ request = [r \in Workers |-> NoRequest]
    /\ seen = [r \in Workers |-> NoThesis]
    /\ todo = [r \in Workers |-> {}]
    /\ current = [r \in Workers |-> NoCondition]
    /\ series = [r \in Workers |-> NoSeries]
    /\ prior = [r \in Workers |-> {}]
    /\ update = [r \in Workers |-> NoUpdate]
    /\ draftThesis = [r \in Workers |-> NoThesis]
    /\ draftCondition = [r \in Workers |-> NoCondition]
    /\ draftEvaluations = [r \in Workers |-> {}]
    /\ draftEvents = [r \in Workers |-> {}]

-----------------------------------------------------------------------------
(* Transactions *)

Goto(r, label) == pc' = [pc EXCEPT ![r] = label]

\* The session closes: what the request read and drafted is gone.
EndRequest(r) ==
    /\ pc' = [pc EXCEPT ![r] = "idle"]
    /\ request' = [request EXCEPT ![r] = NoRequest]
    /\ seen' = [seen EXCEPT ![r] = NoThesis]
    /\ todo' = [todo EXCEPT ![r] = {}]
    /\ current' = [current EXCEPT ![r] = NoCondition]
    /\ series' = [series EXCEPT ![r] = NoSeries]
    /\ prior' = [prior EXCEPT ![r] = {}]
    /\ update' = [update EXCEPT ![r] = NoUpdate]
    /\ draftThesis' = [draftThesis EXCEPT ![r] = NoThesis]
    /\ draftCondition' = [draftCondition EXCEPT ![r] = NoCondition]
    /\ draftEvaluations' = [draftEvaluations EXCEPT ![r] = {}]
    /\ draftEvents' = [draftEvents EXCEPT ![r] = {}]

\* An exception leaves the route handler: the transaction rolls back.
Fail(r) == EndRequest(r) /\ UNCHANGED database

\* The same at any point of a request: the client goes away, the connection
\* or the process dies.
Rollback(r) == pc[r] # "idle" /\ Fail(r)

\* Rows another transaction has written and not committed make a writer wait.
ThesisLocked(r, t) ==
    \E q \in Workers \ {r} : draftThesis[q] # NoThesis /\ request[q].thesis = t

ConditionLocked(r, c) ==
    \E q \in Workers \ {r} : draftCondition[q] # NoCondition /\ draftCondition[q].id = c

PeriodLocked(r, p) ==
    \E q \in Workers \ {r} : \E e \in draftEvaluations[q] : Period(e) = p

\* Mutant: the history row of a status change is not added.
ForgetfulHistory(r) == history

\* Mutant: the history row leaves out the status before.
HistoryWithoutStatus(r) ==
    [history EXCEPT ![request[r].thesis] =
        Append(@, [from    |-> NoThesis.status,
                   to      |-> draftThesis[r].status,
                   trigger |-> update[r].trigger])]

\* update_thesis adds one status-history row when the status changes.
WithStatusChange(r) ==
    IF draftThesis[r].status = seen[r].status THEN history
    ELSE [history EXCEPT ![request[r].thesis] =
            Append(@, [from    |-> seen[r].status,
                       to      |-> draftThesis[r].status,
                       trigger |-> update[r].trigger])]

\* Mutant: the snapshot keeps the version number the condition had before.
StaleVersionRow(row) == [row EXCEPT !.version = IF @ > 1 THEN @ - 1 ELSE 1]

\* The snapshot kept of a condition at one of its versions.
VersionRow(row) == row

Commit(r) ==
    /\ pc[r] = "commit"
    /\ IF draftThesis[r] = NoThesis THEN UNCHANGED <<thesis, history>>
       ELSE /\ thesis' = [thesis EXCEPT ![request[r].thesis] = draftThesis[r]]
            /\ history' = WithStatusChange(r)
    /\ IF draftCondition[r] = NoCondition THEN UNCHANGED <<condition, versions>>
       ELSE /\ condition' = [condition EXCEPT ![draftCondition[r].id] = draftCondition[r]]
            /\ versions' = versions \cup {VersionRow(draftCondition[r])}
    /\ evaluations' = evaluations \cup draftEvaluations[r]
    /\ events' = events \cup draftEvents[r]
    /\ UNCHANGED stored
    /\ EndRequest(r)

-----------------------------------------------------------------------------
(* Requests of one step *)

CreateThesis(t) ==
    /\ thesis[t] = NoThesis
    /\ thesis' = [thesis EXCEPT ![t] = [status |-> "active", version |-> 1]]
    /\ UNCHANGED <<history, condition, versions, evaluations, events, stored,
                   pc, request, reads, drafts>>

\* Any thesis takes new conditions, whatever its status.
CreateCondition(c, t, d) ==
    LET row == [id |-> c, thesis |-> t, definition |-> d, version |-> 1] IN
    /\ condition[c] = NoCondition
    /\ thesis[t] # NoThesis
    /\ condition' = [condition EXCEPT ![c] = row]
    /\ versions' = versions \cup {VersionRow(row)}
    /\ UNCHANGED <<thesis, history, evaluations, events, stored,
                   pc, request, reads, drafts>>

\* Ingestion stores the observation of a day; its upsert replaces what is there.
Ingest(o) ==
    /\ Revisable \/ stored[o.source][o.kind][o.day] = Absent
    /\ stored' = [stored EXCEPT ![o.source][o.kind][o.day] = o.value]
    /\ UNCHANGED <<thesis, history, condition, versions, evaluations, events,
                   pc, request, reads, drafts>>

-----------------------------------------------------------------------------
(* PATCH of a thesis, and the update an evaluation makes *)

BeginPatchThesis(r, t, expected, status) ==
    /\ pc[r] = "idle"
    /\ thesis[t] # NoThesis /\ thesis[t].version < MaxThesisVersion
    /\ request' = [request EXCEPT ![r] = [kind |-> "patch_thesis", thesis |-> t]]
    /\ update' = [update EXCEPT ![r] =
                    [expected |-> expected, status |-> status, trigger |-> {}]]
    /\ Goto(r, "read_thesis")
    /\ UNCHANGED <<database, seen, todo, current, series, prior, drafts>>

\* Mutant: the transition is not validated.
AnyTransition(row, u) == row.version = u.expected

\* The checks update_thesis makes on the row it reads.
UpdateIsValid(row, u) ==
    /\ row.version = u.expected
    /\ u.status # "same" => MayBecome(row.status, u.status)

ReadThesis(r) ==
    /\ pc[r] = "read_thesis"
    /\ LET row == thesis[request[r].thesis] IN
       IF UpdateIsValid(row, update[r])
       THEN /\ seen' = [seen EXCEPT ![r] = row]
            /\ Goto(r, "write_thesis")
            /\ UNCHANGED <<database, request, todo, current, series, prior,
                           update, drafts>>
       ELSE Fail(r)

\* Mutant: the WHERE clause of the UPDATE does not compare versions.
MatchAnyVersion(row, expected) == TRUE

\* WHERE version = expected_version
MatchVersion(row, expected) == row.version = expected

\* Columns the request does not set keep their value.
StatusAfter(row, u) == IF u.status = "same" THEN row.status ELSE u.status

\* The UPDATE waits for the row and then finds it at the version or fails.
WriteThesis(r) ==
    /\ pc[r] = "write_thesis"
    /\ ~ThesisLocked(r, request[r].thesis)
    /\ LET row == thesis[request[r].thesis]
           u   == update[r]
       IN  IF MatchVersion(row, u.expected)
           THEN /\ draftThesis' = [draftThesis EXCEPT ![r] =
                     [status |-> StatusAfter(row, u), version |-> u.expected + 1]]
                /\ Goto(r, "commit")
                /\ UNCHANGED <<database, request, reads,
                               draftCondition, draftEvaluations, draftEvents>>
           ELSE Fail(r)

-----------------------------------------------------------------------------
(* PATCH of a condition *)

\* Starts with the read of require_condition; a client that names another
\* version than the one read is refused and nothing happens.
BeginPatchCondition(r, c) ==
    /\ pc[r] = "idle"
    /\ condition[c] # NoCondition /\ condition[c].version < MaxConditionVersion
    /\ request' = [request EXCEPT ![r] = [kind      |-> "patch_condition",
                                         thesis    |-> condition[c].thesis,
                                         condition |-> c]]
    /\ current' = [current EXCEPT ![r] = condition[c]]
    /\ update' = [update EXCEPT ![r] = [NoUpdate EXCEPT !.expected = condition[c].version]]
    /\ Goto(r, "write_condition")
    /\ UNCHANGED <<database, seen, todo, series, prior, drafts>>

\* The new row holds whatever the client changed; the snapshot of the new
\* version is added in the same transaction.
WriteCondition(r, d) ==
    /\ pc[r] = "write_condition"
    /\ ~ConditionLocked(r, request[r].condition)
    /\ LET row == condition[request[r].condition] IN
       IF MatchVersion(row, update[r].expected)
       THEN /\ draftCondition' = [draftCondition EXCEPT ![r] =
                 [row EXCEPT !.definition = d, !.version = update[r].expected + 1]]
            /\ Goto(r, "commit")
            /\ UNCHANGED <<database, request, reads,
                           draftThesis, draftEvaluations, draftEvents>>
       ELSE Fail(r)

-----------------------------------------------------------------------------
(* Evaluation of a thesis *)

BeginEvaluate(r, t, s) ==
    /\ pc[r] = "idle"
    /\ thesis[t].status \in Monitorable
    /\ request' = [request EXCEPT ![r] = [kind |-> "evaluate", thesis |-> t, source |-> s]]
    /\ seen' = [seen EXCEPT ![r] = thesis[t]]
    /\ Goto(r, "list_conditions")
    /\ UNCHANGED <<database, todo, current, series, prior, update, drafts>>

ConditionsOf(t) ==
    {row \in {condition[c] : c \in Conditions} \ {NoCondition} : row.thesis = t}

\* Mutant: disabled conditions are listed too.
AllConditions(t) == ConditionsOf(t)

EnabledConditions(t) == {row \in ConditionsOf(t) : row.definition.enabled}

ListConditions(r) ==
    /\ pc[r] = "list_conditions"
    /\ todo' = [todo EXCEPT ![r] = EnabledConditions(request[r].thesis)]
    /\ Goto(r, "load_daily_bars")
    /\ UNCHANGED <<database, request, seen, current, series, prior, update, drafts>>

MetricOf(row) == row.definition.rule.metric

\* The conditions whose metric is computed from series of kind k.
Needing(rows, k) == {row \in rows : InputKind[MetricOf(row)] = k}

Recorded(data) == {d \in Days : data[d] # Absent}

\* One SELECT for all conditions that need the series; too few observations
\* for any of them fail the whole run.  The limit of the SELECT, for snapshots
\* fundamental_history_limit, is left out: a metric may find its value in an
\* older snapshot than the code reads.
LoadSeries(r, k, next) ==
    LET data == stored[request[r].source][k] IN
    IF \A row \in Needing(todo[r], k) :
           Cardinality(Recorded(data)) >= RequiredObservations[MetricOf(row)]
    THEN /\ series' = IF Needing(todo[r], k) = {} THEN series
                      ELSE [series EXCEPT ![r][k] = data]
         /\ Goto(r, next)
         /\ UNCHANGED <<database, request, seen, todo, current, prior, update, drafts>>
    ELSE Fail(r)

LoadDailyBars(r) ==
    pc[r] = "load_daily_bars" /\ LoadSeries(r, "daily_bars", "load_fundamentals")

LoadFundamentals(r) ==
    pc[r] = "load_fundamentals" /\ LoadSeries(r, "fundamentals", "next_condition")

\* The days on which the metric of a condition has a value.
Usable(data) == {d \in Days : data[d] \in Int}

LatestDay(data) == CHOOSE d \in Usable(data) : \A e \in Usable(data) : e <= d

SeriesFor(r, row) == series[r][InputKind[MetricOf(row)]]

\* A transaction sees what is committed and what it wrote itself.
VisibleEvaluations(r) == evaluations \cup draftEvaluations[r]
VisibleEvents(r) == events \cup draftEvents[r]

\* Mutant: the run of an earlier version of the condition is continued.
EarlierOfAnyVersion(evals, row, asOf) ==
    LatestOf({e \in evals : e.condition = row.id /\ e.asOf < asOf})

\* list_prior_evaluations with limit 1
Earlier(evals, row, asOf) ==
    LatestOf({e \in evals :
                e.condition = row.id /\ e.version = row.version /\ e.asOf < asOf})

\* Mutant: the conditions are listed in no particular order.
InAnyOrder(rows) == rows

\* The conditions come in (created_at, id) order.
FirstOf(rows) == {row \in rows : \A other \in rows : row.id <= other.id}

\* Takes the next condition, computes its metric and reads the evaluation
\* before it; a metric without a value fails the whole run.
LoadPrior(r) ==
    /\ pc[r] = "next_condition"
    /\ \E row \in FirstOf(todo[r]) :
        LET data == SeriesFor(r, row) IN
        IF Cardinality(Usable(data)) >= RequiredObservations[MetricOf(row)]
        THEN /\ current' = [current EXCEPT ![r] = row]
             /\ prior' = [prior EXCEPT ![r] =
                   IF row.definition.rule.periods = 1 THEN {}
                   ELSE Earlier(VisibleEvaluations(r), row, LatestDay(data))]
             /\ Goto(r, "save_evaluation")
             /\ UNCHANGED <<database, request, seen, todo, series, update, drafts>>
        ELSE Fail(r)

Candidate(r) ==
    LET row  == current[r]
        data == SeriesFor(r, row)
        asOf == LatestDay(data)
    IN  EvaluateCondition(row, asOf, data[asOf], request[r].source, prior[r])

\* On to the rest of the conditions.
Done(r) ==
    /\ todo' = [todo EXCEPT ![r] = @ \ {current[r]}]
    /\ current' = [current EXCEPT ![r] = NoCondition]
    /\ prior' = [prior EXCEPT ![r] = {}]
    /\ Goto(r, "next_condition")

\* INSERT ... ON CONFLICT DO NOTHING waits for a transaction that has inserted
\* the same period; the evaluation found there, if any, is the one used.
SaveEvaluation(r) ==
    LET candidate == Candidate(r)
        existing  == {e \in VisibleEvaluations(r) : Period(e) = Period(candidate)}
        saved     == IF existing = {} THEN {candidate} ELSE existing
    IN  /\ pc[r] = "save_evaluation"
        /\ ~PeriodLocked(r, Period(candidate))
        /\ draftEvaluations' =
              IF existing = {} THEN [draftEvaluations EXCEPT ![r] = @ \cup {candidate}]
              ELSE draftEvaluations
        /\ IF \E e \in saved : e.matched
           THEN Goto(r, "save_event") /\ UNCHANGED <<todo, current, prior>>
           ELSE Done(r)
        /\ UNCHANGED <<database, request, seen, series, update,
                       draftThesis, draftCondition, draftEvents>>

\* The event of saved, an evaluation of the condition row.
EventOf(row, saved, source) ==
    [thesis    |-> saved.thesis,
     condition |-> saved.condition,
     version   |-> saved.version,
     asOf      |-> saved.asOf,
     kind      |-> row.definition.kind,
     evidence  |-> source]

\* Mutant: the unique evaluation of an event is not enforced.
NoEventYet(visible, saved) == {}

\* domain_event_evaluation_identity: the event that saved already has.
ExistingEvent(visible, saved) == {v \in visible : Period(v) = Period(saved)}

\* Mutant: a matched risk condition invalidates the thesis as well.
RiskInvalidates(row) == row.definition.kind # "support"

IsInvalidation(row) == row.definition.kind = "invalidation"

\* The first matched invalidation condition of a run is the one that counts.
SaveEvent(r) ==
    /\ pc[r] = "save_event"
    /\ \E saved \in VisibleEvaluations(r) :
        /\ Period(saved) = Period(Candidate(r))
        /\ draftEvents' =
              IF ExistingEvent(VisibleEvents(r), saved) # {} THEN draftEvents
              ELSE [draftEvents EXCEPT ![r] =
                      @ \cup {EventOf(current[r], saved, request[r].source)}]
        /\ update' =
              IF IsInvalidation(current[r]) /\ update[r].trigger = {}
              THEN [update EXCEPT ![r].trigger = {Period(saved)}]
              ELSE update
    /\ Done(r)
    /\ UNCHANGED <<database, request, seen, series,
                   draftThesis, draftCondition, draftEvaluations>>

\* Invalidates the thesis as it was read at the start, or has nothing to update.
FinishConditions(r) ==
    /\ pc[r] = "next_condition"
    /\ todo[r] = {}
    /\ IF update[r].trigger # {} /\ seen[r].status # "invalidated"
       THEN /\ update' = [update EXCEPT ![r].expected = seen[r].version,
                                       ![r].status = "invalidated"]
            /\ Goto(r, "read_thesis")
       ELSE Goto(r, "commit") /\ UNCHANGED update
    /\ UNCHANGED <<database, request, seen, todo, current, series, prior, drafts>>

-----------------------------------------------------------------------------

\* Steps of a request that wait for nobody, and those that take a lock.
Proceed(r) ==
    \/ ReadThesis(r) \/ ListConditions(r) \/ LoadDailyBars(r)
    \/ LoadFundamentals(r) \/ LoadPrior(r) \/ SaveEvent(r)
    \/ FinishConditions(r) \/ Commit(r)

Acquire(r) ==
    \/ WriteThesis(r)
    \/ \E d \in Definitions : WriteCondition(r, d)
    \/ SaveEvaluation(r)

Begin(r) ==
    \/ \E t \in Theses, s \in Sources : BeginEvaluate(r, t, s)
    \/ \E t \in Theses, status \in PatchStatuses :
          \E expected \in 1 .. thesis[t].version :
              BeginPatchThesis(r, t, expected, status)
    \/ \E c \in Conditions : BeginPatchCondition(r, c)

Environment ==
    \/ \E t \in Theses : CreateThesis(t)
    \/ \E c \in Conditions, t \in Theses, d \in Definitions : CreateCondition(c, t, d)
    \/ \E o \in Feed : Ingest(o)

Next ==
    \/ Environment
    \/ \E r \in Workers : Begin(r) \/ Proceed(r) \/ Acquire(r) \/ Rollback(r)

Spec == Init /\ [][Next]_vars

\* The server keeps running the requests it has started, and PostgreSQL hands
\* a released lock to the transactions queued for it.  Nothing forces clients,
\* ingestion or failures to act.
Fairness == \A r \in Workers : WF_vars(Proceed(r)) /\ SF_vars(Acquire(r))

FairSpec == Spec /\ Fairness

-----------------------------------------------------------------------------
(* Properties *)

Labels == {"idle", "list_conditions", "load_daily_bars", "load_fundamentals",
           "next_condition", "save_evaluation", "save_event",
           "read_thesis", "write_thesis", "write_condition", "commit"}

Request ==
    [kind : {"evaluate"}, thesis : Theses, source : Sources]
      \cup [kind : {"patch_thesis"}, thesis : Theses]
      \cup [kind : {"patch_condition"}, thesis : Theses, condition : Conditions]

UpdateCall == [expected : Nat,
               status   : ThesisStatus \cup {"same"},
               trigger  : SUBSET PeriodId]

\* Every variable has its type.  Evaluation bounds the count of consecutive
\* periods as the CHECK constraints of rule_evaluations do.
TypeOK ==
    /\ thesis \in [Theses -> ThesisRow \cup {NoThesis}]
    /\ history \in [Theses -> Seq(StatusChange)]
    /\ condition \in [Conditions -> ConditionRow \cup {NoCondition}]
    /\ versions \subseteq ConditionRow
    /\ evaluations \subseteq Evaluation
    /\ events \subseteq Event
    /\ stored \in [Sources -> Series]
    /\ pc \in [Workers -> Labels]
    /\ request \in [Workers -> Request \cup {NoRequest}]
    /\ seen \in [Workers -> ThesisRow \cup {NoThesis}]
    /\ todo \in [Workers -> SUBSET ConditionRow]
    /\ current \in [Workers -> ConditionRow \cup {NoCondition}]
    /\ series \in [Workers -> Series]
    /\ prior \in [Workers -> SUBSET Evaluation]
    /\ update \in [Workers -> UpdateCall]
    /\ draftThesis \in [Workers -> ThesisRow \cup {NoThesis}]
    /\ draftCondition \in [Workers -> ConditionRow \cup {NoCondition}]
    /\ draftEvaluations \in [Workers -> SUBSET Evaluation]
    /\ draftEvents \in [Workers -> SUBSET Event]

Ledger == INSTANCE ThesisLedger
              WITH thesis <- thesis, history <- history,
                   evaluations <- evaluations, events <- events

\* The interleaved transactions behave like the one-step requests of the
\* ledger: no thesis update is lost, every status change is recorded once, and
\* a run's evaluations, events and invalidation appear together or not at all.
LedgerSpec == Ledger!Spec

\* A committed invalidation event and a thesis still monitored never coexist,
\* even when owners edit and archive theses while runs are under way.
InvalidationIsFinal == Ledger!InvalidationIsFinal

\* The status history explains the status (thesis_status_history, DB-004).
HistoryExplainsStatus == Ledger!HistoryExplainsStatus

\* The triggering event of a status change exists and is an invalidation.
TriggersAreRecorded == Ledger!TriggersAreRecorded

\* One evaluation a period and one event for each matched evaluation, also
\* when runs evaluate the same period at once (DB-008, DB-009).
MatchedMeansOneEvent == Ledger!MatchedMeansOneEvent

\* A condition has exactly one snapshot for each of its versions and the last
\* one is the condition itself (DB-006), whatever PATCH requests overlap.
VersionsAreComplete ==
    \A c \in Conditions :
        LET row   == condition[c]
            snaps == {s \in versions : s.id = c}
        IN  /\ {s.version : s \in snaps} = 1 .. row.version
            /\ Cardinality(snaps) = row.version
            /\ row # NoCondition => row \in snaps

\* rule_version leads to the rule that was applied: the snapshot was enabled,
\* has the recorded rule, gives the recorded count and match for the recorded
\* value, and an event has its kind and cites the evaluated source.
EvaluationsCanBeReplayed ==
    \A e \in evaluations : \E s \in versions :
        /\ s.id = e.condition /\ s.version = e.version /\ s.thesis = e.thesis
        /\ s.definition.enabled
        /\ s.definition.rule = e.rule
        /\ e.count > 0 <=> Satisfies(e.observed, e.rule)
        /\ e.matched <=> e.count = e.rule.periods
        /\ \A v \in events : Period(v) = Period(e) =>
              v.kind = s.definition.kind /\ v.evidence = e.source

\* The evaluations of the version of e, up to its date, that met the rule.
Supporting(e) ==
    {f \in evaluations : /\ f.condition = e.condition /\ f.version = e.version
                         /\ f.asOf <= e.asOf
                         /\ Satisfies(f.observed, f.rule)}

\* A stored count of n is backed by n stored evaluations of that version that
\* met the rule: concurrent runs, reused evaluations and PATCHes of the
\* condition never inflate it.
CountsAreBacked ==
    \A e \in evaluations : Cardinality(Supporting(e)) >= e.count

\* A request ends, with a commit or a failure: requests never wait for each
\* other's locks in a circle.
RequestsEnd == \A r \in Workers : pc[r] # "idle" ~> pc[r] = "idle"

\* The last n usable days of a series.
LastUsable(data, n) ==
    {d \in Usable(data) : Cardinality({e \in Usable(data) : e > d}) < n}

\* thesis_models.py:129, "number of consecutive periods that must meet the
\* condition": when a run is about to record a match, the last periods of the
\* series it has loaded meet the rule.
MatchesMeanConsecutivePeriods ==
    \A r \in Workers :
        pc[r] = "save_evaluation" /\ Candidate(r).matched =>
            LET rule == current[r].definition.rule
                data == SeriesFor(r, current[r])
            IN  \A d \in LastUsable(data, rule.periods) : Satisfies(data[d], rule)
=============================================================================
