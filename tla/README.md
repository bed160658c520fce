# Formal models of stock-master-bot

TLA+ models of the monitoring backend in `src/`, checked with TLC on small
instances and, where it matters most, proved with TLAPS for instances of any
size. Paths below are relative to `src/` unless they name a module.

## 1. The system

stock-master-bot keeps *investment theses*: why somebody holds a stock, and
*conditions* that support the thesis, put it at risk or invalidate it. A
condition compares a metric (price change, volume ratio, P/E, ...) with a
threshold, possibly for several periods in a row. Market data is ingested from a
command line; an API evaluates a thesis on request, records every evaluation,
raises an event for each matched one and invalidates the thesis if a matched
condition says so. Everything else (an LLM agent that helps write conditions, a
web console) works through the same API and tables.

| Part | State it keeps | Operations | Hard behaviour |
|---|---|---|---|
| Thesis and condition API (`app/api/routes/theses.py`, `app/database/thesis_repositories.py`) | `investment_theses`, `thesis_status_history`, `thesis_conditions`, `thesis_condition_versions` | create, PATCH (optimistic `version`), list | a PATCH, an invalidation and another PATCH of one row overlap; history and snapshots must stay in step |
| Monitoring service (`app/services/thesis_monitoring_service.py`) | `rule_evaluations`, `domain_events`, `event_evidence` | `evaluate_thesis`: about ten statements in one READ COMMITTED transaction | the thesis or its conditions change between two statements; two runs evaluate the same period; a late failure must undo everything |
| Rule engine, metrics (`app/domain/`) | none | compare, count consecutive periods, compute metrics | boundaries, gaps between periods, too little data |
| Stock data repository (`app/database/repositories.py`) | `stock_daily_bars`, `company_fundamental_snapshots` | upserts, recent observations | data revised between two runs |
| Ingestion (`app/services/ingestion_runner.py`, `stock_ingestion_service.py`, `app/cli.py`) | `ingestion_runs`, `ingestion_run_items`, an advisory lock | one process a call: lock, run row, symbols with retries, closing update, exit code | lost commit answers, broken lock connection, death of the process, circuit breaker |
| Agent layer (`app/agents/`, `app/database/agent_repositories.py`, `app/api/routes/agents.py`) | sessions, messages, condition writes | open, turn, close | a session closed during a turn, two turns at once, a transaction kept open while the model thinks, message limits |
| Event review (`app/api/routes/events.py`) | event status, `event_feedback` | set status, append feedback | no version protects the status |
| Provider clients (`app/data_sources/`) | HTTP connections, threads of yfinance | two requests an attempt, retries, parsing | nested retries and time-outs; a request is cancelled with its attempt, a thread is not |
| Migrations (`alembic/`) | the schema, and rows they backfill or drop | upgrade, downgrade: several scripts in one transaction | data written before a table existed; constraints restored on data that outgrew them; failure in the middle |
| Web console (`web/`) | the page a tab shows with its forms, a signed cookie | pages, server actions, one request each | an answer that is late, lost or sent before the commit; a page reloaded while it waits; a form that is sent again; stale versions in forms |

How they interact: ingestion and the API share the stock data tables only; the
API's requests share rows of one PostgreSQL database, under READ COMMITTED, one
transaction a request (`app/api/dependencies.py:88-97`: commit after the handler,
rollback on an exception). Nothing else synchronises them: an `UPDATE ... WHERE
version = expected` and unique constraints do all the work. That is what the core
model is about. The console is a client of the API: a button is one request, and
the page is read anew after a success.

### What makes each part correct

* Theses: no update is lost; status moves along the allowed transitions; the
  history explains the status; an invalidation recorded as an event is in the
  thesis and is never undone.
* Conditions: one immutable snapshot a version, and the row is the last of them.
* Monitoring: a period of a condition version is evaluated once, a matched
  evaluation has one event, the evaluations, events and invalidation of a run
  appear together or not at all, and each evaluation can be replayed from the
  snapshot it names.
* Counting: a count of consecutive periods is backed by evaluations.
* Requests: every request ends; none waits in a circle.
* Ingestion: one run a provider, items tell what is stored, the summary tells
  the items, the circuit breaker protects the provider, every call ends.
* Provider requests: one HTTP request at a time, data of one attempt stored
  together, nothing of an attempt that timed out.
* Migrations: the schema is that of the revision, a command is all or nothing,
  existing data fits and stays consistent.
* Agent: one open session and one author a thesis; a closed session takes
  nothing more; the conditions of a turn and their audit records are committed
  together; a record leads to the tool call that asked for the write.
* Console and event review: a page that reports a success shows what was saved;
  an edit applies once; a form inserts a wish twice only after a failure or a
  page that was left unanswered; what was acknowledged first is written first.

## 2. Modules

| Module | What it models |
|---|---|
| `ThesisDomain` | vocabulary: statuses and transitions, conditions, rows, evaluations, events |
| `RuleEngine` | `rule_engine.py` as operators |
| `ThesisLedger` | abstract specification: each request is one step |
| `ThesisMonitoring` | the requests, statement by statement, over the shared tables |
| `ThesisMonitoringInvariant` | the inductive invariant of `InvalidationIsFinal` |
| `ThesisMonitoringProofs` | proofs about `ThesisMonitoring`: types, isolation, invalidation |
| `ThesisRecordsInvariant` | the inductive invariant of the records and of the refinement |
| `ThesisRecordsProofs`, `ThesisRefinementProofs` | proofs about `ThesisMonitoring`: versions, evaluations, events and counts; the ledger is implemented |
| `MCThesisMonitoring` + 3 cfgs | instances for TLC |
| `IngestionRunner` | calls of the ingestion command, an attempt being one step |
| `IngestionRunnerProofs` | proofs about `IngestionRunner` |
| `MCIngestionRunner` + 2 cfgs | instances for TLC |
| `ProviderRequests` | extends `IngestionRunner` with the inside of an attempt, and implements it |
| `ProviderRequestsProofs` | proofs about `ProviderRequests`, the refinement among them; uses lemmas of `IngestionRunnerProofs` |
| `MCProviderRequests` + 1 cfg | instance for TLC |
| `SchemaMigration` | the migrations and the data they move |
| `SchemaMigrationProofs` | proofs about `SchemaMigration` |
| `MCSchemaMigration` + 2 cfgs | instances for TLC |
| `AgentSession` | sessions and turns of the agent, with the condition rows its tools write |
| `AgentSessionProofs` | proofs about `AgentSession` |
| `MCAgentSession` + 2 cfgs | instances for TLC |
| `WebConsole` | the forms of the console, their requests, and the end of a request in the API |
| `WebConsoleProofs` | proofs about `WebConsole` |
| `MCWebConsole` + 2 cfgs | instances for TLC |

### ThesisMonitoring and the code

A *worker* serves one request at a time; `pc` names the next statement. `request`
holds the parameters; `seen`, `todo`, `current`, `series`, `prior`, `update` are
what the handler's local variables hold; the four `draft` variables are what the
transaction has written and not committed. `thesis`, `history`, `condition`,
`versions`, `evaluations`, `events` and `stored` are the committed tables.
`VisibleEvaluations` and `VisibleEvents` are what a statement of a transaction
sees: committed rows and its own. Row and unique-key locks are not stored: a row
is locked while somebody else's draft holds it (`ThesisLocked`,
`ConditionLocked`, `PeriodLocked`), and a statement that needs it is not enabled.

| Code | Actions |
|---|---|
| `create_thesis`, `create_condition` | `CreateThesis`, `CreateCondition` (all rows are new: one step) |
| `save_daily_bars`, `save_company_fundamentals` | `Ingest`, one observation |
| PATCH thesis, `update_thesis` | `BeginPatchThesis`, `ReadThesis`, `WriteThesis`, `Commit` |
| PATCH condition, `update_condition` | `BeginPatchCondition`, `WriteCondition`, `Commit` |
| `evaluate_thesis` | `BeginEvaluate`, `ListConditions`, `LoadDailyBars`, `LoadFundamentals`, then for each condition `LoadPrior`, `SaveEvaluation`, `SaveEvent`; `FinishConditions`, `ReadThesis`, `WriteThesis`, `Commit` |
| exception, cancelled request, lost connection | `Fail` inside the actions, `Rollback` at any point |

History rows and condition snapshots are added by `Commit` from the drafts: the
code inserts them right after the UPDATE they belong to, under its row lock, and
nobody can see them earlier. A metric is an input: the value of an observation
is what the metric of that day comes to, or `Missing` when its field is null.
Names, descriptions, timestamps, ids of evidence rows and the formulas are left
out, and so is the limit on the history of snapshots
(`thesis_monitoring_service.py:318-321`): a run of the model may find a field in an
older snapshot than the code reads. All theses follow one symbol and belong to the one API user.

`ThesisLedger` promises the same tables with one step a request. The run
`lifecycle` checks that `ThesisMonitoring` implements it (`LedgerSpec`); its
mapping is the identity on the committed tables.

### IngestionRunner and the code

One process a call: `pc` is where `run` is, `job` the provider and the sorted
symbols, `outcomes`, `failures` and `attempt` the runner's variables,
`connected` the life of the lock session's connection. `TryLock`, `CreateRun`,
`OpenSource`, `NextSymbol`, `Attempt`, `SaveFailed`, `CompleteRun` and `Unlock`
follow the source in order; every database transaction may fail, or take effect
and lose its answer. `refreshed` stands for the upserts, which share the
transaction of the success item. `LoseConnection` and `Die` are always
possible. Waiting (rate limit, back-off) is left out.

### ProviderRequests and the code

`IngestionRunner` takes an attempt for one step. `ProviderRequests` opens it: the
two questions of `refresh_symbol` (`fetch`, `Send`, `Respond`), the retry loops of
the two HTTP clients (`AlphaVantageVerdict`, `FinnhubVerdict`), `asyncio.to_thread`
of the yfinance adapter (`Threaded`, `PoolSize`, `ThreadEnds`), `asyncio.wait_for`
around all of it (`TimeOut`) and the commit at the end (`Store`). `wire` holds the
requests a connection or a thread is busy with: a time-out cancels an HTTP
request, and leaves a thread to itself. The `data` of a response is good or not;
parsers decide which, and are left out, like the delays between retries. The
rest of the actions are those of `IngestionRunner`, and `RunnerSpec` says that
the two are the same system: the mapping counts an attempt when it ends.

### SchemaMigration and the code

Revision `r` follows script `r` of `alembic/versions`. `Begin` is an `alembic`
command with its target, `RunScript` a script in it, `Commit` and `Fail` the end of
the one transaction `env.py` opens around all scripts. A script is a function of
the database it finds, and applies if PostgreSQL accepts its DDL: tables it
creates are new, tables it drops have no foreign key left to them, and the
constraints it adds hold for the rows there are. Between commands the program of
the present revision saves conditions, bars, evaluations and feedback. It cannot do so during one: the first script of each command that touches
a table takes a lock on it that lasts to the end of the transaction, and a
program that writes other tables meanwhile comes to the same state as one that
wrote them before.

### AgentSession and the code

As in `ThesisMonitoring` a worker serves one request in one READ COMMITTED
transaction, with committed rows, drafts and locks that are read off the drafts.
A turn keeps its transaction, and the session row it has touched, while it waits
for the model.

| Code | Actions |
|---|---|
| POST session, `create_session` | `BeginCreate` (thesis and open session read), `InsertSession` (waits for, then meets, the partial unique index), `Commit` |
| close, `close_session` | `BeginClose`, `CloseSession` (`WHERE status = 'open'`), `Commit` |
| generate and chat, `_run_turn` | `BeginTurn`, then `Complete` or `ModelFails`, `NextCall`, `NextRound`, `Commit` |
| `append_message` | `CheckSession` (reads the status), `Append` (INSERT, and `_touch_session`, which waits for the row and does not look at the status) |
| tools | `AnswerOnly` (listings and refusals), `CreateCondition`, `ReadCondition` and `UpdateCondition`, then `RecordWrite` |
| PATCH and POST condition by the owner | `ClientUpdates`, `ClientCreates`, one step each: `ThesisMonitoring` has them statement by statement |

The model may answer anything at any time, so what it is told (prompt, the page
of messages, the values of conditions) is no state of the module. A condition is
its identity, thesis and version, and `by`, not a column, tells who wrote the
version. `WriteWindow` stands for the 500 messages `record_condition_write`
reads; the message of the tool call is the newest one the transaction sees, so
it is listed exactly when the session is no longer than that. The order of
messages by `created_at` is taken to be the order of their INSERTs; a user
message composed before its turn waited for another one can be older than the
messages of that one, which concerns the listing only.

### WebConsole and the code

A tab has a page: the version of the row it was rendered from, and the presses
whose effects it can show. `Press` is a server action up to its request
(`theses/actions.ts`, `events/actions.ts`), `ShowAnswer` its end: a success
revalidates the page, a failure leaves it as it is. `Reload` is a reload, or
leaving the page and coming back, at any time: nothing in the console prevents it
while an action is pending. `fate` says what became of a press on its page:
it is waited for, its answer has been shown, or the page was left before. `Enabled`
is `SubmitButton`, which is disabled while its own form is pending; the form that
archives has a plain button (`theses/[id]/page.tsx:42`), which is not, and says
nothing after a failure. `Handle`, `Commit`, `Answer` and `Fail` are the request in
the API; `TimeOut` is `AbortSignal.timeout` in `apiRequest`, of which the API hears
nothing.

| Form | Requests |
|---|---|
| `create` | POST of a thesis, a condition or feedback on an event |
| `edit` | PATCH of a thesis or condition with `expected_version` from the page |
| `archive` | PATCH of a thesis likewise, from a form of its own |
| `mark` | PATCH of the status of an event, `update_event_status` |

A page has one form of each kind. `intent` is no state of the program: it tells a
wish that is sent again, because no success has been seen, from a new one.
`WriteElsewhere` is any other writer of the edited row: a monitoring run, the
agent, another client. `commitFirst`, chosen at the start, is the order of commit
and answer. The session is a dependency with `yield` (`dependencies.py:96-97`) of
the default scope: FastAPI runs the code after the `yield` before it sends the
response up to release 0.117, and after it from 0.118 on, and `pyproject.toml:14`
admits both. Next.js sends the actions of a tab one after another, which the model
does not require. Evaluations asked for twice are the matter of
`MatchedMeansOneEvent`, and the turns of the agent panel are requests of
`AgentSession`. No key tells a repeated POST from a new one, so a page that is
reloaded while it waits and sent again inserts twice without any failure:
`DuplicatesHaveCauses` is all that can be said of forms that insert. Which of two
concurrent marks of an event is the last is not said either: whichever commits
last, and no version tells.

## 3. Runs

| Run | Question | Bounds, and why they suffice |
|---|---|---|
| `lifecycle` | Do status changes, archiving and evaluations of one thesis behave like one-step requests, with history, triggers and invalidation right, and does every request end? | 2 workers; 1 thesis, versions up to 3 by PATCH and 4 by invalidation; 2 conditions, each created as invalidation or risk and evaluated by every run: two keys to lock in either order; 1 day; the field may be missing. Every conflict on a row is between two requests; three versions give a run that began before two others committed. A PATCH that keeps the status does what one to the present status does. A PATCH of a condition locks one row and asks for no other, so it is in no circle: it is left to `records`. |
| `records` | Do snapshots stay complete, evaluations replayable, counts backed and events single while a condition is edited and runs of two sources evaluate the same periods? | 2 workers, 2 sources, 3 days, 1 condition with 3 definitions (over 1 period, over 2, disabled) and 2 versions: a count starts, grows, stops at the bound, is interrupted, and starts again in a new version |
| `skipped_period` (violation) | Are the counted periods consecutive in the data? | 1 worker, 3 days |
| `ingestion` | Are items, summary, exit code, lock and circuit right whatever fails? | 2 calls, up to 3 symbols, 2 attempts, circuit at 2: a third symbol meets the open circuit, or is reached after a success |
| `providers` | Do the clients keep to one request, is what is stored of one attempt, and does every call end, as the runner promises? | 1 call, each of the 3 providers, 3 symbols, 2 attempts, 1 retry, circuit at 2, 2 threads: both threads can hang before the last attempt. Calls share nothing but the lock, which `ingestion` covers; `RunnerSpec` carries its results over. |
| `exit_code` (violation) | Does exit code 5 mean that nothing was stored? | 2 calls |
| `agent` | Do sessions stay single and closed ones final, do turns keep versions and records right, whatever overlaps, and does every request end? | 2 workers, 2 sessions of one thesis, 1 condition with 2 versions, 2 turns of one round, a window of 3 messages: a turn with a tool call fills it, so a second turn of a session exceeds it. Each race is between two requests, each wait for one row of a session or condition; sessions of two theses share nothing but identities. |
| `unaudited_write` (violation) | Has every write of a turn its audit record? | 2 workers, 1 session, a window of 4 messages |
| `migrations` | Do upgrades and downgrades keep schema, versions, citations and feedback consistent, whatever is stored and whatever fails? | 1 condition with 2 versions, 2 bars, a type of feedback that the first CHECK allows and one that it does not, 2 rows of it for an event, 4 commands: up, down, up and down again with data written in each pause |
| `lost_history` (violation) | Does a migration that cannot be taken back safely refuse? | 1 condition with 2 versions, 2 commands |
| `console` | Is what the console reports and shows true, whatever is late, lost, repeated, reloaded or answered too early? | 2 tabs, 2 presses, one write from elsewhere, either order of commit and answer: each property relates two presses or a press and its page, and a late request meets a newer one of the same tab or of the other. The theorems have any number of them. |
| `early_answer` (violation) | Has a request that was answered with a success been written when it is over? | 1 tab, 1 press |

Bounds are constants: `MaxDay`, `MaxThesisVersion` and `MaxConditionVersion` stop
clients from asking for more; `Revisable` says whether an observation may be
replaced (off in these runs to keep them small: a revision between two runs and
a second source for the same day give an evaluation the same conflict).
Deadlock checking is off because the system stops when clients do and the
bounds are reached. Symmetry (over workers, calls, conditions, bars or tabs) is
used in safety runs only.

### What the violations show

* `skipped_period`. `thesis_models.py:129` describes `consecutive_periods` as the
  "number of consecutive periods that must meet the condition". The count grows
  by one for every *stored evaluation* before the date; a thesis that is not
  evaluated on a day on which the rule fails matches on the next day on which it
  holds.
* `exit_code`. `docs/ingestion-operations.md:34` says that exit code 5 means that
  all stocks failed or that the task could not be started. An exception after
  the first stored symbol gives the same code, and the run stays `running`.
* `unaudited_write`. `agent_models.py:118` calls a record the "audit link: which
  agent turn created or updated a condition". `record_condition_write` looks for
  the message among the 500 oldest of the session; later ones are not found, the
  tool answers NOT_FOUND and the turn commits the condition without its record.
  `ShortSessionsAreAudited` is what remains true.

* `lost_history`. `docs/database-assumptions.md:41` wants a migration that cannot go
  back safely to "refuse explicitly, rather than silently lose history". The
  downgrade of `c4d8e2f1a930` drops `thesis_condition_versions` (line 248), and a
  later upgrade writes only the present version of each condition again. It drops
  status changes and runs as well (236-243), and `e8f1a3c5d7b9:247-262` sessions,
  messages and audit records, all with their rows. What remains true is
  `FeedbackSurvives` and the second half of `DataFitsOrIsRefused`: feedback that
  does not fit the older constraints makes the downgrade fail.
* `early_answer`. `docs/backend/sequence-diagram.md:28-29` commits the transaction and
  then answers 201. With FastAPI from 0.118 on it is the other way round
  (`dependencies.py:96-97`), and a commit that fails has been reported as a success.
  `OwnWritesAreShown` holds for the order of the diagram only. `AcknowledgedOrder`
  holds for both, because the row stays locked until the commit.

Two more places where text and code part, seen while modelling and too plain
for a run:

* DB-016 (`docs/database-assumptions.md:26`) says that every CLI call creates a run
  record, and a call that finds its provider locked raises before it does
  (`ingestion_runner.py:124-130`).
* `docs/ingestion-operations.md:54` says that symbols are fetched one after the
  other, and a yfinance thread that outlives its attempt
  (`yahoo_finance_adapter.py:32`) goes on beside the next one.

### How far some properties go

* `EvaluationsCanBeReplayed` takes the prior count of an evaluation as recorded: it
  asks for the rule, its verdict on the observed value, the match and the event.
  What the count rests on is `CountsAreBacked`.
* `CountsAreBacked` bounds counts from above. A count that is too small, because a
  run of another source stored a newer evaluation after the prior one was read, is
  allowed: the code reads first and stores later, and no text promises more.
* `EditsApplyOnce` includes archiving: its button can be pressed again while it is
  pending, and the version turns the second request away.

### Fairness

`RequestsEnd` assumes weak fairness of the steps of a request that wait for
nobody: the event loop keeps running the coroutines it has. It assumes strong
fairness of the three steps that wait for a lock: PostgreSQL queues the
transactions that wait for a row or key and wakes them in turn, so one that is
enabled again and again is not passed over for ever. Clients, ingestion,
rollbacks and crashes are not fair. `CallsEnd` assumes weak fairness of each
call's own steps, the time-out among them: `asyncio.wait_for` bounds an attempt,
and the database answers or the connection breaks. Providers and threads need
not answer, ever. Starting calls, losing connections and dying are not fair.
`RequestsEnd` of `AgentSession` has the same two assumptions: weak fairness of a
request's steps, among them the model's answer or failure (the HTTP client has a
time-out), and strong fairness of the steps that wait for a row or key.

## 4. Proofs

`ThesisMonitoringProofs`, for every set of workers, theses, conditions, sources
and observations and every bound:

* `TypeCorrectness`: `Spec => []TypeOK`. `TypeOK` includes the CHECK constraints:
  counts between 0 and 12, versions positive.
* `InvalidationFinality`: `Spec => []InvalidationIsFinal`. A committed
  invalidation event and a monitored thesis never coexist.
* `RequestIsolation`: the invariant both rest on, `TypeOK /\ RequestsAreIsolated`.

`InvalidationIsFinal` speaks of committed rows only, so it is not inductive: the
next step may be the commit of a request about which it says nothing.
`RequestsAreIsolated` adds what the code relies on without saying so:
`ReadsAreOld` (a row that was read is the present row or an older version),
`UpdatesAreChecked` (what `update_thesis` checked is true of the row it read),
`DraftsFollowRows` (a drafted row is the successor of the committed one, and
only one request has one: this is where `WHERE version = expected` and the row
lock come in), `OwnersAreStable` (a condition never changes its thesis),
`RunsInvalidate` (a run with an invalidation event in its draft commits the
invalidated row as well, or nothing). Then a commit either carries the
invalidation with the event, or leaves a status that the transitions allow,
and none leads from `invalidated` back to monitoring. One lemma a conjunct, one
case an action; the larger actions are first reduced to what they change
(`...Effect` and `...Frame`).

Assumptions: `InputsAreValid` (clients send what the schemas accept, values are
integers), `RegistryIsTotal` (each metric has a series and needs at least one
observation), `ConditionsAreOrdered` (ids are numbers, in creation order) and
`BoundsAreNatural`. TLC evaluates them in every run.

`IngestionRunnerProofs`, for every number of calls, providers, symbols and
attempts: `IngestionTypes` (types, and no symbol attempted more than
`MaxAttempts` times), `ProviderExclusion` (calls of a provider overlap only if a
lock connection broke), `TruthOfItems` (an item says succeeded exactly when the
data is stored). The invariant `RunsAreOrderly` adds who holds a lock
(`LocksFollowConnections`), that a working call has its run (`WorkIsRecorded`)
and how the attempts made relate to the place in the loop (`RequestsAreCounted`).

Two more theorems, `TruthOfReports` (`ReportsAgree`) and `CircuitProtection`
(`CircuitProtectsProvider`), rest on a second invariant, `ReportsAreOrderly`, of
each call. `ProgressFits` ties what is recorded to the place in the loop, with
`OutcomesFit` at its heart: outcomes and items of a working call say the same,
but for the item of a commit whose answer was lost, whose symbol is the current
one. Such a call can only fail to save its next item and ends without a summary,
so a summary never counts what the outcomes have missed. `FailuresFit` is the
argument for the circuit: `failures` is the length of the `Streak`, the symbols
done since the last success, up to the threshold. The lemma `StreakOpensCircuit`
shows that this streak is as long as the threshold exactly when the last
`FailureThreshold` symbols before the next one have all failed, which is what the
property says; it takes the order of the symbols, and some facts on the largest
`k` members of a finite set (`LastAreFew`, `LastAreEnough`, `LastAreLast`).
Assumptions: symbols are finitely many numbers, limits are positive, there is a
provider.

`AgentSessionProofs`, for every number of theses, sessions, conditions and
concurrent requests: `SessionUniqueness` (one open session a thesis),
`AuthorExclusion` (two turns never have conditions of a thesis written and
uncommitted) and `ClosedSessionsStay` (a closed session is not opened again and
takes no message or record). `append_message` reads the status and writes
afterwards without looking again, so a first message can be drafted in a session
that has just been closed. The proof shows why this does no harm: every turn
appends a second message before it writes or commits anything else, and reads
the status again then, holding the row (`Confirmed` in `SessionsFit`). The rest
of the invariant, `SessionsAreOrderly`, says what step a request of each kind can
be at (`LabelsFit`), whose drafts are whose (`DraftsFit`) and that two requests
never hold one row or key (`LocksExclude`). No assumption on the constants is
needed so far.

The records of a turn take a second invariant, `RecordsAreOrderly`, and a third,
`AuditsAreOrderly`. `AgentTypes` (`TypeOK`) needs that rounds are counted
(`RoundsFit`). `UpdatesAreSerial` (`NoLostUpdate`) rests on `VersionsAreSerial`:
drafted versions of a condition have one author, because the row is locked, and
follow all committed ones. `WritesHaveReasons` (`WritesAreExplained`) follows from
what a tool works with: its message is a new one (`IdsAreFresh`), appended by its
own turn and named by no other record (`ToolsFit`), and its version is drafted
before the record is (`DraftWritesAreExplained`). `ShortSessionsHaveAudits`
(`ShortSessionsAreAudited`) counts: as long as all messages a turn sees fit the
window, its drafts have as many records as versions, but for the one a tool is
about to record (`DraftsAreAudited`), and a commit publishes both. Assumptions:
requests are finitely many, a turn has a round, the window is a number, and the
API client is none of the sessions (`SessionsAreNotClients`).

`ThesisRecordsProofs` rests on a second invariant, `RecordsAreConsistent`, which
assumes the first. It says how versions, evaluations, events, triggers and
counts, committed and drafted, fit each other: periods are unique across
committed and all drafted evaluations, because a draft locks its key
(`PeriodsAreUnique`); a drafted matched evaluation has its drafted event, but for
the one a run is about to add (`EventsFitEvaluations`); a trigger is the period
of an invalidation event (`TriggersFit`); the row a run works with is a snapshot
that was enabled when it was listed (`RowsFit`), so what follows from it can be
replayed (`RecordsFollowRules`); a count is backed by evaluations the run sees
(`CountsFit`, `PriorsFit`). From it follow `OneEventForEachMatch`,
`VersionCompleteness`, `EvaluationReplay` and `CountBacking`: the properties
`MatchedMeansOneEvent`, `VersionsAreComplete`, `EvaluationsCanBeReplayed` and
`CountsAreBacked`.

`ThesisRefinementProofs`: `LedgerRefinement`, `Spec => LedgerSpec`. A
`CreateThesis` is a `Create` of the ledger, the commit of a PATCH of a thesis an
`Update`, the commit of an evaluation a `Run` that adds the draft, and every other
step changes nothing the ledger sees. That the trigger of a `Run` is one of its
own new events needs `InvalidationIsFinal`: an older invalidation event would
have left no thesis to invalidate. `HistoryOfStatus` and `TriggersOfStatus` then
follow along the steps of the ledger (`HistoriesFit`).

`ProviderRequestsProofs`, for every number of calls, symbols, attempts, retries
and threads: `ProviderRefinement`, `ProviderSpec => RunnerSpec`, so that what
holds of `IngestionRunner` holds of the whole; `OneRequestAtATime`
(`OneHttpRequest`) and `StoredTogether` (`StoredFromOneAttempt`). The invariant
`AttemptsAreOrderly` says that an attempt has the answers to the questions it has
passed, under its own number, and that an open HTTP request is the one it waits
for; answers of threads carry the number of the attempt that started them.
`ProviderTypes` (`ProviderTypeOK`) holds the two limits: `MaxAttempts` attempts at
a symbol, `MaxRetries + 1` requests for a question. Its invariant
`RequestsAreBounded` counts an attempt from its first request on, where the runner
counts it at its end (`InsideFits`, which is the runner's `CountsFit` outside of
attempts), and says that a client about to send has retries left (`RetriesFit`).
A time-out in any phase is an attempt like another.

`SchemaMigrationProofs`, for every number of conditions, bars and commands:
`MigrationsTyped`, `SchemaFollowsRevision`, `CurrentVersionsStayRecorded`,
`CitationsAlwaysResolve`, `CommandsAreAllOrNothing`, `FeedbackAlwaysSurvives`,
`MigrationsFitOrRefuse` (`DataFitsOrIsRefused`) and `DropsAreInOrder` (a downgrade
finds the tables it drops, and drops them in an order the foreign keys permit).
`MigrationsAreSound` says the same of the committed database and of the one a
command works on; each script is a function that preserves it. For
`MigrationsFitOrRefuse` and `DropsAreInOrder` the lemmas `KeysPointBack` and `KeysGoFirst` go through the
foreign keys: a table refers to tables created before it, and is referred to by
tables dropped before it, so each script finds what it needs. What remains are
the constraints on feedback: the widened ones take whatever the older ones took,
the older ones not, and a command on the way back has not changed the feedback it
finds (`FeedbackOnTheWayBack`).

`WebConsoleProofs`, for every number of tabs and presses and both orders of commit
and answer: `ConsoleTypes`, `EditsAreAppliedOnce`, `DuplicatesAreExplained`
(`DuplicatesHaveCauses`), `AcknowledgedWritesStayFirst` and `SavedIsShown`
(`OwnWritesAreShown`), which are the properties of the run `console`. One
invariant, `ConsoleIsOrderly`, is enough. An edit that holds the row was made for
the present version and is alone; once written, its version is past
(`EditsFollowVersions`). A wish belongs to one form of one tab and is numbered by
its first press (`WishesAreKept`), and a press that repeats it comes after one
that has failed or whose page was left, because a button that is not disabled has
no press pending (`RepeatsHaveCauses`, `LastPressHasFailed`). What was acknowledged
before a press has ended when that press gets the row (`LocksKeepTheOrder`): the
lock outlives the answer where the answer comes first. An `ok` means written only
where the commit comes first (`AnswersAreJustified`), hence the premise of
`OwnWritesAreShown`; that the page then shows it takes the rendering
(`ShowingASuccessRenders`) and, for the version, `EditsFollowVersions`.

These rest on the assumptions about constants their specifications state
(`LimitsArePositive`, `SymbolsAreSorted`, `ProvidersAreRegistered`,
`RetriesAndPool`; `BoundsAreNaturals`, `TypesUsedExist`).

So every invariant and action property that a passing run checks is a theorem.
Only model-checked: the liveness properties (`RequestsEnd` of both modules and
`CallsEnd`). Liveness under fairness, ENABLED, what recursive definitions
compute and induction over data are outside what the prover can do and stay with
TLC.

## 5. Not modelled, and why

* The agent's prompt, its context (a page of the 100 oldest messages) and its
  rolling memory, which no code writes: the model is free to ask for anything.
  The LLM client is HTTP to an external service, and its failures are inputs.
* Metric formulas and decimal rounding: planned below; until then a metric is
  an input of the model.
* Parsers of provider responses (good or unusable data is all an attempt
  distinguishes), back-off delays and the pause between symbols
  (`_respect_rate_limit`, once a symbol): no property is about time. The setting
  `alpha_vantage_rate_limit_per_minute` is read by nothing.
* That the process of a call ends only when its threads do: the exit code is
  what the model has.
* Columns, indexes and the CHECK constraints that no data written by the program
  can violate, in the migrations. Versions a condition had before
  `thesis_condition_versions` existed, or while a downgrade had removed it, are
  not recorded: the backfill takes the present one, and DB-006 is about
  conditions created later.
* Sign-in to the console and its cookie, the dashboard (it counts among the
  first 500 theses and events), serialisation, authentication with the single
  API token, settings, logging: they change no state that a property is about.
* GET routes and the paged lists of the console: they change nothing. Events keep
  their place in their list, a thesis that is updated moves forward in its own, so
  somebody who turns pages meanwhile may miss that thesis; the links between the
  pages carry the offset and not the filters.
* `anomaly_events` and the session helper in `app/database/session.py`: kept for
  compatibility, not used.

## 6. Plan

In this order; each with its runs, mutants and hazards.

1. `MetricCalculator`: the formulas as pure operators against reference
   definitions; rounding to the stored precision.
2. `ConditionReplay`: if every period is evaluated once and in order, a condition
   matches exactly when its last periods met the rule: the reading of the docs,
   under the condition that makes it true.
