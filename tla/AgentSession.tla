---------------------------- MODULE AgentSession ----------------------------
(***************************************************************************)
(* The condition-authoring agent: sessions of a thesis, the turns a        *)
(* language model takes in them with tools that create and update          *)
(* conditions, and the record of those writes (agents/orchestrator.py,     *)
(* agents/tools.py, agent_repositories.py, routes/agents.py).  A request   *)
(* is one READ COMMITTED transaction, and a turn keeps its transaction     *)
(* open while it waits for the model.  Drafts are as in ThesisMonitoring:  *)
(* rows written and not committed, seen by their author only and locked    *)
(* for everybody else.  All requests are of the owner of the theses.       *)
(***************************************************************************)
EXTENDS Naturals, FiniteSets

CONSTANTS
    Theses,       \* saved theses, which nothing deletes
    Sessions,     \* identities of sessions
    Conditions,   \* identities of conditions
    Workers,      \* requests the API serves at the same time
    MaxRounds,    \* calls of the model in a turn
    WriteWindow,  \* messages record_condition_write reads, oldest first
    MaxCalls,     \* bound: tool calls in one answer of the model
    MaxTurns,     \* bound: turns that are stored or under way
    MaxVersion    \* bound: no client edits a condition at this version

ASSUME RoundsArePositive == MaxRounds \in Nat \ {0}
ASSUME SizesAreNatural ==
    /\ WriteWindow \in Nat /\ MaxCalls \in Nat
    /\ MaxTurns \in Nat /\ MaxVersion \in Nat
ASSUME WorkersAreFinite == IsFiniteSet(Workers)

Roles == {"user", "assistant", "tool"}

SessionRow == [thesis : Theses, status : {"open", "closed"}]
NoSession  == [status |-> "none"]

\* id is unique in its session; text, tool name and times are left out.
Message   == [id : Nat \ {0}, session : Sessions, role : Roles]
NoMessage == [role |-> "none"]

\* The snapshot of a condition at a version; the last one is its current row.
\* "by" is not a column: it tells the reader of the model who wrote it.
Client  == [client |-> TRUE]
Version == [condition : Conditions, thesis : Theses, version : Nat \ {0},
            by : Sessions \cup {Client}]

ASSUME SessionsAreNotClients == Client \notin Sessions

ConditionWrite == [session : Sessions, message : Nat \ {0}, thesis : Theses,
                   condition : Conditions, action : {"create", "update"}]

VARIABLES
    (* committed rows *)
    session,    \* [Sessions -> SessionRow or NoSession]
    messages,   \* set of Message
    versions,   \* set of Version
    writes,     \* set of ConditionWrite
    (* what the request of each worker is doing *)
    pc,
    request,    \* the session and the thesis it is about
    pending,    \* the message it is about to append
    rounds,     \* answers of the model so far
    calls,      \* tool calls of the last answer still to execute
    target,     \* the condition a tool works on, and its version when read
    (* what it has written and not committed *)
    draftSession, draftMessages, draftVersions, draftWrites

database == <<session, messages, versions, writes>>
control  == <<request, pending, rounds, calls, target>>
drafts   == <<draftSession, draftMessages, draftVersions, draftWrites>>
vars     == <<database, pc, control, drafts>>

NoRequest == [kind |-> "none"]
NoTarget  == [action |-> "none"]

Init ==
    /\ session = [s \in Sessions |-> NoSession]
    /\ messages = {}
    /\ versions = {}
    /\ writes = {}
    /\ pc = [r \in Workers |-> "idle"]
    /\ request = [r \in Workers |-> NoRequest]
    /\ pending = [r \in Workers |-> NoMessage]
    /\ rounds = [r \in Workers |-> 0]
    /\ calls = [r \in Workers |-> 0]
    /\ target = [r \in Workers |-> NoTarget]
    /\ draftSession = [r \in Workers |-> NoSession]
    /\ draftMessages = [r \in Workers |-> {}]
    /\ draftVersions = [r \in Workers |-> {}]
    /\ draftWrites = [r \in Workers |-> {}]

-----------------------------------------------------------------------------
(* Transactions *)

Goto(r, label) == pc' = [pc EXCEPT ![r] = label]

EndRequest(r) ==
    /\ pc' = [pc EXCEPT ![r] = "idle"]
    /\ request' = [request EXCEPT ![r] = NoRequest]
    /\ pending' = [pending EXCEPT ![r] = NoMessage]
    /\ rounds' = [rounds EXCEPT ![r] = 0]
    /\ calls' = [calls EXCEPT ![r] = 0]
    /\ target' = [target EXCEPT ![r] = NoTarget]
    /\ draftSession' = [draftSession EXCEPT ![r] = NoSession]
    /\ draftMessages' = [draftMessages EXCEPT ![r] = {}]
    /\ draftVersions' = [draftVersions EXCEPT ![r] = {}]
    /\ draftWrites' = [draftWrites EXCEPT ![r] = {}]

\* An exception leaves the route handler: the transaction rolls back.
Fail(r) == EndRequest(r) /\ UNCHANGED database

\* The same at any point: a database error, the death of the process.
Rollback(r) == pc[r] # "idle" /\ Fail(r)

Busy == {q \in Workers : request[q] # NoRequest}

\* Mutant: every message is appended in a transaction of its own.
LockedByAnybody(r, s) ==
    \E q \in Busy : request[q].session = s /\ draftMessages[q] # {}

\* Others have created, closed or touched the session and not committed.
SessionLocked(r, s) ==
    \E q \in Busy \ {r} :
        /\ request[q].session = s
        /\ draftSession[q] # NoSession \/ draftMessages[q] # {}

ConditionLocked(r, c) ==
    \E q \in Workers \ {r} : \E v \in draftVersions[q] : v.condition = c

\* Rows the transaction of r sees.
VisibleMessages(r, s) == {m \in messages \cup draftMessages[r] : m.session = s}
VisibleVersions(r)    == versions \cup draftVersions[r]

Commit(r) ==
    /\ pc[r] = "commit"
    /\ session' = IF draftSession[r] = NoSession THEN session
                  ELSE [session EXCEPT ![request[r].session] = draftSession[r]]
    /\ messages' = messages \cup draftMessages[r]
    /\ versions' = versions \cup draftVersions[r]
    /\ writes' = writes \cup draftWrites[r]
    /\ EndRequest(r)

-----------------------------------------------------------------------------
(* Opening and closing a session *)

OpenSessions(t) == {s \in Sessions : session[s] = [thesis |-> t, status |-> "open"]}

\* require_thesis and get_open_session; with an open session the answer is 409.
BeginCreate(r, s, t) ==
    /\ pc[r] = "idle"
    /\ session[s] = NoSession
    /\ \A q \in Busy : request[q].session # s
    /\ OpenSessions(t) = {}
    /\ request' = [request EXCEPT ![r] = [kind |-> "create", session |-> s, thesis |-> t]]
    /\ Goto(r, "insert_session")
    /\ UNCHANGED <<database, pending, rounds, calls, target, drafts>>

\* Others hold the key of the partial unique index on open sessions.
KeyLocked(r, t) ==
    \/ \E q \in Workers \ {r} :
           draftSession[q] = [thesis |-> t, status |-> "open"]
    \/ \E s \in OpenSessions(t) : SessionLocked(r, s)

\* Mutant: the table has no unique index.
NeverTaken(t) == FALSE

KeyTaken(t) == OpenSessions(t) # {}

InsertSession(r) ==
    LET t == request[r].thesis IN
    /\ pc[r] = "insert_session"
    /\ ~KeyLocked(r, t)
    /\ IF KeyTaken(t) THEN Fail(r)
       ELSE /\ draftSession' = [draftSession EXCEPT ![r] =
                                  [thesis |-> t, status |-> "open"]]
            /\ Goto(r, "commit")
            /\ UNCHANGED <<database, control,
                           draftMessages, draftVersions, draftWrites>>

\* A session already closed is returned as it is.
BeginClose(r, s) ==
    /\ pc[r] = "idle"
    /\ session[s].status = "open"
    /\ request' = [request EXCEPT ![r] =
                     [kind |-> "close", session |-> s, thesis |-> session[s].thesis]]
    /\ Goto(r, "close")
    /\ UNCHANGED <<database, pending, rounds, calls, target, drafts>>

\* UPDATE ... WHERE status = 'open' waits for the row; no row means 409.
CloseSession(r) ==
    LET s == request[r].session IN
    /\ pc[r] = "close"
    /\ ~SessionLocked(r, s)
    /\ IF session[s].status = "open"
       THEN /\ draftSession' = [draftSession EXCEPT ![r] =
                                  [session[s] EXCEPT !.status = "closed"]]
            /\ Goto(r, "commit")
            /\ UNCHANGED <<database, control,
                           draftMessages, draftVersions, draftWrites>>
       ELSE Fail(r)

-----------------------------------------------------------------------------
(* Messages of a turn *)

Pending == {pending[r] : r \in Workers} \ {NoMessage}
Known   == messages \cup Pending \cup UNION {draftMessages[r] : r \in Workers}

\* A message gets its identity when it is built, before it is stored.
FreshId(s) ==
    LET ids == {m.id : m \in {n \in Known : n.session = s}} IN
    CHOOSE i \in 1 .. Cardinality(ids) + 1 : i \notin ids

Compose(r, s, role) ==
    pending' = [pending EXCEPT ![r] = [id |-> FreshId(s), session |-> s, role |-> role]]

\* The context is read from an open session; the user's message is composed.
BeginTurn(r, s) ==
    /\ pc[r] = "idle"
    /\ session[s].status = "open"
    /\ Cardinality({m \in Known : m.role = "user"}) < MaxTurns
    /\ request' = [request EXCEPT ![r] =
                     [kind |-> "turn", session |-> s, thesis |-> session[s].thesis]]
    /\ Compose(r, s, "user")
    /\ Goto(r, "check_session")
    /\ UNCHANGED <<database, rounds, calls, target, drafts>>

\* Mutant: the read before the INSERT does not look at the status.
ExistsOnly(row) == row # NoSession

TakesMessages(row) == row.status = "open"

\* append_message reads the session first.
CheckSession(r) ==
    /\ pc[r] = "check_session"
    /\ IF TakesMessages(session[request[r].session])
       THEN Goto(r, "append") /\ UNCHANGED <<database, control, drafts>>
       ELSE Fail(r)

AfterAppend(r) ==
    CASE pending[r].role = "user" -> "complete"
      [] pending[r].role = "tool" -> "execute"
      [] pending[r].role = "assistant" -> IF calls[r] = 0 THEN "commit" ELSE "next_call"

\* The INSERT, which nobody sees before the commit, and _touch_session, whose
\* UPDATE waits for the session row and does not look at the status.
Append(r) ==
    /\ pc[r] = "append"
    /\ ~SessionLocked(r, request[r].session)
    /\ draftMessages' = [draftMessages EXCEPT ![r] = @ \cup {pending[r]}]
    /\ Goto(r, AfterAppend(r))
    /\ UNCHANGED <<database, control, draftSession, draftVersions, draftWrites>>

\* The model answers with n tool calls; its text becomes a message.
Complete(r, n) ==
    /\ pc[r] = "complete"
    /\ rounds' = [rounds EXCEPT ![r] = @ + 1]
    /\ calls' = [calls EXCEPT ![r] = n]
    /\ Compose(r, request[r].session, "assistant")
    /\ Goto(r, "check_session")
    /\ UNCHANGED <<database, request, target, drafts>>

\* The provider is unreachable or its answer unusable: 502 or 503.
ModelFails(r) == pc[r] = "complete" /\ Fail(r)

\* The invocation is stored before the tool runs.
NextCall(r) ==
    /\ pc[r] = "next_call"
    /\ calls[r] > 0
    /\ calls' = [calls EXCEPT ![r] = @ - 1]
    /\ Compose(r, request[r].session, "tool")
    /\ Goto(r, "check_session")
    /\ UNCHANGED <<database, request, rounds, target, drafts>>

\* Mutant: one round more than max_rounds.
OneRoundMore(r) == rounds[r] <= MaxRounds

RoundsLeft(r) == rounds[r] < MaxRounds

\* All calls of the answer are executed: ask again, up to max_rounds times.
NextRound(r) ==
    /\ pc[r] = "next_call"
    /\ calls[r] = 0
    /\ Goto(r, IF RoundsLeft(r) THEN "complete" ELSE "commit")
    /\ UNCHANGED <<database, control, drafts>>

-----------------------------------------------------------------------------
(* Tools.  An error is an answer to the model; the transaction goes on. *)

SnapshotsOf(r, c) == {v \in VisibleVersions(r) : v.condition = c}

\* The row of a condition that r sees.
CurrentRow(r, c) ==
    CHOOSE v \in SnapshotsOf(r, c) : \A u \in SnapshotsOf(r, c) : u.version <= v.version

\* A listing, an unknown tool, invalid arguments, a condition that is not
\* there or is of another thesis, another version than the current one.
AnswerOnly(r) ==
    /\ pc[r] = "execute"
    /\ Goto(r, "next_call")
    /\ UNCHANGED <<database, control, drafts>>

Unused(c) ==
    \A v \in versions \cup UNION {draftVersions[r] : r \in Workers} : v.condition # c

Write(r, c, version) ==
    draftVersions' = [draftVersions EXCEPT ![r] = @ \cup
        {[condition |-> c, thesis |-> request[r].thesis, version |-> version,
          by |-> request[r].session]}]

\* The thesis is the one of the session, whatever the model asks for.
CreateCondition(r, c) ==
    /\ pc[r] = "execute"
    /\ Unused(c)
    /\ Write(r, c, 1)
    /\ target' = [target EXCEPT ![r] = [action |-> "create", condition |-> c, version |-> 1]]
    /\ Goto(r, "record_write")
    /\ UNCHANGED <<database, request, pending, rounds, calls,
                   draftSession, draftMessages, draftWrites>>

\* update_condition reads the row and finds it at the version the model names.
ReadCondition(r, c) ==
    /\ pc[r] = "execute"
    /\ SnapshotsOf(r, c) # {}
    /\ CurrentRow(r, c).thesis = request[r].thesis
    /\ target' = [target EXCEPT ![r] = [action    |-> "update",
                                        condition |-> c,
                                        version   |-> CurrentRow(r, c).version]]
    /\ Goto(r, "update_condition")
    /\ UNCHANGED <<database, request, pending, rounds, calls, drafts>>

\* Mutant: the WHERE clause of the UPDATE does not compare versions.
MatchAnyVersion(row, expected) == TRUE

\* WHERE version = expected_version
MatchVersion(row, expected) == row.version = expected

\* The UPDATE waits for the row and then finds it at the version or conflicts.
UpdateCondition(r) ==
    LET c == target[r].condition IN
    /\ pc[r] = "update_condition"
    /\ ~ConditionLocked(r, c)
    /\ IF MatchVersion(CurrentRow(r, c), target[r].version)
       THEN /\ Write(r, c, target[r].version + 1)
            /\ Goto(r, "record_write")
       ELSE Goto(r, "next_call") /\ UNCHANGED draftVersions
    /\ UNCHANGED <<database, control, draftSession, draftMessages, draftWrites>>

\* Mutant: the page ends one message early.
ShorterPage(r, s) == Cardinality(VisibleMessages(r, s)) < WriteWindow

\* record_condition_write wants the message of the tool call among the oldest
\* ones.  It is the newest that the transaction sees, since the session row is
\* locked: it is among them when there are no more than the window holds.
Listed(r, s) == Cardinality(VisibleMessages(r, s)) <= WriteWindow

\* Mutant: a write names the first message of the session.
FirstMessage(r) == 1

MessageOf(r) == pending[r].id

\* If it is not listed the tool answers NOT_FOUND and the condition stays written.
RecordWrite(r) ==
    LET s == request[r].session IN
    /\ pc[r] = "record_write"
    /\ draftWrites' =
         IF Listed(r, s)
         THEN [draftWrites EXCEPT ![r] = @ \cup
                 {[session   |-> s,
                   message   |-> MessageOf(r),
                   thesis    |-> request[r].thesis,
                   condition |-> target[r].condition,
                   action    |-> target[r].action]}]
         ELSE draftWrites
    /\ Goto(r, "next_call")
    /\ UNCHANGED <<database, control, draftSession, draftMessages, draftVersions>>

-----------------------------------------------------------------------------
(* Owners write conditions through the thesis API, see ThesisMonitoring *)

ClientVersion(c, t, n) ==
    versions' = versions \cup {[condition |-> c, thesis |-> t, version |-> n, by |-> Client]}

ClientCreates(c, t) ==
    /\ Unused(c)
    /\ ClientVersion(c, t, 1)
    /\ UNCHANGED <<session, messages, writes, pc, control, drafts>>

\* A PATCH of the current version that finds the row free.
ClientUpdates(v) ==
    /\ \A u \in versions : u.condition = v.condition => u.version <= v.version
    /\ v.version < MaxVersion
    /\ \A q \in Workers : \A u \in draftVersions[q] : u.condition # v.condition
    /\ ClientVersion(v.condition, v.thesis, v.version + 1)
    /\ UNCHANGED <<session, messages, writes, pc, control, drafts>>

-----------------------------------------------------------------------------

\* The steps of a request that wait for a row or a key another one has locked.
Contended(r) ==
    InsertSession(r) \/ CloseSession(r) \/ Append(r) \/ UpdateCondition(r)

Work(r) ==
    \/ Contended(r)
    \/ CheckSession(r)
    \/ \E n \in 0 .. MaxCalls : Complete(r, n)
    \/ ModelFails(r)
    \/ NextCall(r) \/ NextRound(r)
    \/ AnswerOnly(r)
    \/ \E c \in Conditions : CreateCondition(r, c) \/ ReadCondition(r, c)
    \/ RecordWrite(r)
    \/ Commit(r)

Next ==
    \/ \E r \in Workers :
        \/ \E s \in Sessions :
              \/ BeginTurn(r, s) \/ BeginClose(r, s)
              \/ \E t \in Theses : BeginCreate(r, s, t)
        \/ Work(r) \/ Rollback(r)
    \/ \E c \in Conditions, t \in Theses : ClientCreates(c, t)
    \/ \E v \in versions : ClientUpdates(v)

Spec == Init /\ [][Next]_vars

\* The event loop runs every request on, the HTTP client of the model times
\* out, and PostgreSQL serves those who wait for a row in turn.
Fairness == \A r \in Workers : WF_vars(Work(r)) /\ SF_vars(Contended(r))

FairSpec == Spec /\ Fairness

-----------------------------------------------------------------------------
(* Properties *)

Labels == {"idle", "insert_session", "close", "check_session", "append",
           "complete", "next_call", "execute", "update_condition",
           "record_write", "commit"}

Request == [kind : {"create", "close", "turn"}, session : Sessions, thesis : Theses]

Target == [action : {"create", "update"}, condition : Conditions, version : Nat \ {0}]

\* Every variable has its type.
TypeOK ==
    /\ session \in [Sessions -> SessionRow \cup {NoSession}]
    /\ messages \subseteq Message
    /\ versions \subseteq Version
    /\ writes \subseteq ConditionWrite
    /\ pc \in [Workers -> Labels]
    /\ request \in [Workers -> Request \cup {NoRequest}]
    /\ pending \in [Workers -> Message \cup {NoMessage}]
    /\ rounds \in [Workers -> 0 .. MaxRounds]
    /\ calls \in [Workers -> 0 .. MaxCalls]
    /\ target \in [Workers -> Target \cup {NoTarget}]
    /\ draftSession \in [Workers -> SessionRow \cup {NoSession}]
    /\ draftMessages \in [Workers -> SUBSET Message]
    /\ draftVersions \in [Workers -> SUBSET Version]
    /\ draftWrites \in [Workers -> SUBSET ConditionWrite]

\* At most one open session a thesis, however requests to open one overlap.
OneOpenSession == \A t \in Theses : \A s, u \in OpenSessions(t) : s = u

\* A transaction of the agent has written conditions.
Authoring(r) == draftVersions[r] # {}

\* One author a thesis: two turns never have conditions of the same thesis
\* written and not committed, and the session of each is still open.  It takes
\* the lock on the session row, the second look at the status and the unique
\* index on open sessions together.
OneAuthorPerThesis ==
    \A q, r \in Workers :
        Authoring(r) =>
            /\ session[request[r].session].status = "open"
            /\ Authoring(q) /\ q # r => request[q].thesis # request[r].thesis

ContentOf(s) == {m \in messages : m.session = s} \cup {w \in writes : w.session = s}

KeepsClosedSessions ==
    \A s \in Sessions : session[s].status = "closed" =>
        session'[s] = session[s] /\ ContentOf(s)' = ContentOf(s)

\* A closed session stays as it is, also when a turn was under way when it was
\* closed ("Cannot append messages to a closed session",
\* agent_repositories.py:162).
ClosedSessionsAreFinal == [][KeepsClosedSessions]_vars

\* What a turn read is still so when it writes: no version of a condition is
\* written twice, by turns and clients at the same time.
NoLostUpdate ==
    \A u, v \in versions :
        u.condition = v.condition /\ u.version = v.version => u = v

\* A recorded write leads to the tool call that asked for it, in the session
\* of the thesis of the condition, and to no other write.
WritesAreExplained ==
    \A w \in writes :
        /\ \E m \in messages : m.id = w.message /\ m.session = w.session /\ m.role = "tool"
        /\ session[w.session].thesis = w.thesis
        /\ \E v \in versions : /\ v.condition = w.condition /\ v.thesis = w.thesis
                               /\ v.by = w.session
        /\ \A x \in writes : x.session = w.session /\ x.message = w.message => x = w

VersionsBy(s, c) == {v \in versions : v.by = s /\ v.condition = c}
WritesOf(s, c)   == {w \in writes : w.session = s /\ w.condition = c}

\* Every version a turn has written of a condition has its record.
Audited(s) ==
    \A c \in Conditions : Cardinality(VersionsBy(s, c)) = Cardinality(WritesOf(s, c))

\* A session no longer than the window is audited in full: a turn commits its
\* conditions and their records together or not at all.
ShortSessionsAreAudited ==
    \A s \in Sessions :
        Cardinality({m \in messages : m.session = s}) <= WriteWindow => Audited(s)

\* agent_models.py:118, "Audit link: which agent turn created or updated a
\* condition": whatever an agent turn writes has its link.
EveryWriteIsAudited == \A s \in Sessions : Audited(s)

\* A request ends, with a commit or a failure, although turns hold their locks
\* while the model thinks.
RequestsEnd == \A r \in Workers : pc[r] # "idle" ~> pc[r] = "idle"
=============================================================================
