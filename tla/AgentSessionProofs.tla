------------------------- MODULE AgentSessionProofs -------------------------
(***************************************************************************)
(* Proofs about AgentSession, for any number of theses, sessions,          *)
(* conditions and concurrent requests: one open session and one author a   *)
(* thesis, closed sessions take nothing more, versions are written once,   *)
(* records lead to their tool calls, short sessions have all records.      *)
(***************************************************************************)
EXTENDS AgentSession, FiniteSetTheorems, TLAPS

\* The types the argument needs.
Shape ==
    /\ session \in [Sessions -> SessionRow \cup {NoSession}]
    /\ pc \in [Workers -> Labels]
    /\ request \in [Workers -> Request \cup {NoRequest}]
    /\ draftSession \in [Workers -> SessionRow \cup {NoSession}]
    /\ DOMAIN pending = Workers
    /\ DOMAIN draftMessages = Workers
    /\ DOMAIN draftVersions = Workers
    /\ DOMAIN draftWrites = Workers

TurnLabels == {"check_session", "append", "complete", "next_call", "execute",
               "update_condition", "record_write"}

\* A request is at a step of its kind.
LabelsFit ==
    \A r \in Workers :
        /\ pc[r] = "idle" <=> request[r] = NoRequest
        /\ pc[r] = "insert_session" => request[r].kind = "create"
        /\ pc[r] = "close" => request[r].kind = "close"
        /\ pc[r] \in TurnLabels => request[r].kind = "turn"

\* A turn is about to append a message of its session; only its first one is
\* the user's.
PendingFits ==
    \A r \in Workers :
        /\ pc[r] = "complete" => draftMessages[r] # {}
        /\ pc[r] \in {"check_session", "append"} =>
              /\ pending[r].session = request[r].session
              /\ pending[r].role \in Roles
              /\ pending[r].role # "user" => draftMessages[r] # {}

\* A draft belongs to the request that made it.
DraftsFit ==
    \A r \in Workers :
        /\ draftSession[r] # NoSession <=>
              pc[r] = "commit" /\ request[r].kind \in {"create", "close"}
        /\ draftSession[r] # NoSession =>
              draftSession[r] =
                  [thesis |-> request[r].thesis,
                   status |-> IF request[r].kind = "create" THEN "open" ELSE "closed"]
        /\ draftMessages[r] # {} => request[r].kind = "turn"
        /\ draftVersions[r] # {} \/ draftWrites[r] # {} => draftMessages[r] # {}
        /\ \A m \in draftMessages[r] : m.session = request[r].session
        /\ \A w \in draftWrites[r] : w.session = request[r].session

\* The turn has looked at the status while it held the session row.
Confirmed(r) ==
    \/ pc[r] \in {"next_call", "execute", "update_condition", "record_write"}
    \/ pc[r] = "append" /\ draftMessages[r] # {}
    \/ pc[r] = "commit" /\ request[r].kind = "turn"
    \/ draftVersions[r] # {} \/ draftWrites[r] # {}

\* What a request knows of its session is still so.
SessionsFit ==
    \A r \in Workers :
        /\ request[r].kind = "create" => session[request[r].session] = NoSession
        /\ request[r].kind \in {"close", "turn"} =>
              /\ session[request[r].session] # NoSession
              /\ session[request[r].session].thesis = request[r].thesis
        /\ request[r].kind = "close" /\ draftSession[r] # NoSession =>
              session[request[r].session].status = "open"
        /\ request[r].kind = "create" /\ draftSession[r] # NoSession =>
              OpenSessions(request[r].thesis) = {}
        /\ Confirmed(r) =>
              /\ draftMessages[r] # {}
              /\ session[request[r].session].status = "open"

Holds(r) == draftSession[r] # NoSession \/ draftMessages[r] # {}

\* Locks exclude: of the session row, of the key of the open session of a
\* thesis, and of the identity of a session to be created.
LocksExclude ==
    \A q, r \in Workers : q # r =>
        /\ Holds(q) /\ Holds(r) => request[q].session # request[r].session
        /\ /\ draftSession[q] # NoSession /\ request[q].kind = "create"
           /\ draftSession[r] # NoSession /\ request[r].kind = "create"
           => request[q].thesis # request[r].thesis
        /\ request[q].kind = "create" /\ request[r].kind = "create" =>
              request[q].session # request[r].session

\* The inductive invariant.
SessionsAreOrderly ==
    /\ Shape /\ LabelsFit /\ PendingFits /\ DraftsFit
    /\ SessionsFit /\ LocksExclude /\ OneOpenSession

-----------------------------------------------------------------------------

\* A failing request leaves nothing and holds nothing.
LEMMA FailKeepsOrder ==
    ASSUME SessionsAreOrderly, NEW r \in Workers,
           Fail(r)
    PROVE  SessionsAreOrderly'
<1>1. Shape'
  BY DEF SessionsAreOrderly, Shape, Labels, Fail, EndRequest, database
<1>2. LabelsFit'
  BY DEF SessionsAreOrderly, Shape, LabelsFit, Labels, TurnLabels, Request,
         NoRequest, Fail, EndRequest, database
<1>3. PendingFits'
  BY DEF SessionsAreOrderly, Shape, LabelsFit, PendingFits, DraftsFit,
         TurnLabels, Roles, Fail, EndRequest, database
<1>4. DraftsFit'
  BY DEF SessionsAreOrderly, Shape, LabelsFit, PendingFits, DraftsFit,
         TurnLabels, NoSession, Fail, EndRequest, database
<1>5. SessionsFit'
  BY DEF SessionsAreOrderly, Shape, LabelsFit, DraftsFit, SessionsFit,
         TurnLabels, Confirmed, OpenSessions, Request, NoRequest, SessionRow,
         NoSession, Fail, EndRequest, database
<1>6. LocksExclude'
  BY DEF SessionsAreOrderly, Shape, LabelsFit, DraftsFit, SessionsFit,
         LocksExclude, TurnLabels, Holds, Request, NoRequest, NoSession, Fail,
         EndRequest, database
<1>7. OneOpenSession'
  BY DEF SessionsAreOrderly, OneOpenSession, OpenSessions, Fail, EndRequest,
         database
<1> QED
  BY <1>1, <1>2, <1>3, <1>4, <1>5, <1>6, <1>7 DEF SessionsAreOrderly

\* A session to be created is in nobody else's hands.
LEMMA BeginCreateKeepsOrder ==
    ASSUME SessionsAreOrderly, NEW r \in Workers, NEW s \in Sessions, NEW t \in Theses,
           BeginCreate(r, s, t)
    PROVE  SessionsAreOrderly'
<1>1. Shape'
  BY DEF SessionsAreOrderly, Shape, Labels, Request, SessionRow, NoSession,
         BeginCreate, Goto, Busy, database, drafts
<1>2. LabelsFit'
  BY DEF SessionsAreOrderly, Shape, LabelsFit, Labels, TurnLabels, Request,
         NoRequest, BeginCreate, Goto, Busy, database, drafts
<1>3. PendingFits'
  BY DEF SessionsAreOrderly, Shape, LabelsFit, PendingFits, DraftsFit,
         TurnLabels, Roles, BeginCreate, Goto, Busy, database, drafts
<1>4. DraftsFit'
  BY DEF SessionsAreOrderly, Shape, LabelsFit, DraftsFit, TurnLabels, Request,
         NoRequest, NoSession, BeginCreate, Goto, Busy, database, drafts
<1>5. SessionsFit'
  BY DEF SessionsAreOrderly, Shape, LabelsFit, DraftsFit, SessionsFit,
         TurnLabels, Confirmed, OpenSessions, Request, NoRequest, SessionRow,
         NoSession, BeginCreate, Goto, Busy, database, drafts
<1>6. LocksExclude'
  BY DEF SessionsAreOrderly, Shape, LabelsFit, DraftsFit, LocksExclude,
         TurnLabels, Holds, BeginCreate, Goto, Busy, database, drafts
<1>7. OneOpenSession'
  BY DEF SessionsAreOrderly, OneOpenSession, OpenSessions, BeginCreate, Goto,
         Busy, database, drafts
<1> QED
  BY <1>1, <1>2, <1>3, <1>4, <1>5, <1>6, <1>7 DEF SessionsAreOrderly

\* The key of the open session of a thesis is free when it is taken.
LEMMA InsertSessionKeepsOrder ==
    ASSUME SessionsAreOrderly, NEW r \in Workers,
           InsertSession(r)
    PROVE  SessionsAreOrderly'
<1>1. CASE ~(~KeyTaken(request[r].thesis))
  BY <1>1, FailKeepsOrder DEF InsertSession
<1>2. CASE ~KeyTaken(request[r].thesis)
  <2>1. Shape'
    BY <1>2 DEF SessionsAreOrderly, Shape, LabelsFit, Labels, Request, SessionRow,
           NoRequest, NoSession, InsertSession, Goto, KeyLocked, KeyTaken,
           SessionLocked, Busy, database, control
  <2>2. LabelsFit'
    BY <1>2 DEF SessionsAreOrderly, Shape, LabelsFit, Labels, TurnLabels, Request,
           NoRequest, InsertSession, Goto, KeyLocked, KeyTaken, SessionLocked,
           Busy, database, control
  <2>3. PendingFits'
    BY <1>2 DEF SessionsAreOrderly, Shape, LabelsFit, PendingFits, DraftsFit,
           TurnLabels, Roles, InsertSession, Goto, KeyLocked, KeyTaken,
           SessionLocked, Busy, database, control
  <2>4. DraftsFit'
    BY <1>2 DEF SessionsAreOrderly, Shape, LabelsFit, PendingFits, DraftsFit,
           TurnLabels, NoSession, InsertSession, Goto, KeyLocked, KeyTaken,
           SessionLocked, Busy, database, control
  <2>5. SessionsFit'
    BY <1>2 DEF SessionsAreOrderly, Shape, LabelsFit, DraftsFit, SessionsFit,
           TurnLabels, Confirmed, OpenSessions, InsertSession, Goto, KeyLocked,
           KeyTaken, SessionLocked, Busy, database, control
  <2>6. LocksExclude'
    BY <1>2 DEF SessionsAreOrderly, Shape, LabelsFit, DraftsFit, SessionsFit,
           LocksExclude, TurnLabels, Holds, Request, NoRequest, NoSession,
           InsertSession, Goto, KeyLocked, KeyTaken, SessionLocked, Busy,
           database, control
  <2>7. OneOpenSession'
    BY <1>2 DEF SessionsAreOrderly, OneOpenSession, OpenSessions, InsertSession,
           Goto, KeyLocked, KeyTaken, SessionLocked, Busy, database, control
  <2> QED
    BY <2>1, <2>2, <2>3, <2>4, <2>5, <2>6, <2>7 DEF SessionsAreOrderly
<1> QED
  BY <1>1, <1>2

\* A close begins with an open session.
LEMMA BeginCloseKeepsOrder ==
    ASSUME SessionsAreOrderly, NEW r \in Workers, NEW s \in Sessions,
           BeginClose(r, s)
    PROVE  SessionsAreOrderly'
<1>1. Shape'
  BY DEF SessionsAreOrderly, Shape, Labels, Request, SessionRow, NoSession,
         BeginClose, Goto, database, drafts
<1>2. LabelsFit'
  BY DEF SessionsAreOrderly, Shape, LabelsFit, Labels, TurnLabels, Request,
         NoRequest, BeginClose, Goto, database, drafts
<1>3. PendingFits'
  BY DEF SessionsAreOrderly, Shape, LabelsFit, PendingFits, DraftsFit,
         TurnLabels, Roles, BeginClose, Goto, database, drafts
<1>4. DraftsFit'
  BY DEF SessionsAreOrderly, Shape, LabelsFit, DraftsFit, TurnLabels, Request,
         NoRequest, NoSession, BeginClose, Goto, database, drafts
<1>5. SessionsFit'
  BY DEF SessionsAreOrderly, Shape, LabelsFit, DraftsFit, SessionsFit,
         TurnLabels, Confirmed, OpenSessions, Request, NoRequest, SessionRow,
         NoSession, BeginClose, Goto, database, drafts
<1>6. LocksExclude'
  BY DEF SessionsAreOrderly, Shape, LabelsFit, DraftsFit, SessionsFit,
         LocksExclude, TurnLabels, Holds, Request, NoRequest, NoSession,
         BeginClose, Goto, database, drafts
<1>7. OneOpenSession'
  BY DEF SessionsAreOrderly, OneOpenSession, OpenSessions, BeginClose, Goto,
         database, drafts
<1> QED
  BY <1>1, <1>2, <1>3, <1>4, <1>5, <1>6, <1>7 DEF SessionsAreOrderly

\* A session is open and nobody's when a close locks it.
LEMMA CloseSessionKeepsOrder ==
    ASSUME SessionsAreOrderly, NEW r \in Workers,
           CloseSession(r)
    PROVE  SessionsAreOrderly'
<1>1. CASE ~(session[request[r].session].status = "open")
  BY <1>1, FailKeepsOrder DEF CloseSession
<1>2. CASE session[request[r].session].status = "open"
  <2>1. Shape'
    BY <1>2 DEF SessionsAreOrderly, Shape, LabelsFit, Labels, Request, SessionRow,
           NoRequest, NoSession, CloseSession, Goto, SessionLocked, Busy,
           database, control
  <2>2. LabelsFit'
    BY <1>2 DEF SessionsAreOrderly, Shape, LabelsFit, Labels, TurnLabels, Request,
           NoRequest, CloseSession, Goto, SessionLocked, Busy, database,
           control
  <2>3. PendingFits'
    BY <1>2 DEF SessionsAreOrderly, Shape, LabelsFit, PendingFits, DraftsFit,
           TurnLabels, Roles, CloseSession, Goto, SessionLocked, Busy,
           database, control
  <2>4. DraftsFit'
    BY <1>2 DEF SessionsAreOrderly, Shape, LabelsFit, DraftsFit, SessionsFit,
           TurnLabels, SessionRow, Request, NoRequest, NoSession, CloseSession,
           Goto, SessionLocked, Busy, database, control
  <2>5. SessionsFit'
    BY <1>2 DEF SessionsAreOrderly, Shape, LabelsFit, DraftsFit, SessionsFit,
           TurnLabels, Confirmed, OpenSessions, CloseSession, Goto,
           SessionLocked, Busy, database, control
  <2>6. LocksExclude'
    BY <1>2 DEF SessionsAreOrderly, Shape, LabelsFit, DraftsFit, SessionsFit,
           LocksExclude, TurnLabels, Holds, Request, NoRequest, NoSession,
           CloseSession, Goto, SessionLocked, Busy, database, control
  <2>7. OneOpenSession'
    BY <1>2 DEF SessionsAreOrderly, OneOpenSession, OpenSessions, CloseSession,
           Goto, SessionLocked, Busy, database, control
  <2> QED
    BY <2>1, <2>2, <2>3, <2>4, <2>5, <2>6, <2>7 DEF SessionsAreOrderly
<1> QED
  BY <1>1, <1>2

\* A turn begins with an open session and the user's message.
LEMMA BeginTurnKeepsOrder ==
    ASSUME SessionsAreOrderly, NEW r \in Workers, NEW s \in Sessions,
           BeginTurn(r, s)
    PROVE  SessionsAreOrderly'
<1>1. Shape'
  BY DEF SessionsAreOrderly, Shape, Labels, Request, SessionRow, NoSession,
         BeginTurn, Goto, Compose, database, drafts
<1>2. LabelsFit'
  BY DEF SessionsAreOrderly, Shape, LabelsFit, Labels, TurnLabels, Request,
         NoRequest, BeginTurn, Goto, Compose, database, drafts
<1>3. PendingFits'
  BY DEF SessionsAreOrderly, Shape, LabelsFit, PendingFits, DraftsFit,
         TurnLabels, Roles, BeginTurn, Goto, Compose, database, drafts
<1>4. DraftsFit'
  BY DEF SessionsAreOrderly, Shape, LabelsFit, DraftsFit, TurnLabels, Request,
         NoRequest, NoSession, BeginTurn, Goto, Compose, database, drafts
<1>5. SessionsFit'
  BY DEF SessionsAreOrderly, Shape, LabelsFit, DraftsFit, SessionsFit,
         TurnLabels, Confirmed, OpenSessions, Request, NoRequest, SessionRow,
         NoSession, BeginTurn, Goto, Compose, database, drafts
<1>6. LocksExclude'
  BY DEF SessionsAreOrderly, Shape, LabelsFit, DraftsFit, SessionsFit,
         LocksExclude, TurnLabels, Holds, Request, NoRequest, NoSession,
         BeginTurn, Goto, Compose, database, drafts
<1>7. OneOpenSession'
  BY DEF SessionsAreOrderly, OneOpenSession, OpenSessions, BeginTurn, Goto,
         Compose, database, drafts
<1> QED
  BY <1>1, <1>2, <1>3, <1>4, <1>5, <1>6, <1>7 DEF SessionsAreOrderly

\* A turn that holds the session row and finds it open is confirmed.
LEMMA CheckSessionKeepsOrder ==
    ASSUME SessionsAreOrderly, NEW r \in Workers,
           CheckSession(r)
    PROVE  SessionsAreOrderly'
<1>1. CASE ~(TakesMessages(session[request[r].session]))
  BY <1>1, FailKeepsOrder DEF CheckSession
<1>2. CASE TakesMessages(session[request[r].session])
  <2>1. Shape'
    BY <1>2 DEF SessionsAreOrderly, Shape, Labels, CheckSession, Goto,
           TakesMessages, database, control, drafts
  <2>2. LabelsFit'
    BY <1>2 DEF SessionsAreOrderly, Shape, LabelsFit, Labels, TurnLabels, Request,
           NoRequest, CheckSession, Goto, TakesMessages, database, control,
           drafts
  <2>3. PendingFits'
    BY <1>2 DEF SessionsAreOrderly, Shape, LabelsFit, PendingFits, DraftsFit,
           TurnLabels, Roles, CheckSession, Goto, TakesMessages, database,
           control, drafts
  <2>4. DraftsFit'
    BY <1>2 DEF SessionsAreOrderly, Shape, LabelsFit, PendingFits, DraftsFit,
           TurnLabels, NoSession, CheckSession, Goto, TakesMessages, database,
           control, drafts
  <2>5. SessionsFit'
    BY <1>2 DEF SessionsAreOrderly, Shape, LabelsFit, DraftsFit, SessionsFit,
           TurnLabels, Confirmed, OpenSessions, CheckSession, Goto,
           TakesMessages, database, control, drafts
  <2>6. LocksExclude'
    BY <1>2 DEF SessionsAreOrderly, Shape, LabelsFit, DraftsFit, LocksExclude,
           TurnLabels, Holds, CheckSession, Goto, TakesMessages, database,
           control, drafts
  <2>7. OneOpenSession'
    BY <1>2 DEF SessionsAreOrderly, OneOpenSession, OpenSessions, CheckSession,
           Goto, TakesMessages, database, control, drafts
  <2> QED
    BY <2>1, <2>2, <2>3, <2>4, <2>5, <2>6, <2>7 DEF SessionsAreOrderly
<1> QED
  BY <1>1, <1>2

\* The first message takes the lock of the session row.
LEMMA AppendKeepsOrder ==
    ASSUME SessionsAreOrderly, NEW r \in Workers,
           Append(r)
    PROVE  SessionsAreOrderly'
<1>1. Shape'
  BY DEF SessionsAreOrderly, Shape, PendingFits, Labels, Roles, Append, Goto,
         AfterAppend, SessionLocked, Busy, database, control
<1>2. LabelsFit'
  BY DEF SessionsAreOrderly, Shape, LabelsFit, PendingFits, TurnLabels, Labels,
         Roles, NoRequest, Request, Append, Goto, AfterAppend, SessionLocked,
         Busy, database, control
<1>3. PendingFits'
  BY DEF SessionsAreOrderly, Shape, LabelsFit, PendingFits, DraftsFit,
         TurnLabels, Roles, Append, Goto, AfterAppend, SessionLocked, Busy,
         database, control
<1>4. DraftsFit'
  BY DEF SessionsAreOrderly, Shape, LabelsFit, PendingFits, DraftsFit,
         TurnLabels, NoSession, Append, Goto, AfterAppend, SessionLocked, Busy,
         database, control
<1>5. SessionsFit'
  BY DEF SessionsAreOrderly, Shape, LabelsFit, PendingFits, DraftsFit,
         SessionsFit, LocksExclude, Holds, TurnLabels, Roles, Confirmed,
         OpenSessions, Append, Goto, AfterAppend, SessionLocked, Busy,
         database, control
<1>6. LocksExclude'
  BY DEF SessionsAreOrderly, Shape, LabelsFit, DraftsFit, SessionsFit,
         LocksExclude, TurnLabels, Holds, Request, NoRequest, NoSession,
         Append, Goto, AfterAppend, SessionLocked, Busy, database, control
<1>7. OneOpenSession'
  BY DEF SessionsAreOrderly, OneOpenSession, OpenSessions, Append, Goto,
         AfterAppend, SessionLocked, Busy, database, control
<1> QED
  BY <1>1, <1>2, <1>3, <1>4, <1>5, <1>6, <1>7 DEF SessionsAreOrderly

\* The answer of the model changes nothing but the request.
LEMMA CompleteKeepsOrder ==
    ASSUME SessionsAreOrderly, NEW r \in Workers, NEW n \in 0 .. MaxCalls,
           Complete(r, n)
    PROVE  SessionsAreOrderly'
<1>1. Shape'
  BY DEF SessionsAreOrderly, Shape, Labels, Complete, Goto, Compose, database,
         drafts
<1>2. LabelsFit'
  BY DEF SessionsAreOrderly, Shape, LabelsFit, Labels, TurnLabels, Request,
         NoRequest, Complete, Goto, Compose, database, drafts
<1>3. PendingFits'
  BY DEF SessionsAreOrderly, Shape, LabelsFit, PendingFits, DraftsFit,
         TurnLabels, Roles, Complete, Goto, Compose, database, drafts
<1>4. DraftsFit'
  BY DEF SessionsAreOrderly, Shape, LabelsFit, PendingFits, DraftsFit,
         TurnLabels, NoSession, Complete, Goto, Compose, database, drafts
<1>5. SessionsFit'
  BY DEF SessionsAreOrderly, Shape, LabelsFit, DraftsFit, SessionsFit,
         TurnLabels, Confirmed, OpenSessions, Complete, Goto, Compose,
         database, drafts
<1>6. LocksExclude'
  BY DEF SessionsAreOrderly, Shape, LabelsFit, DraftsFit, LocksExclude,
         TurnLabels, Holds, Complete, Goto, Compose, database, drafts
<1>7. OneOpenSession'
  BY DEF SessionsAreOrderly, OneOpenSession, OpenSessions, Complete, Goto,
         Compose, database, drafts
<1> QED
  BY <1>1, <1>2, <1>3, <1>4, <1>5, <1>6, <1>7 DEF SessionsAreOrderly

\* A tool call is composed by a confirmed turn.
LEMMA NextCallKeepsOrder ==
    ASSUME SessionsAreOrderly, NEW r \in Workers,
           NextCall(r)
    PROVE  SessionsAreOrderly'
<1>1. Shape'
  BY DEF SessionsAreOrderly, Shape, Labels, NextCall, Goto, Compose, database,
         drafts
<1>2. LabelsFit'
  BY DEF SessionsAreOrderly, Shape, LabelsFit, Labels, TurnLabels, Request,
         NoRequest, NextCall, Goto, Compose, database, drafts
<1>3. PendingFits'
  BY DEF SessionsAreOrderly, Shape, LabelsFit, PendingFits, SessionsFit,
         Confirmed, TurnLabels, Roles, NextCall, Goto, Compose, database,
         drafts
<1>4. DraftsFit'
  BY DEF SessionsAreOrderly, Shape, LabelsFit, PendingFits, DraftsFit,
         TurnLabels, NoSession, NextCall, Goto, Compose, database, drafts
<1>5. SessionsFit'
  BY DEF SessionsAreOrderly, Shape, LabelsFit, DraftsFit, SessionsFit,
         TurnLabels, Confirmed, OpenSessions, NextCall, Goto, Compose,
         database, drafts
<1>6. LocksExclude'
  BY DEF SessionsAreOrderly, Shape, LabelsFit, DraftsFit, LocksExclude,
         TurnLabels, Holds, NextCall, Goto, Compose, database, drafts
<1>7. OneOpenSession'
  BY DEF SessionsAreOrderly, OneOpenSession, OpenSessions, NextCall, Goto,
         Compose, database, drafts
<1> QED
  BY <1>1, <1>2, <1>3, <1>4, <1>5, <1>6, <1>7 DEF SessionsAreOrderly

\* A turn goes to the model or to its commit with what it holds.
LEMMA NextRoundKeepsOrder ==
    ASSUME SessionsAreOrderly, NEW r \in Workers,
           NextRound(r)
    PROVE  SessionsAreOrderly'
<1>1. Shape'
  BY DEF SessionsAreOrderly, Shape, Labels, NextRound, Goto, RoundsLeft,
         database, control, drafts
<1>2. LabelsFit'
  BY DEF SessionsAreOrderly, Shape, LabelsFit, Labels, TurnLabels, Request,
         NoRequest, NextRound, Goto, RoundsLeft, database, control, drafts
<1>3. PendingFits'
  BY DEF SessionsAreOrderly, Shape, LabelsFit, PendingFits, SessionsFit,
         Confirmed, TurnLabels, Roles, NextRound, Goto, RoundsLeft, database,
         control, drafts
<1>4. DraftsFit'
  BY DEF SessionsAreOrderly, Shape, LabelsFit, PendingFits, DraftsFit,
         TurnLabels, NoSession, NextRound, Goto, RoundsLeft, database, control,
         drafts
<1>5. SessionsFit'
  BY DEF SessionsAreOrderly, Shape, LabelsFit, DraftsFit, SessionsFit,
         TurnLabels, Confirmed, OpenSessions, NextRound, Goto, RoundsLeft,
         database, control, drafts
<1>6. LocksExclude'
  BY DEF SessionsAreOrderly, Shape, LabelsFit, DraftsFit, LocksExclude,
         TurnLabels, Holds, NextRound, Goto, RoundsLeft, database, control,
         drafts
<1>7. OneOpenSession'
  BY DEF SessionsAreOrderly, OneOpenSession, OpenSessions, NextRound, Goto,
         RoundsLeft, database, control, drafts
<1> QED
  BY <1>1, <1>2, <1>3, <1>4, <1>5, <1>6, <1>7 DEF SessionsAreOrderly

\* A tool that only answers changes nothing.
LEMMA AnswerOnlyKeepsOrder ==
    ASSUME SessionsAreOrderly, NEW r \in Workers,
           AnswerOnly(r)
    PROVE  SessionsAreOrderly'
<1>1. Shape'
  BY DEF SessionsAreOrderly, Shape, Labels, AnswerOnly, Goto, database,
         control, drafts
<1>2. LabelsFit'
  BY DEF SessionsAreOrderly, Shape, LabelsFit, Labels, TurnLabels, Request,
         NoRequest, AnswerOnly, Goto, database, control, drafts
<1>3. PendingFits'
  BY DEF SessionsAreOrderly, Shape, LabelsFit, PendingFits, DraftsFit,
         TurnLabels, Roles, AnswerOnly, Goto, database, control, drafts
<1>4. DraftsFit'
  BY DEF SessionsAreOrderly, Shape, LabelsFit, PendingFits, DraftsFit,
         TurnLabels, NoSession, AnswerOnly, Goto, database, control, drafts
<1>5. SessionsFit'
  BY DEF SessionsAreOrderly, Shape, LabelsFit, DraftsFit, SessionsFit,
         TurnLabels, Confirmed, OpenSessions, AnswerOnly, Goto, database,
         control, drafts
<1>6. LocksExclude'
  BY DEF SessionsAreOrderly, Shape, LabelsFit, DraftsFit, LocksExclude,
         TurnLabels, Holds, AnswerOnly, Goto, database, control, drafts
<1>7. OneOpenSession'
  BY DEF SessionsAreOrderly, OneOpenSession, OpenSessions, AnswerOnly, Goto,
         database, control, drafts
<1> QED
  BY <1>1, <1>2, <1>3, <1>4, <1>5, <1>6, <1>7 DEF SessionsAreOrderly

\* A confirmed turn drafts a condition.
LEMMA CreateConditionKeepsOrder ==
    ASSUME SessionsAreOrderly, NEW r \in Workers, NEW c \in Conditions,
           CreateCondition(r, c)
    PROVE  SessionsAreOrderly'
<1>1. Shape'
  BY DEF SessionsAreOrderly, Shape, Labels, CreateCondition, Goto, Write,
         database
<1>2. LabelsFit'
  BY DEF SessionsAreOrderly, Shape, LabelsFit, Labels, TurnLabels, Request,
         NoRequest, CreateCondition, Goto, Write, database
<1>3. PendingFits'
  BY DEF SessionsAreOrderly, Shape, LabelsFit, PendingFits, DraftsFit,
         TurnLabels, Roles, CreateCondition, Goto, Write, database
<1>4. DraftsFit'
  BY DEF SessionsAreOrderly, Shape, LabelsFit, DraftsFit, SessionsFit,
         Confirmed, TurnLabels, NoSession, CreateCondition, Goto, Write,
         database
<1>5. SessionsFit'
  BY DEF SessionsAreOrderly, Shape, LabelsFit, DraftsFit, SessionsFit,
         TurnLabels, Confirmed, OpenSessions, CreateCondition, Goto, Write,
         database
<1>6. LocksExclude'
  BY DEF SessionsAreOrderly, Shape, LabelsFit, DraftsFit, LocksExclude,
         TurnLabels, Holds, CreateCondition, Goto, Write, database
<1>7. OneOpenSession'
  BY DEF SessionsAreOrderly, OneOpenSession, OpenSessions, CreateCondition,
         Goto, Write, database
<1> QED
  BY <1>1, <1>2, <1>3, <1>4, <1>5, <1>6, <1>7 DEF SessionsAreOrderly

\* A confirmed turn reads a condition.
LEMMA ReadConditionKeepsOrder ==
    ASSUME SessionsAreOrderly, NEW r \in Workers, NEW c \in Conditions,
           ReadCondition(r, c)
    PROVE  SessionsAreOrderly'
<1>1. Shape'
  BY DEF SessionsAreOrderly, Shape, Labels, ReadCondition, Goto, database,
         drafts
<1>2. LabelsFit'
  BY DEF SessionsAreOrderly, Shape, LabelsFit, Labels, TurnLabels, Request,
         NoRequest, ReadCondition, Goto, database, drafts
<1>3. PendingFits'
  BY DEF SessionsAreOrderly, Shape, LabelsFit, PendingFits, DraftsFit,
         TurnLabels, Roles, ReadCondition, Goto, database, drafts
<1>4. DraftsFit'
  BY DEF SessionsAreOrderly, Shape, LabelsFit, PendingFits, DraftsFit,
         TurnLabels, NoSession, ReadCondition, Goto, database, drafts
<1>5. SessionsFit'
  BY DEF SessionsAreOrderly, Shape, LabelsFit, DraftsFit, SessionsFit,
         TurnLabels, Confirmed, OpenSessions, ReadCondition, Goto, database,
         drafts
<1>6. LocksExclude'
  BY DEF SessionsAreOrderly, Shape, LabelsFit, DraftsFit, LocksExclude,
         TurnLabels, Holds, ReadCondition, Goto, database, drafts
<1>7. OneOpenSession'
  BY DEF SessionsAreOrderly, OneOpenSession, OpenSessions, ReadCondition, Goto,
         database, drafts
<1> QED
  BY <1>1, <1>2, <1>3, <1>4, <1>5, <1>6, <1>7 DEF SessionsAreOrderly

\* A confirmed turn drafts a version of a condition.
LEMMA UpdateConditionKeepsOrder ==
    ASSUME SessionsAreOrderly, NEW r \in Workers,
           UpdateCondition(r)
    PROVE  SessionsAreOrderly'
<1>1. Shape'
  BY DEF SessionsAreOrderly, Shape, Labels, UpdateCondition, Goto, Write,
         database, control
<1>2. LabelsFit'
  BY DEF SessionsAreOrderly, Shape, LabelsFit, Labels, TurnLabels, Request,
         NoRequest, UpdateCondition, Goto, Write, database, control
<1>3. PendingFits'
  BY DEF SessionsAreOrderly, Shape, LabelsFit, PendingFits, DraftsFit,
         TurnLabels, Roles, UpdateCondition, Goto, Write, database, control
<1>4. DraftsFit'
  BY DEF SessionsAreOrderly, Shape, LabelsFit, DraftsFit, SessionsFit,
         Confirmed, TurnLabels, NoSession, UpdateCondition, Goto, Write,
         database, control
<1>5. SessionsFit'
  BY DEF SessionsAreOrderly, Shape, LabelsFit, DraftsFit, SessionsFit,
         TurnLabels, Confirmed, OpenSessions, UpdateCondition, Goto, Write,
         database, control
<1>6. LocksExclude'
  BY DEF SessionsAreOrderly, Shape, LabelsFit, DraftsFit, LocksExclude,
         TurnLabels, Holds, UpdateCondition, Goto, Write, database, control
<1>7. OneOpenSession'
  BY DEF SessionsAreOrderly, OneOpenSession, OpenSessions, UpdateCondition,
         Goto, Write, database, control
<1> QED
  BY <1>1, <1>2, <1>3, <1>4, <1>5, <1>6, <1>7 DEF SessionsAreOrderly

\* A confirmed turn drafts the record of a write of its session.
LEMMA RecordWriteKeepsOrder ==
    ASSUME SessionsAreOrderly, NEW r \in Workers,
           RecordWrite(r)
    PROVE  SessionsAreOrderly'
<1>1. Shape'
  BY DEF SessionsAreOrderly, Shape, Labels, RecordWrite, Goto, database,
         control
<1>2. LabelsFit'
  BY DEF SessionsAreOrderly, Shape, LabelsFit, Labels, TurnLabels, Request,
         NoRequest, RecordWrite, Goto, database, control
<1>3. PendingFits'
  BY DEF SessionsAreOrderly, Shape, LabelsFit, PendingFits, DraftsFit,
         TurnLabels, Roles, RecordWrite, Goto, database, control
<1>4. DraftsFit'
  BY DEF SessionsAreOrderly, Shape, LabelsFit, DraftsFit, SessionsFit,
         Confirmed, TurnLabels, NoSession, RecordWrite, Goto, database, control
<1>5. SessionsFit'
  BY DEF SessionsAreOrderly, Shape, LabelsFit, DraftsFit, SessionsFit,
         TurnLabels, Confirmed, OpenSessions, RecordWrite, Goto, database,
         control
<1>6. LocksExclude'
  BY DEF SessionsAreOrderly, Shape, LabelsFit, DraftsFit, LocksExclude,
         TurnLabels, Holds, RecordWrite, Goto, database, control
<1>7. OneOpenSession'
  BY DEF SessionsAreOrderly, OneOpenSession, OpenSessions, RecordWrite, Goto,
         database, control
<1> QED
  BY <1>1, <1>2, <1>3, <1>4, <1>5, <1>6, <1>7 DEF SessionsAreOrderly

\* A commit changes the row of no session that another request holds.
LEMMA CommitKeepsOrder ==
    ASSUME SessionsAreOrderly, NEW r \in Workers,
           Commit(r)
    PROVE  SessionsAreOrderly'
<1>1. Shape'
  BY DEF SessionsAreOrderly, Shape, Labels, Commit, EndRequest
<1>2. LabelsFit'
  BY DEF SessionsAreOrderly, Shape, LabelsFit, Labels, TurnLabels, Request,
         NoRequest, Commit, EndRequest
<1>3. PendingFits'
  BY DEF SessionsAreOrderly, Shape, LabelsFit, PendingFits, DraftsFit,
         TurnLabels, Roles, Commit, EndRequest
<1>4. DraftsFit'
  BY DEF SessionsAreOrderly, Shape, LabelsFit, PendingFits, DraftsFit,
         TurnLabels, NoSession, Commit, EndRequest
<1>5. SessionsFit'
  <2>1. SUFFICES ASSUME NEW q \in Workers, q # r
                 PROVE  /\ request[q].kind = "create" =>
                              session'[request[q].session] = NoSession
                        /\ request[q].kind \in {"close", "turn"} =>
                              /\ session'[request[q].session] # NoSession
                              /\ session'[request[q].session].thesis = request[q].thesis
                        /\ request[q].kind = "close" /\ draftSession[q] # NoSession =>
                              session'[request[q].session].status = "open"
                        /\ request[q].kind = "create" /\ draftSession[q] # NoSession =>
                              \A u \in Sessions : session'[u] #
                                 [thesis |-> request[q].thesis, status |-> "open"]
                        /\ Confirmed(q) =>
                              /\ draftMessages[q] # {}
                              /\ session'[request[q].session].status = "open"
    BY DEF SessionsAreOrderly, Shape, SessionsFit, Confirmed, OpenSessions,
           NoRequest, NoSession, Commit, EndRequest
  <2>2. CASE draftSession[r] = NoSession
    <3>1. session' = session
      BY <2>2 DEF Commit
    <3> QED
      BY <3>1 DEF SessionsAreOrderly, SessionsFit, OpenSessions
  <2>3. CASE draftSession[r] # NoSession
    <3> DEFINE s == request[r].session
               t == request[q].session
    <3>1. /\ s \in Sessions
          /\ session' = [session EXCEPT ![s] = draftSession[r]]
          /\ request[r].kind \in {"create", "close"}
          /\ draftSession[r] =
                [thesis |-> request[r].thesis,
                 status |-> IF request[r].kind = "create" THEN "open" ELSE "closed"]
      BY <2>3 DEF SessionsAreOrderly, Shape, DraftsFit, Request, NoRequest, Commit
    <3>2. \A u \in Sessions : u # s => session'[u] = session[u]
      BY <3>1 DEF SessionsAreOrderly, Shape
    <3>3. request[q] # NoRequest => t \in Sessions
      BY DEF SessionsAreOrderly, Shape, Request
    <3>4. Holds(q) => t # s
      BY <2>3, <2>1 DEF SessionsAreOrderly, LocksExclude, Holds
    <3>5. Confirmed(q) => Holds(q)
      BY DEF SessionsAreOrderly, SessionsFit, Holds
    <3>6. request[q].kind = "create" => t # s
      BY <2>1, <3>1 DEF SessionsAreOrderly, SessionsFit, LocksExclude
    <3>7. request[q].kind \in {"close", "turn"} /\ request[r].kind = "create" => t # s
      BY <3>1 DEF SessionsAreOrderly, SessionsFit
    <3>8. request[q].kind \in {"close", "turn"} /\ t = s =>
             /\ session'[t] # NoSession
             /\ session'[t].thesis = request[q].thesis
      BY <3>1, <3>7 DEF SessionsAreOrderly, Shape, SessionsFit, NoSession
    <3>9. request[q].kind = "create" /\ draftSession[q] # NoSession =>
             \A u \in Sessions :
                session'[u] # [thesis |-> request[q].thesis, status |-> "open"]
      <4>1. SUFFICES ASSUME request[q].kind = "create", draftSession[q] # NoSession,
                            NEW u \in Sessions,
                            session'[u] = [thesis |-> request[q].thesis, status |-> "open"]
                     PROVE  FALSE
        OBVIOUS
      <4>2. u = s
        BY <3>2, <4>1 DEF SessionsAreOrderly, SessionsFit, OpenSessions
      <4>3. session'[s] = draftSession[r]
        BY <3>1 DEF SessionsAreOrderly, Shape
      <4>4. request[r].kind = "create" /\ request[r].thesis = request[q].thesis
        BY <3>1, <4>1, <4>2, <4>3
      <4> QED
        BY <2>1, <2>3, <4>1, <4>4 DEF SessionsAreOrderly, LocksExclude
    <3>10. Confirmed(q) => draftMessages[q] # {} /\ session'[t].status = "open"
      <4>1. Confirmed(q) => request[q].kind = "turn" /\ draftMessages[q] # {}
        BY DEF SessionsAreOrderly, SessionsFit, DraftsFit
      <4> QED
        BY <3>2, <3>3, <3>4, <3>5, <4>1 DEF SessionsAreOrderly, SessionsFit, NoRequest
    <3>11. request[q].kind = "close" /\ draftSession[q] # NoSession =>
              session'[t].status = "open"
      BY <3>2, <3>3, <3>4 DEF SessionsAreOrderly, SessionsFit, Holds, NoRequest
    <3>12. request[q].kind = "create" => session'[t] = NoSession
      BY <3>2, <3>3, <3>6 DEF SessionsAreOrderly, SessionsFit, NoRequest
    <3>13. request[q].kind \in {"close", "turn"} =>
              /\ session'[t] # NoSession
              /\ session'[t].thesis = request[q].thesis
      BY <3>2, <3>3, <3>8 DEF SessionsAreOrderly, SessionsFit, NoRequest
    <3> QED
      BY <3>9, <3>10, <3>11, <3>12, <3>13
  <2> QED
    BY <2>2, <2>3
<1>6. LocksExclude'
  BY DEF SessionsAreOrderly, Shape, LabelsFit, DraftsFit, LocksExclude, Holds,
         Request, NoRequest, NoSession, Commit, EndRequest
<1>7. OneOpenSession'
  BY DEF SessionsAreOrderly, Shape, LabelsFit, PendingFits, DraftsFit,
         SessionsFit, LocksExclude, OneOpenSession, OpenSessions, Request,
         NoRequest, SessionRow, NoSession, Labels, TurnLabels, Roles,
         Confirmed, Holds, Commit, EndRequest
<1> QED
  BY <1>1, <1>2, <1>3, <1>4, <1>5, <1>6, <1>7 DEF SessionsAreOrderly

\* No session and no request satisfy the invariant.
LEMMA InitIsOrderly == Init => SessionsAreOrderly
  BY DEF Init, SessionsAreOrderly, Shape, LabelsFit, PendingFits, DraftsFit,
         SessionsFit, LocksExclude, OneOpenSession, OpenSessions, Confirmed, Holds,
         Labels, TurnLabels, NoRequest, NoSession, Request

\* Steps of the owners, who write conditions only, keep the invariant.
LEMMA ClientsKeepOrder ==
    ASSUME SessionsAreOrderly, UNCHANGED <<session, pc, control, drafts>>
    PROVE  SessionsAreOrderly'
  BY DEF SessionsAreOrderly, Shape, LabelsFit, PendingFits, DraftsFit, SessionsFit,
         LocksExclude, OneOpenSession, OpenSessions, Confirmed, Holds, control, drafts

\* Every step keeps the invariant.
LEMMA NextKeepsOrder ==
    ASSUME SessionsAreOrderly, [Next]_vars
    PROVE  SessionsAreOrderly'
<1>1. ASSUME NEW r \in Workers, Contended(r)
      PROVE  SessionsAreOrderly'
  BY <1>1, InsertSessionKeepsOrder, CloseSessionKeepsOrder, AppendKeepsOrder,
     UpdateConditionKeepsOrder DEF Contended
<1>2. ASSUME NEW r \in Workers, Work(r)
      PROVE  SessionsAreOrderly'
  BY <1>1, <1>2, CheckSessionKeepsOrder, CompleteKeepsOrder, FailKeepsOrder,
     NextCallKeepsOrder, NextRoundKeepsOrder, AnswerOnlyKeepsOrder,
     CreateConditionKeepsOrder, ReadConditionKeepsOrder, RecordWriteKeepsOrder,
     CommitKeepsOrder DEF Work, ModelFails
<1>3. ASSUME NEW r \in Workers, NEW s \in Sessions,
             BeginTurn(r, s) \/ BeginClose(r, s)
                \/ \E t \in Theses : BeginCreate(r, s, t)
      PROVE  SessionsAreOrderly'
  BY <1>3, BeginTurnKeepsOrder, BeginCloseKeepsOrder, BeginCreateKeepsOrder
<1>4. ASSUME NEW r \in Workers, Rollback(r)
      PROVE  SessionsAreOrderly'
  BY <1>4, FailKeepsOrder DEF Rollback
<1>5. ASSUME NEW c \in Conditions, NEW t \in Theses, ClientCreates(c, t)
      PROVE  SessionsAreOrderly'
  BY <1>5, ClientsKeepOrder DEF ClientCreates
<1>6. ASSUME NEW v \in versions, ClientUpdates(v)
      PROVE  SessionsAreOrderly'
  BY <1>6, ClientsKeepOrder DEF ClientUpdates
<1>7. CASE UNCHANGED vars
  BY <1>7, ClientsKeepOrder DEF vars, database
<1> QED
  BY <1>2, <1>3, <1>4, <1>5, <1>6, <1>7 DEF Next

\* The invariant holds in every state.
THEOREM SessionsStayOrderly == Spec => []SessionsAreOrderly
  BY InitIsOrderly, NextKeepsOrder, PTL DEF Spec

-----------------------------------------------------------------------------

\* A thesis has at most one open session, although create_session looks for one
\* in a statement of its own before it inserts.
THEOREM SessionUniqueness == Spec => []OneOpenSession
<1>1. SessionsAreOrderly => OneOpenSession
  BY DEF SessionsAreOrderly
<1> QED
  BY <1>1, SessionsStayOrderly, PTL

\* Two turns never have conditions of one thesis written and not committed:
\* both would hold the row of the one open session.
LEMMA AuthorsExclude == SessionsAreOrderly => OneAuthorPerThesis
<1>1. SUFFICES ASSUME SessionsAreOrderly, NEW q \in Workers, NEW r \in Workers, Authoring(r)
               PROVE  /\ session[request[r].session].status = "open"
                      /\ Authoring(q) /\ q # r => request[q].thesis # request[r].thesis
  BY DEF OneAuthorPerThesis
<1>2. ASSUME NEW p \in Workers, Authoring(p)
      PROVE  /\ Holds(p)
             /\ request[p].session \in Sessions
             /\ request[p].thesis \in Theses
             /\ session[request[p].session] = [thesis |-> request[p].thesis, status |-> "open"]
             /\ session[request[p].session].status = "open"
  <2>1. Confirmed(p) /\ draftMessages[p] # {}
    BY <1>1, <1>2 DEF Authoring, Confirmed, SessionsAreOrderly, SessionsFit
  <2>2. request[p].kind = "turn"
    BY <1>1, <2>1 DEF SessionsAreOrderly, DraftsFit
  <2>3. request[p].session \in Sessions /\ request[p].thesis \in Theses
    BY <1>1, <2>2 DEF SessionsAreOrderly, Shape, Request, NoRequest
  <2>4. /\ session[request[p].session] # NoSession
        /\ session[request[p].session].thesis = request[p].thesis
        /\ session[request[p].session].status = "open"
    BY <1>1, <2>1, <2>2 DEF SessionsAreOrderly, SessionsFit
  <2> QED
    BY <1>1, <2>1, <2>3, <2>4 DEF SessionsAreOrderly, Shape, SessionRow, Holds
<1>3. ASSUME Authoring(q), q # r, request[q].thesis = request[r].thesis
      PROVE  FALSE
  <2>1. /\ request[q].session \in OpenSessions(request[r].thesis)
        /\ request[r].session \in OpenSessions(request[r].thesis)
    BY <1>1, <1>2, <1>3 DEF OpenSessions
  <2>2. request[q].session = request[r].session
    BY <1>1, <1>2, <2>1 DEF SessionsAreOrderly, OneOpenSession
  <2> QED
    BY <1>1, <1>2, <1>3, <2>2 DEF SessionsAreOrderly, LocksExclude
<1> QED
  BY <1>1, <1>2, <1>3

\* One author a thesis, in every state of every instance.
THEOREM AuthorExclusion == Spec => []OneAuthorPerThesis
  BY AuthorsExclude, SessionsStayOrderly, PTL

\* What a commit adds to a session, and a change of its row, are for one that
\* was open when the request locked it and still is.
LEMMA CommitSparesClosed ==
    ASSUME SessionsAreOrderly, NEW r \in Workers, Commit(r),
           NEW s \in Sessions, session[s].status = "closed"
    PROVE  session'[s] = session[s] /\ ContentOf(s)' = ContentOf(s)
<1>1. draftSession[r] # NoSession => request[r].session # s
  <2>1. draftSession[r] # NoSession => request[r].kind \in {"create", "close"}
    BY DEF SessionsAreOrderly, DraftsFit
  <2>2. NoSession.status = "none"
    BY DEF NoSession
  <2> QED
    BY <2>1, <2>2 DEF SessionsAreOrderly, SessionsFit
<1>2. session'[s] = session[s]
  BY <1>1 DEF SessionsAreOrderly, Shape, Commit
<1>3. request[r].kind = "turn" => request[r].session # s
  BY DEF SessionsAreOrderly, SessionsFit, Confirmed, Commit
<1>4. /\ \A m \in draftMessages[r] : m.session # s
      /\ \A w \in draftWrites[r] : w.session # s
  BY <1>3 DEF SessionsAreOrderly, DraftsFit
<1> QED
  BY <1>2, <1>4 DEF Commit, ContentOf

\* A closed session takes neither message nor write and is not opened again,
\* also when a turn was under way in it.
THEOREM ClosedSessionsStay == Spec => ClosedSessionsAreFinal
<1>1. ASSUME UNCHANGED <<session, messages, writes>>
      PROVE  KeepsClosedSessions
  BY <1>1 DEF ContentOf, KeepsClosedSessions
<1>2. ASSUME NEW r \in Workers, Work(r), ~Commit(r)
      PROVE  UNCHANGED <<session, messages, writes>>
  <2>1. CASE Contended(r)
    BY <2>1 DEF Contended, InsertSession, CloseSession, Append, UpdateCondition,
           Fail, database
  <2>2. CASE CheckSession(r) \/ ModelFails(r) \/ \E n \in 0 .. MaxCalls : Complete(r, n)
    BY <2>2 DEF CheckSession, ModelFails, Complete, Fail, database
  <2>3. CASE NextCall(r) \/ NextRound(r) \/ AnswerOnly(r) \/ RecordWrite(r)
    BY <2>3 DEF NextCall, NextRound, AnswerOnly, RecordWrite, database
  <2>4. CASE \E c \in Conditions : CreateCondition(r, c) \/ ReadCondition(r, c)
    BY <2>4 DEF CreateCondition, ReadCondition, database
  <2> QED
    BY <1>2, <2>1, <2>2, <2>3, <2>4 DEF Work
<1>3. ASSUME Next, ~ \E r \in Workers : Work(r)
      PROVE  UNCHANGED <<session, messages, writes>>
  BY <1>3 DEF Next, Rollback, Fail, BeginTurn, BeginClose, BeginCreate,
         ClientCreates, ClientUpdates, database
<1>4. SessionsAreOrderly /\ [Next]_vars => [KeepsClosedSessions]_vars
  BY <1>1, <1>2, <1>3, CommitSparesClosed DEF KeepsClosedSessions
<1> QED
  BY <1>4, SessionsStayOrderly, PTL DEF Spec, ClosedSessionsAreFinal
-----------------------------------------------------------------------------
(* What turns record: the second inductive invariant *)

\* Model calls are counted, up to MaxRounds.
RoundsFit ==
    \A r \in Workers :
        /\ pc[r] = "idle" => rounds[r] = 0
        /\ pc[r] = "complete" => rounds[r] < MaxRounds
        /\ pc[r] \in {"check_session", "append"} /\ pending[r].role = "user" =>
              rounds[r] = 0

\* Everything that is recorded is finite.
RecordsAreFinite ==
    /\ IsFiniteSet(messages) /\ IsFiniteSet(versions) /\ IsFiniteSet(writes)
    /\ \A r \in Workers :
        /\ IsFiniteSet(draftMessages[r])
        /\ IsFiniteSet(draftVersions[r])
        /\ IsFiniteSet(draftWrites[r])

\* A turn about to append a message.
Appending(r) == pc[r] \in {"check_session", "append"}

\* No two messages of a session have the same identity.
IdsAreFresh ==
    /\ \A r \in Workers : Appending(r) =>
        /\ \A m \in messages \cup UNION {draftMessages[q] : q \in Workers} :
              m.session = pending[r].session => m.id # pending[r].id
        /\ \A q \in Workers \ {r} :
              Appending(q) /\ pending[q].session = pending[r].session =>
                 pending[q].id # pending[r].id
    /\ \A r \in Workers : \A m \in draftMessages[r], n \in messages :
          m.session = n.session => m.id # n.id

Of(S, c) == {v \in S : v.condition = c}

HasLatest(S) == S = {} \/ \E v \in S : \A u \in S : u.version <= v.version

\* Drafts of a condition have one author and follow the versions there are.
VersionsAreSerial ==
    /\ \A q, r \in Workers : q # r =>
          \A u \in draftVersions[q], v \in draftVersions[r] : u.condition # v.condition
    /\ \A r \in Workers :
        /\ \A u \in versions, v \in draftVersions[r] :
              u.condition = v.condition => u.version < v.version
        /\ \A u, v \in draftVersions[r] :
              u.condition = v.condition /\ u.version = v.version => u = v
        /\ \A c \in Conditions : HasLatest(SnapshotsOf(r, c))
    /\ \A c \in Conditions : HasLatest(Of(versions, c))

\* A turn has drafted a version of condition c of its thesis.
HasDrafted(r, c) ==
    \E v \in draftVersions[r] : /\ v.condition = c /\ v.thesis = request[r].thesis
                                /\ v.by = request[r].session

\* What a tool works with: the message of its call, which no write names yet,
\* and a target that it has read or written.
ToolsFit ==
    \A r \in Workers :
        /\ pc[r] \in {"execute", "update_condition", "record_write"} =>
              /\ pending[r] \in draftMessages[r]
              /\ pending[r].role = "tool"
              /\ \A w \in draftWrites[r] : w.message # pending[r].id
        /\ pc[r] \in {"update_condition", "record_write"} => target[r] # NoTarget
        /\ pc[r] = "update_condition" => SnapshotsOf(r, target[r].condition) # {}
        /\ pc[r] = "record_write" => HasDrafted(r, target[r].condition)

\* A drafted write has the thesis of its turn, its tool call and its version.
DraftWritesAreExplained ==
    \A r \in Workers :
        /\ \A w \in draftWrites[r] :
              /\ w.thesis = request[r].thesis
              /\ \E m \in draftMessages[r] : m.id = w.message /\ m.role = "tool"
              /\ HasDrafted(r, w.condition)
              /\ \A x \in draftWrites[r] : x.message = w.message => x = w
        /\ \A v \in draftVersions[r] : v.by = request[r].session

WritesHaveSessions == \A w \in writes : session[w.session] # NoSession

\* As long as the window holds all messages, every drafted version has its
\* record, but the one that a tool is about to record.
DraftsAreAudited ==
    \A r \in Workers :
        request[r].kind = "turn"
        /\ Cardinality(VisibleMessages(r, request[r].session)) <= WriteWindow =>
            \A c \in Conditions :
                Cardinality(Of(draftVersions[r], c)) =
                    Cardinality(Of(draftWrites[r], c)) +
                        IF pc[r] = "record_write" /\ target[r].condition = c THEN 1 ELSE 0

RecordsAreOrderly ==
    /\ TypeOK /\ RoundsFit /\ RecordsAreFinite /\ IdsAreFresh
    /\ VersionsAreSerial /\ NoLostUpdate
    /\ ToolsFit /\ DraftWritesAreExplained
    /\ WritesHaveSessions /\ WritesAreExplained

AuditsAreOrderly == DraftsAreAudited /\ ShortSessionsAreAudited
-----------------------------------------------------------------------------
(* Lemmas about the operators *)

\* The image of a finite set under a function is finite.
LEMMA ImageIsFinite ==
    ASSUME NEW S, IsFiniteSet(S), NEW f, S \subseteq DOMAIN f
    PROVE  IsFiniteSet({f[x] : x \in S})
<1> DEFINE g == [x \in S |-> f[x]]
           T == {f[x] : x \in S}
<1>1. g \in Surjection(S, T)
  BY DEF Surjection
<1> QED
  BY <1>1, FS_Surjection

\* At any time there are finitely many messages, stored or not.
LEMMA KnownIsFinite ==
    ASSUME TypeOK, RecordsAreFinite
    PROVE  IsFiniteSet(Known)
<1> DEFINE P == {pending[r] : r \in Workers}
           D == {draftMessages[r] : r \in Workers}
<1>1. IsFiniteSet(P) /\ IsFiniteSet(D)
  BY ImageIsFinite, WorkersAreFinite DEF TypeOK
<1>2. IsFiniteSet(Pending)
  BY <1>1, FS_Difference DEF Pending
<1>3. IsFiniteSet(UNION D)
  BY <1>1, FS_UNION DEF RecordsAreFinite
<1> QED
  BY <1>2, <1>3, FS_Union DEF Known, RecordsAreFinite

\* A new message gets an identity that no message of its session has.
LEMMA FreshIdIsFresh ==
    ASSUME TypeOK, RecordsAreFinite, NEW s
    PROVE  /\ FreshId(s) \in Nat \ {0}
           /\ \A m \in Known : m.session = s => m.id # FreshId(s)
<1> DEFINE M == {n \in Known : n.session = s}
           ids == {m.id : m \in M}
           f == [m \in M |-> m.id]
           n == Cardinality(ids)
<1>1. IsFiniteSet(M)
  BY KnownIsFinite, FS_Subset
<1>2. IsFiniteSet(ids)
  <2>1. f \in Surjection(M, ids)
    BY DEF Surjection
  <2> QED
    BY <1>1, <2>1, FS_Surjection
<1>3. n \in Nat
  BY <1>2, FS_CardinalityType
<1>4. \E i \in 1 .. n + 1 : i \notin ids
  <2>1. SUFFICES ASSUME 1 .. n + 1 \subseteq ids PROVE FALSE
    OBVIOUS
  <2>2. Cardinality(1 .. n + 1) = n + 1
    BY <1>3, FS_Interval
  <2>3. Cardinality(1 .. n + 1) <= n
    BY <1>2, <2>1, FS_Subset
  <2> QED
    BY <1>3, <2>2, <2>3
<1>5. FreshId(s) \in 1 .. n + 1 /\ FreshId(s) \notin ids
  BY <1>4 DEF FreshId
<1> QED
  BY <1>3, <1>5

\* The row of a condition that a transaction sees is the latest.
LEMMA CurrentRowIsLatest ==
    ASSUME NEW r, NEW c, HasLatest(SnapshotsOf(r, c)), SnapshotsOf(r, c) # {}
    PROVE  /\ CurrentRow(r, c) \in SnapshotsOf(r, c)
           /\ \A u \in SnapshotsOf(r, c) : u.version <= CurrentRow(r, c).version
BY DEF HasLatest, CurrentRow

\* Appending a version after all others leaves a latest one.
LEMMA NextIsLatest ==
    ASSUME NEW S, NEW v, \A u \in S : u.version < v.version, v.version \in Nat,
           \A u \in S : u.version \in Nat
    PROVE  HasLatest(S \cup {v})
BY DEF HasLatest
-----------------------------------------------------------------------------
(* Steps of one request, seen from the others *)

Local(q) == <<pc[q], request[q], pending[q], rounds[q], calls[q], target[q],
              draftSession[q], draftMessages[q], draftVersions[q], draftWrites[q]>>

OthersStand(r) == \A q \in Workers \ {r} : UNCHANGED Local(q)

Begin(r) == \E s \in Sessions :
               \/ BeginTurn(r, s) \/ BeginClose(r, s)
               \/ \E t \in Theses : BeginCreate(r, s, t)

\* A step of a request leaves the others where they are.
LEMMA OthersAreUntouched ==
    ASSUME TypeOK, NEW r \in Workers, Begin(r) \/ Work(r) \/ Rollback(r)
    PROVE  OthersStand(r)
<1> USE DEF OthersStand, Local, TypeOK
<1>1. ASSUME Fail(r) PROVE OthersStand(r)
  BY <1>1 DEF Fail, EndRequest
<1>2. CASE Begin(r)
  BY <1>2 DEF Begin, BeginTurn, BeginClose, BeginCreate, Goto, Compose, drafts
<1>3. CASE InsertSession(r) \/ CloseSession(r)
  BY <1>1, <1>3 DEF InsertSession, CloseSession, Goto, control
<1>4. CASE Append(r) \/ UpdateCondition(r)
  BY <1>4 DEF Append, UpdateCondition, Write, Goto, control
<1>5. CASE CheckSession(r) \/ ModelFails(r)
  BY <1>1, <1>5 DEF CheckSession, ModelFails, Goto, control, drafts
<1>6. CASE \E n \in 0 .. MaxCalls : Complete(r, n)
  BY <1>6 DEF Complete, Compose, Goto, drafts
<1>7. CASE NextCall(r) \/ NextRound(r) \/ AnswerOnly(r)
  BY <1>7 DEF NextCall, NextRound, AnswerOnly, Compose, Goto, control, drafts
<1>8. CASE \E c \in Conditions : CreateCondition(r, c) \/ ReadCondition(r, c)
  BY <1>8 DEF CreateCondition, ReadCondition, Write, Goto, drafts
<1>9. CASE RecordWrite(r)
  BY <1>9 DEF RecordWrite, Goto, control
<1>10. CASE Commit(r)
  BY <1>10 DEF Commit, EndRequest
<1>11. CASE Rollback(r)
  BY <1>1, <1>11 DEF Rollback
<1> QED
  BY <1>2, <1>3, <1>4, <1>5, <1>6, <1>7, <1>8, <1>9, <1>10, <1>11 DEF Work, Contended

\* Versions stay serial when r writes none, or drops its own.
LEMMA VersionsStand ==
    ASSUME RecordsAreOrderly, NEW r \in Workers, OthersStand(r), UNCHANGED versions,
           draftVersions'[r] \in {draftVersions[r], {}}
    PROVE  VersionsAreSerial' /\ NoLostUpdate'
<1>1. \A q \in Workers : draftVersions'[q] \in {draftVersions[q], {}}
  BY DEF OthersStand, Local
<1>2. \A q \in Workers, c \in Conditions :
        SnapshotsOf(q, c)' \in {SnapshotsOf(q, c), Of(versions, c)}
  BY <1>1 DEF SnapshotsOf, VisibleVersions, Of
<1>3. \A q \in Workers, c \in Conditions : HasLatest(SnapshotsOf(q, c)')
  BY <1>2 DEF RecordsAreOrderly, VersionsAreSerial
<1>4. \A q \in Workers, c \in Conditions : HasLatest(SnapshotsOf(q, c))'
  BY <1>3 DEF HasLatest
<1>5. \A c \in Conditions : HasLatest(Of(versions, c))'
  BY DEF RecordsAreOrderly, VersionsAreSerial, HasLatest, Of
<1>6. NoLostUpdate'
  BY DEF RecordsAreOrderly, NoLostUpdate
<1>7. \A q, p \in Workers : q # p =>
          \A u \in draftVersions'[q], v \in draftVersions'[p] : u.condition # v.condition
  BY <1>1 DEF RecordsAreOrderly, VersionsAreSerial
<1>8. \A q \in Workers :
        /\ \A u \in versions', v \in draftVersions'[q] :
              u.condition = v.condition => u.version < v.version
        /\ \A u, v \in draftVersions'[q] :
              u.condition = v.condition /\ u.version = v.version => u = v
  BY <1>1 DEF RecordsAreOrderly, VersionsAreSerial
<1> QED
  BY <1>4, <1>5, <1>6, <1>7, <1>8 DEF VersionsAreSerial

\* Identities stay fresh when r composes no message and drops or keeps its drafts.
LEMMA IdsStand ==
    ASSUME RecordsAreOrderly, NEW r \in Workers, OthersStand(r), UNCHANGED messages,
           draftMessages'[r] \in {draftMessages[r], {}},
           pc'[r] \in {"check_session", "append"} =>
              Appending(r) /\ pending'[r] = pending[r]
    PROVE  IdsAreFresh'
<1>1. \A q \in Workers : /\ draftMessages'[q] \in {draftMessages[q], {}}
                         /\ Appending(q)' => Appending(q) /\ pending'[q] = pending[q]
  BY DEF OthersStand, Local, Appending
<1> QED
  BY <1>1 DEF RecordsAreOrderly, IdsAreFresh

\* Explanations stand when r keeps its drafts and its request, or has no drafts.
LEMMA ExplanationsStand ==
    ASSUME RecordsAreOrderly, NEW r \in Workers, OthersStand(r), UNCHANGED database,
           \/ UNCHANGED <<request[r], draftMessages[r], draftVersions[r], draftWrites[r]>>
           \/ draftWrites'[r] = {} /\ draftVersions'[r] = {}
    PROVE  DraftWritesAreExplained' /\ WritesHaveSessions' /\ WritesAreExplained'
<1>1. UNCHANGED <<session, messages, versions, writes>>
  BY DEF database
<1>2. WritesHaveSessions' /\ WritesAreExplained'
  BY <1>1 DEF RecordsAreOrderly, WritesHaveSessions, WritesAreExplained
<1>3. \A q \in Workers :
        \/ UNCHANGED <<request[q], draftMessages[q], draftVersions[q], draftWrites[q]>>
        \/ draftWrites'[q] = {} /\ draftVersions'[q] = {}
  BY DEF OthersStand, Local
<1>4. DraftWritesAreExplained'
  BY <1>3 DEF RecordsAreOrderly, DraftWritesAreExplained, HasDrafted
<1> QED
  BY <1>2, <1>4

\* Whether a tool has what it needs.
ToolFits(q) ==
    /\ pc[q] \in {"execute", "update_condition", "record_write"} =>
          /\ pending[q] \in draftMessages[q]
          /\ pending[q].role = "tool"
          /\ \A w \in draftWrites[q] : w.message # pending[q].id
    /\ pc[q] \in {"update_condition", "record_write"} => target[q] # NoTarget
    /\ pc[q] = "update_condition" => SnapshotsOf(q, target[q].condition) # {}
    /\ pc[q] = "record_write" => HasDrafted(q, target[q].condition)

\* The tools of other requests keep what they have, since versions are not lost.
LEMMA ToolsStand ==
    ASSUME RecordsAreOrderly, NEW r \in Workers, OthersStand(r), versions \subseteq versions',
           ToolFits(r)'
    PROVE  ToolsFit'
<1>1. ASSUME NEW q \in Workers \ {r} PROVE ToolFits(q)'
  <2>1. ToolFits(q)
    BY DEF RecordsAreOrderly, ToolsFit, ToolFits
  <2>2. UNCHANGED <<pc[q], pending[q], draftMessages[q], draftWrites[q], target[q],
                    draftVersions[q], request[q]>>
    BY DEF OthersStand, Local
  <2>3. \A c : HasDrafted(q, c)' = HasDrafted(q, c)
    BY <2>2 DEF HasDrafted
  <2>4. pc[q] = "update_condition" => SnapshotsOf(q, target[q].condition)' # {}
    BY <2>1, <2>2 DEF ToolFits, SnapshotsOf, VisibleVersions
  <2> QED
    BY <2>1, <2>2, <2>3, <2>4 DEF ToolFits
<1> QED
  BY <1>1 DEF ToolsFit, ToolFits
RoundFits(q) ==
    /\ pc[q] = "idle" => rounds[q] = 0
    /\ pc[q] = "complete" => rounds[q] < MaxRounds
    /\ pc[q] \in {"check_session", "append"} /\ pending[q].role = "user" => rounds[q] = 0

\* The rounds of other requests are theirs.
LEMMA RoundsStand ==
    ASSUME RecordsAreOrderly, NEW r \in Workers, OthersStand(r), RoundFits(r)'
    PROVE  RoundsFit'
BY DEF RecordsAreOrderly, RoundsFit, RoundFits, OthersStand, Local

\* A step that writes nothing and keeps its drafts, or ends with none, disturbs
\* only types, identities, and what r itself counts and works with.
LEMMA QuietKeepsRecords ==
    ASSUME RecordsAreOrderly, NEW r \in Workers, OthersStand(r), UNCHANGED database,
           \/ UNCHANGED <<request[r], draftMessages[r], draftVersions[r], draftWrites[r]>>
           \/ draftMessages'[r] = {} /\ draftWrites'[r] = {} /\ draftVersions'[r] = {},
           TypeOK', IdsAreFresh', RoundFits(r)', ToolFits(r)'
    PROVE  RecordsAreOrderly'
<1>1. UNCHANGED <<session, messages, versions, writes>>
  BY DEF database
<1>2. RoundsFit' /\ ToolsFit'
  BY <1>1, RoundsStand, ToolsStand
<1>3. VersionsAreSerial' /\ NoLostUpdate'
  BY <1>1, VersionsStand
<1>4. DraftWritesAreExplained' /\ WritesHaveSessions' /\ WritesAreExplained'
  BY ExplanationsStand
<1>5. RecordsAreFinite'
  BY <1>1, FS_EmptySet DEF RecordsAreOrderly, RecordsAreFinite, OthersStand, Local
<1> QED
  BY <1>2, <1>3, <1>4, <1>5 DEF RecordsAreOrderly

\* A request that ends leaves nothing.
LEMMA FailKeepsRecords ==
    ASSUME RecordsAreOrderly, NEW r \in Workers, OthersStand(r), Fail(r)
    PROVE  RecordsAreOrderly'
<1>1. TypeOK'
  BY SizesAreNatural, RoundsArePositive
     DEF RecordsAreOrderly, TypeOK, Fail, EndRequest, database, Labels
<1>2. /\ pc'[r] = "idle" /\ rounds'[r] = 0
      /\ draftMessages'[r] = {} /\ draftWrites'[r] = {} /\ draftVersions'[r] = {}
  BY DEF RecordsAreOrderly, TypeOK, Fail, EndRequest
<1>3. RoundFits(r)' /\ ToolFits(r)'
  BY <1>2 DEF RoundFits, ToolFits
<1>4. UNCHANGED database /\ UNCHANGED messages
  BY DEF Fail, database
<1>5. IdsAreFresh'
  BY <1>2, <1>4, IdsStand
<1> QED
  BY <1>1, <1>2, <1>3, <1>4, <1>5, QuietKeepsRecords

\* A request that is idle has written nothing.
LEMMA IdleHasNoDrafts ==
    ASSUME SessionsAreOrderly, NEW r \in Workers, pc[r] = "idle"
    PROVE  draftMessages[r] = {} /\ draftVersions[r] = {} /\ draftWrites[r] = {}
<1>1. request[r] = NoRequest
  BY DEF SessionsAreOrderly, LabelsFit
<1>2. request[r].kind # "turn"
  BY <1>1 DEF NoRequest
<1> QED
  BY <1>2 DEF SessionsAreOrderly, DraftsFit

\* Opening and closing sessions is no matter of records.
LEMMA SessionStepsKeepRecords ==
    ASSUME SessionsAreOrderly, RecordsAreOrderly, NEW r \in Workers, OthersStand(r),
           \/ \E s \in Sessions, t \in Theses : BeginCreate(r, s, t)
           \/ \E s \in Sessions : BeginClose(r, s)
           \/ InsertSession(r) \/ CloseSession(r)
    PROVE  RecordsAreOrderly'
<1>1. CASE Fail(r)
  BY <1>1, FailKeepsRecords
<1>2. CASE ~Fail(r)
  <2>1. /\ UNCHANGED <<database, pending, rounds, calls, target,
                       draftMessages, draftVersions, draftWrites>>
        /\ pc'[r] \in {"insert_session", "close", "commit"}
        /\ pc[r] = "idle" \/ request' = request
    BY <1>2 DEF BeginCreate, BeginClose, InsertSession, CloseSession, Goto, RecordsAreOrderly,
       TypeOK, drafts, control
  <2>2. RoundFits(r)' /\ ToolFits(r)'
    BY <2>1 DEF RoundFits, ToolFits
  <2>3. TypeOK'
    <3>1. CASE \E s \in Sessions, t \in Theses : BeginCreate(r, s, t)
      BY <3>1 DEF BeginCreate, Goto, RecordsAreOrderly, TypeOK, drafts, database, Labels, Request
    <3>2. CASE \E s \in Sessions : BeginClose(r, s)
      BY <3>2 DEF BeginClose, Goto, RecordsAreOrderly, TypeOK, drafts, database, Labels, Request,
         SessionRow, NoSession
    <3>3. CASE InsertSession(r)
      <4>1. request[r].thesis \in Theses
        BY <3>3 DEF InsertSession, SessionsAreOrderly, LabelsFit, RecordsAreOrderly, TypeOK,
           Request, NoRequest
      <4> QED
        BY <1>2, <3>3, <4>1 DEF InsertSession, Goto, RecordsAreOrderly, TypeOK, database, control,
           Labels, SessionRow
    <3>4. CASE CloseSession(r)
      <4>1. [session[request[r].session] EXCEPT !.status = "closed"] \in SessionRow
        BY <1>2, <3>4 DEF CloseSession, SessionsAreOrderly, LabelsFit, SessionsFit,
           RecordsAreOrderly, TypeOK, Request, NoRequest, SessionRow, NoSession
      <4> QED
        BY <1>2, <3>4, <4>1 DEF CloseSession, Goto, RecordsAreOrderly, TypeOK, database, control,
           Labels
    <3> QED
      BY <3>1, <3>2, <3>3, <3>4
  <2>4. UNCHANGED messages
    BY <2>1 DEF database
  <2>5. IdsAreFresh'
    BY <2>1, <2>4, IdsStand
  <2> QED
    BY <2>1, <2>2, <2>3, <2>5, IdleHasNoDrafts, QuietKeepsRecords
<1> QED
  BY <1>1, <1>2

\* So are the steps of a turn between its messages and its tools.
LEMMA TurnStepsKeepRecords ==
    ASSUME SessionsAreOrderly, RecordsAreOrderly, NEW r \in Workers, OthersStand(r),
           CheckSession(r) \/ ModelFails(r) \/ NextRound(r) \/ AnswerOnly(r)
    PROVE  RecordsAreOrderly'
<1>1. CASE Fail(r)
  BY <1>1, FailKeepsRecords
<1>2. CASE ~Fail(r)
  <2>1. UNCHANGED <<database, control, drafts>>
    BY <1>2 DEF CheckSession, ModelFails, NextRound, AnswerOnly
  <2>2. /\ pc'[r] \in {"append", "complete", "next_call", "commit"}
        /\ pc'[r] = "append" => pc[r] = "check_session"
        /\ pc'[r] = "complete" => rounds[r] < MaxRounds
        /\ pc' = [pc EXCEPT ![r] = pc'[r]]
    BY <1>2 DEF CheckSession, ModelFails, NextRound, AnswerOnly, Goto, RoundsLeft,
       RecordsAreOrderly, TypeOK
  <2>3. TypeOK'
    BY <2>1, <2>2 DEF RecordsAreOrderly, TypeOK, database, control, drafts, Labels
  <2>4. RoundFits(r)' /\ ToolFits(r)'
    BY <2>1, <2>2 DEF RoundFits, ToolFits, control, RecordsAreOrderly, RoundsFit
  <2>5. IdsAreFresh'
    BY <2>1, <2>2, IdsStand DEF database, control, drafts, Appending
  <2> QED
    BY <2>1, <2>3, <2>4, <2>5, QuietKeepsRecords DEF control, drafts
<1> QED
  BY <1>1, <1>2

ComposeEffect(r, s, role) ==
    /\ Compose(r, s, role)
    /\ s \in Sessions /\ role \in Roles
    /\ pc' = [pc EXCEPT ![r] = "check_session"]
    /\ rounds'[r] \in 0 .. MaxRounds /\ rounds' = [rounds EXCEPT ![r] = rounds'[r]]
    /\ calls'[r] \in 0 .. MaxCalls /\ calls' = [calls EXCEPT ![r] = calls'[r]]
    /\ role = "user" => rounds'[r] = 0
    /\ UNCHANGED <<database, target, drafts>>

\* A message that is composed is new to its session.
LEMMA ComposeKeepsRecords ==
    ASSUME SessionsAreOrderly, RecordsAreOrderly, NEW r \in Workers, OthersStand(r),
           NEW s, NEW role, ComposeEffect(r, s, role),
           request' \in [Workers -> Request \cup {NoRequest}],
           pc[r] = "idle" \/ UNCHANGED request[r]
    PROVE  RecordsAreOrderly'
<1> DEFINE m == [id |-> FreshId(s), session |-> s, role |-> role]
<1>1. /\ FreshId(s) \in Nat \ {0}
      /\ \A n \in Known : n.session = s => n.id # FreshId(s)
  BY FreshIdIsFresh DEF RecordsAreOrderly
<1>2. pending' = [pending EXCEPT ![r] = m] /\ pending'[r] = m /\ m \in Message
  BY <1>1 DEF ComposeEffect, Compose, RecordsAreOrderly, TypeOK, Message
<1>3. TypeOK'
  BY <1>2 DEF ComposeEffect, RecordsAreOrderly, TypeOK, database, drafts, Labels
<1>4. pc'[r] = "check_session"
  BY DEF ComposeEffect, RecordsAreOrderly, TypeOK
<1>5. RoundFits(r)' /\ ToolFits(r)'
  BY <1>2, <1>4 DEF RoundFits, ToolFits, ComposeEffect
<1>6. IdsAreFresh'
  <2>1. UNCHANGED <<messages, draftMessages>>
    BY DEF ComposeEffect, database, drafts
  <2>2. \A n \in messages \cup UNION {draftMessages[q] : q \in Workers} :
          n.session = s => n.id # FreshId(s)
    BY <1>1 DEF Known
  <2>3. ASSUME NEW q \in Workers \ {r}, Appending(q)
        PROVE  pending[q].session = s => pending[q].id # FreshId(s)
    <3>1. pending[q] # NoMessage
      BY <2>3 DEF Appending, SessionsAreOrderly, PendingFits, Roles, NoMessage
    <3>2. pending[q] \in Known
      BY <3>1 DEF Known, Pending
    <3> QED
      BY <1>1, <3>2
  <2>4. \A q \in Workers \ {r} : (Appending(q)' <=> Appending(q)) /\ pending'[q] = pending[q]
    BY DEF OthersStand, Local, Appending
  <2> QED
    BY <1>2, <2>1, <2>2, <2>3, <2>4 DEF RecordsAreOrderly, IdsAreFresh
<1>7. \/ UNCHANGED <<request[r], draftMessages[r], draftVersions[r], draftWrites[r]>>
      \/ draftMessages'[r] = {} /\ draftWrites'[r] = {} /\ draftVersions'[r] = {}
  BY IdleHasNoDrafts DEF ComposeEffect, drafts
<1>8. UNCHANGED database
  BY DEF ComposeEffect
<1> QED
  BY <1>3, <1>5, <1>6, <1>7, <1>8, QuietKeepsRecords

\* The user's message, the answers of the model and its tool calls are composed.
LEMMA MessagesKeepRecords ==
    ASSUME SessionsAreOrderly, RecordsAreOrderly, NEW r \in Workers, OthersStand(r),
           \/ \E s \in Sessions : BeginTurn(r, s)
           \/ \E n \in 0 .. MaxCalls : Complete(r, n)
           \/ NextCall(r)
    PROVE  RecordsAreOrderly'
<1>1. ASSUME NEW s \in Sessions, BeginTurn(r, s)
      PROVE  RecordsAreOrderly'
  <2>1. session[s].thesis \in Theses
    BY <1>1 DEF BeginTurn, RecordsAreOrderly, TypeOK, SessionRow, NoSession
  <2>2. request' \in [Workers -> Request \cup {NoRequest}]
    BY <1>1, <2>1 DEF BeginTurn, RecordsAreOrderly, TypeOK, Request
  <2>3. rounds[r] = 0 /\ rounds[r] \in 0 .. MaxRounds /\ calls[r] \in 0 .. MaxCalls
    BY <1>1 DEF BeginTurn, RecordsAreOrderly, RoundsFit, TypeOK
  <2>4. ComposeEffect(r, s, "user") /\ pc[r] = "idle"
    BY <1>1, <2>3 DEF BeginTurn, Goto, ComposeEffect, Roles, RecordsAreOrderly, TypeOK
  <2> QED
    BY <2>2, <2>4, ComposeKeepsRecords
<1>2. ASSUME pc[r] \in {"complete", "next_call"}
      PROVE  request[r].session \in Sessions
  BY <1>2 DEF SessionsAreOrderly, LabelsFit, TurnLabels, RecordsAreOrderly, TypeOK, Request,
     NoRequest
<1>3. ASSUME NEW n \in 0 .. MaxCalls, Complete(r, n)
      PROVE  RecordsAreOrderly'
  <2>1. rounds[r] + 1 \in 0 .. MaxRounds
    BY <1>3, RoundsArePositive DEF Complete, RecordsAreOrderly, RoundsFit, TypeOK
  <2>2. ComposeEffect(r, request[r].session, "assistant")
    BY <1>2, <1>3, <2>1 DEF Complete, Goto, ComposeEffect, Roles, RecordsAreOrderly, TypeOK
  <2>3. UNCHANGED request
    BY <1>3 DEF Complete
  <2> QED
    BY <2>2, <2>3, ComposeKeepsRecords DEF RecordsAreOrderly, TypeOK
<1>4. CASE NextCall(r)
  <2>1. calls[r] - 1 \in 0 .. MaxCalls
    BY <1>4, SizesAreNatural DEF NextCall, RecordsAreOrderly, TypeOK
  <2>2. ComposeEffect(r, request[r].session, "tool")
    BY <1>2, <1>4, <2>1 DEF NextCall, Goto, ComposeEffect, Roles, RecordsAreOrderly, TypeOK
  <2>3. UNCHANGED request
    BY <1>4 DEF NextCall
  <2> QED
    BY <2>2, <2>3, ComposeKeepsRecords DEF RecordsAreOrderly, TypeOK
<1> QED
  BY <1>1, <1>3, <1>4
\* A message that is appended is new to the messages and drafts of its session.
LEMMA AppendKeepsRecords ==
    ASSUME SessionsAreOrderly, RecordsAreOrderly, NEW r \in Workers, OthersStand(r), Append(r)
    PROVE  RecordsAreOrderly'
<1> DEFINE m == pending[r]
<1>1. /\ Appending(r) /\ m \in Message
      /\ m.session = request[r].session /\ m.role \in Roles
  BY DEF Append, Appending, SessionsAreOrderly, PendingFits, RecordsAreOrderly, TypeOK,
     NoMessage, Roles
<1>2. /\ UNCHANGED <<session, messages, versions, writes, database>>
      /\ UNCHANGED <<request, pending, rounds, calls, target, draftSession, draftVersions,
                     draftWrites>>
      /\ draftMessages' = [draftMessages EXCEPT ![r] = @ \cup {m}]
      /\ draftMessages'[r] = draftMessages[r] \cup {m}
      /\ \A q \in Workers \ {r} : draftMessages'[q] = draftMessages[q]
      /\ pc' = [pc EXCEPT ![r] = AfterAppend(r)]
  BY DEF Append, Goto, database, control, RecordsAreOrderly, TypeOK
<1>3. /\ pc'[r] = AfterAppend(r)
      /\ AfterAppend(r) \in {"complete", "execute", "next_call", "commit"}
      /\ AfterAppend(r) = "complete" => m.role = "user"
      /\ AfterAppend(r) = "execute" => m.role = "tool"
  BY <1>1, <1>2 DEF AfterAppend, Roles, RecordsAreOrderly, TypeOK
<1> HIDE DEF m
<1>4. TypeOK'
  BY <1>1, <1>2, <1>3 DEF RecordsAreOrderly, TypeOK, Labels
<1>5. RoundFits(r)'
  <2>1. m.role = "user" => rounds[r] = 0
    BY <1>1 DEF RecordsAreOrderly, RoundsFit, Appending, m
  <2> QED
    BY <1>2, <1>3, <2>1, RoundsArePositive DEF RoundFits
<1>6. RecordsAreFinite'
  <2>1. IsFiniteSet(draftMessages[r] \cup {m})
    BY FS_AddElement DEF RecordsAreOrderly, RecordsAreFinite
  <2> QED
    BY <1>2, <2>1 DEF RecordsAreOrderly, RecordsAreFinite
<1>7. \A n \in messages \cup UNION {draftMessages[q] : q \in Workers} :
        n.session = m.session => n.id # m.id
  BY <1>1 DEF RecordsAreOrderly, IdsAreFresh, m
<1>8. IdsAreFresh'
  <2>1. ASSUME NEW q \in Workers, Appending(q)'
        PROVE  /\ q # r /\ Appending(q)
               /\ pending[q].session = m.session => pending[q].id # m.id
    <3>1. q # r /\ Appending(q)
      BY <1>3, <2>1 DEF OthersStand, Local, Appending
    <3> QED
      BY <1>1, <3>1 DEF RecordsAreOrderly, IdsAreFresh, m
  <2>2. UNION {draftMessages'[q] : q \in Workers} = (UNION {draftMessages[q] : q \in Workers}) \cup {m}
    BY <1>2
  <2> QED
    BY <1>2, <1>7, <2>1, <2>2 DEF RecordsAreOrderly, IdsAreFresh
<1>9. ToolFits(r)'
  <2>1. ASSUME NEW w \in draftWrites[r] PROVE w.message # m.id
    <3>1. PICK n \in draftMessages[r] : n.id = w.message
      BY DEF RecordsAreOrderly, DraftWritesAreExplained
    <3>2. n.session = m.session
      BY <1>1 DEF SessionsAreOrderly, DraftsFit
    <3> QED
      BY <1>7, <3>1, <3>2
  <2> QED
    BY <1>2, <1>3, <2>1 DEF ToolFits, m
<1>10. ToolsFit' /\ RoundsFit'
  BY <1>2, <1>5, <1>9, ToolsStand, RoundsStand
<1>11. VersionsAreSerial' /\ NoLostUpdate'
  BY <1>2, VersionsStand
<1>12. DraftWritesAreExplained'
  BY <1>2 DEF RecordsAreOrderly, DraftWritesAreExplained, HasDrafted
<1>13. WritesHaveSessions' /\ WritesAreExplained'
  BY <1>2 DEF RecordsAreOrderly, WritesHaveSessions, WritesAreExplained
<1> QED
  BY <1>4, <1>6, <1>8, <1>10, <1>11, <1>12, <1>13 DEF RecordsAreOrderly

\* A turn has the thesis and the session of its request.
LEMMA TurnsHaveRequests ==
    ASSUME SessionsAreOrderly, NEW r \in Workers, pc[r] \in TurnLabels
    PROVE  request[r].session \in Sessions /\ request[r].thesis \in Theses
BY DEF SessionsAreOrderly, LabelsFit, Shape, Request, NoRequest

WriteEffect(r, v) ==
    /\ pc[r] \in {"execute", "update_condition"} /\ pc' = [pc EXCEPT ![r] = "record_write"]
    /\ v \in Version /\ v.thesis = request[r].thesis /\ v.by = request[r].session
    /\ ~ConditionLocked(r, v.condition)
    /\ \A u \in SnapshotsOf(r, v.condition) : u.version < v.version
    /\ draftVersions' = [draftVersions EXCEPT ![r] = @ \cup {v}]
    /\ target' \in [Workers -> Target \cup {NoTarget}]
    /\ target'[r] # NoTarget /\ target'[r].condition = v.condition
    /\ UNCHANGED <<database, request, pending, rounds, calls, draftSession, draftMessages,
                   draftWrites>>

\* A version that is written follows all there are of its condition.
LEMMA WriteKeepsRecords ==
    ASSUME RecordsAreOrderly, NEW r \in Workers, OthersStand(r), NEW v, WriteEffect(r, v)
    PROVE  RecordsAreOrderly'
<1>1. /\ UNCHANGED <<session, messages, versions, writes, database>>
      /\ UNCHANGED <<request, pending, rounds, calls, draftSession, draftMessages, draftWrites>>
      /\ draftVersions' = [draftVersions EXCEPT ![r] = @ \cup {v}]
      /\ draftVersions'[r] = draftVersions[r] \cup {v}
      /\ \A q \in Workers \ {r} : draftVersions'[q] = draftVersions[q]
      /\ pc' = [pc EXCEPT ![r] = "record_write"]
      /\ pc'[r] = "record_write"
      /\ v \in Version
  BY DEF WriteEffect, database, RecordsAreOrderly, TypeOK
<1>2. TypeOK'
  BY <1>1 DEF WriteEffect, RecordsAreOrderly, TypeOK, Labels
<1>3. RoundFits(r)'
  BY <1>1 DEF RoundFits
<1>4. RecordsAreFinite'
  <2>1. IsFiniteSet(draftVersions[r] \cup {v})
    BY FS_AddElement DEF RecordsAreOrderly, RecordsAreFinite
  <2> QED
    BY <1>1, <2>1 DEF RecordsAreOrderly, RecordsAreFinite
<1>5. IdsAreFresh'
  BY <1>1, IdsStand
<1>6. HasDrafted(r, v.condition)'
  BY <1>1 DEF WriteEffect, HasDrafted
<1>7. ToolFits(r)'
  BY <1>1, <1>6 DEF WriteEffect, ToolFits, RecordsAreOrderly, ToolsFit
<1>8. ToolsFit' /\ RoundsFit'
  BY <1>1, <1>3, <1>7, ToolsStand, RoundsStand
<1>9. \A u \in versions \cup draftVersions[r] : u.condition = v.condition => u.version < v.version
  BY DEF WriteEffect, SnapshotsOf, VisibleVersions
<1>10. \A q \in Workers \ {r} : \A u \in draftVersions[q] : u.condition # v.condition
  BY DEF WriteEffect, ConditionLocked
<1>11. NoLostUpdate'
  BY <1>1 DEF RecordsAreOrderly, NoLostUpdate
<1>12. VersionsAreSerial'
  <2>1. \A q, p \in Workers : q # p =>
          \A u \in draftVersions'[q], x \in draftVersions'[p] : u.condition # x.condition
    BY <1>1, <1>10 DEF RecordsAreOrderly, VersionsAreSerial
  <2>2. ASSUME NEW q \in Workers
        PROVE  /\ \A u \in versions', x \in draftVersions'[q] :
                    u.condition = x.condition => u.version < x.version
               /\ \A u, x \in draftVersions'[q] :
                    u.condition = x.condition /\ u.version = x.version => u = x
    <3>1. v.version \in Nat /\ \A u \in draftVersions[r] : u.version \in Nat
      BY <1>1 DEF RecordsAreOrderly, TypeOK, Version
    <3>2. CASE q = r
      BY <1>1, <1>9, <3>1, <3>2 DEF RecordsAreOrderly, VersionsAreSerial
    <3>3. CASE q # r
      BY <1>1, <3>3 DEF RecordsAreOrderly, VersionsAreSerial
    <3> QED
      BY <3>2, <3>3
  <2>3. ASSUME NEW q \in Workers, NEW c \in Conditions
        PROVE  HasLatest(SnapshotsOf(q, c)')
    <3>1. HasLatest(SnapshotsOf(q, c))
      BY DEF RecordsAreOrderly, VersionsAreSerial
    <3>2. CASE q = r /\ c = v.condition
      <4>1. SnapshotsOf(q, c)' = SnapshotsOf(q, c) \cup {v}
        BY <1>1, <3>2 DEF SnapshotsOf, VisibleVersions
      <4>2. v.version \in Nat /\ \A u \in SnapshotsOf(q, c) : u.version \in Nat
        BY <1>1 DEF RecordsAreOrderly, TypeOK, Version, SnapshotsOf, VisibleVersions
      <4>3. \A u \in SnapshotsOf(q, c) : u.version < v.version
        BY <3>2 DEF WriteEffect
      <4> QED
        BY <4>1, <4>2, <4>3, NextIsLatest
    <3>3. CASE ~(q = r /\ c = v.condition)
      <4>1. SnapshotsOf(q, c)' = SnapshotsOf(q, c)
        BY <1>1, <3>3 DEF SnapshotsOf, VisibleVersions
      <4> QED
        BY <3>1, <4>1
    <3> QED
      BY <3>2, <3>3
  <2>4. \A q \in Workers, c \in Conditions : HasLatest(SnapshotsOf(q, c))'
    BY <2>3 DEF HasLatest
  <2>5. \A c \in Conditions : HasLatest(Of(versions, c))'
    BY <1>1 DEF RecordsAreOrderly, VersionsAreSerial, HasLatest, Of
  <2> QED
    BY <2>1, <2>2, <2>4, <2>5 DEF VersionsAreSerial
<1>13. DraftWritesAreExplained'
  <2>1. \A q \in Workers : \A u \in draftVersions'[q] : u.by = request[q].session
    BY <1>1 DEF WriteEffect, RecordsAreOrderly, DraftWritesAreExplained
  <2>2. \A q \in Workers : \A c : HasDrafted(q, c) => HasDrafted(q, c)'
    BY <1>1 DEF HasDrafted
  <2>3. UNCHANGED <<request, draftMessages, draftWrites>>
    BY <1>1
  <2>4. \A q \in Workers : \A w \in draftWrites[q] :
            /\ w.thesis = request[q].thesis
            /\ \E m \in draftMessages[q] : m.id = w.message /\ m.role = "tool"
            /\ HasDrafted(q, w.condition)'
            /\ \A x \in draftWrites[q] : x.message = w.message => x = w
    BY <2>2 DEF RecordsAreOrderly, DraftWritesAreExplained
  <2> QED
    BY <2>1, <2>3, <2>4 DEF DraftWritesAreExplained, HasDrafted
<1>14. WritesHaveSessions' /\ WritesAreExplained'
  BY <1>1 DEF RecordsAreOrderly, WritesHaveSessions, WritesAreExplained
<1> QED
  BY <1>2, <1>4, <1>5, <1>8, <1>11, <1>12, <1>13, <1>14 DEF RecordsAreOrderly

\* Creating a condition writes its first version.
LEMMA CreateWrites ==
    ASSUME SessionsAreOrderly, RecordsAreOrderly, NEW r \in Workers, NEW c \in Conditions,
           CreateCondition(r, c)
    PROVE  \E v : WriteEffect(r, v)
<1> DEFINE v == [condition |-> c, thesis |-> request[r].thesis, version |-> 1,
                 by |-> request[r].session]
<1>1. SnapshotsOf(r, c) = {} /\ ~ConditionLocked(r, c)
  BY DEF CreateCondition, Unused, SnapshotsOf, VisibleVersions, ConditionLocked
<1>2. v \in Version
  BY TurnsHaveRequests DEF Version, CreateCondition, TurnLabels
<1>3. /\ target' \in [Workers -> Target \cup {NoTarget}]
      /\ target'[r] # NoTarget /\ target'[r].condition = c
  BY DEF CreateCondition, RecordsAreOrderly, TypeOK, Target, NoTarget
<1>4. WriteEffect(r, v)
  BY <1>1, <1>2, <1>3 DEF CreateCondition, Write, Goto, WriteEffect
<1> QED
  BY <1>4

\* An update that finds the version it has read writes the next one.
LEMMA UpdateWrites ==
    ASSUME SessionsAreOrderly, RecordsAreOrderly, NEW r \in Workers, UpdateCondition(r),
           MatchVersion(CurrentRow(r, target[r].condition), target[r].version)
    PROVE  \E v : WriteEffect(r, v)
<1> DEFINE c == target[r].condition
           n == target[r].version + 1
           v == [condition |-> c, thesis |-> request[r].thesis, version |-> n,
                 by |-> request[r].session]
<1>1. /\ target[r] \in Target /\ target[r] # NoTarget
      /\ c \in Conditions /\ target[r].version \in Nat \ {0}
      /\ SnapshotsOf(r, c) # {}
  BY DEF UpdateCondition, RecordsAreOrderly, TypeOK, ToolsFit, Target
<1>2. CurrentRow(r, c).version = target[r].version
  BY DEF MatchVersion
<1>3. HasLatest(SnapshotsOf(r, c))
  BY <1>1 DEF RecordsAreOrderly, VersionsAreSerial
<1>4. \A u \in SnapshotsOf(r, c) : u.version <= target[r].version
  BY <1>1, <1>2, <1>3, CurrentRowIsLatest
<1>5. \A u \in SnapshotsOf(r, c) : u.version \in Nat
  BY DEF RecordsAreOrderly, TypeOK, Version, SnapshotsOf, VisibleVersions
<1>6. \A u \in SnapshotsOf(r, c) : u.version < n
  BY <1>1, <1>4, <1>5
<1>7. v \in Version
  BY <1>1, TurnsHaveRequests DEF Version, UpdateCondition, TurnLabels
<1>8. WriteEffect(r, v)
  BY <1>1, <1>6, <1>7 DEF UpdateCondition, Write, Goto, WriteEffect, control,
     RecordsAreOrderly, TypeOK
<1> QED
  BY <1>8

\* The tools that create, read and update conditions keep the records.
LEMMA ToolsKeepRecords ==
    ASSUME SessionsAreOrderly, RecordsAreOrderly, NEW r \in Workers, OthersStand(r),
           \/ \E c \in Conditions : CreateCondition(r, c) \/ ReadCondition(r, c)
           \/ UpdateCondition(r)
    PROVE  RecordsAreOrderly'
<1>1. CASE \E c \in Conditions : CreateCondition(r, c)
  BY <1>1, CreateWrites, WriteKeepsRecords
<1>2. CASE UpdateCondition(r) /\ MatchVersion(CurrentRow(r, target[r].condition), target[r].version)
  BY <1>2, UpdateWrites, WriteKeepsRecords
<1>3. ASSUME NEW c \in Conditions, ReadCondition(r, c)
      PROVE  RecordsAreOrderly'
  <2>1. CurrentRow(r, c) \in SnapshotsOf(r, c)
    BY <1>3, CurrentRowIsLatest DEF ReadCondition, RecordsAreOrderly, VersionsAreSerial
  <2>2. CurrentRow(r, c).version \in Nat \ {0}
    BY <2>1 DEF SnapshotsOf, VisibleVersions, RecordsAreOrderly, TypeOK, Version
  <2>3. /\ target' \in [Workers -> Target \cup {NoTarget}]
        /\ target'[r] # NoTarget /\ target'[r].condition = c
    BY <1>3, <2>2 DEF ReadCondition, RecordsAreOrderly, TypeOK, Target, NoTarget
  <2>4. /\ UNCHANGED <<database, request, pending, rounds, calls, drafts>>
        /\ pc' = [pc EXCEPT ![r] = "update_condition"] /\ pc'[r] = "update_condition"
        /\ pc[r] = "execute" /\ SnapshotsOf(r, c) # {}
    BY <1>3 DEF ReadCondition, Goto, RecordsAreOrderly, TypeOK
  <2>5. UNCHANGED <<versions, messages, draftSession, draftMessages, draftVersions, draftWrites>>
    BY <2>4 DEF database, drafts
  <2>6. TypeOK'
    BY <2>3, <2>4 DEF RecordsAreOrderly, TypeOK, database, drafts, Labels
  <2>7. SnapshotsOf(r, target[r].condition)' # {}
    BY <2>3, <2>4, <2>5 DEF SnapshotsOf, VisibleVersions
  <2>8. RoundFits(r)' /\ ToolFits(r)'
    BY <2>3, <2>4, <2>5, <2>7 DEF RoundFits, ToolFits, RecordsAreOrderly, ToolsFit
  <2>9. IdsAreFresh'
    BY <2>4, <2>5, IdsStand
  <2> QED
    BY <2>4, <2>5, <2>6, <2>8, <2>9, QuietKeepsRecords
<1>4. CASE /\ UpdateCondition(r)
           /\ ~MatchVersion(CurrentRow(r, target[r].condition), target[r].version)
  <2>1. /\ UNCHANGED <<database, control, drafts>>
        /\ pc' = [pc EXCEPT ![r] = "next_call"] /\ pc'[r] = "next_call"
    BY <1>4 DEF UpdateCondition, Goto, drafts, RecordsAreOrderly, TypeOK
  <2>2. TypeOK'
    BY <2>1 DEF RecordsAreOrderly, TypeOK, database, control, drafts, Labels
  <2>3. RoundFits(r)' /\ ToolFits(r)'
    BY <2>1 DEF RoundFits, ToolFits
  <2>4. IdsAreFresh'
    BY <2>1, IdsStand DEF database, drafts
  <2> QED
    BY <2>1, <2>2, <2>3, <2>4, QuietKeepsRecords DEF control, drafts
<1> QED
  BY <1>1, <1>2, <1>3, <1>4
\* The record of a write names the tool call that asked for it, and no other
\* record names it.
LEMMA RecordWriteKeepsRecords ==
    ASSUME SessionsAreOrderly, RecordsAreOrderly, NEW r \in Workers, OthersStand(r),
           RecordWrite(r)
    PROVE  RecordsAreOrderly'
<1> DEFINE s == request[r].session
           w == [session |-> s, message |-> MessageOf(r), thesis |-> request[r].thesis,
                 condition |-> target[r].condition, action |-> target[r].action]
<1>1. /\ pc[r] = "record_write" /\ pc'[r] = "next_call"
      /\ UNCHANGED <<database, control, draftSession, draftMessages, draftVersions>>
      /\ pc' = [pc EXCEPT ![r] = "next_call"]
      /\ \/ draftWrites' = draftWrites
         \/ draftWrites' = [draftWrites EXCEPT ![r] = @ \cup {w}]
  BY DEF RecordWrite, Goto, RecordsAreOrderly, TypeOK
<1>2. UNCHANGED <<session, messages, versions, writes, request, pending, rounds, calls, target>>
  BY <1>1 DEF database, control
<1>3. /\ pending[r] \in draftMessages[r] /\ pending[r].role = "tool"
      /\ \A x \in draftWrites[r] : x.message # pending[r].id
      /\ target[r] \in Target /\ HasDrafted(r, target[r].condition)
  BY <1>1 DEF RecordsAreOrderly, ToolsFit, TypeOK
<1>4. s \in Sessions /\ request[r].thesis \in Theses
  BY <1>1, TurnsHaveRequests DEF TurnLabels
<1>5. w \in ConditionWrite
  <2>1. pending[r].id \in Nat \ {0}
    BY <1>3 DEF RecordsAreOrderly, TypeOK, Message
  <2> QED
    BY <1>3, <1>4, <2>1 DEF ConditionWrite, Target, MessageOf
<1>6. /\ w.message = pending[r].id /\ w.thesis = request[r].thesis
      /\ w.condition = target[r].condition
  BY DEF MessageOf
<1> HIDE DEF w, s
<1>7. /\ draftWrites'[r] = draftWrites[r] \/ draftWrites'[r] = draftWrites[r] \cup {w}
      /\ \A q \in Workers \ {r} : draftWrites'[q] = draftWrites[q]
  BY <1>1 DEF RecordsAreOrderly, TypeOK
<1>8. TypeOK'
  BY <1>1, <1>2, <1>5 DEF RecordsAreOrderly, TypeOK, Labels
<1>9. RoundFits(r)' /\ ToolFits(r)'
  BY <1>1 DEF RoundFits, ToolFits
<1>10. ToolsFit' /\ RoundsFit'
  BY <1>2, <1>9, ToolsStand, RoundsStand
<1>11. RecordsAreFinite'
  <2>1. IsFiniteSet(draftWrites[r] \cup {w})
    BY FS_AddElement DEF RecordsAreOrderly, RecordsAreFinite
  <2> QED
    BY <1>1, <1>2, <1>7, <2>1 DEF RecordsAreOrderly, RecordsAreFinite
<1>12. IdsAreFresh'
  BY <1>1, <1>2, IdsStand
<1>13. VersionsAreSerial' /\ NoLostUpdate'
  BY <1>1, <1>2, VersionsStand
<1>14. DraftWritesAreExplained'
  <2>1. \A q \in Workers : \A c : HasDrafted(q, c)' <=> HasDrafted(q, c)
    BY <1>1, <1>2 DEF HasDrafted
  <2>2. \A q \in Workers : \A v \in draftVersions[q] : v.by = request[q].session
    BY DEF RecordsAreOrderly, DraftWritesAreExplained
  <2>3. ASSUME NEW q \in Workers, NEW x \in draftWrites'[q]
        PROVE  /\ x.thesis = request[q].thesis
               /\ \E m \in draftMessages[q] : m.id = x.message /\ m.role = "tool"
               /\ HasDrafted(q, x.condition)
               /\ \A y \in draftWrites'[q] : y.message = x.message => y = x
    <3>1. CASE x \in draftWrites[q]
      BY <3>1, <1>3, <1>6, <1>7 DEF RecordsAreOrderly, DraftWritesAreExplained
    <3>2. CASE x \notin draftWrites[q]
      <4>1. q = r /\ x = w
        BY <2>3, <3>2, <1>7
      <4> QED
        BY <4>1, <1>3, <1>6, <1>7
    <3> QED
      BY <3>1, <3>2
  <2> QED
    BY <2>1, <2>2, <2>3, <1>1, <1>2 DEF DraftWritesAreExplained, HasDrafted
<1>15. WritesHaveSessions' /\ WritesAreExplained'
  BY <1>2 DEF RecordsAreOrderly, WritesHaveSessions, WritesAreExplained
<1> QED
  BY <1>8, <1>10, <1>11, <1>12, <1>13, <1>14, <1>15 DEF RecordsAreOrderly

\* A commit makes the drafts of a request the latest versions, adds messages and
\* records with new identities, and leaves nothing behind.
LEMMA CommitKeepsRecords ==
    ASSUME SessionsAreOrderly, SessionsAreOrderly', RecordsAreOrderly,
           NEW r \in Workers, OthersStand(r), Commit(r)
    PROVE  RecordsAreOrderly'
<1>1. /\ messages' = messages \cup draftMessages[r]
      /\ versions' = versions \cup draftVersions[r]
      /\ writes' = writes \cup draftWrites[r]
      /\ pc'[r] = "idle" /\ rounds'[r] = 0
      /\ draftMessages'[r] = {} /\ draftVersions'[r] = {} /\ draftWrites'[r] = {}
  BY DEF Commit, EndRequest, RecordsAreOrderly, TypeOK
<1>2. \A q \in Workers \ {r} :
        UNCHANGED <<pc[q], request[q], pending[q], draftMessages[q], draftVersions[q],
                    draftWrites[q]>>
  BY DEF OthersStand, Local
<1>3. TypeOK'
  <2>1. session' \in [Sessions -> SessionRow \cup {NoSession}]
    BY DEF SessionsAreOrderly, Shape
  <2>2. /\ messages' \subseteq Message /\ versions' \subseteq Version
        /\ writes' \subseteq ConditionWrite
    BY <1>1 DEF RecordsAreOrderly, TypeOK
  <2> QED
    BY <2>1, <2>2, RoundsArePositive, SizesAreNatural
       DEF Commit, EndRequest, RecordsAreOrderly, TypeOK, Labels
<1>4. RoundFits(r)' /\ ToolFits(r)'
  BY <1>1 DEF RoundFits, ToolFits
<1>5. ToolsFit' /\ RoundsFit'
  BY <1>1, <1>4, ToolsStand, RoundsStand
<1>6. RecordsAreFinite'
  <2>1. IsFiniteSet(messages') /\ IsFiniteSet(versions') /\ IsFiniteSet(writes')
    BY <1>1, FS_Union DEF RecordsAreOrderly, RecordsAreFinite
  <2>2. \A q \in Workers : /\ IsFiniteSet(draftMessages'[q]) /\ IsFiniteSet(draftVersions'[q])
                           /\ IsFiniteSet(draftWrites'[q])
    BY <1>1, <1>2, FS_EmptySet DEF RecordsAreOrderly, RecordsAreFinite
  <2> QED
    BY <2>1, <2>2 DEF RecordsAreFinite
<1>7. IdsAreFresh'
  <2>1. \A q \in Workers : Appending(q)' => q # r /\ Appending(q)
    BY <1>1, <1>2 DEF Appending
  <2>2. \A q \in Workers : draftMessages'[q] \subseteq draftMessages[q]
    BY <1>1, <1>2
  <2>3. messages' \cup UNION {draftMessages'[q] : q \in Workers}
          \subseteq messages \cup UNION {draftMessages[q] : q \in Workers}
    BY <1>1, <2>2
  <2>4. ASSUME NEW q \in Workers, NEW m \in draftMessages'[q], NEW n \in messages',
               m.session = n.session
        PROVE  m.id # n.id
    <3>1. q # r /\ m \in draftMessages[q]
      BY <1>1, <1>2, <2>4
    <3>2. CASE n \in messages
      BY <2>4, <3>1, <3>2 DEF RecordsAreOrderly, IdsAreFresh
    <3>3. CASE n \in draftMessages[r]
      <4>1. request[q].session # request[r].session
        BY <3>1, <3>3 DEF SessionsAreOrderly, LocksExclude, Holds
      <4> QED
        BY <2>4, <3>1, <3>3, <4>1 DEF SessionsAreOrderly, DraftsFit
    <3> QED
      BY <1>1, <3>2, <3>3
  <2>5. \A q \in Workers \ {r} : pending'[q] = pending[q]
    BY <1>2
  <2> QED
    BY <2>1, <2>3, <2>4, <2>5 DEF RecordsAreOrderly, IdsAreFresh
<1>8. NoLostUpdate'
  <2>1. \A u \in versions', v \in versions' :
          u.version \in Nat /\ v.version \in Nat
    BY <1>3 DEF TypeOK, Version
  <2> QED
    BY <1>1, <2>1 DEF RecordsAreOrderly, NoLostUpdate, VersionsAreSerial
<1>9. VersionsAreSerial'
  <2>1. \A q \in Workers : /\ draftVersions'[q] \subseteq draftVersions[q]
                           /\ q # r => draftVersions'[q] = draftVersions[q]
    BY <1>1, <1>2
  <2>2. \A q, p \in Workers : q # p =>
          \A u \in draftVersions'[q], v \in draftVersions'[p] : u.condition # v.condition
    BY <2>1 DEF RecordsAreOrderly, VersionsAreSerial
  <2>3. \A q \in Workers :
          \A u \in versions', v \in draftVersions'[q] :
                u.condition = v.condition => u.version < v.version
    BY <1>1, <2>1 DEF RecordsAreOrderly, VersionsAreSerial
  <2>4. \A q \in Workers : \A u, v \in draftVersions'[q] :
                u.condition = v.condition /\ u.version = v.version => u = v
    BY <2>1 DEF RecordsAreOrderly, VersionsAreSerial
  <2>5. \A c \in Conditions : HasLatest(Of(versions', c))
    <3>1. \A c : Of(versions', c) = SnapshotsOf(r, c)
      BY <1>1 DEF Of, SnapshotsOf, VisibleVersions
    <3> QED
      BY <3>1 DEF RecordsAreOrderly, VersionsAreSerial
  <2>6. ASSUME NEW q \in Workers, NEW c \in Conditions
        PROVE  HasLatest(SnapshotsOf(q, c)')
    <3>1. CASE \E v \in draftVersions[r] : v.condition = c
      <4>1. q # r => \A v \in draftVersions[q] : v.condition # c
        BY <3>1 DEF RecordsAreOrderly, VersionsAreSerial
      <4>2. \A v \in draftVersions'[q] : v.condition # c
        BY <1>1, <2>1, <4>1
      <4>3. SnapshotsOf(q, c)' = Of(versions', c)
        BY <4>2 DEF SnapshotsOf, VisibleVersions, Of
      <4> QED
        BY <2>5, <4>3
    <3>2. CASE ~ \E v \in draftVersions[r] : v.condition = c
      <4>1. SnapshotsOf(q, c)' = SnapshotsOf(q, c)
        BY <1>1, <2>1, <3>2 DEF SnapshotsOf, VisibleVersions
      <4> QED
        BY <4>1 DEF RecordsAreOrderly, VersionsAreSerial
    <3> QED
      BY <3>1, <3>2
  <2>7. \A q \in Workers, c \in Conditions : HasLatest(SnapshotsOf(q, c))'
    BY <2>6 DEF HasLatest
  <2>8. \A c \in Conditions : HasLatest(Of(versions, c))'
    BY <2>5 DEF HasLatest, Of
  <2> QED
    BY <2>2, <2>3, <2>4, <2>7, <2>8 DEF VersionsAreSerial
<1>10. DraftWritesAreExplained'
  BY <1>1, <1>2 DEF RecordsAreOrderly, DraftWritesAreExplained, HasDrafted
<1>11. \A s \in Sessions : session[s] # NoSession =>
         session'[s] # NoSession /\ session'[s].thesis = session[s].thesis
  <2>1. CASE draftSession[r] = NoSession
    BY <2>1 DEF Commit
  <2>2. CASE draftSession[r] # NoSession
    <3> DEFINE s == request[r].session
    <3>1. /\ request[r].kind \in {"create", "close"}
          /\ draftSession[r].thesis = request[r].thesis
      <4>1. DraftsFit
        BY DEF SessionsAreOrderly
      <4>2. draftSession[r] = [thesis |-> request[r].thesis,
                               status |-> IF request[r].kind = "create" THEN "open" ELSE "closed"]
        BY <2>2, <4>1 DEF DraftsFit
      <4>3. request[r].kind \in {"create", "close"}
        BY <2>2, <4>1 DEF DraftsFit
      <4> QED
        BY <4>2, <4>3
    <3>2. session[s] # NoSession => session[s].thesis = request[r].thesis
      BY <3>1 DEF SessionsAreOrderly, SessionsFit
    <3>3. session' = [session EXCEPT ![s] = draftSession[r]]
      BY <2>2 DEF Commit
    <3> QED
      BY <2>2, <3>1, <3>2, <3>3 DEF RecordsAreOrderly, TypeOK
  <2> QED
    BY <2>1, <2>2
<1>12. ASSUME NEW w \in draftWrites[r]
       PROVE  /\ w.session = request[r].session /\ w.session \in Sessions
              /\ session[w.session] # NoSession /\ session[w.session].thesis = w.thesis
              /\ \E m \in draftMessages[r] :
                    m.id = w.message /\ m.session = w.session /\ m.role = "tool"
              /\ \E v \in draftVersions[r] : /\ v.condition = w.condition
                                             /\ v.thesis = w.thesis /\ v.by = w.session
              /\ \A x \in draftWrites[r] : x.message = w.message => x = w
  <2>1. w.session = request[r].session /\ w.session \in Sessions
    BY DEF SessionsAreOrderly, DraftsFit, RecordsAreOrderly, TypeOK, ConditionWrite
  <2>2. request[r].kind = "turn"
    BY DEF SessionsAreOrderly, DraftsFit
  <2>3. session[w.session] # NoSession /\ session[w.session].thesis = request[r].thesis
    BY <2>1, <2>2 DEF SessionsAreOrderly, SessionsFit
  <2>4. w.thesis = request[r].thesis /\ HasDrafted(r, w.condition)
        /\ \E m \in draftMessages[r] : m.id = w.message /\ m.role = "tool"
        /\ \A x \in draftWrites[r] : x.message = w.message => x = w
    BY DEF RecordsAreOrderly, DraftWritesAreExplained
  <2>5. \A m \in draftMessages[r] : m.session = request[r].session
    BY DEF SessionsAreOrderly, DraftsFit
  <2> QED
    BY <2>1, <2>3, <2>4, <2>5 DEF HasDrafted
<1>13. \A w \in writes : w.session \in Sessions /\ session[w.session] # NoSession
  BY DEF RecordsAreOrderly, WritesHaveSessions, TypeOK, ConditionWrite
<1>14. WritesHaveSessions'
  BY <1>1, <1>11, <1>12, <1>13 DEF WritesHaveSessions
<1>15. WritesAreExplained'
  <2>1. ASSUME NEW w \in writes, NEW x \in draftWrites[r], w.session = x.session
        PROVE  w.message # x.message
    <3>1. PICK n \in messages : n.id = w.message /\ n.session = w.session
      BY DEF RecordsAreOrderly, WritesAreExplained
    <3>2. PICK m \in draftMessages[r] : m.id = x.message /\ m.session = x.session
      BY <1>12
    <3> QED
      BY <2>1, <3>1, <3>2 DEF RecordsAreOrderly, IdsAreFresh
  <2>2. ASSUME NEW w \in writes
        PROVE  /\ \E m \in messages' : m.id = w.message /\ m.session = w.session /\ m.role = "tool"
               /\ session'[w.session].thesis = w.thesis
               /\ \E v \in versions' : /\ v.condition = w.condition /\ v.thesis = w.thesis
                                       /\ v.by = w.session
               /\ \A x \in writes' : x.session = w.session /\ x.message = w.message => x = w
    BY <1>1, <1>11, <1>13, <2>1 DEF RecordsAreOrderly, WritesAreExplained
  <2>3. ASSUME NEW w \in draftWrites[r]
        PROVE  /\ \E m \in messages' : m.id = w.message /\ m.session = w.session /\ m.role = "tool"
               /\ session'[w.session].thesis = w.thesis
               /\ \E v \in versions' : /\ v.condition = w.condition /\ v.thesis = w.thesis
                                       /\ v.by = w.session
               /\ \A x \in writes' : x.session = w.session /\ x.message = w.message => x = w
    BY <1>1, <1>11, <1>12, <2>1
  <2> QED
    BY <1>1, <2>2, <2>3 DEF WritesAreExplained
<1> QED
  BY <1>3, <1>5, <1>6, <1>7, <1>8, <1>9, <1>10, <1>14, <1>15 DEF RecordsAreOrderly

\* What an owner does to the conditions: one more version of one that no turn
\* has drafted, later than all there are.
ClientEffect(v) ==
    /\ versions' = versions \cup {v} /\ v \in Version /\ v.by = Client
    /\ \A u \in versions : u.condition = v.condition => u.version < v.version
    /\ \A q \in Workers : \A u \in draftVersions[q] : u.condition # v.condition
    /\ UNCHANGED <<session, messages, writes, pc, control, drafts>>

\* A version that an owner writes follows all there are of its condition, and
\* no turn has one drafted.
LEMMA ClientsKeepRecords ==
    ASSUME RecordsAreOrderly, NEW v, ClientEffect(v)
    PROVE  RecordsAreOrderly'
<1>1. /\ versions' = versions \cup {v}
      /\ UNCHANGED <<session, messages, writes, pc, request, pending, rounds, calls, target,
                     draftSession, draftMessages, draftVersions, draftWrites>>
  BY DEF ClientEffect, control, drafts
<1>2. TypeOK' /\ RoundsFit' /\ IdsAreFresh'
  BY <1>1 DEF ClientEffect, RecordsAreOrderly, TypeOK, RoundsFit, IdsAreFresh, Appending
<1>3. RecordsAreFinite'
  <2>1. IsFiniteSet(versions \cup {v})
    BY FS_AddElement DEF RecordsAreOrderly, RecordsAreFinite
  <2> QED
    BY <1>1, <2>1 DEF RecordsAreOrderly, RecordsAreFinite
<1>4. \A u \in versions' : u.version \in Nat
  BY <1>2 DEF TypeOK, Version
<1>5. NoLostUpdate'
  BY <1>1, <1>4 DEF RecordsAreOrderly, NoLostUpdate, ClientEffect
<1>6. VersionsAreSerial'
  <2>1. \A q, p \in Workers : q # p =>
          \A u \in draftVersions'[q], x \in draftVersions'[p] : u.condition # x.condition
    BY <1>1 DEF RecordsAreOrderly, VersionsAreSerial
  <2>2. \A q \in Workers :
          /\ \A u \in versions', x \in draftVersions'[q] :
                u.condition = x.condition => u.version < x.version
          /\ \A u, x \in draftVersions'[q] :
                u.condition = x.condition /\ u.version = x.version => u = x
    BY <1>1 DEF RecordsAreOrderly, VersionsAreSerial, ClientEffect
  <2>3. ASSUME NEW S, NEW c \in Conditions, S \in {SnapshotsOf(q, c) : q \in Workers}
                                                    \cup {Of(versions, c)},
               HasLatest(S)
        PROVE  HasLatest(IF c = v.condition THEN S \cup {v} ELSE S)
    <3>1. \A u \in S : u.version \in Nat
      BY <1>2, <2>3 DEF SnapshotsOf, VisibleVersions, Of, RecordsAreOrderly, TypeOK, Version
    <3>2. c = v.condition => \A u \in S : u.version < v.version
      BY <2>3 DEF SnapshotsOf, VisibleVersions, Of, ClientEffect
    <3> QED
      BY <1>1, <1>4, <2>3, <3>1, <3>2, NextIsLatest
  <2>4. ASSUME NEW q \in Workers, NEW c \in Conditions
        PROVE  HasLatest(SnapshotsOf(q, c)')
    <3>1. SnapshotsOf(q, c)' = IF c = v.condition THEN SnapshotsOf(q, c) \cup {v}
                               ELSE SnapshotsOf(q, c)
      BY <1>1 DEF SnapshotsOf, VisibleVersions
    <3>2. HasLatest(SnapshotsOf(q, c))
      BY DEF RecordsAreOrderly, VersionsAreSerial
    <3> QED
      BY <2>3, <3>1, <3>2
  <2>5. ASSUME NEW c \in Conditions
        PROVE  HasLatest(Of(versions', c))
    <3>1. Of(versions', c) = IF c = v.condition THEN Of(versions, c) \cup {v}
                             ELSE Of(versions, c)
      BY <1>1 DEF Of
    <3>2. HasLatest(Of(versions, c))
      BY DEF RecordsAreOrderly, VersionsAreSerial
    <3> QED
      BY <2>3, <3>1, <3>2
  <2>6. \A q \in Workers, c \in Conditions : HasLatest(SnapshotsOf(q, c))'
    BY <2>4 DEF HasLatest
  <2>7. \A c \in Conditions : HasLatest(Of(versions, c))'
    BY <2>5 DEF HasLatest, Of
  <2> QED
    BY <2>1, <2>2, <2>6, <2>7 DEF VersionsAreSerial
<1>7. ToolsFit'
  <2>1. \A q, c : SnapshotsOf(q, c) \subseteq {u \in versions' \cup draftVersions[q] : u.condition = c}
    BY <1>1 DEF SnapshotsOf, VisibleVersions
  <2> QED
    BY <1>1, <2>1 DEF RecordsAreOrderly, ToolsFit, HasDrafted, SnapshotsOf, VisibleVersions
<1>8. DraftWritesAreExplained' /\ WritesHaveSessions'
  BY <1>1 DEF RecordsAreOrderly, DraftWritesAreExplained, HasDrafted, WritesHaveSessions
<1>9. WritesAreExplained'
  BY <1>1 DEF RecordsAreOrderly, WritesAreExplained
<1> QED
  BY <1>2, <1>3, <1>5, <1>6, <1>7, <1>8, <1>9 DEF RecordsAreOrderly

\* What owners do is to append a version.
LEMMA ClientsAppend ==
    ASSUME RecordsAreOrderly,
           \/ \E c \in Conditions, t \in Theses : ClientCreates(c, t)
           \/ \E v \in versions : ClientUpdates(v)
    PROVE  \E v : ClientEffect(v)
<1>1. ASSUME NEW c \in Conditions, NEW t \in Theses, ClientCreates(c, t)
      PROVE  \E v : ClientEffect(v)
  <2> DEFINE v == [condition |-> c, thesis |-> t, version |-> 1, by |-> Client]
  <2>1. v \in Version
    BY DEF Version
  <2>2. ClientEffect(v)
    BY <1>1, <2>1 DEF ClientCreates, ClientVersion, Unused, ClientEffect
  <2> QED
    BY <2>2
<1>2. ASSUME NEW u \in versions, ClientUpdates(u)
      PROVE  \E v : ClientEffect(v)
  <2> DEFINE v == [condition |-> u.condition, thesis |-> u.thesis, version |-> u.version + 1,
                   by |-> Client]
  <2>1. \A x \in versions : x.version \in Nat
    BY DEF RecordsAreOrderly, TypeOK, Version
  <2>2. v \in Version
    BY DEF RecordsAreOrderly, TypeOK, Version
  <2>3. \A x \in versions : x.condition = u.condition => x.version < u.version + 1
    BY <1>2, <2>1 DEF ClientUpdates
  <2>4. ClientEffect(v)
    BY <1>2, <2>2, <2>3 DEF ClientUpdates, ClientVersion, ClientEffect
  <2> QED
    BY <2>4
<1> QED
  BY <1>1, <1>2

\* Before the first request there is nothing to record.
LEMMA InitKeepsRecords == Init => RecordsAreOrderly
<1> SUFFICES ASSUME Init PROVE RecordsAreOrderly
  OBVIOUS
<1>1. TypeOK
  BY RoundsArePositive, SizesAreNatural DEF Init, TypeOK, Labels
<1>2. RecordsAreFinite
  BY FS_EmptySet DEF Init, RecordsAreFinite
<1>3. RoundsFit /\ IdsAreFresh /\ ToolsFit
  BY DEF Init, RoundsFit, IdsAreFresh, Appending, ToolsFit
<1>4. VersionsAreSerial
  BY DEF Init, VersionsAreSerial, HasLatest, SnapshotsOf, VisibleVersions, Of
<1>5. NoLostUpdate /\ DraftWritesAreExplained /\ WritesHaveSessions /\ WritesAreExplained
  BY DEF Init, NoLostUpdate, DraftWritesAreExplained, WritesHaveSessions, WritesAreExplained
<1> QED
  BY <1>1, <1>2, <1>3, <1>4, <1>5 DEF RecordsAreOrderly

\* The second invariant is inductive, given the first.
LEMMA NextKeepsRecords ==
    ASSUME SessionsAreOrderly, SessionsAreOrderly', RecordsAreOrderly, [Next]_vars
    PROVE  RecordsAreOrderly'
<1>1. ASSUME NEW r \in Workers, Begin(r) \/ Work(r) \/ Rollback(r)
      PROVE  RecordsAreOrderly'
  <2>1. OthersStand(r)
    BY <1>1, OthersAreUntouched DEF RecordsAreOrderly
  <2>2. CASE Begin(r)
    BY <2>1, <2>2, SessionStepsKeepRecords, MessagesKeepRecords DEF Begin
  <2>3. CASE Contended(r)
    BY <2>1, <2>3, SessionStepsKeepRecords, AppendKeepsRecords, ToolsKeepRecords DEF Contended
  <2>4. CASE Work(r) /\ ~Contended(r)
    BY <2>1, <2>4, TurnStepsKeepRecords, MessagesKeepRecords, ToolsKeepRecords,
       RecordWriteKeepsRecords, CommitKeepsRecords DEF Work
  <2>5. CASE Rollback(r)
    BY <2>1, <2>5, FailKeepsRecords DEF Rollback
  <2> QED
    BY <1>1, <2>2, <2>3, <2>4, <2>5
<1>2. CASE \/ \E c \in Conditions, t \in Theses : ClientCreates(c, t)
           \/ \E v \in versions : ClientUpdates(v)
  BY <1>2, ClientsAppend, ClientsKeepRecords
<1>3. CASE UNCHANGED vars
  <2>1. UNCHANGED <<session, messages, versions, writes, pc, request, pending, rounds, calls,
                    target, draftSession, draftMessages, draftVersions, draftWrites>>
    BY <1>3 DEF vars, database, control, drafts
  <2>2. TypeOK' /\ RoundsFit' /\ RecordsAreFinite' /\ IdsAreFresh'
    BY <2>1 DEF RecordsAreOrderly, TypeOK, RoundsFit, RecordsAreFinite, IdsAreFresh, Appending
  <2>3. VersionsAreSerial' /\ NoLostUpdate' /\ ToolsFit'
    BY <2>1 DEF RecordsAreOrderly, VersionsAreSerial, NoLostUpdate, ToolsFit, HasDrafted,
       HasLatest, SnapshotsOf, VisibleVersions, Of
  <2>4. DraftWritesAreExplained' /\ WritesHaveSessions' /\ WritesAreExplained'
    BY <2>1 DEF RecordsAreOrderly, DraftWritesAreExplained, HasDrafted, WritesHaveSessions,
       WritesAreExplained
  <2> QED
    BY <2>2, <2>3, <2>4 DEF RecordsAreOrderly
<1> QED
  BY <1>1, <1>2, <1>3 DEF Next, Begin

\* The second invariant holds in every state.
LEMMA RecordsStayOrderly == Spec => []RecordsAreOrderly
  BY InitKeepsRecords, NextKeepsRecords, SessionsStayOrderly, PTL DEF Spec

\* Every variable keeps its type: a turn calls the model MaxRounds times at
\* most, and message identities are always at hand.
THEOREM AgentTypes == Spec => []TypeOK
<1>1. RecordsAreOrderly => TypeOK
  BY DEF RecordsAreOrderly
<1> QED
  BY <1>1, RecordsStayOrderly, PTL

\* No version of a condition is written twice, by turns of the agent and owners
\* together (WHERE version = expected_version, and the lock until the commit).
THEOREM UpdatesAreSerial == Spec => []NoLostUpdate
<1>1. RecordsAreOrderly => NoLostUpdate
  BY DEF RecordsAreOrderly
<1> QED
  BY <1>1, RecordsStayOrderly, PTL

\* A recorded write leads to its tool call, its thesis and its version, and no
\* tool call has two.
THEOREM WritesHaveReasons == Spec => []WritesAreExplained
<1>1. RecordsAreOrderly => WritesAreExplained
  BY DEF RecordsAreOrderly
<1> QED
  BY <1>1, RecordsStayOrderly, PTL
-----------------------------------------------------------------------------
(* Audits *)

AuditFits(q) ==
    request[q].kind = "turn"
    /\ Cardinality(VisibleMessages(q, request[q].session)) <= WriteWindow =>
        \A c \in Conditions :
            Cardinality(Of(draftVersions[q], c)) =
                Cardinality(Of(draftWrites[q], c)) +
                    IF pc[q] = "record_write" /\ target[q].condition = c THEN 1 ELSE 0

\* A window that holds all messages of a request held all earlier ones.
LEMMA WindowsFill ==
    ASSUME RecordsAreOrderly, RecordsAreOrderly', NEW q \in Workers, NEW s,
           messages \cup draftMessages[q] \subseteq messages' \cup draftMessages'[q],
           Cardinality(VisibleMessages(q, s)') <= WriteWindow
    PROVE  Cardinality(VisibleMessages(q, s)) <= WriteWindow
<1>1. IsFiniteSet(messages' \cup draftMessages'[q])
  BY FS_Union DEF RecordsAreOrderly, RecordsAreFinite
<1>2. IsFiniteSet(VisibleMessages(q, s)')
  BY <1>1, FS_Subset DEF VisibleMessages
<1>3. VisibleMessages(q, s) \subseteq VisibleMessages(q, s)'
  BY DEF VisibleMessages
<1>4. /\ IsFiniteSet(VisibleMessages(q, s))
      /\ Cardinality(VisibleMessages(q, s)) <= Cardinality(VisibleMessages(q, s)')
  BY <1>2, <1>3, FS_Subset
<1>5. Cardinality(VisibleMessages(q, s)) \in Nat /\ Cardinality(VisibleMessages(q, s)') \in Nat
  BY <1>2, <1>4, FS_CardinalityType
<1> QED
  BY <1>4, <1>5, SizesAreNatural

\* The drafts of other requests stay audited.
LEMMA AuditsOfOthersStand ==
    ASSUME RecordsAreOrderly, RecordsAreOrderly', DraftsAreAudited,
           NEW r \in Workers, OthersStand(r), messages \subseteq messages',
           NEW q \in Workers \ {r}
    PROVE  AuditFits(q)'
<1>1. UNCHANGED <<pc[q], request[q], target[q], draftMessages[q], draftVersions[q], draftWrites[q]>>
  BY DEF OthersStand, Local
<1>2. AuditFits(q)
  BY DEF DraftsAreAudited, AuditFits
<1>3. ASSUME Cardinality(VisibleMessages(q, request[q].session)') <= WriteWindow
      PROVE  Cardinality(VisibleMessages(q, request[q].session)) <= WriteWindow
  BY <1>1, <1>3, WindowsFill
<1> QED
  BY <1>1, <1>2, <1>3 DEF AuditFits, Of, VisibleMessages
\* So do those of a request that drafts neither a version nor a record.
LEMMA QuietAudit ==
    ASSUME RecordsAreOrderly, RecordsAreOrderly', DraftsAreAudited, NEW r \in Workers,
           UNCHANGED <<request[r], draftVersions[r], draftWrites[r], messages>>,
           draftMessages[r] \subseteq draftMessages'[r],
           pc[r] # "record_write", pc'[r] # "record_write"
    PROVE  AuditFits(r)'
<1>1. AuditFits(r)
  BY DEF DraftsAreAudited, AuditFits
<1>2. ASSUME Cardinality(VisibleMessages(r, request[r].session)') <= WriteWindow
      PROVE  Cardinality(VisibleMessages(r, request[r].session)) <= WriteWindow
  BY <1>2, WindowsFill
<1> QED
  BY <1>1, <1>2 DEF AuditFits, Of

\* A request without drafts has nothing to audit.
LEMMA EmptyAudit ==
    ASSUME NEW r \in Workers, draftVersions'[r] = {}, draftWrites'[r] = {},
           pc'[r] # "record_write"
    PROVE  AuditFits(r)'
<1>1. \A c : Of(draftVersions[r], c)' = {} /\ Of(draftWrites[r], c)' = {}
  BY DEF Of
<1>2. \A c : Cardinality(Of(draftVersions[r], c))' = 0 /\ Cardinality(Of(draftWrites[r], c))' = 0
  BY <1>1, FS_EmptySet
<1> QED
  BY <1>2 DEF AuditFits

\* A version is drafted and its record is due.
LEMMA WriteAudit ==
    ASSUME RecordsAreOrderly, RecordsAreOrderly', DraftsAreAudited, NEW r \in Workers,
           NEW v, WriteEffect(r, v)
    PROVE  AuditFits(r)'
<1>1. /\ pc[r] # "record_write" /\ pc'[r] = "record_write"
      /\ UNCHANGED <<request, draftMessages, draftWrites, messages>>
      /\ draftVersions'[r] = draftVersions[r] \cup {v}
      /\ target'[r].condition = v.condition
  BY DEF WriteEffect, RecordsAreOrderly, TypeOK, database
<1>2. v \notin draftVersions[r]
  <2>1. v.version \in Nat
    BY DEF WriteEffect, Version
  <2> QED
    BY <2>1 DEF WriteEffect, SnapshotsOf, VisibleVersions
<1>3. ASSUME NEW c \in Conditions
      PROVE  Cardinality(Of(draftVersions'[r], c)) =
                Cardinality(Of(draftVersions[r], c)) + IF v.condition = c THEN 1 ELSE 0
  <2>1. IsFiniteSet(Of(draftVersions[r], c))
    BY FS_Subset DEF Of, RecordsAreOrderly, RecordsAreFinite
  <2>2. Cardinality(Of(draftVersions[r], c)) \in Nat
    BY <2>1, FS_CardinalityType
  <2>3. CASE v.condition = c
    <3>1. Of(draftVersions'[r], c) = Of(draftVersions[r], c) \cup {v} /\ v \notin Of(draftVersions[r], c)
      BY <1>1, <1>2, <2>3 DEF Of
    <3> QED
      BY <2>1, <2>3, <3>1, FS_AddElement
  <2>4. CASE v.condition # c
    <3>1. Of(draftVersions'[r], c) = Of(draftVersions[r], c)
      BY <1>1, <2>4 DEF Of
    <3> QED
      BY <2>2, <2>4, <3>1
  <2> QED
    BY <2>3, <2>4
<1>4. AuditFits(r)
  BY DEF DraftsAreAudited, AuditFits
<1>5. \A c \in Conditions : Cardinality(Of(draftWrites[r], c)) \in Nat
  <2>1. \A c : IsFiniteSet(Of(draftWrites[r], c))
    BY FS_Subset DEF Of, RecordsAreOrderly, RecordsAreFinite
  <2> QED
    BY <2>1, FS_CardinalityType
<1>6. SUFFICES ASSUME request[r].kind = "turn",
                      Cardinality(VisibleMessages(r, request[r].session)) <= WriteWindow,
                      NEW c \in Conditions
               PROVE  Cardinality(Of(draftVersions'[r], c)) =
                        Cardinality(Of(draftWrites[r], c)) + IF v.condition = c THEN 1 ELSE 0
  BY <1>1 DEF AuditFits, VisibleMessages, Of
<1>7. Cardinality(Of(draftVersions[r], c)) = Cardinality(Of(draftWrites[r], c)) + 0
  BY <1>1, <1>4, <1>6 DEF AuditFits
<1> QED
  BY <1>3, <1>5, <1>7

\* The record that is due is drafted, if the window holds its tool call.
LEMMA RecordAudit ==
    ASSUME SessionsAreOrderly, RecordsAreOrderly, RecordsAreOrderly', DraftsAreAudited,
           NEW r \in Workers, RecordWrite(r)
    PROVE  AuditFits(r)'
<1> DEFINE s == request[r].session
           w == [session |-> s, message |-> MessageOf(r), thesis |-> request[r].thesis,
                 condition |-> target[r].condition, action |-> target[r].action]
<1>1. /\ pc[r] = "record_write" /\ pc'[r] = "next_call"
      /\ UNCHANGED <<request, draftMessages, draftVersions, messages>>
  BY DEF RecordWrite, Goto, RecordsAreOrderly, TypeOK, control, database
<1>2. Listed(r, s) => draftWrites'[r] = draftWrites[r] \cup {w}
  BY DEF RecordWrite, RecordsAreOrderly, TypeOK
<1>3. w \notin draftWrites[r] /\ w.condition = target[r].condition
  BY <1>1 DEF RecordsAreOrderly, ToolsFit, MessageOf
<1> HIDE DEF w
<1>4. AuditFits(r)
  BY DEF DraftsAreAudited, AuditFits
<1>5. SUFFICES ASSUME request[r].kind = "turn",
                      Cardinality(VisibleMessages(r, s)) <= WriteWindow,
                      NEW c \in Conditions
               PROVE  Cardinality(Of(draftVersions[r], c)) = Cardinality(Of(draftWrites'[r], c)) + 0
  BY <1>1 DEF AuditFits, VisibleMessages, Of
<1>6. draftWrites'[r] = draftWrites[r] \cup {w}
  BY <1>2, <1>5 DEF Listed
<1>7. Cardinality(Of(draftVersions[r], c)) =
         Cardinality(Of(draftWrites[r], c)) + IF target[r].condition = c THEN 1 ELSE 0
  BY <1>1, <1>4, <1>5 DEF AuditFits
<1>8. IsFiniteSet(Of(draftWrites[r], c))
  BY FS_Subset DEF Of, RecordsAreOrderly, RecordsAreFinite
<1>9. Cardinality(Of(draftWrites[r], c)) \in Nat
  BY <1>8, FS_CardinalityType
<1>10. CASE target[r].condition = c
  <2>1. Of(draftWrites'[r], c) = Of(draftWrites[r], c) \cup {w} /\ w \notin Of(draftWrites[r], c)
    BY <1>3, <1>6, <1>10 DEF Of
  <2>2. Cardinality(Of(draftWrites'[r], c)) = Cardinality(Of(draftWrites[r], c)) + 1
    BY <1>8, <2>1, FS_AddElement
  <2> QED
    BY <1>7, <1>9, <1>10, <2>2
<1>11. CASE target[r].condition # c
  <2>1. Of(draftWrites'[r], c) = Of(draftWrites[r], c)
    BY <1>3, <1>6, <1>11 DEF Of
  <2> QED
    BY <1>7, <1>9, <1>11, <2>1
<1> QED
  BY <1>10, <1>11

\* Whatever a request does, its drafts stay audited.
LEMMA StepsKeepAudits ==
    ASSUME SessionsAreOrderly, RecordsAreOrderly, RecordsAreOrderly', DraftsAreAudited,
           NEW r \in Workers, Begin(r) \/ Work(r) \/ Rollback(r)
    PROVE  AuditFits(r)'
<1> DEFINE Quiet == /\ UNCHANGED <<request[r], draftVersions[r], draftWrites[r], messages>>
                    /\ draftMessages[r] \subseteq draftMessages'[r]
                    /\ pc[r] # "record_write" /\ pc'[r] # "record_write"
           Empty == /\ draftVersions'[r] = {} /\ draftWrites'[r] = {}
                    /\ pc'[r] # "record_write"
<1>1. Quiet \/ Empty => AuditFits(r)'
  BY QuietAudit, EmptyAudit
<1>2. CASE Fail(r) \/ Commit(r)
  BY <1>1, <1>2 DEF Fail, Commit, EndRequest, RecordsAreOrderly, TypeOK
<1>3. CASE Begin(r)
  <2>1. pc[r] = "idle" /\ UNCHANGED drafts /\ pc'[r] # "record_write"
    BY <1>3 DEF Begin, BeginTurn, BeginClose, BeginCreate, Goto, RecordsAreOrderly, TypeOK
  <2> QED
    BY <1>1, <2>1, IdleHasNoDrafts DEF drafts
<1>4. CASE (InsertSession(r) \/ CloseSession(r) \/ CheckSession(r)) /\ ~Fail(r)
  BY <1>1, <1>4 DEF InsertSession, CloseSession, CheckSession, Goto, RecordsAreOrderly, TypeOK,
     database, control, drafts
<1>5. CASE Append(r)
  <2>1. pc'[r] = AfterAppend(r) /\ AfterAppend(r) # "record_write"
    <3>1. pending[r].role \in Roles
      BY <1>5 DEF Append, SessionsAreOrderly, PendingFits
    <3> QED
      BY <1>5, <3>1 DEF Append, Goto, AfterAppend, Roles, RecordsAreOrderly, TypeOK
  <2> QED
    BY <1>1, <1>5, <2>1 DEF Append, RecordsAreOrderly, TypeOK, database, control
<1>6. CASE NextCall(r) \/ NextRound(r) \/ AnswerOnly(r) \/ \E n \in 0 .. MaxCalls : Complete(r, n)
  BY <1>1, <1>6 DEF NextCall, NextRound, AnswerOnly, Complete, Goto, RecordsAreOrderly, TypeOK,
     database, control, drafts
<1>7. CASE \E c \in Conditions : ReadCondition(r, c)
  BY <1>1, <1>7 DEF ReadCondition, Goto, RecordsAreOrderly, TypeOK, database, drafts
<1>8. CASE \E c \in Conditions : CreateCondition(r, c)
  BY <1>8, CreateWrites, WriteAudit
<1>9. CASE UpdateCondition(r) /\ MatchVersion(CurrentRow(r, target[r].condition), target[r].version)
  BY <1>9, UpdateWrites, WriteAudit
<1>10. CASE UpdateCondition(r) /\ ~MatchVersion(CurrentRow(r, target[r].condition), target[r].version)
  BY <1>1, <1>10 DEF UpdateCondition, Goto, RecordsAreOrderly, TypeOK, database, control
<1>11. CASE RecordWrite(r)
  BY <1>11, RecordAudit
<1> QED
  BY <1>2, <1>3, <1>4, <1>5, <1>6, <1>7, <1>8, <1>9, <1>10, <1>11
     DEF Work, Contended, Rollback, ModelFails
\* A commit audits the session of the request: its versions and its records are
\* new, and there are as many of each.
LEMMA CommitAudits ==
    ASSUME SessionsAreOrderly, RecordsAreOrderly, RecordsAreOrderly', AuditsAreOrderly,
           NEW r \in Workers, Commit(r)
    PROVE  ShortSessionsAreAudited'
<1>1. /\ messages' = messages \cup draftMessages[r]
      /\ versions' = versions \cup draftVersions[r]
      /\ writes' = writes \cup draftWrites[r]
      /\ pc[r] = "commit"
  BY DEF Commit
<1>2. SUFFICES ASSUME NEW s \in Sessions,
                      Cardinality({m \in messages' : m.session = s}) <= WriteWindow,
                      NEW c \in Conditions
               PROVE  Cardinality({v \in versions' : v.by = s /\ v.condition = c}) =
                        Cardinality({w \in writes' : w.session = s /\ w.condition = c})
  BY DEF ShortSessionsAreAudited, Audited, VersionsBy, WritesOf
<1>3. Cardinality(VersionsBy(s, c)) = Cardinality(WritesOf(s, c))
  <2>1. IsFiniteSet({m \in messages' : m.session = s})
    BY FS_Subset DEF RecordsAreOrderly, RecordsAreFinite
  <2>2. {m \in messages : m.session = s} \subseteq {m \in messages' : m.session = s}
    BY <1>1
  <2>3. /\ IsFiniteSet({m \in messages : m.session = s})
        /\ Cardinality({m \in messages : m.session = s})
             <= Cardinality({m \in messages' : m.session = s})
    BY <2>1, <2>2, FS_Subset
  <2>4. /\ Cardinality({m \in messages : m.session = s}) \in Nat
        /\ Cardinality({m \in messages' : m.session = s}) \in Nat
    BY <2>1, <2>3, FS_CardinalityType
  <2>5. Cardinality({m \in messages : m.session = s}) <= WriteWindow
    BY <1>2, <2>3, <2>4, SizesAreNatural
  <2> QED
    BY <2>5 DEF AuditsAreOrderly, ShortSessionsAreAudited, Audited
<1>4. /\ \A v \in draftVersions[r] : v.by = request[r].session
      /\ \A w \in draftWrites[r] : w.session = request[r].session
      /\ \A m \in draftMessages[r] : m.session = request[r].session
  BY DEF SessionsAreOrderly, DraftsFit, RecordsAreOrderly, DraftWritesAreExplained
<1>5. CASE ~(request[r].kind = "turn" /\ request[r].session = s)
  <2>1. /\ \A v \in draftVersions[r] : v.by # s
        /\ \A w \in draftWrites[r] : w.session # s
    BY <1>4, <1>5 DEF SessionsAreOrderly, DraftsFit
  <2>2. /\ {v \in versions' : v.by = s /\ v.condition = c} = VersionsBy(s, c)
        /\ {w \in writes' : w.session = s /\ w.condition = c} = WritesOf(s, c)
    BY <1>1, <2>1 DEF VersionsBy, WritesOf
  <2> QED
    BY <1>3, <2>2
<1>6. CASE request[r].kind = "turn" /\ request[r].session = s
  <2> DEFINE V == Of(draftVersions[r], c)
             W == Of(draftWrites[r], c)
  <2>1. /\ {v \in versions' : v.by = s /\ v.condition = c} = VersionsBy(s, c) \cup V
        /\ {w \in writes' : w.session = s /\ w.condition = c} = WritesOf(s, c) \cup W
    BY <1>1, <1>4, <1>6 DEF VersionsBy, WritesOf, Of
  <2>2. VersionsBy(s, c) \cap V = {}
    <3>1. ASSUME NEW v \in VersionsBy(s, c), v \in V PROVE FALSE
      <4>1. v.version < v.version
        BY <3>1 DEF VersionsBy, Of, RecordsAreOrderly, VersionsAreSerial
      <4>2. v.version \in Nat
        BY <3>1 DEF Of, RecordsAreOrderly, TypeOK, Version
      <4> QED
        BY <4>1, <4>2
    <3> QED
      BY <3>1
  <2>3. WritesOf(s, c) \cap W = {}
    <3>1. ASSUME NEW w \in WritesOf(s, c), w \in W PROVE FALSE
      <4>1. PICK n \in messages : n.id = w.message /\ n.session = w.session
        BY <3>1 DEF WritesOf, RecordsAreOrderly, WritesAreExplained
      <4>2. PICK m \in draftMessages[r] : m.id = w.message
        BY <3>1 DEF Of, RecordsAreOrderly, DraftWritesAreExplained
      <4>3. m.session = n.session
        BY <1>4, <1>6, <3>1, <4>1, <4>2 DEF WritesOf
      <4> QED
        BY <4>1, <4>2, <4>3 DEF RecordsAreOrderly, IdsAreFresh
    <3> QED
      BY <3>1
  <2>4. Cardinality(V) = Cardinality(W)
    <3>1. VisibleMessages(r, s) = {m \in messages' : m.session = s}
      BY <1>1 DEF VisibleMessages
    <3>2. Cardinality(V) = Cardinality(W) + 0
      BY <1>1, <1>2, <1>6, <3>1 DEF AuditsAreOrderly, DraftsAreAudited
    <3>3. IsFiniteSet(W)
      BY FS_Subset DEF Of, RecordsAreOrderly, RecordsAreFinite
    <3>4. Cardinality(W) \in Nat
      BY <3>3, FS_CardinalityType
    <3> QED
      BY <3>2, <3>4
  <2>5. /\ IsFiniteSet(V) /\ IsFiniteSet(W)
        /\ IsFiniteSet(VersionsBy(s, c)) /\ IsFiniteSet(WritesOf(s, c))
    BY FS_Subset DEF Of, VersionsBy, WritesOf, RecordsAreOrderly, RecordsAreFinite
  <2> HIDE DEF V, W
  <2>6. /\ Cardinality(VersionsBy(s, c) \cup V) = Cardinality(VersionsBy(s, c)) + Cardinality(V) - 0
        /\ Cardinality(WritesOf(s, c) \cup W) = Cardinality(WritesOf(s, c)) + Cardinality(W) - 0
    BY <2>2, <2>3, <2>5, FS_Union, FS_EmptySet
  <2> QED
    BY <1>3, <2>1, <2>4, <2>6
<1> QED
  BY <1>5, <1>6

\* Nothing else changes what a session has written and recorded.
LEMMA NextKeepsAudits ==
    ASSUME SessionsAreOrderly, RecordsAreOrderly, RecordsAreOrderly', AuditsAreOrderly,
           [Next]_vars
    PROVE  AuditsAreOrderly'
<1>1. ASSUME NEW r \in Workers, Begin(r) \/ Work(r) \/ Rollback(r)
      PROVE  AuditsAreOrderly'
  <2>1. OthersStand(r)
    BY <1>1, OthersAreUntouched DEF RecordsAreOrderly
  <2>2. Commit(r) \/ UNCHANGED database
    <3> USE DEF Fail, control, drafts
    <3>1. CASE Begin(r) \/ Rollback(r)
      BY <3>1 DEF Begin, BeginTurn, BeginClose, BeginCreate, Rollback
    <3>2. CASE Contended(r)
      BY <3>2 DEF Contended, InsertSession, CloseSession, Append, UpdateCondition
    <3>3. CASE Work(r) /\ ~Contended(r)
      BY <3>3 DEF Work, CheckSession, Complete, ModelFails, NextCall, NextRound, AnswerOnly,
         CreateCondition, ReadCondition, RecordWrite
    <3> QED
      BY <1>1, <3>1, <3>2, <3>3
  <2>3. messages \subseteq messages'
    BY <2>2 DEF Commit, database
  <2>4. DraftsAreAudited'
    <3>1. \A q \in Workers : AuditFits(q)'
      BY <1>1, <2>1, <2>3, StepsKeepAudits, AuditsOfOthersStand DEF AuditsAreOrderly
    <3> QED
      BY <3>1 DEF DraftsAreAudited, AuditFits
  <2>5. ShortSessionsAreAudited'
    <3>1. CASE Commit(r)
      BY <3>1, CommitAudits
    <3>2. CASE UNCHANGED database
      BY <3>2 DEF database, AuditsAreOrderly, ShortSessionsAreAudited, Audited, VersionsBy, WritesOf
    <3> QED
      BY <2>2, <3>1, <3>2
  <2> QED
    BY <2>4, <2>5 DEF AuditsAreOrderly
<1>2. CASE \/ \E c \in Conditions, t \in Theses : ClientCreates(c, t)
           \/ \E v \in versions : ClientUpdates(v)
  <2>0. PICK v : ClientEffect(v)
    BY <1>2, ClientsAppend
  <2>1. /\ versions' = versions \cup {v} /\ v.by = Client
        /\ UNCHANGED <<messages, writes, pc, request, target, draftMessages, draftVersions,
                       draftWrites>>
    BY <2>0 DEF ClientEffect, control, drafts
  <2>2. \A s \in Sessions : \A c : VersionsBy(s, c)' = VersionsBy(s, c)
    BY <2>1, SessionsAreNotClients DEF VersionsBy
  <2>3. ShortSessionsAreAudited'
    BY <2>1, <2>2 DEF AuditsAreOrderly, ShortSessionsAreAudited, Audited, WritesOf
  <2>4. DraftsAreAudited'
    BY <2>1 DEF AuditsAreOrderly, DraftsAreAudited, VisibleMessages, Of
  <2> QED
    BY <2>3, <2>4 DEF AuditsAreOrderly
<1>3. CASE UNCHANGED vars
  BY <1>3 DEF vars, database, control, drafts, AuditsAreOrderly, DraftsAreAudited,
     VisibleMessages, Of, ShortSessionsAreAudited, Audited, VersionsBy, WritesOf
<1> QED
  BY <1>1, <1>2, <1>3 DEF Next, Begin

\* A session that is no longer than the window of record_condition_write has one
\* record for every version of a condition that its turns wrote: conditions and
\* records are committed together or not at all.
THEOREM ShortSessionsHaveAudits == Spec => []ShortSessionsAreAudited
<1>1. Init => AuditsAreOrderly
  BY FS_EmptySet DEF Init, AuditsAreOrderly, DraftsAreAudited, NoRequest,
     ShortSessionsAreAudited, Audited, VersionsBy, WritesOf
<1>2. SessionsAreOrderly /\ RecordsAreOrderly /\ RecordsAreOrderly' /\ AuditsAreOrderly
        /\ [Next]_vars => AuditsAreOrderly'
  BY NextKeepsAudits
<1>3. AuditsAreOrderly => ShortSessionsAreAudited
  BY DEF AuditsAreOrderly
<1> QED
  BY <1>1, <1>2, <1>3, SessionsStayOrderly, RecordsStayOrderly, PTL DEF Spec
=============================================================================
