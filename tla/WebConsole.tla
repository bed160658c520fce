----------------------------- MODULE WebConsole -----------------------------
(***************************************************************************)
(* The forms of the web console, the requests they send and what the API   *)
(* does with them.  A press of a button is one POST or PATCH: the API runs *)
(* it in a transaction of its own, the console waits for the answer, but   *)
(* not for ever, and whoever has not been told of a success may press      *)
(* again, on the page as it is or after a reload.  Forms and what they do: *)
(*   create   INSERT a thesis, a condition or feedback on an event;        *)
(*   edit     UPDATE a thesis or condition if it has the version the form  *)
(*            was rendered with;                                           *)
(*   archive  UPDATE a thesis likewise, from a form that has a button of   *)
(*            its own and no message;                                      *)
(*   mark     UPDATE the status of an event, whatever it is.               *)
(* ThesisMonitoring has the statements of a PATCH; here a handler is one   *)
(* step, its commit another and its answer a third: which of the two is    *)
(* first depends on the release of FastAPI, which runs the code after the  *)
(* yield of a dependency before it sends the answer, or (since 0.118)      *)
(* afterwards.                                                             *)
(***************************************************************************)
EXTENDS Integers, Sequences, Functions

CONSTANTS Tabs,          \* of the owner's browsers
          MaxPresses,    \* bound: how often buttons are pressed
          MaxVersion     \* bound: how often somebody else writes the row

ASSUME BoundsAreNatural == MaxPresses \in Nat /\ MaxVersion \in Nat

Versioned == {"edit", "archive"}
Forms     == Versioned \cup {"create", "mark"}
Presses   == 1 .. MaxPresses

VARIABLES
  commitFirst, \* does the API commit before it answers? It never changes.
  page,      \* what a tab shows: a version of the row, and presses it can see
  press,     \* what was sent by each press, and from which tab
  fate,      \* of a press on its page: waiting, shown, or left with the page
  handling,  \* how far the API is with it
  answer,    \* what the console was told: none, ok, conflict or unavailable
  version,   \* of the thesis or condition the edits are about
  writes     \* committed presses, in the order of their commits

shown == <<commitFirst, page, fate>>
vars  == <<shown, press, handling, answer, version, writes>>

-----------------------------------------------------------------------------

NoPress == [form |-> "none"]
Pressed == {p \in Presses : press[p] # NoPress}
Written == Range(writes)

Init ==
    /\ commitFirst \in BOOLEAN
    /\ page = [t \in Tabs |-> [version |-> 1, sees |-> {}]]
    /\ press = [p \in Presses |-> NoPress]
    /\ fate = [p \in Presses |-> "none"]
    /\ handling = [p \in Presses |-> "none"]
    /\ answer = [p \in Presses |-> "none"]
    /\ version = 1
    /\ writes = <<>>

-----------------------------------------------------------------------------
(* The browser *)

\* Presses whose action is pending on the page that tab t shows.
Waiting(t) == {p \in Pressed : press[p].tab = t /\ fate[p] = "waiting"}

\* Every page is rendered from GET requests that nothing caches.
Render(t) == page' = [page EXCEPT ![t] = [version |-> version, sees |-> Written]]

\* A page may be reloaded, or left and visited again, at any time; what it was
\* waiting for is then shown to nobody, and its forms are fresh.
Reload(t) ==
    /\ Render(t)
    /\ fate' = [p \in Presses |-> IF p \in Waiting(t) THEN "left" ELSE fate[p]]
    /\ UNCHANGED <<commitFirst, press, handling, answer, version, writes>>

\* Mutant: the button can be pressed again before the answer.
AlwaysEnabled(t, f) == TRUE

\* SubmitButton is disabled while the action of its form is pending.  The form
\* that archives has a button that is not.
Enabled(t, f) == f = "archive" \/ \A p \in Waiting(t) : press[p].form # f

\* The last press of form f in tab t, if any.
LastPress(t, f) ==
    {p \in Pressed : /\ press[p].tab = t /\ press[p].form = f
                     /\ \A q \in Pressed : press[q].tab = t /\ press[q].form = f => q <= p}

\* A success has been shown for press p.
Confirmed(p) == fate[p] = "shown" /\ answer[p] = "ok"

\* What press p is for.  This is no state of the program: it tells a wish that is
\* sent again from a new one.  Whoever has seen no success wants the same still.
IntentOf(t, f, p) ==
    IF \E q \in LastPress(t, f) : ~Confirmed(q)
    THEN press[CHOOSE q \in LastPress(t, f) : TRUE].intent ELSE p

Press(t, f) ==
    /\ Enabled(t, f)
    /\ \E p \in Presses \ Pressed :
        /\ \A q \in Presses \ Pressed : p <= q
        /\ press' = [press EXCEPT ![p] =
              [tab    |-> t,
               form   |-> f,
               intent |-> IntentOf(t, f, p),
               base   |-> IF f \in Versioned THEN page[t].version ELSE 0,
               after  |-> {q \in Pressed : answer[q] = "ok"}]]
        /\ handling' = [handling EXCEPT ![p] = "sent"]
        /\ fate' = [fate EXCEPT ![p] = "waiting"]
    /\ UNCHANGED <<commitFirst, page, answer, version, writes>>

\* Mutant: the action ends without revalidatePath.
ShowOldPage(p) ==
    /\ fate[p] = "waiting" /\ answer[p] # "none"
    /\ fate' = [fate EXCEPT ![p] = "shown"]
    /\ UNCHANGED <<commitFirst, page, press, handling, answer, version, writes>>

\* The action ends with the answer: after a success the page is rendered anew,
\* after a failure it stays as it is, with a message or (archive) without one.
ShowAnswer(p) ==
    /\ fate[p] = "waiting" /\ answer[p] # "none"
    /\ fate' = [fate EXCEPT ![p] = "shown"]
    /\ IF answer[p] = "ok" THEN Render(press[p].tab) ELSE UNCHANGED page
    /\ UNCHANGED <<commitFirst, press, handling, answer, version, writes>>

-----------------------------------------------------------------------------
(* The API *)

\* The console takes an answer only while it still waits for one.
Tell(p, a) == answer' = [answer EXCEPT ![p] = IF @ = "none" THEN a ELSE @]

Advance(p, h) == handling' = [handling EXCEPT ![p] = h]

\* Mutant: an update is kept in the session and sent with the commit.
SentAtCommit(p) == FALSE

\* Handlers that have written and not committed.
Uncommitted(p) ==
    IF commitFirst THEN handling[p] = "drafted" ELSE handling[p] \in {"drafted", "answered"}

\* Two forms update one row.
SameRow(f, g) == f # "create" /\ (f = g \/ {f, g} \subseteq Versioned)

\* The row of a form that updates stays locked until the commit.
Locked(f) == \E q \in Pressed : SameRow(press[q].form, f) /\ Uncommitted(q)

\* Mutant: an update replaces whatever version there is.
AnyVersion(p) == TRUE

\* WHERE version = expected
MatchVersion(p) == press[p].form \in Versioned => press[p].base = version

Handle(p) ==
    /\ handling[p] = "sent"
    /\ ~Locked(press[p].form)
    /\ IF MatchVersion(p)
       THEN Advance(p, "drafted") /\ UNCHANGED answer
       ELSE Advance(p, "ended") /\ Tell(p, "conflict")
    /\ UNCHANGED <<shown, press, version, writes>>

\* Mutant: the answer is sent before the transaction of the request ends.
AnswerDrafted(p) ==
    /\ handling[p] = "drafted"
    /\ Advance(p, "drafted") /\ Tell(p, "ok")
    /\ UNCHANGED <<shown, press, version, writes>>

\* The answer of a handler that succeeded.
Answer(p) ==
    /\ handling[p] = IF commitFirst THEN "committed" ELSE "drafted"
    /\ Advance(p, IF commitFirst THEN "ended" ELSE "answered")
    /\ Tell(p, "ok")
    /\ UNCHANGED <<shown, press, version, writes>>

\* Mutant: a transaction that was committed is committed again.
CommitAgain(p) ==
    /\ handling[p] \in {"drafted", "committed"}
    /\ Len(writes) < 3
    /\ Advance(p, "committed")
    /\ writes' = Append(writes, p)
    /\ UNCHANGED <<shown, press, answer, version>>

Commit(p) ==
    /\ handling[p] = IF commitFirst THEN "drafted" ELSE "answered"
    /\ Advance(p, IF commitFirst THEN "committed" ELSE "ended")
    /\ writes' = Append(writes, p)
    /\ version' = IF press[p].form \in Versioned THEN version + 1 ELSE version
    /\ UNCHANGED <<shown, press, answer>>

\* A request that is lost, an exception, a broken connection: the transaction
\* is rolled back, and the console hears of an error if it still waits.
Fail(p) ==
    /\ handling[p] \in {"sent", "drafted", "answered"}
    /\ Advance(p, "ended")
    /\ Tell(p, "unavailable")
    /\ UNCHANGED <<shown, press, version, writes>>

\* AbortSignal.timeout: the API is not told, and goes on.
TimeOut(p) ==
    /\ handling[p] # "none" /\ answer[p] = "none"
    /\ answer' = [answer EXCEPT ![p] = "unavailable"]
    /\ UNCHANGED <<shown, press, handling, version, writes>>

\* A monitoring run, the agent or another client writes the row.
WriteElsewhere ==
    /\ version < MaxVersion
    /\ ~Locked("edit")
    /\ version' = version + 1
    /\ UNCHANGED <<shown, press, handling, answer, writes>>

-----------------------------------------------------------------------------

Browser(t) == Reload(t) \/ \E f \in Forms : Press(t, f)

Api(p) == Handle(p) \/ Answer(p) \/ Commit(p) \/ Fail(p)

Next ==
    \/ \E t \in Tabs : Browser(t)
    \/ \E p \in Presses : ShowAnswer(p) \/ Api(p) \/ TimeOut(p)
    \/ WriteElsewhere

Spec == Init /\ [][Next]_vars

-----------------------------------------------------------------------------
(* Properties *)

PressRecord == [tab : Tabs, form : Forms, intent : Presses, base : Nat,
                after : SUBSET Presses]

\* Every variable has its type, and no press is committed twice.
TypeOK ==
    /\ page \in [Tabs -> [version : Nat \ {0}, sees : SUBSET Presses]]
    /\ press \in [Presses -> PressRecord \cup {NoPress}]
    /\ fate \in [Presses -> {"none", "waiting", "shown", "left"}]
    /\ handling \in [Presses -> {"none", "sent", "drafted", "answered", "committed", "ended"}]
    /\ answer \in [Presses -> {"none", "ok", "conflict", "unavailable"}]
    /\ version \in Nat \ {0}
    /\ writes \in Seq(Presses) /\ IsInjective(writes)

Same(f, p, q) == press[p].form = f /\ press[q].form = f /\ press[p].intent = press[q].intent

\* A version is replaced by one edit only, archiving included, however often the
\* forms are sent, from whichever pages, and whenever the API gets round to it
\* (expected_version).
EditsApplyOnce ==
    \A p, q \in Written :
        p # q /\ press[p].form \in Versioned /\ press[q].form \in Versioned =>
            press[p].base # press[q].base

\* A form that inserts does so twice for one wish only if the first time was
\* reported as a failure, or the page was left before the answer was shown.  On a
\* page that stays, the button is disabled while the console waits (SubmitButton);
\* nothing keeps the owner from reloading and sending again, and no key tells the
\* API that it is the same wish.
DuplicatesHaveCauses ==
    \A p, q \in Written : p < q /\ Same("create", p, q) =>
        answer[p] = "unavailable" \/ fate[p] = "left"

\* What was acknowledged before a button was pressed is not written on top of
\* what that button writes, also if the acknowledgement came before the commit:
\* the row is locked until then.
AcknowledgedOrder ==
    \A i, j \in DOMAIN writes :
        i < j /\ SameRow(press[writes[i]].form, press[writes[j]].form) =>
            writes[j] \notin press[writes[i]].after

\* Press p has been answered, and the page it was made on says so.
SuccessShown(p) == fate[p] = "waiting" /\ fate'[p] = "shown" /\ answer[p] = "ok"

\* When a success is shown the page has what was saved (revalidatePath): with it
\* the row it shows has moved on from the version that was edited, so that the
\* next edit does not fail against the owner's own.  This takes an API that
\* commits before it answers, as sequence-diagram.md draws it; of the other order
\* AcknowledgedIsWritten says what may be wrong.
OwnWritesAreShown ==
    [][\A p \in Presses : commitFirst /\ SuccessShown(p) =>
          LET t == press[p].tab IN
          /\ p \in page'[t].sees
          /\ press[p].form \in Versioned => page'[t].version > press[p].base]_vars

\* sequence-diagram.md:28-29, "Commit transaction", then "201 Created": a request
\* that was answered with a success and is over has been written.
AcknowledgedIsWritten ==
    \A p \in Presses : answer[p] = "ok" /\ handling[p] = "ended" => p \in Written
=============================================================================
