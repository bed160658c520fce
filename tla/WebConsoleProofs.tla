-------------------------- MODULE WebConsoleProofs --------------------------
(***************************************************************************)
(* Theorems about WebConsole for any number of tabs and presses, and both  *)
(* orders of commit and answer: edits apply once, a wish is inserted twice *)
(* only after a failure or a page that was left, what was acknowledged     *)
(* first is written first, and, if the API commits first, a page that      *)
(* shows a success shows what was saved.                                   *)
(***************************************************************************)
EXTENDS WebConsole, SequenceTheorems, TLAPS

-----------------------------------------------------------------------------
(* The inductive invariant, part by part *)

\* Presses are taken in order, a press that was made is a request and on a page,
\* and the page shows an answer that there is.
PressesAreRequests ==
    /\ commitFirst \in BOOLEAN
    /\ \A p \in Presses :
        /\ press[p] = NoPress <=> handling[p] = "none"
        /\ press[p] = NoPress <=> fate[p] = "none"
        /\ handling[p] = "none" => answer[p] = "none"
        /\ fate[p] = "shown" => answer[p] # "none"
    /\ \A p \in Pressed : \A q \in Presses \ Pressed : p < q

\* A press is written by its commit and by nothing else.
WritesAreCommits ==
    /\ \A p \in Written : handling[p] \in {"committed", "ended"}
    /\ \A p \in Presses :
        /\ handling[p] = "committed" => commitFirst /\ p \in Written
        /\ handling[p] = "answered" => ~commitFirst

\* What an answer says of a request: if the commit is first, a success was
\* written, else the handler is done; a conflict never writes.
AnswersAreJustified ==
    \A p \in Presses :
        /\ answer[p] = "ok" =>
            IF commitFirst THEN handling[p] = "ended" /\ p \in Written
            ELSE handling[p] \in {"answered", "ended"}
        /\ answer[p] = "conflict" => handling[p] = "ended" /\ p \notin Written

\* A wish is that of one form of one tab, and of its first press.
WishesAreKept ==
    /\ \A p \in Pressed : press[p].intent <= p
    /\ \A p, q \in Pressed : press[p].intent = press[q].intent =>
        press[p].tab = press[q].tab /\ press[p].form = press[q].form

\* A press is repeated only after it has failed or its page was left, unless its
\* button is one that is never disabled.
RepeatsHaveCauses ==
    \A p, q \in Pressed :
        p < q /\ press[p].intent = press[q].intent /\ press[p].form # "archive" =>
            answer[p] \in {"conflict", "unavailable"} \/ fate[p] = "left"

\* An edit that holds the lock was made for the version there is, alone, and
\* an edit that was written for an earlier one.
EditsFollowVersions ==
    \A p \in Pressed : press[p].form \in Versioned =>
        /\ Uncommitted(p) =>
            /\ press[p].base = version
            /\ \A q \in Pressed : press[q].form \in Versioned /\ Uncommitted(q) => p = q
        /\ p \in Written => press[p].base < version

\* What a press was made after was acknowledged, and is over once the press
\* has got the row.
LocksKeepTheOrder ==
    \A p \in Pressed : \A q \in press[p].after :
        /\ answer[q] = "ok"
        /\ /\ SameRow(press[q].form, press[p].form)
           /\ handling[p] \in {"drafted", "answered", "committed"} \/ p \in Written
           => handling[q] = "ended"

ConsoleIsOrderly ==
    /\ TypeOK
    /\ PressesAreRequests
    /\ WritesAreCommits
    /\ AnswersAreJustified
    /\ WishesAreKept
    /\ RepeatsHaveCauses
    /\ EditsFollowVersions
    /\ LocksKeepTheOrder
    /\ EditsApplyOnce
    /\ AcknowledgedOrder
-----------------------------------------------------------------------------
(* Facts about the operators *)

\* A press that was made is a record with the fields of a request.
LEMMA PressesHaveFields ==
    ASSUME TypeOK, NEW p \in Pressed
    PROVE  /\ p \in Presses
           /\ press[p].tab \in Tabs
           /\ press[p].form \in Forms
           /\ press[p].intent \in Presses
           /\ press[p].base \in Nat
           /\ press[p].after \subseteq Presses
BY DEF TypeOK, Pressed, PressRecord

\* What was written is a press, which was made.
LEMMA WrittenArePressed ==
    ASSUME ConsoleIsOrderly, NEW p \in Written
    PROVE  p \in Pressed
<1>1. p \in Presses
  BY DEF ConsoleIsOrderly, TypeOK, Written, Range
<1> QED
  BY <1>1 DEF ConsoleIsOrderly, WritesAreCommits, PressesAreRequests, Pressed

\* Who shares a row shares it both ways.
LEMMA SameRowsAreShared ==
    ASSUME NEW f, NEW g, SameRow(f, g)
    PROVE  SameRow(g, f)
BY DEF SameRow, Versioned

\* An edit and the archiving button are about one row.
LEMMA VersionedShareTheRow ==
    ASSUME NEW f \in Versioned, NEW g \in Versioned
    PROVE  SameRow(f, g)
BY DEF SameRow, Versioned

-----------------------------------------------------------------------------
(* The browser *)

\* Reloading a page and showing an answer render at most one page, and change the
\* fate only of presses that were waited for.
PageEffect ==
    /\ UNCHANGED page \/ \E t \in Tabs : Render(t)
    /\ fate' \in [Presses -> {"none", "waiting", "shown", "left"}]
    /\ \A p \in Presses : \/ fate'[p] = fate[p]
                          \/ fate[p] = "waiting" /\ fate'[p] = "left"
                          \/ fate[p] = "waiting" /\ fate'[p] = "shown" /\ answer[p] # "none"
    /\ UNCHANGED <<commitFirst, press, handling, answer, version, writes>>

\* Reloading a page leaves what it waited for.
LEMMA PagesChangeFates ==
    ASSUME NEW t \in Tabs, Reload(t), TypeOK
    PROVE  PageEffect
<1>1. fate' = [p \in Presses |-> IF p \in Waiting(t) THEN "left" ELSE fate[p]]
  BY DEF Reload
<1>2. \A p \in Waiting(t) : fate[p] = "waiting"
  BY DEF Waiting
<1>3. \A p \in Presses : fate'[p] = IF p \in Waiting(t) THEN "left" ELSE fate[p]
  BY <1>1
<1>4. fate' \in [Presses -> {"none", "waiting", "shown", "left"}]
  BY <1>1 DEF TypeOK
<1> QED
  BY <1>2, <1>3, <1>4 DEF PageEffect, Reload

\* An answer is shown to whoever waits for it.
LEMMA AnswersChangeFates ==
    ASSUME NEW p \in Presses, ShowAnswer(p), TypeOK, PressesAreRequests
    PROVE  PageEffect
<1>1. p \in Pressed
  BY DEF ShowAnswer, PressesAreRequests, Pressed
<1>2. press[p].tab \in Tabs
  BY <1>1, PressesHaveFields
<1>3. /\ fate[p] = "waiting" /\ answer[p] # "none"
      /\ fate' = [fate EXCEPT ![p] = "shown"]
  BY DEF ShowAnswer
<1>4. \A q \in Presses : fate'[q] = IF q = p THEN "shown" ELSE fate[q]
  BY <1>3 DEF TypeOK
<1>5. fate' \in [Presses -> {"none", "waiting", "shown", "left"}]
  BY <1>3 DEF TypeOK
<1> QED
  BY <1>2, <1>3, <1>4, <1>5 DEF PageEffect, ShowAnswer

\* A step that shows a success renders the page of the press.
LEMMA ShowingASuccessRenders ==
    ASSUME TypeOK, Next, NEW p \in Presses, SuccessShown(p)
    PROVE  Render(press[p].tab)
<1>1. fate[p] = "waiting" /\ fate'[p] = "shown" /\ answer[p] = "ok"
  BY DEF SuccessShown
<1>2. ASSUME NEW t \in Tabs, Reload(t)
      PROVE  FALSE
  <2>1. fate'[p] = IF p \in Waiting(t) THEN "left" ELSE fate[p]
    BY <1>2 DEF Reload
  <2> QED
    BY <1>1, <2>1
<1>3. ASSUME NEW t \in Tabs, NEW f \in Forms, Press(t, f)
      PROVE  FALSE
  <2>1. PICK q \in Presses : fate' = [fate EXCEPT ![q] = "waiting"]
    BY <1>3 DEF Press
  <2> QED
    BY <1>1, <2>1 DEF TypeOK
<1>4. ASSUME NEW q \in Presses, ShowAnswer(q)
      PROVE  Render(press[p].tab)
  <2>1. fate' = [fate EXCEPT ![q] = "shown"]
    BY <1>4 DEF ShowAnswer
  <2>2. q = p
    BY <1>1, <2>1 DEF TypeOK
  <2> QED
    BY <1>1, <1>4, <2>2 DEF ShowAnswer
<1>5. ASSUME NEW q \in Presses, Api(q) \/ TimeOut(q)
      PROVE  FALSE
  BY <1>1, <1>5 DEF Api, Handle, Answer, Commit, Fail, TimeOut, shown
<1>6. ~WriteElsewhere
  BY <1>1 DEF WriteElsewhere, shown
<1> QED
  BY <1>2, <1>3, <1>4, <1>5, <1>6 DEF Next, Browser

\* What a page shows disturbs no part of the invariant.
LEMMA PagesKeepOrder ==
    ASSUME PageEffect, ConsoleIsOrderly
    PROVE  ConsoleIsOrderly'
<1>1. UNCHANGED <<commitFirst, press, handling, answer, version, writes>>
  BY DEF PageEffect
<1>2. UNCHANGED <<Pressed, Written>>
  BY <1>1 DEF Pressed, Written
<1>3. \A p : Uncommitted(p)' = Uncommitted(p)
  BY <1>1 DEF Uncommitted
<1>4. \A p \in Presses : \/ fate'[p] = fate[p]
                         \/ fate[p] = "waiting" /\ fate'[p] = "left"
                         \/ fate[p] = "waiting" /\ fate'[p] = "shown" /\ answer[p] # "none"
  BY DEF PageEffect
<1>5. TypeOK'
  <2>1. page' \in [Tabs -> [version : Nat \ {0}, sees : SUBSET Presses]]
    <3> DEFINE Shows == [version : Nat \ {0}, sees : SUBSET Presses]
    <3>1. page \in [Tabs -> Shows]
      BY DEF ConsoleIsOrderly, TypeOK
    <3>2. [version |-> version, sees |-> Written] \in Shows
      <4>1. Written \in SUBSET Presses
        BY WrittenArePressed DEF Pressed
      <4>2. version \in Nat \ {0}
        BY DEF ConsoleIsOrderly, TypeOK
      <4> QED
        BY <4>1, <4>2
    <3> HIDE DEF Shows
    <3>3. page' \in [Tabs -> Shows]
      BY <3>1, <3>2 DEF PageEffect, Render
    <3> QED
      BY <3>3 DEF Shows
  <2>2. fate' \in [Presses -> {"none", "waiting", "shown", "left"}]
    BY DEF PageEffect
  <2> QED
    BY <1>1, <2>1, <2>2 DEF ConsoleIsOrderly, TypeOK
<1>6. PressesAreRequests'
  BY <1>1, <1>2, <1>4 DEF ConsoleIsOrderly, PressesAreRequests
<1>7. WritesAreCommits' /\ AnswersAreJustified'
  BY <1>1, <1>2 DEF ConsoleIsOrderly, WritesAreCommits, AnswersAreJustified
<1>8. RepeatsHaveCauses'
  <2>1. \A p \in Presses : fate[p] = "left" => fate'[p] = "left"
    BY <1>4
  <2>2. \A p \in Pressed : p \in Presses
    BY DEF Pressed
  <2> QED
    BY <1>1, <1>2, <2>1, <2>2 DEF ConsoleIsOrderly, RepeatsHaveCauses
<1>9. WishesAreKept' /\ EditsFollowVersions' /\ LocksKeepTheOrder'
  BY <1>1, <1>2, <1>3 DEF ConsoleIsOrderly, WishesAreKept,
     EditsFollowVersions, LocksKeepTheOrder
<1>10. EditsApplyOnce' /\ AcknowledgedOrder'
  BY <1>1, <1>2 DEF ConsoleIsOrderly, EditsApplyOnce, AcknowledgedOrder
<1> QED
  BY <1>5, <1>6, <1>7, <1>8, <1>9, <1>10 DEF ConsoleIsOrderly

-----------------------------------------------------------------------------
(* A button *)

\* The press of form f in tab t is request p.
NewPress(t, f, p) ==
    /\ p \in Presses \ Pressed
    /\ \A q \in Presses \ Pressed : p <= q
    /\ press' = [press EXCEPT ![p] =
          [tab    |-> t,
           form   |-> f,
           intent |-> IntentOf(t, f, p),
           base   |-> IF f \in Versioned THEN page[t].version ELSE 0,
           after  |-> {q \in Pressed : answer[q] = "ok"}]]
    /\ handling' = [handling EXCEPT ![p] = "sent"]
    /\ fate' = [fate EXCEPT ![p] = "waiting"]
    /\ UNCHANGED <<commitFirst, page, answer, version, writes>>

\* The intent of a press is its own number, or that of the last press of its form
\* if no success of that has been shown.
LEMMA IntentsAreOwnOrRepeated ==
    ASSUME NEW t, NEW f, NEW p
    PROVE  \/ IntentOf(t, f, p) = p
           \/ \E l \in LastPress(t, f) : ~Confirmed(l) /\ IntentOf(t, f, p) = press[l].intent
<1>1. CASE \E q \in LastPress(t, f) : ~Confirmed(q)
  <2>1. PICK l \in LastPress(t, f) : ~Confirmed(l)
    BY <1>1
  <2>2. \A q, r \in LastPress(t, f) : q = r
    BY DEF LastPress, Pressed, Presses
  <2>3. (CHOOSE q \in LastPress(t, f) : TRUE) = l
    BY <2>1, <2>2
  <2> QED
    BY <1>1, <2>1, <2>3 DEF IntentOf
<1>2. CASE ~\E q \in LastPress(t, f) : ~Confirmed(q)
  BY <1>2 DEF IntentOf
<1> QED
  BY <1>1, <1>2

\* A button that is not disabled has no press before it of the same wish that
\* has not failed and is not left.
LEMMA LastPressHasFailed ==
    ASSUME ConsoleIsOrderly, NEW t \in Tabs, NEW f \in Forms, f # "archive",
           Enabled(t, f), NEW l \in LastPress(t, f), ~Confirmed(l)
    PROVE  answer[l] \in {"conflict", "unavailable"} \/ fate[l] = "left"
<1>1. l \in Pressed /\ l \in Presses /\ press[l].tab = t /\ press[l].form = f
  BY DEF LastPress, Pressed
<1>2. fate[l] # "waiting"
  BY <1>1 DEF Enabled, Waiting
<1>3. fate[l] \in {"none", "waiting", "shown", "left"} /\ fate[l] # "none"
  BY <1>1 DEF ConsoleIsOrderly, TypeOK, PressesAreRequests, Pressed
<1>4. answer[l] \in {"none", "ok", "conflict", "unavailable"}
  BY <1>1 DEF ConsoleIsOrderly, TypeOK
<1>5. fate[l] = "shown" => answer[l] # "none" /\ answer[l] # "ok"
  BY <1>1 DEF ConsoleIsOrderly, PressesAreRequests, Confirmed
<1> QED
  BY <1>2, <1>3, <1>4, <1>5

\* A press takes the next number, and its wish is a new one or that of a press
\* whose success nobody has seen.
LEMMA PressKeepsOrder ==
    ASSUME NEW t \in Tabs, NEW f \in Forms, NEW p, NewPress(t, f, p),
           Enabled(t, f), ConsoleIsOrderly
    PROVE  ConsoleIsOrderly'
<1> DEFINE i == IntentOf(t, f, p)
<1>1. /\ p \in Presses /\ p \notin Pressed
      /\ UNCHANGED <<commitFirst, answer, version, writes, Written>>
      /\ \A q \in Presses \ {p} :
            press'[q] = press[q] /\ handling'[q] = handling[q] /\ fate'[q] = fate[q]
      /\ handling[p] = "none" /\ handling'[p] = "sent" /\ answer[p] = "none"
      /\ fate'[p] = "waiting"
  BY DEF NewPress, ConsoleIsOrderly, TypeOK, PressesAreRequests, Pressed, Written
<1>2. /\ press'[p].tab = t /\ press'[p].form = f /\ press'[p].intent = i
      /\ press'[p].base = IF f \in Versioned THEN page[t].version ELSE 0
      /\ press'[p].after = {q \in Pressed : answer[q] = "ok"}
      /\ press'[p] # NoPress
  BY <1>1 DEF NewPress, ConsoleIsOrderly, TypeOK, Forms, Versioned, NoPress
<1>3. Pressed' = Pressed \cup {p}
  BY <1>1, <1>2 DEF Pressed
<1>4. \A q \in Pressed : q < p /\ q \in Presses /\ q # p
  BY <1>1 DEF ConsoleIsOrderly, PressesAreRequests, Pressed
<1>5. p \notin Written
  BY <1>1, WrittenArePressed
<1>6. \/ i = p
      \/ \E l \in LastPress(t, f) : ~Confirmed(l) /\ i = press[l].intent
  BY IntentsAreOwnOrRepeated
<1> HIDE DEF i
<1>7. i \in Presses /\ i <= p
  <2>1. CASE i = p
    BY <2>1, <1>1 DEF Presses
  <2>2. ASSUME NEW l \in LastPress(t, f), i = press[l].intent
        PROVE  i \in Presses /\ i <= p
    <3>1. l \in Pressed
      BY DEF LastPress
    <3>2. press[l].intent \in Presses
      BY <3>1, PressesHaveFields DEF ConsoleIsOrderly
    <3>3. press[l].intent <= l /\ l < p /\ l \in Presses
      BY <3>1, <1>4 DEF ConsoleIsOrderly, WishesAreKept
    <3> QED
      BY <2>2, <3>2, <3>3, <1>1 DEF Presses
  <2> QED
    BY <1>6, <2>1, <2>2
<1>8. \A q \in Presses : Uncommitted(q)' <=> Uncommitted(q)
  BY <1>1 DEF Uncommitted
<1>9. TypeOK'
  <2>1. press' \in [Presses -> PressRecord \cup {NoPress}]
    <3>1. [tab |-> t, form |-> f, intent |-> IntentOf(t, f, p),
           base |-> IF f \in Versioned THEN page[t].version ELSE 0,
           after |-> {q \in Pressed : answer[q] = "ok"}] \in PressRecord
      <4>1. (IF f \in Versioned THEN page[t].version ELSE 0) \in Nat
        BY DEF ConsoleIsOrderly, TypeOK
      <4>2. {q \in Pressed : answer[q] = "ok"} \in SUBSET Presses
        BY DEF Pressed
      <4> QED
        BY <4>1, <4>2, <1>7 DEF PressRecord, i
    <3> QED
      BY <3>1 DEF NewPress, ConsoleIsOrderly, TypeOK
  <2>2. fate' \in [Presses -> {"none", "waiting", "shown", "left"}]
    BY <1>1 DEF NewPress, ConsoleIsOrderly, TypeOK
  <2>3. handling' \in [Presses -> {"none", "sent", "drafted", "answered", "committed", "ended"}]
    BY <1>1 DEF NewPress, ConsoleIsOrderly, TypeOK
  <2> QED
    BY <2>1, <2>2, <2>3 DEF NewPress, ConsoleIsOrderly, TypeOK
<1>10. PressesAreRequests'
  <2>1. \A q \in Presses :
          /\ press'[q] = NoPress <=> handling'[q] = "none"
          /\ press'[q] = NoPress <=> fate'[q] = "none"
          /\ handling'[q] = "none" => answer'[q] = "none"
          /\ fate'[q] = "shown" => answer'[q] # "none"
    BY <1>1, <1>2 DEF ConsoleIsOrderly, PressesAreRequests
  <2>2. \A q \in Pressed' : \A r \in Presses \ Pressed' : q < r
    BY <1>1, <1>3 DEF NewPress, ConsoleIsOrderly, PressesAreRequests, Presses
  <2> QED
    BY <1>1, <2>1, <2>2 DEF PressesAreRequests, ConsoleIsOrderly
<1>11. WritesAreCommits' /\ AnswersAreJustified'
  BY <1>1, <1>5, WrittenArePressed, <1>4
     DEF ConsoleIsOrderly, WritesAreCommits, AnswersAreJustified
<1>12. \A q \in Pressed : press'[q] = press[q] /\ fate'[q] = fate[q]
  BY <1>1, <1>4
<1>13. WishesAreKept'
  <2>1. \A q \in Pressed' : press'[q].intent <= q
    BY <1>2, <1>3, <1>7, <1>12 DEF ConsoleIsOrderly, WishesAreKept
  <2>2. ASSUME NEW q \in Pressed, press[q].intent = i
        PROVE  press[q].tab = t /\ press[q].form = f
    <3>1. press[q].intent <= q /\ q < p /\ q \in Presses
      BY <1>4 DEF ConsoleIsOrderly, WishesAreKept
    <3>2. i # p
      BY <3>1, <2>2, <1>1 DEF Presses
    <3>3. PICK l \in LastPress(t, f) : i = press[l].intent
      BY <3>2, <1>6
    <3>4. l \in Pressed /\ press[l].tab = t /\ press[l].form = f
      BY DEF LastPress
    <3> QED
      BY <2>2, <3>3, <3>4 DEF ConsoleIsOrderly, WishesAreKept
  <2> QED
    BY <1>2, <1>3, <1>12, <2>1, <2>2 DEF ConsoleIsOrderly, WishesAreKept
<1>14. RepeatsHaveCauses'
  <2>1. ASSUME NEW q \in Pressed, press[q].intent = i, press[q].form # "archive"
        PROVE  answer[q] \in {"conflict", "unavailable"} \/ fate[q] = "left"
    <3>1. press[q].intent <= q /\ q < p /\ q \in Presses
      BY <1>4 DEF ConsoleIsOrderly, WishesAreKept
    <3>2. i # p
      BY <3>1, <2>1, <1>1 DEF Presses
    <3>3. PICK l \in LastPress(t, f) : ~Confirmed(l) /\ i = press[l].intent
      BY <3>2, <1>6
    <3>4. l \in Pressed /\ press[l].tab = t /\ press[l].form = f /\ l \in Presses
      BY <1>4 DEF LastPress
    <3>5. press[q].tab = t /\ press[q].form = f
      BY <2>1, <3>3, <3>4 DEF ConsoleIsOrderly, WishesAreKept
    <3>6. q <= l
      BY <3>5 DEF LastPress
    <3>7. CASE q = l
      BY <2>1, <3>3, <3>4, <3>7, LastPressHasFailed
    <3>8. CASE q < l
      BY <2>1, <3>3, <3>4, <3>8 DEF ConsoleIsOrderly, RepeatsHaveCauses
    <3> QED
      BY <3>1, <3>4, <3>6, <3>7, <3>8 DEF Presses
  <2>2. \A q \in Pressed : ~(p < q)
    BY <1>1, <1>4 DEF Presses
  <2>3. ~(p < p)
    BY <1>1 DEF Presses
  <2> QED
    BY <2>1, <2>2, <2>3, <1>1, <1>2, <1>3, <1>12 DEF ConsoleIsOrderly, RepeatsHaveCauses
<1>15. EditsFollowVersions'
  <2>1. \A q \in Pressed : press'[q] = press[q] /\ (Uncommitted(q)' <=> Uncommitted(q))
    BY <1>4, <1>8, <1>12
  <2>2. ~Uncommitted(p)'
    BY <1>1 DEF Uncommitted
  <2> QED
    BY <1>1, <1>3, <1>5, <2>1, <2>2 DEF ConsoleIsOrderly, EditsFollowVersions
<1>16. LocksKeepTheOrder'
  <2>1. \A q \in Pressed : press'[q] = press[q] /\ handling'[q] = handling[q]
    BY <1>1, <1>4
  <2>2. ASSUME NEW q \in Pressed, NEW r \in press[q].after
        PROVE  answer[r] = "ok" /\ r \in Pressed
    <3>1. answer[r] = "ok" /\ r \in Presses
      BY PressesHaveFields DEF ConsoleIsOrderly, LocksKeepTheOrder
    <3> QED
      BY <3>1 DEF ConsoleIsOrderly, PressesAreRequests, Pressed
  <2> QED
    BY <1>1, <1>2, <1>3, <1>5, <2>1, <2>2 DEF ConsoleIsOrderly, LocksKeepTheOrder
<1>17. EditsApplyOnce' /\ AcknowledgedOrder'
  <2>1. \A q \in Written : press'[q] = press[q]
    BY <1>12, WrittenArePressed
  <2>2. \A n \in DOMAIN writes : press'[writes[n]] = press[writes[n]]
    BY <2>1 DEF Written, Range
  <2> QED
    BY <1>1, <2>1, <2>2 DEF ConsoleIsOrderly, EditsApplyOnce, AcknowledgedOrder
<1> QED
  BY <1>9, <1>10, <1>11, <1>13, <1>14, <1>15, <1>16, <1>17 DEF ConsoleIsOrderly

-----------------------------------------------------------------------------
(* The API *)

\* A handler or an answer moves one press on: its handler from h to k, its
\* answer from a to b.
MovesOn(p, h, k, a, b) ==
    /\ handling[p] = h /\ handling'[p] = k
    /\ answer[p] = a /\ answer'[p] = b
    /\ \A q \in Presses \ {p} : handling'[q] = handling[q] /\ answer'[q] = answer[q]
    /\ UNCHANGED <<commitFirst, page, fate, press, version, writes>>

HandlerStates == {"none", "sent", "drafted", "answered", "committed", "ended"}
AnswerStates  == {"none", "ok", "conflict", "unavailable"}

\* What the handler, the answer, a failure and a time-out do to a press.
Moves(p, h, k, a, b) ==
    /\ MovesOn(p, h, k, a, b)
    /\ a # "none" => b = a
    /\ \/ /\ h = "sent" /\ k = "drafted" /\ b = a
          /\ ~Locked(press[p].form) /\ MatchVersion(p)
       \/ h = "sent" /\ k = "ended" /\ b \in {a, "conflict", "unavailable"}
       \/ commitFirst /\ h = "committed" /\ k = "ended" /\ b \in {a, "ok"}
       \/ ~commitFirst /\ h = "drafted" /\ k = "answered" /\ b \in {a, "ok"}
       \/ h \in {"drafted", "answered"} /\ k = "ended" /\ b \in {a, "unavailable"}
       \/ h # "none" /\ h = k /\ a = "none" /\ b = "unavailable"

\* It does one of these.
ApiEffect(p) ==
    \E h, k \in HandlerStates, a, b \in AnswerStates : Moves(p, h, k, a, b)

\* The handler, the answer, a failure and a time-out move one press on.
LEMMA ApiMovesOn ==
    ASSUME NEW p \in Presses, TypeOK, PressesAreRequests,
           Handle(p) \/ Answer(p) \/ Fail(p) \/ TimeOut(p)
    PROVE  ApiEffect(p)
<1>1. handling[p] \in HandlerStates /\ answer[p] \in AnswerStates /\ commitFirst \in BOOLEAN
  BY DEF TypeOK, AnswerStates, HandlerStates, PressesAreRequests
<1>2. CASE Handle(p) /\ MatchVersion(p)
  <2>1. MovesOn(p, "sent", "drafted", answer[p], answer[p]) /\ ~Locked(press[p].form)
    BY <1>2 DEF Handle, Advance, MovesOn, TypeOK, shown
  <2> QED
    BY <2>1, <1>1, <1>2 DEF ApiEffect, Moves, HandlerStates
<1>3. CASE Handle(p) /\ ~MatchVersion(p)
  <2> DEFINE b == IF answer[p] = "none" THEN "conflict" ELSE answer[p]
  <2>1. MovesOn(p, "sent", "ended", answer[p], b)
    BY <1>3 DEF Handle, Advance, Tell, MovesOn, TypeOK, shown
  <2>2. b \in AnswerStates /\ b \in {answer[p], "conflict"} /\ (answer[p] # "none" => b = answer[p])
    BY <1>1 DEF AnswerStates
  <2> HIDE DEF b
  <2> QED
    BY <2>1, <2>2, <1>1 DEF ApiEffect, Moves, HandlerStates
<1>4. CASE Answer(p)
  <2> DEFINE b == IF answer[p] = "none" THEN "ok" ELSE answer[p]
  <2>1. \/ commitFirst /\ MovesOn(p, "committed", "ended", answer[p], b)
        \/ ~commitFirst /\ MovesOn(p, "drafted", "answered", answer[p], b)
    BY <1>4, <1>1 DEF Answer, Advance, Tell, MovesOn, TypeOK, shown
  <2>2. b \in AnswerStates /\ b \in {answer[p], "ok"} /\ (answer[p] # "none" => b = answer[p])
    BY <1>1 DEF AnswerStates
  <2> HIDE DEF b
  <2> QED
    BY <2>1, <2>2, <1>1 DEF ApiEffect, Moves, HandlerStates
<1>5. CASE Fail(p)
  <2> DEFINE b == IF answer[p] = "none" THEN "unavailable" ELSE answer[p]
  <2>1. MovesOn(p, handling[p], "ended", answer[p], b) /\ handling[p] \in {"sent", "drafted", "answered"}
    BY <1>5, <1>1 DEF Fail, Advance, Tell, MovesOn, TypeOK, shown
  <2>2. b \in AnswerStates /\ b \in {answer[p], "unavailable"} /\ (answer[p] # "none" => b = answer[p])
    BY <1>1 DEF AnswerStates
  <2> HIDE DEF b
  <2> QED
    BY <2>1, <2>2, <1>1 DEF ApiEffect, Moves, HandlerStates
<1>6. CASE TimeOut(p)
  <2>1. MovesOn(p, handling[p], handling[p], "none", "unavailable") /\ handling[p] # "none"
    BY <1>6, <1>1 DEF TimeOut, MovesOn, TypeOK, shown
  <2> QED
    BY <2>1, <1>1 DEF ApiEffect, Moves, AnswerStates
<1> QED
  BY <1>2, <1>3, <1>4, <1>5, <1>6

\* What the API does to a press keeps the types of handlers and answers.
LEMMA ApiFunctions ==
    ASSUME NEW p \in Presses, TypeOK,
           Handle(p) \/ Answer(p) \/ Fail(p) \/ TimeOut(p)
    PROVE  /\ handling' \in [Presses -> {"none", "sent", "drafted", "answered", "committed", "ended"}]
           /\ answer' \in [Presses -> {"none", "ok", "conflict", "unavailable"}]
<1>1. CASE Handle(p)
  BY <1>1 DEF Handle, Advance, Tell, TypeOK
<1>2. CASE Answer(p)
  BY <1>2 DEF Answer, Advance, Tell, TypeOK
<1>3. CASE Fail(p)
  BY <1>3 DEF Fail, Advance, Tell, TypeOK
<1>4. CASE TimeOut(p)
  BY <1>4 DEF TimeOut, TypeOK
<1> QED
  BY <1>1, <1>2, <1>3, <1>4

\* A press that moves on without a commit disturbs no part of the invariant.
LEMMA ApiKeepsOrder ==
    ASSUME NEW p \in Presses, ConsoleIsOrderly,
           Handle(p) \/ Answer(p) \/ Fail(p) \/ TimeOut(p)
    PROVE  ConsoleIsOrderly'
<1>1. PICK h, k \in HandlerStates, a, b \in AnswerStates : Moves(p, h, k, a, b)
  BY ApiMovesOn DEF ApiEffect, ConsoleIsOrderly
<1>2. /\ MovesOn(p, h, k, a, b)
      /\ a # "none" => b = a
      /\ \/ /\ h = "sent" /\ k = "drafted" /\ b = a
            /\ ~Locked(press[p].form) /\ MatchVersion(p)
         \/ h = "sent" /\ k = "ended" /\ b \in {a, "conflict", "unavailable"}
         \/ commitFirst /\ h = "committed" /\ k = "ended" /\ b \in {a, "ok"}
         \/ ~commitFirst /\ h = "drafted" /\ k = "answered" /\ b \in {a, "ok"}
         \/ h \in {"drafted", "answered"} /\ k = "ended" /\ b \in {a, "unavailable"}
         \/ h # "none" /\ h = k /\ a = "none" /\ b = "unavailable"
  BY <1>1 DEF Moves
<1>3. /\ UNCHANGED <<commitFirst, page, fate, press, version, writes, Pressed, Written>>
      /\ handling[p] = h /\ handling'[p] = k /\ h # "none" /\ k # "none"
      /\ answer[p] = a /\ answer'[p] = b
      /\ \A q \in Presses \ {p} : handling'[q] = handling[q] /\ answer'[q] = answer[q]
  BY <1>2 DEF MovesOn, Pressed, Written
<1>4. TypeOK'
  <2>1. handling' \in [Presses -> {"none", "sent", "drafted", "answered", "committed", "ended"}]
    BY ApiFunctions DEF ConsoleIsOrderly
  <2>2. answer' \in [Presses -> {"none", "ok", "conflict", "unavailable"}]
    BY ApiFunctions DEF ConsoleIsOrderly
  <2> QED
    BY <1>3, <2>1, <2>2 DEF ConsoleIsOrderly, TypeOK
<1>5. PressesAreRequests'
  BY <1>2, <1>3 DEF ConsoleIsOrderly, PressesAreRequests
<1>6. WritesAreCommits'
  <2>1. \A q \in Written : q \in Presses /\ (q = p => h \in {"committed", "ended"})
    BY <1>3, WrittenArePressed DEF ConsoleIsOrderly, WritesAreCommits, Pressed
  <2>2. h = "answered" => ~commitFirst
    BY <1>3 DEF ConsoleIsOrderly, WritesAreCommits
  <2>3. \A q \in Written : handling'[q] \in {"committed", "ended"}
    BY <1>2, <1>3, <2>1, <2>2 DEF ConsoleIsOrderly, WritesAreCommits
  <2>4. \A q \in Presses : /\ handling'[q] = "committed" => commitFirst /\ q \in Written
                           /\ handling'[q] = "answered" => ~commitFirst
    BY <1>2, <1>3 DEF ConsoleIsOrderly, WritesAreCommits
  <2> QED
    BY <1>3, <2>3, <2>4 DEF WritesAreCommits
<1>7. AnswersAreJustified'
  <2>1. /\ b = "ok" => IF commitFirst THEN k = "ended" /\ p \in Written
                       ELSE k \in {"answered", "ended"}
        /\ b = "conflict" => k = "ended" /\ p \notin Written
    <3>1. /\ a = "ok" => IF commitFirst THEN h = "ended" /\ p \in Written
                         ELSE h \in {"answered", "ended"}
          /\ a = "conflict" => h = "ended" /\ p \notin Written
          /\ h = "committed" => commitFirst /\ p \in Written
          /\ p \in Written => h \in {"committed", "ended"}
      BY <1>3 DEF ConsoleIsOrderly, AnswersAreJustified, WritesAreCommits
    <3> QED
      BY <1>2, <3>1
  <2> QED
    BY <1>3, <2>1 DEF ConsoleIsOrderly, AnswersAreJustified
<1>8. \A q \in Presses : answer[q] \in {"conflict", "unavailable"} => answer'[q] = answer[q]
  BY <1>2, <1>3
<1>9. \A q \in Presses : answer[q] = "ok" =>
        answer'[q] = "ok" /\ (handling[q] = "ended" => handling'[q] = "ended")
  BY <1>2, <1>3
<1>10. WishesAreKept'
  BY <1>3 DEF ConsoleIsOrderly, WishesAreKept
<1>11. RepeatsHaveCauses'
  BY <1>3, <1>8 DEF ConsoleIsOrderly, RepeatsHaveCauses, Pressed
<1>12. \A q \in Presses : Uncommitted(q)' =>
         \/ Uncommitted(q)
         \/ q = p /\ ~Locked(press[p].form) /\ MatchVersion(p)
  BY <1>2, <1>3 DEF Uncommitted
<1>13. EditsFollowVersions'
  <2>1. ASSUME NEW q \in Pressed, press[q].form \in Versioned, Uncommitted(q)'
        PROVE  /\ press[q].base = version
               /\ \A r \in Pressed : press[r].form \in Versioned /\ Uncommitted(r)' => q = r
    <3>1. ASSUME ~Locked("edit")
          PROVE  \A r \in Pressed : press[r].form \in Versioned => ~Uncommitted(r)
      BY <3>1, VersionedShareTheRow DEF Locked, Versioned
    <3>2. CASE Locked("edit")
      <4>0. ASSUME NEW f \in Versioned
            PROVE  Locked(f)
        <5>1. PICK r \in Pressed : SameRow(press[r].form, "edit") /\ Uncommitted(r)
          BY <3>2 DEF Locked
        <5>2. press[r].form \in Versioned
          BY <5>1 DEF SameRow, Versioned
        <5> QED
          BY <5>1, <5>2, VersionedShareTheRow DEF Locked
      <4>1. \A r \in Pressed : press[r].form \in Versioned /\ Uncommitted(r)' => Uncommitted(r)
        BY <1>12, <4>0 DEF Pressed
      <4> QED
        BY <2>1, <4>1 DEF ConsoleIsOrderly, EditsFollowVersions
    <3>3. CASE ~Locked("edit")
      <4>1. \A r \in Pressed : press[r].form \in Versioned /\ Uncommitted(r)' => r = p /\ MatchVersion(p)
        BY <1>12, <3>1, <3>3 DEF Pressed
      <4> QED
        BY <2>1, <4>1 DEF MatchVersion
    <3> QED
      BY <3>2, <3>3
  <2> QED
    BY <1>3, <2>1 DEF ConsoleIsOrderly, EditsFollowVersions
<1>14. LocksKeepTheOrder'
  <2>1. ASSUME NEW q \in Pressed, NEW r \in press[q].after,
               SameRow(press[r].form, press[q].form),
               handling'[q] \in {"drafted", "answered", "committed"} \/ q \in Written
        PROVE  handling'[r] = "ended"
    <3>1. r \in Presses /\ q \in Presses /\ answer[r] = "ok"
      BY PressesHaveFields DEF ConsoleIsOrderly, LocksKeepTheOrder
    <3>2. CASE handling[q] \in {"drafted", "answered", "committed"} \/ q \in Written
      BY <2>1, <3>1, <3>2, <1>9 DEF ConsoleIsOrderly, LocksKeepTheOrder
    <3>3. CASE ~(handling[q] \in {"drafted", "answered", "committed"} \/ q \in Written)
      <4>1. q = p /\ h = "sent" /\ ~Locked(press[p].form)
        BY <2>1, <3>1, <3>3, <1>2, <1>3
      <4>2. r \in Pressed
        BY <3>1 DEF ConsoleIsOrderly, PressesAreRequests, Pressed
      <4>3. ~Uncommitted(r)
        BY <2>1, <4>1, <4>2 DEF Locked
      <4>4. handling[r] = "ended"
        BY <3>1, <4>3 DEF ConsoleIsOrderly, AnswersAreJustified, Uncommitted
      <4> QED
        BY <3>1, <4>4, <1>9
    <3> QED
      BY <3>2, <3>3
  <2>2. ASSUME NEW q \in Pressed, NEW r \in press[q].after
        PROVE  answer'[r] = "ok"
    BY <1>9, PressesHaveFields DEF ConsoleIsOrderly, LocksKeepTheOrder
  <2> QED
    BY <1>3, <2>1, <2>2 DEF LocksKeepTheOrder
<1>15. EditsApplyOnce' /\ AcknowledgedOrder'
  BY <1>3 DEF ConsoleIsOrderly, EditsApplyOnce, AcknowledgedOrder
<1> QED
  BY <1>4, <1>5, <1>6, <1>7, <1>10, <1>11, <1>13, <1>14, <1>15 DEF ConsoleIsOrderly
\* A write is appended to the list of writes.
LEMMA WritesAreAppended ==
    ASSUME TypeOK, NEW p \in Presses, writes' = Append(writes, p)
    PROVE  /\ DOMAIN writes = 1 .. Len(writes) /\ Len(writes) \in Nat
           /\ DOMAIN writes' = 1 .. Len(writes) + 1
           /\ \A n \in DOMAIN writes : writes'[n] = writes[n]
           /\ writes'[Len(writes) + 1] = p
           /\ writes' \in Seq(Presses)
           /\ Written' = Written \cup {p}
<1>1. writes \in Seq(Presses)
  BY DEF TypeOK
<1>2. /\ DOMAIN writes = 1 .. Len(writes) /\ Len(writes) \in Nat
      /\ DOMAIN writes' = 1 .. Len(writes) + 1
      /\ \A n \in DOMAIN writes : writes'[n] = writes[n]
      /\ writes'[Len(writes) + 1] = p
      /\ writes' \in Seq(Presses)
  BY <1>1, LenProperties, AppendProperties
<1>3. DOMAIN writes' = DOMAIN writes \cup {Len(writes) + 1}
  BY <1>2
<1>4. Written' = Written \cup {p}
  BY <1>2, <1>3 DEF Written, Range
<1> QED
  BY <1>2, <1>4

\* A commit writes what held the lock: an edit of the version there is, and
\* nothing that an earlier write had been acknowledged of.
LEMMA CommitKeepsOrder ==
    ASSUME NEW p \in Presses, ConsoleIsOrderly, Commit(p)
    PROVE  ConsoleIsOrderly'
<1> DEFINE n == Len(writes) + 1
<1>1. /\ UNCHANGED <<commitFirst, page, fate, press, answer, Pressed>>
      /\ commitFirst \in BOOLEAN
      /\ IF commitFirst THEN handling[p] = "drafted" /\ handling'[p] = "committed"
         ELSE handling[p] = "answered" /\ handling'[p] = "ended"
      /\ \A q \in Presses \ {p} : handling'[q] = handling[q]
      /\ writes' = Append(writes, p)
      /\ version' = IF press[p].form \in Versioned THEN version + 1 ELSE version
  BY DEF Commit, Advance, shown, Pressed, ConsoleIsOrderly, PressesAreRequests, TypeOK
<1>2. p \in Pressed
  BY <1>1 DEF ConsoleIsOrderly, PressesAreRequests, Pressed
<1>3. p \notin Written /\ Uncommitted(p)
  BY <1>1 DEF ConsoleIsOrderly, WritesAreCommits, Uncommitted
<1>4. /\ DOMAIN writes = 1 .. Len(writes) /\ Len(writes) \in Nat
      /\ DOMAIN writes' = 1 .. n
      /\ \A m \in DOMAIN writes : writes'[m] = writes[m]
      /\ writes'[n] = p
      /\ writes' \in Seq(Presses)
      /\ Written' = Written \cup {p}
  BY <1>1, WritesAreAppended DEF ConsoleIsOrderly
<1>5. \A m \in DOMAIN writes : writes[m] \in Written /\ writes[m] # p
  BY <1>3 DEF Written, Range
<1>6. \A m \in DOMAIN writes' : m \in DOMAIN writes \/ m = n
  BY <1>4
<1> HIDE DEF n
<1>7. version \in Nat \ {0} /\ version' \in Nat \ {0} /\ version <= version'
  BY <1>1 DEF ConsoleIsOrderly, TypeOK
<1>8. TypeOK'
  <2>1. IsInjective(writes')
    BY <1>4, <1>5, <1>6 DEF ConsoleIsOrderly, TypeOK, IsInjective
  <2>2. handling' \in [Presses -> {"none", "sent", "drafted", "answered", "committed", "ended"}]
    BY DEF Commit, Advance, ConsoleIsOrderly, TypeOK
  <2> QED
    BY <1>1, <1>4, <1>7, <2>1, <2>2 DEF ConsoleIsOrderly, TypeOK
<1>9. PressesAreRequests' /\ WishesAreKept' /\ RepeatsHaveCauses'
  BY <1>1 DEF ConsoleIsOrderly, PressesAreRequests, WishesAreKept,
     RepeatsHaveCauses
<1>10. WritesAreCommits' /\ AnswersAreJustified'
  <2>1. Written \subseteq Presses
    BY WrittenArePressed DEF Pressed
  <2> QED
    BY <1>1, <1>4, <2>1 DEF ConsoleIsOrderly, WritesAreCommits, AnswersAreJustified
<1>11. \A q \in Presses : Uncommitted(q)' => Uncommitted(q) /\ q # p
  BY <1>1 DEF Uncommitted
<1>12. EditsFollowVersions'
  <2>1. ASSUME NEW q \in Pressed, press[q].form \in Versioned, Uncommitted(q)'
        PROVE  /\ press[q].base = version' /\ press[p].form \notin Versioned
               /\ \A r \in Pressed : press[r].form \in Versioned /\ Uncommitted(r)' => q = r
    BY <2>1, <1>1, <1>2, <1>3, <1>11 DEF ConsoleIsOrderly, EditsFollowVersions, Pressed
  <2>2. ASSUME NEW q \in Pressed, press[q].form \in Versioned, q \in Written'
        PROVE  press[q].base < version'
    <3>1. press[q].base \in Nat
      BY PressesHaveFields DEF ConsoleIsOrderly
    <3>2. CASE q \in Written
      BY <2>2, <3>1, <3>2, <1>7 DEF ConsoleIsOrderly, EditsFollowVersions
    <3>3. CASE q = p
      <4>1. press[p].base = version
        BY <2>2, <3>3, <1>3 DEF ConsoleIsOrderly, EditsFollowVersions
      <4> QED
        BY <2>2, <3>3, <4>1, <1>1, <1>7
    <3> QED
      BY <2>2, <3>2, <3>3, <1>4
  <2> QED
    BY <1>1, <2>1, <2>2 DEF EditsFollowVersions
<1>13. EditsApplyOnce'
  <2>1. ASSUME NEW q \in Written, press[p].form \in Versioned, press[q].form \in Versioned
        PROVE  press[p].base # press[q].base
    <3>1. q \in Pressed /\ press[q].base \in Nat
      BY WrittenArePressed, PressesHaveFields DEF ConsoleIsOrderly
    <3>2. press[p].base = version /\ press[q].base < version
      BY <2>1, <3>1, <1>2, <1>3 DEF ConsoleIsOrderly, EditsFollowVersions
    <3> QED
      BY <3>1, <3>2, <1>7
  <2> QED
    BY <1>1, <1>4, <2>1 DEF ConsoleIsOrderly, EditsApplyOnce
<1>14. \A q \in Presses : handling[q] = "ended" => handling'[q] = "ended"
  BY <1>1
<1>15. LocksKeepTheOrder'
  <2>1. ASSUME NEW q \in Pressed, NEW r \in press[q].after,
               SameRow(press[r].form, press[q].form),
               handling'[q] \in {"drafted", "answered", "committed"} \/ q \in Written'
        PROVE  handling'[r] = "ended"
    <3>1. r \in Presses /\ q \in Presses
      BY PressesHaveFields DEF ConsoleIsOrderly
    <3>2. handling[q] \in {"drafted", "answered", "committed"} \/ q \in Written
      BY <2>1, <3>1, <1>1, <1>4
    <3>3. handling[r] = "ended"
      BY <2>1, <3>2 DEF ConsoleIsOrderly, LocksKeepTheOrder
    <3> QED
      BY <3>1, <3>3, <1>14
  <2> QED
    BY <1>1, <2>1 DEF ConsoleIsOrderly, LocksKeepTheOrder
<1>16. AcknowledgedOrder'
  <2> SUFFICES ASSUME NEW i \in DOMAIN writes', NEW j \in DOMAIN writes', i < j,
                      SameRow(press[writes'[i]].form, press[writes'[j]].form)
               PROVE  writes'[j] \notin press[writes'[i]].after
    BY <1>1 DEF AcknowledgedOrder
  <2>1. i \in DOMAIN writes
    BY <1>4, <1>6 DEF n
  <2>2. CASE j \in DOMAIN writes
    BY <2>1, <2>2, <1>4 DEF ConsoleIsOrderly, AcknowledgedOrder
  <2>3. CASE j = n
    <3>1. writes'[j] = p /\ writes'[i] = writes[i] /\ writes[i] \in Written
      BY <2>1, <2>3, <1>4, <1>5
    <3>2. writes[i] \in Pressed
      BY <3>1, WrittenArePressed
    <3>3. handling[p] # "ended"
      BY <1>1
    <3>4. SameRow(press[p].form, press[writes[i]].form)
      BY <3>1, SameRowsAreShared
    <3> QED
      BY <3>1, <3>2, <3>3, <3>4 DEF ConsoleIsOrderly, LocksKeepTheOrder
  <2> QED
    BY <2>2, <2>3, <1>6
<1> QED
  BY <1>8, <1>9, <1>10, <1>12, <1>13, <1>15, <1>16 DEF ConsoleIsOrderly

\* Another client replaces the version only while no edit holds the lock.
LEMMA WriteElsewhereKeepsOrder ==
    ASSUME ConsoleIsOrderly, WriteElsewhere
    PROVE  ConsoleIsOrderly'
<1>1. /\ UNCHANGED <<shown, press, handling, answer, writes, Pressed, Written>>
      /\ ~Locked("edit") /\ version' = version + 1
  BY DEF WriteElsewhere, Pressed, Written
<1>2. \A q : Uncommitted(q)' <=> Uncommitted(q)
  BY <1>1 DEF Uncommitted, shown
<1>3. TypeOK'
  BY <1>1 DEF ConsoleIsOrderly, TypeOK, shown
<1>4. EditsFollowVersions'
  <2>1. \A q \in Pressed : press[q].form \in Versioned => ~Uncommitted(q)
    BY <1>1, VersionedShareTheRow DEF Locked, Versioned
  <2>2. \A q \in Pressed : press[q].base \in Nat
    BY PressesHaveFields DEF ConsoleIsOrderly
  <2>3. \A b \in Nat : b < version => b < version'
    BY <1>1 DEF ConsoleIsOrderly, TypeOK
  <2> QED
    BY <1>1, <1>2, <2>1, <2>2, <2>3 DEF ConsoleIsOrderly, EditsFollowVersions
<1>5. PressesAreRequests' /\ WishesAreKept' /\ RepeatsHaveCauses' /\ LocksKeepTheOrder'
  BY <1>1 DEF ConsoleIsOrderly, PressesAreRequests, WishesAreKept,
     RepeatsHaveCauses, LocksKeepTheOrder, shown
<1>6. WritesAreCommits' /\ AnswersAreJustified' /\ EditsApplyOnce' /\ AcknowledgedOrder'
  BY <1>1 DEF ConsoleIsOrderly, WritesAreCommits, AnswersAreJustified,
     EditsApplyOnce, AcknowledgedOrder, shown
<1> QED
  BY <1>3, <1>4, <1>5, <1>6 DEF ConsoleIsOrderly

-----------------------------------------------------------------------------
(* The theorems *)

\* Before a button is pressed there is nothing to order.
LEMMA ConsoleStartsOrderly ==
    ASSUME Init
    PROVE  ConsoleIsOrderly
<1>1. Pressed = {}
  BY DEF Init, Pressed
<1>2. writes = <<>> /\ Written = {} /\ DOMAIN writes = {}
  BY DEF Init, Written, Range
<1>3. TypeOK
  <2>1. writes \in Seq(Presses) /\ IsInjective(writes)
    BY <1>2 DEF IsInjective
  <2> QED
    BY <2>1 DEF Init, TypeOK
<1>5. PressesAreRequests /\ WritesAreCommits /\ AnswersAreJustified
  BY <1>1, <1>2 DEF Init, PressesAreRequests, WritesAreCommits, AnswersAreJustified
<1> QED
  BY <1>1, <1>2, <1>3, <1>5 DEF ConsoleIsOrderly, WishesAreKept,
     RepeatsHaveCauses, EditsFollowVersions, LocksKeepTheOrder,
     EditsApplyOnce, AcknowledgedOrder

\* The invariant is inductive.
LEMMA StepsKeepOrder ==
    ASSUME ConsoleIsOrderly, [Next]_vars
    PROVE  ConsoleIsOrderly'
<1>1. CASE \E t \in Tabs : Browser(t)
  <2>1. PICK t \in Tabs : Browser(t)
    BY <1>1
  <2>2. CASE Reload(t)
    BY <2>2, PagesKeepOrder, PagesChangeFates DEF ConsoleIsOrderly
  <2>3. CASE \E f \in Forms : Press(t, f)
    <3>1. PICK f \in Forms : Press(t, f)
      BY <2>3
    <3>2. \E p : NewPress(t, f, p) /\ Enabled(t, f)
      BY <3>1 DEF Press, NewPress
    <3> QED
      BY <3>2, PressKeepsOrder
  <2> QED
    BY <2>1, <2>2, <2>3 DEF Browser
<1>2. CASE \E p \in Presses : ShowAnswer(p) \/ Api(p) \/ TimeOut(p)
  <2>1. ASSUME NEW p \in Presses, ShowAnswer(p)
        PROVE  ConsoleIsOrderly'
    BY <2>1, PagesKeepOrder, AnswersChangeFates DEF ConsoleIsOrderly
  <2> QED
    BY <1>2, <2>1, ApiKeepsOrder, CommitKeepsOrder DEF Api
<1>3. CASE WriteElsewhere
  BY <1>3, WriteElsewhereKeepsOrder
<1>4. CASE UNCHANGED vars
  <2>1. UNCHANGED <<commitFirst, page, fate, press, handling, answer, version, writes>>
    BY <1>4 DEF vars, shown
  <2> QED
    BY <2>1 DEF ConsoleIsOrderly, TypeOK, PressesAreRequests, WritesAreCommits,
       AnswersAreJustified, WishesAreKept, RepeatsHaveCauses,
       EditsFollowVersions, LocksKeepTheOrder, EditsApplyOnce, AcknowledgedOrder,
       Pressed, Written, Uncommitted
<1> QED
  BY <1>1, <1>2, <1>3, <1>4 DEF Next

\* The console and the API stay in the order that the invariant describes.
LEMMA ConsoleStaysOrderly == Spec => []ConsoleIsOrderly
<1>1. Init => ConsoleIsOrderly
  BY ConsoleStartsOrderly
<1>2. ConsoleIsOrderly /\ [Next]_vars => ConsoleIsOrderly'
  BY StepsKeepOrder
<1> QED
  BY <1>1, <1>2, PTL DEF Spec

\* Every variable of the console keeps its type, and no press of a button is
\* committed twice.
THEOREM ConsoleTypes == Spec => []TypeOK
<1>1. ConsoleIsOrderly => TypeOK
  BY DEF ConsoleIsOrderly
<1> QED
  BY <1>1, ConsoleStaysOrderly, PTL

\* A version of a row is replaced by one edit of the console only, whatever
\* is sent again and in whatever order requests are handled (expected_version).
THEOREM EditsAreAppliedOnce == Spec => []EditsApplyOnce
<1>1. ConsoleIsOrderly => EditsApplyOnce
  BY DEF ConsoleIsOrderly
<1> QED
  BY <1>1, ConsoleStaysOrderly, PTL

\* A form inserts one wish twice only if its first press was reported as failed or
\* its page was left: a conflict is never written, and the button that inserts is
\* disabled as long as the page waits.
THEOREM DuplicatesAreExplained == Spec => []DuplicatesHaveCauses
<1>1. ConsoleIsOrderly => DuplicatesHaveCauses
  <2> SUFFICES ASSUME ConsoleIsOrderly, NEW p \in Written, NEW q \in Written, p < q,
                      Same("create", p, q)
               PROVE  answer[p] = "unavailable" \/ fate[p] = "left"
    BY DEF DuplicatesHaveCauses
  <2>1. p \in Pressed /\ q \in Pressed /\ p \in Presses
    BY WrittenArePressed DEF Pressed
  <2>2. answer[p] \in {"conflict", "unavailable"} \/ fate[p] = "left"
    BY <2>1 DEF ConsoleIsOrderly, RepeatsHaveCauses, Same
  <2> QED
    BY <2>1, <2>2 DEF ConsoleIsOrderly, AnswersAreJustified
<1> QED
  BY <1>1, ConsoleStaysOrderly, PTL

\* What was acknowledged before a button was pressed is not written on top of
\* what that press writes, whichever of commit and answer is first.
THEOREM AcknowledgedWritesStayFirst == Spec => []AcknowledgedOrder
<1>1. ConsoleIsOrderly => AcknowledgedOrder
  BY DEF ConsoleIsOrderly
<1> QED
  BY <1>1, ConsoleStaysOrderly, PTL

\* If the API commits before it answers, a page that shows a success has been
\* rendered with what was saved, and after an edit with a later version than the
\* one that was edited.
THEOREM SavedIsShown == Spec => OwnWritesAreShown
<1> DEFINE A == \A p \in Presses : commitFirst /\ SuccessShown(p) =>
        /\ p \in page'[press[p].tab].sees
        /\ press[p].form \in Versioned => page'[press[p].tab].version > press[p].base
<1>1. ConsoleIsOrderly /\ [Next]_vars => [A]_vars
  <2> SUFFICES ASSUME ConsoleIsOrderly, Next, NEW p \in Presses, commitFirst,
                      SuccessShown(p)
               PROVE  /\ p \in page'[press[p].tab].sees
                      /\ press[p].form \in Versioned =>
                            page'[press[p].tab].version > press[p].base
    OBVIOUS
  <2>1. p \in Written /\ p \in Pressed
    BY DEF SuccessShown, ConsoleIsOrderly, AnswersAreJustified, PressesAreRequests, Pressed
  <2>2. press[p].tab \in Tabs /\ press[p].base \in Nat
    BY <2>1, PressesHaveFields DEF ConsoleIsOrderly
  <2>3. Render(press[p].tab)
    BY ShowingASuccessRenders DEF ConsoleIsOrderly
  <2>4. page'[press[p].tab] = [version |-> version, sees |-> Written]
    BY <2>2, <2>3 DEF Render, ConsoleIsOrderly, TypeOK
  <2>5. press[p].form \in Versioned => press[p].base < version
    BY <2>1 DEF ConsoleIsOrderly, EditsFollowVersions
  <2>6. version \in Nat
    BY DEF ConsoleIsOrderly, TypeOK
  <2> QED
    BY <2>1, <2>2, <2>4, <2>5, <2>6
<1>2. OwnWritesAreShown <=> [][A]_vars
  BY DEF OwnWritesAreShown
<1> QED
  BY <1>1, <1>2, ConsoleStaysOrderly, PTL DEF Spec
=============================================================================
