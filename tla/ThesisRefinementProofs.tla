----------------------- MODULE ThesisRefinementProofs -----------------------
(***************************************************************************)
(* The interleaved transactions of ThesisMonitoring implement the one-step *)
(* requests of ThesisLedger: a CreateThesis is a Create, the commit of a   *)
(* PATCH an Update, the commit of an evaluation a Run with its draft, and  *)
(* every other step changes nothing the ledger sees.                       *)
(***************************************************************************)
EXTENDS ThesisRecordsProofs

-----------------------------------------------------------------------------
(* Steps of the ledger *)

\* Two actions change what the ledger sees.
LEMMA LedgerSteps ==
    ASSUME [Next]_vars
    PROVE  \/ \E t \in Theses : CreateThesis(t)
           \/ \E r \in Workers : Commit(r)
           \/ UNCHANGED <<thesis, history, evaluations, events>>
<1> DEFINE Same == UNCHANGED <<thesis, history, evaluations, events>>
<1>1. Environment => (\E t \in Theses : CreateThesis(t)) \/ Same
  BY DEF Environment, CreateCondition, Ingest
<1>2. ASSUME NEW r \in Workers, Begin(r) PROVE Same
  BY <1>2 DEF Begin, BeginEvaluate, BeginPatchThesis, BeginPatchCondition, database
<1>3. ASSUME NEW r \in Workers, Proceed(r) PROVE Commit(r) \/ Same
  BY <1>3 DEF Proceed, ReadThesis, ListConditions, LoadDailyBars, LoadFundamentals,
       LoadSeries, LoadPrior, SaveEvent, FinishConditions, Fail, database
<1>4. ASSUME NEW r \in Workers, Acquire(r) PROVE Same
  BY <1>4 DEF Acquire, WriteThesis, WriteCondition, SaveEvaluation, Fail, database
<1>5. ASSUME NEW r \in Workers, Rollback(r) PROVE Same
  BY <1>5 DEF Rollback, Fail, database
<1> QED
  BY <1>1, <1>2, <1>3, <1>4, <1>5 DEF Next, vars, database

\* The rows a commit writes follow the present row of the thesis.
LEMMA CommitAdvances ==
    ASSUME TypeOK, RequestsAreIsolated, NEW r \in Workers, Commit(r), draftThesis[r] # NoThesis
    PROVE  Ledger!Advance(request[r].thesis, draftThesis[r].status, update[r].trigger)
<1> DEFINE t   == request[r].thesis
           new == draftThesis[r]
           now == thesis[t]
<1>1. /\ t \in Theses /\ now # NoThesis
  BY DEF RequestsAreIsolated, ControlIsConsistent, Request, Commit
<1>2. now \in ThesisRow /\ new \in ThesisRow
  BY <1>1 DEF TypeOK
<1>3. seen[r] = now /\ new.version = now.version + 1 /\ MayBecome(now.status, new.status)
  BY DEF RequestsAreIsolated, DraftsFollowRows
<1>4. new = [status |-> new.status, version |-> now.version + 1]
  BY <1>2, <1>3 DEF ThesisRow
<1>5. /\ thesis' = [thesis EXCEPT ![t] = new]
      /\ history' = IF new.status = now.status THEN history
                    ELSE [history EXCEPT ![t] =
                            Append(@, [from |-> now.status, to |-> new.status,
                                       trigger |-> update[r].trigger])]
  BY <1>3 DEF Commit, WithStatusChange
<1>6. now.version > 0
  BY <1>2 DEF ThesisRow
<1> HIDE DEF t, new, now
<1>7. Ledger!MayBecome(now.status, new.status)
  BY <1>3 DEF MayBecome, Ledger!MayBecome, AllowedTransitions, Ledger!AllowedTransitions
<1> QED
  BY <1>4, <1>5, <1>6, <1>7 DEF Ledger!Advance, t, new, now

\* The commit of a PATCH updates its thesis, if it was about one.
LEMMA PatchIsUpdate ==
    ASSUME TypeOK, RequestsAreIsolated, NEW r \in Workers, Commit(r), DraftsFitRequest(r),
           ~Evaluating(r)
    PROVE  \/ /\ draftThesis[r] \in ThesisRow
              /\ Ledger!Update(request[r].thesis, draftThesis[r].status)
           \/ UNCHANGED Ledger!ledgerVars
<1>1. draftEvaluations[r] = {} /\ draftEvents[r] = {}
  BY DEF DraftsFitRequest, RequestsAreIsolated, RunsInvalidate, Evaluating
<1>2. UNCHANGED <<evaluations, events>>
  BY <1>1 DEF Commit
<1>3. update[r].trigger = {}
  BY DEF Commit, DraftsFitRequest
<1>4. CASE draftThesis[r] # NoThesis
  BY <1>2, <1>3, <1>4, CommitAdvances DEF Ledger!Update, TypeOK
<1>5. CASE draftThesis[r] = NoThesis
  BY <1>2, <1>5 DEF Commit, Ledger!ledgerVars
<1> QED
  BY <1>4, <1>5

\* The commit of an evaluation is a run with what it drafted, all of it new.
LEMMA EvaluationIsRun ==
    ASSUME TypeOK, RequestsAreIsolated, RecordsAreConsistent, InvalidationIsFinal,
           NEW r \in Workers, Commit(r), Evaluating(r)
    PROVE  Ledger!Run(request[r].thesis, evaluations' \ evaluations, events' \ events)
<1> DEFINE t == request[r].thesis
           E == draftEvaluations[r]
           V == draftEvents[r]
<1>1. /\ pc[r] = "commit" /\ DraftsFitRequest(r) /\ PeriodsAreUnique
      /\ CommittedEventsFit /\ DraftedEventsFit(r) /\ TriggersFit
      /\ RunsInvalidate /\ DraftsFollowRows /\ UpdatesAreChecked
  BY DEF Commit, RecordsAreConsistent, EventsFitEvaluations, RequestsAreIsolated
<1>2. evaluations' = evaluations \cup E /\ events' = events \cup V
  BY DEF Commit
<1>3. evaluations' \ evaluations = E
  BY <1>1, <1>2 DEF PeriodsAreUnique
<1>4. events' \ events = V
  <2>1. ASSUME NEW x \in events, NEW v \in V PROVE x # v
    <3>1. PICK e \in evaluations : Reports(x, e)
      BY <1>1 DEF CommittedEventsFit
    <3>2. PICK f \in E : Reports(v, f)
      BY <1>1 DEF DraftedEventsFit
    <3> QED
      BY <1>1, <3>1, <3>2 DEF Reports, PeriodsAreUnique
  <2> QED
    BY <1>2, <2>1
<1>5. Ledger!WellFormedRun(t, E, V)
  <2>1. \A e \in E : e.thesis = t
    BY <1>1 DEF DraftsFitRequest
  <2>2. \A e \in E : \A f \in evaluations \cup E : Period(e) = Period(f) => e = f
    BY <1>1 DEF PeriodsAreUnique
  <2>3. \A v \in V : \E e \in E : e.matched /\ Period(e) = Period(v) /\ v.thesis = t
    BY <1>1, <2>1 DEF DraftedEventsFit, Reports
  <2>4. \A e \in E : e.matched => \E v \in V : Period(v) = Period(e)
    BY <1>1 DEF DraftedEventsFit, Reports
  <2>5. \A v, w \in V : Period(v) = Period(w) => v = w
    BY <1>1 DEF DraftedEventsFit
  <2> QED
    BY <2>1, <2>2, <2>3, <2>4, <2>5 DEF Ledger!WellFormedRun, Ledger!Period, Period
<1>6. CASE draftThesis[r] # NoThesis
  <2>1. seen[r].status \in Monitorable /\ thesis[t].status \in Monitorable
    BY <1>1, <1>6 DEF UpdatesAreChecked, DraftsFollowRows, Evaluating
  <2>2. update[r].trigger # {}
    BY <1>1, <1>6 DEF DraftsFitRequest
  <2>3. PICK v \in events \cup V :
           /\ update[r].trigger = {Period(v)}
           /\ v.thesis = t /\ v.kind = "invalidation"
    BY <1>1, <2>2 DEF TriggersFit
  <2>4. v \in V
    BY <2>1, <2>3 DEF InvalidationIsFinal, Ledger!InvalidationIsFinal, Ledger!Invalidates,
         Ledger!Monitorable, Monitorable
  <2>5. draftThesis[r].status = "invalidated"
    BY <1>1, <2>2 DEF RunsInvalidate, Evaluating
  <2>6. Ledger!Advance(t, "invalidated", {Period(v)})
    BY <1>6, <2>3, <2>5, CommitAdvances
  <2> QED
    BY <1>2, <1>3, <1>4, <1>5, <2>1, <2>3, <2>4, <2>6
       DEF Ledger!Run, Ledger!Invalidates, Ledger!Monitorable, Monitorable,
           Ledger!Period, Period
<1>7. CASE draftThesis[r] = NoThesis
  <2>1. update[r].trigger = {}
    BY <1>1, <1>7 DEF RunsInvalidate, Evaluating
  <2>2. \A v \in V : v.kind # "invalidation"
    BY <1>1, <2>1 DEF RunsInvalidate
  <2>3. UNCHANGED <<thesis, history>>
    BY <1>7 DEF Commit
  <2> QED
    BY <1>2, <1>3, <1>4, <1>5, <2>2, <2>3 DEF Ledger!Run, Ledger!Invalidates
<1> QED
  BY <1>6, <1>7

\* Every step of the transactions is a step of the ledger or invisible to it.
LEMMA StepsOfTheLedger ==
    ASSUME TypeOK, RequestsAreIsolated, RecordsAreConsistent, InvalidationIsFinal, [Next]_vars
    PROVE  [Ledger!Next]_(Ledger!ledgerVars)
<1>1. ASSUME NEW t \in Theses, CreateThesis(t) PROVE Ledger!Next
  <2>1. Ledger!Create(t)
    BY <1>1 DEF CreateThesis, Ledger!Create, Ledger!NoThesis, NoThesis
  <2> QED
    BY <2>1 DEF Ledger!Next
<1>2. ASSUME NEW r \in Workers, Commit(r) PROVE [Ledger!Next]_(Ledger!ledgerVars)
  <2>1. request[r].thesis \in Theses
    BY <1>2 DEF Commit, RequestsAreIsolated, ControlIsConsistent, Request
  <2>2. CASE Evaluating(r)
    BY <1>2, <2>1, <2>2, EvaluationIsRun DEF Ledger!Next
  <2>3. CASE ~Evaluating(r)
    <3>1. \/ /\ draftThesis[r] \in ThesisRow
             /\ Ledger!Update(request[r].thesis, draftThesis[r].status)
          \/ UNCHANGED Ledger!ledgerVars
      BY <1>2, <2>3, PatchIsUpdate DEF RecordsAreConsistent
    <3> QED
      BY <2>1, <3>1 DEF Ledger!Next, ThesisRow, ThesisStatus, Ledger!ThesisStatus
  <2> QED
    BY <2>2, <2>3
<1>3. CASE UNCHANGED <<thesis, history, evaluations, events>>
  BY <1>3 DEF Ledger!ledgerVars
<1> QED
  BY <1>1, <1>2, <1>3, LedgerSteps

-----------------------------------------------------------------------------
(* The status history *)

\* The history of a thesis leads from active to its status in allowed steps.
HistoryFits(t) ==
    LET h == history[t]
        n == Len(h)
    IN  /\ thesis[t] = NoThesis => n = 0
        /\ \A i \in 1 .. n : h[i].to \in AllowedTransitions[h[i].from]
        /\ \A i \in 1 .. n : h[i].from = IF i = 1 THEN "active" ELSE h[i - 1].to
        /\ thesis[t] # NoThesis => thesis[t].status = IF n = 0 THEN "active" ELSE h[n].to

\* The triggers in the history of a thesis are its invalidation events.
TriggersFitHistory(t) ==
    \A i \in 1 .. Len(history[t]) : \A p \in history[t][i].trigger :
        /\ history[t][i].to = "invalidated"
        /\ \E v \in events : Period(v) = p /\ v.thesis = t /\ v.kind = "invalidation"

\* A request that advances a thesis extends its history by the change.
LEMMA AdvanceExtendsHistory ==
    ASSUME TypeOK, NEW t \in Theses, NEW s \in ThesisStatus, NEW trigger,
           Ledger!Advance(t, s, trigger), HistoryFits(t)
    PROVE  /\ HistoryFits(t)'
           /\ \/ history'[t] = history[t]
              \/ history'[t] = Append(history[t], [from |-> thesis[t].status, to |-> s,
                                                  trigger |-> trigger])
           /\ \A u \in Theses \ {t} : thesis'[u] = thesis[u] /\ history'[u] = history[u]
<1> DEFINE h      == history[t]
           now    == thesis[t]
           change == [from |-> now.status, to |-> s, trigger |-> trigger]
<1>1. /\ now.version > 0 /\ (s = now.status \/ s \in AllowedTransitions[now.status])
      /\ thesis' = [thesis EXCEPT ![t] = [status |-> s, version |-> now.version + 1]]
      /\ history' = IF s = now.status THEN history ELSE [history EXCEPT ![t] = Append(h, change)]
  BY DEF Ledger!Advance, Ledger!MayBecome, Ledger!AllowedTransitions, AllowedTransitions
<1>2. now # NoThesis /\ h \in Seq(StatusChange) /\ Len(h) \in Nat
  BY <1>1 DEF NoThesis, TypeOK
<1>3. /\ thesis'[t] = [status |-> s, version |-> now.version + 1]
      /\ thesis'[t] # NoThesis /\ thesis'[t].status = s
      /\ \A u \in Theses \ {t} : thesis'[u] = thesis[u] /\ history'[u] = history[u]
  <2>1. /\ thesis \in [Theses -> ThesisRow \cup {NoThesis}] /\ history \in [Theses -> Seq(StatusChange)]
        /\ now.version \in Int
    BY <1>2 DEF TypeOK, ThesisRow
  <2> HIDE DEF now, h, change
  <2> QED
    BY <1>1, <2>1 DEF NoThesis
<1>4. CASE s = now.status
  BY <1>1, <1>2, <1>3, <1>4 DEF HistoryFits
<1>5. CASE s # now.status
  <2>1. history'[t] = Append(h, change)
    BY <1>1, <1>5 DEF TypeOK
  <2>2. change.from = now.status /\ change.to = s
    OBVIOUS
  <2> HIDE DEF change
  <2>3. /\ Len(history'[t]) = Len(h) + 1 /\ history'[t][Len(h) + 1] = change
        /\ \A i \in 1 .. Len(h) : history'[t][i] = h[i]
    BY <1>2, <2>1
  <2>4. now.status = IF Len(h) = 0 THEN "active" ELSE h[Len(h)].to
    BY <1>2 DEF HistoryFits
  <2>5. \A i \in 1 .. Len(h) + 1 : i \in 1 .. Len(h) \/ i = Len(h) + 1
    BY <1>2
  <2>6. ASSUME NEW i \in 1 .. Len(h) + 1
        PROVE  /\ history'[t][i].to \in AllowedTransitions[history'[t][i].from]
               /\ history'[t][i].from = IF i = 1 THEN "active" ELSE history'[t][i - 1].to
    <3>1. CASE i = Len(h) + 1
      BY <1>1, <1>2, <1>5, <2>2, <2>3, <2>4, <3>1
    <3>2. CASE i \in 1 .. Len(h)
      <4>1. /\ h[i].to \in AllowedTransitions[h[i].from]
            /\ h[i].from = IF i = 1 THEN "active" ELSE h[i - 1].to
        BY <3>2 DEF HistoryFits
      <4>2. history'[t][i] = h[i] /\ (i # 1 => history'[t][i - 1] = h[i - 1])
        <5>1. i # 1 => i - 1 \in 1 .. Len(h)
          BY <1>2, <3>2
        <5> QED
          BY <2>3, <3>2, <5>1
      <4> QED
        BY <4>1, <4>2
    <3> QED
      BY <2>5, <3>1, <3>2
  <2> QED
    BY <1>2, <1>3, <2>1, <2>2, <2>3, <2>6 DEF HistoryFits, change
<1> QED
  BY <1>3, <1>4, <1>5, <1>1 DEF TypeOK

\* A request that advances a thesis with a trigger that is one of its
\* invalidation events keeps the triggers of its history so.
LEMMA AdvanceKeepsTriggers ==
    ASSUME TypeOK, NEW t \in Theses, NEW s \in ThesisStatus, NEW trigger,
           Ledger!Advance(t, s, trigger), HistoryFits(t), TriggersFitHistory(t),
           events \subseteq events',
           \A p \in trigger :
              /\ s = "invalidated"
              /\ \E v \in events' : Period(v) = p /\ v.thesis = t /\ v.kind = "invalidation"
    PROVE  TriggersFitHistory(t)'
<1> DEFINE h      == history[t]
           change == [from |-> thesis[t].status, to |-> s, trigger |-> trigger]
<1>1. history'[t] = h \/ history'[t] = Append(h, change)
  BY AdvanceExtendsHistory
<1>2. h \in Seq(StatusChange) /\ change.to = s /\ change.trigger = trigger
  BY DEF TypeOK
<1> HIDE DEF change
<1>3. ASSUME NEW i \in 1 .. Len(history'[t])
      PROVE  \/ i \in 1 .. Len(h) /\ history'[t][i] = h[i]
             \/ history'[t][i] = change
  BY <1>1, <1>2
<1>4. ASSUME NEW i \in 1 .. Len(history'[t]), NEW p \in history'[t][i].trigger
      PROVE  /\ history'[t][i].to = "invalidated"
             /\ \E v \in events' : Period(v) = p /\ v.thesis = t /\ v.kind = "invalidation"
  BY <1>2, <1>3, <1>4 DEF TriggersFitHistory
<1> QED
  BY <1>4 DEF TriggersFitHistory, Period

\* Every request of the ledger keeps histories and triggers fitting.
LEMMA HistoriesStayFitting ==
    ASSUME TypeOK, TypeOK', [Ledger!Next]_(Ledger!ledgerVars),
           \A t \in Theses : HistoryFits(t) /\ TriggersFitHistory(t)
    PROVE  \A t \in Theses : HistoryFits(t)' /\ TriggersFitHistory(t)'
<1>1. ASSUME events \subseteq events',
             NEW u \in Theses, thesis'[u] = thesis[u], history'[u] = history[u]
      PROVE  HistoryFits(u)' /\ TriggersFitHistory(u)'
  BY <1>1 DEF HistoryFits, TriggersFitHistory, Period
<1>2. ASSUME NEW t \in Theses, NEW s \in ThesisStatus, NEW trigger,
             Ledger!Advance(t, s, trigger), events \subseteq events',
             \A p \in trigger :
                /\ s = "invalidated"
                /\ \E v \in events' : Period(v) = p /\ v.thesis = t /\ v.kind = "invalidation",
             NEW u \in Theses
      PROVE  HistoryFits(u)' /\ TriggersFitHistory(u)'
  <2>1. HistoryFits(t)' /\ TriggersFitHistory(t)'
    BY <1>2, AdvanceExtendsHistory, AdvanceKeepsTriggers
  <2>2. CASE u # t
    BY <1>1, <1>2, <2>2, AdvanceExtendsHistory
  <2> QED
    BY <2>1, <2>2
<1>3. ASSUME NEW t \in Theses, Ledger!Create(t), NEW u \in Theses
      PROVE  HistoryFits(u)' /\ TriggersFitHistory(u)'
  <2>1. /\ thesis[t] = NoThesis /\ events' = events /\ history' = history
        /\ thesis' = [thesis EXCEPT ![t] = [status |-> "active", version |-> 1]]
    BY <1>3 DEF Ledger!Create, Ledger!NoThesis, NoThesis
  <2>2. CASE u # t
    BY <1>1, <2>1, <2>2 DEF TypeOK
  <2>3. CASE u = t
    <3>1. thesis'[t].status = "active" /\ thesis'[t] # NoThesis
      BY <2>1 DEF TypeOK, NoThesis
    <3>2. history'[t] = history[t] /\ history[t] \in Seq(StatusChange) /\ Len(history[t]) = 0
      BY <2>1 DEF HistoryFits, TypeOK
    <3> QED
      BY <2>3, <3>1, <3>2 DEF HistoryFits, TriggersFitHistory
  <2> QED
    BY <2>2, <2>3
<1>4. ASSUME NEW t \in Theses, NEW s \in Ledger!ThesisStatus, Ledger!Update(t, s),
             NEW u \in Theses
      PROVE  HistoryFits(u)' /\ TriggersFitHistory(u)'
  BY <1>2, <1>4 DEF Ledger!Update, Ledger!ThesisStatus, ThesisStatus
<1>5. ASSUME NEW t \in Theses, Ledger!Run(t, evaluations' \ evaluations, events' \ events),
             NEW u \in Theses
      PROVE  HistoryFits(u)' /\ TriggersFitHistory(u)'
  <2> DEFINE V == events' \ events
  <2>1. events' = events \cup V
    BY <1>5 DEF Ledger!Run
  <2>2. CASE UNCHANGED <<thesis, history>>
    BY <1>1, <2>1, <2>2
  <2>3. ASSUME NEW v \in V, Ledger!Invalidates(v),
               Ledger!Advance(t, "invalidated", {Ledger!Period(v)})
        PROVE  HistoryFits(u)' /\ TriggersFitHistory(u)'
    <3>1. v.thesis = t /\ v.kind = "invalidation"
      BY <1>5, <2>3 DEF Ledger!Run, Ledger!WellFormedRun, Ledger!Invalidates
    <3>2. Ledger!Period(v) = Period(v)
      BY DEF Ledger!Period, Period
    <3> QED
      BY <1>2, <2>1, <2>3, <3>1, <3>2 DEF ThesisStatus
  <2> QED
    BY <1>5, <2>2, <2>3 DEF Ledger!Run
<1>6. CASE UNCHANGED Ledger!ledgerVars
  BY <1>1, <1>6 DEF Ledger!ledgerVars
<1> QED
  BY <1>3, <1>4, <1>5, <1>6 DEF Ledger!Next

-----------------------------------------------------------------------------
(* Theorems *)

\* Transactions of many statements that interleave, wait for locks and fail
\* behave like requests of one step.
THEOREM LedgerRefinement == Spec => LedgerSpec
<1>1. Init => Ledger!Init
  BY DEF Init, Ledger!Init, NoThesis, Ledger!NoThesis
<1>2. TypeOK /\ RequestsAreIsolated /\ RecordsAreConsistent /\ InvalidationIsFinal
        /\ [Next]_vars => [Ledger!Next]_(Ledger!ledgerVars)
  BY StepsOfTheLedger
<1> QED
  BY <1>1, <1>2, RecordConsistency, InvalidationFinality, PTL DEF Spec, LedgerSpec, Ledger!Spec

HistoriesFit == \A t \in Theses : HistoryFits(t) /\ TriggersFitHistory(t)

LEMMA HistoriesAlwaysFit == Spec => []HistoriesFit
<1>1. Init => HistoriesFit
  <2> SUFFICES ASSUME Init, NEW t \in Theses PROVE HistoryFits(t) /\ TriggersFitHistory(t)
    BY DEF HistoriesFit
  <2>1. thesis[t] = NoThesis /\ history[t] = <<>> /\ Len(history[t]) = 0
    BY DEF Init
  <2> QED
    BY <2>1 DEF HistoryFits, TriggersFitHistory
<1>2. TypeOK /\ TypeOK' /\ RequestsAreIsolated /\ RecordsAreConsistent /\ InvalidationIsFinal
        /\ HistoriesFit /\ [Next]_vars => HistoriesFit'
  BY StepsOfTheLedger, HistoriesStayFitting DEF HistoriesFit
<1> QED
  BY <1>1, <1>2, RecordConsistency, InvalidationFinality, PTL DEF Spec

\* The history explains the status of a thesis, whatever runs, PATCH requests
\* and failures interleave.
THEOREM HistoryOfStatus == Spec => []HistoryExplainsStatus
<1>1. HistoriesFit => HistoryExplainsStatus
  BY DEF HistoriesFit, HistoryFits, HistoryExplainsStatus, Ledger!HistoryExplainsStatus,
       AllowedTransitions, Ledger!AllowedTransitions, NoThesis, Ledger!NoThesis
<1> QED
  BY <1>1, HistoriesAlwaysFit, PTL

\* What the history gives as the trigger of a status change is a recorded
\* invalidation event.
THEOREM TriggersOfStatus == Spec => []TriggersAreRecorded
<1>1. HistoriesFit => TriggersAreRecorded
  BY DEF HistoriesFit, TriggersFitHistory, TriggersAreRecorded, Ledger!TriggersAreRecorded,
       Ledger!Invalidates, Ledger!Period, Period
<1> QED
  BY <1>1, HistoriesAlwaysFit, PTL
=============================================================================
