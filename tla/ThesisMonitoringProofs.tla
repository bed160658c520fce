----------------------- MODULE ThesisMonitoringProofs -----------------------
(***************************************************************************)
(* Theorems about ThesisMonitoring for any number of workers, theses,      *)
(* conditions and observations: requests are isolated, every variable      *)
(* keeps its type, and a committed invalidation is final.                  *)
(***************************************************************************)
EXTENDS ThesisMonitoringInvariant, FiniteSetTheorems, WellFoundedInduction, TLAPS

-----------------------------------------------------------------------------
(* Lemmas about the operators *)

\* A metric that has a value on some day has one on a latest day.
LEMMA LatestDayIsUsable ==
    ASSUME NEW data, Usable(data) # {}
    PROVE  /\ LatestDay(data) \in Usable(data)
           /\ LatestDay(data) \in Day
           /\ data[LatestDay(data)] \in Int
<1> DEFINE R == {MaxDay - d : d \in Usable(data)}
           Less == OpToRel(<, Nat)
<1>1. MaxDay \in Nat
  BY BoundsAreNatural
<1>2. Usable(data) \subseteq 1 .. MaxDay
  BY DEF Usable, Days
<1>3. R \subseteq Nat /\ R # {}
  BY <1>1, <1>2
<1>4. \A i, j \in Nat : i < j => <<i, j>> \in Less
  BY DEF OpToRel
<1>5. IsWellFoundedOn(Less, Nat)
  BY NatLessThanWellFounded
<1> HIDE DEF Less
<1>6. PICK m \in R : \A n \in R : ~(<<n, m>> \in Less)
  <2> HIDE DEF R
  <2> QED
    BY <1>3, <1>5, WFMin, Zenon
<1>7. \A n \in R : ~(n < m)
  <2> HIDE DEF R
  <2> QED
    BY <1>3, <1>4, <1>6
<1>8. PICK d \in Usable(data) : m = MaxDay - d
  BY <1>6
<1>9. \A e \in Usable(data) : e <= d
  <2> SUFFICES ASSUME NEW e \in Usable(data) PROVE e <= d
    OBVIOUS
  <2>1. ~(MaxDay - e < MaxDay - d)
    BY <1>7, <1>8
  <2> QED
    BY <1>1, <1>2, <2>1
<1>10. LatestDay(data) \in Usable(data)
  BY <1>9 DEF LatestDay
<1> QED
  BY <1>1, <1>2, <1>10 DEF Usable, Day

\* A condition is evaluated only if its metric has a value.
LEMMA EnoughMeansSome ==
    ASSUME NEW data, NEW metric \in Metrics,
           Cardinality(Usable(data)) >= RequiredObservations[metric]
    PROVE  Usable(data) # {}
<1>1. RequiredObservations[metric] \in Nat \ {0}
  BY RegistryIsTotal
<1>2. Cardinality({}) = 0
  BY FS_EmptySet
<1> QED
  BY <1>1, <1>2

\* The running count stays between 0 and the bound of the CHECK constraint.
LEMMA CountIsBounded ==
    ASSUME NEW rule \in Rule, NEW matches \in BOOLEAN, NEW evals \in SUBSET Evaluation,
           \A e, f \in evals : e.asOf = f.asOf
    PROVE  ConsecutivePeriods(matches, rule.periods, evals) \in 0 .. MaxPeriods
<1>1. rule.periods \in 1 .. MaxPeriods
  BY DEF Rule
<1>2. CASE evals = {}
  BY <1>1, <1>2 DEF ConsecutivePeriods, MaxPeriods
<1>3. CASE evals # {}
  <2>1. LatestOf(evals) # {} /\ LatestOf(evals) \subseteq Evaluation
    BY <1>3 DEF LatestOf, Evaluation, Day
  <2> DEFINE previous == CHOOSE e \in LatestOf(evals) : TRUE
  <2>2. previous.count \in 0 .. MaxPeriods
    BY <2>1 DEF Evaluation
  <2> HIDE DEF previous
  <2>3. Capped(previous.count + 1, rule.periods) \in 0 .. MaxPeriods
    BY <1>1, <2>2 DEF Capped, MaxPeriods
  <2> QED
    BY <1>1, <2>3 DEF ConsecutivePeriods, MaxPeriods, previous
<1> QED
  BY <1>2, <1>3

\* The data of the metric a request evaluates.
LEMMA SeriesAreData ==
    ASSUME TypeOK, NEW r \in Workers, NEW row \in ConditionRow
    PROVE  /\ MetricOf(row) \in Metrics
           /\ InputKind[MetricOf(row)] \in InputKinds
           /\ SeriesFor(r, row) \in [Days -> Observation]
BY RegistryIsTotal DEF TypeOK, Series, MetricOf, SeriesFor, ConditionRow, Definition, Rule

\* What an evaluation records is well typed.
LEMMA CandidateIsEvaluation ==
    ASSUME TypeOK, ControlIsConsistent, EvaluationsAreReady, NEW r \in Workers,
           pc[r] \in {"save_evaluation", "save_event"}
    PROVE  Candidate(r) \in Evaluation
<1> DEFINE row  == current[r]
           rule == row.definition.rule
           data == SeriesFor(r, row)
           asOf == LatestDay(data)
<1>1. row \in ConditionRow /\ Usable(data) # {}
  BY DEF TypeOK, EvaluationsAreReady, HasMetric
<1>2. rule \in Rule
  BY <1>1 DEF ConditionRow, Definition
<1>3. asOf \in Day /\ data[asOf] \in Int
  BY <1>1, LatestDayIsUsable
<1>4. request[r].source \in Sources
  BY DEF TypeOK, ControlIsConsistent, EvaluationLabels, Request
<1>5. prior[r] \in SUBSET Evaluation /\ \A e, f \in prior[r] : e.asOf = f.asOf
  BY DEF TypeOK, EvaluationsAreReady
<1>6. Satisfies(data[asOf], rule) \in BOOLEAN
  BY DEF Satisfies, CompareValues
<1> HIDE DEF asOf, data
<1>7. ConsecutivePeriods(Satisfies(data[asOf], rule), rule.periods, prior[r]) \in 0 .. MaxPeriods
  BY <1>2, <1>5, <1>6, CountIsBounded
<1>8. row.thesis \in Theses /\ row.id \in Conditions /\ row.version \in Nat \ {0}
  BY <1>1 DEF ConditionRow
<1>9. EvaluateCondition(row, asOf, data[asOf], request[r].source, prior[r]) \in Evaluation
  BY <1>2, <1>3, <1>4, <1>7, <1>8 DEF EvaluateCondition, Evaluation
<1> QED
  BY <1>9 DEF Candidate, data, asOf

-----------------------------------------------------------------------------
(* Types *)

\* The empty database with idle workers is well typed.
LEMMA InitIsTyped == Init => TypeOK
BY DEF Init, TypeOK, NoSeries, Series, Observation, Labels, UpdateCall, NoUpdate

\* The end of a request leaves its variables well typed.
LEMMA EndIsTyped ==
    ASSUME TypeOK, NEW r \in Workers, EndRequest(r)
    PROVE  /\ pc' \in [Workers -> Labels]
           /\ request' \in [Workers -> Request \cup {NoRequest}]
           /\ seen' \in [Workers -> ThesisRow \cup {NoThesis}]
           /\ todo' \in [Workers -> SUBSET ConditionRow]
           /\ current' \in [Workers -> ConditionRow \cup {NoCondition}]
           /\ series' \in [Workers -> Series]
           /\ prior' \in [Workers -> SUBSET Evaluation]
           /\ update' \in [Workers -> UpdateCall]
           /\ draftThesis' \in [Workers -> ThesisRow \cup {NoThesis}]
           /\ draftCondition' \in [Workers -> ConditionRow \cup {NoCondition}]
           /\ draftEvaluations' \in [Workers -> SUBSET Evaluation]
           /\ draftEvents' \in [Workers -> SUBSET Event]
BY DEF TypeOK, EndRequest, NoSeries, Series, Observation, Labels, UpdateCall, NoUpdate

\* Leaving a condition for the next one keeps the types it changes.
LEMMA DoneIsTyped ==
    ASSUME TypeOK, NEW r \in Workers, Done(r)
    PROVE  /\ pc' \in [Workers -> Labels]
           /\ todo' \in [Workers -> SUBSET ConditionRow]
           /\ current' \in [Workers -> ConditionRow \cup {NoCondition}]
           /\ prior' \in [Workers -> SUBSET Evaluation]
BY DEF TypeOK, Done, Goto, Labels

\* A rolled back request leaves well-typed variables.
LEMMA FailIsTyped ==
    ASSUME TypeOK, NEW r \in Workers, Fail(r)
    PROVE  TypeOK'
BY EndIsTyped DEF TypeOK, Fail, database

\* Loading the series of one input kind keeps the types.
LEMMA LoadSeriesIsTyped ==
    ASSUME TypeOK, NEW r \in Workers, NEW k \in InputKinds, NEW next \in Labels,
           pc[r] \in EvaluationLabels, ControlIsConsistent, LoadSeries(r, k, next)
    PROVE  TypeOK'
<1>1. request[r].source \in Sources
  BY DEF TypeOK, ControlIsConsistent, EvaluationLabels, Request
<1>2. stored[request[r].source][k] \in [Days -> Observation]
  BY <1>1 DEF TypeOK, Series
<1>3. CASE ~Fail(r)
  <2>1. series' \in [Workers -> Series]
    <3>1. [series[r] EXCEPT ![k] = stored[request[r].source][k]] \in Series
      BY <1>2 DEF TypeOK, Series
    <3>2. series' = series
            \/ series' = [series EXCEPT ![r] = [series[r] EXCEPT ![k] = stored[request[r].source][k]]]
      BY <1>3 DEF LoadSeries, TypeOK
    <3> QED
      BY <3>1, <3>2 DEF TypeOK
  <2> QED
    BY <1>3, <2>1 DEF TypeOK, LoadSeries, Goto, database, drafts
<1> QED
  BY <1>3, FailIsTyped

\* A commit replaces the thesis row and appends to its history.
LEMMA CommitOfThesisIsTyped ==
    ASSUME TypeOK, ControlIsConsistent, DraftsFollowRows, NEW r \in Workers, Commit(r)
    PROVE  /\ thesis' \in [Theses -> ThesisRow \cup {NoThesis}]
           /\ history' \in [Theses -> Seq(StatusChange)]
<1>1. CASE draftThesis[r] = NoThesis
  BY <1>1 DEF TypeOK, Commit
<1>2. CASE draftThesis[r] # NoThesis
  <2> DEFINE t == request[r].thesis
             change == [from    |-> seen[r].status,
                        to      |-> draftThesis[r].status,
                        trigger |-> update[r].trigger]
  <2>1. t \in Theses
    BY DEF Commit, ControlIsConsistent, Request
  <2>2. draftThesis[r] \in ThesisRow /\ seen[r] \in ThesisRow
    BY <1>2 DEF TypeOK, DraftsFollowRows
  <2>3. change \in StatusChange
    BY <2>2 DEF ThesisRow, StatusChange, TypeOK, UpdateCall
  <2>4. thesis' = [thesis EXCEPT ![t] = draftThesis[r]] /\ history' = WithStatusChange(r)
    BY <1>2 DEF Commit
  <2>5. history[t] \in Seq(StatusChange)
    BY <2>1 DEF TypeOK
  <2>6. history' = history \/ history' = [history EXCEPT ![t] = Append(history[t], change)]
    BY <2>1, <2>4 DEF WithStatusChange, TypeOK
  <2> HIDE DEF change
  <2>7. Append(history[t], change) \in Seq(StatusChange)
    BY <2>3, <2>5
  <2> QED
    BY <2>1, <2>2, <2>4, <2>6, <2>7 DEF TypeOK
<1> QED
  BY <1>1, <1>2

\* Every step keeps the types.
LEMMA TypesArePreserved ==
    ASSUME TypeOK, ControlIsConsistent, EvaluationsAreReady, DraftsFollowRows, [Next]_vars
    PROVE  TypeOK'
<1>1. ASSUME NEW t \in Theses, CreateThesis(t) PROVE TypeOK'
  BY <1>1 DEF TypeOK, CreateThesis, ThesisRow, ThesisStatus, reads, drafts
<1>2. ASSUME NEW c \in Conditions, NEW t \in Theses, NEW d \in Definitions,
             CreateCondition(c, t, d)
      PROVE  TypeOK'
  BY <1>2, InputsAreValid DEF TypeOK, CreateCondition, ConditionRow, VersionRow, reads, drafts
<1>3. ASSUME NEW o \in Feed, Ingest(o) PROVE TypeOK'
  <2>1. o.source \in Sources /\ o.kind \in InputKinds /\ o.day \in Days
          /\ o.value \in Observation
    BY InputsAreValid DEF Observation
  <2> QED
    BY <1>3, <2>1 DEF TypeOK, Ingest, Series, reads, drafts
<1>4. ASSUME NEW r \in Workers, Begin(r) PROVE TypeOK'
  <2>1. ASSUME NEW t \in Theses, NEW src \in Sources, BeginEvaluate(r, t, src) PROVE TypeOK'
    BY <1>4, <2>1 DEF TypeOK, BeginEvaluate, Goto, Labels, Request, database, drafts
  <2>2. ASSUME NEW t \in Theses, NEW status \in PatchStatuses,
               NEW expected \in 1 .. thesis[t].version,
               BeginPatchThesis(r, t, expected, status)
        PROVE  TypeOK'
    <3>1. [expected |-> expected, status |-> status, trigger |-> {}] \in UpdateCall
      BY InputsAreValid DEF UpdateCall, TypeOK, ThesisRow, NoThesis
    <3> QED
      BY <2>2, <3>1 DEF TypeOK, BeginPatchThesis, Goto, Labels, Request, database, drafts
  <2>3. ASSUME NEW c \in Conditions, BeginPatchCondition(r, c) PROVE TypeOK'
    <3>1. condition[c] \in ConditionRow
      BY <2>3 DEF BeginPatchCondition, TypeOK
    <3>2. [NoUpdate EXCEPT !.expected = condition[c].version] \in UpdateCall
      BY <3>1 DEF UpdateCall, NoUpdate, ConditionRow
    <3>3. condition[c].thesis \in Theses
      BY <3>1 DEF ConditionRow
    <3> QED
      BY <2>3, <3>1, <3>2, <3>3
         DEF TypeOK, BeginPatchCondition, Goto, Labels, Request, database, drafts
  <2> QED
    BY <1>4, <2>1, <2>2, <2>3 DEF Begin
<1>5. ASSUME NEW r \in Workers, Proceed(r) PROVE TypeOK'
  <2>1. CASE ReadThesis(r)
    <3> DEFINE row == thesis[request[r].thesis]
    <3>1. row \in ThesisRow \cup {NoThesis}
      BY <2>1 DEF TypeOK, ControlIsConsistent, ReadThesis, Request
    <3>2. CASE UpdateIsValid(row, update[r])
      BY <2>1, <3>1, <3>2 DEF TypeOK, ReadThesis, Goto, Labels, database, drafts
    <3>3. CASE ~UpdateIsValid(row, update[r])
      BY <2>1, <3>3, FailIsTyped DEF ReadThesis
    <3> QED
      BY <3>2, <3>3
  <2>2. CASE ListConditions(r)
    BY <2>2 DEF TypeOK, ListConditions, EnabledConditions, ConditionsOf, Goto, Labels,
                database, drafts
  <2>3. CASE LoadDailyBars(r)
    BY <2>3, LoadSeriesIsTyped DEF LoadDailyBars, InputKinds, Labels, EvaluationLabels
  <2>4. CASE LoadFundamentals(r)
    BY <2>4, LoadSeriesIsTyped DEF LoadFundamentals, InputKinds, Labels, EvaluationLabels
  <2>5. CASE LoadPrior(r)
    <3>1. PICK row \in FirstOf(todo[r]) :
            IF Cardinality(Usable(SeriesFor(r, row))) >= RequiredObservations[MetricOf(row)]
            THEN /\ current' = [current EXCEPT ![r] = row]
                 /\ prior' = [prior EXCEPT ![r] =
                       IF row.definition.rule.periods = 1 THEN {}
                       ELSE Earlier(VisibleEvaluations(r), row, LatestDay(SeriesFor(r, row)))]
                 /\ Goto(r, "save_evaluation")
                 /\ UNCHANGED <<database, request, seen, todo, series, update, drafts>>
            ELSE Fail(r)
      BY <2>5 DEF LoadPrior
    <3>2. row \in ConditionRow
      BY DEF FirstOf, TypeOK
    <3>3. Earlier(VisibleEvaluations(r), row, LatestDay(SeriesFor(r, row))) \in SUBSET Evaluation
      BY DEF Earlier, LatestOf, VisibleEvaluations, TypeOK
    <3> HIDE DEF TypeOK
    <3>4. CASE ~Fail(r)
      <4>1. /\ current' = [current EXCEPT ![r] = row]
            /\ prior' = [prior EXCEPT ![r] =
                  IF row.definition.rule.periods = 1 THEN {}
                  ELSE Earlier(VisibleEvaluations(r), row, LatestDay(SeriesFor(r, row)))]
            /\ pc' = [pc EXCEPT ![r] = "save_evaluation"]
            /\ UNCHANGED <<database, request, seen, todo, series, update, drafts>>
        BY <3>1, <3>4 DEF Goto
      <4>2. prior' \in [Workers -> SUBSET Evaluation]
        BY <3>3, <4>1 DEF TypeOK
      <4>3. /\ current' \in [Workers -> ConditionRow \cup {NoCondition}]
            /\ pc' \in [Workers -> Labels]
        BY <3>2, <4>1 DEF TypeOK, Labels
      <4> QED
        BY <4>1, <4>2, <4>3 DEF TypeOK, database, drafts
    <3> QED
      BY <3>4, FailIsTyped
  <2>6. CASE SaveEvent(r)
    <3>1. PICK saved \in VisibleEvaluations(r) :
            /\ draftEvents' =
                  IF ExistingEvent(VisibleEvents(r), saved) # {} THEN draftEvents
                  ELSE [draftEvents EXCEPT ![r] =
                          @ \cup {EventOf(current[r], saved, request[r].source)}]
            /\ update' =
                  IF IsInvalidation(current[r]) /\ update[r].trigger = {}
                  THEN [update EXCEPT ![r].trigger = {Period(saved)}]
                  ELSE update
      BY <2>6 DEF SaveEvent
    <3>2. saved \in Evaluation
      BY DEF VisibleEvaluations, TypeOK
    <3>3. Period(saved) \in PeriodId
      BY <3>2 DEF Period, PeriodId, Evaluation
    <3>4. /\ current[r] \in ConditionRow
          /\ request[r].source \in Sources
      <4>1. pc[r] = "save_event"
        BY <2>6 DEF SaveEvent
      <4>2. current[r] \in ConditionRow
        BY <4>1 DEF TypeOK, EvaluationsAreReady
      <4>3. request[r] \in Request /\ request[r].kind = "evaluate"
        BY <4>1 DEF ControlIsConsistent, EvaluationLabels
      <4> QED
        BY <4>2, <4>3 DEF Request
    <3>5. EventOf(current[r], saved, request[r].source) \in Event
      BY <3>2, <3>4 DEF EventOf, Event, Evaluation, ConditionRow, Definition
    <3>6. draftEvents' \in [Workers -> SUBSET Event]
      BY <3>1, <3>5 DEF TypeOK
    <3>7. update' \in [Workers -> UpdateCall]
      <4>1. [update[r] EXCEPT !.trigger = {Period(saved)}] \in UpdateCall
        <5>1. update[r] \in UpdateCall
          BY DEF TypeOK
        <5> QED
          BY <3>3, <5>1 DEF UpdateCall
      <4>2. \/ update' = update
            \/ update' = [update EXCEPT ![r] = [update[r] EXCEPT !.trigger = {Period(saved)}]]
        BY <3>1 DEF TypeOK
      <4> QED
        BY <4>1, <4>2 DEF TypeOK
    <3> QED
      <4>1. Done(r) /\ UNCHANGED <<database, request, seen, series,
                                   draftThesis, draftCondition, draftEvaluations>>
        BY <2>6 DEF SaveEvent
      <4> QED
        BY <3>6, <3>7, <4>1, DoneIsTyped DEF TypeOK, database
  <2>7. CASE FinishConditions(r)
    <3> DEFINE call == [update[r] EXCEPT !.expected = seen[r].version,
                                         !.status = "invalidated"]
    <3>1. call \in UpdateCall
      <4>1. seen[r].version \in Nat
        BY DEF TypeOK, ThesisRow, NoThesis
      <4>2. update[r] \in UpdateCall
        BY DEF TypeOK
      <4> QED
        BY <4>1, <4>2 DEF UpdateCall, ThesisStatus
    <3>2. update' = update \/ update' = [update EXCEPT ![r] = call]
      BY <2>7 DEF FinishConditions, TypeOK
    <3> HIDE DEF call
    <3>3. update' \in [Workers -> UpdateCall]
      BY <3>1, <3>2 DEF TypeOK
    <3> QED
      BY <2>7, <3>3 DEF TypeOK, FinishConditions, Goto, Labels, database, drafts
  <2>8. CASE Commit(r)
    <3>1. /\ thesis' \in [Theses -> ThesisRow \cup {NoThesis}]
          /\ history' \in [Theses -> Seq(StatusChange)]
      BY <2>8, CommitOfThesisIsTyped
    <3>2. /\ condition' \in [Conditions -> ConditionRow \cup {NoCondition}]
          /\ versions' \subseteq ConditionRow
      <4>1. CASE draftCondition[r] = NoCondition
        BY <2>8, <4>1 DEF TypeOK, Commit
      <4>2. CASE draftCondition[r] # NoCondition
        <5>1. draftCondition[r] \in ConditionRow
          BY <4>2 DEF TypeOK
        <5> QED
          BY <2>8, <4>2, <5>1 DEF TypeOK, Commit, VersionRow
      <4> QED
        BY <4>1, <4>2
    <3>3. /\ evaluations' \subseteq Evaluation
          /\ events' \subseteq Event
          /\ stored' \in [Sources -> Series]
      BY <2>8 DEF TypeOK, Commit
    <3> QED
      <4>1. EndRequest(r)
        BY <2>8 DEF Commit
      <4> QED
        BY <3>1, <3>2, <3>3, <4>1, EndIsTyped DEF TypeOK
  <2> QED
    BY <1>5, <2>1, <2>2, <2>3, <2>4, <2>5, <2>6, <2>7, <2>8 DEF Proceed
<1>6. ASSUME NEW r \in Workers, Acquire(r) PROVE TypeOK'
  <2>1. CASE WriteThesis(r)
    <3>1. request[r].kind \in {"evaluate", "patch_thesis"} /\ request[r].thesis \in Theses
      BY <2>1 DEF TypeOK, ControlIsConsistent, WriteThesis, Request
    <3> DEFINE row == thesis[request[r].thesis]
               new == [status |-> StatusAfter(row, update[r]), version |-> update[r].expected + 1]
    <3>2. CASE MatchVersion(row, update[r].expected)
      <4>1. row \in ThesisRow
        BY <2>1, <3>1 DEF TypeOK, ControlIsConsistent, WriteThesis
      <4>2. new \in ThesisRow
        BY <4>1 DEF TypeOK, ThesisRow, StatusAfter, UpdateCall
      <4>3. /\ draftThesis' = [draftThesis EXCEPT ![r] = new]
            /\ pc' = [pc EXCEPT ![r] = "commit"]
            /\ UNCHANGED <<database, request, reads,
                           draftCondition, draftEvaluations, draftEvents>>
        BY <2>1, <3>2 DEF WriteThesis, Goto
      <4>4. /\ draftThesis' \in [Workers -> ThesisRow \cup {NoThesis}]
            /\ pc' \in [Workers -> Labels]
        BY <4>2, <4>3 DEF TypeOK, Labels
      <4> QED
        BY <4>3, <4>4 DEF TypeOK, database, reads
    <3>3. CASE ~MatchVersion(row, update[r].expected)
      BY <2>1, <3>3, FailIsTyped DEF WriteThesis
    <3> QED
      BY <3>2, <3>3
  <2>2. ASSUME NEW d \in Definitions, WriteCondition(r, d) PROVE TypeOK'
    <3>1. request[r].condition \in Conditions
      BY <2>2 DEF TypeOK, ControlIsConsistent, WriteCondition, Request
    <3> DEFINE row == condition[request[r].condition]
               new == [row EXCEPT !.definition = d, !.version = update[r].expected + 1]
    <3>2. CASE MatchVersion(row, update[r].expected)
      <4>1. row \in ConditionRow
        BY <2>2, <3>1 DEF TypeOK, ControlIsConsistent, WriteCondition
      <4>2. new \in ConditionRow
        <5>1. d \in Definition /\ update[r].expected + 1 \in Nat \ {0}
          BY InputsAreValid DEF TypeOK, UpdateCall
        <5> QED
          BY <4>1, <5>1 DEF ConditionRow
      <4>3. /\ draftCondition' = [draftCondition EXCEPT ![r] = new]
            /\ pc' = [pc EXCEPT ![r] = "commit"]
            /\ UNCHANGED <<database, request, reads,
                           draftThesis, draftEvaluations, draftEvents>>
        BY <2>2, <3>2 DEF WriteCondition, Goto
      <4>4. /\ draftCondition' \in [Workers -> ConditionRow \cup {NoCondition}]
            /\ pc' \in [Workers -> Labels]
        BY <4>2, <4>3 DEF TypeOK, Labels
      <4> QED
        BY <4>3, <4>4 DEF TypeOK, database, reads
    <3>3. CASE ~MatchVersion(row, update[r].expected)
      BY <2>2, <3>3, FailIsTyped DEF WriteCondition
    <3> QED
      BY <3>2, <3>3
  <2>3. CASE SaveEvaluation(r)
    <3>1. Candidate(r) \in Evaluation
      BY <2>3, CandidateIsEvaluation DEF SaveEvaluation
    <3>2. draftEvaluations' \in [Workers -> SUBSET Evaluation]
      BY <2>3, <3>1 DEF TypeOK, SaveEvaluation
    <3> QED
      <4>1. /\ pc' \in [Workers -> Labels]
            /\ todo' \in [Workers -> SUBSET ConditionRow]
            /\ current' \in [Workers -> ConditionRow \cup {NoCondition}]
            /\ prior' \in [Workers -> SUBSET Evaluation]
        <5>1. Done(r) \/ (Goto(r, "save_event") /\ UNCHANGED <<todo, current, prior>>)
          BY <2>3 DEF SaveEvaluation
        <5> QED
          BY <5>1, DoneIsTyped DEF TypeOK, Goto, Labels
      <4>2. UNCHANGED <<database, request, seen, series, update,
                        draftThesis, draftCondition, draftEvents>>
        BY <2>3 DEF SaveEvaluation
      <4> QED
        BY <3>2, <4>1, <4>2 DEF TypeOK, database
  <2> QED
    BY <1>6, <2>1, <2>2, <2>3 DEF Acquire
<1>7. ASSUME NEW r \in Workers, Rollback(r) PROVE TypeOK'
  BY <1>7, FailIsTyped DEF Rollback
<1>8. CASE UNCHANGED vars
  BY <1>8 DEF TypeOK, vars, database, reads, drafts
<1> QED
  BY <1>1, <1>2, <1>3, <1>4, <1>5, <1>6, <1>7, <1>8 DEF Next, Environment

-----------------------------------------------------------------------------
(* What the larger actions change *)

LoadEffect(r) ==
    /\ UNCHANGED <<database, request, seen, todo, current, prior, update, drafts>>
    /\ pc[r] \in {"load_daily_bars", "load_fundamentals"}
    /\ pc' = [pc EXCEPT ![r] = "load_fundamentals"]
         \/ pc' = [pc EXCEPT ![r] = "next_condition"]
    /\ \A q \in Workers \ {r} : series'[q] = series[q]

\* Loading series changes the series of the request and its label only.
LEMMA LoadFrame ==
    ASSUME NEW r \in Workers, LoadDailyBars(r) \/ LoadFundamentals(r), ~Fail(r), TypeOK
    PROVE  LoadEffect(r)
BY DEF LoadDailyBars, LoadFundamentals, LoadSeries, Goto, TypeOK, LoadEffect

LoadPriorEffect(r) ==
    /\ UNCHANGED <<database, request, seen, todo, series, update, drafts>>
    /\ pc[r] = "next_condition"
    /\ pc' = [pc EXCEPT ![r] = "save_evaluation"]
    /\ \A q \in Workers \ {r} : current'[q] = current[q] /\ prior'[q] = prior[q]
    /\ current'[r] \in todo[r]
    /\ Usable(SeriesFor(r, current'[r])) # {}
    /\ \A e, f \in prior'[r] : e.asOf = f.asOf

\* Reading the earlier evaluation sets current and prior, or the request fails.
LEMMA LoadPriorFrame ==
    ASSUME NEW r \in Workers, LoadPrior(r), ~Fail(r), TypeOK
    PROVE  LoadPriorEffect(r)
<1>1. PICK row \in FirstOf(todo[r]) :
        LET data == SeriesFor(r, row) IN
        /\ Cardinality(Usable(data)) >= RequiredObservations[MetricOf(row)]
        /\ current' = [current EXCEPT ![r] = row]
        /\ prior' = [prior EXCEPT ![r] =
               IF row.definition.rule.periods = 1 THEN {}
               ELSE Earlier(VisibleEvaluations(r), row, LatestDay(data))]
        /\ Goto(r, "save_evaluation")
        /\ UNCHANGED <<database, request, seen, todo, series, update, drafts>>
  BY DEF LoadPrior
<1>2. row \in ConditionRow /\ row \in todo[r]
  BY DEF FirstOf, TypeOK
<1>3. Usable(SeriesFor(r, row)) # {}
  BY <1>1, <1>2, SeriesAreData, EnoughMeansSome
<1>4. \A e, f \in Earlier(VisibleEvaluations(r), row, LatestDay(SeriesFor(r, row))) :
        e.asOf = f.asOf
  BY DEF Earlier, LatestOf, VisibleEvaluations, TypeOK, Evaluation, Day
<1> QED
  BY <1>1, <1>2, <1>3, <1>4 DEF LoadPrior, Goto, TypeOK, LoadPriorEffect

WriteThesisEffect(r) ==
    /\ UNCHANGED <<database, request, reads,
                   draftCondition, draftEvaluations, draftEvents>>
    /\ pc[r] = "write_thesis"
    /\ pc' = [pc EXCEPT ![r] = "commit"]
    /\ \A q \in Workers \ {r} : draftThesis'[q] = draftThesis[q]
    /\ draftThesis'[r] = [status  |-> StatusAfter(thesis[request[r].thesis], update[r]),
                          version |-> update[r].expected + 1]
    /\ thesis[request[r].thesis].version = update[r].expected
    /\ ~ThesisLocked(r, request[r].thesis)

\* The UPDATE of a thesis drafts a row or the request fails.
LEMMA WriteThesisFrame ==
    ASSUME NEW r \in Workers, WriteThesis(r), ~Fail(r), TypeOK
    PROVE  WriteThesisEffect(r)
BY DEF WriteThesis, MatchVersion, Goto, TypeOK, WriteThesisEffect

WriteConditionEffect(r, d) ==
    /\ UNCHANGED <<database, request, reads,
                   draftThesis, draftEvaluations, draftEvents>>
    /\ pc[r] = "write_condition"
    /\ pc' = [pc EXCEPT ![r] = "commit"]
    /\ \A q \in Workers \ {r} : draftCondition'[q] = draftCondition[q]
    /\ draftCondition'[r] =
          [condition[request[r].condition] EXCEPT !.definition = d,
                                                  !.version = update[r].expected + 1]

\* The UPDATE of a condition drafts a row or the request fails.
LEMMA WriteConditionFrame ==
    ASSUME NEW r \in Workers, NEW d \in Definitions, WriteCondition(r, d), ~Fail(r), TypeOK
    PROVE  WriteConditionEffect(r, d)
BY DEF WriteCondition, Goto, TypeOK, WriteConditionEffect

ReadThesisEffect(r) ==
    /\ UNCHANGED <<database, request, todo, current, series, prior, update, drafts>>
    /\ pc[r] = "read_thesis"
    /\ pc' = [pc EXCEPT ![r] = "write_thesis"]
    /\ \A q \in Workers \ {r} : seen'[q] = seen[q]
    /\ seen'[r] = thesis[request[r].thesis]
    /\ UpdateIsValid(seen'[r], update[r])

\* The read of update_thesis sets seen or the request fails.
LEMMA ReadThesisFrame ==
    ASSUME NEW r \in Workers, ReadThesis(r), ~Fail(r), TypeOK
    PROVE  ReadThesisEffect(r)
BY DEF ReadThesis, Goto, TypeOK, ReadThesisEffect

SaveEvaluationEffect(r) ==
    /\ UNCHANGED <<database, request, seen, series, update,
                   draftThesis, draftCondition, draftEvents>>
    /\ pc[r] = "save_evaluation"
    /\ \A q \in Workers \ {r} :
          /\ todo'[q] = todo[q] /\ current'[q] = current[q] /\ prior'[q] = prior[q]
          /\ draftEvaluations'[q] = draftEvaluations[q]
    /\ todo'[r] \subseteq todo[r]
    /\ \/ /\ pc' = [pc EXCEPT ![r] = "save_event"]
          /\ current'[r] = current[r] /\ prior'[r] = prior[r]
       \/ /\ pc' = [pc EXCEPT ![r] = "next_condition"]
          /\ current'[r] = NoCondition /\ prior'[r] = {}
    /\ draftEvaluations'[r] \subseteq draftEvaluations[r] \cup {Candidate(r)}

\* Saving an evaluation drafts at most the candidate and moves on.
LEMMA SaveEvaluationFrame ==
    ASSUME NEW r \in Workers, SaveEvaluation(r), TypeOK
    PROVE  SaveEvaluationEffect(r)
<1>1. \/ Goto(r, "save_event") /\ UNCHANGED <<todo, current, prior>>
      \/ Done(r)
  BY DEF SaveEvaluation
<1>2. \/ draftEvaluations' = [draftEvaluations EXCEPT ![r] = @ \cup {Candidate(r)}]
      \/ draftEvaluations' = draftEvaluations
  BY DEF SaveEvaluation
<1>3. /\ UNCHANGED <<database, request, seen, series, update,
                     draftThesis, draftCondition, draftEvents>>
      /\ pc[r] = "save_evaluation"
  BY DEF SaveEvaluation
<1> HIDE DEF SaveEvaluation
<1>4. /\ \A q \in Workers \ {r} : draftEvaluations'[q] = draftEvaluations[q]
      /\ draftEvaluations'[r] \subseteq draftEvaluations[r] \cup {Candidate(r)}
  BY <1>2 DEF TypeOK
<1> QED
  BY <1>1, <1>3, <1>4 DEF Done, Goto, TypeOK, SaveEvaluationEffect

SaveEventEffect(r) ==
    /\ UNCHANGED <<database, request, seen, series,
                   draftThesis, draftCondition, draftEvaluations>>
    /\ pc[r] = "save_event"
    /\ pc' = [pc EXCEPT ![r] = "next_condition"]
    /\ \A q \in Workers \ {r} :
          /\ todo'[q] = todo[q] /\ current'[q] = current[q] /\ prior'[q] = prior[q]
          /\ draftEvents'[q] = draftEvents[q] /\ update'[q] = update[q]
    /\ todo'[r] \subseteq todo[r]
    /\ current'[r] = NoCondition /\ prior'[r] = {}
    /\ update'[r].expected = update[r].expected
    /\ update'[r].status = update[r].status
    /\ IsInvalidation(current[r]) \/ update[r].trigger # {} => update'[r].trigger # {}
    /\ \E saved \in VisibleEvaluations(r) :
          /\ Period(saved) = Period(Candidate(r))
          /\ draftEvents'[r] \subseteq
                draftEvents[r] \cup {EventOf(current[r], saved, request[r].source)}

\* Saving an event drafts at most one event and may set the trigger.
LEMMA SaveEventFrame ==
    ASSUME NEW r \in Workers, SaveEvent(r), TypeOK
    PROVE  SaveEventEffect(r)
<1>1. PICK saved \in VisibleEvaluations(r) :
        /\ Period(saved) = Period(Candidate(r))
        /\ \/ draftEvents' = draftEvents
           \/ draftEvents' = [draftEvents EXCEPT ![r] =
                      @ \cup {EventOf(current[r], saved, request[r].source)}]
        /\ update' =
              IF IsInvalidation(current[r]) /\ update[r].trigger = {}
              THEN [update EXCEPT ![r].trigger = {Period(saved)}]
              ELSE update
  BY DEF SaveEvent
<1>2. /\ Done(r)
      /\ UNCHANGED <<database, request, seen, series,
                     draftThesis, draftCondition, draftEvaluations>>
      /\ pc[r] = "save_event"
  BY DEF SaveEvent
<1>3. /\ \A q \in Workers \ {r} : draftEvents'[q] = draftEvents[q]
      /\ draftEvents'[r] \subseteq
            draftEvents[r] \cup {EventOf(current[r], saved, request[r].source)}
  BY <1>1 DEF TypeOK
<1>4. /\ \A q \in Workers \ {r} : update'[q] = update[q]
      /\ update'[r].expected = update[r].expected
      /\ update'[r].status = update[r].status
      /\ IsInvalidation(current[r]) \/ update[r].trigger # {} => update'[r].trigger # {}
  <2> DEFINE call == [update[r] EXCEPT !.trigger = {Period(saved)}]
  <2>1. \/ update' = [update EXCEPT ![r] = call]
        \/ update' = update /\ ~(IsInvalidation(current[r]) /\ update[r].trigger = {})
    BY <1>1 DEF TypeOK
  <2>2. call.expected = update[r].expected /\ call.status = update[r].status
          /\ call.trigger # {}
    BY DEF TypeOK, UpdateCall
  <2> HIDE DEF call
  <2> QED
    BY <2>1, <2>2 DEF TypeOK
<1>5. /\ pc' = [pc EXCEPT ![r] = "next_condition"]
      /\ \A q \in Workers \ {r} :
            todo'[q] = todo[q] /\ current'[q] = current[q] /\ prior'[q] = prior[q]
      /\ todo'[r] \subseteq todo[r]
      /\ current'[r] = NoCondition /\ prior'[r] = {}
  BY <1>2 DEF Done, Goto, TypeOK
<1> QED
  BY <1>1, <1>2, <1>3, <1>4, <1>5 DEF SaveEventEffect

FinishEffect(r) ==
    /\ UNCHANGED <<database, request, seen, todo, current, series, prior, drafts>>
    /\ pc[r] = "next_condition"
    /\ \A q \in Workers \ {r} : update'[q] = update[q]
    /\ update'[r].trigger = update[r].trigger
    /\ \/ /\ pc' = [pc EXCEPT ![r] = "read_thesis"]
          /\ update'[r].expected = seen[r].version
          /\ update'[r].status = "invalidated"
       \/ /\ pc' = [pc EXCEPT ![r] = "commit"]
          /\ update'[r] = update[r]
          /\ update[r].trigger = {} \/ seen[r].status = "invalidated"

\* After the last condition only update and the label change.
LEMMA FinishFrame ==
    ASSUME NEW r \in Workers, FinishConditions(r), TypeOK
    PROVE  FinishEffect(r)
BY DEF FinishConditions, Goto, TypeOK, UpdateCall, FinishEffect

CommitEffect(r) ==
    /\ pc[r] = "commit"
    /\ EndRequest(r)
    /\ \A t \in Theses : thesis'[t] =
          IF draftThesis[r] # NoThesis /\ t = request[r].thesis
          THEN draftThesis[r] ELSE thesis[t]
    /\ \A c \in Conditions : condition'[c] =
          IF draftCondition[r] # NoCondition /\ c = draftCondition[r].id
          THEN draftCondition[r] ELSE condition[c]
    /\ evaluations' = evaluations \cup draftEvaluations[r]
    /\ events' = events \cup draftEvents[r]

\* A commit installs the drafts of its request and ends it.
LEMMA CommitFrame ==
    ASSUME NEW r \in Workers, Commit(r), TypeOK, ControlIsConsistent
    PROVE  CommitEffect(r)
<1>1. \A t \in Theses : thesis'[t] =
        IF draftThesis[r] # NoThesis /\ t = request[r].thesis
        THEN draftThesis[r] ELSE thesis[t]
  BY DEF Commit, TypeOK
<1>2. \A c \in Conditions : condition'[c] =
        IF draftCondition[r] # NoCondition /\ c = draftCondition[r].id
        THEN draftCondition[r] ELSE condition[c]
  BY DEF Commit, TypeOK
<1> QED
  BY <1>1, <1>2 DEF Commit, CommitEffect

-----------------------------------------------------------------------------
(* Requests are isolated *)

\* No request is in progress at the start.
LEMMA InitIsIsolated == Init => RequestsAreIsolated
BY DEF Init, RequestsAreIsolated, ControlIsConsistent, EvaluationsAreReady, ReadsAreOld,
     UpdatesAreChecked, DraftsFollowRows, OwnersAreStable, RunsInvalidate,
     EventsHaveTheses, EvaluationLabels

\* A request keeps to the steps of its kind, on rows that exist.
LEMMA ControlStaysConsistent ==
    ASSUME TypeOK, ControlIsConsistent, OwnersAreStable,
           [Next]_vars
    PROVE  ControlIsConsistent'
<1>1. ASSUME NEW t \in Theses, CreateThesis(t) PROVE ControlIsConsistent'
  BY <1>1 DEF ControlIsConsistent, CreateThesis, reads, drafts, TypeOK
<1>2. ASSUME NEW c \in Conditions, NEW t \in Theses, NEW d \in Definitions,
             CreateCondition(c, t, d)
      PROVE  ControlIsConsistent'
  BY <1>2 DEF ControlIsConsistent, CreateCondition, reads, drafts, TypeOK
<1>3. ASSUME NEW o \in Feed, Ingest(o) PROVE ControlIsConsistent'
  BY <1>3 DEF ControlIsConsistent, Ingest, reads, drafts, TypeOK
<1>4. ASSUME NEW r \in Workers, Fail(r) PROVE ControlIsConsistent'
  BY <1>4 DEF ControlIsConsistent, Fail, EndRequest, database, TypeOK, ThesisRow,
       NoThesis, Request, EvaluationLabels, NoRequest, Monitorable, OwnersAreStable,
       ConditionRow, NoCondition
<1>5. ASSUME NEW r \in Workers, NEW t \in Theses, NEW src \in Sources,
             BeginEvaluate(r, t, src)
      PROVE  ControlIsConsistent'
  BY <1>5 DEF ControlIsConsistent, BeginEvaluate, Goto, database, drafts, TypeOK,
       ThesisRow, NoThesis, Request, EvaluationLabels, NoRequest, Monitorable,
       OwnersAreStable, ConditionRow, NoCondition
<1>6. ASSUME NEW r \in Workers, NEW t \in Theses, NEW status \in PatchStatuses,
             NEW expected \in 1 .. thesis[t].version,
             BeginPatchThesis(r, t, expected, status)
      PROVE  ControlIsConsistent'
  BY <1>6 DEF ControlIsConsistent, BeginPatchThesis, Goto, database, drafts, TypeOK,
       ThesisRow, NoThesis, Request, EvaluationLabels, NoRequest, Monitorable,
       OwnersAreStable, ConditionRow, NoCondition
<1>7. ASSUME NEW r \in Workers, NEW c \in Conditions, BeginPatchCondition(r, c)
      PROVE  ControlIsConsistent'
  BY <1>7 DEF ControlIsConsistent, BeginPatchCondition, Goto, database, drafts, TypeOK,
       ThesisRow, NoThesis, Request, EvaluationLabels, NoRequest, Monitorable,
       OwnersAreStable, ConditionRow, NoCondition
<1>8. ASSUME NEW r \in Workers, ReadThesis(r), ~Fail(r) PROVE ControlIsConsistent'
  <2>1. ReadThesisEffect(r)
    BY <1>8, ReadThesisFrame
  <2> QED
    BY <2>1 DEF ControlIsConsistent, ReadThesisEffect, database, drafts, TypeOK,
         ThesisRow, NoThesis, Request, EvaluationLabels, NoRequest, Monitorable,
         OwnersAreStable, ConditionRow, NoCondition
<1>9. ASSUME NEW r \in Workers, ListConditions(r) PROVE ControlIsConsistent'
  BY <1>9 DEF ControlIsConsistent, ListConditions, Goto, database, drafts, TypeOK,
       ThesisRow, NoThesis, Request, EvaluationLabels, NoRequest, Monitorable,
       OwnersAreStable, ConditionRow, NoCondition
<1>10. ASSUME NEW r \in Workers, LoadDailyBars(r) \/ LoadFundamentals(r), ~Fail(r)
      PROVE  ControlIsConsistent'
  <2>1. LoadEffect(r)
    BY <1>10, LoadFrame
  <2> QED
    BY <2>1 DEF ControlIsConsistent, LoadEffect, database, drafts, TypeOK, ThesisRow,
         NoThesis, Request, EvaluationLabels, NoRequest, Monitorable, OwnersAreStable,
         ConditionRow, NoCondition
<1>11. ASSUME NEW r \in Workers, LoadPrior(r), ~Fail(r) PROVE ControlIsConsistent'
  <2>1. LoadPriorEffect(r)
    BY <1>11, LoadPriorFrame
  <2> QED
    BY <2>1 DEF ControlIsConsistent, LoadPriorEffect, database, drafts, TypeOK,
         ThesisRow, NoThesis, Request, EvaluationLabels, NoRequest, Monitorable,
         OwnersAreStable, ConditionRow, NoCondition
<1>12. ASSUME NEW r \in Workers, SaveEvaluation(r) PROVE ControlIsConsistent'
  <2>1. SaveEvaluationEffect(r)
    BY <1>12, SaveEvaluationFrame
  <2> QED
    BY <2>1 DEF ControlIsConsistent, SaveEvaluationEffect, database, TypeOK, ThesisRow,
         NoThesis, Request, EvaluationLabels, NoRequest, Monitorable, OwnersAreStable,
         ConditionRow, NoCondition
<1>13. ASSUME NEW r \in Workers, SaveEvent(r) PROVE ControlIsConsistent'
  <2>1. SaveEventEffect(r)
    BY <1>13, SaveEventFrame
  <2> QED
    BY <2>1 DEF ControlIsConsistent, SaveEventEffect, database, TypeOK, ThesisRow,
         NoThesis, Request, EvaluationLabels, NoRequest, Monitorable, OwnersAreStable,
         ConditionRow, NoCondition
<1>14. ASSUME NEW r \in Workers, FinishConditions(r) PROVE ControlIsConsistent'
  <2>1. FinishEffect(r)
    BY <1>14, FinishFrame
  <2> QED
    BY <2>1 DEF ControlIsConsistent, FinishEffect, database, drafts, TypeOK, ThesisRow,
         NoThesis, Request, EvaluationLabels, NoRequest, Monitorable, OwnersAreStable,
         ConditionRow, NoCondition
<1>15. ASSUME NEW r \in Workers, WriteThesis(r), ~Fail(r) PROVE ControlIsConsistent'
  <2>1. WriteThesisEffect(r)
    BY <1>15, WriteThesisFrame
  <2> QED
    BY <2>1 DEF ControlIsConsistent, WriteThesisEffect, database, reads, TypeOK,
         ThesisRow, NoThesis, Request, EvaluationLabels, NoRequest, Monitorable,
         OwnersAreStable, ConditionRow, NoCondition
<1>16. ASSUME NEW r \in Workers, NEW d \in Definitions, WriteCondition(r, d), ~Fail(r)
      PROVE  ControlIsConsistent'
  <2>1. WriteConditionEffect(r, d)
    BY <1>16, WriteConditionFrame
  <2> QED
    BY <2>1 DEF ControlIsConsistent, WriteConditionEffect, database, reads, TypeOK,
         ThesisRow, NoThesis, Request, EvaluationLabels, NoRequest, Monitorable,
         OwnersAreStable, ConditionRow, NoCondition
<1>17. ASSUME NEW r \in Workers, Commit(r) PROVE ControlIsConsistent'
  <2>1. CommitEffect(r)
    BY <1>17, CommitFrame
  <2> QED
    BY <2>1 DEF ControlIsConsistent, CommitEffect, EndRequest, TypeOK, ThesisRow,
         NoThesis, Request, EvaluationLabels, NoRequest, Monitorable, OwnersAreStable,
         ConditionRow, NoCondition
<1>18. CASE UNCHANGED vars
  BY <1>18 DEF ControlIsConsistent, vars, database, reads, drafts
<1> QED
  BY <1>1, <1>2, <1>3, <1>4, <1>5, <1>6, <1>7, <1>8, <1>9, <1>10, <1>11, <1>12, <1>13,
     <1>14, <1>15, <1>16, <1>17, <1>18
     DEF Next, Environment, Begin, Proceed, Acquire, Rollback

\* A condition is evaluated only when its metric has a value.
LEMMA EvaluationsStayReady ==
    ASSUME TypeOK, ControlIsConsistent, EvaluationsAreReady,
           [Next]_vars
    PROVE  EvaluationsAreReady'
<1>1. ASSUME NEW t \in Theses, CreateThesis(t) PROVE EvaluationsAreReady'
  BY <1>1 DEF EvaluationsAreReady, CreateThesis, reads, drafts, TypeOK, HasMetric,
       SeriesFor
<1>2. ASSUME NEW c \in Conditions, NEW t \in Theses, NEW d \in Definitions,
             CreateCondition(c, t, d)
      PROVE  EvaluationsAreReady'
  BY <1>2 DEF EvaluationsAreReady, CreateCondition, reads, drafts, TypeOK, HasMetric,
       SeriesFor
<1>3. ASSUME NEW o \in Feed, Ingest(o) PROVE EvaluationsAreReady'
  BY <1>3 DEF EvaluationsAreReady, Ingest, reads, drafts, TypeOK, HasMetric, SeriesFor
<1>4. ASSUME NEW r \in Workers, Fail(r) PROVE EvaluationsAreReady'
  BY <1>4 DEF EvaluationsAreReady, Fail, EndRequest, database, TypeOK, HasMetric,
       SeriesFor
<1>5. ASSUME NEW r \in Workers, NEW t \in Theses, NEW src \in Sources,
             BeginEvaluate(r, t, src)
      PROVE  EvaluationsAreReady'
  BY <1>5 DEF EvaluationsAreReady, BeginEvaluate, Goto, database, drafts, TypeOK,
       HasMetric, SeriesFor
<1>6. ASSUME NEW r \in Workers, NEW t \in Theses, NEW status \in PatchStatuses,
             NEW expected \in 1 .. thesis[t].version,
             BeginPatchThesis(r, t, expected, status)
      PROVE  EvaluationsAreReady'
  BY <1>6 DEF EvaluationsAreReady, BeginPatchThesis, Goto, database, drafts, TypeOK,
       HasMetric, SeriesFor
<1>7. ASSUME NEW r \in Workers, NEW c \in Conditions, BeginPatchCondition(r, c)
      PROVE  EvaluationsAreReady'
  BY <1>7 DEF EvaluationsAreReady, BeginPatchCondition, Goto, database, drafts, TypeOK,
       HasMetric, SeriesFor
<1>8. ASSUME NEW r \in Workers, ReadThesis(r), ~Fail(r) PROVE EvaluationsAreReady'
  <2>1. ReadThesisEffect(r)
    BY <1>8, ReadThesisFrame
  <2> QED
    BY <2>1 DEF EvaluationsAreReady, ReadThesisEffect, database, drafts, TypeOK,
         HasMetric, SeriesFor
<1>9. ASSUME NEW r \in Workers, ListConditions(r) PROVE EvaluationsAreReady'
  BY <1>9 DEF EvaluationsAreReady, ListConditions, Goto, database, drafts, TypeOK,
       HasMetric, SeriesFor
<1>10. ASSUME NEW r \in Workers, LoadDailyBars(r) \/ LoadFundamentals(r), ~Fail(r)
      PROVE  EvaluationsAreReady'
  <2>1. LoadEffect(r)
    BY <1>10, LoadFrame
  <2>2. ASSUME NEW q \in Workers \ {r}
        PROVE  pc'[q] = pc[q] /\ series'[q] = series[q]
    BY <2>1 DEF LoadEffect, TypeOK
  <2>3. pc'[r] \notin {"save_evaluation", "save_event"} /\ current' = current /\ prior' = prior
    BY <2>1 DEF LoadEffect, TypeOK
  <2> QED
    BY <2>2, <2>3 DEF EvaluationsAreReady, HasMetric, SeriesFor
<1>11. ASSUME NEW r \in Workers, LoadPrior(r), ~Fail(r) PROVE EvaluationsAreReady'
  <2>1. LoadPriorEffect(r)
    BY <1>11, LoadPriorFrame
  <2>2. ASSUME NEW q \in Workers \ {r}
        PROVE  /\ pc'[q] = pc[q] /\ current'[q] = current[q]
               /\ series'[q] = series[q] /\ prior'[q] = prior[q]
    BY <2>1 DEF LoadPriorEffect, TypeOK
  <2>3. /\ pc'[r] \in {"save_evaluation", "save_event"} =>
              current'[r] # NoCondition /\ HasMetric(r, current[r])'
        /\ \A e, f \in prior'[r] : e.asOf = f.asOf
    <3>1. pc'[r] = "save_evaluation" /\ current'[r] \in ConditionRow /\ series' = series
      BY <2>1 DEF LoadPriorEffect, TypeOK
    <3> QED
      BY <2>1, <3>1 DEF LoadPriorEffect, HasMetric, SeriesFor, ConditionRow, NoCondition
  <2> QED
    BY <2>2, <2>3 DEF EvaluationsAreReady, HasMetric, SeriesFor
<1>12. ASSUME NEW r \in Workers, SaveEvaluation(r) PROVE EvaluationsAreReady'
  <2>1. SaveEvaluationEffect(r)
    BY <1>12, SaveEvaluationFrame
  <2>2. ASSUME NEW q \in Workers \ {r}
        PROVE  /\ pc'[q] = pc[q] /\ current'[q] = current[q]
               /\ series'[q] = series[q] /\ prior'[q] = prior[q]
    BY <2>1 DEF SaveEvaluationEffect, TypeOK
  <2>3. /\ pc'[r] \in {"save_evaluation", "save_event"} =>
              current'[r] # NoCondition /\ HasMetric(r, current[r])'
        /\ \A e, f \in prior'[r] : e.asOf = f.asOf
    <3>1. series' = series
            /\ (pc'[r] = "next_condition" \/ (current'[r] = current[r] /\ pc[r] = "save_evaluation"))
            /\ prior'[r] \subseteq prior[r]
      BY <2>1 DEF SaveEvaluationEffect, TypeOK
    <3> QED
      BY <3>1 DEF EvaluationsAreReady, HasMetric, SeriesFor
  <2> QED
    BY <2>2, <2>3 DEF EvaluationsAreReady, HasMetric, SeriesFor
<1>13. ASSUME NEW r \in Workers, SaveEvent(r) PROVE EvaluationsAreReady'
  <2>1. SaveEventEffect(r)
    BY <1>13, SaveEventFrame
  <2>2. ASSUME NEW q \in Workers \ {r}
        PROVE  /\ pc'[q] = pc[q] /\ current'[q] = current[q]
               /\ series'[q] = series[q] /\ prior'[q] = prior[q]
    BY <2>1 DEF SaveEventEffect, TypeOK
  <2>3. pc'[r] \notin {"save_evaluation", "save_event"}
    BY <2>1 DEF SaveEventEffect, TypeOK
  <2>4. \A e, f \in prior'[r] : e.asOf = f.asOf
    BY <2>1 DEF SaveEventEffect, TypeOK
  <2> QED
    BY <2>2, <2>3, <2>4 DEF EvaluationsAreReady, HasMetric, SeriesFor
<1>14. ASSUME NEW r \in Workers, FinishConditions(r) PROVE EvaluationsAreReady'
  <2>1. FinishEffect(r)
    BY <1>14, FinishFrame
  <2>2. /\ UNCHANGED <<current, series, prior>>
        /\ \A q \in Workers \ {r} : pc'[q] = pc[q]
        /\ pc'[r] \notin {"save_evaluation", "save_event"}
    BY <2>1 DEF FinishEffect, TypeOK
  <2> QED
    BY <2>2 DEF EvaluationsAreReady, HasMetric, SeriesFor
<1>15. ASSUME NEW r \in Workers, WriteThesis(r), ~Fail(r) PROVE EvaluationsAreReady'
  <2>1. WriteThesisEffect(r)
    BY <1>15, WriteThesisFrame
  <2> QED
    BY <2>1 DEF EvaluationsAreReady, WriteThesisEffect, database, reads, TypeOK,
         HasMetric, SeriesFor
<1>16. ASSUME NEW r \in Workers, NEW d \in Definitions, WriteCondition(r, d), ~Fail(r)
      PROVE  EvaluationsAreReady'
  <2>1. WriteConditionEffect(r, d)
    BY <1>16, WriteConditionFrame
  <2> QED
    BY <2>1 DEF EvaluationsAreReady, WriteConditionEffect, database, reads, TypeOK,
         HasMetric, SeriesFor
<1>17. ASSUME NEW r \in Workers, Commit(r) PROVE EvaluationsAreReady'
  <2>1. CommitEffect(r)
    BY <1>17, CommitFrame
  <2>2. ASSUME NEW q \in Workers \ {r}
        PROVE  /\ pc'[q] = pc[q] /\ current'[q] = current[q]
               /\ series'[q] = series[q] /\ prior'[q] = prior[q]
    BY <2>1 DEF CommitEffect, TypeOK, EndRequest
  <2>3. pc'[r] = "idle" /\ prior'[r] = {}
    BY <2>1 DEF CommitEffect, EndRequest, TypeOK
  <2> QED
    BY <2>2, <2>3 DEF EvaluationsAreReady, HasMetric, SeriesFor
<1>18. CASE UNCHANGED vars
  BY <1>18 DEF EvaluationsAreReady, vars, database, reads, drafts, HasMetric, SeriesFor
<1> QED
  BY <1>1, <1>2, <1>3, <1>4, <1>5, <1>6, <1>7, <1>8, <1>9, <1>10, <1>11, <1>12, <1>13,
     <1>14, <1>15, <1>16, <1>17, <1>18
     DEF Next, Environment, Begin, Proceed, Acquire, Rollback

\* A request never knows a thesis row newer than the committed one.
LEMMA ReadsStayOld ==
    ASSUME TypeOK, ControlIsConsistent, DraftsFollowRows, ReadsAreOld,
           [Next]_vars
    PROVE  ReadsAreOld'
<1>1. ASSUME NEW t \in Theses, CreateThesis(t) PROVE ReadsAreOld'
  BY <1>1 DEF ReadsAreOld, CreateThesis, reads, drafts, TypeOK, ThesisRow, NoThesis,
       Request, ControlIsConsistent
<1>2. ASSUME NEW c \in Conditions, NEW t \in Theses, NEW d \in Definitions,
             CreateCondition(c, t, d)
      PROVE  ReadsAreOld'
  BY <1>2 DEF ReadsAreOld, CreateCondition, reads, drafts, TypeOK
<1>3. ASSUME NEW o \in Feed, Ingest(o) PROVE ReadsAreOld'
  BY <1>3 DEF ReadsAreOld, Ingest, reads, drafts, TypeOK
<1>4. ASSUME NEW r \in Workers, Fail(r) PROVE ReadsAreOld'
  <2>1. seen'[r] = NoThesis /\ UNCHANGED thesis
    BY <1>4 DEF Fail, EndRequest, database, TypeOK
  <2>2. ASSUME NEW q \in Workers \ {r}
        PROVE  seen'[q] = seen[q] /\ request'[q] = request[q] /\ pc'[q] = pc[q]
    BY <1>4 DEF Fail, EndRequest, TypeOK
  <2> QED
    BY <2>1, <2>2 DEF ReadsAreOld
<1>5. ASSUME NEW r \in Workers, NEW t \in Theses, NEW src \in Sources,
             BeginEvaluate(r, t, src)
      PROVE  ReadsAreOld'
  BY <1>5 DEF ReadsAreOld, BeginEvaluate, Goto, database, drafts, TypeOK, ThesisRow,
       NoThesis
<1>6. ASSUME NEW r \in Workers, NEW t \in Theses, NEW status \in PatchStatuses,
             NEW expected \in 1 .. thesis[t].version,
             BeginPatchThesis(r, t, expected, status)
      PROVE  ReadsAreOld'
  BY <1>6 DEF ReadsAreOld, BeginPatchThesis, Goto, database, drafts, TypeOK
<1>7. ASSUME NEW r \in Workers, NEW c \in Conditions, BeginPatchCondition(r, c)
      PROVE  ReadsAreOld'
  BY <1>7 DEF ReadsAreOld, BeginPatchCondition, Goto, database, drafts, TypeOK
<1>8. ASSUME NEW r \in Workers, ReadThesis(r), ~Fail(r) PROVE ReadsAreOld'
  <2>1. ReadThesisEffect(r)
    BY <1>8, ReadThesisFrame
  <2> QED
    BY <2>1 DEF ReadsAreOld, ReadThesisEffect, database, drafts, TypeOK, ThesisRow,
         NoThesis, Request, ControlIsConsistent
<1>9. ASSUME NEW r \in Workers, ListConditions(r) PROVE ReadsAreOld'
  BY <1>9 DEF ReadsAreOld, ListConditions, Goto, database, drafts, TypeOK
<1>10. ASSUME NEW r \in Workers, LoadDailyBars(r) \/ LoadFundamentals(r), ~Fail(r)
      PROVE  ReadsAreOld'
  <2>1. LoadEffect(r)
    BY <1>10, LoadFrame
  <2> QED
    BY <2>1 DEF ReadsAreOld, LoadEffect, database, drafts, TypeOK
<1>11. ASSUME NEW r \in Workers, LoadPrior(r), ~Fail(r) PROVE ReadsAreOld'
  <2>1. LoadPriorEffect(r)
    BY <1>11, LoadPriorFrame
  <2> QED
    BY <2>1 DEF ReadsAreOld, LoadPriorEffect, database, drafts, TypeOK
<1>12. ASSUME NEW r \in Workers, SaveEvaluation(r) PROVE ReadsAreOld'
  <2>1. SaveEvaluationEffect(r)
    BY <1>12, SaveEvaluationFrame
  <2> QED
    BY <2>1 DEF ReadsAreOld, SaveEvaluationEffect, database, TypeOK
<1>13. ASSUME NEW r \in Workers, SaveEvent(r) PROVE ReadsAreOld'
  <2>1. SaveEventEffect(r)
    BY <1>13, SaveEventFrame
  <2> QED
    BY <2>1 DEF ReadsAreOld, SaveEventEffect, database, TypeOK
<1>14. ASSUME NEW r \in Workers, FinishConditions(r) PROVE ReadsAreOld'
  <2>1. FinishEffect(r)
    BY <1>14, FinishFrame
  <2> QED
    BY <2>1 DEF ReadsAreOld, FinishEffect, database, drafts, TypeOK
<1>15. ASSUME NEW r \in Workers, WriteThesis(r), ~Fail(r) PROVE ReadsAreOld'
  <2>1. WriteThesisEffect(r)
    BY <1>15, WriteThesisFrame
  <2> QED
    BY <2>1 DEF ReadsAreOld, WriteThesisEffect, database, reads, TypeOK
<1>16. ASSUME NEW r \in Workers, NEW d \in Definitions, WriteCondition(r, d), ~Fail(r)
      PROVE  ReadsAreOld'
  <2>1. WriteConditionEffect(r, d)
    BY <1>16, WriteConditionFrame
  <2> QED
    BY <2>1 DEF ReadsAreOld, WriteConditionEffect, database, reads, TypeOK
<1>17. ASSUME NEW r \in Workers, Commit(r) PROVE ReadsAreOld'
  <2>1. CommitEffect(r)
    BY <1>17, CommitFrame
  <2>2. SUFFICES ASSUME NEW q \in Workers, seen'[q] # NoThesis
                 PROVE  LET now == thesis'[request'[q].thesis] IN
                        /\ pc'[q] # "idle"
                        /\ seen'[q].version <= now.version
                        /\ seen'[q].version = now.version => seen'[q] = now
    BY DEF ReadsAreOld
  <2> DEFINE t == request[q].thesis
  <2>3. /\ seen'[q] = seen[q] /\ seen[q] # NoThesis
        /\ request'[q] = request[q] /\ pc'[q] = pc[q]
    BY <2>1, <2>2 DEF CommitEffect, EndRequest, TypeOK
  <2>4. /\ pc[q] # "idle"
        /\ seen[q].version <= thesis[t].version
        /\ seen[q].version = thesis[t].version => seen[q] = thesis[t]
    BY <2>3 DEF ReadsAreOld
  <2>5. t \in Theses /\ seen[q] \in ThesisRow /\ thesis[t] \in ThesisRow
    BY <2>3, <2>4 DEF ControlIsConsistent, Request, TypeOK
  <2>6. CASE draftThesis[r] # NoThesis /\ t = request[r].thesis
    <3>1. thesis'[t] = draftThesis[r] /\ draftThesis[r].version = thesis[t].version + 1
      BY <2>1, <2>5, <2>6 DEF CommitEffect, DraftsFollowRows
    <3> QED
      BY <2>3, <2>4, <2>5, <3>1 DEF ThesisRow
  <2>7. CASE ~(draftThesis[r] # NoThesis /\ t = request[r].thesis)
    BY <2>1, <2>3, <2>4, <2>5, <2>7 DEF CommitEffect
  <2> QED
    BY <2>6, <2>7
<1>18. CASE UNCHANGED vars
  BY <1>18 DEF ReadsAreOld, vars, database, reads, drafts
<1> QED
  BY <1>1, <1>2, <1>3, <1>4, <1>5, <1>6, <1>7, <1>8, <1>9, <1>10, <1>11, <1>12, <1>13,
     <1>14, <1>15, <1>16, <1>17, <1>18
     DEF Next, Environment, Begin, Proceed, Acquire, Rollback

\* What update_thesis checked still holds of the row the request has read.
LEMMA UpdatesStayChecked ==
    ASSUME TypeOK, ControlIsConsistent, ReadsAreOld, UpdatesAreChecked,
           [Next]_vars
    PROVE  UpdatesAreChecked'
<1>1. ASSUME NEW t \in Theses, CreateThesis(t) PROVE UpdatesAreChecked'
  BY <1>1 DEF UpdatesAreChecked, CreateThesis, reads, drafts, TypeOK
<1>2. ASSUME NEW c \in Conditions, NEW t \in Theses, NEW d \in Definitions,
             CreateCondition(c, t, d)
      PROVE  UpdatesAreChecked'
  BY <1>2 DEF UpdatesAreChecked, CreateCondition, reads, drafts, TypeOK
<1>3. ASSUME NEW o \in Feed, Ingest(o) PROVE UpdatesAreChecked'
  BY <1>3 DEF UpdatesAreChecked, Ingest, reads, drafts, TypeOK
<1>4. ASSUME NEW r \in Workers, Fail(r) PROVE UpdatesAreChecked'
  BY <1>4 DEF UpdatesAreChecked, Fail, EndRequest, database, TypeOK
<1>5. ASSUME NEW r \in Workers, NEW t \in Theses, NEW src \in Sources,
             BeginEvaluate(r, t, src)
      PROVE  UpdatesAreChecked'
  BY <1>5 DEF UpdatesAreChecked, BeginEvaluate, Goto, database, drafts, TypeOK
<1>6. ASSUME NEW r \in Workers, NEW t \in Theses, NEW status \in PatchStatuses,
             NEW expected \in 1 .. thesis[t].version,
             BeginPatchThesis(r, t, expected, status)
      PROVE  UpdatesAreChecked'
  BY <1>6 DEF UpdatesAreChecked, BeginPatchThesis, Goto, database, drafts, TypeOK
<1>7. ASSUME NEW r \in Workers, NEW c \in Conditions, BeginPatchCondition(r, c)
      PROVE  UpdatesAreChecked'
  BY <1>7 DEF UpdatesAreChecked, BeginPatchCondition, Goto, database, drafts, TypeOK
<1>8. ASSUME NEW r \in Workers, ReadThesis(r), ~Fail(r) PROVE UpdatesAreChecked'
  <2>1. ReadThesisEffect(r)
    BY <1>8, ReadThesisFrame
  <2>2. /\ request[r].kind = "evaluate" =>
              /\ seen[r].status \in Monitorable
              /\ update[r].expected = seen[r].version /\ update[r].status = "invalidated"
        /\ thesis[request[r].thesis] # NoThesis
    BY <2>1 DEF ReadThesisEffect, UpdatesAreChecked, ControlIsConsistent
  <2>3. request[r].kind = "evaluate" => seen'[r] = seen[r]
    <3>1. seen'[r] = thesis[request[r].thesis] /\ seen'[r].version = update[r].expected
      BY <2>1 DEF ReadThesisEffect, UpdateIsValid
    <3> QED
      BY <2>2, <3>1 DEF ReadsAreOld, NoThesis, Monitorable
  <2>4. seen'[r] # NoThesis /\ UpdateIsValid(seen'[r], update'[r])
    BY <2>1, <2>2 DEF ReadThesisEffect
  <2>5. \A q \in Workers \ {r} : /\ pc'[q] = pc[q] /\ seen'[q] = seen[q]
    BY <2>1 DEF ReadThesisEffect, TypeOK
  <2>6. request' = request /\ update' = update
    BY <2>1 DEF ReadThesisEffect
  <2> QED
    BY <2>2, <2>3, <2>4, <2>5, <2>6 DEF UpdatesAreChecked
<1>9. ASSUME NEW r \in Workers, ListConditions(r) PROVE UpdatesAreChecked'
  BY <1>9 DEF UpdatesAreChecked, ListConditions, Goto, database, drafts, TypeOK
<1>10. ASSUME NEW r \in Workers, LoadDailyBars(r) \/ LoadFundamentals(r), ~Fail(r)
      PROVE  UpdatesAreChecked'
  <2>1. LoadEffect(r)
    BY <1>10, LoadFrame
  <2> QED
    BY <2>1 DEF UpdatesAreChecked, LoadEffect, database, drafts, TypeOK
<1>11. ASSUME NEW r \in Workers, LoadPrior(r), ~Fail(r) PROVE UpdatesAreChecked'
  <2>1. LoadPriorEffect(r)
    BY <1>11, LoadPriorFrame
  <2> QED
    BY <2>1 DEF UpdatesAreChecked, LoadPriorEffect, database, drafts, TypeOK
<1>12. ASSUME NEW r \in Workers, SaveEvaluation(r) PROVE UpdatesAreChecked'
  <2>1. SaveEvaluationEffect(r)
    BY <1>12, SaveEvaluationFrame
  <2> QED
    BY <2>1 DEF UpdatesAreChecked, SaveEvaluationEffect, database, TypeOK
<1>13. ASSUME NEW r \in Workers, SaveEvent(r) PROVE UpdatesAreChecked'
  <2>1. SaveEventEffect(r)
    BY <1>13, SaveEventFrame
  <2> QED
    BY <2>1 DEF UpdatesAreChecked, SaveEventEffect, database, TypeOK
<1>14. ASSUME NEW r \in Workers, FinishConditions(r) PROVE UpdatesAreChecked'
  <2>1. FinishEffect(r)
    BY <1>14, FinishFrame
  <2> QED
    BY <2>1 DEF UpdatesAreChecked, FinishEffect, database, drafts, TypeOK
<1>15. ASSUME NEW r \in Workers, WriteThesis(r), ~Fail(r) PROVE UpdatesAreChecked'
  <2>1. WriteThesisEffect(r)
    BY <1>15, WriteThesisFrame
  <2> QED
    BY <2>1 DEF UpdatesAreChecked, WriteThesisEffect, database, reads, TypeOK
<1>16. ASSUME NEW r \in Workers, NEW d \in Definitions, WriteCondition(r, d), ~Fail(r)
      PROVE  UpdatesAreChecked'
  <2>1. WriteConditionEffect(r, d)
    BY <1>16, WriteConditionFrame
  <2> QED
    BY <2>1 DEF UpdatesAreChecked, WriteConditionEffect, database, reads, TypeOK
<1>17. ASSUME NEW r \in Workers, Commit(r) PROVE UpdatesAreChecked'
  <2>1. CommitEffect(r)
    BY <1>17, CommitFrame
  <2> QED
    BY <2>1 DEF UpdatesAreChecked, CommitEffect, EndRequest, TypeOK
<1>18. CASE UNCHANGED vars
  BY <1>18 DEF UpdatesAreChecked, vars, database, reads, drafts
<1> QED
  BY <1>1, <1>2, <1>3, <1>4, <1>5, <1>6, <1>7, <1>8, <1>9, <1>10, <1>11, <1>12, <1>13,
     <1>14, <1>15, <1>16, <1>17, <1>18
     DEF Next, Environment, Begin, Proceed, Acquire, Rollback

\* A drafted thesis row is the successor of the committed one, and the only one.
LEMMA DraftsStayNext ==
    ASSUME TypeOK, ControlIsConsistent, ReadsAreOld, UpdatesAreChecked,
           DraftsFollowRows,
           [Next]_vars
    PROVE  DraftsFollowRows'
<1>1. ASSUME NEW t \in Theses, CreateThesis(t) PROVE DraftsFollowRows'
  BY <1>1 DEF DraftsFollowRows, CreateThesis, reads, drafts, TypeOK
<1>2. ASSUME NEW c \in Conditions, NEW t \in Theses, NEW d \in Definitions,
             CreateCondition(c, t, d)
      PROVE  DraftsFollowRows'
  BY <1>2 DEF DraftsFollowRows, CreateCondition, reads, drafts, TypeOK
<1>3. ASSUME NEW o \in Feed, Ingest(o) PROVE DraftsFollowRows'
  BY <1>3 DEF DraftsFollowRows, Ingest, reads, drafts, TypeOK
<1>4. ASSUME NEW r \in Workers, Fail(r) PROVE DraftsFollowRows'
  BY <1>4 DEF DraftsFollowRows, Fail, EndRequest, database, TypeOK
<1>5. ASSUME NEW r \in Workers, NEW t \in Theses, NEW src \in Sources,
             BeginEvaluate(r, t, src)
      PROVE  DraftsFollowRows'
  BY <1>5 DEF DraftsFollowRows, BeginEvaluate, Goto, database, drafts, TypeOK
<1>6. ASSUME NEW r \in Workers, NEW t \in Theses, NEW status \in PatchStatuses,
             NEW expected \in 1 .. thesis[t].version,
             BeginPatchThesis(r, t, expected, status)
      PROVE  DraftsFollowRows'
  BY <1>6 DEF DraftsFollowRows, BeginPatchThesis, Goto, database, drafts, TypeOK
<1>7. ASSUME NEW r \in Workers, NEW c \in Conditions, BeginPatchCondition(r, c)
      PROVE  DraftsFollowRows'
  BY <1>7 DEF DraftsFollowRows, BeginPatchCondition, Goto, database, drafts, TypeOK
<1>8. ASSUME NEW r \in Workers, ReadThesis(r), ~Fail(r) PROVE DraftsFollowRows'
  <2>1. ReadThesisEffect(r)
    BY <1>8, ReadThesisFrame
  <2> QED
    BY <2>1 DEF DraftsFollowRows, ReadThesisEffect, database, drafts, TypeOK
<1>9. ASSUME NEW r \in Workers, ListConditions(r) PROVE DraftsFollowRows'
  BY <1>9 DEF DraftsFollowRows, ListConditions, Goto, database, drafts, TypeOK
<1>10. ASSUME NEW r \in Workers, LoadDailyBars(r) \/ LoadFundamentals(r), ~Fail(r)
      PROVE  DraftsFollowRows'
  <2>1. LoadEffect(r)
    BY <1>10, LoadFrame
  <2> QED
    BY <2>1 DEF DraftsFollowRows, LoadEffect, database, drafts, TypeOK
<1>11. ASSUME NEW r \in Workers, LoadPrior(r), ~Fail(r) PROVE DraftsFollowRows'
  <2>1. LoadPriorEffect(r)
    BY <1>11, LoadPriorFrame
  <2> QED
    BY <2>1 DEF DraftsFollowRows, LoadPriorEffect, database, drafts, TypeOK
<1>12. ASSUME NEW r \in Workers, SaveEvaluation(r) PROVE DraftsFollowRows'
  <2>1. SaveEvaluationEffect(r)
    BY <1>12, SaveEvaluationFrame
  <2> QED
    BY <2>1 DEF DraftsFollowRows, SaveEvaluationEffect, database, TypeOK
<1>13. ASSUME NEW r \in Workers, SaveEvent(r) PROVE DraftsFollowRows'
  <2>1. SaveEventEffect(r)
    BY <1>13, SaveEventFrame
  <2> QED
    BY <2>1 DEF DraftsFollowRows, SaveEventEffect, database, TypeOK
<1>14. ASSUME NEW r \in Workers, FinishConditions(r) PROVE DraftsFollowRows'
  <2>1. FinishEffect(r)
    BY <1>14, FinishFrame
  <2> QED
    BY <2>1 DEF DraftsFollowRows, FinishEffect, database, drafts, TypeOK
<1>15. ASSUME NEW r \in Workers, WriteThesis(r), ~Fail(r) PROVE DraftsFollowRows'
  <2>1. WriteThesisEffect(r)
    BY <1>15, WriteThesisFrame
  <2> DEFINE t == request[r].thesis
  <2>2. seen[r] # NoThesis /\ UpdateIsValid(seen[r], update[r])
    BY <2>1 DEF WriteThesisEffect, UpdatesAreChecked
  <2>3. seen[r] = thesis[t] /\ seen[r].version = update[r].expected
    BY <2>1, <2>2 DEF WriteThesisEffect, UpdateIsValid, ReadsAreOld
  <2>4. /\ draftThesis'[r].version = seen[r].version + 1
        /\ MayBecome(seen[r].status, draftThesis'[r].status)
    BY <2>1, <2>2, <2>3 DEF WriteThesisEffect, UpdateIsValid, StatusAfter, MayBecome
  <2>5. \A q \in Workers \ {r} : draftThesis[q] # NoThesis => request[q].thesis # t
    BY <2>1 DEF WriteThesisEffect, ThesisLocked
  <2>6. pc'[r] = "commit" /\ \A q \in Workers \ {r} : pc'[q] = pc[q]
    BY <2>1 DEF WriteThesisEffect, TypeOK
  <2>7. /\ thesis' = thesis /\ request' = request /\ seen' = seen
        /\ \A q \in Workers \ {r} : draftThesis'[q] = draftThesis[q]
    BY <2>1 DEF WriteThesisEffect, database, reads
  <2> QED
    BY <2>2, <2>3, <2>4, <2>5, <2>6, <2>7 DEF DraftsFollowRows
<1>16. ASSUME NEW r \in Workers, NEW d \in Definitions, WriteCondition(r, d), ~Fail(r)
      PROVE  DraftsFollowRows'
  <2>1. WriteConditionEffect(r, d)
    BY <1>16, WriteConditionFrame
  <2> QED
    BY <2>1 DEF DraftsFollowRows, WriteConditionEffect, database, reads, TypeOK
<1>17. ASSUME NEW r \in Workers, Commit(r) PROVE DraftsFollowRows'
  <2>1. CommitEffect(r)
    BY <1>17, CommitFrame
  <2>2. draftThesis'[r] = NoThesis
    BY <2>1 DEF CommitEffect, EndRequest, TypeOK
  <2>3. ASSUME NEW q \in Workers \ {r}
        PROVE  /\ draftThesis'[q] = draftThesis[q] /\ request'[q] = request[q]
               /\ pc'[q] = pc[q] /\ seen'[q] = seen[q]
    BY <2>1 DEF CommitEffect, EndRequest, TypeOK
  <2>4. ASSUME NEW q \in Workers \ {r}, draftThesis[q] # NoThesis
        PROVE  thesis'[request[q].thesis] = thesis[request[q].thesis]
    <3>1. request[q].thesis \in Theses
      BY <2>4 DEF DraftsFollowRows, ControlIsConsistent, Request
    <3>2. draftThesis[r] # NoThesis => request[r].thesis # request[q].thesis
      BY <2>4 DEF DraftsFollowRows
    <3> QED
      BY <2>1, <3>1, <3>2 DEF CommitEffect
  <2> QED
    BY <2>2, <2>3, <2>4 DEF DraftsFollowRows
<1>18. CASE UNCHANGED vars
  BY <1>18 DEF DraftsFollowRows, vars, database, reads, drafts
<1> QED
  BY <1>1, <1>2, <1>3, <1>4, <1>5, <1>6, <1>7, <1>8, <1>9, <1>10, <1>11, <1>12, <1>13,
     <1>14, <1>15, <1>16, <1>17, <1>18
     DEF Next, Environment, Begin, Proceed, Acquire, Rollback

\* Conditions never move to another thesis.
LEMMA OwnersStayStable ==
    ASSUME TypeOK, ControlIsConsistent, EvaluationsAreReady, OwnersAreStable,
           [Next]_vars
    PROVE  OwnersAreStable'
<1>1. ASSUME NEW t \in Theses, CreateThesis(t) PROVE OwnersAreStable'
  BY <1>1 DEF OwnersAreStable, CreateThesis, reads, drafts, TypeOK
<1>2. ASSUME NEW c \in Conditions, NEW t \in Theses, NEW d \in Definitions,
             CreateCondition(c, t, d)
      PROVE  OwnersAreStable'
  <2>1. condition[c] = NoCondition /\ thesis[t] # NoThesis /\ t \in Theses
    BY <1>2 DEF CreateCondition
  <2>2. \A k \in Conditions \ {c} : condition'[k] = condition[k]
    BY <1>2 DEF CreateCondition, TypeOK
  <2>3. condition'[c] # NoCondition /\ condition'[c].id = c /\ condition'[c].thesis = t
    BY <1>2 DEF CreateCondition, TypeOK, NoCondition
  <2>4. UNCHANGED <<thesis, evaluations, draftCondition, draftEvaluations,
                    pc, request, todo, current>>
    BY <1>2 DEF CreateCondition, reads, drafts
  <2>5. ASSUME NEW x, x \in Conditions, condition[x] # NoCondition
        PROVE  condition'[x] = condition[x]
    BY <2>1, <2>2, <2>5
  <2>6. /\ \A q \in Workers : draftCondition[q] # NoCondition => draftCondition[q].id \in Conditions
        /\ \A q \in Workers : \A row \in todo[q] \cup ({current[q]} \ {NoCondition}) :
              row.id \in Conditions
        /\ \A e \in evaluations \cup UNION {draftEvaluations[q] : q \in Workers} :
              e.condition \in Conditions
    BY DEF TypeOK, ConditionRow, Evaluation
  <2>7. ASSUME NEW k \in Conditions, condition'[k] # NoCondition
        PROVE  condition'[k].id = k /\ thesis'[condition'[k].thesis] # NoThesis
    BY <2>1, <2>2, <2>3, <2>4, <2>7 DEF OwnersAreStable
  <2> QED
    BY <2>4, <2>5, <2>6, <2>7 DEF OwnersAreStable
<1>3. ASSUME NEW o \in Feed, Ingest(o) PROVE OwnersAreStable'
  BY <1>3 DEF OwnersAreStable, Ingest, reads, drafts, TypeOK
<1>4. ASSUME NEW r \in Workers, Fail(r) PROVE OwnersAreStable'
  BY <1>4 DEF OwnersAreStable, Fail, EndRequest, database, TypeOK
<1>5. ASSUME NEW r \in Workers, NEW t \in Theses, NEW src \in Sources,
             BeginEvaluate(r, t, src)
      PROVE  OwnersAreStable'
  BY <1>5 DEF OwnersAreStable, BeginEvaluate, Goto, database, drafts, TypeOK
<1>6. ASSUME NEW r \in Workers, NEW t \in Theses, NEW status \in PatchStatuses,
             NEW expected \in 1 .. thesis[t].version,
             BeginPatchThesis(r, t, expected, status)
      PROVE  OwnersAreStable'
  BY <1>6 DEF OwnersAreStable, BeginPatchThesis, Goto, database, drafts, TypeOK
<1>7. ASSUME NEW r \in Workers, NEW c \in Conditions, BeginPatchCondition(r, c)
      PROVE  OwnersAreStable'
  BY <1>7 DEF OwnersAreStable, BeginPatchCondition, Goto, database, drafts, TypeOK
<1>8. ASSUME NEW r \in Workers, ReadThesis(r), ~Fail(r) PROVE OwnersAreStable'
  <2>1. ReadThesisEffect(r)
    BY <1>8, ReadThesisFrame
  <2> QED
    BY <2>1 DEF OwnersAreStable, ReadThesisEffect, database, drafts, TypeOK
<1>9. ASSUME NEW r \in Workers, ListConditions(r) PROVE OwnersAreStable'
  BY <1>9 DEF OwnersAreStable, ListConditions, Goto, database, drafts,
       EnabledConditions, ConditionsOf, ControlIsConsistent, TypeOK, ConditionRow
<1>10. ASSUME NEW r \in Workers, LoadDailyBars(r) \/ LoadFundamentals(r), ~Fail(r)
      PROVE  OwnersAreStable'
  <2>1. LoadEffect(r)
    BY <1>10, LoadFrame
  <2> QED
    BY <2>1 DEF OwnersAreStable, LoadEffect, database, drafts, TypeOK
<1>11. ASSUME NEW r \in Workers, LoadPrior(r), ~Fail(r) PROVE OwnersAreStable'
  <2>1. LoadPriorEffect(r)
    BY <1>11, LoadPriorFrame
  <2> QED
    BY <2>1 DEF OwnersAreStable, LoadPriorEffect, database, drafts, TypeOK
<1>12. ASSUME NEW r \in Workers, SaveEvaluation(r) PROVE OwnersAreStable'
  <2>1. SaveEvaluationEffect(r)
    BY <1>12, SaveEvaluationFrame
  <2> DEFINE new == Candidate(r)
  <2>2. /\ new.condition = current[r].id /\ new.thesis = current[r].thesis
        /\ current[r] # NoCondition
    BY <2>1 DEF SaveEvaluationEffect, Candidate, EvaluateCondition, EvaluationsAreReady
  <2>3. condition[new.condition] # NoCondition /\ condition[new.condition].thesis = new.thesis
    BY <2>2 DEF OwnersAreStable
  <2> HIDE DEF new
  <2>4. UNION {draftEvaluations'[q] : q \in Workers}
           \subseteq (UNION {draftEvaluations[q] : q \in Workers}) \cup {new}
    BY <2>1 DEF SaveEvaluationEffect, new
  <2>5. ASSUME NEW e \in evaluations' \cup UNION {draftEvaluations'[q] : q \in Workers}
        PROVE  condition'[e.condition] # NoCondition /\ condition'[e.condition].thesis = e.thesis
    BY <2>1, <2>3, <2>4 DEF SaveEvaluationEffect, OwnersAreStable, database
  <2>6. ASSUME NEW q \in Workers
        PROVE  /\ todo'[q] \cup ({current'[q]} \ {NoCondition})
                    \subseteq todo[q] \cup ({current[q]} \ {NoCondition})
               /\ request'[q] = request[q] /\ (pc[q] # "idle" => pc'[q] # "idle")
    BY <2>1 DEF SaveEvaluationEffect, TypeOK
  <2>7. condition' = condition /\ draftCondition' = draftCondition /\ thesis' = thesis
    BY <2>1 DEF SaveEvaluationEffect, database
  <2> QED
    BY <2>5, <2>6, <2>7 DEF OwnersAreStable
<1>13. ASSUME NEW r \in Workers, SaveEvent(r) PROVE OwnersAreStable'
  <2>1. SaveEventEffect(r)
    BY <1>13, SaveEventFrame
  <2> QED
    BY <2>1 DEF OwnersAreStable, SaveEventEffect, database, TypeOK
<1>14. ASSUME NEW r \in Workers, FinishConditions(r) PROVE OwnersAreStable'
  <2>1. FinishEffect(r)
    BY <1>14, FinishFrame
  <2> QED
    BY <2>1 DEF OwnersAreStable, FinishEffect, database, drafts, TypeOK
<1>15. ASSUME NEW r \in Workers, WriteThesis(r), ~Fail(r) PROVE OwnersAreStable'
  <2>1. WriteThesisEffect(r)
    BY <1>15, WriteThesisFrame
  <2> QED
    BY <2>1 DEF OwnersAreStable, WriteThesisEffect, database, reads, TypeOK
<1>16. ASSUME NEW r \in Workers, NEW d \in Definitions, WriteCondition(r, d), ~Fail(r)
      PROVE  OwnersAreStable'
  <2>1. WriteConditionEffect(r, d)
    BY <1>16, WriteConditionFrame
  <2> DEFINE row == condition[request[r].condition]
  <2>2. request[r].condition \in Conditions /\ row # NoCondition /\ row \in ConditionRow
    BY <2>1 DEF WriteConditionEffect, ControlIsConsistent, Request, TypeOK
  <2>3. draftCondition'[r].id = row.id /\ draftCondition'[r].thesis = row.thesis
    BY <2>1, <2>2 DEF WriteConditionEffect, ConditionRow
  <2>4. row.id = request[r].condition
    BY <2>2 DEF OwnersAreStable
  <2>5. ASSUME NEW q \in Workers, draftCondition'[q] # NoCondition
        PROVE  /\ condition[draftCondition'[q].id] # NoCondition
               /\ condition[draftCondition'[q].id].thesis = draftCondition'[q].thesis
    <3>1. CASE q = r
      BY <2>2, <2>3, <2>4, <3>1
    <3>2. CASE q # r
      BY <2>1, <2>5, <3>2 DEF WriteConditionEffect, OwnersAreStable
    <3> QED
      BY <3>1, <3>2
  <2>6. ASSUME NEW q \in Workers PROVE pc[q] # "idle" => pc'[q] # "idle"
    BY <2>1 DEF WriteConditionEffect, TypeOK
  <2>7. /\ UNCHANGED <<condition, thesis, evaluations, draftEvaluations>>
        /\ UNCHANGED <<request, todo, current>>
    BY <2>1 DEF WriteConditionEffect, database, reads
  <2> QED
    BY <2>5, <2>6, <2>7 DEF OwnersAreStable
<1>17. ASSUME NEW r \in Workers, Commit(r) PROVE OwnersAreStable'
  <2>1. CommitEffect(r)
    BY <1>17, CommitFrame
  <2>2. ASSUME NEW c \in Conditions, condition[c] # NoCondition
        PROVE  /\ condition'[c] # NoCondition /\ condition'[c].id = c
               /\ condition'[c].thesis = condition[c].thesis
    BY <2>1, <2>2 DEF CommitEffect, OwnersAreStable
  <2>3. ASSUME NEW t \in Theses, thesis[t] # NoThesis PROVE thesis'[t] # NoThesis
    BY <2>1, <2>3 DEF CommitEffect
  <2>4. ASSUME NEW c \in Conditions, condition'[c] # NoCondition PROVE condition[c] # NoCondition
    BY <2>1, <2>4 DEF CommitEffect, OwnersAreStable
  <2>5. \A c \in Conditions : condition[c] # NoCondition => condition[c].thesis \in Theses
    BY DEF TypeOK, ConditionRow
  <2>6. ASSUME NEW c \in Conditions, condition'[c] # NoCondition
        PROVE  condition'[c].id = c /\ thesis'[condition'[c].thesis] # NoThesis
    BY <2>2, <2>3, <2>4, <2>5, <2>6 DEF OwnersAreStable
  <2>7. ASSUME NEW q \in Workers
        PROVE  /\ draftCondition'[q] = draftCondition[q] \/ draftCondition'[q] = NoCondition
               /\ draftEvaluations'[q] \subseteq draftEvaluations[q]
               /\ \/ pc'[q] = pc[q] /\ todo'[q] = todo[q] /\ current'[q] = current[q]
                    /\ request'[q] = request[q]
                  \/ todo'[q] = {} /\ current'[q] = NoCondition
    BY <2>1 DEF CommitEffect, EndRequest, TypeOK
  <2>8. ASSUME NEW q \in Workers, draftCondition'[q] # NoCondition
        PROVE  LET row == condition'[draftCondition'[q].id] IN
               row # NoCondition /\ row.thesis = draftCondition'[q].thesis
    <3>1. draftCondition'[q] = draftCondition[q] /\ draftCondition[q].id \in Conditions
      BY <2>7, <2>8 DEF TypeOK, ConditionRow
    <3> QED
      BY <2>2, <2>8, <3>1 DEF OwnersAreStable
  <2>9. ASSUME NEW q \in Workers, NEW row \in todo'[q] \cup ({current'[q]} \ {NoCondition})
        PROVE  /\ pc'[q] # "idle" /\ row.thesis = request'[q].thesis
               /\ condition'[row.id] # NoCondition
               /\ condition'[row.id].thesis = row.thesis
    <3>1. /\ row \in todo[q] \cup ({current[q]} \ {NoCondition})
          /\ pc'[q] = pc[q] /\ request'[q] = request[q]
      BY <2>7
    <3>2. row.id \in Conditions
      BY <3>1 DEF TypeOK, ConditionRow
    <3> QED
      BY <2>2, <3>1, <3>2 DEF OwnersAreStable
  <2>10. ASSUME NEW e \in evaluations' \cup UNION {draftEvaluations'[q] : q \in Workers}
         PROVE  /\ condition'[e.condition] # NoCondition
                /\ condition'[e.condition].thesis = e.thesis
    <3>1. e \in evaluations \cup UNION {draftEvaluations[q] : q \in Workers}
      BY <2>1, <2>7 DEF CommitEffect
    <3>2. e.condition \in Conditions
      BY <3>1 DEF TypeOK, Evaluation
    <3> QED
      BY <2>2, <3>1, <3>2 DEF OwnersAreStable
  <2> QED
    BY <2>6, <2>8, <2>9, <2>10 DEF OwnersAreStable
<1>18. CASE UNCHANGED vars
  BY <1>18 DEF OwnersAreStable, vars, database, reads, drafts
<1> QED
  BY <1>1, <1>2, <1>3, <1>4, <1>5, <1>6, <1>7, <1>8, <1>9, <1>10, <1>11, <1>12, <1>13,
     <1>14, <1>15, <1>16, <1>17, <1>18
     DEF Next, Environment, Begin, Proceed, Acquire, Rollback

\* A run that has found an invalidation does not commit without it.
LEMMA RunsStayInvalidating ==
    ASSUME TypeOK, ControlIsConsistent, EvaluationsAreReady, ReadsAreOld,
           UpdatesAreChecked, OwnersAreStable, RunsInvalidate,
           [Next]_vars
    PROVE  RunsInvalidate'
<1>1. ASSUME NEW t \in Theses, CreateThesis(t) PROVE RunsInvalidate'
  BY <1>1 DEF RunsInvalidate, CreateThesis, reads, drafts, TypeOK
<1>2. ASSUME NEW c \in Conditions, NEW t \in Theses, NEW d \in Definitions,
             CreateCondition(c, t, d)
      PROVE  RunsInvalidate'
  BY <1>2 DEF RunsInvalidate, CreateCondition, reads, drafts, TypeOK
<1>3. ASSUME NEW o \in Feed, Ingest(o) PROVE RunsInvalidate'
  BY <1>3 DEF RunsInvalidate, Ingest, reads, drafts, TypeOK
<1>4. ASSUME NEW r \in Workers, Fail(r) PROVE RunsInvalidate'
  BY <1>4 DEF RunsInvalidate, Fail, EndRequest, database, TypeOK
<1>5. ASSUME NEW r \in Workers, NEW t \in Theses, NEW src \in Sources,
             BeginEvaluate(r, t, src)
      PROVE  RunsInvalidate'
  BY <1>5 DEF RunsInvalidate, BeginEvaluate, Goto, database, drafts, TypeOK
<1>6. ASSUME NEW r \in Workers, NEW t \in Theses, NEW status \in PatchStatuses,
             NEW expected \in 1 .. thesis[t].version,
             BeginPatchThesis(r, t, expected, status)
      PROVE  RunsInvalidate'
  BY <1>6 DEF RunsInvalidate, BeginPatchThesis, Goto, database, drafts, TypeOK
<1>7. ASSUME NEW r \in Workers, NEW c \in Conditions, BeginPatchCondition(r, c)
      PROVE  RunsInvalidate'
  BY <1>7 DEF RunsInvalidate, BeginPatchCondition, Goto, database, drafts, TypeOK
<1>8. ASSUME NEW r \in Workers, ReadThesis(r), ~Fail(r) PROVE RunsInvalidate'
  <2>1. ReadThesisEffect(r)
    BY <1>8, ReadThesisFrame
  <2> QED
    BY <2>1 DEF RunsInvalidate, ReadThesisEffect, database, drafts, TypeOK
<1>9. ASSUME NEW r \in Workers, ListConditions(r) PROVE RunsInvalidate'
  BY <1>9 DEF RunsInvalidate, ListConditions, Goto, database, drafts, TypeOK
<1>10. ASSUME NEW r \in Workers, LoadDailyBars(r) \/ LoadFundamentals(r), ~Fail(r)
      PROVE  RunsInvalidate'
  <2>1. LoadEffect(r)
    BY <1>10, LoadFrame
  <2> QED
    BY <2>1 DEF RunsInvalidate, LoadEffect, database, drafts, TypeOK
<1>11. ASSUME NEW r \in Workers, LoadPrior(r), ~Fail(r) PROVE RunsInvalidate'
  <2>1. LoadPriorEffect(r)
    BY <1>11, LoadPriorFrame
  <2> QED
    BY <2>1 DEF RunsInvalidate, LoadPriorEffect, database, drafts, TypeOK
<1>12. ASSUME NEW r \in Workers, SaveEvaluation(r) PROVE RunsInvalidate'
  <2>1. SaveEvaluationEffect(r)
    BY <1>12, SaveEvaluationFrame
  <2>2. pc[r] = "save_evaluation" /\ pc'[r] \in {"save_event", "next_condition"}
    BY <2>1 DEF SaveEvaluationEffect, TypeOK
  <2>3. ASSUME NEW q \in Workers \ {r} PROVE pc'[q] = pc[q]
    BY <2>1 DEF SaveEvaluationEffect, TypeOK
  <2>4. UNCHANGED <<request, draftEvents, draftThesis, update>>
    BY <2>1 DEF SaveEvaluationEffect
  <2> QED
    BY <2>2, <2>3, <2>4 DEF RunsInvalidate
<1>13. ASSUME NEW r \in Workers, SaveEvent(r) PROVE RunsInvalidate'
  <2>1. SaveEventEffect(r)
    BY <1>13, SaveEventFrame
  <2>2. PICK saved \in VisibleEvaluations(r) :
          /\ Period(saved) = Period(Candidate(r))
          /\ draftEvents'[r] \subseteq
                draftEvents[r] \cup {EventOf(current[r], saved, request[r].source)}
    BY <2>1 DEF SaveEventEffect
  <2>3. /\ pc[r] = "save_event" /\ current[r] # NoCondition /\ pc'[r] = "next_condition"
        /\ request[r].kind = "evaluate" /\ request' = request
        /\ IsInvalidation(current[r]) \/ update[r].trigger # {} => update'[r].trigger # {}
    BY <2>1 DEF SaveEventEffect, EvaluationsAreReady, ControlIsConsistent,
         EvaluationLabels, TypeOK
  <2>4. saved.condition = current[r].id
    BY <2>2 DEF Period, Candidate, EvaluateCondition
  <2>5. saved.thesis = request[r].thesis
    BY <2>3, <2>4 DEF OwnersAreStable, VisibleEvaluations
  <2>6. ASSUME NEW v \in draftEvents'[r]
        PROVE  v.thesis = request[r].thesis /\ (v.kind = "invalidation" => update'[r].trigger # {})
    BY <2>2, <2>3, <2>5 DEF EventOf, IsInvalidation, RunsInvalidate
  <2>7. ASSUME NEW q \in Workers \ {r}
        PROVE  /\ draftEvents'[q] = draftEvents[q] /\ update'[q] = update[q]
               /\ pc'[q] = pc[q] /\ draftThesis'[q] = draftThesis[q]
    BY <2>1 DEF SaveEventEffect, TypeOK
  <2> QED
    BY <2>3, <2>6, <2>7 DEF RunsInvalidate
<1>14. ASSUME NEW r \in Workers, FinishConditions(r) PROVE RunsInvalidate'
  <2>1. FinishEffect(r)
    BY <1>14, FinishFrame
  <2>2. request[r].kind = "evaluate" /\ seen[r].status # "invalidated"
    BY <2>1 DEF FinishEffect, ControlIsConsistent, EvaluationLabels, UpdatesAreChecked,
         Monitorable
  <2>3. /\ update'[r].trigger = update[r].trigger /\ pc'[r] # "idle"
        /\ pc'[r] = "commit" => update'[r].trigger = {}
    BY <2>1, <2>2 DEF FinishEffect, TypeOK
  <2>4. ASSUME NEW q \in Workers \ {r} PROVE pc'[q] = pc[q] /\ update'[q] = update[q]
    BY <2>1 DEF FinishEffect, TypeOK
  <2>5. request' = request /\ draftEvents' = draftEvents /\ draftThesis' = draftThesis
    BY <2>1 DEF FinishEffect, drafts
  <2> QED
    BY <2>1, <2>3, <2>4, <2>5 DEF RunsInvalidate, FinishEffect
<1>15. ASSUME NEW r \in Workers, WriteThesis(r), ~Fail(r) PROVE RunsInvalidate'
  <2>1. WriteThesisEffect(r)
    BY <1>15, WriteThesisFrame
  <2>2. request[r].kind = "evaluate" => update[r].status = "invalidated"
    BY <2>1 DEF WriteThesisEffect, UpdatesAreChecked
  <2>3. request[r].kind = "evaluate" =>
          draftThesis'[r] # NoThesis /\ draftThesis'[r].status = "invalidated"
    BY <2>1, <2>2 DEF WriteThesisEffect, StatusAfter, NoThesis
  <2>4. pc[r] # "idle" /\ pc'[r] # "idle"
    BY <2>1 DEF WriteThesisEffect, TypeOK
  <2>5. ASSUME NEW q \in Workers \ {r} PROVE pc'[q] = pc[q] /\ draftThesis'[q] = draftThesis[q]
    BY <2>1 DEF WriteThesisEffect, TypeOK
  <2>6. request' = request /\ draftEvents' = draftEvents /\ update' = update
    BY <2>1 DEF WriteThesisEffect, reads
  <2> QED
    BY <2>3, <2>4, <2>5, <2>6 DEF RunsInvalidate
<1>16. ASSUME NEW r \in Workers, NEW d \in Definitions, WriteCondition(r, d), ~Fail(r)
      PROVE  RunsInvalidate'
  <2>1. WriteConditionEffect(r, d)
    BY <1>16, WriteConditionFrame
  <2>2. request[r].kind = "patch_condition"
    BY <2>1 DEF WriteConditionEffect, ControlIsConsistent
  <2>3. ASSUME NEW q \in Workers \ {r} PROVE pc'[q] = pc[q]
    BY <2>1 DEF WriteConditionEffect, TypeOK
  <2>4. UNCHANGED <<request, draftEvents, draftThesis, update>>
    BY <2>1 DEF WriteConditionEffect, reads
  <2> QED
    BY <2>2, <2>3, <2>4 DEF RunsInvalidate
<1>17. ASSUME NEW r \in Workers, Commit(r) PROVE RunsInvalidate'
  <2>1. CommitEffect(r)
    BY <1>17, CommitFrame
  <2> QED
    BY <2>1 DEF RunsInvalidate, CommitEffect, EndRequest, TypeOK
<1>18. CASE UNCHANGED vars
  BY <1>18 DEF RunsInvalidate, vars, database, reads, drafts
<1> QED
  BY <1>1, <1>2, <1>3, <1>4, <1>5, <1>6, <1>7, <1>8, <1>9, <1>10, <1>11, <1>12, <1>13,
     <1>14, <1>15, <1>16, <1>17, <1>18
     DEF Next, Environment, Begin, Proceed, Acquire, Rollback

\* Only three actions change what is committed of theses and events.
LEMMA StepKinds ==
    ASSUME [Next]_vars
    PROVE  \/ \E t \in Theses : CreateThesis(t)
           \/ \E r \in Workers : Commit(r)
           \/ UNCHANGED <<thesis, events>>
<1>1. Environment => (\E t \in Theses : CreateThesis(t)) \/ UNCHANGED <<thesis, events>>
  BY DEF Environment, CreateCondition, Ingest
<1>2. ASSUME NEW r \in Workers, Begin(r) PROVE UNCHANGED <<thesis, events>>
  BY <1>2 DEF Begin, BeginEvaluate, BeginPatchThesis, BeginPatchCondition, database
<1>3. ASSUME NEW r \in Workers, Proceed(r) PROVE Commit(r) \/ UNCHANGED <<thesis, events>>
  BY <1>3 DEF Proceed, ReadThesis, ListConditions, LoadDailyBars, LoadFundamentals,
       LoadSeries, LoadPrior, SaveEvent, FinishConditions, Fail, database
<1>4. ASSUME NEW r \in Workers, Acquire(r) PROVE UNCHANGED <<thesis, events>>
  BY <1>4 DEF Acquire, WriteThesis, WriteCondition, SaveEvaluation, Fail, database
<1>5. ASSUME NEW r \in Workers, Rollback(r) PROVE UNCHANGED <<thesis, events>>
  BY <1>5 DEF Rollback, Fail, database
<1> QED
  BY <1>1, <1>2, <1>3, <1>4, <1>5 DEF Next, vars, database

\* The rows an event refers to are never deleted.
LEMMA EventsKeepTheses ==
    ASSUME TypeOK, ControlIsConsistent, RunsInvalidate, EventsHaveTheses, [Next]_vars
    PROVE  EventsHaveTheses'
<1>1. ASSUME NEW t \in Theses, CreateThesis(t) PROVE EventsHaveTheses'
  BY <1>1 DEF EventsHaveTheses, CreateThesis, TypeOK, NoThesis
<1>2. ASSUME NEW r \in Workers, Commit(r) PROVE EventsHaveTheses'
  <2>1. CommitEffect(r)
    BY <1>2, CommitFrame
  <2>2. ASSUME NEW v \in events' PROVE thesis[v.thesis] # NoThesis /\ v.thesis \in Theses
    <3>1. CASE v \in events
      BY <3>1 DEF EventsHaveTheses, TypeOK, Event
    <3>2. CASE v \in draftEvents[r]
      <4>1. pc[r] # "idle" /\ v.thesis = request[r].thesis
        BY <3>2 DEF RunsInvalidate
      <4> QED
        BY <4>1 DEF ControlIsConsistent, Request
    <3> QED
      BY <2>1, <3>1, <3>2 DEF CommitEffect
  <2> QED
    BY <2>1, <2>2 DEF CommitEffect, EventsHaveTheses
<1>3. CASE UNCHANGED <<thesis, events>>
  BY <1>3 DEF EventsHaveTheses
<1> QED
  BY <1>1, <1>2, <1>3, StepKinds

\* Once an invalidation event is committed its thesis stays out of monitoring.
LEMMA InvalidationStaysFinal ==
    ASSUME TypeOK, RequestsAreIsolated, InvalidationIsFinal, [Next]_vars
    PROVE  InvalidationIsFinal'
<1> USE DEF InvalidationIsFinal, Ledger!InvalidationIsFinal, Ledger!Invalidates,
            Ledger!Monitorable, Monitorable
<1>1. ASSUME NEW t \in Theses, CreateThesis(t) PROVE InvalidationIsFinal'
  BY <1>1 DEF RequestsAreIsolated, EventsHaveTheses, CreateThesis, TypeOK
<1>2. ASSUME NEW r \in Workers, Commit(r) PROVE InvalidationIsFinal'
  <2>1. CommitEffect(r)
    BY <1>2, CommitFrame DEF RequestsAreIsolated
  <2> DEFINE t == request[r].thesis
  <2>2. draftThesis[r] # NoThesis /\ thesis[t].status \notin Monitorable
           => draftThesis[r].status \notin Monitorable
    <3>1. draftThesis[r] # NoThesis =>
             MayBecome(thesis[t].status, draftThesis[r].status) /\ thesis[t] \in ThesisRow
      BY DEF RequestsAreIsolated, DraftsFollowRows, TypeOK
    <3> QED
      BY <3>1 DEF MayBecome, AllowedTransitions, Monitorable, ThesisRow, ThesisStatus
  <2>3. ASSUME NEW v \in events, v.kind = "invalidation"
        PROVE  thesis'[v.thesis].status \notin Monitorable
    <3>1. thesis[v.thesis].status \notin Monitorable /\ v.thesis \in Theses
      BY <2>3 DEF TypeOK, Event
    <3> QED
      BY <2>1, <2>2, <3>1 DEF CommitEffect
  <2>4. ASSUME NEW v \in draftEvents[r], v.kind = "invalidation"
        PROVE  thesis'[v.thesis].status \notin Monitorable
    <3>1. /\ v.thesis = t /\ t \in Theses
          /\ request[r].kind = "evaluate" /\ update[r].trigger # {}
      BY <2>4 DEF RequestsAreIsolated, RunsInvalidate, TypeOK, Event
    <3>2. draftThesis[r] # NoThesis /\ draftThesis[r].status = "invalidated"
      BY <2>1, <3>1 DEF CommitEffect, RequestsAreIsolated, RunsInvalidate
    <3> QED
      BY <2>1, <3>1, <3>2 DEF CommitEffect, Monitorable
  <2> QED
    BY <2>1, <2>3, <2>4 DEF CommitEffect
<1>3. CASE UNCHANGED <<thesis, events>>
  BY <1>3
<1> QED
  BY <1>1, <1>2, <1>3, StepKinds

-----------------------------------------------------------------------------
(* Theorems *)

\* The inductive invariant: types, and what each request in progress may
\* rely on while the others of the API read, wait, write and commit.
THEOREM RequestIsolation == Spec => [](TypeOK /\ RequestsAreIsolated)
<1>1. Init => TypeOK /\ RequestsAreIsolated
  BY InitIsTyped, InitIsIsolated
<1>2. TypeOK /\ RequestsAreIsolated /\ [Next]_vars => (TypeOK /\ RequestsAreIsolated)'
  <2> SUFFICES ASSUME TypeOK, RequestsAreIsolated, [Next]_vars
               PROVE  TypeOK' /\ RequestsAreIsolated'
    OBVIOUS
  <2>1. /\ ControlIsConsistent /\ EvaluationsAreReady /\ ReadsAreOld /\ UpdatesAreChecked
        /\ DraftsFollowRows /\ OwnersAreStable /\ RunsInvalidate /\ EventsHaveTheses
    BY DEF RequestsAreIsolated
  <2>2. TypeOK'
    BY <2>1, TypesArePreserved
  <2>3. ControlIsConsistent'
    BY <2>1, ControlStaysConsistent
  <2>4. EvaluationsAreReady'
    BY <2>1, EvaluationsStayReady
  <2>5. ReadsAreOld'
    BY <2>1, ReadsStayOld
  <2>6. UpdatesAreChecked'
    BY <2>1, UpdatesStayChecked
  <2>7. DraftsFollowRows'
    BY <2>1, DraftsStayNext
  <2>8. OwnersAreStable'
    BY <2>1, OwnersStayStable
  <2>9. RunsInvalidate'
    BY <2>1, RunsStayInvalidating
  <2>10. EventsHaveTheses'
    BY <2>1, EventsKeepTheses
  <2> QED
    BY <2>2, <2>3, <2>4, <2>5, <2>6, <2>7, <2>8, <2>9, <2>10 DEF RequestsAreIsolated
<1> QED
  BY <1>1, <1>2, PTL DEF Spec

\* Every variable keeps its type: in particular the stored counts stay within
\* the CHECK constraints of rule_evaluations and versions stay positive.
THEOREM TypeCorrectness == Spec => []TypeOK
BY RequestIsolation, PTL

\* No interleaving of evaluations, PATCH requests and failures commits an
\* invalidation event of a thesis that is, or ever again becomes, monitored.
THEOREM InvalidationFinality == Spec => []InvalidationIsFinal
<1>1. Init => InvalidationIsFinal
  BY DEF Init, InvalidationIsFinal, Ledger!InvalidationIsFinal
<1>2. TypeOK /\ RequestsAreIsolated /\ InvalidationIsFinal /\ [Next]_vars
         => InvalidationIsFinal'
  BY InvalidationStaysFinal
<1> QED
  BY <1>1, <1>2, RequestIsolation, PTL DEF Spec
=============================================================================
