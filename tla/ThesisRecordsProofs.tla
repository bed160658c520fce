------------------------ MODULE ThesisRecordsProofs ------------------------
(***************************************************************************)
(* The records of ThesisMonitoring fit each other, for any number of       *)
(* workers, theses, conditions and observations: versions, evaluations,    *)
(* events and triggers, committed and drafted.                             *)
(***************************************************************************)
EXTENDS ThesisRecordsInvariant, ThesisMonitoringProofs

-----------------------------------------------------------------------------
(* The steps that matter for evaluations and events *)

\* Neither is touched, and a request about to save an event stays so.
QuietStep ==
    /\ UNCHANGED <<evaluations, events, draftEvaluations, draftEvents>>
    /\ versions \subseteq versions'
    /\ \A q \in Workers :
          /\ pc'[q] = "save_event" <=> pc[q] = "save_event"
          /\ pc[q] = "save_event" =>
                /\ request'[q] = request[q] /\ current'[q] = current[q]
                /\ series'[q] = series[q] /\ prior'[q] = prior[q]

\* What a quiet step of one request leaves to the others.
QuietRequest(r) ==
    /\ UNCHANGED <<evaluations, events, versions, draftEvaluations, draftEvents>>
    /\ pc[r] # "save_event" /\ pc'[r] # "save_event"
    /\ \A q \in Workers \ {r} :
          /\ pc'[q] = pc[q] /\ request'[q] = request[q] /\ current'[q] = current[q]
          /\ series'[q] = series[q] /\ prior'[q] = prior[q]

\* Every step commits, fails, saves an evaluation or an event, or is quiet.
LEMMA RecordSteps ==
    ASSUME TypeOK, [Next]_vars
    PROVE  \/ \E r \in Workers : Commit(r)
           \/ \E r \in Workers : Fail(r)
           \/ \E r \in Workers : SaveEvaluation(r)
           \/ \E r \in Workers : SaveEvent(r)
           \/ QuietStep
<1>1. ASSUME NEW r \in Workers, QuietRequest(r) PROVE QuietStep
  BY <1>1 DEF QuietRequest, QuietStep
<1>2. CASE Environment \/ UNCHANGED vars
  <2>1. UNCHANGED <<evaluations, events, pc, request, reads, drafts>> /\ versions \subseteq versions'
    BY <1>2 DEF Environment, CreateThesis, CreateCondition, Ingest, vars, database
  <2> QED
    BY <2>1 DEF QuietStep, reads, drafts
<1>3. ASSUME NEW r \in Workers, Begin(r) PROVE QuietRequest(r)
  BY <1>3 DEF Begin, BeginEvaluate, BeginPatchThesis, BeginPatchCondition, QuietRequest,
       Goto, database, drafts, TypeOK
<1>4. ASSUME NEW r \in Workers, ReadThesis(r), ~Fail(r) PROVE QuietRequest(r)
  <2>1. ReadThesisEffect(r)
    BY <1>4, ReadThesisFrame
  <2> QED
    BY <2>1 DEF ReadThesisEffect, QuietRequest, database, drafts, TypeOK
<1>5. ASSUME NEW r \in Workers, ListConditions(r) PROVE QuietRequest(r)
  BY <1>5 DEF ListConditions, Goto, QuietRequest, database, drafts, TypeOK
<1>6. ASSUME NEW r \in Workers, LoadDailyBars(r) \/ LoadFundamentals(r), ~Fail(r)
      PROVE  QuietRequest(r)
  <2>1. LoadEffect(r)
    BY <1>6, LoadFrame
  <2> QED
    BY <2>1 DEF LoadEffect, QuietRequest, database, drafts, TypeOK
<1>7. ASSUME NEW r \in Workers, LoadPrior(r), ~Fail(r) PROVE QuietRequest(r)
  <2>1. LoadPriorEffect(r)
    BY <1>7, LoadPriorFrame
  <2> QED
    BY <2>1 DEF LoadPriorEffect, QuietRequest, database, drafts, TypeOK
<1>8. ASSUME NEW r \in Workers, FinishConditions(r) PROVE QuietRequest(r)
  <2>1. FinishEffect(r)
    BY <1>8, FinishFrame
  <2> QED
    BY <2>1 DEF FinishEffect, QuietRequest, database, drafts, TypeOK
<1>9. ASSUME NEW r \in Workers, WriteThesis(r), ~Fail(r) PROVE QuietRequest(r)
  <2>1. WriteThesisEffect(r)
    BY <1>9, WriteThesisFrame
  <2> QED
    BY <2>1 DEF WriteThesisEffect, QuietRequest, database, reads, TypeOK
<1>10. ASSUME NEW r \in Workers, NEW d \in Definitions, WriteCondition(r, d), ~Fail(r)
      PROVE  QuietRequest(r)
  <2>1. WriteConditionEffect(r, d)
    BY <1>10, WriteConditionFrame
  <2> QED
    BY <2>1 DEF WriteConditionEffect, QuietRequest, database, reads, TypeOK
<1> QED
  BY <1>1, <1>2, <1>3, <1>4, <1>5, <1>6, <1>7, <1>8, <1>9, <1>10
     DEF Next, Proceed, Acquire, Rollback

-----------------------------------------------------------------------------
(* What the steps that are not quiet do *)

\* The candidate of a request depends on what the request has read only.
LEMMA TargetIsStable ==
    ASSUME NEW r \in Workers, request'[r] = request[r], current'[r] = current[r],
           series'[r] = series[r], prior'[r] = prior[r]
    PROVE  Candidate(r)' = Candidate(r) /\ Target(r)' = Target(r)
BY DEF Candidate, SeriesFor, Target

\* A candidate is an evaluation of the current condition by its rule.
LEMMA CandidateFacts ==
    ASSUME TypeOK, ControlIsConsistent, EvaluationsAreReady, NEW r \in Workers,
           pc[r] \in {"save_evaluation", "save_event"}
    PROVE  LET e   == Candidate(r)
               row == current[r]
           IN  /\ e \in Evaluation /\ row \in ConditionRow
               /\ e.thesis = row.thesis /\ e.condition = row.id /\ e.version = row.version
               /\ e.rule = row.definition.rule /\ e.source = request[r].source
               /\ e.count > 0 <=> Satisfies(e.observed, e.rule)
               /\ e.matched <=> e.count = e.rule.periods
<1> DEFINE row     == current[r]
           rule    == row.definition.rule
           data    == SeriesFor(r, row)
           asOf    == LatestDay(data)
           matches == Satisfies(data[asOf], rule)
           n       == ConsecutivePeriods(matches, rule.periods, prior[r])
<1>1. row \in ConditionRow /\ rule \in Rule
  BY DEF TypeOK, EvaluationsAreReady, ConditionRow, Definition
<1>2. rule.periods \in 1 .. MaxPeriods
  BY <1>1 DEF Rule
<1>3. prior[r] # {} => LatestOf(prior[r]) # {} /\ LatestOf(prior[r]) \subseteq Evaluation
  BY DEF TypeOK, EvaluationsAreReady, LatestOf, Evaluation, Day
<1> DEFINE previous == CHOOSE e \in LatestOf(prior[r]) : TRUE
<1>4. prior[r] # {} => previous.count \in 0 .. MaxPeriods
  BY <1>3 DEF Evaluation
<1> HIDE DEF previous
<1>5. matches \in BOOLEAN
  BY DEF Satisfies, CompareValues
<1> DEFINE m == previous.count + 1
<1>6. prior[r] # {} => Capped(m, rule.periods) \in 1 .. rule.periods
  BY <1>2, <1>4 DEF Capped, MaxPeriods
<1> HIDE DEF m
<1>7. n = IF ~matches THEN 0
          ELSE IF rule.periods = 1 \/ prior[r] = {} THEN 1 ELSE Capped(m, rule.periods)
  BY DEF ConsecutivePeriods, m, previous
<1> HIDE DEF matches, n
<1>8. /\ n > 0 <=> matches
      /\ n >= rule.periods <=> n = rule.periods
  BY <1>2, <1>5, <1>6, <1>7 DEF MaxPeriods
<1>9. Candidate(r) = EvaluateCondition(row, asOf, data[asOf], request[r].source, prior[r])
  BY DEF Candidate
<1> HIDE DEF asOf, data, rule
<1>10. EvaluateCondition(row, asOf, data[asOf], request[r].source, prior[r])
         = [thesis |-> row.thesis, condition |-> row.id, version |-> row.version,
            rule |-> rule, asOf |-> asOf, observed |-> data[asOf],
            source |-> request[r].source, count |-> n, matched |-> n >= rule.periods]
  BY DEF EvaluateCondition, rule, n, matches
<1>11. Candidate(r) \in Evaluation
  BY CandidateIsEvaluation
<1> DEFINE e == Candidate(r)
<1>12. /\ e.thesis = row.thesis /\ e.condition = row.id /\ e.version = row.version
       /\ e.rule = rule /\ e.source = request[r].source /\ e.observed = data[asOf]
       /\ e.count = n /\ e.matched = (n >= rule.periods)
  BY <1>9, <1>10
<1> HIDE DEF e
<1>13. matches <=> Satisfies(e.observed, e.rule)
  BY <1>12 DEF matches
<1>14. /\ e.count > 0 <=> Satisfies(e.observed, e.rule)
       /\ e.matched <=> e.count = e.rule.periods
  BY <1>8, <1>12, <1>13
<1> QED
  BY <1>1, <1>11, <1>12, <1>14 DEF rule, e

\* What a request of another worker has at hand is not touched.
OthersKeep(r) ==
    \A q \in Workers \ {r} :
        /\ pc'[q] = pc[q] /\ request'[q] = request[q] /\ update'[q] = update[q]
        /\ seen'[q] = seen[q] /\ todo'[q] = todo[q] /\ current'[q] = current[q]
        /\ series'[q] = series[q] /\ prior'[q] = prior[q]
        /\ draftThesis'[q] = draftThesis[q] /\ draftCondition'[q] = draftCondition[q]
        /\ draftEvaluations'[q] = draftEvaluations[q] /\ draftEvents'[q] = draftEvents[q]

EndEffect(r) ==
    /\ OthersKeep(r)
    /\ pc'[r] = "idle" /\ request'[r] = NoRequest /\ update'[r] = NoUpdate
    /\ todo'[r] = {} /\ current'[r] = NoCondition
    /\ draftThesis'[r] = NoThesis /\ draftCondition'[r] = NoCondition
    /\ draftEvaluations'[r] = {} /\ draftEvents'[r] = {}

\* The end of a request clears what it had at hand.
LEMMA EndFrame ==
    ASSUME NEW r \in Workers, EndRequest(r), TypeOK
    PROVE  EndEffect(r)
<1>1. OthersKeep(r)
  BY DEF EndRequest, TypeOK, OthersKeep
<1> QED
  BY <1>1 DEF EndRequest, TypeOK, EndEffect

CommitRecords(r) ==
    /\ EndEffect(r)
    /\ pc[r] = "commit"
    /\ evaluations' = evaluations \cup draftEvaluations[r]
    /\ events' = events \cup draftEvents[r]
    /\ versions' = IF draftCondition[r] = NoCondition THEN versions
                   ELSE versions \cup {draftCondition[r]}

\* A commit adds the drafts to the tables.
LEMMA CommitRecordsFrame ==
    ASSUME NEW r \in Workers, Commit(r), TypeOK
    PROVE  CommitRecords(r)
<1>1. EndEffect(r)
  BY EndFrame DEF Commit
<1>2. versions' = IF draftCondition[r] = NoCondition THEN versions
                  ELSE versions \cup {draftCondition[r]}
  BY DEF Commit, VersionRow
<1> QED
  BY <1>1, <1>2 DEF Commit, CommitRecords

\* No visible evaluation has the period of the candidate, and nobody else has
\* drafted one.
TargetIsNew(r) ==
    /\ \A e \in VisibleEvaluations(r) : Period(e) # Target(r)
    /\ \A q \in Workers \ {r} : \A e \in draftEvaluations[q] : Period(e) # Target(r)

SaveEvaluationRecords(r) ==
    /\ UNCHANGED <<evaluations, events, versions, draftEvents, request, series>>
    /\ OthersKeep(r)
    /\ pc[r] = "save_evaluation"
    /\ \/ /\ TargetIsNew(r)
          /\ draftEvaluations'[r] = draftEvaluations[r] \cup {Candidate(r)}
          /\ pc'[r] = "save_event" <=> Candidate(r).matched
       \/ /\ draftEvaluations'[r] = draftEvaluations[r]
          /\ pc'[r] = "save_event" =>
                \E e \in VisibleEvaluations(r) : e.matched /\ Period(e) = Target(r)
    /\ pc'[r] = "save_event" => current'[r] = current[r] /\ prior'[r] = prior[r]

\* A new period is drafted; one that exists is used as it is.
LEMMA SaveEvaluationRecordsFrame ==
    ASSUME NEW r \in Workers, SaveEvaluation(r), TypeOK
    PROVE  SaveEvaluationRecords(r)
<1> DEFINE existing == {e \in VisibleEvaluations(r) : Period(e) = Target(r)}
           saved    == IF existing = {} THEN {Candidate(r)} ELSE existing
<1>1. /\ UNCHANGED <<evaluations, events, versions, draftEvents, request, series>>
      /\ OthersKeep(r)
      /\ pc[r] = "save_evaluation"
  <2>1. SaveEvaluationEffect(r)
    BY SaveEvaluationFrame
  <2> QED
    BY <2>1 DEF SaveEvaluationEffect, OthersKeep, database, TypeOK
<1>2. /\ ~PeriodLocked(r, Target(r))
      /\ draftEvaluations' =
            IF existing = {} THEN [draftEvaluations EXCEPT ![r] = @ \cup {Candidate(r)}]
            ELSE draftEvaluations
      /\ IF \E e \in saved : e.matched
         THEN Goto(r, "save_event") /\ UNCHANGED <<todo, current, prior>>
         ELSE Done(r)
  BY DEF SaveEvaluation, Target
<1>3. /\ pc'[r] = "save_event" <=> \E e \in saved : e.matched
      /\ pc'[r] = "save_event" => current'[r] = current[r] /\ prior'[r] = prior[r]
  <2> HIDE DEF saved
  <2> QED
    BY <1>2 DEF Goto, Done, TypeOK
<1>4. CASE existing = {}
  <2>1. TargetIsNew(r)
    BY <1>2, <1>4 DEF TargetIsNew, PeriodLocked
  <2>2. draftEvaluations'[r] = draftEvaluations[r] \cup {Candidate(r)}
    BY <1>2, <1>4 DEF TypeOK
  <2> QED
    BY <1>1, <1>3, <1>4, <2>1, <2>2 DEF SaveEvaluationRecords
<1>5. CASE existing # {}
  <2>1. draftEvaluations'[r] = draftEvaluations[r]
    BY <1>2, <1>5
  <2> QED
    BY <1>1, <1>3, <1>5, <2>1 DEF SaveEvaluationRecords
<1> QED
  BY <1>4, <1>5

\* saved is the visible evaluation of the target, its event the one drafted.
EventSaved(r, saved) ==
    LET event == EventOf(current[r], saved, request[r].source) IN
    /\ saved \in VisibleEvaluations(r) /\ Period(saved) = Target(r)
    /\ \/ /\ draftEvents'[r] = draftEvents[r]
          /\ \E v \in VisibleEvents(r) : Period(v) = Target(r)
       \/ /\ draftEvents'[r] = draftEvents[r] \cup {event}
          /\ \A v \in VisibleEvents(r) : Period(v) # Target(r)
    /\ update'[r].trigger = IF IsInvalidation(current[r]) /\ update[r].trigger = {}
                            THEN {Target(r)} ELSE update[r].trigger

SaveEventRecords(r) ==
    /\ UNCHANGED <<evaluations, events, versions, draftEvaluations, request, seen, draftThesis>>
    /\ OthersKeep(r)
    /\ pc[r] = "save_event" /\ pc'[r] = "next_condition"
    /\ \E saved \in VisibleEvaluations(r) : EventSaved(r, saved)

\* An event is drafted unless the evaluation has one.
LEMMA SaveEventRecordsFrame ==
    ASSUME NEW r \in Workers, SaveEvent(r), TypeOK
    PROVE  SaveEventRecords(r)
<1>1. /\ UNCHANGED <<evaluations, events, versions, draftEvaluations, request, seen, draftThesis>>
      /\ OthersKeep(r)
      /\ pc[r] = "save_event" /\ pc'[r] = "next_condition"
  <2>1. SaveEventEffect(r)
    BY SaveEventFrame
  <2> QED
    BY <2>1 DEF SaveEventEffect, OthersKeep, database, TypeOK
<1>2. PICK saved \in VisibleEvaluations(r) :
        /\ Period(saved) = Period(Candidate(r))
        /\ draftEvents' =
              IF ExistingEvent(VisibleEvents(r), saved) # {} THEN draftEvents
              ELSE [draftEvents EXCEPT ![r] =
                      @ \cup {EventOf(current[r], saved, request[r].source)}]
        /\ update' =
              IF IsInvalidation(current[r]) /\ update[r].trigger = {}
              THEN [update EXCEPT ![r].trigger = {Period(saved)}]
              ELSE update
  BY DEF SaveEvent
<1>3. update'[r].trigger = IF IsInvalidation(current[r]) /\ update[r].trigger = {}
                           THEN {Target(r)} ELSE update[r].trigger
  <2> DEFINE call == [update[r] EXCEPT !.trigger = {Period(saved)}]
  <2>1. call.trigger = {Target(r)}
    BY <1>2 DEF TypeOK, UpdateCall, Target
  <2>2. \/ update' = [update EXCEPT ![r] = call] /\ IsInvalidation(current[r]) /\ update[r].trigger = {}
        \/ update' = update /\ ~(IsInvalidation(current[r]) /\ update[r].trigger = {})
    BY <1>2 DEF TypeOK
  <2> HIDE DEF call
  <2> QED
    BY <2>1, <2>2 DEF TypeOK
<1>4. \/ /\ draftEvents'[r] = draftEvents[r]
         /\ \E v \in VisibleEvents(r) : Period(v) = Target(r)
      \/ /\ draftEvents'[r] = draftEvents[r] \cup {EventOf(current[r], saved, request[r].source)}
         /\ \A v \in VisibleEvents(r) : Period(v) # Target(r)
  <2>1. CASE ExistingEvent(VisibleEvents(r), saved) # {}
    BY <1>2, <2>1 DEF ExistingEvent, Target
  <2>2. CASE ExistingEvent(VisibleEvents(r), saved) = {}
    <3>1. draftEvents'[r] = draftEvents[r] \cup {EventOf(current[r], saved, request[r].source)}
      BY <1>2, <2>2 DEF TypeOK
    <3> QED
      BY <1>2, <2>2, <3>1 DEF ExistingEvent, Target
  <2> QED
    BY <2>1, <2>2
<1>5. EventSaved(r, saved)
  BY <1>2, <1>3, <1>4 DEF EventSaved, Target
<1> QED
  BY <1>1, <1>5 DEF SaveEventRecords

-----------------------------------------------------------------------------
(* Requests draft what they are about *)

RequestStep(r) == Begin(r) \/ Proceed(r) \/ Acquire(r) \/ Fail(r)

\* A step is of one request, which leaves alone what others have at hand, or
\* of no request.
LEMMA StepsOfRequests ==
    ASSUME TypeOK, [Next]_vars
    PROVE  \/ \E r \in Workers : RequestStep(r) /\ OthersKeep(r)
           \/ UNCHANGED <<pc, request, reads, drafts>> /\ (Environment \/ UNCHANGED vars)
<1>1. ASSUME NEW r \in Workers, Begin(r) PROVE OthersKeep(r)
  BY <1>1 DEF Begin, BeginEvaluate, BeginPatchThesis, BeginPatchCondition, OthersKeep,
       Goto, database, drafts, TypeOK
<1>2. ASSUME NEW r \in Workers, Fail(r) PROVE OthersKeep(r)
  BY <1>2, EndFrame DEF Fail, EndEffect
<1>3. ASSUME NEW r \in Workers, Proceed(r), ~Fail(r) PROVE OthersKeep(r)
  <2>1. CASE ReadThesis(r)
    <3>1. ReadThesisEffect(r)
      BY <1>3, <2>1, ReadThesisFrame
    <3> QED
      BY <3>1 DEF ReadThesisEffect, OthersKeep, database, drafts, TypeOK
  <2>2. CASE ListConditions(r)
    BY <2>2 DEF ListConditions, Goto, OthersKeep, database, drafts, TypeOK
  <2>3. CASE LoadDailyBars(r) \/ LoadFundamentals(r)
    <3>1. LoadEffect(r)
      BY <1>3, <2>3, LoadFrame
    <3> QED
      BY <3>1 DEF LoadEffect, OthersKeep, database, drafts, TypeOK
  <2>4. CASE LoadPrior(r)
    <3>1. LoadPriorEffect(r)
      BY <1>3, <2>4, LoadPriorFrame
    <3> QED
      BY <3>1 DEF LoadPriorEffect, OthersKeep, database, drafts, TypeOK
  <2>5. CASE SaveEvent(r)
    BY <2>5, SaveEventRecordsFrame DEF SaveEventRecords
  <2>6. CASE FinishConditions(r)
    <3>1. FinishEffect(r)
      BY <2>6, FinishFrame
    <3> QED
      BY <3>1 DEF FinishEffect, OthersKeep, database, drafts, TypeOK
  <2>7. CASE Commit(r)
    BY <2>7, EndFrame DEF Commit, EndEffect
  <2> QED
    BY <1>3, <2>1, <2>2, <2>3, <2>4, <2>5, <2>6, <2>7 DEF Proceed
<1>4. ASSUME NEW r \in Workers, Acquire(r), ~Fail(r) PROVE OthersKeep(r)
  <2>1. CASE WriteThesis(r)
    <3>1. WriteThesisEffect(r)
      BY <1>4, <2>1, WriteThesisFrame
    <3> QED
      BY <3>1 DEF WriteThesisEffect, OthersKeep, database, reads, TypeOK
  <2>2. ASSUME NEW d \in Definitions, WriteCondition(r, d) PROVE OthersKeep(r)
    <3>1. WriteConditionEffect(r, d)
      BY <1>4, <2>2, WriteConditionFrame
    <3> QED
      BY <3>1 DEF WriteConditionEffect, OthersKeep, database, reads, TypeOK
  <2>3. CASE SaveEvaluation(r)
    BY <2>3, SaveEvaluationRecordsFrame DEF SaveEvaluationRecords
  <2> QED
    BY <1>4, <2>1, <2>2, <2>3 DEF Acquire
<1>5. Environment \/ UNCHANGED vars => UNCHANGED <<pc, request, reads, drafts>>
  BY DEF Environment, CreateThesis, CreateCondition, Ingest, vars
<1> QED
  BY <1>1, <1>2, <1>3, <1>4, <1>5 DEF Next, Rollback, RequestStep

\* A request begins with no event that makes it invalidate a thesis.
LEMMA BeginsUntriggered ==
    ASSUME TypeOK, NEW r \in Workers, Begin(r), update[r].trigger = {}
    PROVE  update'[r].trigger = {}
<1>1. update \in [Workers -> UpdateCall]
  BY DEF TypeOK
<1>2. ASSUME NEW t \in Theses, NEW s \in Sources, BeginEvaluate(r, t, s)
      PROVE  update'[r].trigger = {}
  BY <1>2 DEF BeginEvaluate
<1>3. ASSUME NEW t \in Theses, NEW status, NEW expected,
             BeginPatchThesis(r, t, expected, status)
      PROVE  update'[r].trigger = {}
  BY <1>1, <1>3 DEF BeginPatchThesis
<1>4. ASSUME NEW c \in Conditions, BeginPatchCondition(r, c)
      PROVE  update'[r].trigger = {}
  BY <1>1, <1>4 DEF BeginPatchCondition, NoUpdate
<1> QED
  BY <1>2, <1>3, <1>4 DEF Begin

\* What a request drafts keeps fitting it.
LEMMA RequestKeepsDrafts ==
    ASSUME TypeOK, RequestsAreIsolated, NEW r \in Workers, DraftsFitRequest(r), RequestStep(r)
    PROVE  DraftsFitRequest(r)'
<1> USE DEF DraftsFitRequest, Evaluating
<1>1. /\ ControlIsConsistent /\ EvaluationsAreReady /\ OwnersAreStable
      /\ pc[r] = "idle" => draftEvaluations[r] = {}
  BY DEF RequestsAreIsolated
<1>2. CASE Begin(r)
  <2>1. /\ pc[r] = "idle" /\ update[r].trigger = {}
        /\ draftEvaluations'[r] = {} /\ draftThesis'[r] = NoThesis
        /\ pc'[r] \notin {"read_thesis", "write_thesis"} \/ ~Evaluating(r)'
    BY <1>1, <1>2 DEF Begin, BeginEvaluate, BeginPatchThesis, BeginPatchCondition, Goto,
         ControlIsConsistent, NoUpdate, drafts, TypeOK
  <2>2. update'[r].trigger = {}
    BY <1>2, <2>1, BeginsUntriggered
  <2> QED
    BY <2>1, <2>2
<1>3. CASE EndRequest(r)
  BY <1>3, EndFrame DEF EndEffect
<1>4. CASE ReadThesis(r) /\ ~Fail(r)
  <2>1. ReadThesisEffect(r)
    BY <1>4, ReadThesisFrame
  <2> QED
    BY <2>1 DEF ReadThesisEffect, drafts, TypeOK
<1>5. CASE ListConditions(r)
  BY <1>5 DEF ListConditions, Goto, drafts, TypeOK
<1>6. CASE (LoadDailyBars(r) \/ LoadFundamentals(r)) /\ ~Fail(r)
  <2>1. LoadEffect(r)
    BY <1>6, LoadFrame
  <2> QED
    BY <2>1 DEF LoadEffect, drafts, TypeOK
<1>7. CASE LoadPrior(r) /\ ~Fail(r)
  <2>1. LoadPriorEffect(r)
    BY <1>7, LoadPriorFrame
  <2> QED
    BY <2>1 DEF LoadPriorEffect, drafts, TypeOK
<1>8. CASE SaveEvaluation(r)
  <2>1. SaveEvaluationEffect(r)
    BY <1>8, SaveEvaluationFrame
  <2>2. /\ Evaluating(r) /\ UNCHANGED <<request, update, draftThesis>>
        /\ pc'[r] \in {"save_event", "next_condition"}
        /\ draftEvaluations'[r] \subseteq draftEvaluations[r] \cup {Candidate(r)}
    BY <1>1, <2>1 DEF SaveEvaluationEffect, ControlIsConsistent, EvaluationLabels, TypeOK
  <2>3. Candidate(r).thesis = request[r].thesis /\ Candidate(r).source = request[r].source
    <3>1. /\ Candidate(r).thesis = current[r].thesis
          /\ Candidate(r).source = request[r].source
      BY <1>1, <2>1, CandidateFacts DEF SaveEvaluationEffect
    <3> QED
      BY <1>1, <2>1, <3>1 DEF SaveEvaluationEffect, OwnersAreStable, EvaluationsAreReady
  <2> QED
    BY <2>2, <2>3
<1>9. CASE SaveEvent(r)
  <2>1. SaveEventRecords(r)
    BY <1>9, SaveEventRecordsFrame
  <2>2. Evaluating(r)
    BY <1>1, <2>1 DEF SaveEventRecords, ControlIsConsistent, EvaluationLabels
  <2>3. update[r].trigger # {} => update'[r].trigger # {}
    BY <2>1 DEF SaveEventRecords, EventSaved
  <2> QED
    BY <2>1, <2>2, <2>3 DEF SaveEventRecords
<1>10. CASE FinishConditions(r)
  <2>1. FinishEffect(r)
    BY <1>10, FinishFrame
  <2>2. pc'[r] = "read_thesis" => update[r].trigger # {}
    BY <1>10 DEF FinishConditions, Goto, TypeOK
  <2>3. Evaluating(r)
    BY <1>1, <2>1 DEF FinishEffect, ControlIsConsistent, EvaluationLabels
  <2> QED
    BY <2>1, <2>2, <2>3 DEF FinishEffect, drafts, TypeOK
<1>11. CASE WriteThesis(r) /\ ~Fail(r)
  <2>1. WriteThesisEffect(r)
    BY <1>11, WriteThesisFrame
  <2>2. pc[r] = "write_thesis" /\ pc'[r] = "commit"
    BY <2>1 DEF WriteThesisEffect, TypeOK
  <2> QED
    BY <1>1, <2>1, <2>2 DEF WriteThesisEffect, ControlIsConsistent, reads
<1>12. ASSUME NEW d \in Definitions, WriteCondition(r, d), ~Fail(r)
       PROVE  DraftsFitRequest(r)'
  <2>1. WriteConditionEffect(r, d)
    BY <1>1, <1>12, WriteConditionFrame
  <2> QED
    BY <1>1, <2>1 DEF WriteConditionEffect, reads, ControlIsConsistent, TypeOK
<1> QED
  BY <1>2, <1>3, <1>4, <1>5, <1>6, <1>7, <1>8, <1>9, <1>10, <1>11, <1>12
     DEF RequestStep, Proceed, Acquire, Commit, Fail

-----------------------------------------------------------------------------
(* Evaluations and events stay in pairs *)

\* The lock on an uncommitted period and ON CONFLICT keep a period single.
LEMMA PeriodsStayUnique ==
    ASSUME TypeOK, RequestsAreIsolated, PeriodsAreUnique, [Next]_vars
    PROVE  PeriodsAreUnique'
<1>1. ASSUME NEW r \in Workers, Commit(r) PROVE PeriodsAreUnique'
  BY <1>1, CommitRecordsFrame DEF CommitRecords, EndEffect, OthersKeep, PeriodsAreUnique
<1>2. ASSUME NEW r \in Workers, Fail(r) PROVE PeriodsAreUnique'
  <2>1. EndEffect(r) /\ evaluations' = evaluations
    BY <1>2, EndFrame DEF Fail, database
  <2> QED
    BY <2>1 DEF EndEffect, OthersKeep, PeriodsAreUnique
<1>3. ASSUME NEW r \in Workers, SaveEvaluation(r) PROVE PeriodsAreUnique'
  <2>1. SaveEvaluationRecords(r)
    BY <1>3, SaveEvaluationRecordsFrame
  <2>2. CASE draftEvaluations'[r] = draftEvaluations[r]
    BY <2>1, <2>2 DEF SaveEvaluationRecords, OthersKeep, PeriodsAreUnique
  <2>3. CASE TargetIsNew(r) /\ draftEvaluations'[r] = draftEvaluations[r] \cup {Candidate(r)}
    BY <2>1, <2>3 DEF SaveEvaluationRecords, OthersKeep, PeriodsAreUnique, TargetIsNew,
         VisibleEvaluations, Target
  <2> QED
    BY <2>1, <2>2, <2>3 DEF SaveEvaluationRecords
<1>4. ASSUME NEW r \in Workers, SaveEvent(r) PROVE PeriodsAreUnique'
  BY <1>4, SaveEventRecordsFrame DEF SaveEventRecords, PeriodsAreUnique
<1>5. CASE QuietStep
  BY <1>5 DEF QuietStep, PeriodsAreUnique
<1> QED
  BY <1>1, <1>2, <1>3, <1>4, <1>5, RecordSteps

\* What others draft does not change when a request drafts, commits or ends.
LEMMA OthersKeepEvents ==
    ASSUME NEW r \in Workers, NEW q \in Workers \ {r}, OthersKeep(r), DraftedEventsFit(q),
           evaluations \subseteq evaluations'
    PROVE  DraftedEventsFit(q)'
<1>1. Target(q)' = Target(q)
  BY TargetIsStable DEF OthersKeep
<1>2. /\ draftEvents'[q] = draftEvents[q] /\ draftEvaluations'[q] = draftEvaluations[q]
      /\ pc'[q] = pc[q]
      /\ VisibleEvaluations(q) \subseteq VisibleEvaluations(q)'
  BY DEF OthersKeep, VisibleEvaluations
<1> QED
  BY <1>1, <1>2 DEF DraftedEventsFit, Reports

\* An empty draft of a request that is not about to save an event fits.
LEMMA EmptyDraftFits ==
    ASSUME NEW r \in Workers, EndEffect(r)
    PROVE  DraftedEventsFit(r)'
BY DEF EndEffect, DraftedEventsFit

\* A commit brings the pairs of its draft to those of the tables.
LEMMA CommitKeepsPairs ==
    ASSUME NEW r \in Workers, CommitRecords(r), PeriodsAreUnique, EventsFitEvaluations
    PROVE  EventsFitEvaluations'
<1>1. /\ evaluations' = evaluations \cup draftEvaluations[r]
      /\ events' = events \cup draftEvents[r]
      /\ EndEffect(r) /\ OthersKeep(r) /\ pc[r] = "commit"
  BY DEF CommitRecords, EndEffect
<1>2. CommittedEventsFit /\ DraftedEventsFit(r)
  BY DEF EventsFitEvaluations
<1>3. ASSUME NEW v \in events', NEW w \in events', Period(v) = Period(w) PROVE v = w
  <2>1. ASSUME NEW x \in events, NEW y \in draftEvents[r] PROVE Period(x) # Period(y)
    <3>1. PICK e \in evaluations : Reports(x, e)
      BY <1>2 DEF CommittedEventsFit
    <3>2. PICK f \in draftEvaluations[r] : Reports(y, f)
      BY <1>2 DEF DraftedEventsFit
    <3> QED
      BY <3>1, <3>2 DEF Reports, PeriodsAreUnique
  <2> QED
    BY <1>1, <1>2, <1>3, <2>1 DEF CommittedEventsFit, DraftedEventsFit
<1>4. \A v \in events' : \E e \in evaluations' : Reports(v, e)
  BY <1>1, <1>2 DEF CommittedEventsFit, DraftedEventsFit
<1>5. \A e \in evaluations' : e.matched => \E v \in events' : Reports(v, e)
  BY <1>1, <1>2 DEF CommittedEventsFit, DraftedEventsFit
<1>6. CommittedEventsFit'
  BY <1>3, <1>4, <1>5 DEF CommittedEventsFit, Reports
<1>7. \A q \in Workers : DraftedEventsFit(q)'
  BY <1>1, OthersKeepEvents, EmptyDraftFits DEF EventsFitEvaluations
<1> QED
  BY <1>6, <1>7 DEF EventsFitEvaluations

\* A matched evaluation leads to the step that gives it its event.
LEMMA SaveEvaluationKeepsPairs ==
    ASSUME NEW r \in Workers, SaveEvaluationRecords(r), EventsFitEvaluations
    PROVE  EventsFitEvaluations'
<1>1. OthersKeep(r) /\ UNCHANGED <<evaluations, events, draftEvents>> /\ pc[r] = "save_evaluation"
  BY DEF SaveEvaluationRecords
<1>2. CommittedEventsFit'
  BY <1>1 DEF EventsFitEvaluations, CommittedEventsFit, Reports
<1>3. DraftedEventsFit(r)
  BY DEF EventsFitEvaluations
<1>4. pc'[r] = "save_event" => Target(r)' = Target(r)
  BY TargetIsStable DEF SaveEvaluationRecords
<1>5. ASSUME draftEvaluations'[r] = draftEvaluations[r],
             pc'[r] = "save_event" =>
                 \E e \in VisibleEvaluations(r) : e.matched /\ Period(e) = Target(r)
      PROVE  DraftedEventsFit(r)'
  <2>1. VisibleEvaluations(r)' = VisibleEvaluations(r)
    BY <1>1, <1>5 DEF VisibleEvaluations
  <2> QED
    BY <1>1, <1>3, <1>4, <1>5, <2>1 DEF DraftedEventsFit, Reports
<1>6. ASSUME draftEvaluations'[r] = draftEvaluations[r] \cup {Candidate(r)},
             pc'[r] = "save_event" <=> Candidate(r).matched
      PROVE  DraftedEventsFit(r)'
  <2>1. Candidate(r) \in VisibleEvaluations(r)' /\ Period(Candidate(r)) = Target(r)
    BY <1>6 DEF VisibleEvaluations, Target
  <2>2. pc'[r] = "save_event" =>
           \E e \in VisibleEvaluations(r)' : e.matched /\ Period(e) = Target(r)'
    BY <1>4, <1>6, <2>1
  <2>3. \A e \in draftEvaluations'[r] : e.matched =>
          \/ \E v \in draftEvents'[r] : Reports(v, e)
          \/ pc'[r] = "save_event" /\ Period(e) = Target(r)'
    BY <1>1, <1>3, <1>4, <1>6, <2>1 DEF DraftedEventsFit
  <2>4. \A v \in draftEvents'[r] : \E e \in draftEvaluations'[r] : Reports(v, e)
    BY <1>1, <1>3, <1>6 DEF DraftedEventsFit
  <2> QED
    BY <1>1, <1>3, <2>2, <2>3, <2>4 DEF DraftedEventsFit, Reports
<1>7. DraftedEventsFit(r)'
  BY <1>5, <1>6 DEF SaveEvaluationRecords
<1>8. \A q \in Workers : DraftedEventsFit(q)'
  BY <1>1, <1>7, OthersKeepEvents DEF EventsFitEvaluations
<1> QED
  BY <1>2, <1>8 DEF EventsFitEvaluations

\* An event is drafted if and only if the evaluation was drafted by this run.
LEMMA SaveEventKeepsPairs ==
    ASSUME NEW r \in Workers, SaveEventRecords(r),
           DraftsFitRequest(r), PeriodsAreUnique, EventsFitEvaluations
    PROVE  EventsFitEvaluations'
<1>1. /\ OthersKeep(r) /\ UNCHANGED <<evaluations, events, draftEvaluations>>
      /\ pc[r] = "save_event" /\ pc'[r] = "next_condition"
  BY DEF SaveEventRecords
<1>2. CommittedEventsFit /\ DraftedEventsFit(r) /\ CommittedEventsFit'
  BY <1>1 DEF EventsFitEvaluations, CommittedEventsFit, Reports
<1>3. PICK saved \in VisibleEvaluations(r) : EventSaved(r, saved)
  BY DEF SaveEventRecords
<1>4. saved.matched /\ Period(saved) = Target(r)
  BY <1>1, <1>2, <1>3 DEF DraftedEventsFit, EventSaved, VisibleEvaluations, PeriodsAreUnique
<1>5. ASSUME draftEvents'[r] = draftEvents[r],
             \E v \in VisibleEvents(r) : Period(v) = Target(r)
      PROVE  DraftedEventsFit(r)'
  <2>1. PICK v \in VisibleEvents(r) : Period(v) = Target(r)
    BY <1>5
  <2>2. ASSUME NEW e \in draftEvaluations[r], Period(e) = Target(r)
        PROVE  \E x \in draftEvents[r] : Reports(x, e)
    <3>1. CASE v \in events
      <4>1. PICK f \in evaluations : Reports(v, f)
        BY <1>2, <3>1 DEF CommittedEventsFit
      <4> QED
        BY <2>1, <2>2, <4>1 DEF Reports, PeriodsAreUnique
    <3>2. CASE v \in draftEvents[r]
      <4>1. PICK f \in draftEvaluations[r] : Reports(v, f)
        BY <1>2, <3>2 DEF DraftedEventsFit
      <4> QED
        BY <2>1, <2>2, <3>2, <4>1 DEF Reports, PeriodsAreUnique
    <3> QED
      BY <3>1, <3>2 DEF VisibleEvents
  <2> QED
    BY <1>1, <1>2, <1>5, <2>2 DEF DraftedEventsFit, Reports
<1>6. ASSUME draftEvents'[r] =
                draftEvents[r] \cup {EventOf(current[r], saved, request[r].source)},
             \A v \in VisibleEvents(r) : Period(v) # Target(r)
      PROVE  DraftedEventsFit(r)'
  <2> DEFINE event == EventOf(current[r], saved, request[r].source)
  <2>1. saved \in draftEvaluations[r]
    BY <1>2, <1>4, <1>6 DEF CommittedEventsFit, Reports, VisibleEvents, VisibleEvaluations
  <2>2. event.thesis = saved.thesis /\ Period(event) = Period(saved)
          /\ event.evidence = request[r].source
    BY DEF EventOf, Period
  <2>3. Reports(event, saved)
    BY <1>4, <2>1, <2>2 DEF Reports, DraftsFitRequest
  <2> HIDE DEF event
  <2>4. \A v, w \in draftEvents'[r] : Period(v) = Period(w) => v = w
    BY <1>2, <1>4, <1>6, <2>2 DEF DraftedEventsFit, VisibleEvents, event
  <2>5. \A v \in draftEvents'[r] : \E e \in draftEvaluations'[r] : Reports(v, e)
    BY <1>1, <1>2, <1>6, <2>1, <2>3 DEF DraftedEventsFit, event
  <2>6. \A e \in draftEvaluations'[r] : e.matched => \E v \in draftEvents'[r] : Reports(v, e)
    <3>1. \A e \in draftEvaluations[r] : Period(e) = Target(r) => e = saved
      BY <1>4, <2>1 DEF PeriodsAreUnique
    <3> QED
      BY <1>1, <1>2, <1>6, <2>3, <3>1 DEF DraftedEventsFit, event
  <2> QED
    BY <1>1, <2>4, <2>5, <2>6 DEF DraftedEventsFit, Reports
<1>7. DraftedEventsFit(r)'
  BY <1>3, <1>5, <1>6 DEF EventSaved
<1>8. \A q \in Workers : DraftedEventsFit(q)'
  BY <1>1, <1>7, OthersKeepEvents DEF EventsFitEvaluations
<1> QED
  BY <1>2, <1>8 DEF EventsFitEvaluations

\* A matched evaluation and its event stay together.
LEMMA EventsKeepFitting ==
    ASSUME TypeOK, \A r \in Workers : DraftsFitRequest(r),
           PeriodsAreUnique, EventsFitEvaluations, [Next]_vars
    PROVE  EventsFitEvaluations'
<1>1. ASSUME NEW r \in Workers, Commit(r) PROVE EventsFitEvaluations'
  BY <1>1, CommitRecordsFrame, CommitKeepsPairs
<1>2. ASSUME NEW r \in Workers, Fail(r) PROVE EventsFitEvaluations'
  <2>1. EndEffect(r) /\ OthersKeep(r) /\ UNCHANGED <<evaluations, events>>
    BY <1>2, EndFrame DEF Fail, database, EndEffect
  <2>2. \A q \in Workers : DraftedEventsFit(q)'
    BY <2>1, OthersKeepEvents, EmptyDraftFits DEF EventsFitEvaluations
  <2> QED
    BY <2>1, <2>2 DEF EventsFitEvaluations, CommittedEventsFit, Reports
<1>3. ASSUME NEW r \in Workers, SaveEvaluation(r) PROVE EventsFitEvaluations'
  BY <1>3, SaveEvaluationRecordsFrame, SaveEvaluationKeepsPairs
<1>4. ASSUME NEW r \in Workers, SaveEvent(r) PROVE EventsFitEvaluations'
  BY <1>4, SaveEventRecordsFrame, SaveEventKeepsPairs
<1>5. CASE QuietStep
  <2>1. ASSUME NEW q \in Workers PROVE DraftedEventsFit(q)'
    <3>1. pc[q] = "save_event" => Target(q)' = Target(q)
      BY <1>5, TargetIsStable DEF QuietStep
    <3>2. DraftedEventsFit(q) /\ VisibleEvaluations(q)' = VisibleEvaluations(q)
      BY <1>5 DEF EventsFitEvaluations, QuietStep, VisibleEvaluations
    <3> QED
      BY <1>5, <3>1, <3>2 DEF QuietStep, DraftedEventsFit, Reports
  <2> QED
    BY <1>5, <2>1 DEF QuietStep, EventsFitEvaluations, CommittedEventsFit, Reports
<1> QED
  BY <1>1, <1>2, <1>3, <1>4, <1>5, RecordSteps

-----------------------------------------------------------------------------
(* Versions of conditions *)

\* Snapshots are never deleted.
LEMMA VersionsGrow ==
    ASSUME TypeOK, [Next]_vars
    PROVE  versions \subseteq versions'
<1>1. ASSUME NEW r \in Workers, Commit(r) PROVE versions \subseteq versions'
  BY <1>1, CommitRecordsFrame DEF CommitRecords
<1> QED
  BY <1>1, RecordSteps, SaveEvaluationRecordsFrame, SaveEventRecordsFrame
     DEF Fail, database, SaveEvaluationRecords, SaveEventRecords, QuietStep

\* Nor are evaluations.
LEMMA EvaluationsGrow ==
    ASSUME TypeOK, [Next]_vars
    PROVE  evaluations \subseteq evaluations'
<1>1. ASSUME NEW r \in Workers, Commit(r) PROVE evaluations \subseteq evaluations'
  BY <1>1 DEF Commit
<1> QED
  BY <1>1, RecordSteps, SaveEvaluationRecordsFrame, SaveEventRecordsFrame
     DEF Fail, database, SaveEvaluationRecords, SaveEventRecords, QuietStep

\* Only two actions change what is committed of conditions.
LEMMA ConditionSteps ==
    ASSUME [Next]_vars
    PROVE  \/ \E c \in Conditions, t \in Theses, d \in Definitions : CreateCondition(c, t, d)
           \/ \E r \in Workers : Commit(r)
           \/ UNCHANGED <<condition, versions>>
<1>1. Environment =>
        \/ \E c \in Conditions, t \in Theses, d \in Definitions : CreateCondition(c, t, d)
        \/ UNCHANGED <<condition, versions>>
  BY DEF Environment, CreateThesis, Ingest
<1>2. ASSUME NEW r \in Workers, Begin(r) PROVE UNCHANGED <<condition, versions>>
  BY <1>2 DEF Begin, BeginEvaluate, BeginPatchThesis, BeginPatchCondition, database
<1>3. ASSUME NEW r \in Workers, Proceed(r)
      PROVE  Commit(r) \/ UNCHANGED <<condition, versions>>
  BY <1>3 DEF Proceed, ReadThesis, ListConditions, LoadDailyBars, LoadFundamentals,
       LoadSeries, LoadPrior, SaveEvent, FinishConditions, Fail, database
<1>4. ASSUME NEW r \in Workers, Acquire(r) PROVE UNCHANGED <<condition, versions>>
  BY <1>4 DEF Acquire, WriteThesis, WriteCondition, SaveEvaluation, Fail, database
<1>5. ASSUME NEW r \in Workers, Rollback(r) PROVE UNCHANGED <<condition, versions>>
  BY <1>5 DEF Rollback, Fail, database
<1> QED
  BY <1>1, <1>2, <1>3, <1>4, <1>5 DEF Next, vars, database

\* Storing row, the version after that of c, keeps the snapshots complete.
LEMMA NextVersionFits ==
    ASSUME TypeOK, VersionsFit, NEW c \in Conditions, NEW row \in ConditionRow,
           row.id = c, row.version = condition[c].version + 1,
           condition' = [condition EXCEPT ![c] = row],
           versions' = versions \cup {row}
    PROVE  VersionsFit'
<1>1. /\ versions \subseteq ConditionRow
      /\ \A k \in Conditions : condition[k].version \in Nat
      /\ \A s \in versions : s.version \in Nat \ {0} /\ s.id \in Conditions
  BY DEF TypeOK, ConditionRow, NoCondition
<1>2. \A k \in Conditions : condition'[k] = IF k = c THEN row ELSE condition[k]
  BY DEF TypeOK
<1>3. \A s \in versions : s.id = c => s.version < row.version
  BY <1>1 DEF VersionsFit
<1>4. \A s, t \in versions' : s.id = t.id /\ s.version = t.version => s = t
  BY <1>1, <1>3 DEF VersionsFit
<1>5. \A s \in versions' : s.version <= condition'[s.id].version
  BY <1>1, <1>2, <1>3 DEF VersionsFit
<1>6. ASSUME NEW k \in Conditions, condition'[k] # NoCondition
      PROVE  /\ condition'[k] \in versions'
             /\ \A n \in 1 .. condition'[k].version :
                   \E s \in versions' : s.id = k /\ s.version = n
  <2>1. CASE k # c
    BY <1>2, <1>6, <2>1 DEF VersionsFit
  <2>2. CASE k = c
    <3>1. \A n \in 1 .. condition[c].version : \E s \in versions : s.id = c /\ s.version = n
      BY <1>1 DEF VersionsFit, NoCondition
    <3>2. \A n \in 1 .. row.version : n \in 1 .. condition[c].version \/ n = row.version
      BY <1>1
    <3> QED
      BY <1>2, <2>2, <3>1, <3>2
  <2> QED
    BY <2>1, <2>2
<1> QED
  BY <1>4, <1>5, <1>6 DEF VersionsFit

\* A row and its snapshot are stored together, each version once.
LEMMA VersionsStayFitting ==
    ASSUME TypeOK, RequestsAreIsolated, VersionsFit, ConditionDraftsFit, [Next]_vars
    PROVE  VersionsFit'
<1>1. ASSUME NEW c \in Conditions, NEW t \in Theses, NEW d \in Definitions,
             CreateCondition(c, t, d)
      PROVE  VersionsFit'
  <2> DEFINE row == [id |-> c, thesis |-> t, definition |-> d, version |-> 1]
  <2>1. /\ condition[c] = NoCondition
        /\ condition' = [condition EXCEPT ![c] = row]
        /\ versions' = versions \cup {row}
    BY <1>1 DEF CreateCondition, VersionRow
  <2>2. row \in ConditionRow /\ row.id = c /\ row.version = condition[c].version + 1
    BY <2>1, InputsAreValid DEF ConditionRow, NoCondition
  <2> QED
    BY <2>1, <2>2, NextVersionFits
<1>2. ASSUME NEW r \in Workers, Commit(r) PROVE VersionsFit'
  <2> DEFINE row == draftCondition[r]
  <2>1. CASE row = NoCondition
    BY <1>2, <2>1 DEF Commit, VersionsFit
  <2>2. CASE row # NoCondition
    <3>1. /\ condition' = [condition EXCEPT ![row.id] = row]
          /\ versions' = versions \cup {row}
      BY <1>2, <2>2 DEF Commit, VersionRow
    <3>2. /\ row \in ConditionRow /\ row.id \in Conditions
          /\ row.version = condition[row.id].version + 1
      BY <2>2 DEF TypeOK, ConditionRow, ConditionDraftsFit
    <3> QED
      BY <3>1, <3>2, NextVersionFits
  <2> QED
    BY <2>1, <2>2
<1>3. CASE UNCHANGED <<condition, versions>>
  BY <1>3 DEF VersionsFit
<1> QED
  BY <1>1, <1>2, <1>3, ConditionSteps

\* The lock on the row and the version the UPDATE compares keep drafts apart.
LEMMA ConditionDraftsStayFitting ==
    ASSUME TypeOK, RequestsAreIsolated, ConditionDraftsFit, [Next]_vars
    PROVE  ConditionDraftsFit'
<1>1. /\ ControlIsConsistent /\ OwnersAreStable
      /\ \A q \in Workers : draftCondition[q] # NoCondition =>
            draftCondition[q].id \in Conditions /\ condition[draftCondition[q].id] # NoCondition
  BY DEF RequestsAreIsolated, OwnersAreStable, TypeOK, ConditionRow
<1>2. ASSUME NEW c \in Conditions, NEW t \in Theses, NEW d \in Definitions,
             CreateCondition(c, t, d)
      PROVE  ConditionDraftsFit'
  <2>1. /\ draftCondition' = draftCondition /\ condition[c] = NoCondition
        /\ \A k \in Conditions \ {c} : condition'[k] = condition[k]
    BY <1>2 DEF CreateCondition, drafts, TypeOK
  <2> QED
    BY <1>1, <2>1 DEF ConditionDraftsFit
<1>3. ASSUME NEW r \in Workers, Commit(r) PROVE ConditionDraftsFit'
  <2>1. CommitEffect(r) /\ EndEffect(r)
    BY <1>1, <1>3, CommitFrame, EndFrame DEF Commit
  <2>2. ASSUME NEW q \in Workers, draftCondition'[q] # NoCondition
        PROVE  /\ q # r /\ draftCondition'[q] = draftCondition[q]
               /\ condition'[draftCondition[q].id] = condition[draftCondition[q].id]
    BY <1>1, <2>1, <2>2 DEF CommitEffect, EndEffect, OthersKeep, ConditionDraftsFit
  <2> QED
    BY <2>2 DEF ConditionDraftsFit
<1>4. ASSUME NEW r \in Workers, NEW d \in Definitions, WriteCondition(r, d), ~Fail(r)
      PROVE  ConditionDraftsFit'
  <2> DEFINE row == condition[request[r].condition]
  <2>1. WriteConditionEffect(r, d) /\ condition' = condition
    BY <1>4, WriteConditionFrame DEF WriteConditionEffect, database
  <2>2. row.version = update[r].expected /\ ~ConditionLocked(r, request[r].condition)
    BY <1>4 DEF WriteCondition, MatchVersion
  <2>3. row \in ConditionRow /\ row.id = request[r].condition /\ row.id \in Conditions
    <3>1. /\ request[r].kind = "patch_condition" /\ request[r] \in Request
          /\ row # NoCondition
      BY <1>1, <2>1 DEF WriteConditionEffect, ControlIsConsistent
    <3>2. request[r].condition \in Conditions
      BY <3>1 DEF Request
    <3> QED
      BY <1>1, <3>1, <3>2 DEF OwnersAreStable, TypeOK
  <2>4. draftCondition'[r].id = row.id /\ draftCondition'[r].version = row.version + 1
    BY <2>1, <2>2, <2>3 DEF WriteConditionEffect, ConditionRow
  <2> QED
    <3> HIDE DEF row
    <3>1. ASSUME NEW q \in Workers \ {r}
          PROVE  /\ draftCondition'[q] = draftCondition[q]
                 /\ draftCondition[q] # NoCondition => draftCondition[q].id # row.id
      BY <2>1, <2>2, <2>3 DEF WriteConditionEffect, ConditionLocked
    <3>2. draftCondition'[r].version = condition[draftCondition'[r].id].version + 1
      BY <2>3, <2>4 DEF row
    <3>3. ASSUME NEW q \in Workers, draftCondition'[q] # NoCondition
          PROVE  draftCondition'[q].version = condition'[draftCondition'[q].id].version + 1
      <4>1. CASE q = r
        BY <2>1, <3>2, <4>1
      <4>2. CASE q # r
        <5>1. draftCondition'[q] = draftCondition[q] /\ condition' = condition
          BY <2>1, <3>1, <4>2
        <5> QED
          BY <3>3, <5>1 DEF ConditionDraftsFit
      <4> QED
        BY <4>1, <4>2
    <3>4. ASSUME NEW p \in Workers, NEW q \in Workers, p # q,
                 draftCondition'[p] # NoCondition, draftCondition'[q] # NoCondition
          PROVE  draftCondition'[p].id # draftCondition'[q].id
      <4>1. CASE p # r /\ q # r
        <5>1. draftCondition'[p] = draftCondition[p] /\ draftCondition'[q] = draftCondition[q]
          BY <3>1, <4>1
        <5> QED
          BY <3>4, <5>1 DEF ConditionDraftsFit
      <4> QED
        BY <2>4, <3>1, <3>4, <4>1
    <3> QED
      BY <3>3, <3>4 DEF ConditionDraftsFit
<1>5. ASSUME NEW r \in Workers, Fail(r) PROVE ConditionDraftsFit'
  <2>1. EndEffect(r) /\ condition' = condition
    BY <1>5, EndFrame DEF Fail, database
  <2> QED
    BY <2>1 DEF EndEffect, OthersKeep, ConditionDraftsFit
<1>6. CASE UNCHANGED <<condition, draftCondition>>
  BY <1>6 DEF ConditionDraftsFit
<1>7. Environment =>
        \/ \E c \in Conditions, t \in Theses, d \in Definitions : CreateCondition(c, t, d)
        \/ UNCHANGED <<condition, draftCondition>>
  BY DEF Environment, CreateThesis, Ingest, drafts
<1>8. ASSUME NEW r \in Workers, Begin(r) PROVE UNCHANGED <<condition, draftCondition>>
  BY <1>8 DEF Begin, BeginEvaluate, BeginPatchThesis, BeginPatchCondition, database, drafts
<1>9. ASSUME NEW r \in Workers, Proceed(r), ~Fail(r)
      PROVE  Commit(r) \/ UNCHANGED <<condition, draftCondition>>
  BY <1>9 DEF Proceed, ReadThesis, ListConditions, LoadDailyBars, LoadFundamentals,
       LoadSeries, LoadPrior, SaveEvent, FinishConditions, database, drafts
<1>10. ASSUME NEW r \in Workers, WriteThesis(r) \/ SaveEvaluation(r), ~Fail(r)
       PROVE  UNCHANGED <<condition, draftCondition>>
  BY <1>10 DEF WriteThesis, SaveEvaluation, database
<1> QED
  BY <1>2, <1>3, <1>4, <1>5, <1>6, <1>7, <1>8, <1>9, <1>10
     DEF Next, vars, database, drafts, Acquire, Rollback

\* What a run or a PATCH reads are snapshots.
LEMMA RequestKeepsRows ==
    ASSUME TypeOK, RequestsAreIsolated, VersionsFit, NEW r \in Workers, RowsFit(r),
           RequestStep(r), versions \subseteq versions'
    PROVE  RowsFit(r)'
<1> USE DEF RowsFit, RowsAtHand
<1>1. \A c \in Conditions : condition[c] # NoCondition => condition[c] \in versions
  BY DEF VersionsFit
<1>2. pc[r] = "idle" => todo[r] = {} /\ current[r] = NoCondition
  BY DEF RequestsAreIsolated, OwnersAreStable
<1>3. CASE Begin(r)
  <2>1. pc[r] = "idle" /\ todo'[r] = {}
    BY <1>2, <1>3 DEF Begin, BeginEvaluate, BeginPatchThesis, BeginPatchCondition
  <2>2. \/ current'[r] = NoCondition
        \/ ~Evaluating(r)' /\ current'[r] \in versions
    BY <1>1, <1>2, <1>3, <2>1 DEF Begin, BeginEvaluate, BeginPatchThesis,
         BeginPatchCondition, Evaluating, TypeOK
  <2> QED
    BY <2>1, <2>2
<1>4. CASE EndRequest(r)
  BY <1>4, EndFrame DEF EndEffect
<1>5. CASE ListConditions(r)
  <2>1. todo'[r] = EnabledConditions(request[r].thesis) /\ UNCHANGED current
    BY <1>5 DEF ListConditions, TypeOK
  <2>2. todo'[r] \subseteq versions /\ \A row \in todo'[r] : row.definition.enabled
    BY <1>1, <2>1 DEF EnabledConditions, ConditionsOf
  <2>3. Evaluating(r)
    BY <1>5 DEF ListConditions, RequestsAreIsolated, ControlIsConsistent, EvaluationLabels,
         Evaluating
  <2> QED
    BY <2>1, <2>2, <2>3
<1>6. CASE LoadPrior(r) /\ ~Fail(r)
  <2>1. LoadPriorEffect(r)
    BY <1>6, LoadPriorFrame
  <2>2. Evaluating(r)
    BY <2>1 DEF LoadPriorEffect, RequestsAreIsolated, ControlIsConsistent, EvaluationLabels,
         Evaluating
  <2> QED
    BY <2>1, <2>2 DEF LoadPriorEffect
<1>7. ASSUME RowsAtHand(r)' \subseteq RowsAtHand(r), Evaluating(r)' => Evaluating(r)
      PROVE  RowsFit(r)'
  BY <1>7
<1> HIDE DEF RowsFit, RowsAtHand
<1>8. ASSUME \/ ReadThesis(r) \/ LoadDailyBars(r) \/ LoadFundamentals(r)
             \/ FinishConditions(r) \/ WriteThesis(r)
             \/ \E d \in Definitions : WriteCondition(r, d),
             ~Fail(r)
      PROVE  RowsFit(r)'
  <2>1. UNCHANGED <<todo, current, request>> /\ pc[r] # "idle"
    BY <1>8 DEF ReadThesis, LoadDailyBars, LoadFundamentals, LoadSeries, FinishConditions,
         WriteThesis, WriteCondition, reads
  <2> QED
    BY <1>7, <2>1 DEF Evaluating, RowsAtHand
<1>9. CASE SaveEvaluation(r)
  <2>1. SaveEvaluationEffect(r)
    BY <1>9, SaveEvaluationFrame
  <2> QED
    BY <1>7, <2>1 DEF SaveEvaluationEffect, Evaluating, RowsAtHand
<1>10. CASE SaveEvent(r)
  <2>1. SaveEventEffect(r)
    BY <1>10, SaveEventFrame
  <2> QED
    BY <1>7, <2>1 DEF SaveEventEffect, Evaluating, RowsAtHand
<1> QED
  BY <1>3, <1>4, <1>5, <1>6, <1>8, <1>9, <1>10
     DEF RequestStep, Proceed, Acquire, Commit, Fail

-----------------------------------------------------------------------------
(* Evaluations, events and triggers follow the rules *)

\* A row at hand is the only snapshot an evaluation or event of its version
\* can be about.
LEMMA RowsAreTheirVersions ==
    ASSUME VersionsFit, NEW row \in versions, NEW x, NEW s \in versions, IsVersionOf(s, x),
           x.condition = row.id, x.version = row.version
    PROVE  s = row
BY DEF VersionsFit, IsVersionOf

\* An evaluation of the current row has its identity.
LEMMA TargetFacts ==
    ASSUME TypeOK, RequestsAreIsolated, NEW r \in Workers, RowsFit(r),
           pc[r] \in {"save_evaluation", "save_event"}
    PROVE  /\ Evaluating(r) /\ current[r] \in versions /\ current[r].definition.enabled
           /\ current[r].thesis = request[r].thesis
           /\ Candidate(r).condition = current[r].id
           /\ Candidate(r).version = current[r].version
           /\ Candidate(r).thesis = current[r].thesis
<1>1. ControlIsConsistent /\ EvaluationsAreReady /\ OwnersAreStable
  BY DEF RequestsAreIsolated
<1>2. Evaluating(r) /\ current[r] \in RowsAtHand(r)
  BY <1>1 DEF ControlIsConsistent, EvaluationsAreReady, EvaluationLabels, Evaluating, RowsAtHand
<1>3. current[r].thesis = request[r].thesis
  BY <1>1, <1>2 DEF OwnersAreStable, RowsAtHand
<1> QED
  BY <1>1, <1>2, <1>3, CandidateFacts DEF RowsFit

\* Records are made from a snapshot, which is never changed.
LEMMA RulesStayFollowed ==
    ASSUME TypeOK, RequestsAreIsolated, \A r \in Workers : RowsFit(r), VersionsFit,
           RecordsFollowRules, [Next]_vars
    PROVE  RecordsFollowRules'
<1> DEFINE allEvaluations == evaluations \cup UNION {draftEvaluations[r] : r \in Workers}
           allEvents      == events \cup UNION {draftEvents[r] : r \in Workers}
<1>1. versions \subseteq versions'
  BY VersionsGrow
<1>2. ASSUME allEvaluations' \subseteq allEvaluations, allEvents' \subseteq allEvents
      PROVE  RecordsFollowRules'
  BY <1>1, <1>2 DEF RecordsFollowRules, IsVersionOf, Satisfies, CompareValues
<1> HIDE DEF allEvaluations, allEvents
<1>3. ASSUME NEW r \in Workers, Commit(r) PROVE RecordsFollowRules'
  <2>1. CommitRecords(r)
    BY <1>3, CommitRecordsFrame
  <2> QED
    BY <1>2, <2>1 DEF CommitRecords, EndEffect, OthersKeep, allEvaluations, allEvents
<1>4. ASSUME NEW r \in Workers, Fail(r) PROVE RecordsFollowRules'
  <2>1. EndEffect(r) /\ UNCHANGED <<evaluations, events>>
    BY <1>4, EndFrame DEF Fail, database
  <2> QED
    BY <1>2, <2>1 DEF EndEffect, OthersKeep, allEvaluations, allEvents
<1>5. ASSUME NEW r \in Workers, SaveEvaluation(r) PROVE RecordsFollowRules'
  <2> DEFINE e == Candidate(r)
  <2>1. SaveEvaluationRecords(r)
    BY <1>5, SaveEvaluationRecordsFrame
  <2>2. allEvaluations' \subseteq allEvaluations \cup {e} /\ allEvents' = allEvents
    BY <2>1 DEF SaveEvaluationRecords, OthersKeep, allEvaluations, allEvents
  <2>3. /\ current[r] \in versions /\ IsVersionOf(current[r], e)
        /\ current[r].definition.enabled
        /\ current[r].definition.rule = e.rule
        /\ e.count > 0 <=> Satisfies(e.observed, e.rule)
        /\ e.matched <=> e.count = e.rule.periods
    BY <2>1, TargetFacts, CandidateFacts DEF SaveEvaluationRecords, RequestsAreIsolated,
         IsVersionOf
  <2> HIDE DEF e
  <2> QED
    BY <1>1, <2>2, <2>3 DEF RecordsFollowRules, allEvaluations, allEvents, IsVersionOf,
         Satisfies, CompareValues
<1>6. ASSUME NEW r \in Workers, SaveEvent(r) PROVE RecordsFollowRules'
  <2>1. SaveEventRecords(r) /\ pc[r] = "save_event"
    BY <1>6, SaveEventRecordsFrame DEF SaveEventRecords
  <2>2. PICK saved \in VisibleEvaluations(r) : EventSaved(r, saved)
    BY <2>1 DEF SaveEventRecords
  <2> DEFINE v == EventOf(current[r], saved, request[r].source)
  <2>3. allEvaluations' = allEvaluations /\ allEvents' \subseteq allEvents \cup {v}
    BY <2>1, <2>2 DEF SaveEventRecords, OthersKeep, EventSaved, allEvaluations, allEvents
  <2>4. current[r] \in versions /\ saved.condition = current[r].id
          /\ saved.version = current[r].version
    BY <2>1, <2>2, TargetFacts DEF EventSaved, Target, Period
  <2>5. PICK s \in versions : IsVersionOf(s, saved)
    BY DEF RecordsFollowRules, VisibleEvaluations
  <2>6. s = current[r]
    BY <2>4, <2>5, RowsAreTheirVersions
  <2>7. IsVersionOf(current[r], v) /\ current[r].definition.kind = v.kind
    BY <2>5, <2>6 DEF IsVersionOf, EventOf
  <2> HIDE DEF v
  <2> QED
    BY <1>1, <2>3, <2>4, <2>7 DEF RecordsFollowRules, allEvaluations, allEvents, IsVersionOf,
         Satisfies, CompareValues
<1>7. CASE QuietStep
  BY <1>2, <1>7 DEF QuietStep, allEvaluations, allEvents
<1> QED
  BY <1>3, <1>4, <1>5, <1>6, <1>7, RecordSteps

\* A trigger is set with its event, and its event is kept with it.
LEMMA TriggersStayFitting ==
    ASSUME TypeOK, RequestsAreIsolated, \A r \in Workers : DraftsFitRequest(r) /\ RowsFit(r),
           VersionsFit, RecordsFollowRules, TriggersFit, [Next]_vars
    PROVE  TriggersFit'
<1> DEFINE Fits(q, v) == /\ update[q].trigger = {Period(v)}
                         /\ v.thesis = request[q].thesis /\ v.kind = "invalidation"
<1>1. ASSUME NEW q \in Workers, Evaluating(q), update[q].trigger # {}
      PROVE  \E v \in VisibleEvents(q) : Fits(q, v)
  BY <1>1 DEF TriggersFit, VisibleEvents
<1>2. ASSUME NEW q \in Workers, UNCHANGED <<request[q], update[q].trigger, draftEvents[q]>>,
             Evaluating(q)' => Evaluating(q), events \subseteq events',
             Evaluating(q)', update'[q].trigger # {}
      PROVE  \E v \in VisibleEvents(q)' : Fits(q, v)'
  <2>1. PICK v \in VisibleEvents(q) : Fits(q, v)
    BY <1>1, <1>2
  <2> QED
    BY <1>2, <2>1 DEF VisibleEvents, Period
<1>3. ASSUME \A q \in Workers : Evaluating(q)' /\ update'[q].trigger # {} =>
                \E v \in VisibleEvents(q)' : Fits(q, v)'
      PROVE  TriggersFit'
  BY <1>3 DEF TriggersFit, VisibleEvents, Period
<1> HIDE DEF Fits
<1>4. events \subseteq events'
  BY StepKinds DEF CreateThesis, Commit
<1>5. ASSUME NEW r \in Workers, OthersKeep(r), NEW q \in Workers \ {r},
             Evaluating(q)', update'[q].trigger # {}
      PROVE  \E v \in VisibleEvents(q)' : Fits(q, v)'
  BY <1>2, <1>4, <1>5 DEF OthersKeep, Evaluating
<1>6. ASSUME NEW r \in Workers, RequestStep(r), Evaluating(r)', update'[r].trigger # {}
      PROVE  \E v \in VisibleEvents(r)' : Fits(r, v)'
  <2>1. CASE Begin(r)
    <3>1. update'[r].trigger = {}
      <4>1. update[r].trigger = {}
        BY <2>1 DEF Begin, BeginEvaluate, BeginPatchThesis, BeginPatchCondition, NoUpdate,
             RequestsAreIsolated, ControlIsConsistent
      <4> QED
        BY <2>1, <4>1, BeginsUntriggered
    <3> QED
      BY <1>6, <3>1
  <2>2. CASE EndRequest(r)
    BY <1>6, <2>2, EndFrame DEF EndEffect, Evaluating
  <2>3. CASE SaveEvent(r)
    <3>1. SaveEventRecords(r) /\ pc[r] = "save_event" /\ request'[r] = request[r]
      BY <2>3, SaveEventRecordsFrame DEF SaveEventRecords
    <3>2. PICK saved \in VisibleEvaluations(r) : EventSaved(r, saved)
      BY <3>1 DEF SaveEventRecords
    <3>3. /\ Evaluating(r) /\ current[r] \in versions /\ current[r].thesis = request[r].thesis
          /\ Target(r) = <<current[r].id, current[r].version, Candidate(r).asOf>>
      BY <3>1, TargetFacts DEF Target, Period
    <3>4. CASE update[r].trigger # {}
      <4>1. update'[r].trigger = update[r].trigger /\ VisibleEvents(r) \subseteq VisibleEvents(r)'
        BY <1>4, <3>2, <3>4 DEF EventSaved, VisibleEvents
      <4> QED
        BY <1>1, <3>1, <3>3, <3>4, <4>1 DEF Fits, Period
    <3>5. CASE update[r].trigger = {}
      <4>1. IsInvalidation(current[r]) /\ update'[r].trigger = {Target(r)}
        BY <1>6, <3>2, <3>5 DEF EventSaved
      <4>2. PICK v \in VisibleEvents(r)' :
               /\ Period(v) = Target(r)
               /\ v.thesis = current[r].thesis /\ v.kind = current[r].definition.kind
        <5>1. ASSUME NEW v \in VisibleEvents(r), Period(v) = Target(r)
              PROVE  v.thesis = current[r].thesis /\ v.kind = current[r].definition.kind
          <6>1. PICK s \in versions : IsVersionOf(s, v) /\ s.definition.kind = v.kind
            BY DEF RecordsFollowRules, VisibleEvents
          <6>2. s = current[r]
            BY <3>3, <5>1, <6>1, RowsAreTheirVersions DEF Period
          <6> QED
            BY <6>1, <6>2 DEF IsVersionOf
        <5>2. /\ Period(saved) = Target(r) /\ saved.thesis = current[r].thesis
          <6>1. PICK s \in versions : IsVersionOf(s, saved)
            BY DEF RecordsFollowRules, VisibleEvaluations
          <6>2. Period(saved) = Target(r)
            BY <3>2 DEF EventSaved
          <6>3. s = current[r]
            BY <3>3, <6>1, <6>2, RowsAreTheirVersions DEF Period
          <6> QED
            BY <6>1, <6>2, <6>3 DEF IsVersionOf
        <5> DEFINE event == EventOf(current[r], saved, request[r].source)
        <5>3. /\ Period(event) = Target(r)
              /\ event.thesis = current[r].thesis /\ event.kind = current[r].definition.kind
          BY <5>2 DEF EventOf, Period
        <5> HIDE DEF event
        <5>4. CASE \E v \in VisibleEvents(r) : Period(v) = Target(r)
          BY <1>4, <3>2, <5>1, <5>4 DEF EventSaved, VisibleEvents
        <5>5. CASE draftEvents'[r] = draftEvents[r] \cup {event}
          BY <5>3, <5>5 DEF VisibleEvents
        <5> QED
          BY <3>2, <5>4, <5>5 DEF EventSaved, event
      <4> QED
        BY <3>1, <3>3, <4>1, <4>2 DEF Fits, IsInvalidation, Period
    <3> QED
      BY <3>4, <3>5
  <2>4. CASE FinishConditions(r)
    <3>1. FinishEffect(r)
      BY <2>4, FinishFrame
    <3> QED
      BY <1>2, <1>4, <1>6, <3>1 DEF FinishEffect, Evaluating, drafts
  <2>5. ASSUME \/ ReadThesis(r) \/ ListConditions(r) \/ LoadDailyBars(r)
               \/ LoadFundamentals(r) \/ LoadPrior(r) \/ WriteThesis(r)
               \/ \E d \in Definitions : WriteCondition(r, d)
               \/ SaveEvaluation(r),
               ~Fail(r)
        PROVE  \E v \in VisibleEvents(r)' : Fits(r, v)'
    <3>1. UNCHANGED <<request, update, draftEvents>> /\ pc[r] # "idle"
      BY <2>5 DEF ReadThesis, ListConditions, LoadDailyBars, LoadFundamentals, LoadSeries,
           LoadPrior, WriteThesis, WriteCondition, SaveEvaluation, reads, drafts
    <3> QED
      BY <1>2, <1>4, <1>6, <3>1 DEF Evaluating
  <2> QED
    BY <1>6, <2>1, <2>2, <2>3, <2>4, <2>5 DEF RequestStep, Proceed, Acquire, Commit, Fail
<1>7. CASE UNCHANGED <<pc, request, reads, drafts>>
  <2>1. UNCHANGED <<pc, request, update, draftEvents>>
    BY <1>7 DEF reads, drafts
  <2> QED
    BY <1>2, <1>3, <1>4, <2>1 DEF Evaluating
<1> QED
  BY <1>3, <1>5, <1>6, <1>7, StepsOfRequests

-----------------------------------------------------------------------------
(* Counts are backed *)

\* More evaluations back a count as much or more.
LEMMA BackingGrows ==
    ASSUME NEW A, NEW B, A \subseteq B, IsFiniteSet(B), NEW e
    PROVE  /\ Cardinality(Backing(A, e)) \in Nat /\ Cardinality(Backing(B, e)) \in Nat
           /\ Cardinality(Backing(A, e)) <= Cardinality(Backing(B, e))
<1>1. Backing(A, e) \subseteq Backing(B, e) /\ Backing(B, e) \subseteq B
  BY DEF Backing
<1> HIDE DEF Backing
<1>2. IsFiniteSet(Backing(B, e))
  BY <1>1, FS_Subset
<1>3. IsFiniteSet(Backing(A, e)) /\ Cardinality(Backing(A, e)) <= Cardinality(Backing(B, e))
  BY <1>1, <1>2, FS_Subset
<1> QED
  BY <1>2, <1>3, FS_CardinalityType

\* Counts are numbers.
LEMMA CountsAreNatural ==
    ASSUME TypeOK, NEW e \in evaluations \cup UNION {draftEvaluations[r] : r \in Workers}
    PROVE  e.count \in Nat
<1>1. e \in Evaluation
  BY DEF TypeOK
<1> QED
  BY <1>1 DEF Evaluation, MaxPeriods

\* The count of a candidate continues one earlier evaluation or starts anew.
LEMMA CandidateCount ==
    ASSUME TypeOK, ControlIsConsistent, EvaluationsAreReady, NEW r \in Workers,
           pc[r] = "save_evaluation"
    PROVE  /\ Candidate(r).asOf = LatestDay(SeriesFor(r, current[r]))
           /\ \/ Candidate(r).count <= 1
              \/ \E f \in prior[r] : Candidate(r).count <= f.count + 1
<1> DEFINE row     == current[r]
           rule    == row.definition.rule
           asOf    == LatestDay(SeriesFor(r, row))
           value   == SeriesFor(r, row)[asOf]
           matches == Satisfies(value, rule)
           n       == ConsecutivePeriods(matches, rule.periods, prior[r])
           previous == CHOOSE e \in LatestOf(prior[r]) : TRUE
<1>1. Candidate(r).asOf = asOf /\ Candidate(r).count = n
  BY DEF Candidate, EvaluateCondition
<1>2. rule.periods \in 1 .. MaxPeriods
  <2>1. row \in ConditionRow
    BY DEF TypeOK, EvaluationsAreReady
  <2> QED
    BY <2>1 DEF ConditionRow, Definition, Rule
<1>3. prior[r] # {} => previous \in prior[r]
  <2>1. prior[r] # {} => LatestOf(prior[r]) # {} /\ LatestOf(prior[r]) \subseteq prior[r]
    BY DEF TypeOK, EvaluationsAreReady, LatestOf, Evaluation, Day
  <2> QED
    BY <2>1
<1> HIDE DEF previous
<1>4. prior[r] # {} => previous.count \in 0 .. MaxPeriods
  BY <1>3 DEF TypeOK, Evaluation
<1> DEFINE m == previous.count + 1
<1>5. prior[r] # {} => Capped(m, rule.periods) <= m
  BY <1>2, <1>4 DEF Capped, MaxPeriods
<1> HIDE DEF m
<1>6. n = IF ~matches THEN 0
          ELSE IF rule.periods = 1 \/ prior[r] = {} THEN 1 ELSE Capped(m, rule.periods)
  BY DEF ConsecutivePeriods, m, previous
<1> HIDE DEF n, matches
<1>7. n <= 1 \/ (prior[r] # {} /\ n <= m)
  BY <1>5, <1>6
<1> QED
  BY <1>1, <1>3, <1>7 DEF m

\* A new evaluation is backed by what backs the one it continues, and by itself.
LEMMA CandidateIsBacked ==
    ASSUME TypeOK, RequestsAreIsolated, CountsFit, NEW r \in Workers, PriorsFit(r),
           pc[r] = "save_evaluation", TargetIsNew(r)
    PROVE  Cardinality(Backing(VisibleEvaluations(r) \cup {Candidate(r)}, Candidate(r)))
              >= Candidate(r).count
<1> DEFINE e     == Candidate(r)
           old   == VisibleEvaluations(r)
           backs == Backing(old \cup {e}, e)
<1> SUFFICES Cardinality(backs) >= e.count
  OBVIOUS
<1>1. ControlIsConsistent /\ EvaluationsAreReady
  BY DEF RequestsAreIsolated
<1>2. /\ e \in Evaluation /\ e.condition = current[r].id /\ e.version = current[r].version
      /\ e.count > 0 <=> Satisfies(e.observed, e.rule)
  BY <1>1, CandidateFacts
<1>3. /\ e.asOf = LatestDay(SeriesFor(r, current[r]))
      /\ e.count <= 1 \/ \E f \in prior[r] : e.count <= f.count + 1
  BY <1>1, CandidateCount
<1>4. IsFiniteSet(old) /\ e \notin old
  BY FS_Union DEF CountsFit, VisibleEvaluations, TargetIsNew, Target
<1>5. IsFiniteSet(old \cup {e})
  BY <1>4, FS_AddElement
<1>6. old \subseteq Evaluation
  BY DEF TypeOK, VisibleEvaluations
<1> HIDE DEF e, old
<1>7. IsFiniteSet(backs) /\ Cardinality(backs) \in Nat
  <2>1. backs \subseteq old \cup {e}
    BY DEF Backing
  <2> QED
    BY <1>5, <2>1, FS_Subset, FS_CardinalityType
<1>8. CASE e.count = 0
  BY <1>7, <1>8
<1>9. CASE e.count > 0
  <2>1. e \in backs
    BY <1>2, <1>9 DEF Backing, Evaluation, Day
  <2>2. CASE e.count <= 1
    <3>1. Cardinality({e}) = 1 /\ {e} \subseteq backs
      BY <2>1, FS_Singleton
    <3>2. Cardinality({e}) <= Cardinality(backs)
      BY <1>7, <3>1, FS_Subset
    <3> QED
      BY <1>2, <1>7, <2>2, <3>1, <3>2 DEF Evaluation
  <2>3. ASSUME NEW f \in prior[r], e.count <= f.count + 1
        PROVE  Cardinality(backs) >= e.count
    <3> DEFINE before == Backing(old, f)
    <3>1. /\ f \in old /\ f.condition = e.condition /\ f.version = e.version
          /\ f.asOf < e.asOf
      BY <1>2, <1>3 DEF PriorsFit, old
    <3>2. Cardinality(before) >= f.count
      <4>1. CASE f \in evaluations
        <5>1. Cardinality(Backing(evaluations, f)) >= f.count
          BY <4>1 DEF CountsFit
        <5>2. Cardinality(Backing(evaluations, f)) <= Cardinality(before)
                /\ Cardinality(before) \in Nat /\ Cardinality(Backing(evaluations, f)) \in Nat
          BY <1>4, BackingGrows DEF old, VisibleEvaluations
        <5> QED
          BY <1>6, <3>1, <5>1, <5>2 DEF Evaluation
      <4>2. CASE f \in draftEvaluations[r]
        BY <4>2 DEF CountsFit, old
      <4> QED
        BY <3>1, <4>1, <4>2 DEF old, VisibleEvaluations
    <3>3. before \cup {e} \subseteq backs /\ e \notin before /\ before \subseteq old
      BY <1>2, <1>4, <1>6, <2>1, <3>1 DEF Backing, Evaluation, Day
    <3> HIDE DEF before, backs
    <3>4. IsFiniteSet(before) /\ Cardinality(before) \in Nat
      BY <1>4, <3>3, FS_Subset, FS_CardinalityType
    <3>5. Cardinality(before \cup {e}) = Cardinality(before) + 1
      BY <3>3, <3>4, FS_AddElement
    <3>6. Cardinality(before \cup {e}) <= Cardinality(backs)
      BY <1>7, <3>3, FS_Subset
    <3> QED
      BY <1>2, <1>6, <1>7, <2>3, <3>1, <3>2, <3>4, <3>5, <3>6 DEF Evaluation
  <2> QED
    BY <1>3, <2>2, <2>3
<1> QED
  BY <1>2, <1>8, <1>9 DEF Evaluation

\* What backs a count is neither deleted nor taken from another run.
LEMMA CountsStayFitting ==
    ASSUME TypeOK, RequestsAreIsolated, \A r \in Workers : PriorsFit(r), CountsFit, [Next]_vars
    PROVE  CountsFit'
<1>1. ASSUME IsFiniteSet(evaluations'), evaluations \subseteq evaluations',
             \A e \in evaluations' \ evaluations :
                Cardinality(Backing(evaluations', e)) >= e.count,
             NEW r \in Workers, IsFiniteSet(draftEvaluations'[r]),
             \A e \in draftEvaluations'[r] :
                Cardinality(Backing(VisibleEvaluations(r)', e)) >= e.count,
             \A q \in Workers \ {r} : draftEvaluations'[q] = draftEvaluations[q]
      PROVE  CountsFit'
  <2>1. ASSUME NEW e \in evaluations
        PROVE  Cardinality(Backing(evaluations', e)) >= e.count
    <3>1. Cardinality(Backing(evaluations, e)) >= e.count
      BY DEF CountsFit
    <3> QED
      BY <1>1, <3>1, BackingGrows, CountsAreNatural
  <2>2. ASSUME NEW q \in Workers \ {r}, NEW e \in draftEvaluations[q]
        PROVE  Cardinality(Backing(VisibleEvaluations(q)', e)) >= e.count
    <3>1. /\ Cardinality(Backing(VisibleEvaluations(q), e)) >= e.count
          /\ IsFiniteSet(draftEvaluations[q])
      BY DEF CountsFit
    <3>2. VisibleEvaluations(q)' = evaluations' \cup draftEvaluations[q]
      BY <1>1 DEF VisibleEvaluations
    <3>3. IsFiniteSet(VisibleEvaluations(q)')
      BY <1>1, <3>1, <3>2, FS_Union
    <3>4. VisibleEvaluations(q) \subseteq VisibleEvaluations(q)'
      BY <1>1, <3>2 DEF VisibleEvaluations
    <3>5. e.count \in Nat
      BY CountsAreNatural
    <3> QED
      BY <3>1, <3>3, <3>4, <3>5, BackingGrows
  <2>3. \A q \in Workers : IsFiniteSet(draftEvaluations'[q])
    BY <1>1 DEF CountsFit
  <2>4. \A e \in evaluations' : Cardinality(Backing(evaluations', e)) >= e.count
    BY <1>1, <2>1
  <2>5. \A q \in Workers : \A e \in draftEvaluations'[q] :
           Cardinality(Backing(VisibleEvaluations(q)', e)) >= e.count
    BY <1>1, <2>2
  <2> QED
    BY <1>1, <2>3, <2>4, <2>5 DEF CountsFit, Backing, Satisfies, CompareValues
<1>2. ASSUME NEW r \in Workers, Commit(r) PROVE CountsFit'
  <2>1. /\ evaluations' = evaluations \cup draftEvaluations[r] /\ draftEvaluations'[r] = {}
        /\ \A q \in Workers \ {r} : draftEvaluations'[q] = draftEvaluations[q]
    BY <1>2, CommitRecordsFrame DEF CommitRecords, EndEffect, OthersKeep
  <2>2. IsFiniteSet(evaluations') /\ IsFiniteSet(draftEvaluations'[r])
    BY <2>1, FS_Union, FS_EmptySet DEF CountsFit
  <2>3. \A e \in evaluations' \ evaluations : Cardinality(Backing(evaluations', e)) >= e.count
    BY <2>1 DEF CountsFit, VisibleEvaluations
  <2> QED
    BY <1>1, <2>1, <2>2, <2>3
<1>3. ASSUME NEW r \in Workers, Fail(r) PROVE CountsFit'
  <2>1. /\ evaluations' = evaluations /\ draftEvaluations'[r] = {}
        /\ \A q \in Workers \ {r} : draftEvaluations'[q] = draftEvaluations[q]
    BY <1>3, EndFrame DEF Fail, database, EndEffect, OthersKeep
  <2>2. IsFiniteSet(evaluations') /\ IsFiniteSet(draftEvaluations'[r])
    BY <2>1, FS_EmptySet DEF CountsFit
  <2> QED
    BY <1>1, <2>1, <2>2
<1>4. ASSUME NEW r \in Workers, SaveEvaluation(r) PROVE CountsFit'
  <2> DEFINE e == Candidate(r)
  <2>1. SaveEvaluationRecords(r)
    BY <1>4, SaveEvaluationRecordsFrame
  <2>2. CASE draftEvaluations'[r] = draftEvaluations[r]
    <3>1. VisibleEvaluations(r)' = VisibleEvaluations(r)
      BY <2>1, <2>2 DEF SaveEvaluationRecords, VisibleEvaluations
    <3> QED
      BY <1>1, <2>1, <2>2, <3>1 DEF SaveEvaluationRecords, OthersKeep, CountsFit
  <2>3. CASE TargetIsNew(r) /\ draftEvaluations'[r] = draftEvaluations[r] \cup {e}
    <3>1. VisibleEvaluations(r)' = VisibleEvaluations(r) \cup {e}
      BY <2>1, <2>3 DEF SaveEvaluationRecords, VisibleEvaluations
    <3>2. Cardinality(Backing(VisibleEvaluations(r)', e)) >= e.count
      BY <2>1, <2>3, <3>1, CandidateIsBacked DEF SaveEvaluationRecords
    <3>3. IsFiniteSet(VisibleEvaluations(r)')
      BY <3>1, FS_Union, FS_AddElement DEF CountsFit, VisibleEvaluations
    <3> HIDE DEF e
    <3>4. ASSUME NEW f \in draftEvaluations[r]
          PROVE  Cardinality(Backing(VisibleEvaluations(r)', f)) >= f.count
      <4>1. Cardinality(Backing(VisibleEvaluations(r), f)) >= f.count
        BY DEF CountsFit
      <4>2. f.count \in Nat
        BY CountsAreNatural
      <4> QED
        BY <3>1, <3>3, <4>1, <4>2, BackingGrows
    <3>5. IsFiniteSet(draftEvaluations'[r])
      BY <2>3, FS_AddElement DEF CountsFit
    <3> QED
      BY <1>1, <2>1, <2>3, <3>2, <3>4, <3>5 DEF SaveEvaluationRecords, OthersKeep, CountsFit
  <2> QED
    BY <2>1, <2>2, <2>3 DEF SaveEvaluationRecords
<1>5. CASE UNCHANGED <<evaluations, draftEvaluations>>
  BY <1>5 DEF CountsFit, VisibleEvaluations, Backing, Satisfies, CompareValues
<1> QED
  BY <1>2, <1>3, <1>4, <1>5, RecordSteps, SaveEventRecordsFrame DEF SaveEventRecords, QuietStep

\* A run that is about to save an evaluation has just read the earlier one.
LEMMA RequestKeepsPriors ==
    ASSUME TypeOK, NEW r \in Workers, RequestStep(r), OthersKeep(r)
    PROVE  PriorsFit(r)'
<1>1. SUFFICES ASSUME pc'[r] = "save_evaluation" PROVE PriorsFit(r)'
  BY DEF PriorsFit
<1>2. LoadPrior(r) /\ ~Fail(r)
  <2>1. ~EndRequest(r)
    BY <1>1, EndFrame DEF EndEffect
  <2>2. ~Begin(r)
    BY <1>1 DEF Begin, BeginEvaluate, BeginPatchThesis, BeginPatchCondition, Goto, TypeOK
  <2>3. ~Acquire(r)
    BY <1>1, <2>1 DEF Acquire, WriteThesis, WriteCondition, SaveEvaluation, Done, Goto, Fail,
         TypeOK
  <2>4. ~(\/ ReadThesis(r) \/ ListConditions(r) \/ LoadDailyBars(r) \/ LoadFundamentals(r)
          \/ SaveEvent(r) \/ FinishConditions(r))
    BY <1>1, <2>1 DEF ReadThesis, ListConditions, LoadDailyBars, LoadFundamentals, LoadSeries,
         SaveEvent, FinishConditions, Done, Goto, Fail, TypeOK
  <2> QED
    BY <2>1, <2>2, <2>3, <2>4 DEF RequestStep, Proceed, Commit, Fail
<1>3. PICK row \in todo[r] :
        /\ current' = [current EXCEPT ![r] = row]
        /\ prior' = [prior EXCEPT ![r] =
               IF row.definition.rule.periods = 1 THEN {}
               ELSE Earlier(VisibleEvaluations(r), row, LatestDay(SeriesFor(r, row)))]
        /\ UNCHANGED <<evaluations, draftEvaluations, series>>
  BY <1>2 DEF LoadPrior, FirstOf, database, drafts
<1>4. current'[r] = row /\ VisibleEvaluations(r)' = VisibleEvaluations(r)
      /\ SeriesFor(r, current[r])' = SeriesFor(r, row)
  BY <1>3 DEF TypeOK, VisibleEvaluations, SeriesFor
<1>5. \A f \in prior'[r] :
        /\ f \in VisibleEvaluations(r) /\ f.condition = row.id /\ f.version = row.version
        /\ f.asOf < LatestDay(SeriesFor(r, row))
  BY <1>3 DEF TypeOK, Earlier, LatestOf
<1> QED
  BY <1>4, <1>5 DEF PriorsFit, LatestDay, Usable

-----------------------------------------------------------------------------
(* Theorems *)

\* Nothing is recorded or under way at the start.
LEMMA InitIsConsistent == Init => RecordsAreConsistent
<1> SUFFICES ASSUME Init PROVE RecordsAreConsistent
  OBVIOUS
<1>1. \A r \in Workers : DraftsFitRequest(r) /\ RowsFit(r) /\ PriorsFit(r)
  BY DEF Init, DraftsFitRequest, RowsFit, RowsAtHand, PriorsFit, Evaluating
<1>2. VersionsFit /\ ConditionDraftsFit /\ PeriodsAreUnique
  BY DEF Init, VersionsFit, ConditionDraftsFit, PeriodsAreUnique
<1>3. EventsFitEvaluations
  BY DEF Init, EventsFitEvaluations, CommittedEventsFit, DraftedEventsFit
<1>4. RecordsFollowRules
  BY DEF Init, RecordsFollowRules
<1>5. TriggersFit
  BY DEF Init, TriggersFit, Evaluating
<1>6. CountsFit
  BY FS_EmptySet DEF Init, CountsFit
<1> QED
  BY <1>1, <1>2, <1>3, <1>4, <1>5, <1>6 DEF RecordsAreConsistent

\* Every step keeps the records consistent.
LEMMA RecordsStayConsistent ==
    ASSUME TypeOK, RequestsAreIsolated, RecordsAreConsistent, [Next]_vars
    PROVE  RecordsAreConsistent'
<1>1. /\ \A r \in Workers : DraftsFitRequest(r) /\ RowsFit(r) /\ PriorsFit(r)
      /\ VersionsFit /\ ConditionDraftsFit /\ PeriodsAreUnique
      /\ EventsFitEvaluations /\ RecordsFollowRules /\ TriggersFit /\ CountsFit
  BY DEF RecordsAreConsistent
<1>2. \A q \in Workers : DraftsFitRequest(q)' /\ RowsFit(q)' /\ PriorsFit(q)'
  <2>1. versions \subseteq versions' /\ evaluations \subseteq evaluations'
    BY VersionsGrow, EvaluationsGrow
  <2>2. ASSUME NEW q \in Workers,
               /\ pc'[q] = pc[q] /\ request'[q] = request[q] /\ update'[q] = update[q]
               /\ todo'[q] = todo[q] /\ current'[q] = current[q]
               /\ series'[q] = series[q] /\ prior'[q] = prior[q]
               /\ draftThesis'[q] = draftThesis[q]
               /\ draftEvaluations'[q] = draftEvaluations[q]
        PROVE  DraftsFitRequest(q)' /\ RowsFit(q)' /\ PriorsFit(q)'
    <3>1. DraftsFitRequest(q)' /\ RowsFit(q)'
      BY <1>1, <2>1, <2>2 DEF DraftsFitRequest, RowsFit, RowsAtHand, Evaluating
    <3>2. PriorsFit(q)'
      <4>1. /\ VisibleEvaluations(q) \subseteq VisibleEvaluations(q)'
            /\ SeriesFor(q, current[q])' = SeriesFor(q, current[q])
        BY <2>1, <2>2 DEF VisibleEvaluations, SeriesFor
      <4> QED
        BY <1>1, <2>2, <4>1 DEF PriorsFit
    <3> QED
      BY <3>1, <3>2
  <2>3. ASSUME NEW r \in Workers, RequestStep(r), OthersKeep(r), NEW q \in Workers
        PROVE  DraftsFitRequest(q)' /\ RowsFit(q)' /\ PriorsFit(q)'
    <3>1. CASE q = r
      BY <1>1, <2>1, <2>3, <3>1, RequestKeepsDrafts, RequestKeepsRows, RequestKeepsPriors
    <3>2. CASE q # r
      BY <2>2, <2>3, <3>2 DEF OthersKeep
    <3> QED
      BY <3>1, <3>2
  <2>4. CASE UNCHANGED <<pc, request, reads, drafts>>
    BY <2>2, <2>4 DEF reads, drafts
  <2> QED
    BY <2>3, <2>4, StepsOfRequests
<1>3. VersionsFit' /\ ConditionDraftsFit' /\ PeriodsAreUnique'
  BY <1>1, VersionsStayFitting, ConditionDraftsStayFitting, PeriodsStayUnique
<1>4. EventsFitEvaluations'
  BY <1>1, EventsKeepFitting
<1>5. RecordsFollowRules' /\ TriggersFit'
  BY <1>1, RulesStayFollowed, TriggersStayFitting
<1>6. CountsFit'
  BY <1>1, CountsStayFitting
<1> QED
  BY <1>2, <1>3, <1>4, <1>5, <1>6 DEF RecordsAreConsistent

\* The inductive invariant of the records: how drafts, snapshots, evaluations,
\* events and triggers fit each other while requests interleave and fail.
THEOREM RecordConsistency == Spec => [](TypeOK /\ RequestsAreIsolated /\ RecordsAreConsistent)
<1>1. Init => RecordsAreConsistent
  BY InitIsConsistent
<1>2. TypeOK /\ RequestsAreIsolated /\ RecordsAreConsistent /\ [Next]_vars
         => RecordsAreConsistent'
  BY RecordsStayConsistent
<1> QED
  BY <1>1, <1>2, RequestIsolation, PTL DEF Spec

\* Runs that evaluate the same period at once leave one evaluation of it and,
\* if it matched, one event.
THEOREM OneEventForEachMatch == Spec => []MatchedMeansOneEvent
<1>1. RecordsAreConsistent => MatchedMeansOneEvent
  BY DEF RecordsAreConsistent, PeriodsAreUnique, EventsFitEvaluations, CommittedEventsFit,
       Reports, MatchedMeansOneEvent, Ledger!MatchedMeansOneEvent, Ledger!Period, Period
<1> QED
  BY <1>1, RecordConsistency, PTL

\* However PATCH requests of conditions overlap, each version has one snapshot
\* and none is missing.
THEOREM VersionCompleteness == Spec => []VersionsAreComplete
<1>1. ASSUME TypeOK, OwnersAreStable, VersionsFit PROVE VersionsAreComplete
  <2> SUFFICES ASSUME NEW c \in Conditions
               PROVE  LET row   == condition[c]
                          snaps == {s \in versions : s.id = c}
                      IN  /\ {s.version : s \in snaps} = 1 .. row.version
                          /\ Cardinality(snaps) = row.version
                          /\ row # NoCondition => row \in snaps
    BY DEF VersionsAreComplete
  <2> DEFINE n     == condition[c].version
             snaps == {s \in versions : s.id = c}
             snapshotOf == [k \in 1 .. n |-> CHOOSE s \in snaps : s.version = k]
  <2>1. n \in Nat /\ \A s \in snaps : s.version \in 1 .. n
    BY <1>1 DEF TypeOK, ConditionRow, NoCondition, VersionsFit
  <2>2. \A k \in 1 .. n : \E s \in snaps : s.version = k
    BY <1>1, <2>1 DEF VersionsFit, NoCondition
  <2>3. condition[c] # NoCondition => condition[c] \in snaps
    BY <1>1 DEF VersionsFit, OwnersAreStable
  <2>4. \A s, t \in snaps : s.version = t.version => s = t
    BY <1>1 DEF VersionsFit
  <2>5. {s.version : s \in snaps} = 1 .. n
    BY <2>1, <2>2
  <2> HIDE DEF n, snaps
  <2>6. /\ snapshotOf \in [1 .. n -> snaps]
        /\ \A k \in 1 .. n : snapshotOf[k].version = k
    BY <2>2
  <2> HIDE DEF snapshotOf
  <2>7. snapshotOf \in Bijection(1 .. n, snaps)
    <3>1. \A a, b \in 1 .. n : snapshotOf[a] = snapshotOf[b] => a = b
      BY <2>6
    <3>2. \A s \in snaps : \E k \in 1 .. n : snapshotOf[k] = s
      BY <2>1, <2>4, <2>6
    <3> QED
      BY <2>6, <3>1, <3>2 DEF Bijection, Injection, Surjection, IsInjective
  <2>8. Cardinality(snaps) = n
    <3>1. IsFiniteSet(1 .. n) /\ Cardinality(1 .. n) = n
      BY <2>1, FS_Interval
    <3> QED
      BY <2>7, <3>1, FS_Bijection DEF ExistsBijection
  <2> QED
    BY <2>3, <2>5, <2>8 DEF n, snaps
<1> QED
  BY <1>1, RecordConsistency, PTL DEF RecordsAreConsistent, RequestsAreIsolated

\* rule_version of an evaluation always leads to the rule that was applied, and
\* an event to the evaluation it was made of.
THEOREM EvaluationReplay == Spec => []EvaluationsCanBeReplayed
<1>1. ASSUME RecordsAreConsistent PROVE EvaluationsCanBeReplayed
  <2>1. /\ VersionsFit /\ PeriodsAreUnique /\ CommittedEventsFit /\ RecordsFollowRules
    BY <1>1 DEF RecordsAreConsistent, EventsFitEvaluations
  <2>2. ASSUME NEW e \in evaluations
        PROVE  \E s \in versions :
                  /\ s.id = e.condition /\ s.version = e.version /\ s.thesis = e.thesis
                  /\ s.definition.enabled
                  /\ s.definition.rule = e.rule
                  /\ e.count > 0 <=> Satisfies(e.observed, e.rule)
                  /\ e.matched <=> e.count = e.rule.periods
                  /\ \A v \in events : Period(v) = Period(e) =>
                        v.kind = s.definition.kind /\ v.evidence = e.source
    <3>1. PICK s \in versions :
             /\ IsVersionOf(s, e)
             /\ s.definition.enabled
             /\ s.definition.rule = e.rule
             /\ e.count > 0 <=> Satisfies(e.observed, e.rule)
             /\ e.matched <=> e.count = e.rule.periods
      BY <2>1 DEF RecordsFollowRules
    <3>2. ASSUME NEW v \in events, Period(v) = Period(e)
          PROVE  v.kind = s.definition.kind /\ v.evidence = e.source
      <4>1. PICK other \in versions : IsVersionOf(other, v) /\ other.definition.kind = v.kind
        BY <2>1 DEF RecordsFollowRules
      <4>2. other = s
        BY <2>1, <3>1, <3>2, <4>1 DEF VersionsFit, IsVersionOf, Period
      <4>3. PICK f \in evaluations : Reports(v, f)
        BY <2>1 DEF CommittedEventsFit
      <4>4. f = e
        BY <2>1, <3>2, <4>3 DEF Reports, PeriodsAreUnique
      <4> QED
        BY <4>1, <4>2, <4>3, <4>4 DEF Reports
    <3> QED
      BY <3>1, <3>2 DEF IsVersionOf
  <2> QED
    BY <2>2 DEF EvaluationsCanBeReplayed
<1> QED
  BY <1>1, RecordConsistency, PTL

\* A count of n consecutive periods is never larger than the number of stored
\* evaluations that met the rule, whichever runs added and reused them.
THEOREM CountBacking == Spec => []CountsAreBacked
<1>1. CountsFit => CountsAreBacked
  <2>1. \A e : Supporting(e) = Backing(evaluations, e)
    BY DEF Supporting, Backing
  <2> QED
    BY <2>1 DEF CountsFit, CountsAreBacked
<1> QED
  BY <1>1, RecordConsistency, PTL DEF RecordsAreConsistent
=============================================================================
