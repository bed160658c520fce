----------------------- MODULE ThesisRecordsInvariant -----------------------
(***************************************************************************)
(* The inductive invariant behind LedgerSpec and the properties of the     *)
(* records: how committed and drafted versions, evaluations, events and    *)
(* triggers fit each other while requests are under way.                   *)
(***************************************************************************)
EXTENDS ThesisMonitoringInvariant

Evaluating(r) == pc[r] # "idle" /\ request[r].kind = "evaluate"

\* A request drafts what its kind is about, and for its thesis only.
DraftsFitRequest(r) ==
    /\ pc[r] # "idle" /\ ~Evaluating(r) => update[r].trigger = {}
    /\ draftThesis[r] # NoThesis => pc[r] # "idle" /\ request[r].kind # "patch_condition"
    /\ \A e \in draftEvaluations[r] :
          Evaluating(r) /\ e.thesis = request[r].thesis /\ e.source = request[r].source
    /\ pc[r] \in {"read_thesis", "write_thesis"} \/ draftThesis[r] # NoThesis =>
          (Evaluating(r) => update[r].trigger # {})

\* A condition has one snapshot for each of its versions, and the last one is
\* the row itself.
VersionsFit ==
    /\ \A s, t \in versions : s.id = t.id /\ s.version = t.version => s = t
    /\ \A s \in versions : s.version <= condition[s.id].version
    /\ \A c \in Conditions : condition[c] # NoCondition =>
          /\ condition[c] \in versions
          /\ \A n \in 1 .. condition[c].version : \E s \in versions : s.id = c /\ s.version = n

\* A draft of a condition is its next version, and only one request has one.
ConditionDraftsFit ==
    /\ \A r \in Workers : draftCondition[r] # NoCondition =>
          draftCondition[r].version = condition[draftCondition[r].id].version + 1
    /\ \A r, q \in Workers :
          r # q /\ draftCondition[r] # NoCondition /\ draftCondition[q] # NoCondition =>
              draftCondition[r].id # draftCondition[q].id

\* The rows a run works with are snapshots, enabled when it listed them.
RowsAtHand(r) == todo[r] \cup ({current[r]} \ {NoCondition})

RowsFit(r) ==
    /\ RowsAtHand(r) \subseteq versions
    /\ Evaluating(r) => \A row \in RowsAtHand(r) : row.definition.enabled

\* A period is evaluated once, among committed and all drafted evaluations.
PeriodsAreUnique ==
    /\ \A e, f \in evaluations : Period(e) = Period(f) => e = f
    /\ \A r \in Workers : \A e \in draftEvaluations[r] :
          /\ \A f \in evaluations : Period(f) # Period(e)
          /\ \A f \in draftEvaluations[r] : Period(f) = Period(e) => f = e
          /\ \A q \in Workers \ {r} : \A f \in draftEvaluations[q] : Period(f) # Period(e)

\* The evaluation a run is about to save, or has just saved.
Target(r) == Period(Candidate(r))

\* Event v reports evaluation e.
Reports(v, e) ==
    /\ e.matched /\ Period(v) = Period(e)
    /\ v.thesis = e.thesis /\ v.evidence = e.source

\* Events and matched evaluations come in pairs, in the tables ...
CommittedEventsFit ==
    /\ \A v, w \in events : Period(v) = Period(w) => v = w
    /\ \A v \in events : \E e \in evaluations : Reports(v, e)
    /\ \A e \in evaluations : e.matched => \E v \in events : Reports(v, e)

\* ... and in the draft of a run, but for the event the run is about to add.
DraftedEventsFit(r) ==
    /\ \A v, w \in draftEvents[r] : Period(v) = Period(w) => v = w
    /\ \A v \in draftEvents[r] : \E e \in draftEvaluations[r] : Reports(v, e)
    /\ \A e \in draftEvaluations[r] : e.matched =>
          \/ \E v \in draftEvents[r] : Reports(v, e)
          \/ pc[r] = "save_event" /\ Period(e) = Target(r)
    /\ pc[r] = "save_event" =>
          \E e \in VisibleEvaluations(r) : e.matched /\ Period(e) = Target(r)

EventsFitEvaluations == CommittedEventsFit /\ \A r \in Workers : DraftedEventsFit(r)

\* The snapshot that x, an evaluation or an event, is about.
IsVersionOf(s, x) == s.id = x.condition /\ s.version = x.version /\ s.thesis = x.thesis

\* Evaluations and events follow from the snapshot of their version.
RecordsFollowRules ==
    /\ \A e \in evaluations \cup UNION {draftEvaluations[r] : r \in Workers} :
          \E s \in versions :
              /\ IsVersionOf(s, e)
              /\ s.definition.enabled
              /\ s.definition.rule = e.rule
              /\ e.count > 0 <=> Satisfies(e.observed, e.rule)
              /\ e.matched <=> e.count = e.rule.periods
    /\ \A v \in events \cup UNION {draftEvents[r] : r \in Workers} :
          \E s \in versions : IsVersionOf(s, v) /\ s.definition.kind = v.kind

\* A run is triggered by an invalidation event of its thesis that it has drafted
\* or that is committed.
TriggersFit ==
    \A r \in Workers : Evaluating(r) /\ update[r].trigger # {} =>
        \E v \in events \cup draftEvents[r] :
            /\ update[r].trigger = {Period(v)}
            /\ v.thesis = request[r].thesis /\ v.kind = "invalidation"

\* The evaluations among evals that a count of e can be made of.
Backing(evals, e) ==
    {f \in evals : /\ f.condition = e.condition /\ f.version = e.version
                   /\ f.asOf <= e.asOf
                   /\ Satisfies(f.observed, f.rule)}

\* Counts are backed by what is committed or drafted by the same run ...
CountsFit ==
    /\ IsFiniteSet(evaluations)
    /\ \A e \in evaluations : Cardinality(Backing(evaluations, e)) >= e.count
    /\ \A r \in Workers :
          /\ IsFiniteSet(draftEvaluations[r])
          /\ \A e \in draftEvaluations[r] :
                Cardinality(Backing(VisibleEvaluations(r), e)) >= e.count

\* ... and a run continues an earlier evaluation of the version that it sees.
PriorsFit(r) ==
    pc[r] = "save_evaluation" => \A f \in prior[r] :
        /\ f \in VisibleEvaluations(r)
        /\ f.condition = current[r].id /\ f.version = current[r].version
        /\ f.asOf < LatestDay(SeriesFor(r, current[r]))

\* With TypeOK and RequestsAreIsolated, the inductive invariant of LedgerSpec.
RecordsAreConsistent ==
    /\ \A r \in Workers : DraftsFitRequest(r) /\ RowsFit(r) /\ PriorsFit(r)
    /\ VersionsFit
    /\ ConditionDraftsFit
    /\ PeriodsAreUnique
    /\ EventsFitEvaluations
    /\ RecordsFollowRules
    /\ TriggersFit
    /\ CountsFit
=============================================================================
