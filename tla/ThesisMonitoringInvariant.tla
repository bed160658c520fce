---------------------- MODULE ThesisMonitoringInvariant ----------------------
(***************************************************************************)
(* The inductive invariant behind InvalidationIsFinal: what a request in   *)
(* progress knows about the rows it has read and about the drafts it and   *)
(* the others hold.                                                        *)
(***************************************************************************)
EXTENDS ThesisMonitoring

EvaluationLabels == {"list_conditions", "load_daily_bars", "load_fundamentals",
                     "next_condition", "save_evaluation", "save_event"}

\* The label of a request fits its parameters and what it has at hand.
ControlIsConsistent ==
    \A r \in Workers :
        /\ pc[r] = "idle" =>
              /\ seen[r] = NoThesis /\ update[r] = NoUpdate
              /\ draftThesis[r] = NoThesis /\ draftCondition[r] = NoCondition
              /\ draftEvents[r] = {}
        /\ pc[r] # "idle" =>
              /\ request[r] \in Request
              /\ thesis[request[r].thesis] # NoThesis
        /\ pc[r] \in EvaluationLabels => request[r].kind = "evaluate"
        /\ pc[r] \in {"read_thesis", "write_thesis"} =>
              request[r].kind \in {"evaluate", "patch_thesis"}
        /\ pc[r] = "write_condition" =>
              /\ request[r].kind = "patch_condition"
              /\ condition[request[r].condition] # NoCondition

\* A metric has a value on some day of the series loaded for it.
HasMetric(r, row) == Usable(SeriesFor(r, row)) # {}

\* A condition is evaluated with a metric value and at most one earlier date.
EvaluationsAreReady ==
    \A r \in Workers :
        /\ pc[r] \in {"save_evaluation", "save_event"} =>
              current[r] # NoCondition /\ HasMetric(r, current[r])
        /\ \A e, f \in prior[r] : e.asOf = f.asOf

\* A thesis row that was read is the present row or an older version of it.
ReadsAreOld ==
    \A r \in Workers : seen[r] # NoThesis =>
        LET now == thesis[request[r].thesis] IN
        /\ pc[r] # "idle"
        /\ seen[r].version <= now.version
        /\ seen[r].version = now.version => seen[r] = now

\* What the checks of update_thesis have established by the time it writes.
UpdatesAreChecked ==
    \A r \in Workers :
        /\ pc[r] = "write_thesis" =>
              seen[r] # NoThesis /\ UpdateIsValid(seen[r], update[r])
        /\ pc[r] # "idle" /\ request[r].kind = "evaluate" =>
              /\ seen[r].status \in Monitorable
              /\ pc[r] \in {"read_thesis", "write_thesis"} =>
                    /\ update[r].expected = seen[r].version
                    /\ update[r].status = "invalidated"

\* A drafted thesis row follows the present row, and only one request has one.
DraftsFollowRows ==
    /\ \A r \in Workers : draftThesis[r] # NoThesis =>
          /\ pc[r] = "commit"
          /\ seen[r] # NoThesis
          /\ seen[r] = thesis[request[r].thesis]
          /\ draftThesis[r].version = seen[r].version + 1
          /\ MayBecome(seen[r].status, draftThesis[r].status)
    /\ \A r, q \in Workers :
          r # q /\ draftThesis[r] # NoThesis /\ draftThesis[q] # NoThesis =>
              request[r].thesis # request[q].thesis

\* A condition keeps its thesis: in its row, in every draft of that row, in the
\* copies requests have read and in the evaluations made of it.
OwnersAreStable ==
    /\ \A c \in Conditions : condition[c] # NoCondition =>
          condition[c].id = c /\ thesis[condition[c].thesis] # NoThesis
    /\ \A r \in Workers :
          /\ draftCondition[r] # NoCondition =>
                LET row == condition[draftCondition[r].id] IN
                row # NoCondition /\ row.thesis = draftCondition[r].thesis
          /\ \A row \in todo[r] \cup ({current[r]} \ {NoCondition}) :
                /\ pc[r] # "idle" /\ row.thesis = request[r].thesis
                /\ condition[row.id] # NoCondition
                /\ condition[row.id].thesis = row.thesis
    /\ \A e \in evaluations \cup UNION {draftEvaluations[r] : r \in Workers} :
          condition[e.condition] # NoCondition /\ condition[e.condition].thesis = e.thesis

\* A run that has drafted an invalidation event will invalidate its thesis or
\* fail: at its commit the invalidated row is in the draft as well.
RunsInvalidate ==
    \A r \in Workers :
        /\ \A v \in draftEvents[r] :
              /\ pc[r] # "idle" /\ request[r].kind = "evaluate"
              /\ v.thesis = request[r].thesis
              /\ v.kind = "invalidation" => update[r].trigger # {}
        /\ pc[r] = "commit" /\ request[r].kind = "evaluate" /\ update[r].trigger # {} =>
              draftThesis[r] # NoThesis /\ draftThesis[r].status = "invalidated"

EventsHaveTheses == \A v \in events : thesis[v.thesis] # NoThesis

\* With TypeOK, the inductive invariant of InvalidationIsFinal.
RequestsAreIsolated ==
    /\ ControlIsConsistent
    /\ EvaluationsAreReady
    /\ ReadsAreOld
    /\ UpdatesAreChecked
    /\ DraftsFollowRows
    /\ OwnersAreStable
    /\ RunsInvalidate
    /\ EventsHaveTheses
=============================================================================
