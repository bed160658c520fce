---------------------------- MODULE ThesisLedger ----------------------------
(***************************************************************************)
(* What the monitoring backend promises about the thesis records, with     *)
(* every request a single step: a thesis is created, is edited by its      *)
(* owner, or is evaluated by one monitoring run that adds evaluations, the *)
(* events of the matched ones and, if an invalidation condition matched,   *)
(* the invalidation of the thesis, all together or not at all.             *)
(* ThesisMonitoring implements this with transactions of many statements   *)
(* that interleave.                                                        *)
(***************************************************************************)
EXTENDS ThesisDomain

VARIABLES
    thesis,        \* [Theses -> ThesisRow or NoThesis]
    history,       \* [Theses -> Seq(StatusChange)]
    evaluations,   \* set of Evaluation
    events         \* set of Event

ledgerVars == <<thesis, history, evaluations, events>>

Init ==
    /\ thesis = [t \in Theses |-> NoThesis]
    /\ history = [t \in Theses |-> <<>>]
    /\ evaluations = {}
    /\ events = {}

-----------------------------------------------------------------------------

\* The row becomes status s and its version grows by one; a status that
\* really changes is recorded with the event that caused it.
Advance(t, s, trigger) ==
    LET now == thesis[t] IN
    /\ now.version > 0
    /\ MayBecome(now.status, s)
    /\ thesis' = [thesis EXCEPT ![t] = [status |-> s, version |-> now.version + 1]]
    /\ history' =
         IF s = now.status THEN history
         ELSE [history EXCEPT ![t] =
                 Append(@, [from |-> now.status, to |-> s, trigger |-> trigger])]

Create(t) ==
    /\ thesis[t] = NoThesis
    /\ thesis' = [thesis EXCEPT ![t] = [status |-> "active", version |-> 1]]
    /\ UNCHANGED <<history, evaluations, events>>

Update(t, s) ==
    /\ Advance(t, s, {})
    /\ UNCHANGED <<evaluations, events>>

\* E and V are the evaluations and events a run adds.
WellFormedRun(t, E, V) ==
    /\ \A e \in E : e.thesis = t
    /\ \A e \in E : \A f \in evaluations \cup E : Period(e) = Period(f) => e = f
    /\ \A v \in V : \E e \in E : e.matched /\ Period(e) = Period(v) /\ v.thesis = t
    /\ \A e \in E : e.matched => \E v \in V : Period(v) = Period(e)
    /\ \A v, w \in V : Period(v) = Period(w) => v = w

Invalidates(v) == v.kind = "invalidation"

Run(t, E, V) ==
    /\ WellFormedRun(t, E, V)
    /\ evaluations' = evaluations \cup E
    /\ events' = events \cup V
    /\ \/ /\ \E v \in V : /\ Invalidates(v)
                          /\ Advance(t, "invalidated", {Period(v)})
          /\ thesis[t].status \in Monitorable
       \/ /\ \A v \in V : ~Invalidates(v)
          /\ UNCHANGED <<thesis, history>>

Next ==
    \E t \in Theses :
        \/ Create(t)
        \/ \E s \in ThesisStatus : Update(t, s)
        \/ Run(t, evaluations' \ evaluations, events' \ events)

Spec == Init /\ [][Next]_ledgerVars

-----------------------------------------------------------------------------

\* An event that reports a matched invalidation condition and a thesis that is
\* still being monitored never coexist: thesis_monitoring_service.py commits
\* the event and the invalidation together, and nothing revives the thesis.
InvalidationIsFinal ==
    \A v \in events : Invalidates(v) => thesis[v.thesis].status \notin Monitorable

\* The status history of a thesis (list_status_history) tells how it came to
\* its present status: it starts from active, each change starts where the one
\* before it ended and was allowed, and the last one ends at the present status.
HistoryExplainsStatus ==
    \A t \in Theses :
        LET h == history[t]
            n == Len(h)
        IN  /\ \A i \in 1 .. n : h[i].to \in AllowedTransitions[h[i].from]
            /\ \A i \in 1 .. n : h[i].from = IF i = 1 THEN "active" ELSE h[i - 1].to
            /\ thesis[t] # NoThesis =>
                 thesis[t].status = IF n = 0 THEN "active" ELSE h[n].to

\* A recorded triggering event exists, belongs to that thesis, reports an
\* invalidation condition, and only an invalidation has one.
TriggersAreRecorded ==
    \A t \in Theses : \A i \in 1 .. Len(history[t]) :
        LET change == history[t][i] IN
        \A p \in change.trigger :
            /\ change.to = "invalidated"
            /\ \E v \in events : Period(v) = p /\ v.thesis = t /\ Invalidates(v)

\* A period is evaluated once, a matched evaluation has exactly one event, and
\* an event belongs to a matched evaluation of its thesis (DB-008, DB-009).
MatchedMeansOneEvent ==
    /\ \A e, f \in evaluations : Period(e) = Period(f) => e = f
    /\ \A e \in evaluations : e.matched =>
          \E v \in events : Period(v) = Period(e) /\ v.thesis = e.thesis
    /\ \A v \in events : \E e \in evaluations : /\ e.matched /\ Period(e) = Period(v)
                                              /\ e.thesis = v.thesis
    /\ \A v, w \in events : Period(v) = Period(w) => v = w
=============================================================================
