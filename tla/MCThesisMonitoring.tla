------------------------- MODULE MCThesisMonitoring -------------------------
(***************************************************************************)
(* Instances of ThesisMonitoring for TLC.  Metrics "price_change" and "pe" *)
(* stand for a metric of each input kind; the rules ask for a value above  *)
(* 0 and the observations yield 0 (no) or 1 (yes).                         *)
(***************************************************************************)
EXTENDS ThesisMonitoringInvariant, TLC

\* Workers are interchangeable.  Safety runs only.
MCSymmetry == Permutations(Workers)

MCMetrics == {"price_change", "pe"}
MCInputKind == [price_change |-> "daily_bars", pe |-> "fundamentals"]
MCRequiredObservations == [price_change |-> 1, pe |-> 1]

Above(metric, periods) == [metric    |-> metric,
                           operator  |-> "greater_than",
                           threshold |-> 0,
                           periods   |-> periods]

On(kind, rule) == [kind |-> kind, enabled |-> TRUE, rule |-> rule]

\* Daily bars of source s for the given days, each meeting the rule or not.
Bars(s, days) == [source : {s}, kind : {"daily_bars"}, day : days, value : {0, 1}]

LifecycleFeed == [source : {"s1"}, kind : {"fundamentals"}, day : {1}, value : {1, Missing}]
GapFeed == Bars("s1", 1 .. 3)
RecordFeed == [source : {"s1"}, kind : {"daily_bars"}, day : {2}, value : {0}] \cup
              [source : {"s2"}, kind : {"daily_bars"}, day : 1 .. 3, value : {1}]

\* Lifecycle: invalidation and another condition, which every run evaluates, so
\* that runs queue for their periods, against edits of the thesis; both may find
\* their field missing.
LifecycleDefinitions == {On("invalidation", Above("pe", 1)), On("risk", Above("pe", 1))}

\* Records: a condition is disabled, enabled and changed while it is evaluated.
RecordDefinitions ==
    {On("risk", Above("price_change", 1)),
     On("support", Above("price_change", 2)),
     [On("risk", Above("price_change", 1)) EXCEPT !.enabled = FALSE]}

\* Skipped periods: conditions that need two consecutive periods.
StreakDefinitions == {On("risk", Above("price_change", 2))}
=============================================================================
