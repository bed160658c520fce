----------------------------- MODULE RuleEngine -----------------------------
(***************************************************************************)
(* rule_engine.py: one condition version against one metric result and the *)
(* evaluations already stored for that version.                            *)
(***************************************************************************)
EXTENDS ThesisDomain

CompareValues(observed, threshold, operator) ==
    \/ operator = "greater_than"          /\ observed > threshold
    \/ operator = "greater_than_or_equal" /\ observed >= threshold
    \/ operator = "less_than"             /\ observed < threshold
    \/ operator = "less_than_or_equal"    /\ observed <= threshold

Satisfies(observed, rule) ==
    CompareValues(observed, rule.threshold, rule.operator)

\* The evaluations of the latest date among those given: one at most, because
\* a condition version has one evaluation a date.
LatestOf(evals) == {e \in evals : \A f \in evals : f.asOf <= e.asOf}

\* Mutant: the running count is never capped.
UncappedCount(n, bound) == n

\* min(n, bound)
Capped(n, bound) == IF n < bound THEN n ELSE bound

\* Mutant: a period that misses the rule is counted.
CountEveryPeriod(matches, periods, prior) ==
    IF periods = 1 \/ prior = {} THEN 1
    ELSE Capped((CHOOSE e \in LatestOf(prior) : TRUE).count + 1, periods)

\* The count stored for the current period.  An earlier count of 0 and no
\* earlier evaluation both make this period the first of its run.
ConsecutivePeriods(matches, periods, prior) ==
    IF ~matches THEN 0
    ELSE IF periods = 1 \/ prior = {} THEN 1
    ELSE LET previous == CHOOSE e \in LatestOf(prior) : TRUE
         IN  Capped(previous.count + 1, periods)

\* row is the condition as it was read; asOf, observed and source are the
\* metric result.
EvaluateCondition(row, asOf, observed, source, prior) ==
    LET rule  == row.definition.rule
        count == ConsecutivePeriods(Satisfies(observed, rule), rule.periods, prior)
    IN  [thesis    |-> row.thesis,
         condition |-> row.id,
         version   |-> row.version,
         rule      |-> rule,
         asOf      |-> asOf,
         observed  |-> observed,
         source    |-> source,
         count     |-> count,
         matched   |-> count >= rule.periods]
=============================================================================
