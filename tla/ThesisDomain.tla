---------------------------- MODULE ThesisDomain ----------------------------
(***************************************************************************)
(* The vocabulary the other modules share: the lifecycle of an investment  *)
(* thesis, the definition of a monitoring condition, the rows that the     *)
(* database keeps for both and the records one evaluation leaves behind.   *)
(* Names, descriptions, owners and timestamps are left out: no property is *)
(* about them.  Every deployment has a single API user.                    *)
(***************************************************************************)
EXTENDS Integers, Sequences

CONSTANTS
    Theses,               \* ids of investment theses
    Conditions,           \* ids of conditions, in (created_at, id) order
    Metrics,              \* metric codes the registry knows
    InputKind,            \* metric -> the series it is computed from
    RequiredObservations, \* metric -> observations its definition requires
    Sources               \* providers an evaluation may name

InputKinds == {"daily_bars", "fundamentals"}

ASSUME ConditionsAreOrdered == Conditions \subseteq Nat

ASSUME RegistryIsTotal ==
    /\ InputKind \in [Metrics -> InputKinds]
    /\ RequiredObservations \in [Metrics -> Nat \ {0}]

-----------------------------------------------------------------------------
(* Thesis lifecycle *)

ThesisStatus == {"active", "challenged", "invalidated", "archived"}

\* A thesis in one of these states may be monitored.
Monitorable == {"active", "challenged"}

AllowedTransitions ==
    [active      |-> {"challenged", "invalidated", "archived"},
     challenged  |-> {"active", "invalidated", "archived"},
     invalidated |-> {"archived"},
     archived    |-> {}]

\* update_thesis validates only a status that differs from the current one.
MayBecome(from, to) == to = from \/ to \in AllowedTransitions[from]

ThesisRow == [status : ThesisStatus, version : Nat \ {0}]

\* No row: the thesis has not been created (or, in a draft, not been written).
NoThesis == [status |-> "absent", version |-> 0]

-----------------------------------------------------------------------------
(* Conditions and their versions *)

ConditionKind == {"support", "risk", "invalidation"}

ComparisonOperator ==
    {"greater_than", "greater_than_or_equal", "less_than", "less_than_or_equal"}

MaxPeriods == 12

Rule == [metric    : Metrics,
         operator  : ComparisonOperator,
         threshold : Int,
         periods   : 1 .. MaxPeriods]

\* What a client may set on a condition and a PATCH may change.
Definition == [kind : ConditionKind, enabled : BOOLEAN, rule : Rule]

ConditionRow == [id         : Conditions,
                 thesis     : Theses,
                 definition : Definition,
                 version    : Nat \ {0}]

NoCondition == [version |-> 0]

-----------------------------------------------------------------------------
(* What an evaluation leaves behind.  An evaluation names the observations *)
(* it used; their source stands for them.                                  *)

Day == Nat

Evaluation == [thesis    : Theses,
               condition : Conditions,
               version   : Nat \ {0},
               rule      : Rule,
               asOf      : Day,
               observed  : Int,
               source    : Sources,
               count     : 0 .. MaxPeriods,
               matched   : BOOLEAN]

Event == [thesis    : Theses,
          condition : Conditions,
          version   : Nat \ {0},
          asOf      : Day,
          kind      : ConditionKind,
          evidence  : Sources]

\* rule_evaluation_period_identity: condition, rule version and data date.  An
\* event belongs to one evaluation, so the same triple identifies both.
Period(x) == <<x.condition, x.version, x.asOf>>

PeriodId == Conditions \X (Nat \ {0}) \X Day

\* A row of thesis_status_history; trigger holds the triggering event, if any.
StatusChange == [from    : ThesisStatus,
                 to      : ThesisStatus,
                 trigger : SUBSET PeriodId]
=============================================================================
