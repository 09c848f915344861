--------------------------- MODULE AnalysisScoring ---------------------------
(***************************************************************************)
(* How the values of an analysis become its verdict: the operator, target, *)
(* objective and analysis evaluators of the metrics operator, for          *)
(* definitions that the validating webhook accepts.  Scores are kept       *)
(* doubled, as a warning counts half the weight of its objective.          *)
(***************************************************************************)
EXTENDS Integers, Sequences, FiniteSetsExt

CONSTANTS
    Templates,   \* the AnalysisValueTemplates
    Numbers      \* the values a provider returns, and the bounds of operators

\* An Operator of a target: exactly one comparison.  A fixed value is in low,
\* a range has a low bound smaller than its high bound.
Operators ==
    [op : {"equalTo", "lessThanOrEqual", "lessThan", "greaterThanOrEqual", "greaterThan"},
     low : Numbers, high : Numbers]
    \cup {r \in [op : {"inRange", "notInRange"}, low : Numbers, high : Numbers] : r.low < r.high}

\* A target need not have a failure or a warning operator.
NoOperator == [op |-> "none", low |-> 0, high |-> 0]

Targets == [failure : Operators \cup {NoOperator}, warning : Operators \cup {NoOperator}]

Objectives == [template : Templates, target : Targets, weight : Nat, key : BOOLEAN]

TotalScores == {s \in [pass : 0..100, warning : 0..100] : s.warning < s.pass}

-----------------------------------------------------------------------------
\* OperatorEvaluator.Evaluate
Fulfilled(val, o) ==
    CASE o.op = "equalTo"            -> val = o.low
      [] o.op = "lessThanOrEqual"    -> val <= o.low
      [] o.op = "lessThan"           -> val < o.low
      [] o.op = "greaterThanOrEqual" -> val >= o.low
      [] o.op = "greaterThan"        -> val > o.low
      [] o.op = "inRange"            -> val >= o.low /\ val <= o.high
      [] o.op = "notInRange"         -> val < o.low \/ val > o.high
      [] OTHER                       -> FALSE

\* TargetEvaluator.Evaluate: failure first, then warning, and otherwise a pass.
TargetResult(val, target) ==
    IF Fulfilled(val, target.failure) THEN "fail"
    ELSE IF Fulfilled(val, target.warning) THEN "warning"
    ELSE "pass"

\* ObjectiveEvaluator.Evaluate, doubled.  values maps a template to what was
\* found for it; without a value, or with one that is no number, the objective
\* has an error and scores nothing.
Score(values, o) ==
    LET v == values[o.template]
    IN  IF v.kind # "value" THEN 0
        ELSE CASE TargetResult(v.val, o.target) = "pass"    -> 2 * o.weight
               [] TargetResult(v.val, o.target) = "warning" -> o.weight
               [] OTHER                                     -> 0

MaximumScore(objectives) ==
    MapThenSumSet(LAMBDA i : 2 * objectives[i].weight, DOMAIN objectives)

AchievedScore(values, objectives) ==
    MapThenSumSet(LAMBDA i : Score(values, objectives[i]), DOMAIN objectives)

\* GetAchievedPercentage() >= percentage, without the rounding of floats.
Reaches(values, objectives, percentage) ==
    IF MaximumScore(objectives) = 0
    THEN percentage <= 0
    ELSE AchievedScore(values, objectives) * 100 >= percentage * MaximumScore(objectives)

\* ObjectiveResult.IsFail: a score of zero.
KeyObjectiveFailed(values, objectives) ==
    \E i \in DOMAIN objectives : objectives[i].key /\ Score(values, objectives[i]) = 0

\* AnalysisEvaluator.Evaluate
Verdict(values, objectives, total) ==
    IF KeyObjectiveFailed(values, objectives) THEN "fail"
    ELSE IF Reaches(values, objectives, total.pass) THEN "pass"
    ELSE IF Reaches(values, objectives, total.warning) THEN "warning" ELSE "fail"
=============================================================================
