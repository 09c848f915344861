---------------------------- MODULE SloConverter ----------------------------
(***************************************************************************)
(* The converter of the SLOs of Keptn v1 to AnalysisDefinitions: how the   *)
(* pass and warning criteria of an objective become the failure and the    *)
(* warning operator of a target.  A list of criteria is a disjunction, a   *)
(* criterion is a conjunction of rules.  Strings are parsed already: a     *)
(* rule is a comparison with a number, or with a percentage of an earlier  *)
(* result, which the converter leaves out.                                 *)
(***************************************************************************)
EXTENDS AnalysisScoring, SequencesExt

CONSTANT MeasuredValues   \* the values that an objective is judged by

VARIABLES
    slo,      \* the objective given to the SLO converter
    result    \* what the SLO converter made of it

\* Values and numbers are decimals: there is a value between any two numbers, one
\* below and one above them all.
ASSUME DecimalAssumption ==
    /\ Numbers \subseteq Int /\ MeasuredValues \subseteq Int
    /\ \E least, greatest \in Numbers : \A n \in Numbers : least <= n /\ n <= greatest
    /\ \A a, b \in Numbers : a < b => \E val \in MeasuredValues : a < val /\ val < b
    /\ \E low, high \in MeasuredValues : \A n \in Numbers : low < n /\ n < high

Rules == [op : {"<=", "<", ">=", ">"}, val : Numbers]

Percentage == [op |-> "%", val |-> 0]

\* One criterion of at most two rules.
Criteria == {<<r>> : r \in Rules \cup {Percentage}}
            \cup {<<r1, r2>> : r1, r2 \in Rules \cup {Percentage}}

\* A pass criterion and possibly a warning criterion, or two single pass criteria.
Objective ==
    [pass : {<<c>> : c \in Criteria}, warning : {<<>>} \cup {<<c>> : c \in Criteria}]
    \cup [pass : {<< <<r1>>, <<r2>> >> : r1, r2 \in Rules}, warning : {<<>>}]

\* What the converter returns for an objective: a target or an error.
NoTarget == [failure |-> NoOperator, warning |-> NoOperator]
Failed   == [err |-> TRUE, target |-> NoTarget]
Converted(failure, warning) ==
    [err |-> FALSE, target |-> [failure |-> failure, warning |-> warning]]

\* An operator that could not be created.
BadOperator == [op |-> "error", low |-> 0, high |-> 0]

-----------------------------------------------------------------------------
\* What is left of a sequence without the elements to drop.
Kept(s, drop) ==
    LET kept[k \in 0..Len(s)] ==
            IF k = 0 THEN <<>>
            ELSE IF s[k] = drop THEN kept[k - 1] ELSE Append(kept[k - 1], s[k])
    IN  kept[Len(s)]

\* cleanupCriteria: percentages go, and with them the criteria that had nothing else.
CleanupCriteria(criteria) ==
    Kept([i \in DOMAIN criteria |-> Kept(criteria[i], Percentage)], <<>>)

HasNotSupportedCriteria(o) ==
    \/ o.pass = <<>>
    \/ Len(o.warning) > 1
    \/ Len(o.warning) = 1 /\ Len(o.pass) > 1

IsGreaterOrEqual(op) == op \in {">", ">="}
IsLessOrEqual(op)    == op \in {"<", "<="}

\* decideIntervalBounds
Smaller(r1, r2) == IF r1.val < r2.val THEN r1 ELSE r2
Bigger(r1, r2)  == IF r1.val < r2.val THEN r2 ELSE r1

\* createSingleOperator
CreateSingleOperator(r) ==
    [op |-> CASE r.op = "<=" -> "lessThanOrEqual" [] r.op = "<" -> "lessThan"
              [] r.op = ">=" -> "greaterThanOrEqual" [] r.op = ">" -> "greaterThan",
     low |-> r.val, high |-> r.val]

\* Mutant: a comparison is negated without its bound.
NegateStrictly(r) ==
    [op |-> CASE r.op \in {"<=", "<"} -> "greaterThan" [] r.op \in {">=", ">"} -> "lessThan",
     low |-> r.val, high |-> r.val]

NegateSingleOperator(r) ==
    [op |-> CASE r.op = "<=" -> "greaterThan" [] r.op = "<" -> "greaterThanOrEqual"
              [] r.op = ">=" -> "lessThan" [] r.op = ">" -> "lessThanOrEqual",
     low |-> r.val, high |-> r.val]

\* createDoubleOperator: a range, whose bounds are inclusive whatever the rules say.
CreateDoubleOperator(r1, r2) ==
    LET small == Smaller(r1, r2)
        big   == Bigger(r1, r2)
        range(op) == [op |-> op, low |-> small.val, high |-> big.val]
    IN  CASE IsGreaterOrEqual(small.op) /\ IsLessOrEqual(big.op) -> range("inRange")
          [] IsLessOrEqual(small.op) /\ IsGreaterOrEqual(big.op) -> range("notInRange")
          [] OTHER -> BadOperator

NegateDoubleOperator(r1, r2) ==
    LET o == CreateDoubleOperator(r1, r2)
    IN  CASE o.op = "inRange"    -> [o EXCEPT !.op = "notInRange"]
          [] o.op = "notInRange" -> [o EXCEPT !.op = "inRange"]
          [] OTHER               -> BadOperator

\* newOperator: only the first two rules are looked at.
NewOperator(rules, negate) ==
    CASE Len(rules) = 1 /\ negate  -> NegateSingleOperator(rules[1])
      [] Len(rules) = 1 /\ ~negate -> CreateSingleOperator(rules[1])
      [] Len(rules) > 1 /\ negate  -> NegateDoubleOperator(rules[1], rules[2])
      [] Len(rules) > 1 /\ ~negate -> CreateDoubleOperator(rules[1], rules[2])
      [] OTHER                     -> BadOperator

\* createInterval: what lies below and above everything stands for the largest and
\* the smallest integer.
Below == Min(Numbers) - 1
Above == Max(Numbers) + 1

BadInterval == [start |-> Above, end |-> Below]

CreateInterval(rules) ==
    IF Len(rules) = 1
    THEN IF IsGreaterOrEqual(rules[1].op)
         THEN [start |-> rules[1].val, end |-> Above]
         ELSE [start |-> Below, end |-> rules[1].val]
    ELSE LET small == Smaller(rules[1], rules[2])
             big   == Bigger(rules[1], rules[2])
         IN  IF IsGreaterOrEqual(small.op) /\ IsLessOrEqual(big.op)
             THEN [start |-> small.val, end |-> big.val]
             ELSE BadInterval

\* isSuperInterval, for two intervals.
IsSuperInterval(super, sub) ==
    LET a == CreateInterval(super)
        b == CreateInterval(sub)
    IN  a.start <= b.start /\ a.end >= b.end

\* The target, or an error if an operator could not be created.
TargetOf(failure, warning) ==
    IF BadOperator \in {failure, warning} THEN Failed ELSE Converted(failure, warning)

\* setupTarget, for an objective without percentages.
SetupTarget(o) ==
    LET pass == o.pass[1]
        warn == o.warning[1]
    IN  IF HasNotSupportedCriteria(o) THEN
            Converted(NoOperator, NoOperator)
        ELSE IF Len(o.pass) > 1 THEN
            TargetOf(NewOperator(<<pass[1], o.pass[2][1]>>, TRUE), NoOperator)
        ELSE IF o.warning = <<>> THEN
            TargetOf(NewOperator(pass, TRUE), NoOperator)
        ELSE IF BadInterval \in {CreateInterval(warn), CreateInterval(pass)} THEN
            Failed
        ELSE IF (Len(pass) = 1 /\ Len(warn) = 1) \/ IsSuperInterval(warn, pass) THEN
            TargetOf(NewOperator(warn, TRUE), NewOperator(pass, TRUE))
        ELSE IF IsSuperInterval(pass, warn) THEN
            TargetOf(NewOperator(pass, TRUE), NewOperator(warn, FALSE))
        ELSE Converted(NoOperator, NoOperator)

\* convertSLO, for one objective.
ConvertSLO(o) ==
    SetupTarget([pass |-> CleanupCriteria(o.pass), warning |-> CleanupCriteria(o.warning)])

-----------------------------------------------------------------------------
Pending == [err |-> TRUE, target |-> [failure |-> BadOperator, warning |-> BadOperator]]

InitObjective == slo \in Objective /\ result = Pending

\* The conversion of an SLO file, here of one objective.
Convert ==
    /\ result = Pending
    /\ result' = ConvertSLO(slo)
    /\ UNCHANGED slo

ConverterSpec == InitObjective /\ [][Convert]_<<slo, result>>

-----------------------------------------------------------------------------
\* Keptn v1: what a rule, a list of criteria and an objective say of a value.
Holds(val, r) ==
    CASE r.op = "<=" -> val <= r.val [] r.op = "<" -> val < r.val
      [] r.op = ">=" -> val >= r.val [] r.op = ">" -> val > r.val

Met(val, criteria) ==
    \E i \in DOMAIN criteria : \A j \in DOMAIN criteria[i] : Holds(val, criteria[i][j])

OriginalResult(val, o) ==
    IF Met(val, o.pass) THEN "pass" ELSE IF Met(val, o.warning) THEN "warning" ELSE "fail"

Rank(verdict) == CASE verdict = "fail" -> 0 [] verdict = "warning" -> 1 [] verdict = "pass" -> 2

\* Some value, and not every value, meets the criteria.
Meaningful(criteria) ==
    /\ \E val \in MeasuredValues : Met(val, criteria)
    /\ \E val \in MeasuredValues : ~Met(val, criteria)

\* A range of the converted target includes its bounds, whatever the rules say of them.
OnBound(val, t) ==
    \E o \in {t.failure, t.warning} : o.op \in {"inRange", "notInRange"} /\ val \in {o.low, o.high}

\* Whatever passes as well gets a warning, if not more.
WarningContainsPass(o) ==
    \A val \in MeasuredValues : Met(val, o.pass) => Met(val, o.warning)

(***************************************************************************)
(* An objective whose criteria mean something, and that is converted to a  *)
(* target which the validating webhook accepts and that is not empty       *)
(* (setupTarget), judges a value never better after the migration than     *)
(* Keptn v1 did, and as Keptn v1 did if it has a single pass criterion and *)
(* no warning, or a warning that contains the pass criterion.              *)
(***************************************************************************)
MigratedVerdict ==
    LET o == [pass |-> CleanupCriteria(slo.pass), warning |-> CleanupCriteria(slo.warning)]
        t == result.target
    IN  /\ ~result.err
        /\ t \in Targets \ {NoTarget}
        /\ Meaningful(o.pass)
        /\ o.warning # <<>> => Meaningful(o.warning)
        => \A val \in MeasuredValues :
              ~OnBound(val, t) =>
                 /\ Rank(TargetResult(val, t)) <= Rank(OriginalResult(val, o))
                 /\ Len(o.pass) = 1 /\ (o.warning = <<>> \/ WarningContainsPass(o)) =>
                       TargetResult(val, t) = OriginalResult(val, o)
=============================================================================
