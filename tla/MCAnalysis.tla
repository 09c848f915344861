----------------------------- MODULE MCAnalysis -----------------------------
(* Instances of Analysis for TLC. *)
EXTENDS Analysis, TLC

CONSTANTS t1, t2, t3, p1, p2

Compare(op) == [op |-> op, low |-> 1, high |-> 1]

\* A value of 1 passes one target and is a warning to the other.
Pass1 == [failure |-> Compare("greaterThan"), warning |-> NoOperator]
Warn1 == [failure |-> Compare("greaterThan"), warning |-> Compare("equalTo")]

Obj(t, target, key) == [template |-> t, target |-> target, weight |-> 1, key |-> key]

\* Three templates of two providers, two of them with the same key; then the
\* definition is edited.
EditedDefinition ==
    << <<Obj(t1, Pass1, FALSE), Obj(t2, Pass1, TRUE), Obj(t3, Warn1, FALSE)>>,
       <<Obj(t2, Pass1, FALSE)>> >>

TwoProviders == (t1 :> p1) @@ (t2 :> p2) @@ (t3 :> p1)

\* The keys are the templates that give them.
SameKey == (t1 :> t1) @@ (t2 :> t2) @@ (t3 :> t1)

Thresholds == [pass |-> 90, warning |-> 50]

ThreeTemplates == {t1, t2, t3}
=============================================================================
