-------------------------- MODULE MCKeptnEvaluation --------------------------
(***************************************************************************)
(* Two objectives, about two metrics or about the same one.                *)
(***************************************************************************)
EXTENDS KeptnEvaluation

CONSTANTS m1, m2

OwnMetrics == <<m1, m2>>

SameMetric == <<m1, m1>>
=============================================================================
