-------------------------- MODULE MCWorkloadVersion --------------------------
(***************************************************************************)
(* Instances of WorkloadVersion for TLC: which check belongs to which      *)
(* phase.                                                                  *)
(***************************************************************************)
EXTENDS WorkloadVersion, TLC

CONSTANTS c1, c2, c3

\* Two checks that are reconciled in one loop before, and one after the deployment.
TwoAndPost == c1 :> PreDeploymentEvaluations @@ c2 :> PreDeploymentEvaluations
              @@ c3 :> PostDeploymentTasks

\* A single check.
OnlyFirst == c1 :> PreDeploymentTasks

\* What the specs list: all checks, or all but the first.
WithAndWithoutFirst == {Checks, Checks \ {c1}}

\* Any two of a failed call, a restart, a spec update and a lost result.
TwoDisturbances == faults + crashes + touches + losses <= 2
=============================================================================
