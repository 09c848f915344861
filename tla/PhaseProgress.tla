---------------------------- MODULE PhaseProgress ----------------------------
(***************************************************************************)
(* What the operator promises about a deployable item, whatever crashes,   *)
(* is retried, is read late or is written twice: its phases are passed one *)
(* by one and never taken back, it ends once, as succeeded after the last  *)
(* phase or as failed before, and the gate of its pod opens when the       *)
(* phases before the deployment are passed.  The gate opens as well when   *)
(* the item has failed, a step that the documentation does not allow.      *)
(***************************************************************************)
EXTENDS Naturals

CONSTANTS
    N,            \* the number of phases
    Deploy        \* the phase in which the pod is started

VARIABLES
    passed,    \* how many phases are passed
    outcome,   \* of the item
    open       \* the gate

progress == <<passed, outcome, open>>

Init == passed = 0 /\ outcome = "running" /\ open = FALSE

Pass ==
    /\ outcome = "running"
    /\ passed < N
    /\ passed' = passed + 1
    /\ UNCHANGED <<outcome, open>>

Fail ==
    /\ outcome = "running"
    /\ passed < N
    /\ outcome' = "failed"
    /\ UNCHANGED <<passed, open>>

Succeed ==
    /\ outcome = "running"
    /\ passed = N
    /\ outcome' = "succeeded"
    /\ UNCHANGED <<passed, open>>

Open ==
    /\ ~open
    /\ passed >= Deploy - 1
    /\ open' = TRUE
    /\ UNCHANGED <<passed, outcome>>

\* "If the pre-deployment checks have not yet finished successfully, the gate
\* stays" (docs/docs/components/scheduling.md); the code opens it.
OpenAfterFailure ==
    /\ ~open
    /\ outcome = "failed"
    /\ open' = TRUE
    /\ UNCHANGED <<passed, outcome>>

Next == Pass \/ Fail \/ Succeed \/ Open \/ OpenAfterFailure

Spec == Init /\ [][Next]_progress
=============================================================================
