------------------------------ MODULE PhaseItem ------------------------------
(***************************************************************************)
(* What the phase handler (controllers/common/phase/handler.go) does to a  *)
(* phase item (a workload version or an app version), as operators on the  *)
(* in-memory copy of the item.  An item is a record with the fields        *)
(*   status, currentPhase, endTime   the overall state, the phase it is in *)
(*                                   and whether its end time is set;      *)
(*   phaseStatus                     the state of each phase.              *)
(* The phases of an item are numbered in the order in which the controller *)
(* handles them; 0 is the empty current phase of an item not yet begun.    *)
(***************************************************************************)
EXTENDS KeptnState

NoPhase == 0

\* IsPreDeploymentSucceeded and its siblings: with blocking off a Warning
\* lets the item go on.
IsPhaseSucceeded(state, isBlocking) ==
    \/ state = StateSucceeded
    \/ ~isBlocking /\ state = StateWarning

\* Neither a failed nor a deprecated item is driven any further.
ShouldAbortPhase(item) == item.status \in {StateDeprecated, StateFailed}

\* Mutant: the phase right after the failed one is left as it was.
DeprecateAllButNext(item, phase) ==
    [item EXCEPT
        !.phaseStatus = [p \in DOMAIN item.phaseStatus |->
                            IF p > phase + 1 THEN StateDeprecated
                                             ELSE item.phaseStatus[p]],
        !.status = StateFailed]

\* Every phase after `phase` will not be run any more.
DeprecateRemainingPhases(item, phase) ==
    [item EXCEPT
        !.phaseStatus = [p \in DOMAIN item.phaseStatus |->
                            IF p > phase THEN StateDeprecated
                                         ELSE item.phaseStatus[p]],
        !.status = StateFailed]

\* The item after reconcilePhase returned `state`: a failure ends it, a
\* success leaves the overall status alone (the next phase continues),
\* anything else is Progressing.
AfterPhase(item, phase, state) ==
    IF state = StateFailed
    THEN DeprecateRemainingPhases([item EXCEPT !.endTime = TRUE], phase)
    ELSE IF IsCompleted(state) THEN item
    ELSE [item EXCEPT !.status = StateProgressing]

\* Mutant: only a failed phase stops the item.
ContinuesUnlessFailed(state) == state # StateFailed

\* The controller goes on to the next phase in the same reconciliation.
Continues(state) == IsCompleted(state) /\ state # StateFailed

\* Mutant: a phase that is still pending is not looked at again.
RequeuesProgressing(state) == state = StateProgressing

\* The phase handler asks to be called again in 5 seconds.
Requeues(state) == ~IsCompleted(state)
=============================================================================
