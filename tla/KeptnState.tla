----------------------------- MODULE KeptnState -----------------------------
(***************************************************************************)
(* The states of everything the lifecycle operator drives (a task, an      *)
(* evaluation, one phase, a whole version), and how the states of the      *)
(* items of one phase are folded into the state of that phase              *)
(* (apis/lifecycle/v1/common/common.go).                                   *)
(***************************************************************************)
EXTENDS Naturals, FiniteSets

StateProgressing == "Progressing"
StateSucceeded   == "Succeeded"
StateFailed      == "Failed"
StateUnknown     == "Unknown"
StatePending     == "Pending"
StateDeprecated  == "Deprecated"
StateWarning     == "Warning"

\* The Go zero value "" of a state that was never written is treated like
\* Pending by every function below; the two are one state here.
KeptnStates == {StateProgressing, StateSucceeded, StateFailed, StateUnknown,
                StatePending, StateDeprecated, StateWarning}

IsCompleted(k) ==
    k \in {StateSucceeded, StateFailed, StateDeprecated, StateWarning}

IsSucceeded(k) == k = StateSucceeded

-----------------------------------------------------------------------------
(***************************************************************************)
(* A StatusSummary counts the items of a phase by state.  `total` is the   *)
(* number of items the spec asks for; an item that could not be created    *)
(* is missing from the list of statuses: st[i] is then Unlisted and only   *)
(* `total` knows of it.  A Warning is counted nowhere.                     *)
(***************************************************************************)
Unlisted == "Unlisted"

CountIn(items, st, k) == Cardinality({i \in items : st[i] = k})

UpdateStatusSummary(items, st) ==
    [total       |-> Cardinality(items),
     progressing |-> CountIn(items, st, StateProgressing),
     failed      |-> CountIn(items, st, StateFailed),
     succeeded   |-> CountIn(items, st, StateSucceeded),
     pending     |-> CountIn(items, st, StatePending),
     unknown     |-> CountIn(items, st, StateUnknown),
     deprecated  |-> CountIn(items, st, StateDeprecated)]

GetTotalCount(s) ==
    s.failed + s.succeeded + s.progressing + s.pending + s.unknown + s.deprecated

\* Mutant: only the checks that are listed count, not how many there should be.
OverallStateOfListed(s) ==
    IF s.failed > 0 \/ s.deprecated > 0 THEN StateFailed
    ELSE IF s.progressing > 0 THEN StateProgressing
    ELSE IF s.pending > 0 THEN StatePending
    ELSE IF s.unknown > 0 THEN StateUnknown
    ELSE StateSucceeded

GetOverallState(s) ==
    IF s.failed > 0 \/ s.deprecated > 0 THEN StateFailed
    ELSE IF s.progressing > 0 THEN StateProgressing
    ELSE IF s.pending > 0 THEN StatePending
    ELSE IF s.unknown > 0 THEN StateUnknown
    ELSE IF GetTotalCount(s) # s.total THEN StatePending
    ELSE StateSucceeded

\* With blockDeployment off a failed phase is only a Warning.
GetOverallStateBlockedDeployment(s, blockedDeployment) ==
    IF ~blockedDeployment /\ GetOverallState(s) = StateFailed
    THEN StateWarning
    ELSE GetOverallState(s)
=============================================================================
