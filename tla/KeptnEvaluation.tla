--------------------------- MODULE KeptnEvaluation ---------------------------
(***************************************************************************)
(* One KeptnEvaluation and the controller that attempts it until all       *)
(* objectives of its definition are met or its retries are used up         *)
(* (controllers/lifecycle/keptnevaluation).                                *)
(*                                                                         *)
(* The number of attempts and the objectives already met live in the       *)
(* status only.  It is written once per attempt, from a copy that may be   *)
(* stale, so an attempt can be lost; an error of the API server is         *)
(* sometimes retried and sometimes dropped.                                *)
(***************************************************************************)
EXTENDS KeptnState, Integers

CONSTANTS
    N,             \* number of objectives of the definition, in its order
    Metrics,       \* the KeptnMetrics
    MetricOf,      \* the metric each objective is about
    Retries,       \* spec.retries
    MaxFaults,     \* bound: API calls that fail without a conflict
    MaxCrashes,    \* bound: restarts of the operator
    MaxStale       \* bound: reads served before the cache has caught up

Objectives == 1..N

ASSUME EvaluationAssumption ==
    /\ N \in Nat
    /\ MetricOf \in [Objectives -> Metrics]
    /\ Retries \in Nat \ {0}
    /\ MaxFaults \in Nat
    /\ MaxCrashes \in Nat
    /\ MaxStale \in Nat

VARIABLES
    obj,        \* the KeptnEvaluation in the API server
    cache,      \* the informer's copy of it
    queued,     \* its key is in the work queue, or a retry is scheduled
    pc,         \* what the running reconciliation does next, or "idle"
    local,      \* its in-memory copy
    fresh,      \* ... which has the resourceVersion of obj
    next,       \* the next objective of the attempt
    newStatus,  \* the status map the attempt builds
    seen,       \* the state it counted for each objective
    defined,    \* the KeptnEvaluationDefinition exists
    met,        \* history: the objectives whose target some attempt saw met
    attempts,   \* history: attempts made
    dropped,    \* history: an error was dropped since the operator started
    faults, crashes, stale

attempt == <<next, newStatus, seen>>
history == <<met, attempts>>
bounds  == <<crashes, stale>>
vars    == <<obj, cache, queued, pc, local, fresh, attempt, defined, history,
             dropped, faults, crashes, stale>>

\* A metric without an entry in the status map is Pending (AddEvaluationStatus).
NoStatus == [m \in Metrics |-> StatePending]

NewEvaluation ==
    [retryCount |-> 0, evaluationStatus |-> NoStatus, overallStatus |-> StatePending,
     endTime |-> FALSE]

ObjectiveStates == {StatePending, StateSucceeded, StateFailed}

Evaluations ==
    [retryCount       : 0..Retries,
     evaluationStatus : [Metrics -> ObjectiveStates],
     overallStatus    : {StatePending, StateProgressing, StateSucceeded, StateFailed},
     endTime          : BOOLEAN]

Decided == obj.overallStatus \in {StateSucceeded, StateFailed}

-----------------------------------------------------------------------------
\* Status().Update: refused on a conflict; it may also fail although it was
\* not, or was, applied.
Update(new, accepted) ==
    \/ /\ accepted
       /\ fresh
       /\ obj' = new
       /\ UNCHANGED faults
    \/ /\ ~accepted
       /\ ~fresh
       /\ UNCHANGED <<obj, faults>>
    \/ /\ ~accepted
       /\ fresh
       /\ faults < MaxFaults
       /\ faults' = faults + 1
       /\ obj' \in {obj, new}

Return(requeue) ==
    /\ pc' = "idle"
    /\ queued' = (queued \/ requeue)
    /\ local' = NewEvaluation
    /\ fresh' = FALSE
    /\ next' = 1
    /\ newStatus' = NoStatus
    /\ seen' = [i \in Objectives |-> StatePending]

\* Status updates do not trigger the controller (GenerationChangedPredicate).
Sync ==
    /\ cache # obj
    /\ cache' = obj
    /\ UNCHANGED <<obj, queued, pc, local, fresh, attempt, defined, history, dropped,
                   faults, crashes, stale>>

-----------------------------------------------------------------------------
ExceededEarly(item) == item.retryCount + 1 >= Retries

ExceededRetries(item) == item.retryCount >= Retries

\* A read that is up to date costs nothing, an older one is counted.
Read(upToDate) ==
    \/ upToDate /\ UNCHANGED stale
    \/ ~upToDate /\ stale < MaxStale /\ stale' = stale + 1

\* Reconcile: the retries are looked at first, whatever the result so far.
Reconcile ==
    /\ pc = "idle"
    /\ queued
    /\ Read(cache = obj)
    /\ queued' = FALSE
    /\ local' = cache
    /\ fresh' = (cache = obj)
    /\ pc' = CASE ExceededRetries(cache)               -> "exceeded"
               [] ~ExceededRetries(cache)
                    /\ IsSucceeded(cache.overallStatus)  -> "finish"
               [] OTHER                                  -> "definition"
    /\ UNCHANGED <<obj, cache, attempt, defined, history, dropped, faults, crashes>>

\* The evaluation cannot be read: the error is dropped.
GetFails ==
    /\ pc = "idle"
    /\ queued
    /\ faults < MaxFaults
    /\ faults' = faults + 1
    /\ queued' = FALSE
    /\ dropped' = TRUE
    /\ UNCHANGED <<obj, cache, pc, local, fresh, attempt, defined, history, bounds>>

\* handleEvaluationExceededRetries: an error of the write is only logged.
HandleEvaluationExceededRetries ==
    /\ pc = "exceeded"
    /\ \E accepted \in BOOLEAN :
        /\ Update([local EXCEPT !.overallStatus = StateFailed, !.endTime = TRUE], accepted)
        /\ dropped' = (dropped \/ ~accepted)
    /\ Return(FALSE)
    /\ UNCHANGED <<cache, defined, history, bounds>>

\* GetEvaluationDefinition: a missing definition is looked for again, any
\* other error is dropped.
GetEvaluationDefinition ==
    /\ pc = "definition"
    /\ \/ /\ defined
          /\ pc' = "objectives"
          /\ UNCHANGED <<queued, local, fresh, attempt, dropped, faults>>
       \/ /\ ~defined
          /\ Return(TRUE)
          /\ UNCHANGED <<dropped, faults>>
       \/ /\ faults < MaxFaults
          /\ faults' = faults + 1
          /\ dropped' = TRUE
          /\ Return(FALSE)
    /\ UNCHANGED <<obj, cache, defined, history, bounds>>

\* An objective is not evaluated again once the status of its metric is
\* Succeeded.
KnownMet(i) == local.evaluationStatus[MetricOf[i]] = StateSucceeded

\* evaluateObjective.  The metric's value, or the error of reading it, is
\* the environment's choice.
EvaluateObjective ==
    /\ pc = "objectives"
    /\ next \in Objectives
    /\ \E state \in {StateSucceeded, StateFailed} :
        /\ KnownMet(next) => state = StateSucceeded
        /\ seen' = [seen EXCEPT ![next] = state]
        /\ newStatus' = [newStatus EXCEPT ![MetricOf[next]] = state]
        /\ met' = IF state = StateSucceeded /\ ~KnownMet(next) THEN met \cup {next} ELSE met
    /\ next' = next + 1
    /\ UNCHANGED <<obj, cache, queued, pc, local, fresh, defined, attempts,
                   dropped, faults, bounds>>

OverallOf(counted) ==
    IF GetOverallState(UpdateStatusSummary(Objectives, counted)) = StateSucceeded
    THEN StateSucceeded
    ELSE StateProgressing

LastObjectiveDecides(item) ==
    [item EXCEPT !.retryCount = @ + 1,
                 !.evaluationStatus = newStatus,
                 !.overallStatus = IF seen[N] = StateSucceeded THEN StateSucceeded
                                                               ELSE StateProgressing]

\* The end of performEvaluation.
PerformedEvaluation(item) ==
    [item EXCEPT !.retryCount = @ + 1,
                 !.evaluationStatus = newStatus,
                 !.overallStatus = OverallOf(seen)]

CompleteAttempt ==
    /\ pc = "objectives"
    /\ next = N + 1
    /\ local' = PerformedEvaluation(local)
    /\ pc' = IF IsSucceeded(local'.overallStatus) THEN "finish" ELSE "incomplete"
    /\ attempts' = attempts + 1
    /\ UNCHANGED <<obj, cache, queued, fresh, attempt, defined, met, dropped,
                   faults, bounds>>

\* Mutant: an incomplete evaluation is not attempted again.
HandleIncompleteOnce ==
    /\ pc = "incomplete"
    /\ \E accepted \in BOOLEAN : Update(local, accepted) /\ Return(~accepted)
    /\ UNCHANGED <<cache, defined, history, dropped, bounds>>

\* handleEvaluationIncomplete: attempted again after the retry interval.
HandleEvaluationIncomplete ==
    /\ pc = "incomplete"
    /\ \E accepted \in BOOLEAN : Update(local, accepted)
    /\ Return(TRUE)
    /\ UNCHANGED <<cache, defined, history, dropped, bounds>>

\* updateFinishedEvaluationMetrics
UpdateFinishedEvaluation ==
    /\ pc = "finish"
    /\ \E accepted \in BOOLEAN :
        /\ Update([local EXCEPT !.endTime = TRUE], accepted)
        /\ Return(~accepted)
    /\ UNCHANGED <<cache, defined, history, dropped, bounds>>

\* A restarted operator lists all objects anew and queues them.
Crash ==
    /\ crashes < MaxCrashes
    /\ crashes' = crashes + 1
    /\ Return(TRUE)
    /\ cache' = obj
    /\ dropped' = FALSE
    /\ UNCHANGED <<obj, defined, history, faults, stale>>

Define ==
    /\ ~defined
    /\ defined' = TRUE
    /\ UNCHANGED <<obj, cache, queued, pc, local, fresh, attempt, history, dropped,
                   faults, bounds>>

-----------------------------------------------------------------------------
Init ==
    /\ obj = NewEvaluation
    /\ cache = NewEvaluation
    /\ queued = TRUE
    /\ pc = "idle"
    /\ local = NewEvaluation
    /\ fresh = FALSE
    /\ next = 1
    /\ newStatus = NoStatus
    /\ seen = [i \in Objectives |-> StatePending]
    /\ defined \in BOOLEAN
    /\ met = {}
    /\ attempts = 0
    /\ dropped = FALSE
    /\ faults = 0
    /\ crashes = 0
    /\ stale = 0

Controller ==
    \/ Reconcile
    \/ HandleEvaluationExceededRetries
    \/ GetEvaluationDefinition
    \/ EvaluateObjective
    \/ CompleteAttempt
    \/ HandleEvaluationIncomplete
    \/ UpdateFinishedEvaluation

Next == Controller \/ Sync \/ GetFails \/ Crash \/ Define

Spec == Init /\ [][Next]_vars

\* The work queue serves every queued key and the informer delivers every
\* event.
FairSpec == Spec /\ WF_vars(Controller) /\ WF_vars(Sync)
-----------------------------------------------------------------------------
\* The type invariant; the retries bound what is ever recorded.
TypeOK ==
    /\ obj \in Evaluations
    /\ cache \in Evaluations
    /\ local \in Evaluations
    /\ queued \in BOOLEAN
    /\ pc \in {"idle", "exceeded", "definition", "objectives", "incomplete", "finish"}
    /\ fresh \in BOOLEAN
    /\ next \in 1..(N + 1)
    /\ newStatus \in [Metrics -> ObjectiveStates]
    /\ seen \in [Objectives -> ObjectiveStates]
    /\ defined \in BOOLEAN
    /\ met \subseteq Objectives
    /\ attempts \in Nat
    /\ dropped \in BOOLEAN
    /\ faults \in 0..MaxFaults
    /\ crashes \in 0..MaxCrashes
    /\ stale \in 0..MaxStale

\* keptnevaluationdefinition_types.go: "Objectives is a list of objectives
\* that have to be met for a KeptnEvaluation ... to be successful".  They need
\* not be met in the same attempt.
SucceededOnlyIfMet ==
    obj.overallStatus = StateSucceeded => met = Objectives

\* An evaluation is given up only when every retry was really used, however
\* many attempts were lost on the way.
FailedOnlyAfterRetries ==
    obj.overallStatus = StateFailed => obj.retryCount = Retries /\ attempts >= Retries

\* An evaluation whose definition exists is decided, unless the error of a
\* read, or of the write that gives it up, was dropped since the operator
\* started: Reconcile then returns without a requeue and nothing else queues
\* the evaluation.
DecidesUnlessDropped == defined ~> (Decided \/ dropped)
=============================================================================
