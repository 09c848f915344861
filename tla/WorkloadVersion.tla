--------------------------- MODULE WorkloadVersion ---------------------------
(***************************************************************************)
(* One KeptnWorkloadVersion: the controller that drives it through its     *)
(* five phases, and the controller that removes the scheduling gate of its *)
(* pod.                                                                    *)
(*                                                                         *)
(* The controller keeps no memory between two reconciliations: it reads    *)
(* the object from the informer cache, which may lag behind the API        *)
(* server, works on that copy, and writes the status back several times in *)
(* one reconciliation.  A write is refused when somebody else wrote the    *)
(* object since it was read.  Between any two API calls the operator may   *)
(* crash, the object may be written by the KeptnWorkload controller and    *)
(* the tasks, the evaluations and the pod make progress.                   *)
(***************************************************************************)
EXTENDS PhaseItem, Integers

CONSTANTS
    Checks,          \* the tasks and evaluations a spec may list
    CheckPhase,      \* the phase each of them belongs to
    Specs,           \* the sets of them that the specs of the workload list
    MaxCopies,       \* bound: objects ever created for one check
    MaxFaults,       \* bound: API calls that fail without a conflict
    MaxCrashes,      \* bound: restarts of the operator
    MaxTouches,      \* bound: spec updates by the KeptnWorkload controller
    MaxLosses,       \* bound: results of tasks or evaluations that are lost
    StaleReads,      \* TRUE: reads may be served before the cache caught up
    ConfigMayChange  \* TRUE: blockDeployment may be switched at run time

PreDeploymentTasks        == 1
PreDeploymentEvaluations  == 2
Deployment                == 3
PostDeploymentTasks       == 4
PostDeploymentEvaluations == 5
Completed                 == 6

Phases      == 1..5
CheckPhases == Phases \ {Deployment}
Copies      == 1..MaxCopies

ASSUME CheckAssumption ==
    /\ IsFiniteSet(Checks)
    /\ CheckPhase \in [Checks -> CheckPhases]
    /\ Specs \subseteq SUBSET Checks

ASSUME BoundAssumption ==
    /\ MaxCopies \in Nat \ {0}
    /\ MaxFaults \in Nat
    /\ MaxCrashes \in Nat
    /\ MaxTouches \in Nat
    /\ MaxLosses \in Nat
    /\ StaleReads \in BOOLEAN
    /\ ConfigMayChange \in BOOLEAN

\* The checks the spec of an item lists for phase p.
ChecksOf(item, p) == {c \in item.spec : CheckPhase[c] = p}

VARIABLES
    obj,       \* the KeptnWorkloadVersion in the API server
    cache,     \* the informer's copy of it
    queued,    \* the object's key is in the controller's work queue
    pc,        \* what the running reconciliation does next, or "idle"
    local,     \* its in-memory copy of the object
    fresh,     \* ... which has the resourceVersion of obj
    ph,        \* the phase it is at
    oldPhase,  \* the current phase when that phase was entered
    todo,      \* the checks of that phase it has not looked at yet
    block,     \* KeptnConfig.spec.blockDeployment
    appPreEval,\* state of the pre-deployment evaluations of the app version
    items,     \* the KeptnTask and KeptnEvaluation objects
    running,   \* all replicas of the workload's resource are available
    late,      \* the observability timeout of the deployment has expired
    pod,       \* the pod's scheduling gate
    overlooked,\* history: checks that came into the spec after their phase
               \* had succeeded
    faults, crashes, touches, losses     \* how much of each bound is used

reconciler == <<queued, pc, local, fresh, ph, oldPhase, todo>>
world      == <<block, appPreEval, running, late, pod, overlooked>>
used       == <<faults, crashes, touches, losses>>
vars       == <<obj, cache, reconciler, items, world, used>>

-----------------------------------------------------------------------------
(***************************************************************************)
(* The object.  An entry of checkStatus is the ItemStatus of a check:      *)
(* whether it is listed, the object created for it (0: none) and the state *)
(* last seen.                                                              *)
(***************************************************************************)
\* GetItemStatus: what a check not in the status list is taken for.
NoItemStatus == [listed |-> FALSE, name |-> 0, status |-> StatePending]

ItemStatus == [listed : BOOLEAN, name : 0..MaxCopies, status : KeptnStates]

NewWorkloadVersion ==
    [generation          |-> 0,
     spec                |-> {},
     appContextMetadata  |-> FALSE,
     traceId             |-> FALSE,
     status              |-> StatePending,
     currentPhase        |-> NoPhase,
     phaseStatus         |-> [p \in Phases |-> StatePending],
     checkStatus         |-> [c \in Checks |-> NoItemStatus],
     deploymentStartTime |-> FALSE,
     endTime             |-> FALSE]

WorkloadVersions ==
    [generation          : 0..(MaxTouches + 1),
     spec                : SUBSET Checks,
     appContextMetadata  : BOOLEAN,
     traceId             : BOOLEAN,
     status              : KeptnStates,
     currentPhase        : 0..6,
     phaseStatus         : [Phases -> KeptnStates],
     checkStatus         : [Checks -> ItemStatus],
     deploymentStartTime : BOOLEAN,
     endTime             : BOOLEAN]

\* A deployment has no Warning: IsDeploymentSucceeded ignores blocking.
Succeeded(item, p) ==
    IsPhaseSucceeded(item.phaseStatus[p], block \/ p = Deployment)

-----------------------------------------------------------------------------
(***************************************************************************)
(* The API server.  A write of the local copy is refused on a conflict; it *)
(* may also fail although it was not, or was, applied.                     *)
(***************************************************************************)
\* Mutant: no optimistic locking, the last writer wins.
UpdateIgnoringConflicts(new, accepted) ==
    /\ accepted
    /\ obj' = new
    /\ fresh' = TRUE
    /\ UNCHANGED faults

Update(new, accepted) ==
    \/ /\ accepted
       /\ fresh
       /\ obj' = new
       /\ UNCHANGED <<fresh, faults>>
    \/ /\ ~accepted
       /\ ~fresh
       /\ UNCHANGED <<obj, fresh, faults>>
    \/ /\ ~accepted
       /\ fresh
       /\ faults < MaxFaults
       /\ faults' = faults + 1
       /\ \/ UNCHANGED <<obj, fresh>>
          \/ /\ obj' = new
             /\ fresh' = (new = obj)

\* The reconciliation returns; what is requeued is reconciled again later.
Return(requeue) ==
    /\ pc' = "idle"
    /\ queued' = (queued \/ requeue)
    /\ local' = NewWorkloadVersion
    /\ ph' = PreDeploymentTasks
    /\ oldPhase' = NoPhase
    /\ todo' = {}

Goto(label) ==
    /\ pc' = label
    /\ UNCHANGED <<queued, ph, oldPhase, todo>>

\* The informer delivers the latest object.  Only a changed generation puts
\* the key into the queue (GenerationChangedPredicate).
Sync ==
    /\ cache # obj
    /\ cache' = obj
    /\ queued' = (queued \/ cache.generation # obj.generation)
    /\ UNCHANGED <<obj, pc, local, fresh, ph, oldPhase, todo, items, world, used>>

-----------------------------------------------------------------------------
(***************************************************************************)
(* The KeptnWorkloadVersion controller.                                    *)
(***************************************************************************)
\* Reconcile: the object is read from the cache.
StartReconcile ==
    /\ pc = "idle"
    /\ queued
    /\ StaleReads \/ cache = obj
    /\ pc' = "checkApp"
    /\ queued' = FALSE
    /\ local' = cache
    /\ fresh' = (cache = obj)
    /\ UNCHANGED <<obj, cache, ph, oldPhase, todo, items, world, used>>

\* Only a workload version that has not begun looks at its app version.
CheckPreEvaluationStatusOfApp ==
    /\ pc = "checkApp"
    /\ \/ /\ local.currentPhase # NoPhase
          /\ Goto("phase")
          /\ UNCHANGED local
       \/ /\ local.currentPhase = NoPhase
          /\ IsSucceeded(appPreEval)
          /\ Goto("setMetadata")
          /\ UNCHANGED local
       \/ /\ local.currentPhase = NoPhase
          /\ ~IsSucceeded(appPreEval)
          /\ Return(TRUE)
    /\ UNCHANGED <<obj, cache, fresh, items, world, used>>

\* A write that must succeed for the reconciliation to go on at `label`.
WriteOrReturn(new, label) ==
    /\ \/ /\ Update(new, TRUE)
          /\ local' = new
          /\ Goto(label)
       \/ /\ Update(new, FALSE)
          /\ Return(TRUE)
    /\ UNCHANGED <<cache, items, world, crashes, touches, losses>>

\* The same, for a field that may be set already.
SetOnce(isSet, new, label) ==
    IF isSet
    THEN /\ Goto(label)
         /\ UNCHANGED <<obj, cache, local, fresh, items, world, used>>
    ELSE WriteOrReturn(new, label)

SetAppContextMetadata ==
    /\ pc = "setMetadata"
    /\ SetOnce(local.appContextMetadata,
               [local EXCEPT !.appContextMetadata = TRUE], "setTraceId")

\* Mutant: the trace id is written although it is set.
SetTraceIdAgain ==
    /\ pc = "setTraceId"
    /\ WriteOrReturn([local EXCEPT !.traceId = TRUE, !.generation = @ + 1], "phase")

\* The trace id is part of the spec: writing it is a new generation.
SetTraceId ==
    /\ pc = "setTraceId"
    /\ SetOnce(local.traceId,
               [local EXCEPT !.traceId = TRUE, !.generation = @ + 1], "phase")

\* HandlePhase is called for the first phase from ph on that has not
\* succeeded; a failed or deprecated item is left alone.
EnterPhase ==
    /\ pc = "phase"
    /\ \E p \in ph..PostDeploymentEvaluations :
        /\ ~Succeeded(local, p)
        /\ \A q \in ph..(p - 1) : Succeeded(local, q)
        /\ \/ /\ ShouldAbortPhase(local)
              /\ Return(FALSE)
           \/ /\ ~ShouldAbortPhase(local)
              /\ local' = [local EXCEPT !.currentPhase = p]
              /\ pc' = IF p = Deployment THEN "deployment" ELSE "checks"
              /\ ph' = p
              /\ oldPhase' = local.currentPhase
              /\ todo' = ChecksOf(local, p)
              /\ UNCHANGED queued
    /\ UNCHANGED <<obj, cache, fresh, items, world, used>>

AllPhasesSucceeded ==
    /\ pc = "phase"
    /\ \A p \in ph..PostDeploymentEvaluations : Succeeded(local, p)
    /\ Goto("finish")
    /\ UNCHANGED <<obj, cache, local, fresh, items, world, used>>

\* ReconcileTasks / ReconcileEvaluations, one check of the loop.
Exists(c, n)   == items[c][n].there \in {"new", "yes"}
Visible(c, n)  == items[c][n].there = "yes"
Unused(c, n)   == items[c][n].there = "no"

\* Mutant: a failed check is looked up again.
RetryFailedResult(status) == status = StateSucceeded

HasResult(status) == status \in {StateSucceeded, StateFailed}

\* The result of a completed check is kept for good.
KeepResult(c) ==
    /\ HasResult(local.checkStatus[c].status)
    /\ UNCHANGED <<local, items, faults>>

\* An object that is gone, or not in the cache yet, is forgotten: the next
\* reconciliation will create another one.
ReadItem(c) ==
    LET old == local.checkStatus[c]
    IN  /\ ~HasResult(old.status)
        /\ old.name # 0
        /\ local' = [local EXCEPT !.checkStatus[c] =
                        IF Visible(c, old.name)
                        THEN [old EXCEPT !.status = items[c][old.name].status]
                        ELSE [old EXCEPT !.name = 0, !.status = StatePending]]
        /\ UNCHANGED <<items, faults>>

\* The next object of a check, under a fresh name.
IsNextCopy(c, n) == Unused(c, n) /\ \A m \in 1..(n - 1) : ~Unused(c, m)

WithCopy(c, n) ==
    [items EXCEPT ![c][n].there = IF StaleReads THEN "new" ELSE "yes"]

CreateItem(c) ==
    LET old == local.checkStatus[c]
    IN  /\ ~HasResult(old.status)
        /\ old.name = 0
        /\ \E n \in Copies :
            /\ IsNextCopy(c, n)
            /\ items' = WithCopy(c, n)
            /\ local' = [local EXCEPT !.checkStatus[c] =
                            [old EXCEPT !.listed = TRUE, !.name = n]]
        /\ UNCHANGED faults

\* A missing definition or a failed creation, which may have been carried out
\* all the same: the check drops out of the status list until the next
\* reconciliation.
CreateItemFails(c) ==
    LET old == local.checkStatus[c]
    IN  /\ ~HasResult(old.status)
        /\ old.name = 0
        /\ \/ /\ faults < MaxFaults
              /\ faults' = faults + 1
              /\ \/ UNCHANGED items
                 \/ \E n \in Copies : IsNextCopy(c, n) /\ items' = WithCopy(c, n)
           \/ /\ \A n \in Copies : ~Unused(c, n)
              /\ UNCHANGED <<items, faults>>
        /\ local' = [local EXCEPT !.checkStatus[c] = NoItemStatus]

ReconcileCheck(c) ==
    /\ pc = "checks"
    /\ c \in todo
    /\ KeepResult(c) \/ ReadItem(c) \/ CreateItem(c) \/ CreateItemFails(c)
    /\ todo' = todo \ {c}
    /\ UNCHANGED <<obj, cache, queued, pc, fresh, ph, oldPhase, world,
                   crashes, touches, losses>>

\* reconcilePrePostDeployment / reconcilePrePostEvaluation: the state of the
\* phase is computed from the list of statuses and written with it.
ListedStatus(item, c) ==
    IF item.checkStatus[c].listed THEN item.checkStatus[c].status ELSE Unlisted

PhaseStateOf(item, p) ==
    GetOverallStateBlockedDeployment(
        UpdateStatusSummary(ChecksOf(item, p),
                            [c \in ChecksOf(item, p) |-> ListedStatus(item, c)]),
        block)

\* The list is made anew from the spec: what the spec does not list any more is
\* not in it.
StatusList(item, p) ==
    [c \in Checks |-> IF CheckPhase[c] = p /\ c \notin item.spec
                      THEN NoItemStatus ELSE item.checkStatus[c]]

RecordChecks ==
    /\ pc = "checks"
    /\ todo = {}
    /\ WriteOrReturn([local EXCEPT !.phaseStatus[ph] = PhaseStateOf(local, ph),
                                   !.checkStatus = StatusList(local, ph)],
                     "complete")

\* reconcileDeployment
IsDeploymentTimedOut(item) == item.deploymentStartTime /\ late

DeploymentStateOf(item) ==
    IF IsDeploymentTimedOut(item) THEN StateFailed
    ELSE IF running THEN StateSucceeded
    ELSE IF ~item.deploymentStartTime THEN StateProgressing
    ELSE item.phaseStatus[Deployment]

ReconcileDeployment ==
    /\ pc = "deployment"
    /\ WriteOrReturn([local EXCEPT !.phaseStatus[Deployment] = DeploymentStateOf(local),
                                   !.deploymentStartTime = TRUE],
                     "complete")

\* The end of HandlePhase.  The deferred write of the overall status happens
\* only when status or phase changed, and its error is only logged: the
\* reconciliation goes on, or ends, as if the write had been done.
CompletePhase ==
    LET state == local.phaseStatus[ph]
        new   == AfterPhase(local, ph, state)
    IN  /\ pc = "complete"
        /\ IF new.status # local.status \/ new.currentPhase # oldPhase
           THEN \E accepted \in BOOLEAN : Update(new, accepted)
           ELSE UNCHANGED <<obj, fresh, faults>>
        /\ IF Continues(state)
           THEN /\ local' = new
                /\ pc' = "phase"
                /\ ph' = ph + 1
                /\ UNCHANGED <<queued, oldPhase, todo>>
           ELSE Return(Requeues(state))
        /\ UNCHANGED <<cache, items, world, crashes, touches, losses>>

\* finishKeptnWorkloadVersionReconcile
FinishedVersion(item) ==
    IF item.endTime THEN item
    ELSE [item EXCEPT !.currentPhase = Completed,
                      !.status = StateSucceeded,
                      !.endTime = TRUE]

FinishReconcile ==
    /\ pc = "finish"
    /\ \/ Update(FinishedVersion(local), TRUE) /\ Return(FALSE)
       \/ Update(FinishedVersion(local), FALSE) /\ Return(TRUE)
    /\ UNCHANGED <<cache, items, world, crashes, touches, losses>>

\* A read of the app versions, of a task or of the workload's resource fails:
\* the reconciliation returns the error.
ReadFails ==
    /\ \/ pc = "checkApp" /\ local.currentPhase = NoPhase
       \/ pc = "checks" /\ \E c \in todo :
            /\ local.checkStatus[c].name # 0
            /\ ~HasResult(local.checkStatus[c].status)
       \/ pc = "deployment" /\ ~IsDeploymentTimedOut(local)
    /\ faults < MaxFaults
    /\ faults' = faults + 1
    /\ Return(TRUE)
    /\ UNCHANGED <<obj, cache, fresh, items, world, crashes, touches, losses>>

\* A restarted operator lists all objects anew and queues them.
Crash ==
    /\ crashes < MaxCrashes
    /\ crashes' = crashes + 1
    /\ pc' = "idle"
    /\ queued' = TRUE
    /\ local' = NewWorkloadVersion
    /\ ph' = PreDeploymentTasks
    /\ oldPhase' = NoPhase
    /\ todo' = {}
    /\ cache' = obj
    /\ UNCHANGED <<obj, fresh, items, world, faults, touches, losses>>

-----------------------------------------------------------------------------
(***************************************************************************)
(* The scheduling gates controller: the pod is released as soon as the     *)
(* deployment phase of the (cached) workload version has begun or is over. *)
(***************************************************************************)
\* Mutants: the gate goes when the workload version progresses at all; only
\* when the deployment has succeeded.
GateMayGoEarly(item) == item.status # StatePending

GateMayGoLate(item) == item.phaseStatus[Deployment] = StateSucceeded

GateMayGo(item) ==
    \/ IsCompleted(item.phaseStatus[Deployment])
    \/ item.phaseStatus[Deployment] = StateProgressing

RemoveGate ==
    /\ pod = "gated"
    /\ StaleReads \/ cache = obj
    /\ GateMayGo(cache)
    /\ pod' = "released"
    /\ UNCHANGED <<obj, cache, reconciler, items, block, appPreEval, running,
                   late, overlooked, used>>

-----------------------------------------------------------------------------
(***************************************************************************)
(* The environment.                                                        *)
(***************************************************************************)
\* The KeptnWorkload controller replaces the spec, with its lists of checks.
TouchSpec(spec) ==
    /\ touches < MaxTouches
    /\ touches' = touches + 1
    /\ obj' = [obj EXCEPT !.generation = @ + 1, !.spec = spec]
    /\ fresh' = FALSE
    /\ overlooked' = overlooked \cup
            {c \in spec \ obj.spec : obj.phaseStatus[CheckPhase[c]] = StateSucceeded}
    /\ UNCHANGED <<cache, queued, pc, local, ph, oldPhase, todo, items, block,
                   appPreEval, running, late, pod, faults, crashes, losses>>

\* A task or evaluation, recorded or not, runs to a result.
ItemProgresses(c, n) ==
    /\ Exists(c, n)
    /\ \/ /\ items[c][n].there = "new"
          /\ items' = [items EXCEPT ![c][n].there = "yes"]
       \/ /\ items[c][n].there = "yes"
          /\ items[c][n].status \in {StatePending, StateProgressing}
          /\ \E s \in {StateProgressing, StateSucceeded, StateFailed} :
                /\ s # items[c][n].status
                /\ items' = [items EXCEPT ![c][n].status = s,
                                          ![c][n].succeeded = @ \/ s = StateSucceeded]
    /\ UNCHANGED <<obj, cache, reconciler, world, used>>

ItemDeleted(c, n) ==
    /\ losses < MaxLosses
    /\ Exists(c, n)
    /\ losses' = losses + 1
    /\ items' = [items EXCEPT ![c][n].there = "gone"]
    /\ UNCHANGED <<obj, cache, reconciler, world, faults, crashes, touches>>

\* A result does not stay: a completed task whose job was cleaned up is run
\* again when it is next reconciled, and an evaluation that succeeded with
\* its last attempt is failed when it is next reconciled.
ResultTakenBack(c, n) ==
    /\ losses < MaxLosses
    /\ items[c][n].there = "yes"
    /\ losses' = losses + 1
    /\ \/ /\ CheckPhase[c] \in {PreDeploymentTasks, PostDeploymentTasks}
          /\ HasResult(items[c][n].status)
          /\ items' = [items EXCEPT ![c][n].status = StateProgressing]
       \/ /\ CheckPhase[c] \in {PreDeploymentEvaluations, PostDeploymentEvaluations}
          /\ items[c][n].status = StateSucceeded
          /\ items' = [items EXCEPT ![c][n].status = StateFailed]
    /\ UNCHANGED <<obj, cache, reconciler, world, faults, crashes, touches>>

\* The app version ends its pre-deployment evaluations.
AppDecides ==
    /\ appPreEval = StatePending
    /\ appPreEval' \in {StateSucceeded, IF block THEN StateFailed ELSE StateWarning}
    /\ UNCHANGED <<obj, cache, reconciler, items, block, running, late, pod, overlooked, used>>

PodStarts ==
    /\ pod = "released"
    /\ ~running
    /\ running' = TRUE
    /\ UNCHANGED <<obj, cache, reconciler, items, block, appPreEval, late, pod, overlooked, used>>

DeadlinePasses ==
    /\ obj.deploymentStartTime
    /\ ~late
    /\ late' = TRUE
    /\ UNCHANGED <<obj, cache, reconciler, items, block, appPreEval, running, pod, overlooked, used>>

SwitchBlocking ==
    /\ ConfigMayChange
    /\ block' = ~block
    /\ UNCHANGED <<obj, cache, reconciler, items, appPreEval, running, late, pod, overlooked, used>>

-----------------------------------------------------------------------------
Init ==
    /\ obj \in {[NewWorkloadVersion EXCEPT !.spec = spec] : spec \in Specs}
    /\ cache = obj
    /\ queued = TRUE
    /\ pc = "idle"
    /\ local = NewWorkloadVersion
    /\ fresh = FALSE
    /\ ph = PreDeploymentTasks
    /\ oldPhase = NoPhase
    /\ todo = {}
    /\ block \in BOOLEAN
    /\ appPreEval = StatePending
    /\ items = [c \in Checks |->
                    [n \in Copies |-> [there |-> "no", status |-> StatePending,
                                      succeeded |-> FALSE]]]
    /\ running = FALSE
    /\ late = FALSE
    /\ pod = "gated"
    /\ overlooked = {}
    /\ faults = 0
    /\ crashes = 0
    /\ touches = 0
    /\ losses = 0

Controller ==
    \/ StartReconcile
    \/ CheckPreEvaluationStatusOfApp
    \/ SetAppContextMetadata
    \/ SetTraceId
    \/ EnterPhase
    \/ AllPhasesSucceeded
    \/ \E c \in Checks : ReconcileCheck(c)
    \/ RecordChecks
    \/ ReconcileDeployment
    \/ CompletePhase
    \/ FinishReconcile

Items == \E c \in Checks, n \in Copies : ItemProgresses(c, n)

Environment ==
    \/ ReadFails
    \/ Crash
    \/ \E spec \in Specs : TouchSpec(spec)
    \/ \E c \in Checks, n \in Copies : ItemDeleted(c, n)
    \/ \E c \in Checks, n \in Copies : ResultTakenBack(c, n)
    \/ AppDecides
    \/ PodStarts
    \/ DeadlinePasses
    \/ SwitchBlocking

Next == Controller \/ Sync \/ RemoveGate \/ Items \/ Environment

Spec == Init /\ [][Next]_vars

(***************************************************************************)
(* The work queue serves every queued key, the informer delivers every     *)
(* event, a pod with a gate is looked at every 10 seconds, tasks and       *)
(* evaluations end (a job has a deadline, an evaluation a bounded number   *)
(* of retries) and time passes.  Nothing is assumed of the pod.            *)
(***************************************************************************)
Fairness ==
    /\ WF_vars(Controller)
    /\ WF_vars(Sync)
    /\ WF_vars(RemoveGate)
    /\ \A c \in Checks, n \in Copies : WF_vars(ItemProgresses(c, n))
    /\ WF_vars(DeadlinePasses)

FairSpec == Spec /\ Fairness
-----------------------------------------------------------------------------
PCs == {"idle", "checkApp", "setMetadata", "setTraceId", "phase", "checks",
        "deployment", "complete", "finish"}

ItemObject == [there : {"no", "new", "yes", "gone"},
               status : {StatePending, StateProgressing, StateSucceeded, StateFailed},
               succeeded : BOOLEAN]

\* The type invariant.
TypeOK ==
    /\ obj \in WorkloadVersions
    /\ cache \in WorkloadVersions
    /\ queued \in BOOLEAN
    /\ pc \in PCs
    /\ local \in WorkloadVersions
    /\ fresh \in BOOLEAN
    /\ ph \in 1..6
    /\ oldPhase \in 0..6
    /\ todo \in SUBSET Checks
    /\ block \in BOOLEAN
    /\ appPreEval \in KeptnStates
    /\ items \in [Checks -> [Copies -> ItemObject]]
    /\ running \in BOOLEAN
    /\ late \in BOOLEAN
    /\ pod \in {"gated", "released"}
    /\ overlooked \subseteq Checks
    /\ faults \in 0..MaxFaults
    /\ crashes \in 0..MaxCrashes
    /\ touches \in 0..MaxTouches
    /\ losses \in 0..MaxLosses

PhaseDone(state) == state \in {StateSucceeded, StateWarning}

\* A failed workload version says exactly where it failed, whatever crashed,
\* conflicted or was written late: one phase has failed, every phase before
\* it is done, every phase after it is deprecated and its end time is set
\* (handleCompletedPhase, DeprecateRemainingPhases).
FailureShapeOf(item) ==
    item.status = StateFailed =>
        /\ item.endTime
        /\ \E f \in Phases :
            /\ item.phaseStatus[f] = StateFailed
            /\ \A p \in Phases : p < f => PhaseDone(item.phaseStatus[p])
            /\ \A p \in Phases : p > f => item.phaseStatus[p] = StateDeprecated

FailureShape == FailureShapeOf(obj)

\* What the status claims has happened: a check recorded as succeeded names
\* an object that succeeded at some time, and a phase recorded as succeeded has every
\* check of the spec recorded as succeeded, none dropped or still running
\* (ReconcileTasks, ReconcileEvaluations, GetOverallState).  The exception is a
\* check that a new spec adds to a phase that has succeeded: it is never run.
ResultsAreRealIn(item) ==
    /\ \A c \in Checks :
        item.checkStatus[c].status = StateSucceeded =>
            /\ item.checkStatus[c].name \in Copies
            /\ items[c][item.checkStatus[c].name].succeeded
    /\ \A c \in item.spec \ overlooked :
        item.phaseStatus[CheckPhase[c]] = StateSucceeded =>
            item.checkStatus[c].status = StateSucceeded

ResultsAreReal == ResultsAreRealIn(obj)

\* No task or evaluation of a phase is created before the stored status says
\* that every earlier phase is done (the order of the phases in Reconcile), nor
\* before the app's pre-deployment evaluations have succeeded, which only the
\* first reconciliations look at (checkPreEvaluationStatusOfApp).
ChecksInOrder ==
    [][\A c \in Checks, n \in Copies :
        items[c][n].there = "no" /\ items'[c][n].there # "no" =>
            /\ appPreEval = StateSucceeded
            /\ \A p \in Phases : p < CheckPhase[c] => PhaseDone(obj.phaseStatus[p])]_vars

\* Stale copies, conflicts, failed calls and restarts notwithstanding, the stored
\* workload version passes its phases one by one, takes none back, ends once and
\* its pod is not started early (while the blocking configuration does not change).
\* That the pod of a failed version is started, too, is what DeployedOnlyIfChecked
\* denies.
Passed(item) == Cardinality({p \in Phases : \A q \in 1..p : PhaseDone(item.phaseStatus[q])})

Outcome(item) == CASE item.status = StateSucceeded -> "succeeded"
                   [] item.status = StateFailed    -> "failed"
                   [] OTHER                        -> "running"

Progress == INSTANCE PhaseProgress WITH
                N <- Cardinality(Phases), Deploy <- Deployment, passed <- Passed(obj),
                outcome <- Outcome(obj), open <- (pod = "released")

ImplementsPhaseProgress == Progress!Spec

\* "If the `pre-deployment` checks have not yet finished successfully, the gate
\* stays and the Pod remains in the pending state"
\* (docs/docs/components/scheduling.md).  It does not hold: when the checks fail,
\* the remaining phases are deprecated, the deployment with them, and the gate
\* controller takes a deprecated deployment for a completed one.
DeployedOnlyIfChecked ==
    pod = "released" => \A p \in 1..(Deployment - 1) : PhaseDone(obj.phaseStatus[p])

\* The recorded result of a check is final for as long as the spec lists it: no
\* write of a stale copy and no second object of the same check replaces it.
ResultsAreFinal ==
    [][\A c \in obj.spec :
        obj.checkStatus[c].status \in {StateSucceeded, StateFailed} =>
            obj'.checkStatus[c] = obj.checkStatus[c]]_vars

\* A workload version that has failed stays as it is.
FailedIsFinal ==
    [][obj.status = StateFailed =>
        /\ obj'.status = StateFailed
        /\ obj'.phaseStatus = obj.phaseStatus]_vars

\* Once the app lets it, a workload version ends, whether its checks fail or
\* succeed, in whichever order, and whether or not its pod ever becomes ready:
\* whatever it waits for, something requeues it (HandlePhase).
Terminates ==
    []<>(appPreEval = StateSucceeded => obj.status \in {StateSucceeded, StateFailed})

\* A pod whose deployment phase has begun is released.
GateOpens ==
    obj.phaseStatus[Deployment] = StateProgressing ~> pod = "released"
=============================================================================
