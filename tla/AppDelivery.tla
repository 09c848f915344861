----------------------------- MODULE AppDelivery -----------------------------
(***************************************************************************)
(* One KeptnApp: the controller that creates a KeptnAppVersion for each    *)
(* generation of the app and deprecates the older revisions                *)
(* (controllers/lifecycle/keptnapp), the controller that drives the app    *)
(* versions through their six phases (controllers/lifecycle/               *)
(* keptnappversion), and the workload versions, which wait for the app     *)
(* version that waits for them.                                            *)
(*                                                                         *)
(* The two controllers write the same app versions, and the deprecation    *)
(* of a revision can be refused because the other one was faster.  The     *)
(* first one reads the app versions from the informer cache, in which one  *)
(* may be missing or old; the reads of the second one are up to date here, *)
(* an older one would only lead to another conflict.  The tasks and        *)
(* evaluations of a phase are abstracted to the state they have together   *)
(* (module WorkloadVersion shows how it arises).                           *)
(***************************************************************************)
EXTENDS PhaseItem, Integers, Sequences

CONSTANTS
    MaxGeneration,          \* bound: generations of the app
    Versions,               \* the values of spec.version
    NoVersion,              \* the empty version
    VersionOf,              \* spec.version of each generation
    Workloads,              \* the workload versions (name and version)
    WorkloadsOf,            \* the ones each generation lists
    CheckedPhases,          \* the phases that have tasks or evaluations
    PromotionTasksEnabled,  \* the feature flag
    MaxDisturbances         \* bound: failed API calls and restarts of the operator

Generations == 1..MaxGeneration

AppPreDeployTasks  == 1
AppPreEvaluations  == 2
AppDeploy          == 3
AppPostDeployTasks == 4
AppPostEvaluations == 5
Promotion          == 6
AppCompleted       == 7

Phases == 1..6

ASSUME DeliveryAssumption ==
    /\ MaxGeneration \in Nat \ {0}
    /\ NoVersion \notin Versions
    /\ VersionOf \in [Generations -> Versions]
    /\ IsFiniteSet(Workloads)
    /\ WorkloadsOf \in [Generations -> SUBSET Workloads]
    /\ CheckedPhases \subseteq Phases \ {AppDeploy}
    /\ PromotionTasksEnabled \in BOOLEAN
    /\ MaxDisturbances \in Nat

VARIABLES
    app,        \* the KeptnApp: its generation and status.currentVersion
    appQueued,  \* its key is in the work queue
    appPc,      \* what its running reconciliation does next, or "idle"
    appGen,     \* the generation that reconciliation has read
    appFresh,   \* ... and that is still the current object
    older,      \* the older generation whose app version it deprecates next
    oldFresh,   \* ... and the copy of it is current
    failed,     \* some deprecation of this reconciliation failed
    revisions,  \* the generations that have an app version, in order of creation
    av,         \* the KeptnAppVersions
    known,      \* the ones of which the informer cache has a copy
    avQueued,   \* the ones whose key is in the work queue
    avPc,       \* what the reconciliation of an app version does next
    gen,        \* the app version it is about
    local,      \* its in-memory copy
    fresh,      \* ... which has the resourceVersion of the object
    ph,         \* the phase it is at
    oldPhase,   \* the current phase when that phase was entered
    wv,         \* the status of each workload version
    block,      \* KeptnConfig.spec.blockDeployment
    lost,       \* history: a reconciliation of the app stopped after the creation
    missed,     \* history: older revisions that were not in the cache when they
                \* had to be deprecated
    faults, crashes

appVars == <<app, appQueued, appPc, appGen, appFresh, older, oldFresh, failed, lost,
             missed>>
avVars  == <<avPc, gen, local, fresh, ph, oldPhase>>
used    == <<faults, crashes>>
vars    == <<appVars, revisions, av, known, avQueued, avVars, wv, block, used>>

NewAppVersion ==
    [status       |-> StatePending,
     currentPhase |-> NoPhase,
     phaseStatus  |-> [p \in Phases |-> StatePending],
     endTime      |-> FALSE]

AppVersions ==
    [status       : KeptnStates,
     currentPhase : 0..7,
     phaseStatus  : [Phases -> KeptnStates],
     endTime      : BOOLEAN]

Created == {revisions[i] : i \in DOMAIN revisions}

\* A call that fails without a conflict.
Fault == faults + crashes < MaxDisturbances /\ faults' = faults + 1

\* The informer delivers the creation of an app version.
Sync(g) ==
    /\ g \in Created \ known
    /\ known' = known \cup {g}
    /\ avQueued' = avQueued \cup {g}
    /\ UNCHANGED <<appVars, revisions, av, avVars, wv, block, used>>

-----------------------------------------------------------------------------
(***************************************************************************)
(* The KeptnApp controller.                                                *)
(***************************************************************************)
ReturnApp(requeue) ==
    /\ appPc' = "idle"
    /\ appQueued' = (appQueued \/ requeue)
    /\ appFresh' = FALSE
    /\ appGen' = 1
    /\ older' = 0
    /\ oldFresh' = FALSE
    /\ failed' = FALSE

\* Reconcile: nothing is left to do when the app version is found.
ReconcileApp ==
    /\ appPc = "idle"
    /\ appQueued
    /\ appQueued' = FALSE
    /\ IF app.generation \in known
       THEN UNCHANGED <<appPc, appGen, appFresh>>
       ELSE appPc' = "create" /\ appGen' = app.generation /\ appFresh' = TRUE
    /\ UNCHANGED <<app, older, oldFresh, failed, lost, missed, revisions, av, known,
                   avQueued, avVars, wv, block, used>>

\* createAppVersion and Create, which fails if the app version exists, known or
\* not.  A creation that is reported as failed may have been carried out; a
\* later reconciliation then finds its result.
CreateAppVersion ==
    /\ appPc = "create"
    /\ \/ /\ appGen \notin Created
          /\ revisions' = Append(revisions, appGen)
          /\ appPc' = "status"
          /\ UNCHANGED <<appQueued, appGen, appFresh, older, oldFresh, failed, lost, faults>>
       \/ /\ appGen \in Created
          /\ ReturnApp(TRUE)
          /\ UNCHANGED <<lost, revisions, faults>>
       \/ /\ Fault
          /\ ReturnApp(TRUE)
          /\ \/ UNCHANGED <<lost, revisions>>
             \/ /\ appGen \notin Created
                /\ revisions' = Append(revisions, appGen)
                /\ lost' = TRUE
    /\ UNCHANGED <<app, missed, av, known, avQueued, avVars, wv, block, crashes>>

\* The write of status.currentVersion; its error is returned.
UpdateCurrentVersion ==
    LET new == [app EXCEPT !.currentVersion = VersionOf[appGen]]
    IN  /\ appPc = "status"
        /\ \/ /\ appFresh
              /\ app' = new
              /\ appPc' = "deprecate"
              /\ older' = appGen - 1
              /\ UNCHANGED <<appQueued, appGen, appFresh, oldFresh, failed, lost, faults>>
           \/ /\ ~appFresh
              /\ ReturnApp(TRUE)
              /\ lost' = TRUE
              /\ UNCHANGED <<app, faults>>
           \/ /\ appFresh
              /\ Fault
              /\ app' \in {app, new}
              /\ ReturnApp(TRUE)
              /\ lost' = TRUE
        /\ UNCHANGED <<missed, revisions, av, known, avQueued, avVars, wv, block, crashes>>

\* The name of an older app version is made of the version of the new one.
IsRevision(i) == VersionOf[i] = VersionOf[appGen]

\* Mutant: the first generation is left out.
IsOlderButFirst(i) == i > 1 /\ IsRevision(i) /\ av[i].status # StateDeprecated

IsOlderRevision(i) == IsRevision(i) /\ av[i].status # StateDeprecated

\* The cached copy of an app version that has been written may be an older one,
\* which is then not deprecated yet.
IsOlderCopy(i) == IsRevision(i) /\ av[i] # NewAppVersion

\* deprecateAppVersions: reading the app version of an older generation.  One
\* that is not found is passed over, and is then missed if it exists.
GetOlderAppVersion ==
    /\ appPc = "deprecate"
    /\ \/ /\ older = 0
          /\ ReturnApp(failed)
          /\ lost' = (lost \/ failed)
          /\ UNCHANGED <<missed, faults>>
       \/ /\ older > 0
          /\ older \in known
          /\ \/ IsOlderRevision(older) /\ oldFresh' = TRUE
             \/ IsOlderCopy(older) /\ oldFresh' = FALSE
          /\ appPc' = "write"
          /\ UNCHANGED <<appQueued, appGen, appFresh, older, failed, lost, missed, faults>>
       \/ /\ older > 0
          /\ older \in known => ~IsOlderRevision(older)
          /\ missed' = missed \cup {i \in Created \cap {older} : IsRevision(i) /\ i \notin known}
          /\ older' = older - 1
          /\ UNCHANGED <<appQueued, appPc, appGen, appFresh, oldFresh, failed, lost, faults>>
       \/ /\ older > 0
          /\ Fault
          /\ older' = older - 1
          /\ failed' = TRUE
          /\ UNCHANGED <<appQueued, appPc, appGen, appFresh, oldFresh, lost, missed>>
    /\ UNCHANGED <<app, revisions, av, known, avQueued, avVars, wv, block, crashes>>

\* DeprecateRemainingPhases(PhaseDeprecated)
DeprecateCompletely(item) ==
    [item EXCEPT !.phaseStatus = [p \in Phases |-> StateDeprecated],
                 !.status = StateDeprecated]

\* The write; a failure is remembered and the loop goes on.
DeprecateOlderAppVersion ==
    LET WriteOlder == /\ av' = [av EXCEPT ![older] = DeprecateCompletely(@)]
                      /\ fresh' = (fresh /\ gen # older)
    IN  /\ appPc = "write"
        /\ \/ /\ oldFresh
              /\ WriteOlder
              /\ UNCHANGED <<failed, faults>>
           \/ /\ ~oldFresh
              /\ failed' = TRUE
              /\ UNCHANGED <<av, fresh, faults>>
           \/ /\ oldFresh
              /\ Fault
              /\ failed' = TRUE
              /\ WriteOlder \/ UNCHANGED <<av, fresh>>
        /\ appPc' = "deprecate"
        /\ older' = older - 1
        /\ oldFresh' = FALSE
        /\ UNCHANGED <<app, appQueued, appGen, appFresh, lost, missed, revisions, avQueued, avPc,
                       gen, local, ph, oldPhase, known, wv, block, crashes>>

-----------------------------------------------------------------------------
(***************************************************************************)
(* The KeptnAppVersion controller: one app version at a time.              *)
(***************************************************************************)
\* Mutant: no optimistic locking, the last writer wins.
UpdateIgnoringConflicts(new, accepted) ==
    /\ accepted
    /\ av' = [av EXCEPT ![gen] = new]
    /\ oldFresh' = (oldFresh /\ older # gen)
    /\ UNCHANGED <<fresh, faults>>

\* Status().Update of the local copy.
Update(new, accepted) ==
    \/ /\ accepted
       /\ fresh
       /\ av' = [av EXCEPT ![gen] = new]
       /\ oldFresh' = (oldFresh /\ older # gen)
       /\ UNCHANGED <<fresh, faults>>
    \/ /\ ~accepted
       /\ ~fresh
       /\ UNCHANGED <<av, oldFresh, fresh, faults>>
    \/ /\ ~accepted
       /\ fresh
       /\ Fault
       /\ \/ UNCHANGED <<av, oldFresh, fresh>>
          \/ /\ av' = [av EXCEPT ![gen] = new]
             /\ oldFresh' = (oldFresh /\ older # gen)
             /\ fresh' = (new = av[gen])

Return(requeue) ==
    /\ avPc' = "idle"
    /\ avQueued' = IF requeue THEN avQueued \cup {gen} ELSE avQueued
    /\ local' = NewAppVersion
    /\ ph' = AppPreDeployTasks
    /\ oldPhase' = NoPhase
    /\ UNCHANGED gen

appKept == <<app, appQueued, appPc, appGen, appFresh, older, failed, lost, missed>>

StartReconcile(g) ==
    /\ avPc = "idle"
    /\ g \in avQueued
    /\ avPc' = "phase"
    /\ avQueued' = avQueued \ {g}
    /\ gen' = g
    /\ local' = av[g]
    /\ fresh' = TRUE
    /\ UNCHANGED <<appVars, revisions, av, known, ph, oldPhase, wv, block, used>>

\* What lets the controller pass a phase without handling it.
Passed(item, p) ==
    CASE p = AppDeploy -> IsSucceeded(item.phaseStatus[p])
      [] p = Promotion -> ~PromotionTasksEnabled \/ IsCompleted(item.phaseStatus[p])
      [] OTHER         -> IsPhaseSucceeded(item.phaseStatus[p], block)

\* HandlePhase for the first phase that is not passed.
EnterPhase ==
    /\ avPc = "phase"
    /\ \E p \in ph..Promotion :
        /\ ~Passed(local, p)
        /\ \A q \in ph..(p - 1) : Passed(local, q)
        /\ \/ /\ ShouldAbortPhase(local)
              /\ Return(FALSE)
           \/ /\ ~ShouldAbortPhase(local)
              /\ local' = [local EXCEPT !.currentPhase = p]
              /\ avPc' = IF p = AppDeploy THEN "workloads" ELSE "checks"
              /\ ph' = p
              /\ oldPhase' = local.currentPhase
              /\ UNCHANGED <<avQueued, gen>>
    /\ UNCHANGED <<appVars, revisions, av, known, fresh, wv, block, used>>

AllPhasesPassed ==
    /\ avPc = "phase"
    /\ \A p \in ph..Promotion : Passed(local, p)
    /\ avPc' = "finish"
    /\ UNCHANGED <<appVars, revisions, av, known, avQueued, gen, local, fresh, ph, oldPhase, wv,
                   block, used>>

\* A write that must succeed for the phase to be completed.
WriteOrReturn(new) ==
    /\ \/ /\ Update(new, TRUE)
          /\ local' = new
          /\ avPc' = "complete"
          /\ UNCHANGED <<avQueued, gen, ph, oldPhase>>
       \/ /\ Update(new, FALSE)
          /\ Return(TRUE)
    /\ UNCHANGED <<appKept, revisions, known, wv, block, crashes>>

\* The state of the checks of phase p when they stand at s together.
CheckState(p, s) ==
    LET checks == CheckedPhases \cap {p}
    IN  GetOverallStateBlockedDeployment(
            UpdateStatusSummary(checks, [c \in checks |-> s]), block)

\* reconcilePhase / reconcilePrePostEvaluation.  A failed read or creation of
\* a check ends the reconciliation like a write that fails without effect.
ReconcileChecks(s) ==
    /\ avPc = "checks"
    /\ WriteOrReturn([local EXCEPT !.phaseStatus[ph] = CheckState(ph, s)])

\* Mutant: a workload that is not found is left out.
WorkloadsFound(g) ==
    LET found == {w \in WorkloadsOf[g] : wv[w] # "absent"}
    IN  GetOverallState(UpdateStatusSummary(found, wv))

\* reconcileWorkloads: a workload version that is not found is Pending.
WorkloadsState(g) ==
    GetOverallState(
        UpdateStatusSummary(WorkloadsOf[g],
            [w \in Workloads |-> IF wv[w] = "absent" THEN StatePending ELSE wv[w]]))

ReconcileWorkloads ==
    /\ avPc = "workloads"
    /\ WriteOrReturn([local EXCEPT !.phaseStatus[AppDeploy] = WorkloadsState(gen)])

\* The phase is Unknown when the workload versions cannot be listed.  (When
\* that write is refused as well, it is as if the list had been there.)
ListFails ==
    /\ avPc = "workloads"
    /\ fresh
    /\ Fault
    /\ LET new == [local EXCEPT !.phaseStatus[AppDeploy] = StateUnknown]
       IN  av' = [av EXCEPT ![gen] = new] /\ local' = new
    /\ oldFresh' = (oldFresh /\ older # gen)
    /\ avPc' = "complete"
    /\ UNCHANGED <<appKept, revisions, known, avQueued, gen, fresh, ph, oldPhase, wv, block, crashes>>

\* The end of HandlePhase, with the deferred write whose error is only logged.
CompletePhase ==
    LET state == local.phaseStatus[ph]
        new   == AfterPhase(local, ph, state)
    IN  /\ avPc = "complete"
        /\ IF new.status # local.status \/ new.currentPhase # oldPhase
           THEN \E accepted \in BOOLEAN : Update(new, accepted)
           ELSE UNCHANGED <<av, oldFresh, fresh, faults>>
        /\ IF Continues(state)
           THEN /\ local' = new
                /\ avPc' = "phase"
                /\ ph' = ph + 1
                /\ UNCHANGED <<avQueued, gen, oldPhase>>
           ELSE Return(Requeues(state))
        /\ UNCHANGED <<appKept, revisions, known, wv, block, crashes>>

\* finishKeptnAppVersionReconcile
FinishedAppVersion(item) ==
    IF item.endTime THEN item
    ELSE [item EXCEPT !.currentPhase = AppCompleted,
                      !.status = StateSucceeded,
                      !.endTime = TRUE]

FinishReconcile ==
    /\ avPc = "finish"
    /\ \/ Update(FinishedAppVersion(local), TRUE) /\ Return(FALSE)
       \/ Update(FinishedAppVersion(local), FALSE) /\ Return(TRUE)
    /\ UNCHANGED <<appKept, revisions, known, wv, block, crashes>>

-----------------------------------------------------------------------------
(***************************************************************************)
(* The environment.                                                        *)
(***************************************************************************)
\* A user changes the spec of the app.
ChangeApp ==
    /\ app.generation < MaxGeneration
    /\ app' = [app EXCEPT !.generation = @ + 1]
    /\ appQueued' = TRUE
    /\ appFresh' = FALSE
    /\ UNCHANGED <<appPc, appGen, older, oldFresh, failed, lost, missed, revisions, av, known,
                   avQueued, avVars, wv, block, used>>

\* A restarted operator lists all objects anew and queues them.
Crash ==
    /\ faults + crashes < MaxDisturbances
    /\ crashes' = crashes + 1
    /\ ReturnApp(TRUE)
    /\ lost' = (lost \/ appPc \in {"status", "deprecate", "write"})
    /\ avQueued' = Created
    /\ known' = Created
    /\ avPc' = "idle"
    /\ local' = NewAppVersion
    /\ fresh' = FALSE
    /\ ph' = AppPreDeployTasks
    /\ oldPhase' = NoPhase
    /\ UNCHANGED <<app, missed, revisions, av, gen, wv, block, faults>>

others == <<appVars, revisions, av, known, avQueued, avVars, block, used>>

\* A pod is admitted, and its workload version created.
WorkloadAppears(w) ==
    /\ wv[w] = "absent"
    /\ wv' = [wv EXCEPT ![w] = StatePending]
    /\ UNCHANGED others

\* getLatestAppVersion: the newest app version in the cache that lists the
\* workload and is not deprecated.
IsLatestFor(w, i) ==
    /\ i \in DOMAIN revisions
    /\ revisions[i] \in known
    /\ w \in WorkloadsOf[revisions[i]]
    /\ av[revisions[i]].status # StateDeprecated
    /\ \A j \in DOMAIN revisions :
        j > i => \/ revisions[j] \notin known
                 \/ w \notin WorkloadsOf[revisions[j]]
                 \/ av[revisions[j]].status = StateDeprecated

\* checkPreEvaluationStatusOfApp
WorkloadBegins(w) ==
    /\ wv[w] = StatePending
    /\ \E i \in DOMAIN revisions :
        /\ IsLatestFor(w, i)
        /\ IsSucceeded(av[revisions[i]].phaseStatus[AppPreEvaluations])
    /\ wv' = [wv EXCEPT ![w] = StateProgressing]
    /\ UNCHANGED others

WorkloadEnds(w) ==
    /\ wv[w] = StateProgressing
    /\ \E s \in {StateSucceeded, StateFailed} : wv' = [wv EXCEPT ![w] = s]
    /\ UNCHANGED others

-----------------------------------------------------------------------------
Init ==
    /\ app = [generation |-> 1, currentVersion |-> NoVersion]
    /\ appQueued = TRUE
    /\ appPc = "idle"
    /\ appGen = 1
    /\ appFresh = FALSE
    /\ older = 0
    /\ oldFresh = FALSE
    /\ failed = FALSE
    /\ revisions = <<>>
    /\ av = [g \in Generations |-> NewAppVersion]
    /\ known = {}
    /\ avQueued = {}
    /\ avPc = "idle"
    /\ gen = 1
    /\ local = NewAppVersion
    /\ fresh = FALSE
    /\ ph = AppPreDeployTasks
    /\ oldPhase = NoPhase
    /\ wv = [w \in Workloads |-> "absent"]
    /\ block \in BOOLEAN
    /\ lost = FALSE
    /\ missed = {}
    /\ faults = 0
    /\ crashes = 0

AppController ==
    \/ ReconcileApp
    \/ CreateAppVersion
    \/ UpdateCurrentVersion
    \/ GetOlderAppVersion
    \/ DeprecateOlderAppVersion

AppVersionController ==
    \/ \E g \in Generations : StartReconcile(g)
    \/ EnterPhase
    \/ AllPhasesPassed
    \/ \E s \in {StateProgressing, StateSucceeded, StateFailed} : ReconcileChecks(s)
    \/ ReconcileWorkloads
    \/ CompletePhase
    \/ FinishReconcile

WorkloadSteps(w) == WorkloadAppears(w) \/ WorkloadBegins(w) \/ WorkloadEnds(w)

Next ==
    \/ AppController
    \/ AppVersionController
    \/ \E g \in Generations : Sync(g)
    \/ ListFails
    \/ ChangeApp
    \/ Crash
    \/ \E w \in Workloads : WorkloadSteps(w)

Spec == Init /\ [][Next]_vars

\* The checks of a phase come to an end.
ChecksEnd(g) ==
    /\ gen = g
    /\ \E s \in {StateSucceeded, StateFailed} : ReconcileChecks(s)

(***************************************************************************)
(* A running reconciliation goes on, the work queue is first in, first     *)
(* out, the informer delivers every event, the checks of a phase end, and  *)
(* so does a workload that may begin.                                      *)
(* Nothing is assumed of the users: neither that a pod is ever deployed    *)
(* nor that the app is changed.                                            *)
(***************************************************************************)
Fairness ==
    /\ WF_vars(AppController)
    /\ WF_vars(AppVersionController)
    /\ \A g \in Generations : WF_vars(Sync(g))
    /\ \A g \in Generations : SF_vars(StartReconcile(g)) /\ SF_vars(ChecksEnd(g))
    /\ \A w \in Workloads : WF_vars(WorkloadBegins(w)) /\ WF_vars(WorkloadEnds(w))

FairSpec == Spec /\ Fairness
-----------------------------------------------------------------------------
\* The type invariant; there is at most one app version per generation.
TypeOK ==
    /\ app \in [generation : Generations, currentVersion : Versions \cup {NoVersion}]
    /\ appQueued \in BOOLEAN
    /\ appPc \in {"idle", "create", "status", "deprecate", "write"}
    /\ appGen \in Generations
    /\ appFresh \in BOOLEAN
    /\ older \in 0..MaxGeneration
    /\ oldFresh \in BOOLEAN
    /\ failed \in BOOLEAN
    /\ revisions \in Seq(Generations)
    /\ \A i, j \in DOMAIN revisions : i # j => revisions[i] # revisions[j]
    /\ av \in [Generations -> AppVersions]
    /\ known \subseteq Created
    /\ avQueued \subseteq known
    /\ avPc \in {"idle", "phase", "checks", "workloads", "complete", "finish"}
    /\ gen \in Generations
    /\ local \in AppVersions
    /\ fresh \in BOOLEAN
    /\ ph \in 1..7
    /\ oldPhase \in 0..7
    /\ wv \in [Workloads -> KeptnStates \cup {"absent"}]
    /\ block \in BOOLEAN
    /\ lost \in BOOLEAN
    /\ missed \subseteq Created
    /\ faults \in Nat
    /\ crashes \in Nat
    /\ faults + crashes <= MaxDisturbances

Ended(item) == item.status \in {StateSucceeded, StateFailed, StateDeprecated}

\* An app version that has succeeded passed every phase up to the promotion,
\* and every workload it lists was really delivered (reconcileWorkloads).
SucceededIsReal ==
    \A g \in Created :
        av[g].status = StateSucceeded =>
            /\ \A p \in Phases \ {Promotion} : Passed(av[g], p)
            /\ \A w \in WorkloadsOf[g] : wv[w] = StateSucceeded

\* A failed app version says where it failed: everything before was passed,
\* nothing after it will run, and it has an end time (handleCompletedPhase).
AppFailureShape ==
    \A g \in Created :
        av[g].status = StateFailed =>
            /\ av[g].endTime
            /\ \E p \in Phases :
                /\ av[g].phaseStatus[p] = StateFailed
                /\ \A q \in 1..(p - 1) : Passed(av[g], q)
                /\ \A q \in (p + 1)..Promotion : av[g].phaseStatus[q] = StateDeprecated

\* Between two reconciliations of the app its current version is the one of
\* its newest app version, and of all revisions of one version only the newest
\* is not deprecated, although their controller writes them at the same time.
\* There are two exceptions.  A reconciliation stopped after the creation,
\* because of a conflict, a failed call or a restart: the next one finds the
\* app version and does nothing.  And an older revision had not reached the
\* cache yet when the reconciliation of the newer one looked for it: it is
\* passed over without an error (handleGenerationBump, deprecateAppVersions).
SettledUnlessLost ==
    appPc = "idle" /\ ~lost /\ revisions # <<>> =>
        /\ app.currentVersion = VersionOf[revisions[Len(revisions)]]
        /\ \A i, j \in Created :
            i < j /\ VersionOf[i] = VersionOf[j] =>
                av[i].status = StateDeprecated \/ i \in missed

\* An app version that has ended changes only by being deprecated, and then
\* not any more: neither controller undoes what the other one has decided
\* (deprecateAppVersions against the deferred write of HandlePhase).
EndIsFinal ==
    [][\A g \in Generations :
        Ended(av[g]) =>
            \/ av'[g] = av[g]
            \/ /\ av[g].status # StateDeprecated
               /\ av'[g] = DeprecateCompletely(av[g])]_vars

\* No circular waiting: the app version of the newest generation ends, unless
\* one of its workloads is not deployed, the app is changed again or a call
\* failed.  The app version waits in reconcileWorkloads, the workloads in
\* checkPreEvaluationStatusOfApp.  With blockDeployment off a failed evaluation
\* of the app is a Warning, for which its workloads wait for ever.
AppEnds ==
    []<>LET g == app.generation
        IN  \/ ~block
            \/ g \in Created /\ Ended(av[g])
            \/ \E w \in WorkloadsOf[g] : wv[w] = "absent"
            \/ faults > 0
=============================================================================
