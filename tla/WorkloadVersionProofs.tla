------------------------ MODULE WorkloadVersionProofs ------------------------
(***************************************************************************)
(* Proofs about WorkloadVersion, for every set of checks and every bound:  *)
(* types, how it fails, what its recorded results are worth, and how it    *)
(* progresses.                                                             *)
(***************************************************************************)
EXTENDS WorkloadVersion, FiniteSetTheorems, TLAPS

-----------------------------------------------------------------------------
(***************************************************************************)
(* What the state of a phase says of the items it is folded from           *)
(* (UpdateStatusSummary, GetOverallState).                                 *)
(***************************************************************************)
LEMMA SummaryStateType ==
    ASSUME NEW s, NEW b
    PROVE  /\ GetOverallState(s) \in KeptnStates \ {StateDeprecated, StateWarning}
           /\ GetOverallStateBlockedDeployment(s, b) \in KeptnStates \ {StateDeprecated}
  BY DEF GetOverallState, GetOverallStateBlockedDeployment, KeptnStates,
     StateProgressing, StateSucceeded, StateFailed, StateUnknown, StatePending,
     StateDeprecated, StateWarning

LEMMA CountType ==
    ASSUME NEW S, IsFiniteSet(S), NEW st, NEW k
    PROVE  CountIn(S, st, k) \in Nat
  <1>1. {i \in S : st[i] = k} \in SUBSET S
    OBVIOUS
  <1>2. IsFiniteSet({i \in S : st[i] = k})
    BY <1>1, FS_Subset
  <1> QED
    BY <1>2, FS_CardinalityType DEF CountIn

\* A phase succeeds only when every check of its spec is listed as succeeded:
\* a check that could not be created is missing from the list, but counted
\* in the total.
THEOREM OverallSuccess ==
    ASSUME NEW S, IsFiniteSet(S), NEW st,
           GetOverallState(UpdateStatusSummary(S, st)) = StateSucceeded
    PROVE  \A i \in S : st[i] = StateSucceeded
  <1> DEFINE s    == UpdateStatusSummary(S, st)
             good == {i \in S : st[i] = StateSucceeded}
  <1>1. /\ s.failed \in Nat /\ s.succeeded \in Nat /\ s.progressing \in Nat
        /\ s.pending \in Nat /\ s.unknown \in Nat /\ s.deprecated \in Nat
    BY CountType DEF UpdateStatusSummary
  <1>2. s.total = Cardinality(S) /\ s.succeeded = Cardinality(good)
    BY DEF UpdateStatusSummary, CountIn
  <1> HIDE DEF s
  <1>3. GetOverallState(s) = StateSucceeded
    BY DEF s
  <1>4. /\ ~(s.failed > 0) /\ ~(s.deprecated > 0) /\ ~(s.progressing > 0)
        /\ ~(s.pending > 0) /\ ~(s.unknown > 0) /\ GetTotalCount(s) = s.total
    BY <1>3 DEF GetOverallState, StateSucceeded, StateFailed, StateProgressing, StatePending,
       StateUnknown
  <1>5. s.succeeded = s.total
    BY <1>1, <1>4 DEF GetTotalCount
  <1>6. good \in SUBSET S
    OBVIOUS
  <1>7. good = S
    BY <1>2, <1>5, <1>6, FS_Subset
  <1> QED
    BY <1>7

-----------------------------------------------------------------------------
(***************************************************************************)
(* Type correctness.  The generation of the object is what makes it more   *)
(* than bookkeeping: a status write leaves it alone, and of the            *)
(* controller's own writes only that of the trace id counts, once.         *)
(***************************************************************************)
GenerationOf(item) == touches + (IF item.traceId THEN 1 ELSE 0)

\* An in-flight copy with the current resourceVersion agrees with the stored
\* object on everything a reconciliation does not prepare for its next write.
Agreement ==
    pc # "idle" /\ fresh =>
        /\ local.generation = obj.generation
        /\ local.traceId = obj.traceId
        /\ local.spec = obj.spec

InPhase == pc \in {"checks", "deployment", "complete"}

TypeInv ==
    /\ TypeOK
    /\ obj.generation = GenerationOf(obj)
    /\ Agreement
    /\ InPhase => ph \in Phases

\* What a write leaves behind, accepted or not.
LEMMA UpdateType ==
    ASSUME TypeInv, NEW new, NEW accepted \in BOOLEAN,
           Update(new, accepted),
           UNCHANGED touches,
           fresh => new \in WorkloadVersions /\ new.generation = GenerationOf(new)
    PROVE  /\ obj' \in WorkloadVersions
           /\ obj'.generation = (GenerationOf(obj))'
           /\ fresh' \in BOOLEAN
           /\ faults' \in 0..MaxFaults
           /\ accepted => fresh /\ fresh' /\ obj' = new
           /\ ~accepted /\ fresh' => fresh /\ obj' = obj
  BY BoundAssumption DEF TypeInv, TypeOK, Update, GenerationOf

\* A status write: everything but generation and trace id may differ.
LEMMA StatusWriteType ==
    ASSUME TypeInv, pc # "idle", NEW new \in WorkloadVersions,
           new.generation = local.generation, new.traceId = local.traceId
    PROVE  fresh => new \in WorkloadVersions /\ new.generation = GenerationOf(new)
  BY DEF TypeInv, TypeOK, Agreement, GenerationOf

LEMMA NewWorkloadVersionType ==
    /\ NewWorkloadVersion \in WorkloadVersions
    /\ \A spec \in Specs : [NewWorkloadVersion EXCEPT !.spec = spec] \in WorkloadVersions
  <1>1. NewWorkloadVersion \in WorkloadVersions
    BY BoundAssumption DEF NewWorkloadVersion, WorkloadVersions, NoItemStatus, ItemStatus,
       KeptnStates, NoPhase, StatePending, Phases
  <1> QED
    BY <1>1, CheckAssumption DEF WorkloadVersions

LEMMA InitType == Init => TypeInv
  <1> SUFFICES ASSUME Init PROVE TypeInv
    OBVIOUS
  <1> USE BoundAssumption DEF Init
  <1>1. TypeOK
    <2>1. items \in [Checks -> [Copies -> ItemObject]]
      BY DEF ItemObject, StatePending
    <2>2. /\ ph \in 1..6 /\ oldPhase \in 0..6 /\ todo \in SUBSET Checks
          /\ pc \in PCs /\ pod \in {"gated", "released"}
          /\ appPreEval \in KeptnStates
      BY DEF PCs, KeptnStates, NoPhase, PreDeploymentTasks, StatePending
    <2>3. /\ faults \in 0..MaxFaults /\ crashes \in 0..MaxCrashes
          /\ touches \in 0..MaxTouches /\ losses \in 0..MaxLosses
      OBVIOUS
    <2> QED
      BY <2>1, <2>2, <2>3, NewWorkloadVersionType DEF TypeOK
  <1>2. obj.generation = GenerationOf(obj)
    BY DEF GenerationOf, NewWorkloadVersion
  <1> QED
    BY <1>1, <1>2 DEF TypeInv, Agreement, InPhase

\* A reconciliation returns, or the operator restarts.
LEMMA ReturnType ==
    ASSUME TypeInv, NEW requeue \in BOOLEAN, Return(requeue)
    PROVE  /\ pc' = "idle"
           /\ queued' \in BOOLEAN
           /\ local' \in WorkloadVersions
           /\ ph' \in 1..6
           /\ oldPhase' \in 0..6
           /\ todo' \in SUBSET Checks
  BY NewWorkloadVersionType DEF TypeInv, TypeOK, Return, PreDeploymentTasks, NoPhase

\* A write that must succeed keeps the types, whatever becomes of it.
LEMMA WriteOrReturnType ==
    ASSUME TypeInv, pc # "idle", NEW new, NEW label \in PCs \ {"idle"},
           WriteOrReturn(new, label),
           fresh => new \in WorkloadVersions /\ new.generation = GenerationOf(new),
           label \in {"checks", "deployment", "complete"} => ph \in Phases
    PROVE  TypeInv'
  <1>1. CASE Update(new, TRUE) /\ local' = new /\ Goto(label)
    <2>1. /\ obj' \in WorkloadVersions
          /\ obj'.generation = (GenerationOf(obj))'
          /\ fresh' \in BOOLEAN
          /\ faults' \in 0..MaxFaults
          /\ obj' = new
      BY <1>1, UpdateType DEF WriteOrReturn
    <2> QED
      BY <1>1, <2>1 DEF WriteOrReturn, Goto, TypeInv, TypeOK, Agreement, InPhase, world
  <1>2. CASE Update(new, FALSE) /\ Return(TRUE)
    <2>1. /\ obj' \in WorkloadVersions
          /\ obj'.generation = (GenerationOf(obj))'
          /\ fresh' \in BOOLEAN
          /\ faults' \in 0..MaxFaults
      BY <1>2, UpdateType DEF WriteOrReturn
    <2>2. /\ pc' = "idle" /\ queued' \in BOOLEAN /\ local' \in WorkloadVersions
          /\ ph' \in 1..6 /\ oldPhase' \in 0..6 /\ todo' \in SUBSET Checks
      BY <1>2, ReturnType
    <2> QED
      BY <2>1, <2>2 DEF WriteOrReturn, TypeInv, TypeOK, Agreement, InPhase, world, PCs
  <1> QED
    BY <1>1, <1>2 DEF WriteOrReturn

LEMMA AfterPhaseType ==
    ASSUME NEW item \in WorkloadVersions, NEW p \in Phases, NEW state
    PROVE  /\ AfterPhase(item, p, state) \in WorkloadVersions
           /\ AfterPhase(item, p, state).generation = item.generation
           /\ AfterPhase(item, p, state).traceId = item.traceId
           /\ AfterPhase(item, p, state).spec = item.spec
  BY DEF AfterPhase, DeprecateRemainingPhases, WorkloadVersions, KeptnStates,
     StateProgressing, StateDeprecated, StateFailed

LEMMA FinishedVersionType ==
    ASSUME NEW item \in WorkloadVersions
    PROVE  /\ FinishedVersion(item) \in WorkloadVersions
           /\ FinishedVersion(item).generation = item.generation
           /\ FinishedVersion(item).traceId = item.traceId
  <1>1. CASE item.endTime
    BY <1>1 DEF FinishedVersion
  <1>2. CASE ~item.endTime
    <2>1. Completed \in 0..6 /\ StateSucceeded \in KeptnStates
      BY DEF Completed, KeptnStates
    <2> QED
      BY <1>2, <2>1 DEF FinishedVersion, WorkloadVersions
  <1> QED
    BY <1>1, <1>2

\* The controller's steps.
LEMMA StartReconcileType == TypeInv /\ StartReconcile => TypeInv'
  BY DEF TypeInv, TypeOK, Agreement, InPhase, StartReconcile, PCs, world, used, GenerationOf

LEMMA CheckAppType == TypeInv /\ CheckPreEvaluationStatusOfApp => TypeInv'
  <1> SUFFICES ASSUME TypeInv, CheckPreEvaluationStatusOfApp PROVE TypeInv'
    OBVIOUS
  <1> USE DEF TypeInv, TypeOK, Agreement, InPhase, PCs, world, used, GenerationOf
  <1>1. CASE Goto("phase") /\ UNCHANGED local
    BY <1>1 DEF CheckPreEvaluationStatusOfApp, Goto
  <1>2. CASE Goto("setMetadata") /\ UNCHANGED local
    BY <1>2 DEF CheckPreEvaluationStatusOfApp, Goto
  <1>3. CASE Return(TRUE)
    BY <1>3, ReturnType DEF CheckPreEvaluationStatusOfApp
  <1> QED
    BY <1>1, <1>2, <1>3 DEF CheckPreEvaluationStatusOfApp

LEMMA SetAppContextMetadataType == TypeInv /\ SetAppContextMetadata => TypeInv'
  <1> SUFFICES ASSUME TypeInv, SetAppContextMetadata PROVE TypeInv'
    OBVIOUS
  <1> DEFINE new == [local EXCEPT !.appContextMetadata = TRUE]
  <1>1. pc = "setMetadata" /\ local \in WorkloadVersions
    BY DEF SetAppContextMetadata, TypeInv, TypeOK
  <1>2. new \in WorkloadVersions /\ new.generation = local.generation
            /\ new.traceId = local.traceId
    BY <1>1 DEF WorkloadVersions
  <1>3. CASE WriteOrReturn(new, "setTraceId")
    <2>1. fresh => new \in WorkloadVersions /\ new.generation = GenerationOf(new)
      BY <1>1, <1>2, StatusWriteType
    <2> HIDE DEF new
    <2> QED
      BY <1>1, <1>3, <2>1, WriteOrReturnType DEF PCs
  <1>4. CASE local.appContextMetadata
    BY <1>1, <1>4 DEF SetAppContextMetadata, SetOnce, Goto, TypeInv, TypeOK, Agreement,
       InPhase, PCs, world, used, GenerationOf
  <1> QED
    BY <1>3, <1>4 DEF SetAppContextMetadata, SetOnce

LEMMA SetTraceIdType == TypeInv /\ SetTraceId => TypeInv'
  <1> SUFFICES ASSUME TypeInv, SetTraceId PROVE TypeInv'
    OBVIOUS
  <1> DEFINE new == [local EXCEPT !.traceId = TRUE, !.generation = @ + 1]
  <1>1. pc = "setTraceId" /\ local \in WorkloadVersions
    BY DEF SetTraceId, TypeInv, TypeOK
  <1>2. CASE ~local.traceId /\ WriteOrReturn(new, "phase")
    <2>1. ASSUME fresh
          PROVE  new \in WorkloadVersions /\ new.generation = GenerationOf(new)
      <3>1. local.generation = touches
        BY <1>1, <1>2, <2>1, BoundAssumption DEF TypeInv, TypeOK, Agreement, GenerationOf
      <3>2. local.generation + 1 \in 0..(MaxTouches + 1)
        BY <3>1, BoundAssumption DEF TypeInv, TypeOK
      <3> QED
        BY <1>1, <3>1, <3>2 DEF WorkloadVersions, GenerationOf
    <2> HIDE DEF new
    <2> QED
      BY <1>1, <1>2, <2>1, WriteOrReturnType DEF PCs
  <1>3. CASE local.traceId
    BY <1>1, <1>3 DEF SetTraceId, SetOnce, Goto, TypeInv, TypeOK, Agreement,
       InPhase, PCs, world, used, GenerationOf
  <1> QED
    BY <1>2, <1>3 DEF SetTraceId, SetOnce

LEMMA EnterPhaseType == TypeInv /\ EnterPhase => TypeInv'
  <1> SUFFICES ASSUME TypeInv, EnterPhase PROVE TypeInv'
    OBVIOUS
  <1>1. CASE Return(FALSE)
    BY <1>1, ReturnType DEF EnterPhase, TypeInv, TypeOK, Agreement, InPhase, PCs,
       world, used, GenerationOf
  <1>2. CASE ~Return(FALSE)
    <2>1. PICK p \in ph..PostDeploymentEvaluations :
            /\ local' = [local EXCEPT !.currentPhase = p]
            /\ pc' = IF p = Deployment THEN "deployment" ELSE "checks"
            /\ ph' = p
            /\ oldPhase' = local.currentPhase
            /\ todo' = ChecksOf(local, p)
      BY <1>2 DEF EnterPhase
    <2>2. p \in Phases /\ p \in 0..6 /\ p \in 1..6
      BY DEF TypeInv, TypeOK, Phases, PostDeploymentEvaluations
    <2>3. /\ local' \in WorkloadVersions
          /\ local'.generation = local.generation
          /\ local'.traceId = local.traceId
          /\ local'.spec = local.spec
          /\ oldPhase' \in 0..6
      BY <2>1, <2>2 DEF TypeInv, TypeOK, WorkloadVersions
    <2>4. todo' \in SUBSET Checks /\ pc' \in PCs
      BY <2>1 DEF ChecksOf, PCs, TypeInv, TypeOK, WorkloadVersions
    <2>5. pc # "idle"
      BY DEF EnterPhase
    <2>6. UNCHANGED <<obj, cache, fresh, items, world, used, queued>>
      BY <1>2 DEF EnterPhase
    <2> QED
      BY <2>1, <2>2, <2>3, <2>4, <2>5, <2>6 DEF TypeInv, TypeOK, Agreement, InPhase, world, used,
         GenerationOf
  <1> QED
    BY <1>1, <1>2

LEMMA AllPhasesSucceededType == TypeInv /\ AllPhasesSucceeded => TypeInv'
  BY DEF TypeInv, TypeOK, Agreement, InPhase, AllPhasesSucceeded, Goto, PCs, world, used,
     GenerationOf

LEMMA ItemStatusUpdates ==
    ASSUME NEW it \in ItemStatus, NEW n \in 0..MaxCopies, NEW st \in KeptnStates
    PROVE  /\ [it EXCEPT !.status = st] \in ItemStatus
           /\ [it EXCEPT !.name = n, !.status = st] \in ItemStatus
           /\ [it EXCEPT !.listed = TRUE, !.name = n] \in ItemStatus
  BY DEF ItemStatus

\* One turn of the loop over the checks.
LEMMA CheckTurnType ==
    ASSUME TypeInv, NEW c \in Checks,
           KeepResult(c) \/ ReadItem(c) \/ CreateItem(c) \/ CreateItemFails(c)
    PROVE  /\ local' \in WorkloadVersions
           /\ local'.generation = local.generation
           /\ local'.traceId = local.traceId
           /\ local'.spec = local.spec
           /\ local'.status = local.status
           /\ local'.phaseStatus = local.phaseStatus
           /\ local'.endTime = local.endTime
           /\ items' \in [Checks -> [Copies -> ItemObject]]
           /\ faults' \in 0..MaxFaults
  <1>0. /\ local \in WorkloadVersions
        /\ local.checkStatus[c] \in ItemStatus
        /\ items \in [Checks -> [Copies -> ItemObject]]
        /\ faults \in 0..MaxFaults
    BY DEF TypeInv, TypeOK, WorkloadVersions
  <1>1. \A st \in ItemStatus :
            LET new == [local EXCEPT !.checkStatus[c] = st]
            IN  /\ new \in WorkloadVersions
                /\ new.generation = local.generation
                /\ new.traceId = local.traceId
                /\ new.spec = local.spec
                /\ new.status = local.status
                /\ new.phaseStatus = local.phaseStatus
                /\ new.endTime = local.endTime
    BY <1>0 DEF WorkloadVersions
  <1>2. CASE KeepResult(c)
    BY <1>0, <1>2 DEF KeepResult
  <1>3. CASE ReadItem(c)
    <2> DEFINE old  == local.checkStatus[c]
               seen == items[c][old.name].status
    <2>1. old.name \in Copies
      BY <1>0, <1>3 DEF ReadItem, ItemStatus, Copies
    <2>2. seen \in KeptnStates /\ StatePending \in KeptnStates
      BY <1>0, <2>1 DEF ItemObject, KeptnStates
    <2>3. 0 \in 0..MaxCopies
      BY BoundAssumption
    <2>4. /\ [old EXCEPT !.status = seen] \in ItemStatus
          /\ [old EXCEPT !.name = 0, !.status = StatePending] \in ItemStatus
      BY <1>0, <2>2, <2>3, ItemStatusUpdates
    <2>5. PICK st \in ItemStatus : local' = [local EXCEPT !.checkStatus[c] = st]
      BY <1>3, <2>4 DEF ReadItem
    <2> QED
      BY <1>0, <1>1, <1>3, <2>5 DEF ReadItem
  <1>copy. ASSUME NEW n \in Copies
           PROVE  WithCopy(c, n) \in [Checks -> [Copies -> ItemObject]]
    <2>1. items[c][n] \in ItemObject
      BY <1>0
    <2>2. [items[c][n] EXCEPT !.there = IF StaleReads THEN "new" ELSE "yes"] \in ItemObject
      BY <2>1 DEF ItemObject
    <2> QED
      BY <1>0, <2>2 DEF WithCopy
  <1>4. CASE CreateItem(c)
    <2>1. PICK n \in Copies :
            /\ items' = WithCopy(c, n)
            /\ local' = [local EXCEPT !.checkStatus[c] =
                            [local.checkStatus[c] EXCEPT !.listed = TRUE, !.name = n]]
      BY <1>4 DEF CreateItem
    <2>2. n \in 0..MaxCopies
      BY BoundAssumption DEF Copies
    <2>3. [local.checkStatus[c] EXCEPT !.listed = TRUE, !.name = n] \in ItemStatus
      BY <1>0, <2>2, ItemStatusUpdates DEF KeptnStates
    <2> QED
      BY <1>0, <1>1, <1>4, <1>copy, <2>1, <2>3 DEF CreateItem
  <1>5. CASE CreateItemFails(c)
    <2>1. NoItemStatus \in ItemStatus
      BY BoundAssumption DEF NoItemStatus, ItemStatus, KeptnStates
    <2>2. faults' \in 0..MaxFaults
      BY <1>0, <1>5, BoundAssumption DEF CreateItemFails
    <2>3. items' \in [Checks -> [Copies -> ItemObject]]
      BY <1>0, <1>5, <1>copy DEF CreateItemFails
    <2> QED
      BY <1>0, <1>1, <1>5, <2>1, <2>2, <2>3 DEF CreateItemFails
  <1> QED
    BY <1>2, <1>3, <1>4, <1>5

LEMMA ReconcileCheckType ==
    ASSUME TypeInv, NEW c \in Checks, ReconcileCheck(c)
    PROVE  TypeInv'
  BY CheckTurnType DEF ReconcileCheck, TypeInv, TypeOK, Agreement, InPhase, world,
     GenerationOf

LEMMA StatusListType ==
    ASSUME NEW item \in WorkloadVersions, NEW p
    PROVE  StatusList(item, p) \in [Checks -> ItemStatus]
  <1>1. NoItemStatus \in ItemStatus
    BY BoundAssumption DEF NoItemStatus, ItemStatus, KeptnStates, StatePending
  <1> QED
    BY <1>1 DEF StatusList, WorkloadVersions

LEMMA RecordChecksType == TypeInv /\ RecordChecks => TypeInv'
  <1> SUFFICES ASSUME TypeInv, RecordChecks PROVE TypeInv'
    OBVIOUS
  <1> DEFINE new == [local EXCEPT !.phaseStatus[ph] = PhaseStateOf(local, ph),
                                  !.checkStatus = StatusList(local, ph)]
  <1>1. pc = "checks" /\ local \in WorkloadVersions /\ ph \in Phases
    BY DEF RecordChecks, TypeInv, TypeOK, InPhase
  <1>2. PhaseStateOf(local, ph) \in KeptnStates /\ StatusList(local, ph) \in [Checks -> ItemStatus]
    BY <1>1, SummaryStateType, StatusListType DEF PhaseStateOf
  <1>3. new \in WorkloadVersions /\ new.generation = local.generation
            /\ new.traceId = local.traceId
    BY <1>1, <1>2 DEF WorkloadVersions
  <1>4. fresh => new \in WorkloadVersions /\ new.generation = GenerationOf(new)
    BY <1>1, <1>3, StatusWriteType
  <1>5. WriteOrReturn(new, "complete")
    BY DEF RecordChecks
  <1> HIDE DEF new
  <1> QED
    BY <1>1, <1>4, <1>5, WriteOrReturnType DEF PCs

LEMMA DeploymentStateType ==
    ASSUME TypeInv
    PROVE  DeploymentStateOf(local) \in KeptnStates
  BY DEF TypeInv, TypeOK, DeploymentStateOf, WorkloadVersions, KeptnStates, Phases, Deployment

LEMMA ReconcileDeploymentType == TypeInv /\ ReconcileDeployment => TypeInv'
  <1> SUFFICES ASSUME TypeInv, ReconcileDeployment PROVE TypeInv'
    OBVIOUS
  <1> DEFINE new == [local EXCEPT !.phaseStatus[Deployment] = DeploymentStateOf(local),
                                  !.deploymentStartTime = TRUE]
  <1>1. pc = "deployment" /\ local \in WorkloadVersions /\ ph \in Phases
    BY DEF ReconcileDeployment, TypeInv, TypeOK, InPhase
  <1>2. new \in WorkloadVersions /\ new.generation = local.generation
            /\ new.traceId = local.traceId
    BY <1>1, DeploymentStateType DEF WorkloadVersions
  <1>3. fresh => new \in WorkloadVersions /\ new.generation = GenerationOf(new)
    BY <1>1, <1>2, StatusWriteType
  <1>4. WriteOrReturn(new, "complete")
    BY DEF ReconcileDeployment
  <1> HIDE DEF new
  <1> QED
    BY <1>1, <1>3, <1>4, WriteOrReturnType DEF PCs

LEMMA CompletePhaseType == TypeInv /\ CompletePhase => TypeInv'
  <1> SUFFICES ASSUME TypeInv, CompletePhase PROVE TypeInv'
    OBVIOUS
  <1> DEFINE state == local.phaseStatus[ph]
             new   == AfterPhase(local, ph, state)
  <1>1. pc = "complete" /\ local \in WorkloadVersions /\ ph \in Phases
    BY DEF CompletePhase, TypeInv, TypeOK, InPhase
  <1>2. new \in WorkloadVersions /\ new.generation = local.generation
            /\ new.traceId = local.traceId /\ new.spec = local.spec
    BY <1>1, AfterPhaseType
  <1>3. fresh => new \in WorkloadVersions /\ new.generation = GenerationOf(new)
    BY <1>1, <1>2, StatusWriteType
  <1>4. /\ UNCHANGED <<cache, items, world, crashes, touches, losses>>
        /\ \/ \E accepted \in BOOLEAN : Update(new, accepted)
           \/ UNCHANGED <<obj, fresh, faults>>
        /\ \/ /\ local' = new
              /\ pc' = "phase"
              /\ ph' = ph + 1
              /\ UNCHANGED <<queued, oldPhase, todo>>
           \/ Return(Requeues(state))
    BY DEF CompletePhase
  <1> HIDE DEF new
  <1>5. /\ obj' \in WorkloadVersions
        /\ obj'.generation = (GenerationOf(obj))'
        /\ fresh' \in BOOLEAN
        /\ faults' \in 0..MaxFaults
        /\ fresh' => fresh /\ (obj' = new \/ obj' = obj)
    <2>1. CASE \E accepted \in BOOLEAN : Update(new, accepted)
      BY <1>3, <1>4, <2>1, UpdateType
    <2>2. CASE UNCHANGED <<obj, fresh, faults>>
      BY <1>4, <2>2 DEF TypeInv, TypeOK, GenerationOf
    <2> QED
      BY <1>4, <2>1, <2>2
  <1>6. CASE local' = new /\ pc' = "phase" /\ ph' = ph + 1
                /\ UNCHANGED <<queued, oldPhase, todo>>
    <2>1. ph' \in 1..6
      BY <1>1, <1>6 DEF Phases
    <2>2. Agreement'
      BY <1>1, <1>2, <1>5, <1>6 DEF TypeInv, Agreement
    <2> QED
      BY <1>2, <1>4, <1>5, <1>6, <2>1, <2>2 DEF TypeInv, TypeOK, InPhase, world, PCs
  <1>7. CASE Return(Requeues(state))
    <2>1. Requeues(state) \in BOOLEAN
      BY DEF Requeues, IsCompleted
    <2>2. /\ pc' = "idle" /\ queued' \in BOOLEAN /\ local' \in WorkloadVersions
          /\ ph' \in 1..6 /\ oldPhase' \in 0..6 /\ todo' \in SUBSET Checks
      BY <1>7, <2>1, ReturnType
    <2> QED
      BY <1>4, <1>5, <2>2 DEF TypeInv, TypeOK, Agreement, InPhase, world, PCs
  <1> QED
    BY <1>4, <1>6, <1>7

LEMMA FinishReconcileType == TypeInv /\ FinishReconcile => TypeInv'
  <1> SUFFICES ASSUME TypeInv, FinishReconcile PROVE TypeInv'
    OBVIOUS
  <1> DEFINE new == FinishedVersion(local)
  <1>1. pc = "finish" /\ local \in WorkloadVersions
    BY DEF FinishReconcile, TypeInv, TypeOK
  <1>2. fresh => new \in WorkloadVersions /\ new.generation = GenerationOf(new)
    BY <1>1, FinishedVersionType, StatusWriteType
  <1>3. PICK accepted \in BOOLEAN : Update(new, accepted) /\ Return(~accepted)
    BY DEF FinishReconcile
  <1>4. UNCHANGED <<cache, items, world, crashes, touches, losses>>
    BY DEF FinishReconcile
  <1> HIDE DEF new
  <1>5. /\ obj' \in WorkloadVersions
        /\ obj'.generation = (GenerationOf(obj))'
        /\ fresh' \in BOOLEAN
        /\ faults' \in 0..MaxFaults
    BY <1>2, <1>3, <1>4, UpdateType
  <1>6. /\ pc' = "idle" /\ queued' \in BOOLEAN /\ local' \in WorkloadVersions
        /\ ph' \in 1..6 /\ oldPhase' \in 0..6 /\ todo' \in SUBSET Checks
    BY <1>3, ReturnType
  <1> QED
    BY <1>4, <1>5, <1>6 DEF TypeInv, TypeOK, Agreement, InPhase, world, PCs

LEMMA ControllerType == TypeInv /\ Controller => TypeInv'
  BY StartReconcileType, CheckAppType, SetAppContextMetadataType, SetTraceIdType,
     EnterPhaseType, AllPhasesSucceededType, ReconcileCheckType, RecordChecksType,
     ReconcileDeploymentType, CompletePhaseType, FinishReconcileType DEF Controller

LEMMA ItemObjectUpdates ==
    ASSUME NEW its \in [Checks -> [Copies -> ItemObject]], NEW c \in Checks, NEW n \in Copies
    PROVE  /\ \A t \in {"no", "new", "yes", "gone"} :
                [its EXCEPT ![c][n].there = t] \in [Checks -> [Copies -> ItemObject]]
           /\ \A t \in {StatePending, StateProgressing, StateSucceeded, StateFailed} :
                [its EXCEPT ![c][n].status = t] \in [Checks -> [Copies -> ItemObject]]
           /\ \A b \in BOOLEAN :
                [its EXCEPT ![c][n].succeeded = b] \in [Checks -> [Copies -> ItemObject]]
  <1>1. its[c][n] \in ItemObject
    OBVIOUS
  <1>2. /\ \A t \in {"no", "new", "yes", "gone"} :
            [its[c][n] EXCEPT !.there = t] \in ItemObject
        /\ \A t \in {StatePending, StateProgressing, StateSucceeded, StateFailed} :
            [its[c][n] EXCEPT !.status = t] \in ItemObject
        /\ \A b \in BOOLEAN : [its[c][n] EXCEPT !.succeeded = b] \in ItemObject
    BY <1>1 DEF ItemObject
  <1> QED
    BY <1>2

\* Everybody else's steps.
LEMMA EnvironmentType == TypeInv /\ (Sync \/ RemoveGate \/ Items \/ Environment) => TypeInv'
  <1> SUFFICES ASSUME TypeInv, Sync \/ RemoveGate \/ Items \/ Environment
               PROVE  TypeInv'
    OBVIOUS
  <1>1. CASE Sync
    BY <1>1 DEF Sync, TypeInv, TypeOK, Agreement, InPhase, world, used, GenerationOf
  <1>2. CASE RemoveGate
    BY <1>2 DEF RemoveGate, TypeInv, TypeOK, Agreement, InPhase, reconciler, used, GenerationOf
  <1>3. ASSUME NEW c \in Checks, NEW n \in Copies, ItemProgresses(c, n)
        PROVE  TypeInv'
    <2>1. items' \in [Checks -> [Copies -> ItemObject]]
      <3>0. items \in [Checks -> [Copies -> ItemObject]]
        BY DEF TypeInv, TypeOK
      <3>1. CASE items' = [items EXCEPT ![c][n].there = "yes"]
        BY <3>0, <3>1, ItemObjectUpdates
      <3>2. ASSUME NEW s \in {StateProgressing, StateSucceeded, StateFailed},
                   items' = [items EXCEPT ![c][n].status = s,
                                          ![c][n].succeeded = @ \/ s = StateSucceeded]
            PROVE  items' \in [Checks -> [Copies -> ItemObject]]
        <4> DEFINE its == [items EXCEPT ![c][n].status = s]
                   b   == items[c][n].succeeded \/ s = StateSucceeded
        <4>1. s \in {StatePending, StateProgressing, StateSucceeded, StateFailed}
          OBVIOUS
        <4>2. its \in [Checks -> [Copies -> ItemObject]]
          BY <3>0, <4>1, ItemObjectUpdates, Zenon
        <4>3. its[c][n].succeeded = items[c][n].succeeded
          BY <3>0 DEF ItemObject
        <4>4. items' = [its EXCEPT ![c][n].succeeded = b]
          BY <3>0, <3>2, <4>3
        <4>5. b \in BOOLEAN
          BY <3>0 DEF ItemObject
        <4> HIDE DEF its, b
        <4> QED
          BY <4>2, <4>4, <4>5, ItemObjectUpdates
      <3> QED
        BY <1>3, <3>1, <3>2 DEF ItemProgresses
    <2> QED
      BY <1>3, <2>1 DEF ItemProgresses, TypeInv, TypeOK, Agreement, InPhase, reconciler,
         world, used, GenerationOf
  <1>4. ASSUME NEW c \in Checks, NEW n \in Copies, ItemDeleted(c, n)
        PROVE  TypeInv'
    <2>1. items' \in [Checks -> [Copies -> ItemObject]]
      BY <1>4, ItemObjectUpdates DEF ItemDeleted, TypeInv, TypeOK
    <2>2. losses' \in 0..MaxLosses
      BY <1>4, BoundAssumption DEF ItemDeleted, TypeInv, TypeOK
    <2> QED
      BY <1>4, <2>1, <2>2 DEF ItemDeleted, TypeInv, TypeOK, Agreement, InPhase, reconciler,
         world, GenerationOf
  <1>12. ASSUME NEW c \in Checks, NEW n \in Copies, ResultTakenBack(c, n)
         PROVE  TypeInv'
    <2>1. items' \in [Checks -> [Copies -> ItemObject]]
      <3>0. items \in [Checks -> [Copies -> ItemObject]]
        BY DEF TypeInv, TypeOK
      <3>1. CASE items' = [items EXCEPT ![c][n].status = StateProgressing]
        BY <3>0, <3>1, ItemObjectUpdates
      <3>2. CASE items' = [items EXCEPT ![c][n].status = StateFailed]
        BY <3>0, <3>2, ItemObjectUpdates
      <3> QED
        BY <1>12, <3>1, <3>2 DEF ResultTakenBack
    <2>2. losses' \in 0..MaxLosses
      BY <1>12, BoundAssumption DEF ResultTakenBack, TypeInv, TypeOK
    <2> QED
      BY <1>12, <2>1, <2>2 DEF ResultTakenBack, TypeInv, TypeOK, Agreement, InPhase,
         reconciler, world, GenerationOf
  <1>5. CASE ReadFails
    <2>1. /\ pc' = "idle" /\ queued' \in BOOLEAN /\ local' \in WorkloadVersions
          /\ ph' \in 1..6 /\ oldPhase' \in 0..6 /\ todo' \in SUBSET Checks
      BY <1>5, ReturnType DEF ReadFails
    <2>2. faults' \in 0..MaxFaults
      BY <1>5, BoundAssumption DEF ReadFails, TypeInv, TypeOK
    <2> QED
      BY <1>5, <2>1, <2>2 DEF ReadFails, TypeInv, TypeOK, Agreement, InPhase, world, PCs,
         GenerationOf
  <1>6. CASE Crash
    <2>1. crashes' \in 0..MaxCrashes
      BY <1>6, BoundAssumption DEF Crash, TypeInv, TypeOK
    <2>2. ph' \in 1..6 /\ oldPhase' \in 0..6
      BY <1>6 DEF Crash, PreDeploymentTasks, NoPhase
    <2> QED
      BY <1>6, <2>1, <2>2, NewWorkloadVersionType DEF Crash, TypeInv, TypeOK, Agreement,
         InPhase, world, PCs, GenerationOf
  <1>7. ASSUME NEW spec \in Specs, TouchSpec(spec)
        PROVE  TypeInv'
    <2>1. touches' \in 0..MaxTouches
      BY <1>7, BoundAssumption DEF TouchSpec, TypeInv, TypeOK
    <2>6. spec \in SUBSET Checks /\ overlooked' \subseteq Checks
      BY <1>7, CheckAssumption DEF TouchSpec, TypeInv, TypeOK
    <2>2. obj.generation + 1 \in 0..(MaxTouches + 1)
      BY <1>7, BoundAssumption DEF TouchSpec, TypeInv, TypeOK, GenerationOf
    <2>3. obj' \in WorkloadVersions
      BY <1>7, <2>2, <2>6 DEF TouchSpec, TypeInv, TypeOK, WorkloadVersions
    <2>4. obj'.generation = obj.generation + 1 /\ obj'.traceId = obj.traceId
      BY <1>7 DEF TouchSpec, TypeInv, TypeOK, WorkloadVersions
    <2>5. obj'.generation = (GenerationOf(obj))'
      BY <1>7, <2>4, BoundAssumption DEF TouchSpec, TypeInv, TypeOK, GenerationOf
    <2> QED
      BY <1>7, <2>1, <2>3, <2>5, <2>6 DEF TouchSpec, TypeInv, TypeOK, Agreement, InPhase
  <1>8. CASE AppDecides
    <2>1. appPreEval' \in KeptnStates
      BY <1>8 DEF AppDecides, KeptnStates
    <2> QED
      BY <1>8, <2>1 DEF AppDecides, TypeInv, TypeOK, Agreement, InPhase, reconciler, used,
         GenerationOf
  <1>9. CASE PodStarts
    BY <1>9 DEF PodStarts, TypeInv, TypeOK, Agreement, InPhase, reconciler, used, GenerationOf
  <1>10. CASE DeadlinePasses
    BY <1>10 DEF DeadlinePasses, TypeInv, TypeOK, Agreement, InPhase, reconciler, used,
       GenerationOf
  <1>11. CASE SwitchBlocking
    <2>1. block' \in BOOLEAN
      BY <1>11 DEF SwitchBlocking
    <2> QED
      BY <1>11, <2>1 DEF SwitchBlocking, TypeInv, TypeOK, Agreement, InPhase, reconciler,
         used, GenerationOf
  <1> QED
    BY <1>1, <1>2, <1>3, <1>4, <1>5, <1>6, <1>7, <1>8, <1>9, <1>10, <1>11, <1>12
       DEF Items, Environment

LEMMA StutterType == TypeInv /\ UNCHANGED vars => TypeInv'
  BY DEF vars, reconciler, world, used, TypeInv, TypeOK, Agreement, InPhase, GenerationOf

\* The strengthened type invariant holds in every reachable state.
LEMMA TypeInvariant == Spec => []TypeInv
  <1>1. TypeInv /\ [Next]_vars => TypeInv'
    BY ControllerType, EnvironmentType, StutterType DEF Next
  <1> QED
    BY <1>1, InitType, PTL DEF Spec

\* Every variable stays in its type; in particular the generation of the
\* object counts the foreign spec updates and at most one write of the
\* controller's own, so its writes do not keep triggering it.
THEOREM TypeCorrect == Spec => []TypeOK
  <1>1. TypeInv => TypeOK
    BY DEF TypeInv
  <1> QED
    BY <1>1, TypeInvariant, PTL

-----------------------------------------------------------------------------
(***************************************************************************)
(* How a workload version fails: the stored status always says where, and  *)
(* no later write undoes it.  The difficulty is that the status is written *)
(* from copies that may be old, in two writes of which the second may be   *)
(* lost; the argument is that a copy is written only while it is current,  *)
(* and that a current copy of a failed object is never driven on.          *)
(***************************************************************************)

\* Only a failed item has deprecated phases.
DeprecatedOnlyIfFailed(item) ==
    (\E p \in Phases : item.phaseStatus[p] = StateDeprecated) => item.status = StateFailed

Sound(item) == FailureShapeOf(item) /\ DeprecatedOnlyIfFailed(item)

SameResult(item1, item2) ==
    /\ item1.status = item2.status
    /\ item1.phaseStatus = item2.phaseStatus
    /\ item1.endTime = item2.endTime

\* All phases before the one being handled are done in the local copy.
EarlierPhasesDone ==
    pc = "phase" \/ InPhase =>
        \A q \in Phases : q < ph => PhaseDone(local.phaseStatus[q])

FailureInv ==
    /\ TypeInv
    /\ Sound(obj)
    /\ Sound(cache)
    /\ Sound(local)
    /\ pc # "idle" /\ fresh => SameResult(local, obj)
    /\ InPhase => ~ShouldAbortPhase(local)
    /\ EarlierPhasesDone
    /\ pc = "deployment" => ph = Deployment
    /\ pc \in {"idle", "checkApp", "setMetadata", "setTraceId"} => ph = PreDeploymentTasks

-----------------------------------------------------------------------------
LEMMA SoundNew ==
    /\ Sound(NewWorkloadVersion)
    /\ \A spec : Sound([NewWorkloadVersion EXCEPT !.spec = spec])
  BY DEF Sound, FailureShapeOf, DeprecatedOnlyIfFailed, NewWorkloadVersion, StatePending,
     StateFailed, StateDeprecated

LEMMA SoundSame ==
    ASSUME NEW item1, NEW item2, Sound(item1), SameResult(item2, item1)
    PROVE  Sound(item2)
  BY DEF Sound, SameResult, FailureShapeOf, DeprecatedOnlyIfFailed

\* A new state of one phase of an item that has not failed.
LEMMA SoundPhaseUpdate ==
    ASSUME NEW item1 \in WorkloadVersions, NEW item2 \in WorkloadVersions,
           Sound(item1), item1.status # StateFailed,
           item2.status = item1.status,
           NEW p, NEW state, state # StateDeprecated,
           item2.phaseStatus = [item1.phaseStatus EXCEPT ![p] = state]
    PROVE  Sound(item2)
  BY DEF Sound, FailureShapeOf, DeprecatedOnlyIfFailed, WorkloadVersions

\* handleCompletedPhase leaves a well-formed failure behind.
LEMMA SoundAfterPhase ==
    ASSUME NEW item \in WorkloadVersions, NEW p \in Phases, Sound(item),
           item.status # StateFailed,
           \A q \in Phases : q < p => PhaseDone(item.phaseStatus[q])
    PROVE  Sound(AfterPhase(item, p, item.phaseStatus[p]))
  <1> DEFINE state == item.phaseStatus[p]
             new   == AfterPhase(item, p, state)
  <1>1. CASE state = StateFailed
    <2>1. /\ new.status = StateFailed
          /\ new.endTime
          /\ \A q \in Phases : new.phaseStatus[q] =
                IF q > p THEN StateDeprecated ELSE item.phaseStatus[q]
      BY <1>1 DEF AfterPhase, DeprecateRemainingPhases, WorkloadVersions
    <2>2. FailureShapeOf(new)
      <3>1. new.phaseStatus[p] = StateFailed
        BY <1>1, <2>1 DEF Phases
      <3>2. \A q \in Phases : q < p => PhaseDone(new.phaseStatus[q])
        BY <2>1 DEF Phases
      <3>3. \A q \in Phases : q > p => new.phaseStatus[q] = StateDeprecated
        BY <2>1
      <3> HIDE DEF new
      <3> QED
        BY <2>1, <3>1, <3>2, <3>3 DEF FailureShapeOf
    <2> QED
      BY <2>1, <2>2 DEF Sound, DeprecatedOnlyIfFailed
  <1>2. CASE state # StateFailed /\ IsCompleted(state)
    BY <1>2 DEF AfterPhase
  <1>3. CASE state # StateFailed /\ ~IsCompleted(state)
    <2>1. new.status = StateProgressing /\ new.phaseStatus = item.phaseStatus
      BY <1>3 DEF AfterPhase, WorkloadVersions
    <2> HIDE DEF new
    <2>2. Sound(new)
      BY <2>1 DEF Sound, FailureShapeOf, DeprecatedOnlyIfFailed, StateProgressing, StateFailed
    <2> QED
      BY <2>2 DEF new
  <1> QED
    BY <1>1, <1>2, <1>3

LEMMA SoundFinished ==
    ASSUME NEW item \in WorkloadVersions, Sound(item)
    PROVE  Sound(FinishedVersion(item))
  <1>1. CASE item.endTime
    BY <1>1 DEF FinishedVersion
  <1>2. CASE ~item.endTime
    <2> DEFINE new == FinishedVersion(item)
    <2>1. new.status = StateSucceeded /\ new.phaseStatus = item.phaseStatus
      BY <1>2 DEF FinishedVersion, WorkloadVersions
    <2>2. item.status # StateFailed
      BY <1>2 DEF Sound, FailureShapeOf
    <2> HIDE DEF new
    <2>3. Sound(new)
      BY <2>1, <2>2 DEF Sound, FailureShapeOf, DeprecatedOnlyIfFailed, StateSucceeded,
         StateFailed
    <2> QED
      BY <2>3 DEF new
  <1> QED
    BY <1>1, <1>2

LEMMA InitFailure == Init => FailureInv
  BY InitType, SoundNew DEF Init, FailureInv, InPhase, EarlierPhasesDone

\* What Update can do to the stored object.
LEMMA UpdateEffect ==
    ASSUME NEW new, NEW accepted \in BOOLEAN, Update(new, accepted)
    PROVE  /\ obj' = obj \/ (fresh /\ obj' = new)
           /\ accepted => fresh /\ fresh' /\ obj' = new
           /\ ~accepted /\ fresh' => fresh /\ obj' = obj
  BY DEF Update

-----------------------------------------------------------------------------
(***************************************************************************)
(* FailureInv is inductive.                                                *)
(***************************************************************************)
\* Returning, and restarting, forget the local copy.
LEMMA ReturnFailure ==
    ASSUME FailureInv, TypeInv', NEW requeue, Return(requeue), Sound(obj'), UNCHANGED cache
    PROVE  FailureInv'
  BY SoundNew DEF FailureInv, Return, InPhase, EarlierPhasesDone

LEMMA WriteOrReturnFailure ==
    ASSUME FailureInv, TypeInv', NEW new, NEW label, WriteOrReturn(new, label), Sound(new),
           \/ /\ label = "complete"
              /\ ~ShouldAbortPhase(new)
              /\ \A q \in Phases : q < ph => PhaseDone(new.phaseStatus[q])
           \/ label \in {"setTraceId", "phase"} /\ ph = PreDeploymentTasks
    PROVE  FailureInv'
  <1>0. UNCHANGED cache
    BY DEF WriteOrReturn
  <1>1. CASE Update(new, TRUE) /\ local' = new /\ Goto(label)
    <2>1. obj' = new /\ local' = new /\ pc' = label /\ ph' = ph
      BY <1>1, UpdateEffect DEF Goto
    <2>2. Sound(obj') /\ Sound(cache') /\ Sound(local') /\ SameResult(local', obj')
      BY <1>0, <2>1 DEF FailureInv, SameResult
    <2>3. (InPhase => ~ShouldAbortPhase(local))'
      BY <2>1 DEF InPhase, ShouldAbortPhase
    <2>4. EarlierPhasesDone'
      BY <2>1 DEF EarlierPhasesDone, InPhase, PreDeploymentTasks, Phases
    <2> QED
      BY <2>1, <2>2, <2>3, <2>4 DEF FailureInv
  <1>2. CASE Update(new, FALSE) /\ Return(TRUE)
    <2>1. Sound(obj')
      BY <1>2, UpdateEffect DEF FailureInv
    <2> QED
      BY <1>0, <1>2, <2>1, ReturnFailure
  <1> QED
    BY <1>1, <1>2 DEF WriteOrReturn

LEMMA StartReconcileFailure == FailureInv /\ TypeInv' /\ StartReconcile => FailureInv'
  BY DEF FailureInv, StartReconcile, SameResult, InPhase, EarlierPhasesDone

LEMMA CheckAppFailure ==
    FailureInv /\ TypeInv' /\ CheckPreEvaluationStatusOfApp => FailureInv'
  <1> SUFFICES ASSUME FailureInv, TypeInv', CheckPreEvaluationStatusOfApp PROVE FailureInv'
    OBVIOUS
  <1>1. CASE Return(TRUE)
    BY <1>1, ReturnFailure DEF CheckPreEvaluationStatusOfApp, FailureInv
  <1>2. CASE UNCHANGED local /\ (Goto("phase") \/ Goto("setMetadata"))
    BY <1>2 DEF CheckPreEvaluationStatusOfApp, Goto, FailureInv, InPhase, EarlierPhasesDone,
       PreDeploymentTasks, Phases
  <1> QED
    BY <1>1, <1>2 DEF CheckPreEvaluationStatusOfApp

LEMMA SetAppContextMetadataFailure ==
    FailureInv /\ TypeInv' /\ SetAppContextMetadata => FailureInv'
  <1> SUFFICES ASSUME FailureInv, TypeInv', SetAppContextMetadata PROVE FailureInv'
    OBVIOUS
  <1> DEFINE new == [local EXCEPT !.appContextMetadata = TRUE]
  <1>1. local \in WorkloadVersions /\ Sound(local) /\ ph = PreDeploymentTasks
    BY DEF FailureInv, TypeInv, TypeOK, SetAppContextMetadata
  <1>2. SameResult(new, local)
    BY <1>1 DEF SameResult, WorkloadVersions
  <1> HIDE DEF new
  <1>3. CASE WriteOrReturn(new, "setTraceId")
    BY <1>1, <1>2, <1>3, SoundSame, WriteOrReturnFailure
  <1>4. CASE local.appContextMetadata
    BY <1>4 DEF SetAppContextMetadata, SetOnce, Goto, FailureInv, InPhase, EarlierPhasesDone
  <1> QED
    BY <1>3, <1>4 DEF SetAppContextMetadata, SetOnce, new

LEMMA SetTraceIdFailure == FailureInv /\ TypeInv' /\ SetTraceId => FailureInv'
  <1> SUFFICES ASSUME FailureInv, TypeInv', SetTraceId PROVE FailureInv'
    OBVIOUS
  <1> DEFINE new == [local EXCEPT !.traceId = TRUE, !.generation = @ + 1]
  <1>1. local \in WorkloadVersions /\ Sound(local) /\ ph = PreDeploymentTasks
    BY DEF FailureInv, TypeInv, TypeOK, SetTraceId
  <1>2. SameResult(new, local)
    BY <1>1 DEF SameResult, WorkloadVersions
  <1> HIDE DEF new
  <1>3. CASE WriteOrReturn(new, "phase")
    BY <1>1, <1>2, <1>3, SoundSame, WriteOrReturnFailure
  <1>4. CASE local.traceId
    BY <1>4 DEF SetTraceId, SetOnce, Goto, FailureInv, InPhase, EarlierPhasesDone,
       PreDeploymentTasks, Phases
  <1> QED
    BY <1>3, <1>4 DEF SetTraceId, SetOnce, new

LEMMA EnterPhaseFailure == FailureInv /\ TypeInv' /\ EnterPhase => FailureInv'
  <1> SUFFICES ASSUME FailureInv, TypeInv', EnterPhase PROVE FailureInv'
    OBVIOUS
  <1>0. UNCHANGED <<obj, cache, fresh>>
    BY DEF EnterPhase
  <1>1. CASE Return(FALSE)
    BY <1>0, <1>1, ReturnFailure DEF FailureInv
  <1>2. CASE ~Return(FALSE)
    <2>1. PICK p \in ph..PostDeploymentEvaluations :
            /\ \A q \in ph..(p - 1) : Succeeded(local, q)
            /\ ~ShouldAbortPhase(local)
            /\ local' = [local EXCEPT !.currentPhase = p]
            /\ pc' = IF p = Deployment THEN "deployment" ELSE "checks"
            /\ ph' = p
      BY <1>2 DEF EnterPhase
    <2>2. ph \in 1..6 /\ local \in WorkloadVersions /\ pc = "phase"
      BY DEF FailureInv, TypeInv, TypeOK, EnterPhase
    <2>3. SameResult(local', local)
      BY <2>1, <2>2 DEF SameResult, WorkloadVersions
    <2>4. EarlierPhasesDone'
      <3> SUFFICES ASSUME NEW q \in Phases, q < p PROVE PhaseDone(local'.phaseStatus[q])
        BY <2>1 DEF EarlierPhasesDone
      <3>1. CASE q < ph
        BY <2>2, <2>3, <3>1 DEF FailureInv, EarlierPhasesDone, SameResult
      <3>2. CASE ~(q < ph)
        <4>1. q \in ph..(p - 1)
          BY <2>1, <2>2, <3>2 DEF Phases
        <4>2. Succeeded(local, q)
          BY <2>1, <4>1
        <4> QED
          BY <2>3, <4>2 DEF Succeeded, IsPhaseSucceeded, PhaseDone, SameResult
      <3> QED
        BY <3>1, <3>2
    <2>5. Sound(local') /\ ~ShouldAbortPhase(local)'
      BY <2>1, <2>3, SoundSame DEF FailureInv, ShouldAbortPhase, SameResult
    <2>6. pc # "idle" /\ fresh => SameResult(local', obj)
      BY <2>3 DEF FailureInv, SameResult
    <2> QED
      BY <1>0, <2>1, <2>2, <2>4, <2>5, <2>6 DEF FailureInv, InPhase
  <1> QED
    BY <1>1, <1>2

LEMMA AllPhasesSucceededFailure ==
    FailureInv /\ TypeInv' /\ AllPhasesSucceeded => FailureInv'
  BY DEF FailureInv, AllPhasesSucceeded, Goto, InPhase, EarlierPhasesDone

LEMMA ReconcileCheckFailure ==
    ASSUME FailureInv, TypeInv', NEW c \in Checks, ReconcileCheck(c)
    PROVE  FailureInv'
  <1>1. SameResult(local', local)
    BY CheckTurnType DEF ReconcileCheck, SameResult, FailureInv
  <1>2. Sound(local')
    BY <1>1, SoundSame DEF FailureInv
  <1>3. UNCHANGED <<obj, cache, fresh, pc, ph>> /\ pc = "checks"
    BY DEF ReconcileCheck
  <1>4. (InPhase => ~ShouldAbortPhase(local))' /\ EarlierPhasesDone'
    BY <1>1, <1>3 DEF FailureInv, InPhase, ShouldAbortPhase, EarlierPhasesDone, SameResult
  <1> QED
    BY <1>1, <1>2, <1>3, <1>4 DEF FailureInv, SameResult

\* The new state of the phase being handled.
LEMMA PhaseRecorded ==
    ASSUME FailureInv, InPhase, NEW state \in KeptnStates \ {StateDeprecated},
           NEW new \in WorkloadVersions,
           new.status = local.status,
           new.phaseStatus = [local.phaseStatus EXCEPT ![ph] = state]
    PROVE  /\ Sound(new)
           /\ ~ShouldAbortPhase(new)
           /\ \A q \in Phases : q < ph => PhaseDone(new.phaseStatus[q])
  <1>1. /\ local \in WorkloadVersions /\ Sound(local) /\ ~ShouldAbortPhase(local)
        /\ ph \in Phases
    BY DEF FailureInv, TypeInv, TypeOK
  <1>2. local.status # StateFailed
    BY <1>1 DEF ShouldAbortPhase
  <1>3. Sound(new)
    BY <1>1, <1>2, SoundPhaseUpdate
  <1>4. \A q \in Phases : q < ph => new.phaseStatus[q] = local.phaseStatus[q]
    BY <1>1 DEF WorkloadVersions, Phases
  <1>5. \A q \in Phases : q < ph => PhaseDone(new.phaseStatus[q])
    BY <1>4 DEF FailureInv, EarlierPhasesDone
  <1> QED
    BY <1>1, <1>3, <1>5 DEF ShouldAbortPhase

LEMMA RecordChecksFailure == FailureInv /\ TypeInv' /\ RecordChecks => FailureInv'
  <1> SUFFICES ASSUME FailureInv, TypeInv', RecordChecks PROVE FailureInv'
    OBVIOUS
  <1> DEFINE state == PhaseStateOf(local, ph)
             new   == [local EXCEPT !.phaseStatus[ph] = state,
                                    !.checkStatus = StatusList(local, ph)]
  <1>1. /\ local \in WorkloadVersions /\ ph \in Phases /\ InPhase
        /\ StatusList(local, ph) \in [Checks -> ItemStatus]
    BY StatusListType DEF FailureInv, TypeInv, TypeOK, InPhase, RecordChecks
  <1>2. state \in KeptnStates \ {StateDeprecated}
    BY SummaryStateType DEF PhaseStateOf
  <1>3. WriteOrReturn(new, "complete")
    BY DEF RecordChecks
  <1> HIDE DEF state
  <1>4. /\ new \in WorkloadVersions /\ new.status = local.status
        /\ new.phaseStatus = [local.phaseStatus EXCEPT ![ph] = state]
    BY <1>1, <1>2 DEF WorkloadVersions
  <1> HIDE DEF new
  <1> QED
    BY <1>1, <1>2, <1>3, <1>4, PhaseRecorded, WriteOrReturnFailure

LEMMA ReconcileDeploymentFailure ==
    FailureInv /\ TypeInv' /\ ReconcileDeployment => FailureInv'
  <1> SUFFICES ASSUME FailureInv, TypeInv', ReconcileDeployment PROVE FailureInv'
    OBVIOUS
  <1> DEFINE state == DeploymentStateOf(local)
             new   == [local EXCEPT !.phaseStatus[Deployment] = state,
                                    !.deploymentStartTime = TRUE]
  <1>1. local \in WorkloadVersions /\ ph = Deployment /\ InPhase
    BY DEF FailureInv, TypeInv, TypeOK, InPhase, ReconcileDeployment
  <1>2. state \in KeptnStates \ {StateDeprecated}
    <2>1. local.status # StateFailed
      BY <1>1 DEF FailureInv, ShouldAbortPhase
    <2>2. Deployment \in Phases
      BY DEF Deployment, Phases
    <2>3. local.phaseStatus[Deployment] \in KeptnStates \ {StateDeprecated}
      BY <1>1, <2>1, <2>2 DEF FailureInv, Sound, DeprecatedOnlyIfFailed, WorkloadVersions
    <2> QED
      BY <2>3 DEF DeploymentStateOf, KeptnStates, StateFailed, StateSucceeded,
         StateProgressing, StateDeprecated
  <1>3. WriteOrReturn(new, "complete")
    BY DEF ReconcileDeployment
  <1> HIDE DEF state
  <1>4. /\ new \in WorkloadVersions /\ new.status = local.status
        /\ new.phaseStatus = [local.phaseStatus EXCEPT ![ph] = state]
    BY <1>1, <1>2 DEF WorkloadVersions
  <1> HIDE DEF new
  <1> QED
    BY <1>1, <1>2, <1>3, <1>4, PhaseRecorded, WriteOrReturnFailure

\* A phase that lets the reconciliation go on leaves the item as it is.
LEMMA ContinuesUnchanged ==
    ASSUME NEW item, NEW p, NEW state, Continues(state)
    PROVE  AfterPhase(item, p, state) = item
  BY DEF Continues, AfterPhase

LEMMA CompletePhaseFailure == FailureInv /\ TypeInv' /\ CompletePhase => FailureInv'
  <1> SUFFICES ASSUME FailureInv, TypeInv', CompletePhase PROVE FailureInv'
    OBVIOUS
  <1> DEFINE state == local.phaseStatus[ph]
             new   == AfterPhase(local, ph, state)
  <1>1. /\ pc = "complete" /\ local \in WorkloadVersions /\ ph \in Phases
        /\ Sound(local) /\ local.status # StateFailed
        /\ \A q \in Phases : q < ph => PhaseDone(local.phaseStatus[q])
    BY DEF CompletePhase, FailureInv, TypeInv, TypeOK, InPhase, ShouldAbortPhase,
       EarlierPhasesDone
  <1>2. Sound(new)
    BY <1>1, SoundAfterPhase
  <1>3. /\ UNCHANGED cache
        /\ \/ \E accepted \in BOOLEAN : Update(new, accepted)
           \/ UNCHANGED <<obj, fresh, faults>>
        /\ \/ /\ Continues(state)
              /\ local' = new
              /\ pc' = "phase"
              /\ ph' = ph + 1
           \/ Return(Requeues(state))
    BY DEF CompletePhase
  <1>4. Continues(state) => new = local
    BY ContinuesUnchanged
  <1> HIDE DEF new
  <1>5. /\ obj' = obj \/ obj' = new
        /\ fresh' => fresh
    BY <1>3, UpdateEffect
  <1>6. Sound(obj')
    BY <1>2, <1>5 DEF FailureInv
  <1>7. CASE Continues(state) /\ local' = new /\ pc' = "phase" /\ ph' = ph + 1
    <2>1. local' = local
      BY <1>4, <1>7
    <2>2. PhaseDone(local.phaseStatus[ph])
      <3>1. local.phaseStatus[ph] # StateDeprecated
        BY <1>1 DEF Sound, DeprecatedOnlyIfFailed
      <3> QED
        BY <1>7, <3>1 DEF Continues, IsCompleted, PhaseDone
    <2>3. EarlierPhasesDone'
      BY <1>1, <1>7, <2>1, <2>2 DEF EarlierPhasesDone, InPhase, Phases
    <2>4. fresh' => SameResult(local', obj')
      BY <1>1, <1>4, <1>5, <1>7 DEF FailureInv, SameResult
    <2> QED
      BY <1>2, <1>3, <1>6, <1>7, <2>3, <2>4 DEF FailureInv, InPhase
  <1>8. CASE Return(Requeues(state))
    BY <1>3, <1>6, <1>8, ReturnFailure
  <1> QED
    BY <1>3, <1>7, <1>8

LEMMA FinishReconcileFailure == FailureInv /\ TypeInv' /\ FinishReconcile => FailureInv'
  <1> SUFFICES ASSUME FailureInv, TypeInv', FinishReconcile PROVE FailureInv'
    OBVIOUS
  <1>1. Sound(FinishedVersion(local))
    BY SoundFinished DEF FailureInv, TypeInv, TypeOK
  <1>2. PICK accepted \in BOOLEAN : Update(FinishedVersion(local), accepted) /\ Return(~accepted)
    BY DEF FinishReconcile
  <1>3. Sound(obj')
    BY <1>1, <1>2, UpdateEffect DEF FailureInv
  <1> QED
    BY <1>2, <1>3, ReturnFailure DEF FinishReconcile

\* Nobody else's step touches the result.
LEMMA EnvironmentFailure ==
    ASSUME FailureInv, TypeInv', Sync \/ RemoveGate \/ Items \/ Environment \/ UNCHANGED vars
    PROVE  FailureInv'
  <1>1. CASE Sync
    BY <1>1 DEF Sync, FailureInv, InPhase, EarlierPhasesDone
  <1>2. CASE ReadFails
    BY <1>2, ReturnFailure DEF ReadFails, FailureInv
  <1>3. CASE Crash
    BY <1>3, SoundNew DEF Crash, FailureInv, InPhase, EarlierPhasesDone
  <1>4. ASSUME NEW spec \in Specs, TouchSpec(spec)
        PROVE  FailureInv'
    <2>1. SameResult(obj', obj)
      BY <1>4 DEF TouchSpec, SameResult, FailureInv, TypeInv, TypeOK, WorkloadVersions
    <2> QED
      BY <1>4, <2>1, SoundSame DEF TouchSpec, FailureInv, InPhase, EarlierPhasesDone
  <1>5. CASE UNCHANGED <<obj, cache, reconciler>>
    BY <1>5 DEF reconciler, FailureInv, InPhase, EarlierPhasesDone
  <1> QED
    BY <1>1, <1>2, <1>3, <1>4, <1>5 DEF RemoveGate, Items, ItemProgresses, Environment,
       ItemDeleted, ResultTakenBack, AppDecides, PodStarts, DeadlinePasses, SwitchBlocking, vars

LEMMA StepFailure == FailureInv /\ [Next]_vars => FailureInv'
  <1> SUFFICES ASSUME FailureInv, [Next]_vars PROVE FailureInv'
    OBVIOUS
  <1>1. TypeInv'
    BY ControllerType, EnvironmentType, StutterType DEF Next, FailureInv
  <1>2. CASE Controller
    BY <1>1, <1>2, StartReconcileFailure, CheckAppFailure, SetAppContextMetadataFailure,
       SetTraceIdFailure, EnterPhaseFailure, AllPhasesSucceededFailure,
       ReconcileCheckFailure, RecordChecksFailure, ReconcileDeploymentFailure,
       CompletePhaseFailure, FinishReconcileFailure DEF Controller
  <1>3. CASE Sync \/ RemoveGate \/ Items \/ Environment \/ UNCHANGED vars
    BY <1>1, <1>3, EnvironmentFailure
  <1> QED
    BY <1>2, <1>3 DEF Next

\* The inductive invariant holds in every reachable state.
LEMMA FailureInvariant == Spec => []FailureInv
  BY InitFailure, StepFailure, PTL DEF Spec

\* However often the operator crashes, however many calls fail and however
\* stale its reads are: a stored workload version that has failed names the
\* one phase that failed, with all earlier phases done and all later ones
\* deprecated (handleCompletedPhase, DeprecateRemainingPhases).
THEOREM FailureShapeHolds == Spec => []FailureShape
  <1>1. FailureInv => FailureShape
    BY DEF FailureInv, Sound, FailureShape
  <1> QED
    BY <1>1, FailureInvariant, PTL

-----------------------------------------------------------------------------
(***************************************************************************)
(* A failure is final: whoever writes the object read it as failed, and a  *)
(* reconciliation that read a failed object changes neither the status nor *)
(* the state of a phase.                                                   *)
(***************************************************************************)
LEMMA FailedWrite ==
    ASSUME FailureInv, obj.status = StateFailed, NEW new, NEW accepted \in BOOLEAN,
           pc # "idle", Update(new, accepted),
           local.status = StateFailed => SameResult(new, local)
    PROVE  SameResult(obj', obj)
  <1>1. CASE obj' = obj
    BY <1>1 DEF SameResult
  <1>2. CASE fresh /\ obj' = new
    <2>1. SameResult(local, obj)
      BY <1>2 DEF FailureInv
    <2> QED
      BY <1>2, <2>1 DEF SameResult
  <1> QED
    BY <1>1, <1>2, UpdateEffect

LEMMA FailedWriteOrReturn ==
    ASSUME FailureInv, obj.status = StateFailed, NEW new, NEW label,
           pc # "idle", WriteOrReturn(new, label),
           local.status = StateFailed => SameResult(new, local)
    PROVE  SameResult(obj', obj)
  <1>1. PICK accepted \in BOOLEAN : Update(new, accepted)
    BY DEF WriteOrReturn
  <1> QED
    BY <1>1, FailedWrite

LEMMA FailedStep ==
    ASSUME FailureInv, obj.status = StateFailed, [Next]_vars
    PROVE  SameResult(obj', obj)
  <1>0. /\ local \in WorkloadVersions
        /\ InPhase => local.status # StateFailed
        /\ local.status = StateFailed => local.endTime
    BY DEF FailureInv, TypeInv, TypeOK, ShouldAbortPhase, Sound, FailureShapeOf
  <1>1. CASE UNCHANGED obj
    BY <1>1 DEF SameResult
  <1>2. CASE SetAppContextMetadata
    <2> DEFINE new == [local EXCEPT !.appContextMetadata = TRUE]
    <2>1. SameResult(new, local)
      BY <1>0 DEF SameResult, WorkloadVersions
    <2>2. pc # "idle" /\ (UNCHANGED obj \/ WriteOrReturn(new, "setTraceId"))
      BY <1>2 DEF SetAppContextMetadata, SetOnce
    <2> HIDE DEF new
    <2> QED
      BY <1>1, <2>1, <2>2, FailedWriteOrReturn
  <1>3. CASE SetTraceId
    <2> DEFINE new == [local EXCEPT !.traceId = TRUE, !.generation = @ + 1]
    <2>1. SameResult(new, local)
      BY <1>0 DEF SameResult, WorkloadVersions
    <2>2. pc # "idle" /\ (UNCHANGED obj \/ WriteOrReturn(new, "phase"))
      BY <1>3 DEF SetTraceId, SetOnce
    <2> HIDE DEF new
    <2> QED
      BY <1>1, <2>1, <2>2, FailedWriteOrReturn
  <1>4. CASE RecordChecks
    <2>1. InPhase /\ pc # "idle" /\ \E new : WriteOrReturn(new, "complete")
      BY <1>4 DEF RecordChecks, InPhase
    <2> QED
      BY <1>0, <2>1, FailedWriteOrReturn
  <1>5. CASE ReconcileDeployment
    <2>1. InPhase /\ pc # "idle" /\ \E new : WriteOrReturn(new, "complete")
      BY <1>5 DEF ReconcileDeployment, InPhase
    <2> QED
      BY <1>0, <2>1, FailedWriteOrReturn
  <1>6. CASE CompletePhase
    <2>1. /\ InPhase /\ pc # "idle"
          /\ UNCHANGED obj \/ \E new : \E accepted \in BOOLEAN : Update(new, accepted)
      BY <1>6 DEF CompletePhase, InPhase
    <2> QED
      BY <1>0, <1>1, <2>1, FailedWrite
  <1>7. CASE FinishReconcile
    <2>1. PICK accepted \in BOOLEAN : Update(FinishedVersion(local), accepted)
      BY <1>7 DEF FinishReconcile
    <2>2. local.status = StateFailed => SameResult(FinishedVersion(local), local)
      BY <1>0 DEF FinishedVersion, SameResult
    <2>3. pc # "idle"
      BY <1>7 DEF FinishReconcile
    <2> QED
      BY <2>1, <2>2, <2>3, FailedWrite
  <1>8. ASSUME NEW spec \in Specs, TouchSpec(spec)
        PROVE  SameResult(obj', obj)
    BY <1>8 DEF TouchSpec, SameResult, FailureInv, TypeInv, TypeOK, WorkloadVersions
  <1> QED
    BY <1>1, <1>2, <1>3, <1>4, <1>5, <1>6, <1>7, <1>8
       DEF Next, Controller, StartReconcile, CheckPreEvaluationStatusOfApp, EnterPhase,
           AllPhasesSucceeded, ReconcileCheck, Sync, RemoveGate, Items, ItemProgresses,
           Environment, ReadFails, Crash, ItemDeleted, ResultTakenBack, AppDecides, PodStarts,
           DeadlinePasses, SwitchBlocking, vars

\* Once the stored workload version has failed, no write of the controller
\* (a late deferred update, a finish after a restart, an old copy) gives it
\* another status or touches the state of a phase (shouldAbortPhase).
THEOREM FailedIsFinalHolds == Spec => FailedIsFinal
  <1> DEFINE Final == obj.status = StateFailed =>
                          /\ obj'.status = StateFailed
                          /\ obj'.phaseStatus = obj.phaseStatus
  <1>1. FailureInv /\ [Next]_vars => [Final]_vars
    BY FailedStep DEF SameResult
  <1> QED
    BY <1>1, FailureInvariant, PTL DEF Spec, FailedIsFinal

-----------------------------------------------------------------------------
(***************************************************************************)
(* What the recorded results of a workload version are worth: a check that *)
(* is recorded as succeeded did succeed, a phase that is recorded as       *)
(* succeeded had all its checks succeed, and a recorded result is never    *)
(* replaced.  Results are copied from the tasks and evaluations into an    *)
(* in-memory copy, from there to the API server and from there to the      *)
(* cache, and an object may be deleted or run again after it was copied;   *)
(* the argument is that each of the three copies claims only what has      *)
(* happened, and that what has happened stays so.                          *)
(***************************************************************************)

\* ResultsAreRealIn for given tasks and evaluations.
RealIn(item, its, od) ==
    /\ \A c \in Checks :
        item.checkStatus[c].status = StateSucceeded =>
            /\ item.checkStatus[c].name \in Copies
            /\ its[c][item.checkStatus[c].name].succeeded
    /\ \A c \in item.spec \ od :
        item.phaseStatus[CheckPhase[c]] = StateSucceeded =>
            item.checkStatus[c].status = StateSucceeded

\* An object that shows a success has had it.
ShownResultsAreReal ==
    \A c \in Checks, n \in Copies :
        items[c][n].status = StateSucceeded => items[c][n].succeeded

\* A current copy has every result that is recorded.
ResultsKnown ==
    pc # "idle" /\ fresh =>
        \A c \in obj.spec :
            HasResult(obj.checkStatus[c].status) => local.checkStatus[c] = obj.checkStatus[c]

ResultInv ==
    /\ TypeInv
    /\ ShownResultsAreReal
    /\ RealIn(obj, items, overlooked)
    /\ RealIn(cache, items, overlooked)
    /\ RealIn(local, items, overlooked)
    /\ ResultsKnown

\* The step part of ResultsAreFinal.
ResultsKept ==
    \A c \in obj.spec :
        obj.checkStatus[c].status \in {StateSucceeded, StateFailed} =>
            obj'.checkStatus[c] = obj.checkStatus[c]

-----------------------------------------------------------------------------
(***************************************************************************)
(* The state of a phase (GetOverallState).                                 *)
(***************************************************************************)
LEMMA PhaseSuccess ==
    ASSUME NEW item, item.spec \in SUBSET Checks,
           NEW p, PhaseStateOf(item, p) = StateSucceeded,
           NEW c \in item.spec, CheckPhase[c] = p
    PROVE  item.checkStatus[c].status = StateSucceeded
  <1> DEFINE st == [d \in ChecksOf(item, p) |-> ListedStatus(item, d)]
  <1>0. ChecksOf(item, p) \in SUBSET Checks
    BY DEF ChecksOf
  <1>1. IsFiniteSet(ChecksOf(item, p)) /\ c \in ChecksOf(item, p)
    BY <1>0, CheckAssumption, FS_Subset DEF ChecksOf
  <1>2. GetOverallState(UpdateStatusSummary(ChecksOf(item, p), st)) = StateSucceeded
    BY DEF PhaseStateOf, GetOverallStateBlockedDeployment, StateWarning, StateSucceeded
  <1>3. st[c] = StateSucceeded
    BY <1>1, <1>2, OverallSuccess
  <1> QED
    BY <1>1, <1>3 DEF ListedStatus, Unlisted, StateSucceeded

-----------------------------------------------------------------------------
(***************************************************************************)
(* Copies of the object.                                                   *)
(***************************************************************************)
LEMMA RealNew ==
    \A its, od :
        /\ RealIn(NewWorkloadVersion, its, od)
        /\ \A spec \in Specs : RealIn([NewWorkloadVersion EXCEPT !.spec = spec], its, od)
  BY CheckAssumption DEF RealIn, NewWorkloadVersion, NoItemStatus, StatePending, StateSucceeded,
     CheckPhases

\* A copy that has the same results and claims no other success of a phase.
LEMMA RealWeaker ==
    ASSUME NEW item1, NEW item2, NEW its, NEW od, RealIn(item1, its, od),
           item1.spec \in SUBSET Checks, item2.spec = item1.spec,
           item2.checkStatus = item1.checkStatus,
           \A p \in CheckPhases :
                item2.phaseStatus[p] = StateSucceeded => item1.phaseStatus[p] = StateSucceeded
    PROVE  RealIn(item2, its, od)
  BY CheckAssumption DEF RealIn

\* What has happened stays so.
LEMMA RealLater ==
    ASSUME NEW item, NEW its1, NEW its2, NEW od1, NEW od2, RealIn(item, its1, od1),
           \A c \in Checks, n \in Copies : its1[c][n].succeeded => its2[c][n].succeeded,
           od1 \subseteq od2
    PROVE  RealIn(item, its2, od2)
  BY DEF RealIn

\* The results of a check, once there, are kept by a turn of the loop.
LEMMA CheckTurnResult ==
    ASSUME ResultInv, NEW c \in Checks,
           KeepResult(c) \/ ReadItem(c) \/ CreateItem(c) \/ CreateItemFails(c)
    PROVE  /\ RealIn(local', items, overlooked)
           /\ \A d \in Checks : HasResult(local.checkStatus[d].status) =>
                                    local'.checkStatus[d] = local.checkStatus[d]
  <1>0. /\ local \in WorkloadVersions /\ RealIn(local, items, overlooked) /\ ShownResultsAreReal
        /\ local.checkStatus[c] \in ItemStatus
    BY DEF ResultInv, TypeInv, TypeOK, WorkloadVersions
  <1> DEFINE old == local.checkStatus[c]
  <1>1. ASSUME NEW st, ~HasResult(old.status), local' = [local EXCEPT !.checkStatus[c] = st],
               st.status = StateSucceeded =>
                    st.name \in Copies /\ items[c][st.name].succeeded
        PROVE  /\ RealIn(local', items, overlooked)
               /\ \A d \in Checks : HasResult(local.checkStatus[d].status) =>
                                        local'.checkStatus[d] = local.checkStatus[d]
    <2>1. /\ local'.phaseStatus = local.phaseStatus
          /\ local'.spec = local.spec /\ local.spec \subseteq Checks
          /\ local'.checkStatus[c] = st
          /\ \A d \in Checks : d # c => local'.checkStatus[d] = local.checkStatus[d]
      BY <1>0, <1>1 DEF WorkloadVersions
    <2>2. old.status # StateSucceeded
      BY <1>1 DEF HasResult
    <2>3. RealIn(local', items, overlooked)
      BY <1>0, <1>1, <2>1, <2>2 DEF RealIn
    <2> QED
      BY <1>1, <2>1, <2>3
  <1>2. CASE KeepResult(c)
    BY <1>0, <1>2 DEF KeepResult
  <1>3. CASE ReadItem(c)
    <2>1. old.name \in Copies /\ ~HasResult(old.status)
      BY <1>0, <1>3 DEF ReadItem, ItemStatus, Copies
    <2>2. CASE Visible(c, old.name)
      <3> DEFINE st == [old EXCEPT !.status = items[c][old.name].status]
      <3>1. st.status = items[c][old.name].status /\ st.name = old.name
        BY <1>0 DEF ItemStatus
      <3>2. local' = [local EXCEPT !.checkStatus[c] = st]
        BY <1>3, <2>2 DEF ReadItem
      <3> HIDE DEF st
      <3> QED
        BY <1>0, <1>1, <2>1, <3>1, <3>2 DEF ShownResultsAreReal
    <2>3. CASE ~Visible(c, old.name)
      <3> DEFINE st == [old EXCEPT !.name = 0, !.status = StatePending]
      <3>1. st.status # StateSucceeded
        BY <1>0 DEF ItemStatus, StatePending, StateSucceeded
      <3>2. local' = [local EXCEPT !.checkStatus[c] = st]
        BY <1>3, <2>3 DEF ReadItem
      <3> HIDE DEF st
      <3> QED
        BY <1>1, <2>1, <3>1, <3>2
    <2> QED
      BY <2>2, <2>3
  <1>4. CASE CreateItem(c)
    <2>1. PICK n \in Copies : local' = [local EXCEPT !.checkStatus[c] =
                                            [old EXCEPT !.listed = TRUE, !.name = n]]
      BY <1>4 DEF CreateItem
    <2> DEFINE st == [old EXCEPT !.listed = TRUE, !.name = n]
    <2>2. st.status = old.status /\ ~HasResult(old.status)
      BY <1>0, <1>4 DEF CreateItem, ItemStatus
    <2>3. local' = [local EXCEPT !.checkStatus[c] = st]
      BY <2>1
    <2> HIDE DEF st
    <2> QED
      BY <1>1, <2>2, <2>3 DEF HasResult
  <1>5. CASE CreateItemFails(c)
    <2>1. NoItemStatus.status # StateSucceeded
      BY DEF NoItemStatus, StatePending, StateSucceeded
    <2> QED
      BY <1>1, <1>5, <2>1 DEF CreateItemFails
  <1> QED
    BY <1>2, <1>3, <1>4, <1>5

-----------------------------------------------------------------------------
(***************************************************************************)
(* The tasks and evaluations.                                              *)
(***************************************************************************)
\* No object loses the success it had, whatever becomes of it afterwards.
LEMMA ItemsStep ==
    ASSUME TypeInv, ShownResultsAreReal, [Next]_vars
    PROVE  /\ \A c \in Checks, n \in Copies :
                items[c][n].succeeded => items'[c][n].succeeded
           /\ ShownResultsAreReal'
  <1> DEFINE Good == /\ \A c \in Checks, n \in Copies :
                            items[c][n].succeeded => items'[c][n].succeeded
                     /\ ShownResultsAreReal'
  <1>0. items \in [Checks -> [Copies -> ItemObject]]
    BY DEF TypeInv, TypeOK
  <1>1. ASSUME NEW c \in Checks, NEW n \in Copies, NEW it,
               items' = [items EXCEPT ![c][n] = it],
               items[c][n].succeeded => it.succeeded,
               it.status = StateSucceeded => it.succeeded
        PROVE  Good
    BY <1>0, <1>1 DEF ShownResultsAreReal
  <1>2. CASE UNCHANGED items
    BY <1>2 DEF ShownResultsAreReal
  <1>3. ASSUME NEW c \in Checks, NEW n \in Copies, NEW t,
               items' = [items EXCEPT ![c][n].there = t]
        PROVE  Good
    <2> DEFINE it == [items[c][n] EXCEPT !.there = t]
    <2>1. it.succeeded = items[c][n].succeeded /\ it.status = items[c][n].status
      BY <1>0 DEF ItemObject
    <2>2. items' = [items EXCEPT ![c][n] = it]
      BY <1>3
    <2> HIDE DEF it
    <2> QED
      BY <1>1, <2>1, <2>2 DEF ShownResultsAreReal
  <1>4. ASSUME NEW c \in Checks, ReconcileCheck(c) PROVE Good
    <2>1. CASE UNCHANGED items
      BY <1>2, <2>1
    <2>2. CASE \E n \in Copies : items' = WithCopy(c, n)
      BY <1>3, <2>2 DEF WithCopy
    <2> QED
      BY <1>4, <2>1, <2>2 DEF ReconcileCheck, KeepResult, ReadItem, CreateItem, CreateItemFails
  <1>5. ASSUME NEW c \in Checks, NEW n \in Copies, ItemProgresses(c, n) PROVE Good
    <2>1. CASE items' = [items EXCEPT ![c][n].there = "yes"]
      BY <1>3, <2>1
    <2>2. ASSUME NEW s, items' = [items EXCEPT ![c][n].status = s,
                                             ![c][n].succeeded = @ \/ s = StateSucceeded]
          PROVE  Good
      <3> DEFINE it == [items[c][n] EXCEPT !.status = s,
                                           !.succeeded = @ \/ s = StateSucceeded]
      <3>1. /\ it.status = s
            /\ it.succeeded = (items[c][n].succeeded \/ s = StateSucceeded)
        BY <1>0 DEF ItemObject
      <3>2. items' = [items EXCEPT ![c][n] = it]
        BY <1>0, <2>2 DEF ItemObject
      <3> HIDE DEF it
      <3> QED
        BY <1>1, <3>1, <3>2
    <2> QED
      BY <1>5, <2>1, <2>2 DEF ItemProgresses
  <1>6. ASSUME NEW c \in Checks, NEW n \in Copies, ItemDeleted(c, n) PROVE Good
    BY <1>3, <1>6 DEF ItemDeleted
  <1>7. ASSUME NEW c \in Checks, NEW n \in Copies, ResultTakenBack(c, n) PROVE Good
    <2>1. PICK s \in {StateProgressing, StateFailed} :
            items' = [items EXCEPT ![c][n].status = s]
      BY <1>7 DEF ResultTakenBack
    <2> DEFINE it == [items[c][n] EXCEPT !.status = s]
    <2>2. it.succeeded = items[c][n].succeeded /\ it.status # StateSucceeded
      BY <1>0 DEF ItemObject, StateProgressing, StateFailed, StateSucceeded
    <2>3. items' = [items EXCEPT ![c][n] = it]
      BY <2>1
    <2> HIDE DEF it
    <2> QED
      BY <1>1, <2>2, <2>3
  <1>8. CASE Controller /\ ~\E c \in Checks : ReconcileCheck(c)
    <2>1. UNCHANGED items
      BY <1>8 DEF Controller, StartReconcile, CheckPreEvaluationStatusOfApp,
         SetAppContextMetadata, SetTraceId, SetOnce, WriteOrReturn, EnterPhase,
         AllPhasesSucceeded, RecordChecks, ReconcileDeployment, CompletePhase, FinishReconcile
    <2> QED
      BY <1>2, <2>1
  <1>9. CASE \/ Sync \/ RemoveGate \/ ReadFails \/ Crash \/ AppDecides
             \/ (\E spec \in Specs : TouchSpec(spec)) \/ PodStarts \/ DeadlinePasses \/ SwitchBlocking \/ UNCHANGED vars
    <2>1. UNCHANGED items
      BY <1>9 DEF Sync, RemoveGate, ReadFails, Crash, TouchSpec, AppDecides, PodStarts,
         DeadlinePasses, SwitchBlocking, vars
    <2> QED
      BY <1>2, <2>1
  <1> QED
    BY <1>4, <1>5, <1>6, <1>7, <1>8, <1>9 DEF Next, Items, Environment

-----------------------------------------------------------------------------
(***************************************************************************)
(* ResultInv is inductive, and no step replaces a recorded result.  What   *)
(* a step does to the three copies is all that remains to be shown.        *)
(***************************************************************************)
Preserved == ResultInv' /\ ResultsKept

LEMMA InitResult == Init => ResultInv
  <1> SUFFICES ASSUME Init PROVE ResultInv
    OBVIOUS
  <1>1. /\ RealIn(obj, items, overlooked) /\ RealIn(cache, items, overlooked)
        /\ RealIn(local, items, overlooked)
    <2>1. PICK spec \in Specs : obj = [NewWorkloadVersion EXCEPT !.spec = spec]
      BY DEF Init
    <2>2. cache = obj /\ local = NewWorkloadVersion
      BY DEF Init
    <2> QED
      BY <2>1, <2>2, RealNew
  <1>2. ShownResultsAreReal /\ ResultsKnown
    BY DEF Init, ShownResultsAreReal, ResultsKnown, StatePending, StateSucceeded
  <1> QED
    BY <1>1, <1>2, InitType DEF ResultInv

\* What was overlooked stays so.
LEMMA OverlookedGrows == [Next]_vars => overlooked \subseteq overlooked'
  BY DEF Next, Controller, StartReconcile, CheckPreEvaluationStatusOfApp,
     SetAppContextMetadata, SetTraceId, SetOnce, WriteOrReturn, EnterPhase, AllPhasesSucceeded,
     ReconcileCheck, RecordChecks, ReconcileDeployment, CompletePhase, FinishReconcile, Sync,
     RemoveGate, Items, ItemProgresses, Environment, ReadFails, Crash, TouchSpec, ItemDeleted,
     ResultTakenBack, AppDecides, PodStarts, DeadlinePasses, SwitchBlocking, vars, world

LEMMA ResultFromCopies ==
    ASSUME ResultInv, [Next]_vars,
           RealIn(obj', items, overlooked) \/ RealIn(obj', items, overlooked'),
           RealIn(cache', items, overlooked), RealIn(local', items, overlooked),
           ResultsKnown', ResultsKept
    PROVE  Preserved
  <1>1. TypeInv'
    BY ControllerType, EnvironmentType, StutterType DEF Next, ResultInv
  <1>2. /\ ShownResultsAreReal'
        /\ \A c \in Checks, n \in Copies : items[c][n].succeeded => items'[c][n].succeeded
    BY ItemsStep DEF ResultInv
  <1>3. overlooked \subseteq overlooked'
    BY OverlookedGrows
  <1>4. /\ RealIn(obj', items', overlooked')
        /\ RealIn(cache', items', overlooked')
        /\ RealIn(local', items', overlooked')
    BY <1>2, <1>3, RealLater
  <1> QED
    BY <1>1, <1>2, <1>4 DEF Preserved, ResultInv

\* Neither the object nor the local copy takes anything new.
LEMMA ResultUnwritten ==
    ASSUME ResultInv, [Next]_vars,
           obj' = obj, cache' \in {cache, obj},
           \/ pc' = "idle" /\ local' = NewWorkloadVersion
           \/ /\ pc # "idle" /\ (fresh' => fresh)
              /\ local'.spec = local.spec
              /\ local'.checkStatus = local.checkStatus
              /\ local'.phaseStatus = local.phaseStatus
    PROVE  Preserved
  <1>1. RealIn(obj', items, overlooked)
    BY DEF ResultInv
  <1>2. RealIn(cache', items, overlooked)
    BY DEF ResultInv
  <1>3. RealIn(local', items, overlooked)
    BY RealNew, RealWeaker DEF ResultInv, TypeInv, TypeOK, WorkloadVersions
  <1>4. ResultsKnown' /\ ResultsKept
    BY DEF ResultInv, ResultsKnown, ResultsKept
  <1> QED
    BY <1>1, <1>2, <1>3, <1>4, ResultFromCopies

LEMMA UpdateKeeps ==
    ASSUME ResultInv, pc # "idle", NEW new, NEW accepted \in BOOLEAN, Update(new, accepted),
           RealIn(new, items, overlooked),
           \A c \in local.spec : new.checkStatus[c] = local.checkStatus[c]
    PROVE  /\ RealIn(obj', items, overlooked)
           /\ ResultsKept
           /\ accepted => fresh' /\ obj' = new
           /\ ~accepted /\ fresh' => fresh /\ obj' = obj
  <1>1. obj' = obj \/ (fresh /\ obj' = new)
    BY DEF Update
  <1> QED
    BY <1>1 DEF ResultInv, TypeInv, Agreement, ResultsKnown, ResultsKept, HasResult, Update

LEMMA WriteOrReturnResult ==
    ASSUME ResultInv, [Next]_vars, pc # "idle", NEW new, NEW label,
           WriteOrReturn(new, label), RealIn(new, items, overlooked),
           \A c \in local.spec : new.checkStatus[c] = local.checkStatus[c]
    PROVE  Preserved
  <1>0. UNCHANGED cache
    BY DEF WriteOrReturn
  <1>1. CASE Update(new, TRUE) /\ local' = new
    <2>1. RealIn(obj', items, overlooked) /\ ResultsKept /\ obj' = new
      BY <1>1, UpdateKeeps
    <2> QED
      BY <1>0, <1>1, <2>1, ResultFromCopies DEF ResultInv, ResultsKnown
  <1>2. CASE Update(new, FALSE) /\ Return(TRUE)
    <2>1. RealIn(obj', items, overlooked) /\ ResultsKept
      BY <1>2, UpdateKeeps
    <2>2. pc' = "idle" /\ local' = NewWorkloadVersion
      BY <1>2 DEF Return
    <2> QED
      BY <1>0, <2>1, <2>2, RealNew, ResultFromCopies DEF ResultInv, ResultsKnown
  <1> QED
    BY <1>1, <1>2 DEF WriteOrReturn

\* The writes that are not about results.
LEMMA PreparationResult ==
    ASSUME ResultInv, [Next]_vars, SetAppContextMetadata \/ SetTraceId
    PROVE  Preserved
  <1>0. local \in WorkloadVersions /\ pc # "idle" /\ RealIn(local, items, overlooked)
    BY DEF ResultInv, TypeInv, TypeOK, SetAppContextMetadata, SetTraceId
  <1>1. CASE UNCHANGED <<obj, cache, local, fresh>>
    BY <1>0, <1>1, ResultUnwritten
  <1>2. ASSUME NEW new, NEW label, WriteOrReturn(new, label),
               new.checkStatus = local.checkStatus, new.phaseStatus = local.phaseStatus,
               new.spec = local.spec
        PROVE  Preserved
    <2>1. RealIn(new, items, overlooked)
      BY <1>0, <1>2, RealWeaker DEF WorkloadVersions
    <2> QED
      BY <1>0, <1>2, <2>1, WriteOrReturnResult
  <1>3. CASE SetAppContextMetadata
    <2> DEFINE new == [local EXCEPT !.appContextMetadata = TRUE]
    <2>1. new.checkStatus = local.checkStatus /\ new.phaseStatus = local.phaseStatus
              /\ new.spec = local.spec
      BY <1>0 DEF WorkloadVersions
    <2>2. UNCHANGED <<obj, cache, local, fresh>> \/ WriteOrReturn(new, "setTraceId")
      BY <1>3 DEF SetAppContextMetadata, SetOnce
    <2> HIDE DEF new
    <2> QED
      BY <1>1, <1>2, <2>1, <2>2
  <1>4. CASE SetTraceId
    <2> DEFINE new == [local EXCEPT !.traceId = TRUE, !.generation = @ + 1]
    <2>1. new.checkStatus = local.checkStatus /\ new.phaseStatus = local.phaseStatus
              /\ new.spec = local.spec
      BY <1>0 DEF WorkloadVersions
    <2>2. UNCHANGED <<obj, cache, local, fresh>> \/ WriteOrReturn(new, "phase")
      BY <1>4 DEF SetTraceId, SetOnce
    <2> HIDE DEF new
    <2> QED
      BY <1>1, <1>2, <2>1, <2>2
  <1> QED
    BY <1>3, <1>4

LEMMA EnterPhaseResult ==
    ASSUME ResultInv, [Next]_vars, EnterPhase
    PROVE  Preserved
  <1>0. local \in WorkloadVersions /\ pc # "idle" /\ UNCHANGED <<obj, cache, fresh>>
    BY DEF ResultInv, TypeInv, TypeOK, EnterPhase
  <1>1. CASE Return(FALSE)
    BY <1>0, <1>1, ResultUnwritten DEF Return
  <1>2. ASSUME NEW p, local' = [local EXCEPT !.currentPhase = p] PROVE Preserved
    <2>1. local'.checkStatus = local.checkStatus /\ local'.phaseStatus = local.phaseStatus
              /\ local'.spec = local.spec
      BY <1>0, <1>2 DEF WorkloadVersions
    <2> QED
      BY <1>0, <2>1, ResultUnwritten
  <1> QED
    BY <1>1, <1>2 DEF EnterPhase

LEMMA ReconcileCheckResult ==
    ASSUME ResultInv, [Next]_vars, NEW c \in Checks, ReconcileCheck(c)
    PROVE  Preserved
  <1>1. /\ RealIn(local', items, overlooked)
        /\ \A d \in Checks : HasResult(local.checkStatus[d].status) =>
                                 local'.checkStatus[d] = local.checkStatus[d]
    BY CheckTurnResult DEF ReconcileCheck
  <1>2. UNCHANGED <<obj, cache, fresh, pc>>
    BY DEF ReconcileCheck
  <1>3. ResultsKnown' /\ ResultsKept
    <2>1. obj.spec \subseteq Checks
      BY DEF ResultInv, TypeInv, TypeOK, WorkloadVersions
    <2> QED
      BY <1>1, <1>2, <2>1 DEF ResultInv, ResultsKnown, ResultsKept
  <1> QED
    BY <1>1, <1>2, <1>3, ResultFromCopies DEF ResultInv

LEMMA RecordChecksResult ==
    ASSUME ResultInv, [Next]_vars, RecordChecks
    PROVE  Preserved
  <1> DEFINE new == [local EXCEPT !.phaseStatus[ph] = PhaseStateOf(local, ph),
                                  !.checkStatus = StatusList(local, ph)]
  <1>1. /\ pc # "idle" /\ local \in WorkloadVersions /\ RealIn(local, items, overlooked)
        /\ WriteOrReturn(new, "complete")
    BY DEF ResultInv, TypeInv, TypeOK, RecordChecks
  <1>2. /\ new.checkStatus = StatusList(local, ph) /\ new.spec = local.spec
        /\ local.spec \in SUBSET Checks
        /\ \A p \in Phases : new.phaseStatus[p] = IF p = ph THEN PhaseStateOf(local, ph)
                                                            ELSE local.phaseStatus[p]
    BY <1>1 DEF WorkloadVersions
  <1> HIDE DEF new
  <1>4. /\ \A c \in local.spec : new.checkStatus[c] = local.checkStatus[c]
        /\ \A c \in Checks : new.checkStatus[c] \in {local.checkStatus[c], NoItemStatus}
    BY <1>2 DEF StatusList
  <1>3. RealIn(new, items, overlooked)
    <2>1. \A c \in Checks : CheckPhase[c] \in Phases
      BY CheckAssumption DEF CheckPhases
    <2>2. \A c \in local.spec \ overlooked :
                new.phaseStatus[CheckPhase[c]] = StateSucceeded =>
                                local.checkStatus[c].status = StateSucceeded
      BY <1>1, <1>2, <2>1, PhaseSuccess DEF RealIn
    <2>3. NoItemStatus.status # StateSucceeded
      BY DEF NoItemStatus, StatePending, StateSucceeded
    <2> QED
      BY <1>1, <1>2, <1>4, <2>2, <2>3 DEF RealIn
  <1> QED
    BY <1>1, <1>3, <1>4, WriteOrReturnResult

LEMMA ReconcileDeploymentResult ==
    ASSUME ResultInv, [Next]_vars, ReconcileDeployment
    PROVE  Preserved
  <1> DEFINE new == [local EXCEPT !.phaseStatus[Deployment] = DeploymentStateOf(local),
                                  !.deploymentStartTime = TRUE]
  <1>1. /\ pc # "idle" /\ local \in WorkloadVersions /\ RealIn(local, items, overlooked)
        /\ WriteOrReturn(new, "complete")
    BY DEF ResultInv, TypeInv, TypeOK, ReconcileDeployment
  <1>2. /\ new.checkStatus = local.checkStatus /\ new.spec = local.spec
        /\ local.spec \in SUBSET Checks
        /\ \A p \in CheckPhases : new.phaseStatus[p] = local.phaseStatus[p]
    BY <1>1 DEF WorkloadVersions, CheckPhases
  <1> HIDE DEF new
  <1>3. RealIn(new, items, overlooked)
    BY <1>1, <1>2, RealWeaker
  <1> QED
    BY <1>1, <1>2, <1>3, WriteOrReturnResult

LEMMA AfterPhaseClaims ==
    ASSUME NEW item \in WorkloadVersions, NEW p, NEW state
    PROVE  /\ AfterPhase(item, p, state).checkStatus = item.checkStatus
           /\ AfterPhase(item, p, state).spec = item.spec
           /\ \A q \in Phases :
                AfterPhase(item, p, state).phaseStatus[q] = StateSucceeded =>
                    item.phaseStatus[q] = StateSucceeded
  BY DEF AfterPhase, DeprecateRemainingPhases, WorkloadVersions, StateDeprecated, StateSucceeded

LEMMA CompletePhaseResult ==
    ASSUME ResultInv, [Next]_vars, CompletePhase
    PROVE  Preserved
  <1> DEFINE state == local.phaseStatus[ph]
             new   == AfterPhase(local, ph, state)
  <1>1. /\ pc # "idle" /\ local \in WorkloadVersions /\ RealIn(local, items, overlooked)
    BY DEF ResultInv, TypeInv, TypeOK, CompletePhase
  <1>2. new.checkStatus = local.checkStatus /\ RealIn(new, items, overlooked)
    <2>1. local.spec \in SUBSET Checks
      BY <1>1 DEF WorkloadVersions
    <2> QED
      BY <1>1, <2>1, AfterPhaseClaims, RealWeaker DEF CheckPhases
  <1>3. /\ UNCHANGED cache
        /\ \/ \E accepted \in BOOLEAN : Update(new, accepted)
           \/ UNCHANGED <<obj, fresh>>
        /\ \/ local' = new
           \/ Return(Requeues(state))
    BY DEF CompletePhase
  <1> HIDE DEF new
  <1>4. /\ RealIn(obj', items, overlooked) /\ ResultsKept
        /\ fresh' => fresh /\ (obj' = obj \/ obj' = new)
    <2>1. CASE UNCHANGED <<obj, fresh>>
      BY <2>1 DEF ResultInv, ResultsKept
    <2>2. ASSUME NEW accepted \in BOOLEAN, Update(new, accepted)
          PROVE  /\ RealIn(obj', items, overlooked) /\ ResultsKept
                 /\ fresh' => fresh /\ (obj' = obj \/ obj' = new)
      <3>1. fresh' => fresh
        BY <2>2 DEF Update
      <3> QED
        BY <1>1, <1>2, <2>2, <3>1, UpdateKeeps
    <2> QED
      BY <1>3, <2>1, <2>2
  <1>5. CASE local' = new
    <2>1. ResultsKnown'
      BY <1>1, <1>2, <1>4, <1>5 DEF ResultInv, ResultsKnown
    <2> QED
      BY <1>2, <1>3, <1>4, <1>5, <2>1, ResultFromCopies DEF ResultInv
  <1>6. CASE Return(Requeues(state))
    <2>1. pc' = "idle" /\ local' = NewWorkloadVersion
      BY <1>6 DEF Return
    <2> QED
      BY <1>3, <1>4, <2>1, RealNew, ResultFromCopies DEF ResultInv, ResultsKnown
  <1> QED
    BY <1>3, <1>5, <1>6

LEMMA FinishReconcileResult ==
    ASSUME ResultInv, [Next]_vars, FinishReconcile
    PROVE  Preserved
  <1> DEFINE new == FinishedVersion(local)
  <1>1. pc # "idle" /\ local \in WorkloadVersions /\ RealIn(local, items, overlooked)
    BY DEF ResultInv, TypeInv, TypeOK, FinishReconcile
  <1>2. /\ new.checkStatus = local.checkStatus /\ new.phaseStatus = local.phaseStatus
        /\ new.spec = local.spec /\ local.spec \in SUBSET Checks
    BY <1>1 DEF FinishedVersion, WorkloadVersions
  <1>3. PICK accepted \in BOOLEAN : Update(new, accepted) /\ Return(~accepted)
    BY DEF FinishReconcile
  <1> HIDE DEF new
  <1>4. RealIn(new, items, overlooked)
    BY <1>1, <1>2, RealWeaker
  <1>5. RealIn(obj', items, overlooked) /\ ResultsKept
    BY <1>1, <1>2, <1>3, <1>4, UpdateKeeps
  <1>6. pc' = "idle" /\ local' = NewWorkloadVersion /\ UNCHANGED cache
    BY <1>3 DEF Return, FinishReconcile
  <1> QED
    BY <1>5, <1>6, RealNew, ResultFromCopies DEF ResultInv, ResultsKnown

\* The steps that write no status.
LEMMA OtherResult ==
    ASSUME ResultInv, [Next]_vars,
           \/ StartReconcile \/ CheckPreEvaluationStatusOfApp \/ AllPhasesSucceeded
           \/ Sync \/ RemoveGate \/ Items \/ Environment \/ UNCHANGED vars
    PROVE  Preserved
  <1>1. CASE StartReconcile
    <2>1. UNCHANGED <<obj, cache>> /\ local' = cache /\ fresh' = (cache = obj)
      BY <1>1 DEF StartReconcile
    <2> QED
      BY <2>1, ResultFromCopies DEF ResultInv, ResultsKnown, ResultsKept
  <1>2. CASE CheckPreEvaluationStatusOfApp \/ AllPhasesSucceeded
    BY <1>2, ResultUnwritten DEF CheckPreEvaluationStatusOfApp, AllPhasesSucceeded, Return
  <1>3. CASE Sync
    BY <1>3, ResultFromCopies DEF Sync, ResultInv, ResultsKnown, ResultsKept
  <1>4. CASE ReadFails \/ Crash
    BY <1>4, ResultUnwritten DEF ReadFails, Crash, Return
  <1>5. ASSUME NEW spec \in Specs, TouchSpec(spec)
        PROVE  Preserved
    <2>1. /\ obj'.checkStatus = obj.checkStatus /\ obj'.phaseStatus = obj.phaseStatus
          /\ obj'.spec = spec /\ spec \in SUBSET Checks /\ RealIn(obj, items, overlooked)
      BY <1>5, CheckAssumption DEF TouchSpec, ResultInv, TypeInv, TypeOK, WorkloadVersions
    <2>2. UNCHANGED <<cache, local>> /\ fresh' = FALSE
      BY <1>5 DEF TouchSpec
    <2>3. RealIn(obj', items, overlooked')
      <3>1. \A c \in spec \ overlooked' :
                obj.phaseStatus[CheckPhase[c]] = StateSucceeded => c \in obj.spec \ overlooked
        BY <1>5 DEF TouchSpec
      <3> QED
        BY <2>1, <3>1 DEF RealIn
    <2> QED
      BY <2>1, <2>2, <2>3, ResultFromCopies DEF ResultInv, ResultsKnown, ResultsKept
  <1>6. CASE UNCHANGED <<obj, cache, local, fresh, pc>>
    BY <1>6, ResultFromCopies DEF ResultInv, ResultsKnown, ResultsKept
  <1> QED
    BY <1>1, <1>2, <1>3, <1>4, <1>5, <1>6 DEF RemoveGate, Items, ItemProgresses, Environment,
       ItemDeleted, ResultTakenBack, AppDecides, PodStarts, DeadlinePasses, SwitchBlocking,
       vars, reconciler

LEMMA StepResult == ResultInv /\ [Next]_vars => Preserved
  <1> SUFFICES ASSUME ResultInv, [Next]_vars PROVE Preserved
    OBVIOUS
  <1> QED
    BY PreparationResult, EnterPhaseResult, ReconcileCheckResult, RecordChecksResult,
       ReconcileDeploymentResult, CompletePhaseResult, FinishReconcileResult, OtherResult
       DEF Next, Controller

LEMMA ResultInvariant == Spec => []ResultInv
  <1>1. ResultInv /\ [Next]_vars => ResultInv'
    BY StepResult DEF Preserved
  <1> QED
    BY <1>1, InitResult, PTL DEF Spec

\* A check recorded as succeeded names an object that did succeed, and a phase
\* recorded as succeeded has every check of the spec recorded as succeeded, but
\* for one that the spec was given afterwards, although the objects come and go,
\* the spec is replaced, the copies age and the writes fail
\* (ReconcileTasks, ReconcileEvaluations, GetOverallState).
THEOREM ResultsAreRealHolds == Spec => []ResultsAreReal
  <1>1. ResultInv => ResultsAreReal
    BY DEF ResultInv, RealIn, ResultsAreReal, ResultsAreRealIn
  <1> QED
    BY <1>1, ResultInvariant, PTL

\* The recorded result of a check is never replaced: not by a write from an
\* old copy, not by a second object of the same check, and not when the object
\* is deleted or run again (the early `continue` of ReconcileTasks and
\* ReconcileEvaluations, and the conflict of a stale write).
THEOREM ResultsAreFinalHolds == Spec => ResultsAreFinal
  <1>1. ResultInv /\ [Next]_vars => [ResultsKept]_vars
    BY StepResult DEF Preserved
  <1> QED
    BY <1>1, ResultInvariant, PTL DEF Spec, ResultsAreFinal, ResultsKept

-----------------------------------------------------------------------------
(***************************************************************************)
(* How a workload version progresses: it implements PhaseProgress, and it  *)
(* starts nothing before its time.  The controller decides from a copy of  *)
(* the object that may be old; the argument is that the phases of the      *)
(* stored object are done in their order and stay done, so that an old     *)
(* copy only knows less of what is done.  The first holds as long as       *)
(* blockDeployment stays what it is: switched on, it makes a phase that    *)
(* ended with a Warning undone.  The second holds also when it is          *)
(* switched, as long as no copy is old.                                    *)
(***************************************************************************)

DoneSet(item) == {p \in Phases : PhaseDone(item.phaseStatus[p])}

\* What the stored object, and every copy of it, always looks like.
Orderly(item) ==
    /\ \A p, q \in Phases : p < q /\ q \in DoneSet(item) => p \in DoneSet(item)
    /\ item.phaseStatus[Deployment] # StatePending =>
            \/ \A p \in Phases : p < Deployment => p \in DoneSet(item)
            \/ item.status = StateFailed
    /\ item.status = StateSucceeded => DoneSet(item) = Phases
    /\ item.endTime <=> item.status \in {StateSucceeded, StateFailed}

\* Only a check can end with a Warning, and only without blocking.
WarningsAllowed(item, blocking) ==
    \A p \in Phases : item.phaseStatus[p] = StateWarning => ~blocking /\ p # Deployment

\* An old copy knows less.
Behind(item1, item2) ==
    /\ DoneSet(item1) \subseteq DoneSet(item2)
    /\ item1.status = StateFailed => item2.status = StateFailed

ProgressInv ==
    /\ FailureInv
    /\ Orderly(obj) /\ Orderly(cache) /\ Orderly(local)
    /\ WarningsAllowed(obj, block) /\ WarningsAllowed(cache, block)
    /\ WarningsAllowed(local, block)
    /\ Behind(cache, obj) /\ Behind(local, obj)
    /\ pc \in {"checks", "deployment"} => ph \notin DoneSet(local)
    /\ pc = "checks" => ph # Deployment
    /\ pc = "finish" => DoneSet(local) = Phases

\* What a write of the status does: nothing to the progress, one more phase,
\* success after the last phase, or failure before.
Moves(item, new) ==
    \/ DoneSet(new) = DoneSet(item) /\ Outcome(new) = Outcome(item)
    \/ /\ Outcome(item) = "running" /\ Outcome(new) = "running"
       /\ \E p \in Phases \ DoneSet(item) : DoneSet(new) = DoneSet(item) \cup {p}
    \/ /\ Outcome(item) = "running" /\ Outcome(new) = "succeeded"
       /\ DoneSet(item) = Phases /\ DoneSet(new) = Phases
    \/ /\ Outcome(item) = "running" /\ Outcome(new) = "failed"
       /\ DoneSet(item) # Phases /\ DoneSet(new) = DoneSet(item)

\* A write that is fit to be stored in place of a copy.
Advances(item, new) ==
    /\ Orderly(new)
    /\ WarningsAllowed(new, block)
    /\ Behind(item, new)
    /\ Moves(item, new)

-----------------------------------------------------------------------------
(***************************************************************************)
(* The predicates depend on the result of an item only.                    *)
(***************************************************************************)
LEMMA NewProgress ==
    /\ DoneSet(NewWorkloadVersion) = {}
    /\ Orderly(NewWorkloadVersion)
    /\ Outcome(NewWorkloadVersion) = "running"
    /\ \A b : WarningsAllowed(NewWorkloadVersion, b)
    /\ \A item : Behind(NewWorkloadVersion, item)
  <1>1. DoneSet(NewWorkloadVersion) = {}
    BY DEF DoneSet, PhaseDone, NewWorkloadVersion, StatePending, StateSucceeded, StateWarning
  <1>2. /\ NewWorkloadVersion.status = StatePending
        /\ NewWorkloadVersion.endTime = FALSE
        /\ \A p \in Phases : NewWorkloadVersion.phaseStatus[p] = StatePending
    BY DEF NewWorkloadVersion
  <1> QED
    BY <1>1, <1>2 DEF Orderly, Outcome, WarningsAllowed, Behind, StatePending, StateSucceeded,
       StateFailed, StateWarning, Phases, Deployment

LEMMA SameProgress ==
    ASSUME NEW item1, NEW item2, SameResult(item1, item2)
    PROVE  /\ DoneSet(item1) = DoneSet(item2)
           /\ Outcome(item1) = Outcome(item2)
           /\ Orderly(item2) => Orderly(item1)
           /\ \A b : WarningsAllowed(item2, b) => WarningsAllowed(item1, b)
           /\ Behind(item1, item2)
           /\ \A new : Moves(item2, new) => Moves(item1, new)
           /\ \A old : Behind(old, item2) => Behind(old, item1)
           /\ \A new : Behind(item2, new) => Behind(item1, new)
  <1>1. DoneSet(item1) = DoneSet(item2)
    BY DEF SameResult, DoneSet
  <1>2. Outcome(item1) = Outcome(item2)
    BY DEF SameResult, Outcome
  <1> QED
    BY <1>1, <1>2 DEF SameResult, Orderly, WarningsAllowed, Behind, Moves

\* What is created has made no progress, whatever its spec.
LEMMA InitialProgress ==
    ASSUME Init
    PROVE  /\ DoneSet(obj) = {} /\ Outcome(obj) = "running" /\ Orderly(obj)
           /\ WarningsAllowed(obj, block)
           /\ \A item : Behind(obj, item)
  <1>1. PICK spec \in Specs : obj = [NewWorkloadVersion EXCEPT !.spec = spec]
    BY DEF Init
  <1>2. SameResult(obj, NewWorkloadVersion)
    BY <1>1 DEF SameResult, NewWorkloadVersion
  <1> QED
    BY <1>2, NewProgress, SameProgress

LEMMA BehindTransitive ==
    ASSUME NEW item1, NEW item2, NEW item3, Behind(item1, item2), Behind(item2, item3)
    PROVE  Behind(item1, item3)
  BY DEF Behind

\* A copy that is written as it was read.
LEMMA AdvancesSame ==
    ASSUME NEW item, NEW new, SameResult(new, item), Orderly(item), WarningsAllowed(item, block)
    PROVE  Advances(item, new)
  BY SameProgress DEF Advances, Moves, Behind, SameResult

-----------------------------------------------------------------------------
(***************************************************************************)
(* The writes of the controller.                                           *)
(***************************************************************************)
\* The new state of the phase being handled.
LEMMA RecordAdvances ==
    ASSUME ProgressInv, pc \in {"checks", "deployment"},
           NEW state \in KeptnStates \ {StateDeprecated},
           state = StateWarning => ~block /\ ph # Deployment,
           NEW new \in WorkloadVersions,
           new.status = local.status, new.endTime = local.endTime,
           new.phaseStatus = [local.phaseStatus EXCEPT ![ph] = state]
    PROVE  Advances(local, new)
  <1>1. /\ local \in WorkloadVersions /\ ph \in Phases /\ ph \notin DoneSet(local)
        /\ \A q \in Phases : q < ph => q \in DoneSet(local)
        /\ Orderly(local) /\ WarningsAllowed(local, block)
        /\ pc = "deployment" => ph = Deployment
        /\ ~ShouldAbortPhase(local)
    BY DEF ProgressInv, FailureInv, TypeInv, TypeOK, InPhase, EarlierPhasesDone, DoneSet
  <1>2. \A q \in Phases : new.phaseStatus[q] = IF q = ph THEN state ELSE local.phaseStatus[q]
    BY <1>1 DEF WorkloadVersions
  <1>3. /\ local.status # StateFailed
        /\ local.status # StateSucceeded
    BY <1>1 DEF ShouldAbortPhase, Orderly
  <1>4. DoneSet(new) = IF PhaseDone(state) THEN DoneSet(local) \cup {ph} ELSE DoneSet(local)
    BY <1>1, <1>2 DEF DoneSet
  <1>5. \A q \in Phases : q > ph => q \notin DoneSet(local)
    BY <1>1 DEF Orderly
  <1>6. Orderly(new)
    <2>1. \A p, q \in Phases : p < q /\ q \in DoneSet(new) => p \in DoneSet(new)
      BY <1>1, <1>4, <1>5 DEF Orderly, Phases
    <2>2. new.phaseStatus[Deployment] # StatePending =>
                \A p \in Phases : p < Deployment => p \in DoneSet(new)
      <3>1. CASE ph = Deployment
        BY <1>1, <1>4, <3>1
      <3>2. CASE ph # Deployment
        <4>1. new.phaseStatus[Deployment] = local.phaseStatus[Deployment]
          BY <1>2, <3>2 DEF Phases, Deployment
        <4> QED
          BY <1>1, <1>3, <1>4, <4>1 DEF Orderly
      <3> QED
        BY <3>1, <3>2
    <2> QED
      BY <1>1, <1>3, <2>1, <2>2 DEF Orderly
  <1>7. WarningsAllowed(new, block)
    BY <1>1, <1>2 DEF WarningsAllowed
  <1>8. Outcome(local) = "running" /\ Outcome(new) = "running"
    BY <1>3 DEF Outcome
  <1>9. Moves(local, new)
    BY <1>1, <1>4, <1>8 DEF Moves
  <1> QED
    BY <1>3, <1>4, <1>6, <1>7, <1>9 DEF Advances, Behind

LEMMA CompletionAdvances ==
    ASSUME ProgressInv, pc = "complete"
    PROVE  Advances(local, AfterPhase(local, ph, local.phaseStatus[ph]))
  <1> DEFINE state == local.phaseStatus[ph]
             new   == AfterPhase(local, ph, state)
  <1>1. /\ local \in WorkloadVersions /\ ph \in Phases
        /\ \A q \in Phases : q < ph => q \in DoneSet(local)
        /\ Orderly(local) /\ WarningsAllowed(local, block)
        /\ local.status # StateFailed
    BY DEF ProgressInv, FailureInv, TypeInv, TypeOK, InPhase, EarlierPhasesDone, DoneSet,
       ShouldAbortPhase
  <1>2. CASE state = StateFailed
    <2>1. /\ new.status = StateFailed /\ new.endTime = TRUE
          /\ \A q \in Phases : new.phaseStatus[q] =
                IF q > ph THEN StateDeprecated ELSE local.phaseStatus[q]
      BY <1>1, <1>2 DEF AfterPhase, DeprecateRemainingPhases, WorkloadVersions
    <2> HIDE DEF new
    <2>2. ph \notin DoneSet(local)
      BY <1>2 DEF DoneSet, PhaseDone, StateFailed, StateSucceeded, StateWarning
    <2>3. \A q \in Phases : q > ph => q \notin DoneSet(local)
      BY <1>1, <2>2 DEF Orderly
    <2>4. DoneSet(new) = DoneSet(local)
      BY <2>1, <2>3 DEF DoneSet, PhaseDone, StateDeprecated, StateSucceeded, StateWarning
    <2>5. Orderly(new)
      BY <1>1, <2>1, <2>4 DEF Orderly, StateFailed, StateSucceeded
    <2>6. WarningsAllowed(new, block)
      BY <1>1, <2>1 DEF WarningsAllowed, StateDeprecated, StateWarning
    <2>7. Outcome(local) = "running" /\ Outcome(new) = "failed"
      BY <1>1, <2>1, <2>2 DEF Outcome, Orderly, StateFailed, StateSucceeded
    <2>8. Advances(local, new)
      BY <1>1, <2>1, <2>2, <2>4, <2>5, <2>6, <2>7 DEF Advances, Moves, Behind
    <2> QED
      BY <2>8 DEF new
  <1>3. CASE state # StateFailed /\ IsCompleted(state)
    BY <1>1, <1>3, AdvancesSame DEF AfterPhase, SameResult
  <1>4. CASE state # StateFailed /\ ~IsCompleted(state)
    <2>1. /\ new.status = StateProgressing /\ new.phaseStatus = local.phaseStatus
          /\ new.endTime = local.endTime
      BY <1>1, <1>4 DEF AfterPhase, WorkloadVersions
    <2> HIDE DEF new
    <2>2. ph \notin DoneSet(local)
      BY <1>4 DEF DoneSet, PhaseDone, IsCompleted
    <2>3. local.status # StateSucceeded
      BY <1>1, <2>2 DEF Orderly
    <2>4. DoneSet(new) = DoneSet(local)
      BY <2>1 DEF DoneSet
    <2>5. Orderly(new)
      BY <1>1, <2>1, <2>3, <2>4 DEF Orderly, StateFailed, StateSucceeded, StateProgressing
    <2>6. Outcome(local) = "running" /\ Outcome(new) = "running"
      BY <1>1, <2>1, <2>3 DEF Outcome, StateFailed, StateSucceeded, StateProgressing
    <2>7. WarningsAllowed(new, block)
      BY <1>1, <2>1 DEF WarningsAllowed
    <2>8. Advances(local, new)
      BY <1>1, <2>1, <2>4, <2>5, <2>6, <2>7 DEF Advances, Moves, Behind
    <2> QED
      BY <2>8 DEF new
  <1> QED
    BY <1>2, <1>3, <1>4

LEMMA FinishAdvances ==
    ASSUME ProgressInv, pc = "finish"
    PROVE  Advances(local, FinishedVersion(local))
  <1> DEFINE new == FinishedVersion(local)
  <1>1. /\ local \in WorkloadVersions /\ Orderly(local) /\ WarningsAllowed(local, block)
        /\ DoneSet(local) = Phases
    BY DEF ProgressInv, FailureInv, TypeInv, TypeOK
  <1>2. CASE local.endTime
    BY <1>1, <1>2, AdvancesSame DEF FinishedVersion, SameResult
  <1>3. CASE ~local.endTime
    <2>1. /\ new.status = StateSucceeded /\ new.endTime = TRUE
          /\ new.phaseStatus = local.phaseStatus
      BY <1>1, <1>3 DEF FinishedVersion, WorkloadVersions
    <2> HIDE DEF new
    <2>2. DoneSet(new) = Phases
      BY <1>1, <2>1 DEF DoneSet
    <2>3. Orderly(new)
      BY <1>1, <2>1, <2>2 DEF Orderly
    <2>4. local.status # StateFailed /\ local.status # StateSucceeded
      BY <1>1, <1>3 DEF Orderly
    <2>5. Outcome(local) = "running" /\ Outcome(new) = "succeeded"
      BY <2>1, <2>4 DEF Outcome, StateFailed, StateSucceeded
    <2>6. WarningsAllowed(new, block)
      BY <1>1, <2>1 DEF WarningsAllowed
    <2>7. Advances(local, new)
      BY <1>1, <2>2, <2>3, <2>4, <2>5, <2>6 DEF Advances, Moves, Behind
    <2> QED
      BY <2>7 DEF new
  <1> QED
    BY <1>2, <1>3

-----------------------------------------------------------------------------
(***************************************************************************)
(* ProgressInv is inductive while the configuration does not change, and   *)
(* the stored object moves as Moves says.                                  *)
(***************************************************************************)
Progresses == ProgressInv' /\ Moves(obj, obj')

LEMMA InitProgress == Init => ProgressInv
  BY InitFailure, NewProgress, InitialProgress DEF Init, ProgressInv

\* What the object becomes, and what a reconciliation holds of it.
StoredWell ==
    /\ Orderly(obj')
    /\ WarningsAllowed(obj', block)
    /\ Behind(obj, obj')
    /\ Moves(obj, obj')

HeldWell ==
    /\ Orderly(local')
    /\ WarningsAllowed(local', block)
    /\ Behind(local', obj')
    /\ pc' \in {"checks", "deployment"} => ph' \notin DoneSet(local')
    /\ pc' = "checks" => ph' # Deployment
    /\ pc' = "finish" => DoneSet(local') = Phases

LEMMA ProgressFromParts ==
    ASSUME ProgressInv, [Next]_vars, UNCHANGED block,
           StoredWell, cache' \in {cache, obj},
           HeldWell \/ (pc' = "idle" /\ local' = NewWorkloadVersion)
    PROVE  Progresses
  <1>1. FailureInv'
    BY StepFailure DEF ProgressInv
  <1>2. /\ Orderly(cache') /\ WarningsAllowed(cache', block)
        /\ Behind(cache', obj')
    BY BehindTransitive DEF ProgressInv, StoredWell
  <1>3. HeldWell
    BY NewProgress DEF HeldWell
  <1> QED
    BY <1>1, <1>2, <1>3 DEF StoredWell, HeldWell, Progresses, ProgressInv

LEMMA StoredSame ==
    ASSUME ProgressInv, SameResult(obj', obj)
    PROVE  StoredWell
  BY AdvancesSame DEF ProgressInv, Advances, StoredWell

LEMMA UpdateStores ==
    ASSUME ProgressInv, pc # "idle", NEW new, NEW accepted \in BOOLEAN, Update(new, accepted),
           Advances(local, new)
    PROVE  StoredWell
  <1>1. CASE obj' = obj
    <2>1. SameResult(obj', obj)
      BY <1>1 DEF SameResult
    <2> QED
      BY <2>1, StoredSame
  <1>2. CASE fresh /\ obj' = new
    <2>1. SameResult(obj, local)
      BY <1>2 DEF ProgressInv, FailureInv, SameResult
    <2>2. Behind(obj, new) /\ Moves(obj, new)
      BY <2>1, SameProgress DEF Advances
    <2> QED
      BY <1>2, <2>2 DEF StoredWell, Advances
  <1> QED
    BY <1>1, <1>2, UpdateEffect

LEMMA WriteOrReturnProgress ==
    ASSUME ProgressInv, [Next]_vars, UNCHANGED block, pc # "idle",
           NEW new, NEW label \in {"setTraceId", "phase", "complete"},
           WriteOrReturn(new, label), Advances(local, new)
    PROVE  Progresses
  <1>0. UNCHANGED cache
    BY DEF WriteOrReturn
  <1>1. CASE Update(new, TRUE) /\ local' = new /\ Goto(label)
    <2>1. StoredWell /\ obj' = new
      BY <1>1, UpdateStores, UpdateEffect
    <2>2. HeldWell
      BY <1>1, <2>1 DEF HeldWell, StoredWell, Behind, Goto
    <2> QED
      BY <1>0, <2>1, <2>2, ProgressFromParts
  <1>2. CASE Update(new, FALSE) /\ Return(TRUE)
    <2>1. StoredWell
      BY <1>2, UpdateStores
    <2>2. pc' = "idle" /\ local' = NewWorkloadVersion
      BY <1>2 DEF Return
    <2> QED
      BY <1>0, <2>1, <2>2, ProgressFromParts
  <1> QED
    BY <1>1, <1>2 DEF WriteOrReturn

\* A step that leaves the results of the object and of the local copy alone.
LEMMA ProgressUnwritten ==
    ASSUME ProgressInv, [Next]_vars, UNCHANGED block,
           SameResult(obj', obj), cache' \in {cache, obj},
           \/ pc' = "idle" /\ local' = NewWorkloadVersion
           \/ /\ SameResult(local', local)
              /\ \/ pc' \notin {"checks", "deployment", "finish"}
                 \/ pc' = pc /\ ph' = ph
    PROVE  Progresses
  <1>1. StoredWell
    BY StoredSame
  <1>2. CASE pc' = "idle" /\ local' = NewWorkloadVersion
    BY <1>1, <1>2, ProgressFromParts
  <1>3. CASE SameResult(local', local) /\ (pc' \notin {"checks", "deployment", "finish"}
                                           \/ (pc' = pc /\ ph' = ph))
    <2>1. /\ Orderly(local') /\ WarningsAllowed(local', block)
          /\ DoneSet(local') = DoneSet(local)
          /\ Behind(local', local) /\ Behind(local, obj) /\ Behind(obj, obj')
      BY <1>1, <1>3, SameProgress DEF ProgressInv, StoredWell
    <2>2. Behind(local', obj')
      BY <2>1, BehindTransitive
    <2>3. HeldWell
      BY <1>3, <2>1, <2>2 DEF HeldWell, ProgressInv
    <2> QED
      BY <1>1, <2>3, ProgressFromParts
  <1> QED
    BY <1>2, <1>3

LEMMA PreparationProgress ==
    ASSUME ProgressInv, [Next]_vars, UNCHANGED block, SetAppContextMetadata \/ SetTraceId
    PROVE  Progresses
  <1>0. /\ local \in WorkloadVersions /\ pc # "idle" /\ pc \in {"setMetadata", "setTraceId"}
        /\ Orderly(local) /\ WarningsAllowed(local, block)
    BY DEF ProgressInv, FailureInv, TypeInv, TypeOK, SetAppContextMetadata, SetTraceId
  <1>1. ASSUME UNCHANGED <<obj, cache, local>>, pc' \in {"setTraceId", "phase"}
        PROVE  Progresses
    BY <1>1, ProgressUnwritten DEF SameResult
  <1>2. ASSUME NEW new, NEW label \in {"setTraceId", "phase"}, WriteOrReturn(new, label),
               SameResult(new, local)
        PROVE  Progresses
    BY <1>0, <1>2, AdvancesSame, WriteOrReturnProgress
  <1>3. CASE SetAppContextMetadata
    <2> DEFINE new == [local EXCEPT !.appContextMetadata = TRUE]
    <2>1. SameResult(new, local)
      BY <1>0 DEF SameResult, WorkloadVersions
    <2>2. \/ WriteOrReturn(new, "setTraceId")
          \/ UNCHANGED <<obj, cache, local>> /\ pc' = "setTraceId"
      BY <1>3 DEF SetAppContextMetadata, SetOnce, Goto
    <2> HIDE DEF new
    <2> QED
      BY <1>1, <1>2, <2>1, <2>2
  <1>4. CASE SetTraceId
    <2> DEFINE new == [local EXCEPT !.traceId = TRUE, !.generation = @ + 1]
    <2>1. SameResult(new, local)
      BY <1>0 DEF SameResult, WorkloadVersions
    <2>2. \/ WriteOrReturn(new, "phase")
          \/ UNCHANGED <<obj, cache, local>> /\ pc' = "phase"
      BY <1>4 DEF SetTraceId, SetOnce, Goto
    <2> HIDE DEF new
    <2> QED
      BY <1>1, <1>2, <2>1, <2>2
  <1> QED
    BY <1>3, <1>4

\* A phase is entered when it is not done: neither Succeeded nor, without
\* blocking, ended with a Warning.
LEMMA NotSucceeded ==
    ASSUME NEW item, NEW p \in Phases, WarningsAllowed(item, block)
    PROVE  Succeeded(item, p) <=> p \in DoneSet(item)
  BY DEF WarningsAllowed, Succeeded, IsPhaseSucceeded, DoneSet, PhaseDone, StateSucceeded,
     StateWarning

LEMMA EnterPhaseProgress ==
    ASSUME ProgressInv, [Next]_vars, UNCHANGED block, EnterPhase
    PROVE  Progresses
  <1>0. /\ UNCHANGED <<obj, cache>> /\ SameResult(obj', obj)
        /\ local \in WorkloadVersions /\ ph \in 1..6
    BY DEF EnterPhase, SameResult, ProgressInv, FailureInv, TypeInv, TypeOK
  <1>1. CASE Return(FALSE)
    BY <1>0, <1>1, ProgressUnwritten DEF Return
  <1>2. CASE ~Return(FALSE)
    <2>1. PICK p \in ph..PostDeploymentEvaluations :
            /\ ~Succeeded(local, p)
            /\ local' = [local EXCEPT !.currentPhase = p]
            /\ pc' = IF p = Deployment THEN "deployment" ELSE "checks"
            /\ ph' = p
      BY <1>2 DEF EnterPhase
    <2>2. p \in Phases
      BY <1>0 DEF Phases, PostDeploymentEvaluations
    <2>3. SameResult(local', local)
      BY <1>0, <2>1 DEF SameResult, WorkloadVersions
    <2>4. p \notin DoneSet(local)
      BY <2>1, <2>2, NotSucceeded DEF ProgressInv
    <2>5. /\ Orderly(local') /\ WarningsAllowed(local', block)
          /\ DoneSet(local') = DoneSet(local) /\ Behind(local', obj')
      BY <1>0, <2>3, SameProgress, BehindTransitive DEF ProgressInv
    <2>6. HeldWell
      BY <2>1, <2>4, <2>5 DEF HeldWell
    <2> QED
      BY <1>0, <2>6, StoredSame, ProgressFromParts
  <1> QED
    BY <1>1, <1>2

LEMMA AllPhasesSucceededProgress ==
    ASSUME ProgressInv, [Next]_vars, UNCHANGED block, AllPhasesSucceeded
    PROVE  Progresses
  <1>1. /\ UNCHANGED <<obj, cache, local>> /\ pc' = "finish" /\ SameResult(obj', obj)
        /\ ph \in 1..6 /\ \A q \in Phases : q < ph => q \in DoneSet(local)
    BY DEF AllPhasesSucceeded, Goto, SameResult, ProgressInv, FailureInv, TypeInv, TypeOK,
       EarlierPhasesDone, DoneSet
  <1>2. ASSUME NEW q \in Phases PROVE q \in DoneSet(local)
    <2>1. CASE q < ph
      BY <1>1, <2>1
    <2>2. CASE ~(q < ph)
      <3>1. q \in ph..PostDeploymentEvaluations
        BY <1>1, <2>2 DEF Phases, PostDeploymentEvaluations
      <3>2. Succeeded(local, q)
        BY <3>1 DEF AllPhasesSucceeded
      <3> QED
        BY <3>2, NotSucceeded DEF ProgressInv
    <2> QED
      BY <2>1, <2>2
  <1>3. DoneSet(local) = Phases
    BY <1>2 DEF DoneSet
  <1>4. HeldWell
    BY <1>1, <1>3 DEF HeldWell, ProgressInv
  <1> QED
    BY <1>1, <1>4, StoredSame, ProgressFromParts

LEMMA RecordChecksProgress ==
    ASSUME ProgressInv, [Next]_vars, UNCHANGED block, RecordChecks
    PROVE  Progresses
  <1> DEFINE state == PhaseStateOf(local, ph)
             new   == [local EXCEPT !.phaseStatus[ph] = state,
                                    !.checkStatus = StatusList(local, ph)]
  <1>1. /\ local \in WorkloadVersions /\ ph \in Phases /\ pc = "checks" /\ ph # Deployment
        /\ WriteOrReturn(new, "complete")
    BY DEF ProgressInv, FailureInv, TypeInv, TypeOK, InPhase, RecordChecks
  <1>2. /\ state \in KeptnStates \ {StateDeprecated}
        /\ state = StateWarning => ~block
    BY SummaryStateType DEF PhaseStateOf, GetOverallStateBlockedDeployment, KeptnStates
  <1> HIDE DEF state
  <1>3. /\ new \in WorkloadVersions /\ new.status = local.status
        /\ new.endTime = local.endTime
        /\ new.phaseStatus = [local.phaseStatus EXCEPT ![ph] = state]
    BY <1>1, <1>2, StatusListType DEF WorkloadVersions
  <1> HIDE DEF new
  <1>4. Advances(local, new)
    BY <1>1, <1>2, <1>3, RecordAdvances
  <1> QED
    BY <1>1, <1>4, WriteOrReturnProgress

LEMMA ReconcileDeploymentProgress ==
    ASSUME ProgressInv, [Next]_vars, UNCHANGED block, ReconcileDeployment
    PROVE  Progresses
  <1> DEFINE state == DeploymentStateOf(local)
             new   == [local EXCEPT !.phaseStatus[Deployment] = state,
                                    !.deploymentStartTime = TRUE]
  <1>1. /\ local \in WorkloadVersions /\ ph = Deployment /\ pc = "deployment"
        /\ Deployment \in Phases /\ Sound(local) /\ local.status # StateFailed
        /\ ph \notin DoneSet(local)
        /\ WriteOrReturn(new, "complete")
    BY DEF ProgressInv, FailureInv, TypeInv, TypeOK, InPhase, ShouldAbortPhase,
       ReconcileDeployment, Deployment, Phases
  <1>2. state \in KeptnStates \ {StateDeprecated, StateWarning}
    <2>1. local.phaseStatus[Deployment] \in KeptnStates \ {StateDeprecated, StateWarning}
      BY <1>1 DEF Sound, DeprecatedOnlyIfFailed, WorkloadVersions, DoneSet, PhaseDone
    <2> QED
      BY <2>1 DEF DeploymentStateOf, KeptnStates, StateFailed, StateSucceeded,
         StateProgressing, StateDeprecated, StateWarning
  <1> HIDE DEF state
  <1>3. /\ new \in WorkloadVersions /\ new.status = local.status
        /\ new.endTime = local.endTime
        /\ new.phaseStatus = [local.phaseStatus EXCEPT ![ph] = state]
    BY <1>1, <1>2 DEF WorkloadVersions
  <1> HIDE DEF new
  <1>4. Advances(local, new)
    BY <1>1, <1>2, <1>3, RecordAdvances
  <1> QED
    BY <1>1, <1>4, WriteOrReturnProgress

LEMMA CompletePhaseProgress ==
    ASSUME ProgressInv, [Next]_vars, UNCHANGED block, CompletePhase
    PROVE  Progresses
  <1> DEFINE state == local.phaseStatus[ph]
             new   == AfterPhase(local, ph, state)
  <1>1. pc = "complete" /\ Advances(local, new)
    BY CompletionAdvances DEF CompletePhase
  <1>2. /\ UNCHANGED cache
        /\ \/ \E accepted \in BOOLEAN : Update(new, accepted)
           \/ UNCHANGED obj
        /\ \/ Continues(state) /\ local' = new /\ pc' = "phase"
           \/ Return(Requeues(state))
    BY DEF CompletePhase
  <1>3. Continues(state) => new = local
    BY ContinuesUnchanged
  <1> HIDE DEF new
  <1>4. StoredWell
    BY <1>1, <1>2, UpdateStores, StoredSame DEF SameResult
  <1>5. CASE Continues(state) /\ local' = new /\ pc' = "phase"
    <2>1. HeldWell
      BY <1>3, <1>4, <1>5, BehindTransitive DEF HeldWell, StoredWell, ProgressInv
    <2> QED
      BY <1>2, <1>4, <2>1, ProgressFromParts
  <1>6. CASE Return(Requeues(state))
    <2>1. pc' = "idle" /\ local' = NewWorkloadVersion
      BY <1>6 DEF Return
    <2> QED
      BY <1>2, <1>4, <2>1, ProgressFromParts
  <1> QED
    BY <1>2, <1>5, <1>6

LEMMA FinishReconcileProgress ==
    ASSUME ProgressInv, [Next]_vars, UNCHANGED block, FinishReconcile
    PROVE  Progresses
  <1>1. pc = "finish" /\ Advances(local, FinishedVersion(local)) /\ UNCHANGED cache
    BY FinishAdvances DEF FinishReconcile
  <1>2. PICK accepted \in BOOLEAN : Update(FinishedVersion(local), accepted) /\ Return(~accepted)
    BY DEF FinishReconcile
  <1>3. StoredWell
    BY <1>1, <1>2, UpdateStores
  <1>4. pc' = "idle" /\ local' = NewWorkloadVersion
    BY <1>2 DEF Return
  <1> QED
    BY <1>1, <1>3, <1>4, ProgressFromParts

LEMMA OtherProgress ==
    ASSUME ProgressInv, [Next]_vars, UNCHANGED block,
           \/ StartReconcile \/ CheckPreEvaluationStatusOfApp
           \/ \E c \in Checks : ReconcileCheck(c)
           \/ Sync \/ RemoveGate \/ Items \/ Environment \/ UNCHANGED vars
    PROVE  Progresses
  <1>1. CASE StartReconcile
    <2>1. UNCHANGED <<obj, cache>> /\ local' = cache /\ pc' = "checkApp" /\ SameResult(obj', obj)
      BY <1>1 DEF StartReconcile, SameResult
    <2>2. HeldWell
      BY <2>1 DEF HeldWell, ProgressInv
    <2> QED
      BY <2>1, <2>2, StoredSame, ProgressFromParts
  <1>2. CASE CheckPreEvaluationStatusOfApp
    BY <1>2, ProgressUnwritten DEF CheckPreEvaluationStatusOfApp, Return, Goto, SameResult
  <1>3. ASSUME NEW c \in Checks, ReconcileCheck(c) PROVE Progresses
    <2>1. SameResult(local', local)
      BY <1>3, CheckTurnType DEF ReconcileCheck, SameResult, ProgressInv, FailureInv
    <2> QED
      BY <1>3, <2>1, ProgressUnwritten DEF ReconcileCheck, SameResult
  <1>4. CASE Sync
    BY <1>4, ProgressUnwritten DEF Sync, SameResult
  <1>5. CASE ReadFails \/ Crash
    BY <1>5, ProgressUnwritten DEF ReadFails, Crash, Return, SameResult
  <1>6. ASSUME NEW spec \in Specs, TouchSpec(spec)
        PROVE  Progresses
    <2>1. SameResult(obj', obj)
      BY <1>6 DEF TouchSpec, SameResult, ProgressInv, FailureInv, TypeInv, TypeOK,
         WorkloadVersions
    <2> QED
      BY <1>6, <2>1, ProgressUnwritten DEF TouchSpec, SameResult
  <1>7. CASE UNCHANGED <<obj, cache, reconciler>>
    BY <1>7, ProgressUnwritten DEF reconciler, SameResult
  <1> QED
    BY <1>1, <1>2, <1>3, <1>4, <1>5, <1>6, <1>7 DEF RemoveGate, Items, ItemProgresses,
       Environment, ItemDeleted, ResultTakenBack, AppDecides, PodStarts, DeadlinePasses,
       SwitchBlocking, vars

LEMMA StepProgress ==
    ASSUME ProgressInv, [Next]_vars, UNCHANGED block
    PROVE  Progresses
  BY PreparationProgress, EnterPhaseProgress, AllPhasesSucceededProgress, RecordChecksProgress,
     ReconcileDeploymentProgress, CompletePhaseProgress, FinishReconcileProgress, OtherProgress
     DEF Next, Controller

\* Nothing but a change of the configuration changes `block`.
LEMMA BlockUnchanged ==
    ASSUME [Next]_vars, ~ConfigMayChange
    PROVE  UNCHANGED block
  <1>1. CASE Controller
    BY <1>1 DEF Controller, StartReconcile, CheckPreEvaluationStatusOfApp,
       SetAppContextMetadata, SetTraceId, SetOnce, WriteOrReturn, EnterPhase,
       AllPhasesSucceeded, ReconcileCheck, RecordChecks, ReconcileDeployment, CompletePhase,
       FinishReconcile, world
  <1>2. CASE ~Controller
    BY <1>2 DEF Next, Sync, RemoveGate, Items, ItemProgresses, Environment, ReadFails, Crash,
       TouchSpec, ItemDeleted, ResultTakenBack, AppDecides, PodStarts, DeadlinePasses,
       SwitchBlocking, vars, world
  <1> QED
    BY <1>1, <1>2

LEMMA ProgressInvariant ==
    ASSUME ~ConfigMayChange
    PROVE  Spec => []ProgressInv
  <1>1. ProgressInv /\ [Next]_vars => ProgressInv'
    BY StepProgress, BlockUnchanged DEF Progresses
  <1> QED
    BY <1>1, InitProgress, PTL DEF Spec

-----------------------------------------------------------------------------
(***************************************************************************)
(* WorkloadVersion implements PhaseProgress.                               *)
(***************************************************************************)
\* How many phases are passed: those that are done, when they are in order.
LEMMA PassedCount ==
    ASSUME NEW item, Orderly(item)
    PROVE  Passed(item) = Cardinality(DoneSet(item))
  <1>1. ASSUME NEW p \in Phases
        PROVE  p \in DoneSet(item) <=> \A q \in 1..p : PhaseDone(item.phaseStatus[q])
    <2>1. ASSUME NEW q \in 1..p PROVE q \in Phases /\ (q < p \/ q = p)
      BY DEF Phases
    <2>2. p \in 1..p
      BY DEF Phases
    <2>3. ASSUME p \in DoneSet(item), NEW q \in 1..p PROVE PhaseDone(item.phaseStatus[q])
      <3>1. q \in DoneSet(item)
        BY <2>1, <2>3 DEF Orderly
      <3> QED
        BY <3>1 DEF DoneSet
    <2> QED
      BY <2>2, <2>3 DEF DoneSet
  <1>2. DoneSet(item) = {p \in Phases : \A q \in 1..p : PhaseDone(item.phaseStatus[q])}
    BY <1>1 DEF DoneSet
  <1> QED
    BY <1>2 DEF Passed

LEMMA DoneSetSize ==
    ASSUME NEW item
    PROVE  /\ IsFiniteSet(DoneSet(item)) /\ IsFiniteSet(Phases)
           /\ Cardinality(DoneSet(item)) \in Nat /\ Cardinality(Phases) \in Nat
           /\ Cardinality(DoneSet(item)) <= Cardinality(Phases)
           /\ Cardinality(DoneSet(item)) = Cardinality(Phases) => DoneSet(item) = Phases
  <1>1. IsFiniteSet(Phases)
    <2>1. 1 \in Int /\ 5 \in Int
      OBVIOUS
    <2>2. IsFiniteSet(1..5)
      BY <2>1, FS_Interval, Zenon
    <2> QED
      BY <2>2 DEF Phases
  <1>2. DoneSet(item) \in SUBSET Phases
    BY DEF DoneSet
  <1> QED
    BY <1>1, <1>2, FS_Subset, FS_CardinalityType

\* A move of the object is a step of PhaseProgress that leaves the gate alone.
LEMMA MoveIsProgress ==
    ASSUME Orderly(obj), Orderly(obj'), Moves(obj, obj'), UNCHANGED pod
    PROVE  Progress!Next \/ UNCHANGED <<Passed(obj), Outcome(obj), pod = "released">>
  <1>0. /\ Passed(obj) = Cardinality(DoneSet(obj))
        /\ (Passed(obj))' = Cardinality(DoneSet(obj'))
    <2>1. Passed(obj') = Cardinality(DoneSet(obj'))
      BY PassedCount
    <2> QED
      BY <2>1, PassedCount DEF Passed, PhaseDone
  <1>1. CASE DoneSet(obj') = DoneSet(obj) /\ Outcome(obj') = Outcome(obj)
    BY <1>0, <1>1 DEF Outcome
  <1>2. ASSUME Outcome(obj) = "running", Outcome(obj') = "running",
               NEW p \in Phases \ DoneSet(obj), DoneSet(obj') = DoneSet(obj) \cup {p}
        PROVE  Progress!Pass
    <2>1. Cardinality(DoneSet(obj')) = Cardinality(DoneSet(obj)) + 1
      BY <1>2, DoneSetSize, FS_AddElement
    <2>2. Cardinality(DoneSet(obj)) < Cardinality(Phases)
      BY <2>1, DoneSetSize
    <2> QED
      BY <1>0, <1>2, <2>1, <2>2 DEF Progress!Pass, Outcome
  <1>3. CASE /\ Outcome(obj) = "running" /\ Outcome(obj') = "succeeded"
             /\ DoneSet(obj) = Phases /\ DoneSet(obj') = Phases
    BY <1>0, <1>3 DEF Progress!Succeed, Progress!Next, Outcome
  <1>4. CASE /\ Outcome(obj) = "running" /\ Outcome(obj') = "failed"
             /\ DoneSet(obj) # Phases /\ DoneSet(obj') = DoneSet(obj)
    <2>1. Cardinality(DoneSet(obj)) < Cardinality(Phases)
      BY <1>4, DoneSetSize
    <2> QED
      BY <1>0, <1>4, <2>1 DEF Progress!Fail, Progress!Next, Outcome
  <1> QED
    BY <1>1, <1>2, <1>3, <1>4 DEF Moves, Progress!Next

\* The gate opens when the cached copy says that the deployment has begun,
\* which the stored object then says too, or that the item has failed.
LEMMA GateIsOpen ==
    ASSUME ProgressInv, RemoveGate
    PROVE  Progress!Open \/ Progress!OpenAfterFailure
  <1>1. cache.phaseStatus[Deployment] # StatePending
    BY DEF RemoveGate, GateMayGo, IsCompleted, StatePending, StateProgressing, StateSucceeded,
       StateFailed, StateDeprecated, StateWarning
  <1>2. \/ \A p \in Phases : p < Deployment => p \in DoneSet(obj)
        \/ obj.status = StateFailed
    BY <1>1 DEF ProgressInv, Orderly, Behind
  <1>3. CASE obj.status = StateFailed
    <2>1. Outcome(obj) = "failed"
      BY <1>3 DEF Outcome, StateFailed, StateSucceeded
    <2> QED
      BY <2>1 DEF RemoveGate, Progress!OpenAfterFailure, Passed, Outcome
  <1>4. CASE \A p \in Phases : p < Deployment => p \in DoneSet(obj)
    <2>1. 1..(Deployment - 1) \in SUBSET DoneSet(obj)
      BY <1>4 DEF Deployment, Phases
    <2>2. Cardinality(1..(Deployment - 1)) = Deployment - 1
      <3>1. 1 \in Int /\ 2 \in Int
        OBVIOUS
      <3>2. Cardinality(1..2) = IF 1 > 2 THEN 0 ELSE 2 - 1 + 1
        BY <3>1, FS_Interval, Zenon
      <3>3. Deployment - 1 = 2 /\ Cardinality(1..2) = 2
        BY <3>2 DEF Deployment
      <3> QED
        BY <3>3
    <2>3. Cardinality(1..(Deployment - 1)) <= Cardinality(DoneSet(obj))
      BY <2>1, DoneSetSize, FS_Subset
    <2>4. Passed(obj) >= Deployment - 1
      BY <2>2, <2>3, PassedCount, DoneSetSize DEF ProgressInv, Deployment
    <2> QED
      BY <2>4 DEF RemoveGate, Progress!Open, Passed, Outcome
  <1> QED
    BY <1>2, <1>3, <1>4

LEMMA PodUnchanged ==
    ASSUME [Next]_vars, ~RemoveGate
    PROVE  UNCHANGED pod
  <1>1. CASE Controller
    BY <1>1 DEF Controller, StartReconcile, CheckPreEvaluationStatusOfApp,
       SetAppContextMetadata, SetTraceId, SetOnce, WriteOrReturn, EnterPhase,
       AllPhasesSucceeded, ReconcileCheck, RecordChecks, ReconcileDeployment, CompletePhase,
       FinishReconcile, world
  <1>2. CASE ~Controller
    BY <1>2 DEF Next, Sync, Items, ItemProgresses, Environment, ReadFails, Crash,
       TouchSpec, ItemDeleted, ResultTakenBack, AppDecides, PodStarts, DeadlinePasses,
       SwitchBlocking, vars, world
  <1> QED
    BY <1>1, <1>2

\* Stale copies, conflicts, failed calls, restarts and lost results
\* notwithstanding, the stored workload version passes its phases one by one
\* and takes none back, ends once, as succeeded after the last phase or as
\* failed before, and its pod is not released before the phases in front of
\* the deployment are passed or the version has failed (Reconcile, HandlePhase,
\* the scheduling gates controller).
THEOREM ImplementsPhaseProgressHolds ==
    ASSUME ~ConfigMayChange
    PROVE  Spec => ImplementsPhaseProgress
  <1>1. Init => Progress!Init
    <2> SUFFICES ASSUME Init PROVE Progress!Init
      OBVIOUS
    <2>1. Passed(obj) = 0
      BY InitialProgress, PassedCount, FS_EmptySet
    <2>2. Outcome(obj) = "running"
      BY InitialProgress
    <2> QED
      BY <2>1, <2>2 DEF Init, Progress!Init
  <1>2. ProgressInv /\ [Next]_vars => [Progress!Next]_(Progress!progress)
    <2> SUFFICES ASSUME ProgressInv, [Next]_vars
                 PROVE  [Progress!Next]_(Progress!progress)
      OBVIOUS
    <2>1. CASE RemoveGate
      BY <2>1, GateIsOpen DEF Progress!Next
    <2>2. CASE ~RemoveGate
      <3>1. Progresses /\ UNCHANGED pod
        BY <2>2, StepProgress, BlockUnchanged, PodUnchanged
      <3> QED
        BY <3>1, MoveIsProgress DEF Progresses, ProgressInv, Progress!progress
    <2> QED
      BY <2>1, <2>2
  <1> QED
    BY <1>1, <1>2, ProgressInvariant, PTL DEF Spec, ImplementsPhaseProgress, Progress!Spec

-----------------------------------------------------------------------------
(***************************************************************************)
(* Nothing is started before its time.                                     *)
(***************************************************************************)
OrderInv ==
    /\ FailureInv
    /\ pc \notin {"idle", "checkApp"} => appPreEval = StateSucceeded
    /\ obj.currentPhase # NoPhase => appPreEval = StateSucceeded
    /\ cache.currentPhase # NoPhase => appPreEval = StateSucceeded
    /\ local.currentPhase # NoPhase => appPreEval = StateSucceeded
    /\ pc = "checks" => \A c \in todo : CheckPhase[c] = ph
    /\ ~StaleReads /\ pc # "idle" => local.phaseStatus = obj.phaseStatus

\* What a step that writes does to the object and to the copy it holds.
OrderKept ==
    /\ obj'.currentPhase # NoPhase => appPreEval = StateSucceeded
    /\ local'.currentPhase # NoPhase => appPreEval = StateSucceeded
    /\ ~StaleReads /\ pc' # "idle" => local'.phaseStatus = obj'.phaseStatus
    /\ UNCHANGED <<cache, appPreEval>>
    /\ pc' # "checks"

LEMMA OrderFromKept ==
    ASSUME OrderInv, [Next]_vars, OrderKept,
           pc' \in {"idle", "checkApp"} \/ appPreEval = StateSucceeded
    PROVE  OrderInv'
  <1>1. FailureInv'
    BY StepFailure DEF OrderInv
  <1> QED
    BY <1>1 DEF OrderInv, OrderKept

\* Nothing but the generation and other things that do not count are written.
LEMMA OrderUnwritten ==
    ASSUME OrderInv, [Next]_vars, UNCHANGED <<cache, appPreEval>>,
           obj'.currentPhase = obj.currentPhase, obj'.phaseStatus = obj.phaseStatus,
           \/ local'.currentPhase = local.currentPhase /\ local'.phaseStatus = local.phaseStatus
              /\ pc # "idle"
           \/ pc' = "idle" /\ local' = NewWorkloadVersion,
           pc' \in {"idle", "checkApp"} \/ appPreEval = StateSucceeded,
           pc' # "checks"
    PROVE  OrderInv'
  BY OrderFromKept DEF OrderInv, OrderKept, NewWorkloadVersion

LEMMA WriteOrReturnOrder ==
    ASSUME OrderInv, [Next]_vars, pc \notin {"idle", "checkApp"}, NEW new,
           NEW label \in {"setTraceId", "phase", "complete"}, WriteOrReturn(new, label)
    PROVE  OrderInv'
  <1>0. UNCHANGED <<cache, appPreEval>> /\ appPreEval = StateSucceeded
    BY DEF WriteOrReturn, world, OrderInv
  <1>1. CASE Update(new, TRUE) /\ local' = new /\ Goto(label)
    <2>1. obj' = local'
      BY <1>1, UpdateEffect
    <2> QED
      BY <1>0, <1>1, <2>1, OrderFromKept DEF OrderKept, Goto
  <1>2. CASE Return(TRUE)
    BY <1>0, <1>2, OrderFromKept DEF OrderKept, Return, NewWorkloadVersion
  <1> QED
    BY <1>1, <1>2 DEF WriteOrReturn

LEMMA ControllerOrder ==
    ASSUME OrderInv, [Next]_vars, Controller
    PROVE  OrderInv'
  <1>1. CASE StartReconcile
    <2>1. FailureInv'
      BY StepFailure DEF OrderInv
    <2> QED
      BY <1>1, <2>1 DEF StartReconcile, OrderInv, world
  <1>2. CASE CheckPreEvaluationStatusOfApp
    BY <1>2, OrderUnwritten
       DEF CheckPreEvaluationStatusOfApp, OrderInv, Goto, Return, world, IsSucceeded
  <1>3. CASE SetAppContextMetadata
    <2>1. CASE local.appContextMetadata
      BY <1>3, <2>1, OrderUnwritten DEF SetAppContextMetadata, SetOnce, OrderInv, Goto, world
    <2>2. CASE ~local.appContextMetadata
      BY <1>3, <2>2, WriteOrReturnOrder DEF SetAppContextMetadata, SetOnce
    <2> QED
      BY <2>1, <2>2
  <1>4. CASE SetTraceId
    <2>1. CASE local.traceId
      BY <1>4, <2>1, OrderUnwritten DEF SetTraceId, SetOnce, OrderInv, Goto, world
    <2>2. CASE ~local.traceId
      BY <1>4, <2>2, WriteOrReturnOrder DEF SetTraceId, SetOnce
    <2> QED
      BY <2>1, <2>2
  <1>5. CASE EnterPhase
    <2>1. FailureInv' /\ appPreEval = StateSucceeded /\ UNCHANGED <<obj, cache, appPreEval>>
      BY <1>5, StepFailure DEF OrderInv, EnterPhase, world
    <2>2. CASE Return(FALSE)
      BY <1>5, <2>1, <2>2, OrderFromKept
         DEF OrderInv, OrderKept, Return, NewWorkloadVersion
    <2>3. PICK p \in ph..PostDeploymentEvaluations :
              \/ Return(FALSE)
              \/ /\ local' = [local EXCEPT !.currentPhase = p]
                 /\ ph' = p
                 /\ todo' = ChecksOf(local, p)
      BY <1>5 DEF EnterPhase
    <2>4. CASE ~Return(FALSE)
      <3>1. local'.phaseStatus = local.phaseStatus
        BY <2>3, <2>4 DEF OrderInv, FailureInv, TypeInv, TypeOK, WorkloadVersions
      <3>3. \A c \in todo' : CheckPhase[c] = ph'
        BY <2>3, <2>4 DEF ChecksOf
      <3>4. pc # "idle"
        BY <1>5 DEF EnterPhase
      <3> QED
        BY <2>1, <3>1, <3>3, <3>4 DEF OrderInv
    <2> QED
      BY <2>2, <2>4
  <1>6. CASE AllPhasesSucceeded
    BY <1>6, OrderUnwritten DEF AllPhasesSucceeded, OrderInv, Goto, world
  <1>7. ASSUME NEW c \in Checks, ReconcileCheck(c) PROVE OrderInv'
    <2>1. FailureInv'
      BY StepFailure DEF OrderInv
    <2>2. /\ local'.currentPhase = local.currentPhase
          /\ local'.phaseStatus = local.phaseStatus
      BY <1>7 DEF OrderInv, FailureInv, TypeInv, TypeOK, WorkloadVersions, ReconcileCheck,
         KeepResult, ReadItem, CreateItem, CreateItemFails
    <2>3. /\ todo' \subseteq todo
          /\ UNCHANGED <<obj, cache, pc, ph, appPreEval>>
      BY <1>7 DEF ReconcileCheck, world
    <2> QED
      BY <2>1, <2>2, <2>3 DEF OrderInv
  <1>8. CASE RecordChecks
    BY <1>8, WriteOrReturnOrder DEF RecordChecks
  <1>9. CASE ReconcileDeployment
    BY <1>9, WriteOrReturnOrder DEF ReconcileDeployment
  <1>10. CASE CompletePhase
    <2> DEFINE state == local.phaseStatus[ph]
               new   == AfterPhase(local, ph, state)
    <2>1. /\ UNCHANGED <<cache, appPreEval>> /\ appPreEval = StateSucceeded
          /\ pc = "complete"
      BY <1>10 DEF CompletePhase, world, OrderInv
    <2>2. obj' = obj \/ \E accepted \in BOOLEAN : Update(new, accepted)
      BY <1>10 DEF CompletePhase
    <2>3. obj' \in {obj, new}
      BY <2>2, UpdateEffect
    <2>4. CASE Continues(state)
      <3>1. new = local
        BY <2>4 DEF AfterPhase, Continues
      <3>2. local' = new /\ pc' = "phase"
        BY <1>10, <2>4 DEF CompletePhase
      <3> HIDE DEF new
      <3> QED
        BY <2>1, <2>3, <3>1, <3>2, OrderFromKept DEF OrderKept, OrderInv
    <2>5. CASE ~Continues(state)
      <3>1. pc' = "idle" /\ local' = NewWorkloadVersion
        BY <1>10, <2>5 DEF CompletePhase, Return
      <3> QED
        BY <2>1, <3>1, OrderFromKept DEF OrderKept, NewWorkloadVersion
    <2> QED
      BY <2>4, <2>5
  <1>11. CASE FinishReconcile
    <2>1. /\ UNCHANGED <<cache, appPreEval>> /\ appPreEval = StateSucceeded
          /\ pc' = "idle" /\ local' = NewWorkloadVersion
      BY <1>11 DEF FinishReconcile, Return, world, OrderInv
    <2> QED
      BY <2>1, OrderFromKept DEF OrderKept, NewWorkloadVersion
  <1> QED
    BY <1>1, <1>2, <1>3, <1>4, <1>5, <1>6, <1>7, <1>8, <1>9, <1>10, <1>11 DEF Controller

LEMMA StepOrder ==
    ASSUME OrderInv, [Next]_vars
    PROVE  OrderInv'
  <1>0. FailureInv'
    BY StepFailure DEF OrderInv
  <1>1. CASE Controller
    BY <1>1, ControllerOrder
  <1>2. CASE Sync
    BY <1>0, <1>2 DEF Sync, OrderInv, world
  <1>3. CASE ReadFails
    BY <1>3, OrderUnwritten DEF ReadFails, Return, world
  <1>4. CASE Crash
    BY <1>0, <1>4 DEF Crash, OrderInv, world, NewWorkloadVersion
  <1>5. ASSUME NEW spec \in Specs, TouchSpec(spec)
        PROVE  OrderInv'
    <2>1. obj'.currentPhase = obj.currentPhase /\ obj'.phaseStatus = obj.phaseStatus
      BY <1>5 DEF TouchSpec, OrderInv, FailureInv, TypeInv, TypeOK, WorkloadVersions
    <2> QED
      BY <1>0, <1>5, <2>1 DEF TouchSpec, OrderInv
  <1>6. CASE AppDecides
    BY <1>0, <1>6 DEF AppDecides, OrderInv, reconciler, StatePending, StateSucceeded
  <1>7. CASE UNCHANGED <<obj, cache, reconciler, appPreEval>>
    BY <1>0, <1>7 DEF OrderInv, reconciler
  <1> QED
    BY <1>1, <1>2, <1>3, <1>4, <1>5, <1>6, <1>7 DEF Next, RemoveGate, Items, ItemProgresses,
       Environment, ItemDeleted, ResultTakenBack, PodStarts, DeadlinePasses, SwitchBlocking,
       vars, world

LEMMA OrderInvariant == Spec => []OrderInv
  <1>1. Init => OrderInv
    BY InitFailure DEF Init, OrderInv, NewWorkloadVersion, NoPhase
  <1>2. OrderInv /\ [Next]_vars => OrderInv'
    BY StepOrder
  <1> QED
    BY <1>1, <1>2, PTL DEF Spec

\* Only a reconciliation of the check creates an object for it.
LEMMA CreatedByReconcile ==
    ASSUME TypeInv, [Next]_vars, NEW c \in Checks, NEW n \in Copies,
           items[c][n].there = "no", items'[c][n].there # "no"
    PROVE  pc = "checks" /\ c \in todo
  <1>1. /\ items \in [Checks -> [Copies -> ItemObject]]
        /\ items' # items
    BY DEF TypeInv, TypeOK
  <1>2. CASE \E d \in Checks : ReconcileCheck(d)
    <2>1. PICK d \in Checks : ReconcileCheck(d)
      BY <1>2
    <2>2. \/ items' = items
          \/ \E m \in Copies : items' = WithCopy(d, m)
      BY <2>1 DEF ReconcileCheck, KeepResult, ReadItem, CreateItem, CreateItemFails
    <2>3. d = c
      BY <1>1, <2>2 DEF WithCopy
    <2> QED
      BY <2>1, <2>3 DEF ReconcileCheck
  <1>3. ASSUME NEW d \in Checks, NEW m \in Copies,
               ItemProgresses(d, m) \/ ItemDeleted(d, m) \/ ResultTakenBack(d, m)
        PROVE  FALSE
    <2>1. items[d][m].there # "no"
      BY <1>3 DEF ItemProgresses, ItemDeleted, ResultTakenBack, Exists
    <2>2. \E o : items' = [items EXCEPT ![d] = [items[d] EXCEPT ![m] = o]]
      BY <1>3 DEF ItemProgresses, ItemDeleted, ResultTakenBack
    <2>3. items'[c][n] = items[c][n]
      BY <1>1, <2>1, <2>2
    <2> QED
      BY <2>3
  <1>4. CASE UNCHANGED items
    BY <1>1, <1>4
  <1> QED
    BY <1>2, <1>3, <1>4 DEF Next, Controller, StartReconcile, CheckPreEvaluationStatusOfApp,
       SetAppContextMetadata, SetTraceId, SetOnce, WriteOrReturn, EnterPhase,
       AllPhasesSucceeded, RecordChecks, ReconcileDeployment, CompletePhase,
       FinishReconcile, Sync, RemoveGate, Items, Environment, ReadFails, Crash, TouchSpec,
       AppDecides, PodStarts, DeadlinePasses, SwitchBlocking, vars

\* No task or evaluation is created before the app version and all earlier
\* phases let it be (checkPreEvaluationStatusOfApp, Reconcile), provided that
\* the copies are never old or the configuration never changes: with both, a
\* phase that ended with a Warning can be undone by blocking, and a copy from
\* before goes on to the phase after it.
THEOREM ChecksInOrderHolds ==
    ASSUME ~StaleReads \/ ~ConfigMayChange
    PROVE  Spec => ChecksInOrder
  <1> DEFINE InOrder(c, n) ==
        items[c][n].there = "no" /\ items'[c][n].there # "no" =>
            /\ appPreEval = StateSucceeded
            /\ \A p \in Phases : p < CheckPhase[c] => PhaseDone(obj.phaseStatus[p])
  <1>1. ASSUME OrderInv, [Next]_vars, NEW c \in Checks, NEW n \in Copies,
               items[c][n].there = "no", items'[c][n].there # "no"
        PROVE  /\ appPreEval = StateSucceeded
               /\ ph = CheckPhase[c]
               /\ \A p \in Phases : p < ph => PhaseDone(local.phaseStatus[p])
               /\ ~StaleReads => local.phaseStatus = obj.phaseStatus
    <2>1. pc = "checks" /\ c \in todo
      BY <1>1, CreatedByReconcile DEF OrderInv, FailureInv
    <2> QED
      BY <1>1, <2>1 DEF OrderInv, FailureInv, EarlierPhasesDone, InPhase
  <1>2. OrderInv /\ (~ConfigMayChange => ProgressInv) /\ [Next]_vars
            => [\A c \in Checks, n \in Copies : InOrder(c, n)]_vars
    <2> SUFFICES ASSUME OrderInv, ~ConfigMayChange => ProgressInv, [Next]_vars,
                        NEW c \in Checks, NEW n \in Copies
                 PROVE  InOrder(c, n)
      OBVIOUS
    <2> SUFFICES ASSUME items[c][n].there = "no", items'[c][n].there # "no"
                 PROVE  /\ appPreEval = StateSucceeded
                        /\ \A p \in Phases : p < CheckPhase[c] => PhaseDone(obj.phaseStatus[p])
      OBVIOUS
    <2>1. CASE ~StaleReads
      BY <1>1, <2>1
    <2>2. CASE ~ConfigMayChange
      <3>1. DoneSet(local) \subseteq DoneSet(obj)
        BY <2>2 DEF ProgressInv, Behind
      <3> QED
        BY <1>1, <3>1 DEF DoneSet
    <2> QED
      BY <2>1, <2>2
  <1>3. Spec => [](~ConfigMayChange => ProgressInv)
    <2>1. CASE ~ConfigMayChange
      BY <2>1, ProgressInvariant, PTL
    <2>2. CASE ConfigMayChange
      BY <2>2, PTL
    <2> QED
      BY <2>1, <2>2
  <1> QED
    BY <1>2, <1>3, OrderInvariant, PTL DEF Spec, ChecksInOrder
=============================================================================
