------------------------- MODULE KeptnEvaluationProofs -------------------------
(***************************************************************************)
(* Proofs about KeptnEvaluation, for every number of objectives, every     *)
(* number of retries and every bound.  Attempts are lost on the way from   *)
(* memory to the API server and back; the argument is that no copy of the  *)
(* evaluation, however old, claims an objective that was never met or an   *)
(* attempt that was never made.                                            *)
(***************************************************************************)
EXTENDS KeptnEvaluation, FiniteSetTheorems, TLAPS

-----------------------------------------------------------------------------
(***************************************************************************)
(* What the state of a phase says of the items it is folded from           *)
(* (UpdateStatusSummary, GetOverallState).                                 *)
(***************************************************************************)
LEMMA CountType ==
    ASSUME NEW S, IsFiniteSet(S), NEW st, NEW k
    PROVE  CountIn(S, st, k) \in Nat
  <1>1. {i \in S : st[i] = k} \in SUBSET S
    OBVIOUS
  <1>2. IsFiniteSet({i \in S : st[i] = k})
    BY <1>1, FS_Subset
  <1> QED
    BY <1>2, FS_CardinalityType DEF CountIn

\* A phase succeeds only when every check of its spec is listed as succeeded:
\* a check that could not be created is missing from the list, but counted
\* in the total.
LEMMA OverallSuccess ==
    ASSUME NEW S, IsFiniteSet(S), NEW st,
           GetOverallState(UpdateStatusSummary(S, st)) = StateSucceeded
    PROVE  \A i \in S : st[i] = StateSucceeded
  <1> DEFINE s    == UpdateStatusSummary(S, st)
             good == {i \in S : st[i] = StateSucceeded}
  <1>1. /\ s.failed \in Nat /\ s.succeeded \in Nat /\ s.progressing \in Nat
        /\ s.pending \in Nat /\ s.unknown \in Nat /\ s.deprecated \in Nat
    BY CountType DEF UpdateStatusSummary
  <1>2. s.total = Cardinality(S) /\ s.succeeded = Cardinality(good)
    BY DEF UpdateStatusSummary, CountIn
  <1> HIDE DEF s
  <1>3. GetOverallState(s) = StateSucceeded
    BY DEF s
  <1>4. /\ ~(s.failed > 0) /\ ~(s.deprecated > 0) /\ ~(s.progressing > 0)
        /\ ~(s.pending > 0) /\ ~(s.unknown > 0) /\ GetTotalCount(s) = s.total
    BY <1>3 DEF GetOverallState, StateSucceeded, StateFailed, StateProgressing, StatePending,
       StateUnknown
  <1>5. s.succeeded = s.total
    BY <1>1, <1>4 DEF GetTotalCount
  <1>6. good \in SUBSET S
    OBVIOUS
  <1>7. good = S
    BY <1>2, <1>5, <1>6, FS_Subset
  <1> QED
    BY <1>7

-----------------------------------------------------------------------------
\* A copy claims no attempt that was not made, and a failure only when there
\* was no attempt left.
Attempted(item, n) ==
    /\ item.retryCount <= n
    /\ item.overallStatus = StateFailed => item.retryCount = Retries

RetryInv ==
    /\ TypeOK
    /\ Attempted(obj, attempts)
    /\ Attempted(cache, attempts)
    /\ Attempted(local, attempts)
    /\ pc = "exceeded" => local.retryCount = Retries
    /\ pc \in {"definition", "objectives"} => local.retryCount < Retries
    /\ pc \in {"incomplete", "finish"} => local.overallStatus # StateFailed

\* Retries, as the types of the fields see it.
LEMMA RetryFacts ==
    /\ Retries \in Nat /\ Retries >= 1 /\ N \in Nat
    /\ \A item \in Evaluations :
            /\ item.retryCount \in Nat
            /\ item.retryCount <= Retries
            /\ ExceededRetries(item) <=> item.retryCount = Retries
  BY EvaluationAssumption DEF Evaluations, ExceededRetries

LEMMA NewEvaluationType ==
    /\ NewEvaluation \in Evaluations
    /\ NoStatus \in [Metrics -> ObjectiveStates]
    /\ \A n \in Nat : Attempted(NewEvaluation, n)
  <1>1. 0 \in 0..Retries
    BY RetryFacts
  <1>2. NoStatus \in [Metrics -> ObjectiveStates]
    BY DEF NoStatus, ObjectiveStates
  <1>3. NewEvaluation \in Evaluations
    BY <1>1, <1>2 DEF NewEvaluation, Evaluations
  <1>4. NewEvaluation.retryCount = 0 /\ NewEvaluation.overallStatus # StateFailed
    BY DEF NewEvaluation, StatePending, StateFailed
  <1> QED
    BY <1>2, <1>3, <1>4 DEF Attempted

LEMMA InitRetry == Init => RetryInv
  <1> SUFFICES ASSUME Init PROVE RetryInv
    OBVIOUS
  <1>1. /\ next \in 1..(N + 1) /\ attempts \in Nat /\ met \subseteq Objectives
        /\ seen \in [Objectives -> ObjectiveStates]
        /\ faults \in 0..MaxFaults /\ crashes \in 0..MaxCrashes /\ stale \in 0..MaxStale
    BY EvaluationAssumption DEF Init, ObjectiveStates
  <1>2. queued \in BOOLEAN /\ fresh \in BOOLEAN /\ defined \in BOOLEAN /\ dropped \in BOOLEAN
    BY DEF Init
  <1>3. TypeOK
    BY <1>1, <1>2, NewEvaluationType DEF Init, TypeOK
  <1> QED
    BY <1>1, <1>3, NewEvaluationType DEF Init, RetryInv

-----------------------------------------------------------------------------
(***************************************************************************)
(* RetryInv is inductive.                                                  *)
(***************************************************************************)
LEMMA ReturnRetry ==
    ASSUME TypeOK, NEW r \in BOOLEAN, Return(r)
    PROVE  /\ pc' = "idle" /\ local' = NewEvaluation
           /\ queued' \in BOOLEAN /\ fresh' \in BOOLEAN
           /\ next' \in 1..(N + 1)
           /\ newStatus' \in [Metrics -> ObjectiveStates]
           /\ seen' \in [Objectives -> ObjectiveStates]
  <1>1. queued' \in BOOLEAN /\ fresh' \in BOOLEAN
    BY DEF Return, TypeOK
  <1>2. next' \in 1..(N + 1) /\ seen' \in [Objectives -> ObjectiveStates]
    BY EvaluationAssumption DEF Return, ObjectiveStates
  <1> QED
    BY <1>1, <1>2, NewEvaluationType DEF Return

LEMMA UpdateEffect ==
    ASSUME TypeOK, NEW new, NEW accepted \in BOOLEAN, Update(new, accepted)
    PROVE  obj' \in {obj, new} /\ faults' \in 0..MaxFaults
  BY EvaluationAssumption DEF Update, TypeOK

\* A write of a copy, after which the reconciliation returns.
LEMMA WriteRetry ==
    ASSUME RetryInv, NEW new \in Evaluations, Attempted(new, attempts),
           NEW accepted \in BOOLEAN, Update(new, accepted), NEW r \in BOOLEAN, Return(r),
           UNCHANGED <<cache, defined, history, bounds>>, dropped' \in BOOLEAN
    PROVE  RetryInv'
  <1>1. obj' \in Evaluations /\ Attempted(obj', attempts) /\ faults' \in 0..MaxFaults
    BY UpdateEffect DEF RetryInv, TypeOK
  <1>2. TypeOK'
    BY <1>1, ReturnRetry, NewEvaluationType DEF RetryInv, TypeOK, history, bounds
  <1>3. attempts' = attempts /\ attempts \in Nat
    BY DEF history, RetryInv, TypeOK
  <1> QED
    BY <1>1, <1>2, <1>3, ReturnRetry, NewEvaluationType DEF RetryInv

LEMMA ReconcileRetry == RetryInv /\ Reconcile => RetryInv'
  <1> SUFFICES ASSUME RetryInv, Reconcile PROVE RetryInv'
    OBVIOUS
  <1>1. /\ UNCHANGED <<obj, cache, attempt, defined, history, dropped, faults, crashes>>
        /\ queued' = FALSE /\ local' = cache /\ fresh' = (cache = obj)
    BY DEF Reconcile
  <1>2. stale' \in 0..MaxStale
    BY EvaluationAssumption DEF Reconcile, Read, RetryInv, TypeOK
  <1>3. \/ pc' = "exceeded" /\ ExceededRetries(cache)
        \/ pc' = "finish" /\ IsSucceeded(cache.overallStatus)
        \/ pc' = "definition" /\ ~ExceededRetries(cache)
    BY DEF Reconcile
  <1>4. fresh' \in BOOLEAN /\ queued' \in BOOLEAN
    BY <1>1
  <1>5. TypeOK'
    BY <1>1, <1>2, <1>3, <1>4 DEF RetryInv, TypeOK, attempt, history
  <1>6. cache \in Evaluations /\ attempts' = attempts
    BY <1>1 DEF RetryInv, TypeOK, history
  <1>7. /\ pc' = "exceeded" => cache.retryCount = Retries
        /\ pc' = "definition" => cache.retryCount < Retries
        /\ pc' = "finish" => cache.overallStatus # StateFailed
    BY <1>3, <1>6, RetryFacts DEF IsSucceeded, StateSucceeded, StateFailed
  <1> QED
    BY <1>1, <1>3, <1>5, <1>6, <1>7 DEF RetryInv

LEMMA ExceededRetry == RetryInv /\ HandleEvaluationExceededRetries => RetryInv'
  <1> SUFFICES ASSUME RetryInv, HandleEvaluationExceededRetries PROVE RetryInv'
    OBVIOUS
  <1> DEFINE new == [local EXCEPT !.overallStatus = StateFailed, !.endTime = TRUE]
  <1>1. PICK accepted \in BOOLEAN : Update(new, accepted) /\ dropped' = (dropped \/ ~accepted)
    BY DEF HandleEvaluationExceededRetries
  <1>2. /\ local \in Evaluations /\ local.retryCount = Retries
        /\ dropped' \in BOOLEAN
    BY <1>1 DEF RetryInv, TypeOK, HandleEvaluationExceededRetries
  <1>3. new \in Evaluations /\ new.retryCount = local.retryCount
    BY <1>2 DEF Evaluations
  <1>4. Attempted(new, attempts)
    BY <1>2, <1>3 DEF Attempted, RetryInv
  <1> HIDE DEF new
  <1> QED
    BY <1>1, <1>2, <1>3, <1>4, WriteRetry DEF HandleEvaluationExceededRetries

LEMMA DefinitionRetry == RetryInv /\ GetEvaluationDefinition => RetryInv'
  <1> SUFFICES ASSUME RetryInv, GetEvaluationDefinition PROVE RetryInv'
    OBVIOUS
  <1>0. UNCHANGED <<obj, cache, defined, history, bounds>> /\ pc = "definition"
    BY DEF GetEvaluationDefinition
  <1>1. CASE pc' = "objectives" /\ UNCHANGED <<queued, local, fresh, attempt, dropped, faults>>
    BY <1>0, <1>1 DEF RetryInv, TypeOK, attempt, history, bounds
  <1>2. ASSUME NEW r \in BOOLEAN, Return(r), faults' \in 0..MaxFaults, dropped' \in BOOLEAN
        PROVE  RetryInv'
    <2>1. TypeOK'
      BY <1>0, <1>2, ReturnRetry, NewEvaluationType DEF RetryInv, TypeOK, history, bounds
    <2>2. attempts' = attempts /\ attempts \in Nat
      BY <1>0 DEF history, RetryInv, TypeOK
    <2> QED
      BY <1>0, <1>2, <2>1, <2>2, ReturnRetry, NewEvaluationType DEF RetryInv
  <1>3. CASE Return(TRUE) /\ UNCHANGED <<dropped, faults>>
    BY <1>2, <1>3 DEF RetryInv, TypeOK
  <1>4. CASE faults < MaxFaults /\ faults' = faults + 1 /\ dropped' = TRUE /\ Return(FALSE)
    <2>1. faults' \in 0..MaxFaults
      BY <1>4, EvaluationAssumption DEF RetryInv, TypeOK
    <2> QED
      BY <1>2, <1>4, <2>1
  <1> QED
    BY <1>1, <1>3, <1>4 DEF GetEvaluationDefinition

LEMMA ObjectiveRetry == RetryInv /\ EvaluateObjective => RetryInv'
  <1> SUFFICES ASSUME RetryInv, EvaluateObjective PROVE RetryInv'
    OBVIOUS
  <1>1. PICK state \in {StateSucceeded, StateFailed} :
            /\ seen' = [seen EXCEPT ![next] = state]
            /\ newStatus' = [newStatus EXCEPT ![MetricOf[next]] = state]
            /\ met' \in {met, met \cup {next}}
    BY DEF EvaluateObjective
  <1>2. next \in Objectives /\ MetricOf[next] \in Metrics
    BY EvaluationAssumption DEF EvaluateObjective
  <1>3. /\ seen' \in [Objectives -> ObjectiveStates] /\ met' \subseteq Objectives
        /\ newStatus' \in [Metrics -> ObjectiveStates]
    BY <1>1, <1>2 DEF RetryInv, TypeOK, ObjectiveStates
  <1>4. next' \in 1..(N + 1)
    BY <1>2, EvaluationAssumption DEF EvaluateObjective, Objectives
  <1> QED
    BY <1>3, <1>4 DEF EvaluateObjective, RetryInv, TypeOK, bounds

LEMMA CompleteRetry == RetryInv /\ CompleteAttempt => RetryInv'
  <1> SUFFICES ASSUME RetryInv, CompleteAttempt PROVE RetryInv'
    OBVIOUS
  <1>1. /\ local \in Evaluations /\ local.retryCount < Retries /\ attempts \in Nat
        /\ newStatus \in [Metrics -> ObjectiveStates] /\ local.retryCount \in Nat
        /\ local.retryCount <= attempts
    BY RetryFacts DEF RetryInv, TypeOK, CompleteAttempt, Attempted
  <1>2. /\ OverallOf(seen) \in {StateSucceeded, StateProgressing}
        /\ OverallOf(seen) # StateFailed
    BY DEF OverallOf, StateSucceeded, StateProgressing, StateFailed
  <1>3. local.retryCount + 1 \in 0..Retries
    BY <1>1, RetryFacts
  <1>4. /\ local' \in Evaluations
        /\ local'.retryCount = local.retryCount + 1 /\ local'.overallStatus = OverallOf(seen)
    BY <1>1, <1>2, <1>3 DEF CompleteAttempt, PerformedEvaluation, Evaluations
  <1>5. /\ UNCHANGED <<obj, cache, queued, fresh, attempt, defined, met, dropped, faults,
                       bounds>>
        /\ attempts' = attempts + 1 /\ pc' \in {"finish", "incomplete"}
    BY DEF CompleteAttempt
  <1>6. TypeOK'
    BY <1>1, <1>4, <1>5 DEF RetryInv, TypeOK, attempt, bounds
  <1>7. ASSUME NEW item \in Evaluations, Attempted(item, attempts)
        PROVE  Attempted(item, attempts + 1)
    BY <1>1, <1>7, RetryFacts DEF Attempted
  <1>8. Attempted(local', attempts + 1)
    BY <1>1, <1>2, <1>4 DEF Attempted
  <1> QED
    BY <1>2, <1>4, <1>5, <1>6, <1>7, <1>8 DEF RetryInv, TypeOK

LEMMA IncompleteRetry == RetryInv /\ HandleEvaluationIncomplete => RetryInv'
  <1> SUFFICES ASSUME RetryInv, HandleEvaluationIncomplete PROVE RetryInv'
    OBVIOUS
  <1>1. PICK accepted \in BOOLEAN : Update(local, accepted)
    BY DEF HandleEvaluationIncomplete
  <1>2. local \in Evaluations /\ Attempted(local, attempts) /\ dropped' \in BOOLEAN
    BY DEF RetryInv, TypeOK, HandleEvaluationIncomplete
  <1> QED
    BY <1>1, <1>2, WriteRetry DEF HandleEvaluationIncomplete

LEMMA FinishedRetry == RetryInv /\ UpdateFinishedEvaluation => RetryInv'
  <1> SUFFICES ASSUME RetryInv, UpdateFinishedEvaluation PROVE RetryInv'
    OBVIOUS
  <1> DEFINE new == [local EXCEPT !.endTime = TRUE]
  <1>1. PICK accepted \in BOOLEAN : Update(new, accepted) /\ Return(~accepted)
    BY DEF UpdateFinishedEvaluation
  <1>2. local \in Evaluations /\ Attempted(local, attempts) /\ dropped' \in BOOLEAN
    BY DEF RetryInv, TypeOK, UpdateFinishedEvaluation
  <1>3. /\ new \in Evaluations /\ new.retryCount = local.retryCount
        /\ new.overallStatus = local.overallStatus
    BY <1>2 DEF Evaluations
  <1> HIDE DEF new
  <1>4. Attempted(new, attempts)
    BY <1>2, <1>3 DEF Attempted
  <1> QED
    BY <1>1, <1>2, <1>3, <1>4, WriteRetry DEF UpdateFinishedEvaluation

LEMMA OtherRetry ==
    ASSUME RetryInv, Sync \/ GetFails \/ Crash \/ Define \/ UNCHANGED vars
    PROVE  RetryInv'
  <1>1. CASE Sync
    BY <1>1 DEF Sync, RetryInv, TypeOK, attempt, history
  <1>2. CASE GetFails
    <2>1. faults' \in 0..MaxFaults
      BY <1>2, EvaluationAssumption DEF GetFails, RetryInv, TypeOK
    <2> QED
      BY <1>2, <2>1 DEF GetFails, RetryInv, TypeOK, attempt, history, bounds
  <1>3. CASE Crash
    <2>1. crashes' \in 0..MaxCrashes
      BY <1>3, EvaluationAssumption DEF Crash, RetryInv, TypeOK
    <2>2. TypeOK'
      BY <1>3, <2>1, ReturnRetry, NewEvaluationType DEF Crash, RetryInv, TypeOK, history
    <2>3. attempts' = attempts /\ attempts \in Nat
      BY <1>3 DEF Crash, history, RetryInv, TypeOK
    <2> QED
      BY <1>3, <2>2, <2>3, ReturnRetry, NewEvaluationType DEF Crash, RetryInv
  <1>4. CASE Define
    BY <1>4 DEF Define, RetryInv, TypeOK, attempt, history, bounds
  <1>5. CASE UNCHANGED vars
    BY <1>5 DEF vars, RetryInv, TypeOK, attempt, history
  <1> QED
    BY <1>1, <1>2, <1>3, <1>4, <1>5

\* No copy of the evaluation ever claims an attempt that was not made.
LEMMA RetryInvariant == Spec => []RetryInv
  <1>1. RetryInv /\ [Next]_vars => RetryInv'
    BY ReconcileRetry, ExceededRetry, DefinitionRetry, ObjectiveRetry, CompleteRetry,
       IncompleteRetry, FinishedRetry, OtherRetry DEF Next, Controller
  <1> QED
    BY <1>1, InitRetry, PTL DEF Spec

\* The variables keep their types; spec.retries bounds what is recorded.
THEOREM EvaluationTypeCorrect == Spec => []TypeOK
  <1>1. RetryInv => TypeOK
    BY DEF RetryInv
  <1> QED
    BY <1>1, RetryInvariant, PTL

\* An evaluation is given up only after as many attempts as spec.retries
\* grants were really made, however many of them were lost in a conflict, a
\* failed write or a restart (handleEvaluationExceededRetries).
THEOREM FailedOnlyAfterRetriesHolds == Spec => []FailedOnlyAfterRetries
  <1>1. RetryInv => FailedOnlyAfterRetries
    <2> SUFFICES ASSUME RetryInv, obj.overallStatus = StateFailed
                 PROVE  obj.retryCount = Retries /\ attempts >= Retries
      BY DEF FailedOnlyAfterRetries
    <2>1. obj.retryCount = Retries /\ obj.retryCount <= attempts /\ attempts \in Nat
      BY DEF RetryInv, Attempted, TypeOK
    <2> QED
      BY <2>1, RetryFacts
  <1> QED
    BY <1>1, RetryInvariant, PTL

-----------------------------------------------------------------------------
(***************************************************************************)
(* What was met.  An objective is skipped when the status of its metric    *)
(* says Succeeded, so this needs a metric of its own for each objective.   *)
(***************************************************************************)
OneMetricEach == \A i, j \in Objectives : MetricOf[i] = MetricOf[j] => i = j

\* A copy claims no objective that was not met.
ClaimsMet(item, m) ==
    /\ \A i \in Objectives : item.evaluationStatus[MetricOf[i]] = StateSucceeded => i \in m
    /\ item.overallStatus = StateSucceeded => m = Objectives

MetInv ==
    /\ RetryInv
    /\ ClaimsMet(obj, met)
    /\ ClaimsMet(cache, met)
    /\ ClaimsMet(local, met)
    /\ \A i \in Objectives : seen[i] = StateSucceeded => i \in met
    /\ \A i \in Objectives : newStatus[MetricOf[i]] = StateSucceeded => i \in met

LEMMA NewClaims == \A m : ClaimsMet(NewEvaluation, m)
  BY EvaluationAssumption DEF ClaimsMet, NewEvaluation, NoStatus, StatePending, StateSucceeded

LEMMA NewAttempt ==
    /\ \A i \in Objectives : NoStatus[MetricOf[i]] # StateSucceeded
    /\ \A i \in Objectives : [j \in Objectives |-> StatePending][i] # StateSucceeded
  BY EvaluationAssumption DEF NoStatus, StatePending, StateSucceeded

LEMMA InitMet == Init => MetInv
  BY InitRetry, NewClaims, NewAttempt DEF Init, MetInv

\* What was met stays so.
LEMMA ClaimsLater ==
    ASSUME NEW item, NEW m1, NEW m2, ClaimsMet(item, m1), m1 \subseteq m2, m2 \subseteq Objectives
    PROVE  ClaimsMet(item, m2)
  BY DEF ClaimsMet

LEMMA ReturnMet ==
    ASSUME MetInv, RetryInv', NEW r, Return(r), UNCHANGED history,
           ClaimsMet(obj', met), cache' \in {cache, obj}
    PROVE  MetInv'
  BY NewClaims, NewAttempt DEF Return, MetInv, history

\* The attempt succeeds only when every objective has been seen met.
LEMMA AllSeen ==
    ASSUME OverallOf(seen) = StateSucceeded
    PROVE  \A i \in Objectives : seen[i] = StateSucceeded
  <1>1. N \in Nat
    BY EvaluationAssumption
  <1>2. 1 \in Int /\ N \in Int
    BY <1>1
  <1>3. IsFiniteSet(1..N)
    BY <1>2, FS_Interval, Zenon
  <1>4. IsFiniteSet(Objectives)
    BY <1>3 DEF Objectives
  <1>5. GetOverallState(UpdateStatusSummary(Objectives, seen)) = StateSucceeded
    BY DEF OverallOf, StateSucceeded, StateProgressing
  <1> QED
    BY <1>4, <1>5, OverallSuccess

LEMMA ControllerMet ==
    ASSUME MetInv, RetryInv', OneMetricEach, Controller
    PROVE  MetInv'
  <1>0. local \in Evaluations /\ met \subseteq Objectives /\ ClaimsMet(local, met)
    BY DEF MetInv, RetryInv, TypeOK
  <1>1. CASE Reconcile
    BY <1>1 DEF Reconcile, MetInv, attempt, history
  <1>2. CASE HandleEvaluationExceededRetries
    <2> DEFINE new == [local EXCEPT !.overallStatus = StateFailed, !.endTime = TRUE]
    <2>1. obj' \in {obj, new}
      BY <1>2, UpdateEffect DEF HandleEvaluationExceededRetries, MetInv, RetryInv
    <2>2. ClaimsMet(new, met)
      BY <1>0 DEF ClaimsMet, Evaluations, StateFailed, StateSucceeded
    <2> QED
      BY <1>2, <2>1, <2>2, ReturnMet DEF HandleEvaluationExceededRetries, MetInv
  <1>3. CASE GetEvaluationDefinition
    <2>1. UNCHANGED <<obj, cache, history>>
      BY <1>3 DEF GetEvaluationDefinition
    <2>2. CASE UNCHANGED <<local, attempt>>
      BY <2>1, <2>2 DEF MetInv, attempt, history
    <2>3. ASSUME NEW r, Return(r) PROVE MetInv'
      BY <2>1, <2>3, ReturnMet DEF MetInv
    <2> QED
      BY <1>3, <2>2, <2>3 DEF GetEvaluationDefinition
  <1>4. CASE EvaluateObjective
    <2>1. PICK state \in {StateSucceeded, StateFailed} :
            /\ KnownMet(next) => state = StateSucceeded
            /\ seen' = [seen EXCEPT ![next] = state]
            /\ newStatus' = [newStatus EXCEPT ![MetricOf[next]] = state]
            /\ met' = IF state = StateSucceeded /\ ~KnownMet(next) THEN met \cup {next} ELSE met
      BY <1>4 DEF EvaluateObjective
    <2>2. /\ next \in Objectives /\ UNCHANGED <<obj, cache, local>>
          /\ seen \in [Objectives -> ObjectiveStates]
          /\ newStatus \in [Metrics -> ObjectiveStates]
          /\ \A i \in Objectives : MetricOf[i] \in Metrics
      BY <1>4, EvaluationAssumption DEF EvaluateObjective, MetInv, RetryInv, TypeOK
    <2>3. met \subseteq met' /\ met' \subseteq Objectives
      BY <1>0, <2>1, <2>2
    <2>4. state = StateSucceeded => next \in met'
      BY <1>0, <2>1, <2>2 DEF KnownMet, ClaimsMet
    <2>5. \A i \in Objectives : seen'[i] = StateSucceeded => i \in met'
      BY <2>1, <2>2, <2>3, <2>4 DEF MetInv
    <2>6. \A i \in Objectives : newStatus'[MetricOf[i]] = StateSucceeded => i \in met'
      BY <2>1, <2>2, <2>3, <2>4 DEF MetInv, OneMetricEach
    <2>7. ClaimsMet(obj, met') /\ ClaimsMet(cache, met') /\ ClaimsMet(local, met')
      BY <2>3, ClaimsLater DEF MetInv
    <2> QED
      BY <2>2, <2>5, <2>6, <2>7 DEF MetInv
  <1>5. CASE CompleteAttempt
    <2>1. /\ local'.evaluationStatus = newStatus /\ local'.overallStatus = OverallOf(seen)
          /\ UNCHANGED <<obj, cache, attempt, met>>
      BY <1>0, <1>5 DEF CompleteAttempt, PerformedEvaluation, Evaluations
    <2>2. OverallOf(seen) = StateSucceeded => met = Objectives
      BY <1>0, AllSeen DEF MetInv
    <2>3. ClaimsMet(local', met)
      BY <2>1, <2>2 DEF ClaimsMet, MetInv
    <2> QED
      BY <2>1, <2>3 DEF MetInv, attempt
  <1>6. CASE HandleEvaluationIncomplete
    <2>1. obj' \in {obj, local}
      BY <1>6, UpdateEffect DEF HandleEvaluationIncomplete, MetInv, RetryInv
    <2> QED
      BY <1>0, <1>6, <2>1, ReturnMet DEF HandleEvaluationIncomplete, MetInv
  <1>7. CASE UpdateFinishedEvaluation
    <2> DEFINE new == [local EXCEPT !.endTime = TRUE]
    <2>1. PICK accepted \in BOOLEAN : Update(new, accepted) /\ Return(~accepted)
      BY <1>7 DEF UpdateFinishedEvaluation
    <2>2. obj' \in {obj, new}
      BY <2>1, UpdateEffect DEF MetInv, RetryInv
    <2>3. ClaimsMet(new, met)
      BY <1>0 DEF ClaimsMet, Evaluations
    <2> QED
      BY <1>7, <2>1, <2>2, <2>3, ReturnMet DEF UpdateFinishedEvaluation, MetInv
  <1> QED
    BY <1>1, <1>2, <1>3, <1>4, <1>5, <1>6, <1>7 DEF Controller

LEMMA OtherMet ==
    ASSUME MetInv, RetryInv', Sync \/ GetFails \/ Crash \/ Define \/ UNCHANGED vars
    PROVE  MetInv'
  <1>1. CASE Sync
    BY <1>1 DEF Sync, MetInv, attempt, history
  <1>2. CASE Crash
    BY <1>2, ReturnMet DEF Crash, MetInv
  <1>3. CASE GetFails \/ Define \/ UNCHANGED vars
    BY <1>3 DEF GetFails, Define, vars, MetInv, attempt, history
  <1> QED
    BY <1>1, <1>2, <1>3

\* An evaluation succeeds only when every objective was met in some attempt,
\* whatever was lost in between (performEvaluation, evaluateObjective),
\* provided that no two objectives are about the same metric.
THEOREM SucceededOnlyIfMetHolds ==
    ASSUME OneMetricEach
    PROVE  Spec => []SucceededOnlyIfMet
  <1>1. MetInv /\ RetryInv' /\ [Next]_vars => MetInv'
    BY ControllerMet, OtherMet DEF Next
  <1>2. MetInv => SucceededOnlyIfMet
    BY DEF MetInv, ClaimsMet, SucceededOnlyIfMet
  <1> QED
    BY <1>1, <1>2, InitMet, RetryInvariant, PTL DEF Spec
=============================================================================
