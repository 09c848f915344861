--------------------------- MODULE KeptnTaskProofs ---------------------------
(***************************************************************************)
(* For any number of jobs, failed calls, restarts, removed jobs and stale  *)
(* reads, a task reports the result of the job it names, keeps it as long  *)
(* as the job exists, and has no more jobs than what went wrong explains.  *)
(* With its definition, also for any number of edits, its jobs run the     *)
(* code that the definition asked for.                                     *)
(***************************************************************************)
EXTENDS TaskFunction, FiniteSetTheorems, TLAPS

USE DEF StatePending, StateProgressing, StateSucceeded, StateFailed, StateUnknown,
        StateDeprecated, StateWarning, NoJob, IsCompleted

\* A copy of the task names a job that was created, and has that job's result
\* if it has one.
Real(task) ==
    /\ task.jobName # NoJob => jobs[task.jobName].there # "no"
    /\ IsCompleted(task.status) =>
        /\ task.jobName # NoJob
        /\ task.status = StateSucceeded => jobs[task.jobName].result = "complete"
        /\ task.status = StateFailed => jobs[task.jobName].result = "failed"

\* The job of a result that is still there: nothing may replace the result.
Kept(task) ==
    /\ IsCompleted(task.status)
    /\ jobs[task.jobName].there = "yes"

\* Every copy is real.  A fresh copy is the object itself until the job has
\* been looked for; when it is written back it has the object's result,
\* unless the object has none or its job is gone.
TaskInv ==
    /\ TypeOK
    /\ \A n \in JobNames : jobs[n].result # "running" => jobs[n].there \in {"yes", "gone"}
    /\ Real(obj)
    /\ Real(cache)
    /\ Real(local)
    /\ fresh => pc # "idle"
    /\ fresh /\ pc = "job" => local = obj
    /\ fresh /\ pc = "write" /\ Kept(obj) =>
        local.status = obj.status /\ local.jobName = obj.jobName

\* What may happen to the jobs: none is forgotten, and a result stays.
JobsGrow ==
    /\ jobs' \in [JobNames -> JobObject]
    /\ \A n \in JobNames :
        /\ jobs[n].there # "no" => jobs'[n].there # "no"
        /\ jobs[n].result # "running" =>
            /\ jobs'[n].result = jobs[n].result
            /\ jobs'[n].there = "yes" => jobs[n].there = "yes"
        /\ jobs'[n].result # "running" => jobs'[n].there \in {"yes", "gone"}

\* A copy stays real, and no result appears that was not kept before, while
\* jobs are created, end and are removed.
LEMMA RealKept ==
    ASSUME NEW task \in Tasks, Real(task), JobsGrow
    PROVE  /\ task.jobName # NoJob => jobs'[task.jobName].there # "no"
           /\ IsCompleted(task.status) =>
                /\ task.jobName # NoJob
                /\ task.status = StateSucceeded => jobs'[task.jobName].result = "complete"
                /\ task.status = StateFailed => jobs'[task.jobName].result = "failed"
                /\ jobs'[task.jobName].there = "yes" => jobs[task.jobName].there = "yes"
<1>1. CASE task.jobName = NoJob
  BY <1>1 DEF Real
<1>2. CASE task.jobName # NoJob
  <2>1. task.jobName \in JobNames
    BY <1>2, TaskAssumption DEF Tasks, JobNames
  <2> QED
    BY <1>2, <2>1 DEF Real, JobsGrow, Tasks
<1> QED
  BY <1>1, <1>2

LEMMA SameJobs ==
    ASSUME TaskInv, jobs' = jobs
    PROVE  JobsGrow
  BY DEF TaskInv, TypeOK, JobsGrow

LEMMA NewTaskReal == NewTask \in Tasks /\ Real(NewTask) /\ Real(NewTask)'
  BY TaskAssumption DEF NewTask, Tasks, Real

\* What UpdateStatus may do.
LEMMA Written ==
    ASSUME TaskInv, UpdateStatus(local)
    PROVE  /\ obj' \in {obj, local}
           /\ obj' # obj => fresh
           /\ faults' \in 0..MaxFaults
  BY TaskAssumption DEF TaskInv, TypeOK, UpdateStatus

LEMMA ReadStale ==
    ASSUME TaskInv, NEW b, Read(b)
    PROVE  stale' \in 0..MaxStale
  BY TaskAssumption DEF TaskInv, TypeOK, Read

-----------------------------------------------------------------------------
LEMMA InitTaskInv == Init => TaskInv
<1> SUFFICES ASSUME Init PROVE TaskInv
  OBVIOUS
<1>1. jobs \in [JobNames -> JobObject]
  BY DEF Init, JobObject
<1>2. \A n \in JobNames : jobs[n].result = "running"
  BY DEF Init
<1>3. TypeOK
  <2>1. queued \in BOOLEAN /\ fresh \in BOOLEAN /\ again \in BOOLEAN
    BY Zenon DEF Init
  <2>2. obj \in Tasks /\ cache \in Tasks /\ local \in Tasks
    BY NewTaskReal DEF Init
  <2>3. /\ 0 \in 0..MaxFaults
        /\ 0 \in 0..MaxCrashes
        /\ 0 \in 0..MaxCleanups
        /\ 0 \in 0..MaxStale
    BY TaskAssumption
  <2> QED
    BY <1>1, <2>1, <2>2, <2>3, Zenon DEF Init, TypeOK
<1>4. Real(obj) /\ Real(cache) /\ Real(local)
  BY NewTaskReal DEF Init, Real
<1>5. ~fresh
  BY DEF Init
<1> QED
  BY <1>2, <1>3, <1>4, <1>5 DEF TaskInv

LEMMA SyncInv == TaskInv /\ Sync => TaskInv'
  BY DEF Sync, TaskInv, TypeOK, Real, Kept

LEMMA StartReconcileInv == TaskInv /\ StartReconcile => TaskInv'
<1> SUFFICES ASSUME TaskInv, StartReconcile PROVE TaskInv'
  OBVIOUS
<1>1. stale' \in 0..MaxStale
  BY ReadStale DEF StartReconcile
<1> QED
  BY <1>1 DEF StartReconcile, TaskInv, TypeOK, Real, Kept

LEMMA GetFailsInv == TaskInv /\ GetFails => TaskInv'
  BY TaskAssumption DEF GetFails, TaskInv, TypeOK, Real, Kept

LEMMA GetJobFailsInv == TaskInv /\ GetJobFails => TaskInv'
  BY TaskAssumption DEF GetJobFails, TaskInv, TypeOK, Real, Kept

LEMMA ReconcileJobInv == TaskInv /\ ReconcileJob => TaskInv'
<1> SUFFICES ASSUME TaskInv, ReconcileJob PROVE TaskInv'
  OBVIOUS
<1>1. local.jobName \in JobNames /\ local.jobName # NoJob
  BY TaskAssumption DEF ReconcileJob, JobFound, TaskInv, TypeOK, Tasks, JobNames
<1>2. CASE IsCompleted(local.status)
  <2>1. local' = [local EXCEPT !.endTime = TRUE]
    BY <1>2 DEF ReconcileJob
  <2>2. local' \in Tasks /\ local'.status = local.status /\ local'.jobName = local.jobName
    BY <2>1 DEF TaskInv, TypeOK, Tasks
  <2> QED
    BY <2>2 DEF ReconcileJob, TaskInv, TypeOK, Real, Kept
<1>3. CASE ~IsCompleted(local.status)
  <2>1. local' = UpdateTaskStatus(local, jobs[local.jobName])
    BY <1>3 DEF ReconcileJob
  <2>2. /\ local' \in Tasks
        /\ local'.jobName = local.jobName
        /\ local'.status = StateSucceeded => jobs[local.jobName].result = "complete"
        /\ local'.status = StateFailed => jobs[local.jobName].result = "failed"
    BY <2>1, <1>3, <1>1 DEF UpdateTaskStatus, TaskInv, TypeOK, Tasks
  <2>3. local'.status \notin {StateDeprecated, StateWarning}
    BY <2>2 DEF Tasks
  <2> QED
    BY <1>1, <1>3, <2>2, <2>3 DEF ReconcileJob, TaskInv, TypeOK, Real, Kept
<1> QED
  BY <1>2, <1>3

\* A created job is a new one, and the copy names it or is as it was.
LEMMA Creation ==
    ASSUME TaskInv, CreateFunctionJob
    PROVE  /\ JobsGrow
           /\ faults' \in 0..MaxFaults
           /\ local' = local \/ \E n \in JobNames : local' = Started(local, n)
                                                    /\ jobs'[n].there = "new"
<1>1. PICK n \in JobNames :
        /\ jobs[n].there = "no"
        /\ \/ /\ jobs' = [jobs EXCEPT ![n].there = "new"]
              /\ local' = Started(local, n)
              /\ UNCHANGED faults
           \/ /\ faults < MaxFaults
              /\ faults' = faults + 1
              /\ UNCHANGED local
              /\ \/ jobs' = [jobs EXCEPT ![n].there = "new"]
                 \/ UNCHANGED jobs
  BY DEF CreateFunctionJob
<1>2. jobs \in [JobNames -> JobObject]
  BY DEF TaskInv, TypeOK
<1>3. jobs[n].result = "running"
  BY <1>1 DEF TaskInv
<1>4. CASE jobs' = [jobs EXCEPT ![n].there = "new"]
  <2>1. JobsGrow
    BY <1>1, <1>2, <1>3, <1>4 DEF TaskInv, JobsGrow, JobObject
  <2>2. jobs'[n].there = "new"
    BY <1>2, <1>4 DEF JobObject
  <2> QED
    BY <1>1, <2>1, <2>2, TaskAssumption DEF TaskInv, TypeOK
<1>5. CASE UNCHANGED jobs /\ UNCHANGED local /\ faults' = faults + 1 /\ faults < MaxFaults
  BY <1>5, SameJobs, TaskAssumption DEF TaskInv, TypeOK
<1> QED
  BY <1>1, <1>4, <1>5

\* The copy after a creation is real, and JobNotFound means that the object's
\* result, if any, has lost its job.
LEMMA CreateJobInv == TaskInv /\ CreateJob => TaskInv'
<1> SUFFICES ASSUME TaskInv, CreateJob PROVE TaskInv'
  OBVIOUS
<1>1. stale' \in 0..MaxStale
  BY ReadStale DEF CreateJob, JobNotFound, TaskInv, TypeOK
<1>2. \/ UNCHANGED <<local, jobs, faults>>
      \/ local' = Started(local, NoJob) /\ UNCHANGED <<jobs, faults>>
      \/ CreateFunctionJob
  BY DEF CreateJob
<1>3. /\ JobsGrow
      /\ faults' \in 0..MaxFaults
      /\ \/ local' = local
         \/ local' = Started(local, NoJob)
         \/ \E n \in JobNames : local' = Started(local, n) /\ jobs'[n].there = "new"
  BY <1>2, Creation, SameJobs DEF TaskInv, TypeOK
<1>4. local' \in Tasks
  <2>1. \A n \in 0..MaxJobs : Started(local, n) \in Tasks
    BY DEF TaskInv, TypeOK, Tasks, Started
  <2>2. NoJob \in 0..MaxJobs /\ JobNames \subseteq 0..MaxJobs
    BY TaskAssumption DEF JobNames
  <2> QED
    BY <1>3, <2>1, <2>2 DEF TaskInv, TypeOK
<1>5. Real(obj)'
  BY <1>3, RealKept DEF CreateJob, TaskInv, TypeOK, Real
<1>6. Real(cache)'
  BY <1>3, RealKept DEF CreateJob, TaskInv, TypeOK, Real
<1>7. Real(local)'
  <2>1. CASE local' = local
    BY <2>1, <1>3, RealKept DEF TaskInv, TypeOK, Real
  <2>2. CASE local' = Started(local, NoJob)
    BY <2>2 DEF TaskInv, TypeOK, Tasks, Started, Real
  <2>3. CASE \E n \in JobNames : local' = Started(local, n) /\ jobs'[n].there = "new"
    BY <2>3 DEF TaskInv, TypeOK, Tasks, Started, Real
  <2> QED
    BY <1>3, <2>1, <2>2, <2>3
<1>8. fresh' => ~Kept(obj)'
  <2> SUFFICES ASSUME fresh', Kept(obj)' PROVE FALSE
    OBVIOUS
  <2>1. obj = local /\ obj \in Tasks /\ Real(obj) /\ obj' = obj
    BY DEF CreateJob, TaskInv, TypeOK
  <2>2. IsCompleted(obj.status) /\ jobs'[obj.jobName].there = "yes"
    BY <2>1 DEF Kept
  <2>3. jobs[obj.jobName].there = "yes"
    BY <1>3, <2>1, <2>2, RealKept
  <2> QED
    BY <2>1, <2>2, <2>3 DEF CreateJob, JobNotFound, Real
<1> QED
  BY <1>1, <1>3, <1>4, <1>5, <1>6, <1>7, <1>8 DEF CreateJob, TaskInv, TypeOK, JobsGrow

LEMMA FinishReconcileInv == TaskInv /\ FinishReconcile => TaskInv'
<1> SUFFICES ASSUME TaskInv, FinishReconcile PROVE TaskInv'
  OBVIOUS
<1>1. obj' \in {obj, local} /\ faults' \in 0..MaxFaults
  BY Written DEF FinishReconcile
<1>2. obj' \in Tasks /\ Real(obj)'
  BY <1>1 DEF FinishReconcile, TaskInv, TypeOK, Real
<1>3. cache' \in Tasks /\ Real(cache)'
  BY DEF FinishReconcile, TaskInv, TypeOK, Real
<1>4. local' \in Tasks /\ Real(local)'
  BY NewTaskReal DEF FinishReconcile, Real
<1> QED
  BY <1>1, <1>2, <1>3, <1>4 DEF FinishReconcile, TaskInv, TypeOK

LEMMA CrashInv == TaskInv /\ Crash => TaskInv'
<1> SUFFICES ASSUME TaskInv, Crash PROVE TaskInv'
  OBVIOUS
<1>1. obj' \in Tasks /\ Real(obj)' /\ cache' \in Tasks /\ Real(cache)'
  BY DEF Crash, TaskInv, TypeOK, Real
<1>2. local' \in Tasks /\ Real(local)'
  BY NewTaskReal DEF Crash, Real
<1>3. TypeOK'
  <2>1. queued' \in BOOLEAN /\ fresh' \in BOOLEAN /\ again' \in BOOLEAN
    BY Zenon DEF Crash
  <2>2. crashes' \in 0..MaxCrashes
    BY TaskAssumption DEF Crash, TaskInv, TypeOK
  <2> QED
    BY <1>1, <1>2, <2>1, <2>2 DEF Crash, TaskInv, TypeOK
<1>4. ~fresh' /\ jobs' = jobs
  BY DEF Crash
<1> QED
  BY <1>1, <1>2, <1>3, <1>4 DEF TaskInv

\* The life of the jobs, while every copy of the task stays as it is.
LEMMA JobsChange ==
    ASSUME TaskInv, JobsGrow, cleanups' \in 0..MaxCleanups,
           UNCHANGED <<obj, cache, queued, pc, local, fresh, again, definition, faults,
                       crashes, stale>>
    PROVE  TaskInv'
<1>1. Real(obj)'
  BY RealKept DEF TaskInv, TypeOK, Real
<1>2. Real(cache)'
  BY RealKept DEF TaskInv, TypeOK, Real
<1>3. Real(local)'
  BY RealKept DEF TaskInv, TypeOK, Real
<1>4. Kept(obj)' => Kept(obj)
  BY RealKept DEF TaskInv, TypeOK, Kept
<1> QED
  BY <1>1, <1>2, <1>3, <1>4 DEF TaskInv, TypeOK, JobsGrow

LEMMA JobProgressesInv ==
    ASSUME TaskInv, NEW n \in JobNames, JobProgresses(n)
    PROVE  TaskInv'
<1>1. jobs \in [JobNames -> JobObject] /\ cleanups' \in 0..MaxCleanups
  BY DEF TaskInv, TypeOK, JobProgresses
<1>2. CASE jobs[n].there = "new" /\ jobs' = [jobs EXCEPT ![n].there = "yes"]
  <2>1. jobs[n].result = "running"
    BY <1>2 DEF TaskInv
  <2>2. JobsGrow
    BY <1>1, <1>2, <2>1 DEF TaskInv, JobsGrow, JobObject
  <2> QED
    BY <1>1, <2>2, JobsChange DEF JobProgresses
<1>3. CASE /\ jobs[n].there = "yes"
           /\ jobs[n].result = "running"
           /\ \E r \in {"complete", "failed"} : jobs' = [jobs EXCEPT ![n].result = r]
  <2>1. JobsGrow
    BY <1>1, <1>3 DEF TaskInv, JobsGrow, JobObject
  <2> QED
    BY <1>1, <2>1, JobsChange DEF JobProgresses
<1> QED
  BY <1>2, <1>3 DEF JobProgresses

LEMMA JobRemovedInv ==
    ASSUME TaskInv, NEW n \in JobNames, JobRemoved(n)
    PROVE  TaskInv'
<1>1. jobs \in [JobNames -> JobObject] /\ cleanups' \in 0..MaxCleanups
  BY TaskAssumption DEF TaskInv, TypeOK, JobRemoved
<1>2. JobsGrow
  BY <1>1 DEF TaskInv, JobsGrow, JobObject, JobRemoved
<1> QED
  BY <1>1, <1>2, JobsChange DEF JobRemoved

LEMMA DefineInv == TaskInv /\ Define => TaskInv'
  BY DEF Define, TaskInv, TypeOK, Real, Kept

LEMMA NextTaskInv == TaskInv /\ [Next]_vars => TaskInv'
<1> SUFFICES ASSUME TaskInv, [Next]_vars PROVE TaskInv'
  OBVIOUS
<1>1. CASE UNCHANGED vars
  BY <1>1 DEF vars, TaskInv, TypeOK, Real, Kept
<1>2. CASE Controller
  BY <1>2, StartReconcileInv, ReconcileJobInv, CreateJobInv, FinishReconcileInv DEF Controller
<1>3. CASE \E n \in JobNames : JobProgresses(n) \/ JobRemoved(n)
  BY <1>3, JobProgressesInv, JobRemovedInv
<1> QED
  BY <1>1, <1>2, <1>3, SyncInv, GetFailsInv, GetJobFailsInv, CrashInv, DefineInv DEF Next

\* The type invariant holds for every value of the bounds.
THEOREM TaskTypeCorrect == Spec => []TypeOK
<1>1. TaskInv => TypeOK
  BY DEF TaskInv
<1> QED
  BY <1>1, InitTaskInv, NextTaskInv, PTL DEF Spec

LEMMA RealSuffices == TaskInv => ResultIsReal
<1> SUFFICES ASSUME TaskInv, IsCompleted(obj.status)
             PROVE  /\ obj.jobName \in Created
                    /\ obj.status = StateSucceeded <=> jobs[obj.jobName].result = "complete"
                    /\ obj.status = StateFailed <=> jobs[obj.jobName].result = "failed"
  BY DEF ResultIsReal
<1>1. obj.jobName \in JobNames
  BY TaskAssumption DEF TaskInv, TypeOK, Tasks, Real, JobNames
<1>2. obj.jobName \in Created
  BY <1>1 DEF TaskInv, Real, Created
<1>3. obj.status \in {StateSucceeded, StateFailed}
  BY DEF TaskInv, TypeOK, Tasks
<1> QED
  BY <1>2, <1>3 DEF TaskInv, Real

\* Whatever calls fail, however often the operator restarts, jobs are removed
\* and reads are stale, a completed task (UpdateTaskStatus) has the result of
\* the job its status names.
THEOREM ResultIsRealHolds == Spec => []ResultIsReal
  BY RealSuffices, InitTaskInv, NextTaskInv, PTL DEF Spec

LEMMA KeepsStep ==
    ASSUME TaskInv, [Next]_vars
    PROVE  [IsCompleted(obj.status) /\ jobs[obj.jobName].there = "yes" =>
              obj'.status = obj.status /\ obj'.jobName = obj.jobName]_vars
<1>1. CASE FinishReconcile
  BY <1>1, Written DEF FinishReconcile, TaskInv, Kept
<1>2. CASE Next /\ ~FinishReconcile
  <2>1. obj' = obj
    BY <1>2 DEF Next, Controller, StartReconcile, ReconcileJob, CreateJob, Sync, GetFails,
                GetJobFails, Crash, JobProgresses, JobRemoved, Define
  <2> QED
    BY <2>1
<1> QED
  BY <1>1, <1>2

\* The deferred write never replaces the result of a task whose job still
\* exists, however stale the copy was that the reconciliation began with.
THEOREM ResultKeptHolds == Spec => ResultKept
<1>1. TaskInv /\ [Next]_vars =>
        [IsCompleted(obj.status) /\ jobs[obj.jobName].there = "yes" =>
           obj'.status = obj.status /\ obj'.jobName = obj.jobName]_vars
  BY KeepsStep
<1> QED
  BY <1>1, InitTaskInv, NextTaskInv, PTL DEF Spec, ResultKept

-----------------------------------------------------------------------------
(***************************************************************************)
(* How many jobs a task costs.  Each failed call, restart, removed job and *)
(* stale read pays for one, and one more is free as long as it is alive    *)
(* and known: to the object, or to the copy that is about to replace it.   *)
(* A copy that is not fresh has been paid for and may cost a job of its    *)
(* own, which nobody will know.                                            *)
(***************************************************************************)
Live(task) == task.jobName # NoJob /\ jobs[task.jobName].there \in {"new", "yes"}

Free == IF Live(IF pc = "write" /\ fresh THEN local ELSE obj) THEN 1 ELSE 0

Reserved == IF pc = "job" /\ ~fresh THEN 1 ELSE 0

Spent == faults + crashes + cleanups + stale

JobCount == Cardinality(Created)

BudgetInv == JobCount + Reserved <= Spent + Free

LEMMA CountType ==
    ASSUME TypeOK
    PROVE  /\ IsFiniteSet(Created) /\ JobCount \in Nat /\ Spent \in Nat
           /\ faults \in Nat /\ crashes \in Nat /\ cleanups \in Nat /\ stale \in Nat
           /\ Reserved \in 0..1 /\ Free \in 0..1
<1>1. MaxJobs \in Nat
  BY TaskAssumption
<1>2. 1 \in Int /\ MaxJobs \in Int
  BY <1>1
<1>3. IsFiniteSet(1..MaxJobs)
  BY <1>2, FS_Interval, Zenon
<1>4. Created \in SUBSET (1..MaxJobs)
  BY DEF Created, JobNames
<1>5. IsFiniteSet(Created)
  BY <1>3, <1>4, FS_Subset
<1>6. JobCount \in Nat
  BY <1>5, FS_CardinalityType DEF JobCount
<1>7. faults \in Nat /\ crashes \in Nat /\ cleanups \in Nat /\ stale \in Nat
  BY TaskAssumption DEF TypeOK
<1>8. Spent \in Nat
  BY <1>7 DEF Spent
<1>9. Reserved \in 0..1 /\ Free \in 0..1
  BY DEF Reserved, Free
<1> QED
  BY <1>5, <1>6, <1>7, <1>8, <1>9

LEMMA SameCount ==
    ASSUME \A n \in JobNames : jobs'[n].there = "no" <=> jobs[n].there = "no"
    PROVE  JobCount' = JobCount
<1>1. Created' = Created
  BY DEF Created
<1> QED
  BY <1>1 DEF JobCount

LEMMA OneMore ==
    ASSUME TypeOK, NEW n \in JobNames, jobs[n].there = "no",
           jobs' = [jobs EXCEPT ![n].there = "new"]
    PROVE  /\ JobCount' = JobCount + 1
           /\ jobs'[n].there = "new"
           /\ \A k \in JobNames : jobs[k].there # "no" => jobs'[k].there = jobs[k].there
<1>1. /\ jobs'[n].there = "new"
      /\ \A k \in JobNames \ {n} : jobs'[k] = jobs[k]
  BY DEF TypeOK, JobObject
<1>2. Created' = Created \cup {n} /\ n \notin Created
  BY <1>1 DEF Created
<1>3. IsFiniteSet(Created)
  BY CountType
<1>4. Cardinality(Created \cup {n}) = Cardinality(Created) + 1
  BY <1>2, <1>3, FS_AddElement
<1> QED
  BY <1>1, <1>2, <1>4 DEF JobCount

LEMMA InitBudget == Init => BudgetInv
<1> SUFFICES ASSUME Init PROVE BudgetInv
  OBVIOUS
<1>1. Created = {}
  BY DEF Init, Created
<1>2. JobCount = 0
  BY <1>1, FS_EmptySet DEF JobCount
<1>3. Spent = 0 /\ Reserved = 0 /\ Free \in 0..1
  BY DEF Init, Spent, Reserved, Free
<1> QED
  BY <1>2, <1>3 DEF BudgetInv

LEMMA Sum == \A a, b, c, d \in Nat : a + b + c + d \in Nat
  OBVIOUS

LEMMA Balance ==
    \A c, m, s, f, r, s1, f1, r1 \in Nat :
        c + r <= s + f /\ m + s + f + r1 <= s1 + f1 + r => (c + m) + r1 <= s1 + f1
  OBVIOUS

\* The same of the next state.
LEMMA CountTypeNext ==
    ASSUME TypeOK'
    PROVE  /\ faults' \in Nat /\ crashes' \in Nat /\ cleanups' \in Nat /\ stale' \in Nat
           /\ Spent' \in Nat /\ Reserved' \in 0..1 /\ Free' \in 0..1
<1>1. faults' \in Nat /\ crashes' \in Nat /\ cleanups' \in Nat /\ stale' \in Nat
  BY TaskAssumption DEF TypeOK
<1>2. Reserved' \in 0..1 /\ Free' \in 0..1
  BY DEF Reserved, Free
<1>3. Spent' \in Nat
  BY <1>1, Sum DEF Spent
<1> QED
  BY <1>1, <1>2, <1>3

\* A step that creates no job, or one, and pays for it and for what it loses.
LEMMA Paid ==
    ASSUME TypeOK, TypeOK', BudgetInv, NEW more \in 0..1, JobCount' = JobCount + more,
           more + Spent + Free + Reserved' <= Spent' + Free' + Reserved
    PROVE  BudgetInv'
<1>1. JobCount \in Nat /\ Spent \in Nat /\ Reserved \in Nat /\ Free \in Nat
  BY CountType
<1>2. Spent' \in Nat /\ Reserved' \in Nat /\ Free' \in Nat
  BY CountTypeNext
<1>3. JobCount + Reserved <= Spent + Free
  BY DEF BudgetInv
<1>4. more \in Nat
  OBVIOUS
<1>5. (JobCount + more) + Reserved' <= Spent' + Free'
  BY <1>1, <1>2, <1>3, <1>4, Balance
<1> QED
  BY <1>5 DEF BudgetInv

LEMMA StartReconcileBudget ==
    ASSUME TaskInv, TypeOK', BudgetInv, StartReconcile
    PROVE  BudgetInv'
<1>1. /\ pc = "idle" /\ pc' = "job" /\ fresh' = (cache = obj)
      /\ UNCHANGED <<obj, jobs, faults, crashes, cleanups>>
      /\ \/ cache = obj /\ stale' = stale
         \/ cache # obj /\ stale' = stale + 1
  BY DEF StartReconcile, Read
<1>2. Free' = Free /\ Reserved = 0
  BY <1>1 DEF Free, Reserved, Live
<1>3. JobCount' = JobCount + 0
  BY <1>1, SameCount, CountType DEF TaskInv
<1>4. CASE cache = obj /\ stale' = stale
  <2>1. Reserved' = 0
    BY <1>1, <1>4 DEF Reserved
  <2> QED
    BY <1>1, <1>2, <1>3, <1>4, <2>1, Paid, CountType, CountTypeNext DEF Spent, TaskInv
<1>5. CASE stale' = stale + 1
  BY <1>1, <1>2, <1>3, <1>5, Paid, CountType, CountTypeNext DEF Spent, TaskInv
<1> QED
  BY <1>1, <1>4, <1>5

\* The job is there: the copy names the job the object names.
LEMMA ReconcileJobBudget ==
    ASSUME TaskInv, TypeOK', BudgetInv, ReconcileJob
    PROVE  BudgetInv'
<1>1. /\ pc = "job" /\ pc' = "write" /\ JobFound(local.jobName)
      /\ UNCHANGED <<obj, fresh, jobs, faults, crashes, cleanups, stale>>
      /\ local \in Tasks
  BY DEF ReconcileJob, TaskInv, TypeOK
<1>2. local'.jobName = local.jobName
  BY <1>1 DEF ReconcileJob, UpdateTaskStatus, Tasks
<1>3. Free' >= Free
  <2>1. CASE fresh
    BY <1>1, <1>2, <2>1 DEF Free, Live, JobFound
  <2>2. CASE ~fresh
    BY <1>1, <2>2 DEF Free, Live
  <2> QED
    BY <2>1, <2>2
<1>4. Reserved' = 0 /\ Spent' = Spent
  BY <1>1 DEF Reserved, Spent
<1>5. JobCount' = JobCount + 0
  BY <1>1, SameCount, CountType DEF TaskInv
<1> QED
  BY <1>3, <1>4, <1>5, Paid, CountType, CountTypeNext DEF TaskInv

\* The job is not there.  If the copy is fresh, either nothing was free, or the
\* read that did not find the job pays; if it is not, a job was reserved.
LEMMA CreateJobBudget ==
    ASSUME TaskInv, TypeOK', BudgetInv, CreateJob
    PROVE  BudgetInv'
<1>1. /\ pc = "job" /\ pc' = "write" /\ JobNotFound(local.jobName)
      /\ UNCHANGED <<obj, fresh, crashes, cleanups>>
      /\ local \in Tasks
  BY DEF CreateJob, TaskInv, TypeOK
<1>2. Reserved' = 0 /\ Reserved = IF fresh THEN 0 ELSE 1
  BY <1>1 DEF Reserved
<1>3. \/ stale' = stale /\ (fresh => Free = 0)
      \/ stale' = stale + 1
  BY <1>1 DEF JobNotFound, Read, Free, Live, TaskInv
<1>4. \/ /\ UNCHANGED <<jobs, faults>>
         /\ local' = local \/ local' = Started(local, NoJob)
      \/ CreateFunctionJob
  BY DEF CreateJob
<1>5. CASE UNCHANGED <<jobs, faults>>
  <2>1. JobCount' = JobCount + 0
    BY <1>5, SameCount, CountType DEF TaskInv
  <2>2. ~fresh => Free' = Free
    BY <1>1, <1>5 DEF Free, Live
  <2> QED
    BY <1>1, <1>2, <1>3, <1>5, <2>1, <2>2, Paid, CountType, CountTypeNext DEF Spent, TaskInv
<1>6. CASE CreateFunctionJob
  <2>1. PICK n \in JobNames :
            /\ jobs[n].there = "no"
            /\ \/ /\ jobs' = [jobs EXCEPT ![n].there = "new"]
                  /\ local' = Started(local, n)
                  /\ UNCHANGED faults
               \/ /\ faults' = faults + 1
                  /\ \/ jobs' = [jobs EXCEPT ![n].there = "new"]
                     \/ UNCHANGED jobs
    BY <1>6 DEF CreateFunctionJob
  <2>2. CASE jobs' = [jobs EXCEPT ![n].there = "new"]
    <3>1. /\ JobCount' = JobCount + 1 /\ jobs'[n].there = "new"
          /\ \A k \in JobNames : jobs[k].there # "no" => jobs'[k].there = jobs[k].there
      BY <2>1, <2>2, OneMore DEF TaskInv
    <3>2. obj.jobName # NoJob => obj.jobName \in JobNames
      BY TaskAssumption DEF TaskInv, TypeOK, Tasks, JobNames
    <3>3. Live(obj) => Live(obj)'
      BY <1>1, <3>1, <3>2 DEF Live
    <3>4. ~fresh => Free' >= Free
      BY <1>1, <3>3 DEF Free
    <3>5. CASE local' = Started(local, n) /\ UNCHANGED faults
      <4>1. local'.jobName = n /\ n # NoJob
        BY <1>1, <3>5, TaskAssumption DEF Started, Tasks, JobNames
      <4>2. fresh => Free' = 1
        BY <1>1, <3>1, <4>1 DEF Free, Live
      <4> QED
        BY <1>1, <1>2, <1>3, <3>1, <3>4, <3>5, <4>2, Paid, CountType, CountTypeNext
           DEF Spent, TaskInv
    <3>6. CASE faults' = faults + 1
      BY <1>1, <1>2, <1>3, <3>1, <3>4, <3>6, Paid, CountType, CountTypeNext DEF Spent, TaskInv
    <3> QED
      BY <2>1, <3>5, <3>6
  <2>3. CASE UNCHANGED jobs /\ faults' = faults + 1
    <3>1. JobCount' = JobCount + 0
      BY <2>3, SameCount, CountType DEF TaskInv
    <3> QED
      BY <1>1, <1>2, <1>3, <2>3, <3>1, Paid, CountType, CountTypeNext DEF Spent, TaskInv
  <2> QED
    BY <2>1, <2>2, <2>3
<1> QED
  BY <1>4, <1>5, <1>6

LEMMA FinishReconcileBudget ==
    ASSUME TaskInv, TypeOK', BudgetInv, FinishReconcile
    PROVE  BudgetInv'
<1>1. /\ pc = "write" /\ pc' = "idle" /\ UNCHANGED <<jobs, crashes, cleanups, stale>>
      /\ \/ fresh /\ obj' = local /\ UNCHANGED faults
         \/ ~fresh /\ UNCHANGED <<obj, faults>>
         \/ faults' = faults + 1
  BY DEF FinishReconcile, UpdateStatus
<1>2. Reserved = 0 /\ Reserved' = 0
  BY <1>1 DEF Reserved
<1>3. JobCount' = JobCount + 0
  BY <1>1, SameCount, CountType DEF TaskInv
<1>4. CASE UNCHANGED faults /\ Free' = Free
  BY <1>1, <1>2, <1>3, <1>4, Paid, CountType, CountTypeNext DEF Spent, TaskInv
<1>5. CASE faults' = faults + 1
  BY <1>1, <1>2, <1>3, <1>5, Paid, CountType, CountTypeNext DEF Spent, TaskInv
<1>6. \/ UNCHANGED faults /\ Free' = Free
      \/ faults' = faults + 1
  BY <1>1 DEF Free, Live
<1> QED
  BY <1>4, <1>5, <1>6

\* Whatever else happens pays for what it loses.
LEMMA OtherBudget ==
    ASSUME TaskInv, TypeOK', BudgetInv,
           \/ Sync \/ GetFails \/ GetJobFails \/ Crash \/ Define \/ UNCHANGED vars
           \/ \E n \in JobNames : JobProgresses(n) \/ JobRemoved(n)
    PROVE  BudgetInv'
<1>1. CASE Sync \/ GetFails \/ Define \/ UNCHANGED vars
  <2>1. UNCHANGED <<obj, pc, local, fresh, jobs, crashes, cleanups, stale>> /\ faults' >= faults
    BY <1>1, CountType DEF Sync, GetFails, Define, vars, TaskInv
  <2>2. Free' = Free /\ Reserved' = Reserved
    BY <2>1 DEF Free, Reserved, Live
  <2>3. JobCount' = JobCount + 0
    BY <2>1, SameCount, CountType DEF TaskInv
  <2> QED
    BY <2>1, <2>2, <2>3, Paid, CountType, CountTypeNext DEF Spent, TaskInv
<1>2. CASE GetJobFails \/ Crash
  <2>1. /\ UNCHANGED <<jobs, cleanups, stale>> /\ pc' # "job"
        /\ \/ faults' = faults + 1 /\ UNCHANGED crashes
           \/ crashes' = crashes + 1 /\ UNCHANGED faults
    BY <1>2 DEF GetJobFails, Crash
  <2>2. Reserved' = 0
    BY <2>1 DEF Reserved
  <2>3. JobCount' = JobCount + 0
    BY <2>1, SameCount, CountType DEF TaskInv
  <2> QED
    BY <2>1, <2>2, <2>3, Paid, CountType, CountTypeNext DEF Spent, TaskInv
<1>3. ASSUME NEW n \in JobNames, JobProgresses(n) \/ JobRemoved(n) PROVE BudgetInv'
  <2>1. /\ UNCHANGED <<obj, pc, local, fresh, faults, crashes, stale>>
        /\ jobs \in [JobNames -> JobObject]
        /\ obj \in Tasks /\ local \in Tasks
    BY <1>3 DEF JobProgresses, JobRemoved, TaskInv, TypeOK
  <2>2. \A k \in JobNames : jobs'[k].there = "no" <=> jobs[k].there = "no"
    BY <1>3, <2>1 DEF JobProgresses, JobRemoved, JobObject
  <2>3. JobCount' = JobCount + 0
    BY <2>2, SameCount, CountType DEF TaskInv
  <2>4. Reserved' = Reserved
    BY <2>1 DEF Reserved
  <2>5. CASE JobRemoved(n)
    <3>1. cleanups' = cleanups + 1
      BY <2>5 DEF JobRemoved
    <3> QED
      BY <2>1, <2>3, <2>4, <3>1, Paid, CountType, CountTypeNext DEF Spent, TaskInv
  <2>6. CASE JobProgresses(n)
    <3>1. UNCHANGED cleanups
      BY <2>6 DEF JobProgresses
    <3>2. \A k \in JobNames : jobs[k].there \in {"new", "yes"} => jobs'[k].there \in {"new", "yes"}
      BY <2>1, <2>6 DEF JobProgresses, JobObject
    <3>3. \A task \in Tasks : task.jobName # NoJob => task.jobName \in JobNames
      BY TaskAssumption DEF Tasks, JobNames
    <3>4. Free' >= Free
      BY <2>1, <3>2, <3>3 DEF Free, Live
    <3> QED
      BY <2>1, <2>3, <2>4, <3>1, <3>4, Paid, CountType, CountTypeNext DEF Spent, TaskInv
  <2> QED
    BY <1>3, <2>5, <2>6
<1> QED
  BY <1>1, <1>2, <1>3

LEMMA NextBudget == TaskInv /\ TaskInv' /\ BudgetInv /\ [Next]_vars => BudgetInv'
<1> SUFFICES ASSUME TaskInv, TaskInv', BudgetInv, [Next]_vars PROVE BudgetInv'
  OBVIOUS
<1>1. TypeOK'
  BY DEF TaskInv
<1> QED
  BY <1>1, StartReconcileBudget, ReconcileJobBudget, CreateJobBudget, FinishReconcileBudget,
     OtherBudget DEF Next, Controller

LEMMA BudgetSuffices == TaskInv /\ BudgetInv => JobsAccountedFor
<1> SUFFICES ASSUME TaskInv, BudgetInv PROVE JobsAccountedFor
  OBVIOUS
<1>1. JobCount <= 1 + Spent
  BY CountType DEF BudgetInv, TaskInv
<1> QED
  BY <1>1, CountType DEF JobsAccountedFor, JobCount, Spent, TaskInv

\* A task costs one job, and one more for each call that failed, restart, job
\* that was removed and stale read, although the only link to its job is
\* written after the job was created (createJob, and the deferred write of
\* Reconcile).
THEOREM JobsAccountedForHolds == Spec => []JobsAccountedFor
  BY InitTaskInv, NextTaskInv, InitBudget, NextBudget, BudgetSuffices, PTL DEF Spec

-----------------------------------------------------------------------------
(***************************************************************************)
(* The task with its definition.  To the task, the controller of           *)
(* definitions is an environment that changes the definition and makes     *)
(* calls fail, so all of the above holds for the two together.             *)
(***************************************************************************)
Outside ==
    /\ definition' \in {definition, "missing", "empty", "runnable"}
    /\ \/ UNCHANGED faults
       \/ faults < MaxFaults /\ faults' = faults + 1
    /\ UNCHANGED <<obj, cache, queued, pc, local, fresh, again, jobs, crashes, cleanups, stale>>

LEMMA FunctionStep == [FunctionNext]_allVars => [Next]_vars \/ Outside
<1> SUFFICES ASSUME [FunctionNext]_allVars PROVE [Next]_vars \/ Outside
  OBVIOUS
<1>1. CASE TaskController \/ SyncTask \/ TaskDisturbed \/ Restart
  BY <1>1 DEF TaskController, SyncTask, TaskDisturbed, Restart, Next
<1>2. CASE \E n \in JobNames : PodStarts(n) \/ JobRuns(n)
  BY <1>2 DEF PodStarts, JobRuns, Next
<1>3. CASE EditFunction \/ CreateUserMap \/ UNCHANGED allVars
  BY <1>3 DEF EditFunction, CreateUserMap, allVars
<1>4. CASE ReconcileStatus
  <2>1. definition' \in {"missing", "empty", "runnable"}
    BY <1>4 DEF ReconcileStatus, Runnability
  <2> QED
    BY <1>4, <2>1 DEF ReconcileStatus, FunctionCallFails, Outside
<1>5. CASE ReconcileMap \/ GetConfigMapFails
  BY <1>5 DEF ReconcileMap, GetConfigMapFails, FunctionCallFails, Outside
<1> QED
  BY <1>1, <1>2, <1>3, <1>4, <1>5 DEF FunctionNext

LEMMA OutsideInv == TaskInv /\ Outside => TaskInv'
<1> SUFFICES ASSUME TaskInv, Outside PROVE TaskInv'
  OBVIOUS
<1>1. faults' \in 0..MaxFaults
  BY TaskAssumption DEF Outside, TaskInv, TypeOK
<1> QED
  BY <1>1 DEF Outside, TaskInv, TypeOK, Real, Kept

LEMMA OutsideBudget == TaskInv /\ TaskInv' /\ BudgetInv /\ Outside => BudgetInv'
<1> SUFFICES ASSUME TaskInv, TaskInv', BudgetInv, Outside PROVE BudgetInv'
  OBVIOUS
<1>1. /\ UNCHANGED <<obj, pc, local, fresh, jobs, crashes, cleanups, stale>>
      /\ faults' = faults \/ faults' = faults + 1
  BY DEF Outside
<1>2. Free' = Free /\ Reserved' = Reserved
  BY <1>1 DEF Free, Reserved, Live
<1>3. JobCount' = JobCount + 0
  BY <1>1, SameCount, CountType DEF TaskInv
<1>4. TypeOK'
  BY DEF TaskInv
<1> QED
  BY <1>1, <1>2, <1>3, <1>4, Paid, CountType, CountTypeNext DEF Spent, TaskInv

LEMMA FunctionTaskInv ==
    TaskInv /\ BudgetInv /\ [FunctionNext]_allVars => TaskInv' /\ BudgetInv'
  BY FunctionStep, OutsideInv, OutsideBudget, NextTaskInv, NextBudget

\* The guarantees of the task do not depend on its definition staying what it
\* is: they hold together with the controller of task definitions, which edits,
\* lost writes and config maps keep busy (Reconcile of the KeptnTask and of the
\* KeptnTaskDefinition).
THEOREM FunctionTaskGuarantees ==
    FunctionSpec => []ResultIsReal /\ []JobsAccountedFor /\ ResultKept
<1> DEFINE Keeps == IsCompleted(obj.status) /\ jobs[obj.jobName].there = "yes" =>
                      obj'.status = obj.status /\ obj'.jobName = obj.jobName
<1>1. TaskInv /\ [FunctionNext]_allVars => [Keeps]_vars
  BY FunctionStep, KeepsStep DEF Outside
<1>2. FunctionInit => Init
  BY DEF FunctionInit
<1> QED
  BY <1>1, <1>2, InitTaskInv, InitBudget, FunctionTaskInv, RealSuffices, BudgetSuffices, PTL
     DEF FunctionSpec, ResultKept

-----------------------------------------------------------------------------
(***************************************************************************)
(* The code that a job runs.  Of inline code the generated map never goes  *)
(* back, and it is up to date when the controller of definitions has       *)
(* nothing left to do; the status names the map of the code it is about,   *)
(* unless something was left over.                                         *)
(***************************************************************************)
MapsOK ==
    /\ maps \in [{"generated", "user"} -> Codes]
    /\ maps["user"] \in {0, UserCode}
    /\ IsInline(fn) =>
        /\ fn.code \in 1..(edits + 1)
        /\ maps["generated"] <= fn.code
        /\ ~fqueued /\ ~flost => maps["generated"] = fn.code

StatusOK ==
    /\ {fstatus, flocal.status} \subseteq {NoMap, "generated", "user"}
    /\ IsInline(fn) => fstatus # "user"
    /\ fn.kind = "empty" => fstatus = NoMap /\ flocal.status = NoMap
    /\ definition = "runnable" => Script(fn, fstatus) # NoMap

\* What a job will run, and has run, is no older than what was sought.
JobOK(n) ==
    /\ jobs[n].there = "no" => sought[n] = 0 /\ ran[n] = 0
    /\ jobs[n].there # "no" => script[n] # NoMap
    /\ script[n] = "generated" => sought[n] <= maps["generated"]
    /\ script[n] = "user" => sought[n] <= UserCode
    /\ ran[n] # 0 => sought[n] <= ran[n]

FunctionInv ==
    /\ FunctionTypeOK
    /\ MapsOK
    /\ StatusOK
    /\ \A n \in JobNames : JobOK(n)


USE DEF NoMap, IsInline

LEMMA CodeFacts ==
    /\ MaxEdits \in Nat /\ UserCode \in Codes /\ RemoteCode \in Codes /\ 0 \in Codes
    /\ \A c \in Codes : c \in Nat /\ c <= RemoteCode
    /\ \A c \in 1..(MaxEdits + 1) : c \in Codes
    /\ UserCode \in Nat /\ UserCode # 0 /\ RemoteCode \in Nat /\ RemoteCode # 0
  BY FunctionAssumption DEF Codes, UserCode, RemoteCode

LEMMA InitFunction == FunctionInit => FunctionInv
<1> SUFFICES ASSUME FunctionInit PROVE FunctionInv
  OBVIOUS
<1>1. PICK c \in {0, UserCode} :
        maps = [m \in {"generated", "user"} |-> IF m = "user" THEN c ELSE 0]
  BY DEF FunctionInit
<1>2. maps \in [{"generated", "user"} -> Codes] /\ maps["user"] = c /\ maps["generated"] = 0
  BY <1>1, CodeFacts
<1>3. /\ fn \in [kind : Kinds, code : {0, 1}]
      /\ IsInline(fn) => fn.code = 1
  BY DEF FunctionInit, Kinds
<1>4. 1 \in InlineCodes /\ 0 \in 0..MaxEdits
  BY FunctionAssumption DEF InlineCodes
<1>5. FunctionTypeOK
  BY <1>2, <1>3, <1>4, CodeFacts DEF FunctionInit, FunctionTypeOK
<1>6. MapsOK
  BY <1>1, <1>2, <1>3 DEF FunctionInit, MapsOK
<1>7. StatusOK
  BY DEF FunctionInit, StatusOK, NoDefinition, Runnability
<1>8. \A n \in JobNames : JobOK(n)
  BY CodeFacts, <1>2 DEF FunctionInit, Init, JobOK
<1> QED
  BY <1>5, <1>6, <1>7, <1>8 DEF FunctionInv

\* A job is created only for a definition that can be run.
LEMMA ControllerCreates ==
    ASSUME TaskInv, Controller
    PROVE  /\ UNCHANGED definition
           /\ \A n \in JobNames :
                \/ jobs'[n].there = jobs[n].there
                \/ jobs[n].there = "no" /\ jobs'[n].there = "new" /\ definition = "runnable"
<1>1. CASE StartReconcile \/ ReconcileJob \/ FinishReconcile
  BY <1>1 DEF StartReconcile, ReconcileJob, FinishReconcile
<1>2. CASE CreateJob
  <2>1. UNCHANGED definition /\ (UNCHANGED jobs \/ (definition = "runnable" /\ CreateFunctionJob))
    BY <1>2 DEF CreateJob
  <2>2. CASE definition = "runnable" /\ CreateFunctionJob
    <3>1. PICK n \in JobNames :
              /\ jobs[n].there = "no"
              /\ jobs' = jobs \/ jobs' = [jobs EXCEPT ![n].there = "new"]
      BY <2>2 DEF CreateFunctionJob
    <3>2. CASE jobs' = [jobs EXCEPT ![n].there = "new"]
      <4>1. /\ jobs'[n].there = "new"
            /\ \A k \in JobNames \ {n} : jobs'[k] = jobs[k]
        BY <3>2 DEF TaskInv, TypeOK, JobObject
      <4> QED
        BY <2>1, <2>2, <3>1, <4>1
    <3> QED
      BY <2>1, <3>1, <3>2
  <2> QED
    BY <2>1, <2>2
<1> QED
  BY <1>1, <1>2 DEF Controller

\* What a job gets from a settled definition is what it sought.
LEMMA SettledScript ==
    ASSUME FunctionInv, definition = "runnable"
    PROVE  /\ Script(fn, fstatus) \in {"generated", "user", "url", "container"}
           /\ Wanted(fn) \in Codes
           /\ Settled /\ ~Leftover =>
                /\ Script(fn, fstatus) = "generated" => Wanted(fn) <= maps["generated"]
                /\ Script(fn, fstatus) = "user" => Wanted(fn) <= UserCode
<1>1. /\ fn.kind \in Kinds /\ fstatus \in {NoMap, "generated", "user"}
      /\ Script(fn, fstatus) # NoMap
  BY DEF FunctionInv, FunctionTypeOK, StatusOK
<1>2. Script(fn, fstatus) \in {"generated", "user", "url", "container"}
  BY <1>1 DEF Script
<1>3. CASE IsInline(fn)
  <2>1. /\ fn.code \in {0} \cup InlineCodes /\ Wanted(fn) = fn.code
        /\ Script(fn, fstatus) = "generated"
    BY <1>1, <1>3 DEF Wanted, Script, FunctionInv, FunctionTypeOK, StatusOK
  <2>2. fn.code \in Codes
    BY <2>1, CodeFacts DEF InlineCodes
  <2>3. Settled => maps["generated"] = fn.code
    BY <1>3 DEF Settled, FunctionInv, MapsOK
  <2>4. fn.code \in Nat
    BY <2>2, CodeFacts
  <2> QED
    BY <1>2, <2>1, <2>2, <2>3, <2>4
<1>4. CASE fn.kind = "userMap"
  <2>1. Wanted(fn) = UserCode /\ (~Leftover => Script(fn, fstatus) = "user")
    BY <1>4 DEF Wanted, Leftover, Script
  <2> QED
    BY <1>2, <2>1, CodeFacts
<1>5. CASE fn.kind \in {"http", "container", "empty"}
  <2>1. Wanted(fn) = RemoteCode
    BY <1>5 DEF Wanted
  <2>2. fn.kind # "empty"
    <3> SUFFICES ASSUME fn.kind = "empty" PROVE FALSE
      OBVIOUS
    <3>1. fstatus = NoMap
      BY DEF FunctionInv, StatusOK
    <3> QED
      BY <1>1, <3>1 DEF Script
  <2>3. ~Leftover => fn.kind = "container" \/ fstatus = NoMap
    BY <1>5, <2>2 DEF Leftover
  <2>4. ~Leftover => Script(fn, fstatus) \in {"url", "container"}
    <3>1. fn.kind = "container" => Script(fn, fstatus) = "container"
      BY DEF Script
    <3>2. fn.kind = "http" /\ fstatus = NoMap => Script(fn, fstatus) = "url"
      BY DEF Script
    <3> QED
      BY <1>5, <2>2, <2>3, <3>1, <3>2
  <2> QED
    BY <1>2, <2>1, <2>4, CodeFacts
<1> QED
  BY <1>1, <1>3, <1>4, <1>5 DEF Kinds

LEMMA TaskControllerFunction ==
    ASSUME TaskInv, FunctionInv, TaskController
    PROVE  FunctionInv'
<1> DEFINE created == {n \in JobNames : jobs[n].there = "no" /\ jobs'[n].there = "new"}
           settled == IF Settled /\ ~Leftover THEN Wanted(fn) ELSE 0
<1>1. /\ script' = [n \in JobNames |-> IF n \in created THEN Script(fn, fstatus) ELSE script[n]]
      /\ sought' = [n \in JobNames |-> IF n \in created THEN settled ELSE sought[n]]
      /\ UNCHANGED <<fn, fstatus, maps, fqueued, fpc, flocal, flost, ran, edits>>
      /\ UNCHANGED definition
  BY ControllerCreates DEF TaskController, JobsKeepScript
<1>2. \A n \in JobNames : n \in created => definition = "runnable"
  BY ControllerCreates DEF TaskController
<1>3. \A n \in JobNames : n \notin created => jobs'[n].there = jobs[n].there
  BY ControllerCreates DEF TaskController
<1>4. \A n \in JobNames : n \in created => jobs[n].there = "no" /\ jobs'[n].there = "new"
  OBVIOUS
<1>5. definition = "runnable" =>
        /\ Script(fn, fstatus) \in {"generated", "user", "url", "container"}
        /\ settled \in Codes
        /\ Script(fn, fstatus) = "generated" => settled <= maps["generated"]
        /\ Script(fn, fstatus) = "user" => settled <= UserCode
  <2>1. maps["generated"] \in Nat /\ 0 <= maps["generated"] /\ 0 <= UserCode
    <3>1. maps["generated"] \in Codes
      BY DEF FunctionInv, MapsOK
    <3>2. maps["generated"] \in Nat /\ UserCode \in Nat
      BY <3>1, CodeFacts
    <3>3. \A k \in Nat : 0 <= k
      OBVIOUS
    <3> QED
      BY <3>2, <3>3
  <2> QED
    BY <2>1, SettledScript, CodeFacts
<1> HIDE DEF created, settled
<1>6. FunctionTypeOK'
  <2>1. script' \in [JobNames -> {NoMap, "generated", "user", "url", "container"}]
    BY <1>1, <1>2, <1>5 DEF FunctionInv, FunctionTypeOK
  <2>2. sought' \in [JobNames -> Codes]
    BY <1>1, <1>2, <1>5 DEF FunctionInv, FunctionTypeOK
  <2> QED
    BY <1>1, <2>1, <2>2 DEF FunctionInv, FunctionTypeOK
<1>7. MapsOK' /\ StatusOK'
  BY <1>1 DEF FunctionInv, MapsOK, StatusOK
<1>8. ASSUME NEW n \in JobNames PROVE JobOK(n)'
  <2>1. CASE n \in created
    <3>1. script'[n] = Script(fn, fstatus) /\ sought'[n] = settled /\ ran'[n] = 0
      BY <1>1, <1>4, <2>1 DEF FunctionInv, JobOK
    <3> QED
      BY <1>1, <1>2, <1>4, <1>5, <2>1, <3>1 DEF JobOK
  <2>2. CASE n \notin created
    BY <1>1, <1>3, <2>2 DEF FunctionInv, JobOK
  <2> QED
    BY <2>1, <2>2
<1> QED
  BY <1>6, <1>7, <1>8 DEF FunctionInv

\* Whatever leaves the definition and the scripts of the jobs alone.
LEMMA OtherTaskFunction ==
    ASSUME TaskInv, FunctionInv,
           \/ SyncTask \/ TaskDisturbed \/ Restart \/ UNCHANGED allVars
           \/ \E n \in JobNames : JobRuns(n)
    PROVE  FunctionInv'
<1>1. /\ UNCHANGED <<fn, fstatus, maps, flost, script, sought, ran, edits, definition>>
      /\ fqueued' = fqueued \/ fqueued' = TRUE
      /\ \/ UNCHANGED <<fpc, flocal>>
         \/ fpc' = "idle" /\ flocal' = NoDefinition
  BY DEF SyncTask, TaskDisturbed, Restart, JobRuns, Sync, GetFails, GetJobFails, JobRemoved,
         JobProgresses, Crash, allVars, vars, fvars
<1>2. \A n \in JobNames : jobs'[n].there = "no" <=> jobs[n].there = "no"
  <2>1. jobs \in [JobNames -> JobObject]
    BY DEF TaskInv, TypeOK
  <2>2. CASE UNCHANGED jobs
    BY <2>2
  <2>3. ASSUME NEW k \in JobNames, JobProgresses(k) \/ JobRemoved(k)
        PROVE  \A n \in JobNames : jobs'[n].there = "no" <=> jobs[n].there = "no"
    BY <2>1, <2>3 DEF JobProgresses, JobRemoved, JobObject
  <2>4. UNCHANGED jobs \/ \E k \in JobNames : JobProgresses(k) \/ JobRemoved(k)
    BY DEF SyncTask, TaskDisturbed, Restart, JobRuns, Sync, GetFails, GetJobFails, Crash,
           allVars, vars
  <2> QED
    BY <2>2, <2>3, <2>4
<1>3. FunctionTypeOK'
  BY <1>1 DEF FunctionInv, FunctionTypeOK
<1>4. MapsOK'
  BY <1>1 DEF FunctionInv, MapsOK
<1>5. StatusOK'
  BY <1>1 DEF FunctionInv, StatusOK, NoDefinition
<1>6. \A n \in JobNames : JobOK(n)'
  BY <1>1, <1>2 DEF FunctionInv, JobOK
<1> QED
  BY <1>3, <1>4, <1>5, <1>6 DEF FunctionInv

LEMMA PodStartsFunction ==
    ASSUME TaskInv, FunctionInv, NEW n \in JobNames, PodStarts(n)
    PROVE  FunctionInv'
<1>1. /\ jobs[n].there \in {"new", "yes"} /\ CodeOf(script[n]) # 0
      /\ ran' = [ran EXCEPT ![n] = CodeOf(script[n])]
      /\ UNCHANGED <<fn, fstatus, maps, fqueued, fpc, flocal, flost, script, sought, edits,
                     jobs, definition>>
  BY DEF PodStarts, vars
<1>2. /\ script[n] \in {"generated", "user", "url", "container"}
      /\ sought[n] \in Codes /\ maps \in [{"generated", "user"} -> Codes]
      /\ ran \in [JobNames -> Codes]
  BY <1>1 DEF FunctionInv, FunctionTypeOK, JobOK
<1>3. CodeOf(script[n]) \in Codes /\ sought[n] <= CodeOf(script[n])
  <2>1. CASE script[n] = "generated"
    BY <1>2, <2>1 DEF CodeOf, FunctionInv, JobOK
  <2>2. CASE script[n] = "user"
    BY <1>1, <1>2, <2>2 DEF CodeOf, FunctionInv, JobOK, MapsOK
  <2>3. CASE script[n] \in {"url", "container"}
    BY <1>2, <2>3, CodeFacts DEF CodeOf
  <2> QED
    BY <1>2, <2>1, <2>2, <2>3
<1>4. FunctionTypeOK'
  BY <1>1, <1>2, <1>3 DEF FunctionInv, FunctionTypeOK
<1>5. MapsOK' /\ StatusOK'
  BY <1>1 DEF FunctionInv, MapsOK, StatusOK
<1>6. ASSUME NEW k \in JobNames PROVE JobOK(k)'
  BY <1>1, <1>2, <1>3 DEF FunctionInv, JobOK
<1> QED
  BY <1>4, <1>5, <1>6 DEF FunctionInv

\* A config map is written: the code in it does not go back.
LEMMA MapWritten ==
    ASSUME FunctionInv, NEW m \in {"generated", "user"}, NEW c \in Codes, maps[m] <= c,
           m = "user" => c = UserCode, maps' = [maps EXCEPT ![m] = c] \/ maps' = maps
    PROVE  /\ maps' \in [{"generated", "user"} -> Codes] /\ maps'["user"] \in {0, UserCode}
           /\ \A n \in JobNames :
                script[n] = "generated" => sought[n] <= maps'["generated"]
<1>1. /\ maps \in [{"generated", "user"} -> Codes] /\ maps["user"] \in {0, UserCode}
      /\ sought \in [JobNames -> Codes]
  BY DEF FunctionInv, FunctionTypeOK, MapsOK
<1>2. maps' \in [{"generated", "user"} -> Codes] /\ maps'["user"] \in {0, UserCode}
  BY <1>1
<1>3. maps'["generated"] = maps["generated"] \/ (m = "generated" /\ maps'["generated"] = c)
  BY <1>1
<1>4. \A a, b, d \in Codes : a <= b /\ b <= d => a <= d
  BY CodeFacts
<1>5. ASSUME NEW n \in JobNames, script[n] = "generated" PROVE sought[n] <= maps'["generated"]
  <2>1. sought[n] <= maps["generated"] /\ sought[n] \in Codes /\ maps["generated"] \in Codes
    BY <1>1, <1>5 DEF FunctionInv, JobOK
  <2> QED
    BY <1>3, <1>4, <2>1
<1> QED
  BY <1>2, <1>5

LEMMA ReconcileMapFunction ==
    ASSUME TaskInv, FunctionInv, ReconcileMap
    PROVE  FunctionInv'
<1>1. /\ UNCHANGED <<fn, fstatus, script, sought, ran, edits, jobs, definition>>
      /\ fpc' = "status" /\ fqueued' = FALSE /\ flocal'.status = fstatus
  BY DEF ReconcileMap
<1>2. /\ maps' = maps \/ (IsInline(fn) /\ maps' = [maps EXCEPT !["generated"] = fn.code])
      /\ \/ flost' = TRUE
         \/ IsInline(fn) => maps' = [maps EXCEPT !["generated"] = fn.code]
  BY DEF ReconcileMap, FunctionCallFails
<1>3. IsInline(fn) => /\ fn.code \in Codes /\ fn.code \in 1..(edits + 1)
                      /\ maps["generated"] <= fn.code
  <2>1. fn.code \in {0} \cup InlineCodes
    BY DEF FunctionInv, FunctionTypeOK
  <2> QED
    BY <2>1, CodeFacts DEF FunctionInv, MapsOK, InlineCodes
<1>4. maps \in [{"generated", "user"} -> Codes]
  BY DEF FunctionInv, MapsOK
<1>5. /\ maps' \in [{"generated", "user"} -> Codes] /\ maps'["user"] \in {0, UserCode}
      /\ \A n \in JobNames : script[n] = "generated" => sought[n] <= maps'["generated"]
  <2>1. CASE maps' = maps
    BY <2>1 DEF FunctionInv, MapsOK, JobOK
  <2>2. CASE IsInline(fn) /\ maps' = [maps EXCEPT !["generated"] = fn.code]
    BY <1>3, <2>2, MapWritten
  <2> QED
    BY <1>2, <2>1, <2>2
<1>6. IsInline(fn) => /\ maps'["generated"] \in {maps["generated"], fn.code}
                      /\ ~flost' => maps'["generated"] = fn.code
  BY <1>2, <1>4
<1>7. FunctionTypeOK'
  BY <1>1, <1>5 DEF FunctionInv, FunctionTypeOK
<1>8. MapsOK'
  <2>1. IsInline(fn) => maps'["generated"] <= fn.code
    BY <1>3, <1>6, CodeFacts
  <2> QED
    BY <1>1, <1>3, <1>5, <1>6, <2>1 DEF MapsOK
<1>9. StatusOK'
  BY <1>1 DEF FunctionInv, StatusOK
<1>10. \A n \in JobNames : JobOK(n)'
  BY <1>1, <1>5 DEF FunctionInv, JobOK
<1> QED
  BY <1>7, <1>8, <1>9, <1>10 DEF FunctionInv

LEMMA GetConfigMapFailsFunction ==
    ASSUME TaskInv, FunctionInv, GetConfigMapFails
    PROVE  FunctionInv'
<1>1. /\ UNCHANGED <<fn, fstatus, fpc, flocal, maps, script, sought, ran, edits, jobs, definition>>
      /\ fpc = "idle" /\ fqueued' = FALSE /\ flost' = TRUE
  BY DEF GetConfigMapFails, FunctionCallFails
<1> QED
  BY <1>1 DEF FunctionInv, FunctionTypeOK, MapsOK, StatusOK, JobOK

LEMMA ReconcileStatusFunction ==
    ASSUME TaskInv, FunctionInv, ReconcileStatus
    PROVE  FunctionInv'
<1> DEFINE new == UpdateDefinitionStatus(flocal.spec, flocal.status, flocal.found)
<1>1. /\ UNCHANGED <<fn, maps, script, sought, ran, edits, jobs>>
      /\ fpc' = "idle" /\ flocal' = NoDefinition
      /\ fstatus' = fstatus \/ (fn = flocal.spec /\ fstatus' = new)
      /\ flost' = flost \/ flost' = TRUE
      /\ fqueued' = (fqueued \/ fstatus' # fstatus)
      /\ definition' = Runnability(fn, fstatus')
  BY DEF ReconcileStatus, FunctionCallFails
<1>2. fn = flocal.spec =>
        /\ new \in {NoMap, "generated", "user"}
        /\ IsInline(fn) => new = "generated"
        /\ fn.kind = "empty" => new = NoMap
  BY DEF FunctionInv, StatusOK, UpdateDefinitionStatus
<1> HIDE DEF new
<1>3. /\ fstatus' \in {NoMap, "generated", "user"}
      /\ IsInline(fn) => fstatus' # "user"
      /\ fn.kind = "empty" => fstatus' = NoMap
  BY <1>1, <1>2 DEF FunctionInv, StatusOK
<1>4. definition' = "runnable" => Script(fn, fstatus') # NoMap
  BY <1>1 DEF Runnability
<1>5. FunctionTypeOK'
  BY <1>1, <1>3 DEF FunctionInv, FunctionTypeOK
<1>6. MapsOK'
  <2>1. ~fqueued' /\ ~flost' => ~fqueued /\ ~flost
    BY <1>1
  <2> QED
    BY <1>1, <2>1 DEF FunctionInv, MapsOK
<1>7. StatusOK'
  <2>1. flocal'.status = NoMap
    BY <1>1 DEF NoDefinition
  <2>2. Script(fn, fstatus)' = Script(fn, fstatus')
    BY <1>1 DEF Script
  <2> QED
    BY <1>1, <1>3, <1>4, <2>1, <2>2 DEF StatusOK
<1>8. \A n \in JobNames : JobOK(n)'
  BY <1>1 DEF FunctionInv, JobOK
<1> QED
  BY <1>5, <1>6, <1>7, <1>8 DEF FunctionInv

LEMMA UserFunction ==
    ASSUME TaskInv, FunctionInv, EditFunction \/ CreateUserMap
    PROVE  FunctionInv'
<1>1. CASE CreateUserMap
  <2>1. /\ UNCHANGED <<fn, fstatus, fqueued, fpc, flocal, flost, script, sought, ran, edits,
                       jobs, definition>>
        /\ maps' = [maps EXCEPT !["user"] = UserCode] /\ maps["user"] = 0
        /\ fn.kind = "userMap"
    BY <1>1 DEF CreateUserMap, vars
  <2>2. maps["user"] <= UserCode
    BY <2>1, CodeFacts
  <2>3. /\ maps' \in [{"generated", "user"} -> Codes] /\ maps'["user"] \in {0, UserCode}
        /\ \A n \in JobNames : script[n] = "generated" => sought[n] <= maps'["generated"]
    BY <2>1, <2>2, CodeFacts, MapWritten
  <2>4. FunctionTypeOK'
    BY <2>1, <2>3 DEF FunctionInv, FunctionTypeOK
  <2>5. MapsOK' /\ StatusOK'
    BY <2>1, <2>3 DEF FunctionInv, MapsOK, StatusOK
  <2>6. \A n \in JobNames : JobOK(n)'
    BY <2>1, <2>3 DEF FunctionInv, JobOK
  <2> QED
    BY <2>4, <2>5, <2>6 DEF FunctionInv
<1>2. CASE EditFunction
  <2>1. /\ UNCHANGED <<fstatus, maps, fpc, flocal, flost, script, sought, ran, jobs, definition>>
        /\ fqueued' = TRUE /\ edits < MaxEdits /\ edits' = edits + 1 /\ fstatus # NoMap
        /\ \/ IsInline(fn) /\ fn' = [fn EXCEPT !.code = @ + 1]
           \/ fn' \in [kind : {"userMap", "http"}, code : {0}]
    BY <1>2 DEF EditFunction, vars
  <2>2. /\ fn \in [kind : Kinds, code : {0} \cup InlineCodes] /\ edits \in 0..MaxEdits
        /\ maps \in [{"generated", "user"} -> Codes]
    BY DEF FunctionInv, FunctionTypeOK
  <2>3. edits + 1 \in 0..MaxEdits
    BY <2>1, <2>2, FunctionAssumption
  <2>4. \/ /\ IsInline(fn) /\ fn'.kind = fn.kind /\ fn'.code = fn.code + 1
           /\ fn' \in [kind : Kinds, code : {0} \cup InlineCodes]
           /\ fn.code + 1 \in 1..((edits + 1) + 1)
           /\ maps["generated"] <= fn.code + 1
        \/ /\ fn'.kind \in {"userMap", "http"}
           /\ fn' \in [kind : Kinds, code : {0} \cup InlineCodes]
    <3>1. CASE IsInline(fn) /\ fn' = [fn EXCEPT !.code = @ + 1]
      <4>1. fn.code \in 1..(edits + 1) /\ maps["generated"] <= fn.code
        BY <3>1 DEF FunctionInv, MapsOK
      <4>2. /\ fn.code + 1 \in InlineCodes /\ fn.code + 1 \in 1..((edits + 1) + 1)
        BY <2>2, <2>3, <4>1, FunctionAssumption DEF InlineCodes
      <4>3. maps["generated"] <= fn.code + 1
        <5>1. maps["generated"] \in Nat
          BY <2>2, CodeFacts
        <5>2. fn.code \in Nat
          BY <2>2, <4>1
        <5>3. \A a, b \in Nat : a <= b => a <= b + 1
          OBVIOUS
        <5> QED
          BY <4>1, <5>1, <5>2, <5>3
      <4> QED
        BY <2>2, <3>1, <4>2, <4>3
    <3>2. CASE fn' \in [kind : {"userMap", "http"}, code : {0}]
      BY <3>2 DEF Kinds
    <3> QED
      BY <2>1, <3>1, <3>2
  <2>5. FunctionTypeOK'
    BY <2>1, <2>3, <2>4 DEF FunctionInv, FunctionTypeOK
  <2>6. MapsOK'
    BY <2>1, <2>4 DEF FunctionInv, MapsOK
  <2>7. StatusOK'
    BY <2>1, <2>4 DEF FunctionInv, StatusOK, Script
  <2>8. \A n \in JobNames : JobOK(n)'
    BY <2>1 DEF FunctionInv, JobOK
  <2> QED
    BY <2>5, <2>6, <2>7, <2>8 DEF FunctionInv
<1> QED
  BY <1>1, <1>2

LEMMA NextFunction == TaskInv /\ FunctionInv /\ [FunctionNext]_allVars => FunctionInv'
  BY TaskControllerFunction, OtherTaskFunction, PodStartsFunction, GetConfigMapFailsFunction,
     ReconcileMapFunction, ReconcileStatusFunction, UserFunction DEF FunctionNext

LEMMA FunctionInvariant == FunctionSpec => []FunctionInv
<1>1. FunctionInit => Init
  BY DEF FunctionInit
<1> QED
  BY <1>1, InitTaskInv, InitBudget, InitFunction, FunctionTaskInv, NextFunction, PTL
     DEF FunctionSpec

\* The type invariant of the definition and of what the jobs run.
THEOREM FunctionTypeCorrect == FunctionSpec => []FunctionTypeOK
<1>1. FunctionInv => FunctionTypeOK
  BY DEF FunctionInv
<1> QED
  BY <1>1, FunctionInvariant, PTL

\* A job runs the code its definition had when it was created, or a later edit,
\* never an older one, if the controller of definitions had nothing left to do
\* and nothing was left over (reconcileConfigMap, updateTaskDefinitionStatus,
\* generateJob).
THEOREM RunsDefinedCodeHolds == FunctionSpec => []RunsDefinedCode
<1>1. FunctionInv => RunsDefinedCode
  <2> SUFFICES ASSUME FunctionInv, NEW n \in JobNames, ran[n] # 0, sought[n] # 0
               PROVE  ran[n] >= sought[n]
    BY DEF RunsDefinedCode
  <2>1. sought[n] <= ran[n] /\ sought[n] \in Codes /\ ran[n] \in Codes
    BY DEF FunctionInv, JobOK, FunctionTypeOK
  <2> QED
    BY <2>1, CodeFacts
<1> QED
  BY <1>1, FunctionInvariant, PTL
=============================================================================
