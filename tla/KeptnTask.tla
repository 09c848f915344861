------------------------------ MODULE KeptnTask ------------------------------
(***************************************************************************)
(* One KeptnTask and the controller that runs it as a Kubernetes Job       *)
(* (controllers/lifecycle/keptntask).                                      *)
(*                                                                         *)
(* The only link from the task to its job is the job's name in the status, *)
(* which is written after the job was created, from a copy that may be     *)
(* stale, in a deferred write whose error is only logged.  A job that is   *)
(* not found is created, whatever the status of the task says.             *)
(***************************************************************************)
EXTENDS KeptnState, Integers

CONSTANTS
    MaxJobs,      \* bound: jobs ever created for the task
    MaxFaults,    \* bound: API calls that fail without a conflict
    MaxCrashes,   \* bound: restarts of the operator
    MaxCleanups,  \* bound: jobs removed, after their TTL or by hand
    MaxStale      \* bound: reads served before the cache has caught up

ASSUME TaskAssumption ==
    /\ MaxJobs \in Nat \ {0}
    /\ MaxFaults \in Nat
    /\ MaxCrashes \in Nat
    /\ MaxCleanups \in Nat
    /\ MaxStale \in Nat

JobNames == 1..MaxJobs
NoJob    == 0

VARIABLES
    obj,         \* the KeptnTask in the API server
    cache,       \* the informer's copy of it
    queued,      \* its key is in the work queue, or a retry is scheduled
    pc,          \* what the running reconciliation does next, or "idle"
    local,       \* its in-memory copy
    fresh,       \* ... which has the resourceVersion of obj
    again,       \* it will ask to be called again
    definition,  \* the KeptnTaskDefinition: missing, empty or runnable
    jobs,        \* the jobs, with the result each one reported
    faults, crashes, cleanups, stale

vars == <<obj, cache, queued, pc, local, fresh, again, definition, jobs, faults,
          crashes, cleanups, stale>>

NewTask == [jobName |-> NoJob, status |-> StatePending, endTime |-> FALSE]

Tasks == [jobName : 0..MaxJobs,
          status  : {StatePending, StateProgressing, StateSucceeded, StateFailed},
          endTime : BOOLEAN]

\* A job is there, was there, or has been created and is not yet in the
\* informer's cache ("new").
JobObject == [there : {"no", "new", "yes", "gone"},
              result : {"running", "complete", "failed"}]

-----------------------------------------------------------------------------
\* The deferred Status().Update; whether it worked makes no difference to
\* the reconciliation.
UpdateStatus(new) ==
    \/ /\ fresh
       /\ obj' = new
       /\ UNCHANGED faults
    \/ /\ ~fresh
       /\ UNCHANGED <<obj, faults>>
    \/ /\ fresh
       /\ faults < MaxFaults
       /\ faults' = faults + 1
       /\ obj' \in {obj, new}

\* Status updates do not trigger the controller (GenerationChangedPredicate),
\* and neither do the jobs, which it does not watch.
Sync ==
    /\ cache # obj
    /\ cache' = obj
    /\ UNCHANGED <<obj, queued, pc, local, fresh, again, definition, jobs, faults,
                   crashes, cleanups, stale>>

\* A read that is up to date costs nothing, an older one is counted.
Read(upToDate) ==
    \/ upToDate /\ UNCHANGED stale
    \/ ~upToDate /\ stale < MaxStale /\ stale' = stale + 1

\* Reconcile: the task is read from the cache.
StartReconcile ==
    /\ pc = "idle"
    /\ queued
    /\ Read(cache = obj)
    /\ queued' = FALSE
    /\ pc' = "job"
    /\ local' = cache
    /\ fresh' = (cache = obj)
    /\ UNCHANGED <<obj, cache, again, definition, jobs, faults, crashes, cleanups>>

\* The task cannot be read: tried again in 30 seconds.
GetFails ==
    /\ pc = "idle"
    /\ queued
    /\ faults < MaxFaults
    /\ faults' = faults + 1
    /\ UNCHANGED <<obj, cache, queued, pc, local, fresh, again, definition, jobs,
                   crashes, cleanups, stale>>

\* The job cannot be read: tried again in 30 seconds.
GetJobFails ==
    /\ pc = "job"
    /\ faults < MaxFaults
    /\ faults' = faults + 1
    /\ pc' = "write"
    /\ again' = TRUE
    /\ UNCHANGED <<obj, cache, queued, local, fresh, definition, jobs, crashes, cleanups, stale>>

\* getJob: a job that was just created may not be in the cache yet.
JobFound(name) == name # NoJob /\ jobs[name].there \in {"new", "yes"}

\* Mutant: only active jobs are looked for.
ActiveJobNotFound(name) ==
    /\ name # NoJob => jobs[name].there = "gone" \/ jobs[name].result # "running"
    /\ UNCHANGED stale

JobNotFound(name) ==
    \/ /\ name # NoJob => jobs[name].there = "gone"
       /\ UNCHANGED stale
    \/ /\ name # NoJob
       /\ jobs[name].there = "new"
       /\ Read(FALSE)

\* Mutant: a job that is not running any more is taken for a success.
EndedIsSucceeded(task, job) ==
    IF job.result # "running" THEN [task EXCEPT !.status = StateSucceeded] ELSE task

\* updateTaskStatus: the conditions of the job decide.
UpdateTaskStatus(task, job) ==
    CASE job.result = "complete" -> [task EXCEPT !.status = StateSucceeded]
      [] job.result = "failed"   -> [task EXCEPT !.status = StateFailed]
      [] OTHER                   -> task

\* Mutant: a running task is looked at once.
ReconcileJobOnce ==
    /\ pc = "job"
    /\ JobFound(local.jobName)
    /\ pc' = "write"
    /\ again' = FALSE
    /\ local' = UpdateTaskStatus(local, jobs[local.jobName])
    /\ UNCHANGED <<obj, cache, queued, fresh, definition, jobs, faults, crashes, cleanups, stale>>

\* The job exists.  The result is taken over by one reconciliation and the
\* end time is set by the next one.
ReconcileJob ==
    /\ pc = "job"
    /\ JobFound(local.jobName)
    /\ pc' = "write"
    /\ again' = ~IsCompleted(local.status)
    /\ local' = IF IsCompleted(local.status)
                THEN [local EXCEPT !.endTime = TRUE]
                ELSE UpdateTaskStatus(local, jobs[local.jobName])
    /\ UNCHANGED <<obj, cache, queued, fresh, definition, jobs, faults, crashes, cleanups, stale>>

Started(task, name) == [task EXCEPT !.jobName = name, !.status = StateProgressing]

\* createJob: a fresh name for the job of a runnable definition; an error
\* leaves the task as it was, and the job may have been created all the same.
CreateFunctionJob ==
    \E n \in JobNames :
        /\ jobs[n].there = "no"
        /\ \A k \in JobNames : k < n => jobs[k].there # "no"
        /\ \/ /\ jobs' = [jobs EXCEPT ![n].there = "new"]
              /\ local' = Started(local, n)
              /\ UNCHANGED faults
           \/ /\ faults < MaxFaults
              /\ faults' = faults + 1
              /\ UNCHANGED local
              /\ \/ jobs' = [jobs EXCEPT ![n].there = "new"]
                 \/ UNCHANGED jobs

\* Mutant: the name of the new job is not kept.
CreateJobUnnamed ==
    /\ pc = "job"
    /\ JobNotFound(local.jobName)
    /\ definition = "runnable"
    /\ pc' = "write"
    /\ again' = TRUE
    /\ \E n \in JobNames :
        /\ jobs[n].there = "no"
        /\ \A k \in JobNames : k < n => jobs[k].there # "no"
        /\ jobs' = [jobs EXCEPT ![n].there = "new"]
    /\ UNCHANGED <<obj, cache, queued, local, fresh, definition, faults, crashes, cleanups>>

\* The job does not exist (any more): create one.  A definition without a
\* runtime or container starts nothing, and the task progresses without a job.
CreateJob ==
    /\ pc = "job"
    /\ JobNotFound(local.jobName)
    /\ pc' = "write"
    /\ again' = TRUE
    /\ \/ /\ definition = "missing"
          /\ UNCHANGED <<local, jobs, faults>>
       \/ /\ definition = "empty"
          /\ local' = Started(local, NoJob)
          /\ UNCHANGED <<jobs, faults>>
       \/ /\ definition = "runnable"
          /\ CreateFunctionJob
       \/ /\ definition = "runnable"
          /\ \A n \in JobNames : jobs[n].there # "no"
          /\ UNCHANGED <<local, jobs, faults>>
    /\ UNCHANGED <<obj, cache, queued, fresh, definition, crashes, cleanups>>

\* The deferred write, and the end of the reconciliation.
FinishReconcile ==
    /\ pc = "write"
    /\ UpdateStatus(local)
    /\ pc' = "idle"
    /\ queued' = (queued \/ again)
    /\ again' = FALSE
    /\ local' = NewTask
    /\ fresh' = FALSE
    /\ UNCHANGED <<cache, definition, jobs, crashes, cleanups, stale>>

\* A restarted operator lists all objects anew and queues them.
Crash ==
    /\ crashes < MaxCrashes
    /\ crashes' = crashes + 1
    /\ pc' = "idle"
    /\ queued' = TRUE
    /\ again' = FALSE
    /\ local' = NewTask
    /\ fresh' = FALSE
    /\ cache' = obj
    /\ UNCHANGED <<obj, definition, jobs, faults, cleanups, stale>>

-----------------------------------------------------------------------------
(***************************************************************************)
(* The environment.                                                        *)
(***************************************************************************)
\* A job appears in the cache, and ends (it has a deadline).
JobProgresses(n) ==
    /\ \/ /\ jobs[n].there = "new"
          /\ jobs' = [jobs EXCEPT ![n].there = "yes"]
       \/ /\ jobs[n].there = "yes"
          /\ jobs[n].result = "running"
          /\ \E r \in {"complete", "failed"} : jobs' = [jobs EXCEPT ![n].result = r]
    /\ UNCHANGED <<obj, cache, queued, pc, local, fresh, again, definition, faults,
                   crashes, cleanups, stale>>

\* Removed by the TTL controller when it has ended, or by somebody.
JobRemoved(n) ==
    /\ cleanups < MaxCleanups
    /\ jobs[n].there = "yes"
    /\ cleanups' = cleanups + 1
    /\ jobs' = [jobs EXCEPT ![n].there = "gone"]
    /\ UNCHANGED <<obj, cache, queued, pc, local, fresh, again, definition, faults, crashes,
                   stale>>

Define ==
    /\ definition # "runnable"
    /\ definition' = "runnable"
    /\ UNCHANGED <<obj, cache, queued, pc, local, fresh, again, jobs, faults, crashes,
                   cleanups, stale>>

-----------------------------------------------------------------------------
Init ==
    /\ obj = NewTask
    /\ cache = NewTask
    /\ queued = TRUE
    /\ pc = "idle"
    /\ local = NewTask
    /\ fresh = FALSE
    /\ again = FALSE
    /\ definition \in {"missing", "empty", "runnable"}
    /\ jobs = [n \in JobNames |-> [there |-> "no", result |-> "running"]]
    /\ faults = 0
    /\ crashes = 0
    /\ cleanups = 0
    /\ stale = 0

Controller ==
    \/ StartReconcile
    \/ ReconcileJob
    \/ CreateJob
    \/ FinishReconcile

Next ==
    \/ Controller
    \/ Sync
    \/ GetFails
    \/ GetJobFails
    \/ Crash
    \/ \E n \in JobNames : JobProgresses(n) \/ JobRemoved(n)
    \/ Define

Spec == Init /\ [][Next]_vars

\* The work queue serves every queued key, the informer delivers every event
\* and a job ends.
FairSpec ==
    /\ Spec
    /\ WF_vars(Controller)
    /\ WF_vars(Sync)
    /\ \A n \in JobNames : WF_vars(JobProgresses(n))
-----------------------------------------------------------------------------
Created == {n \in JobNames : jobs[n].there # "no"}

\* The type invariant.
TypeOK ==
    /\ obj \in Tasks
    /\ cache \in Tasks
    /\ local \in Tasks
    /\ queued \in BOOLEAN
    /\ pc \in {"idle", "job", "write"}
    /\ fresh \in BOOLEAN
    /\ again \in BOOLEAN
    /\ definition \in {"missing", "empty", "runnable"}
    /\ jobs \in [JobNames -> JobObject]
    /\ faults \in 0..MaxFaults
    /\ crashes \in 0..MaxCrashes
    /\ cleanups \in 0..MaxCleanups
    /\ stale \in 0..MaxStale

\* The result of a task is the result of the very job its status names, also
\* after lost writes left other jobs of the task behind.
ResultIsReal ==
    IsCompleted(obj.status) =>
        /\ obj.jobName \in Created
        /\ obj.status = StateSucceeded <=> jobs[obj.jobName].result = "complete"
        /\ obj.status = StateFailed <=> jobs[obj.jobName].result = "failed"

\* A task runs a second time only because a call failed, the operator was
\* restarted, a job was removed or a read was stale; none of these costs more
\* than one job.
JobsAccountedFor ==
    Cardinality(Created) <= 1 + faults + crashes + cleanups + stale

\* As long as its job exists the result of a task stays, whichever stale copy
\* is written back.
ResultKept ==
    [][IsCompleted(obj.status) /\ jobs[obj.jobName].there = "yes" =>
        obj'.status = obj.status /\ obj'.jobName = obj.jobName]_vars

\* A task whose definition can be run gets a result, although the writes of
\* its status may be lost and its jobs may be removed a few times.
Completes == definition = "runnable" ~> IsCompleted(obj.status)
=============================================================================
