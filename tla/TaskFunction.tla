---------------------------- MODULE TaskFunction ----------------------------
(***************************************************************************)
(* A KeptnTask together with the KeptnTaskDefinition it runs, and the      *)
(* controller of task definitions (controllers/lifecycle/                  *)
(* keptntaskdefinition).  The code of a definition reaches a job through a *)
(* config map: the controller writes inline code to a map of its own and   *)
(* the name of the map to the status of the definition, the job mounts the *)
(* map that the status names, and its pod reads it when it starts.         *)
(*                                                                         *)
(* The definition that holds the function is the one that the task names,  *)
(* or the parent which that one refers to ("child").  Runtimes differ in   *)
(* their image and mount path only and are left out.                       *)
(***************************************************************************)
EXTENDS KeptnTask

CONSTANTS
    MaxEdits,        \* bound: edits of the function
    MaxDisturbances  \* bound: faults, crashes, removed jobs and stale reads together

ASSUME FunctionAssumption == MaxEdits \in Nat /\ MaxDisturbances \in Nat

VARIABLES
    fn,        \* the function in the spec of the definition
    fstatus,   \* the config map that the status of the definition names
    maps,      \* the code in the config maps: the generated one and the user's
    fqueued,   \* the key of the definition is in the work queue
    fpc,       \* what the running reconciliation of it does next, or "idle"
    flocal,    \* the definition as that reconciliation read it
    flost,     \* a call of the last reconciliation failed, which was only logged
    script,    \* what each job runs: a config map, a URL or a container
    sought,    \* the code that its definition had settled on when a job was created
    ran,       \* the code that the pod of a job has started with
    edits

fvars == <<fn, fstatus, maps, fqueued, fpc, flocal, flost, script, sought, ran, edits>>
allVars == <<vars, fvars>>

NoDefinition == [spec |-> [kind |-> "empty", code |-> 0], status |-> "none", found |-> FALSE]

\* Codes: 0 is none, 1..MaxEdits + 1 the inline ones, then the user's map and what is
\* behind a URL or in an image.
InlineCodes == 1..(MaxEdits + 1)
UserCode    == MaxEdits + 2
RemoteCode  == MaxEdits + 3
Codes       == 0..RemoteCode

NoMap == "none"
Kinds == {"inline", "child", "userMap", "http", "container", "empty"}

\* Whether the code is part of the spec, the task's own definition's or its parent's.
IsInline(f) == f.kind \in {"inline", "child"}

\* The code that the definition asks for.
Wanted(f) ==
    CASE IsInline(f) -> f.code [] f.kind = "userMap" -> UserCode [] OTHER -> RemoteCode

\* generateJob, parseRuntimeTaskDefinition and handleParent: a config map wins over a
\* URL; without either there is no job.
Script(f, status) ==
    IF f.kind = "container" THEN "container"
    ELSE IF status # NoMap THEN status
    ELSE IF f.kind = "http" THEN "url" ELSE NoMap

\* What createJob finds.
Runnability(f, status) ==
    IF f.kind = "empty" THEN "empty"
    ELSE IF Script(f, status) = NoMap THEN "missing" ELSE "runnable"

FunctionTypeOK ==
    /\ fn \in [kind : Kinds, code : {0} \cup InlineCodes]
    /\ fstatus \in {NoMap, "generated", "user"}
    /\ maps \in [{"generated", "user"} -> Codes]
    /\ fpc \in {"idle", "status"}
    /\ script \in [JobNames -> {NoMap, "generated", "user", "url", "container"}]
    /\ sought \in [JobNames -> Codes]
    /\ ran \in [JobNames -> Codes]
    /\ edits \in 0..MaxEdits

-----------------------------------------------------------------------------
(***************************************************************************)
(* The controller of task definitions.  No error makes it try again.       *)
(***************************************************************************)

\* The API server refuses a call, or its answer is lost.
FunctionCallFails ==
    /\ faults < MaxFaults
    /\ faults' = faults + 1
    /\ flost' = TRUE

\* getConfigMap fails, not because there is no map: the reconciliation ends.
GetConfigMapFails ==
    /\ fpc = "idle"
    /\ fqueued
    /\ fqueued' = FALSE
    /\ FunctionCallFails
    /\ UNCHANGED <<fn, fstatus, fpc, flocal, maps, script, sought, ran, edits>>
    /\ UNCHANGED <<obj, cache, queued, pc, local, fresh, again, definition, jobs, crashes,
                   cleanups, stale>>

\* Mutant: a config map that exists is taken to be up to date.
ReconcileMapOnce ==
    /\ fpc = "idle"
    /\ fqueued
    /\ fqueued' = FALSE
    /\ fpc' = "status"
    /\ flocal' = [spec |-> fn, status |-> fstatus, found |-> IsInline(fn) \/ maps["user"] # 0]
    /\ maps' = IF IsInline(fn) /\ maps["generated"] = 0
               THEN [maps EXCEPT !["generated"] = fn.code] ELSE maps
    /\ flost' = FALSE
    /\ UNCHANGED <<fn, fstatus, script, sought, ran, edits>>
    /\ UNCHANGED vars

\* Reconcile and reconcileConfigMap: inline code is written to the generated map,
\* created or updated without a condition; the user's map is only looked for.
ReconcileMap ==
    /\ fpc = "idle"
    /\ fqueued
    /\ fqueued' = FALSE
    /\ fpc' = "status"
    /\ flocal' = [spec |-> fn, status |-> fstatus, found |-> IsInline(fn) \/ maps["user"] # 0]
    /\ LET written == IF IsInline(fn) THEN [maps EXCEPT !["generated"] = fn.code] ELSE maps
       IN  \/ maps' = written /\ flost' = FALSE /\ UNCHANGED faults
           \/ maps' \in {maps, written} /\ FunctionCallFails
    /\ UNCHANGED <<fn, fstatus, script, sought, ran, edits>>
    /\ UNCHANGED <<obj, cache, queued, pc, local, fresh, again, definition, jobs, crashes,
                   cleanups, stale>>

\* updateTaskDefinitionStatus: the name of the map, if there is one; a name that is
\* there already stays when there is none.
UpdateDefinitionStatus(f, status, found) ==
    CASE IsInline(f)                   -> "generated"
      [] f.kind = "userMap" /\ found   -> "user"
      [] OTHER                         -> status

\* Status().Update: it fails if the definition has been edited since it was read.
ReconcileStatus ==
    LET new == UpdateDefinitionStatus(flocal.spec, flocal.status, flocal.found)
    IN  /\ fpc = "status"
        /\ fpc' = "idle"
        /\ flocal' = NoDefinition
        /\ \/ /\ fn = flocal.spec
              /\ fstatus' = new
              /\ UNCHANGED <<faults, flost>>
           \/ /\ fn # flocal.spec
              /\ UNCHANGED <<fstatus, faults, flost>>
           \/ /\ fn = flocal.spec
              /\ fstatus' \in {fstatus, new}
              /\ FunctionCallFails
        /\ fqueued' = (fqueued \/ fstatus' # fstatus)
        /\ definition' = Runnability(fn, fstatus')
        /\ UNCHANGED <<fn, maps, script, sought, ran, edits>>
        /\ UNCHANGED <<obj, cache, queued, pc, local, fresh, again, jobs, crashes, cleanups, stale>>

-----------------------------------------------------------------------------
(***************************************************************************)
(* The controller of the task, its jobs and their pods.                    *)
(***************************************************************************)

\* The exception: a definition whose code was replaced by a URL, or by a config map that
\* was created too late, keeps the name of the old map in its status, and that one is used.
Leftover ==
    \/ fn.kind = "http" /\ fstatus # NoMap
    \/ fn.kind = "userMap" /\ fstatus # "user"

\* The controller of task definitions has nothing left to do.
Settled == fpc = "idle" /\ ~fqueued /\ ~flost

\* A job keeps what it was created with.
JobsKeepScript ==
    LET created == {n \in JobNames : jobs[n].there = "no" /\ jobs'[n].there = "new"}
        settled == IF Settled /\ ~Leftover THEN Wanted(fn) ELSE 0
    IN  /\ script' = [n \in JobNames |-> IF n \in created THEN Script(fn, fstatus) ELSE script[n]]
        /\ sought' = [n \in JobNames |-> IF n \in created THEN settled ELSE sought[n]]
        /\ UNCHANGED <<fn, fstatus, maps, fqueued, fpc, flocal, flost, ran, edits>>

TaskController == Controller /\ JobsKeepScript

\* A restart queues the definitions as well.
Restart ==
    /\ Crash
    /\ fqueued' = TRUE
    /\ fpc' = "idle"
    /\ flocal' = NoDefinition
    /\ UNCHANGED <<fn, fstatus, maps, flost, script, sought, ran, edits>>

\* The code that a pod started now finds; it waits for a config map that is not there.
CodeOf(s) ==
    CASE s \in {"generated", "user"} -> maps[s] [] s \in {"url", "container"} -> RemoteCode

\* The pod of a job starts.
PodStarts(n) ==
    /\ jobs[n].there \in {"new", "yes"}
    /\ ran[n] = 0
    /\ CodeOf(script[n]) # 0
    /\ ran' = [ran EXCEPT ![n] = CodeOf(script[n])]
    /\ UNCHANGED <<fn, fstatus, maps, fqueued, fpc, flocal, flost, script, sought, edits>>
    /\ UNCHANGED vars

\* A job that never starts fails by its deadline.
JobRuns(n) ==
    /\ JobProgresses(n)
    /\ jobs'[n].result = "complete" => ran[n] # 0
    /\ UNCHANGED fvars

TaskDisturbed ==
    /\ \/ GetFails \/ GetJobFails
       \/ \E n \in JobNames : JobRemoved(n)
    /\ UNCHANGED fvars

SyncTask == Sync /\ UNCHANGED fvars

\* The user edits the code, or replaces it by a config map or a URL.
EditFunction ==
    /\ edits < MaxEdits
    /\ edits' = edits + 1
    /\ fn.kind \in {"inline", "child", "userMap"}
    /\ fstatus # NoMap
    /\ \/ IsInline(fn) /\ fn' = [fn EXCEPT !.code = @ + 1]
       \/ fn' \in [kind : {"userMap", "http"} \ {fn.kind}, code : {0}]
    /\ fqueued' = TRUE
    /\ UNCHANGED <<fstatus, maps, fpc, flocal, flost, script, sought, ran>>
    /\ UNCHANGED vars

\* The user creates the config map.  Nothing watches it.
CreateUserMap ==
    /\ fn.kind = "userMap"
    /\ maps["user"] = 0
    /\ maps' = [maps EXCEPT !["user"] = UserCode]
    /\ UNCHANGED <<fn, fstatus, fqueued, fpc, flocal, flost, script, sought, ran, edits>>
    /\ UNCHANGED vars

-----------------------------------------------------------------------------
FunctionInit ==
    /\ Init
    /\ fn \in [kind : {"inline", "child"}, code : {1}]
              \cup [kind : {"userMap", "http", "container", "empty"}, code : {0}]
    /\ fstatus = NoMap
    /\ maps \in {[m \in {"generated", "user"} |-> IF m = "user" THEN c ELSE 0] :
                    c \in IF fn.kind = "userMap" THEN {0, UserCode} ELSE {0}}
    /\ fqueued = TRUE
    /\ fpc = "idle"
    /\ flocal = NoDefinition
    /\ flost = FALSE
    /\ script = [n \in JobNames |-> NoMap]
    /\ sought = [n \in JobNames |-> 0]
    /\ ran = [n \in JobNames |-> 0]
    /\ edits = 0
    /\ definition = Runnability(fn, fstatus)

Disturbances == faults + crashes + cleanups + stale

FunctionNext ==
    /\ \/ TaskController
       \/ SyncTask
       \/ TaskDisturbed
       \/ Restart
       \/ \E n \in JobNames : PodStarts(n) \/ JobRuns(n)
       \/ GetConfigMapFails
       \/ ReconcileMap
       \/ ReconcileStatus
       \/ EditFunction
       \/ CreateUserMap
    /\ Disturbances' <= MaxDisturbances

FunctionSpec == FunctionInit /\ [][FunctionNext]_allVars

\* As for a task alone; the controller of task definitions serves its queue too.
FunctionFairSpec ==
    /\ FunctionSpec
    /\ WF_allVars(TaskController)
    /\ WF_allVars(SyncTask)
    /\ WF_allVars(ReconcileMap \/ ReconcileStatus)
    /\ \A n \in JobNames : WF_allVars(JobRuns(n))

-----------------------------------------------------------------------------
(***************************************************************************)
(* A job runs the code that its definition, or the parent of that one, had *)
(* when the job was created, or a later edit of it, never an older one:    *)
(* provided the controller of task definitions had nothing left to do and  *)
(* none of its writes had been lost, and unless the code was replaced by   *)
(* something the status cannot name (Leftover).                            *)
(***************************************************************************)
RunsDefinedCode ==
    \A n \in JobNames : ran[n] # 0 /\ sought[n] # 0 => ran[n] >= sought[n]
=============================================================================
