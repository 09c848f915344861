----------------------------- MODULE AppCreation -----------------------------
(***************************************************************************)
(* How a pod's workload gets into its app: the mutating webhook that       *)
(* writes the KeptnWorkload and asks for the app when a pod is admitted,   *)
(* the KeptnAppCreationRequest controller that collects the workloads into *)
(* a KeptnApp once the discovery deadline has passed and deletes the       *)
(* request, and the KeptnWorkload controller that creates the workload     *)
(* versions.  All workloads of the model belong to one app.                *)
(*                                                                         *)
(* Admissions run concurrently with each other and with the controllers,   *)
(* which reconcile one object at a time.  Every read is served by an       *)
(* informer cache that may lag behind the API server.  A step is a write   *)
(* to the API server with the reads before it: what others do between a    *)
(* read and the write is the same as a cache that has not seen it yet.     *)
(***************************************************************************)
EXTENDS Integers, FiniteSets

CONSTANTS
    Pods,          \* the pods that are admitted
    PodSpec,       \* their annotations, and the resources that may own them
    Workloads,     \* the names of the workloads
    Versions,      \* the versions of the workloads
    None,          \* no version, no owner, no workload
    Owners,        \* the resources that own the pods
    MaxRequests,   \* bound: requests ever created
    MaxFaults,     \* bound: failed API calls and restarts of the operator
    UserActs,      \* TRUE: a user may create or take over the app
    Versioned      \* bound: the workloads whose versions are followed; the
                   \* versions have no effect on the rest

RequestIds == 1..MaxRequests

ASSUME PodAssumption ==
    /\ None \notin Versions \cup Owners \cup Workloads
    /\ PodSpec \in [Pods -> [workload : Workloads, version : Versions, owners : SUBSET Owners,
                             hasApp : BOOLEAN, byParent : BOOLEAN]]

ASSUME CreationBoundAssumption ==
    /\ MaxRequests \in Nat \ {0}
    /\ MaxFaults \in Nat
    /\ UserActs \in BOOLEAN
    /\ Versioned \subseteq Workloads

VARIABLES
    hook,       \* what the admission of each pod does next
    workload,   \* the KeptnWorkloads
    wlCache,    \* the informer's copies of them
    req,        \* the KeptnAppCreationRequest of the app: its id, 0 if none
    reqCache,   \* the informer's copy
    requests,   \* every request ever: is it for a single service, is it due
    lastReq,    \* the id of the latest request
    app,        \* the KeptnApp
    appCache,   \* the informer's copy
    listed,     \* a reconciliation has listed the workloads and will delete
                \* the request
    reqQueued,  \* the request's key is in the work queue
    timer,      \* ... or will be when the discovery deadline passes
    kwQueued,   \* the workloads in the work queue
    wv,         \* the owner recorded in each KeptnWorkloadVersion, if it exists
    wvCache,    \* the informer's copies of them
    raced,      \* history: workloads whose pod used a request too late for it
    misled,     \* history: workloads that were compared with an old copy of
                \* their version, and found to be in order
    faults      \* how much of the bound is used

requestVars == <<listed, reqQueued, timer>>
reqVars     == <<req, requests, lastReq>>
caches      == <<wlCache, reqCache, appCache>>
versions    == <<wv, wvCache, misled>>
vars == <<hook, requestVars, kwQueued, workload, reqVars, app, versions, caches, raced, faults>>

-----------------------------------------------------------------------------
NoWorkload == [version |-> None, owner |-> None]

KeptnWorkloads ==
    [version : Versions, owner : Owners] \cup {NoWorkload}

\* spec.workloads of an app: the version of each workload it lists.
WorkloadRefs == [Workloads -> Versions \cup {None}]

NoRefs == [w \in Workloads |-> None]

NoApp == [there |-> FALSE, managed |-> FALSE, workloads |-> NoRefs]

KeptnApps == [there : BOOLEAN, managed : BOOLEAN, workloads : WorkloadRefs]

Fault == faults < MaxFaults /\ faults' = faults + 1

\* A call is carried out, is refused, or fails with or without an effect.
Call(accepted, effect, noEffect, onSuccess, onError) ==
    \/ accepted /\ effect /\ onSuccess /\ UNCHANGED faults
    \/ ~accepted /\ noEffect /\ onError /\ UNCHANGED faults
    \/ accepted /\ Fault /\ (effect \/ noEffect) /\ onError

-----------------------------------------------------------------------------
(***************************************************************************)
(* The mutating webhook.  An admission that ends in an error rejects the   *)
(* pod, and its owner creates it again.                                    *)
(***************************************************************************)
Stage(p, stage) == hook' = [hook EXCEPT ![p] = stage]

\* generateWorkload: the workload a pod's annotations and its owner describe.
GenerateWorkload(p, o) == [version |-> PodSpec[p].version, owner |-> o]

\* WorkloadHandler.Handle for a pod that is annotated, or whose parent is.  A
\* workload is created or, when it differs from the annotations, updated: that
\* is refused if it exists by now, or was changed since it was read.
HandleWorkload(p, o) ==
    LET w   == PodSpec[p].workload
        new == GenerateWorkload(p, o)
    IN  /\ hook[p] = "absent"
        /\ o \in PodSpec[p].owners
        /\ IF new = wlCache[w]
           THEN Stage(p, "request") /\ UNCHANGED <<workload, faults>>
           ELSE Call(wlCache[w] = workload[w],
                     workload' = [workload EXCEPT ![w] = new],
                     UNCHANGED workload,
                     Stage(p, "request"),
                     UNCHANGED hook)
        /\ UNCHANGED <<requestVars, kwQueued, reqVars, app, versions, caches, raced>>

\* copyAnnotationsIfParentAnnotated: the annotations are on the pod's parent,
\* which is not found, or not yet.  The pod is let in without Keptn.
ParentNotFound(p) ==
    /\ hook[p] = "absent"
    /\ PodSpec[p].byParent
    /\ Fault
    /\ Stage(p, "unmanaged")
    /\ UNCHANGED <<requestVars, kwQueued, workload, reqVars, app, versions, caches, raced>>

\* The pod relies on a request.  It is too late if the workloads have been
\* listed already, or if the request is only left in the cache.
RelyOn(p, id) ==
    raced' = IF listed \/ req # id THEN raced \cup {PodSpec[p].workload} ELSE raced

\* AppCreationRequestHandler.Handle: a request that is found will do.
FindRequest(p) ==
    /\ hook[p] = "request"
    /\ reqCache # 0
    /\ Stage(p, "admitted")
    /\ RelyOn(p, reqCache)
    /\ UNCHANGED <<requestVars, kwQueued, workload, reqVars, app, versions, caches, faults>>

\* Mutant: the pod does not ask for an app that exists.
CreateRequestUnlessApp(p) ==
    /\ hook[p] = "request"
    /\ reqCache = 0
    /\ Stage(p, "admitted")
    /\ IF appCache.there \/ req # 0 \/ lastReq = MaxRequests
       THEN UNCHANGED <<reqVars, raced>>
       ELSE /\ req' = lastReq + 1
            /\ lastReq' = lastReq + 1
            /\ requests' = [requests EXCEPT ![lastReq + 1].single = ~PodSpec[p].hasApp]
            /\ raced' = IF listed THEN raced \cup {PodSpec[p].workload} ELSE raced
    /\ UNCHANGED <<requestVars, kwQueued, workload, app, versions, caches, faults>>

\* createResource, generateResource: a pod that names no app is an app of its
\* own, of a single service.  The call is refused if there is a request.
CreateRequest(p) ==
    LET id == lastReq + 1
    IN  /\ hook[p] = "request"
        /\ reqCache = 0
        /\ req = 0 => id \in RequestIds
        /\ Call(req = 0,
                /\ req' = id
                /\ lastReq' = id
                /\ requests' = [requests EXCEPT ![id].single = ~PodSpec[p].hasApp]
                /\ raced' = IF listed THEN raced \cup {PodSpec[p].workload} ELSE raced,
                UNCHANGED <<reqVars, raced>>,
                Stage(p, "admitted"),
                Stage(p, "absent"))
        /\ UNCHANGED <<requestVars, kwQueued, workload, app, versions, caches>>

-----------------------------------------------------------------------------
(***************************************************************************)
(* The KeptnAppCreationRequest controller.                                 *)
(***************************************************************************)
\* appIsManagedByKeptn
IsUsers(a) == a.there /\ ~a.managed

\* Mutant: before the deadline instead of after it.
ShouldCreateAppEarly(id) == requests[id].single \/ ~requests[id].due

\* shouldCreateApp
ShouldCreateApp(id) == requests[id].single \/ requests[id].due

Serve ==
    /\ reqQueued
    /\ ~listed
    /\ reqQueued' = FALSE

\* A request that is not found is done.
RequestNotFound ==
    /\ Serve
    /\ reqCache = 0
    /\ UNCHANGED <<hook, listed, timer, kwQueued, workload, reqVars, app, versions, caches, raced, faults>>

\* The user has an app of this name: the request is deleted, and that is all.
UserAppFound ==
    /\ Serve
    /\ reqCache # 0
    /\ IsUsers(appCache)
    /\ listed' = TRUE
    /\ UNCHANGED <<hook, timer, kwQueued, workload, reqVars, app, versions, caches, raced, faults>>

\* The deadline has not passed, and the request is requeued for then.  The
\* clock is read twice: when the deadline falls between the two readings the
\* request is requeued after a duration of zero, which means not at all.
AwaitDeadline ==
    /\ Serve
    /\ reqCache # 0
    /\ ~IsUsers(appCache)
    /\ ~ShouldCreateApp(reqCache)
    /\ \/ timer' = TRUE /\ UNCHANGED <<requests, faults>>
       \/ /\ Fault
          /\ requests' = [requests EXCEPT ![reqCache].due = TRUE]
          /\ UNCHANGED timer
    /\ UNCHANGED <<hook, listed, kwQueued, workload, req, lastReq, app, versions, caches, raced>>

\* getWorkloads, addOrUpdateWorkloads, cleanupWorkloads: the app lists exactly
\* the workloads found, with their versions.
Listing == [w \in Workloads |-> wlCache[w].version]

\* updateKeptnApp: an app without workloads that stays without is not written.
NothingToWrite == appCache.there /\ appCache.workloads = NoRefs /\ Listing = NoRefs

\* Workloads the app will not list as they are: the listing did not see them,
\* or not their latest version.
Unlisted == {w \in Workloads : Listing[w] # workload[w].version}

\* Mutant: whatever app there is is written.
CreateAppAnyway ==
    /\ Serve
    /\ reqCache # 0
    /\ ~IsUsers(appCache)
    /\ ShouldCreateApp(reqCache)
    /\ app' = [there |-> TRUE, managed |-> TRUE, workloads |-> Listing]
    /\ listed' = TRUE
    /\ raced' = Unlisted
    /\ UNCHANGED <<hook, timer, kwQueued, workload, reqVars, versions, caches, faults>>

\* createKeptnApp, updateKeptnApp: refused if an app was created, or changed,
\* since it was looked up.  Then, or when the call fails, the request stays.
CreateOrUpdateApp ==
    /\ ~listed
    /\ reqQueued
    /\ reqCache # 0
    /\ ~IsUsers(appCache)
    /\ ShouldCreateApp(reqCache)
    /\ IF NothingToWrite
       THEN /\ listed' = TRUE
            /\ reqQueued' = FALSE
            /\ raced' = raced \cup Unlisted
            /\ UNCHANGED <<app, faults>>
       ELSE Call(appCache = app,
                 /\ app' = [there |-> TRUE, managed |-> TRUE, workloads |-> Listing]
                 /\ raced' = Unlisted,
                 UNCHANGED <<app, raced>>,
                 listed' = TRUE /\ reqQueued' = FALSE,
                 UNCHANGED <<listed, reqQueued>>)
    /\ UNCHANGED <<hook, timer, kwQueued, workload, reqVars, versions, caches>>

\* The request is deleted by name, whichever one that is by now; an error is
\* only logged.
DeleteRequest ==
    /\ listed
    /\ listed' = FALSE
    /\ \/ req' = 0 /\ UNCHANGED faults
       \/ Fault /\ UNCHANGED req
    /\ UNCHANGED <<hook, reqQueued, timer, kwQueued, workload, requests, lastReq, app, versions, caches,
                   raced>>

RequestController ==
    \/ RequestNotFound
    \/ UserAppFound
    \/ AwaitDeadline
    \/ CreateOrUpdateApp
    \/ DeleteRequest

-----------------------------------------------------------------------------
(***************************************************************************)
(* The KeptnWorkload controller.  A call that is refused or fails is       *)
(* repeated: it leaves the workload in the queue.  Nothing queues it when  *)
(* its workload version changes.                                           *)
(***************************************************************************)
VersionOf(w) == wvCache[w][wlCache[w].version]

\* The copy is the one the API server has; only then is a write accepted.
IsLatestCopy(w) == VersionOf(w) = wv[w][wlCache[w].version]

WithVersion(w) == [wv EXCEPT ![w][wlCache[w].version] = wlCache[w].owner]

WriteVersion(w) ==
    /\ IsLatestCopy(w)
    /\ wv' = WithVersion(w)
    /\ misled' = misled \ {w}

\* There is no workload, or its workload version looks as it should.
WorkloadUnchanged(w) ==
    /\ w \in kwQueued
    /\ wlCache[w] # NoWorkload => VersionOf(w) = wlCache[w].owner
    /\ kwQueued' = kwQueued \ {w}
    /\ misled' = IF wlCache[w] = NoWorkload \/ IsLatestCopy(w) THEN misled \ {w}
                                                            ELSE misled \cup {w}
    /\ UNCHANGED <<hook, requestVars, workload, reqVars, app, wv, wvCache, caches, raced, faults>>

\* Mutant: an existing workload version is never updated.
IgnoreChangedSpec(w) ==
    /\ w \in kwQueued
    /\ wlCache[w] # NoWorkload
    /\ VersionOf(w) \notin {None, wlCache[w].owner}
    /\ kwQueued' = kwQueued \ {w}
    /\ UNCHANGED <<hook, requestVars, workload, reqVars, app, versions, caches, raced, faults>>

\* The spec has changed and the version has not.
UpdateWorkloadVersion(w) ==
    /\ w \in kwQueued
    /\ wlCache[w] # NoWorkload
    /\ VersionOf(w) \notin {None, wlCache[w].owner}
    /\ WriteVersion(w)
    /\ kwQueued' = kwQueued \ {w}
    /\ UNCHANGED <<hook, requestVars, workload, reqVars, app, wvCache, caches, raced, faults>>

\* (The name of the current version, which is written next, is left out.)
CreateWorkloadVersion(w) ==
    /\ w \in kwQueued
    /\ wlCache[w] # NoWorkload
    /\ VersionOf(w) = None
    /\ WriteVersion(w)
    /\ kwQueued' = kwQueued \ {w}
    /\ UNCHANGED <<hook, requestVars, workload, reqVars, app, wvCache, caches, raced, faults>>

WorkloadController(w) ==
    WorkloadUnchanged(w) \/ UpdateWorkloadVersion(w) \/ CreateWorkloadVersion(w)

-----------------------------------------------------------------------------
(***************************************************************************)
(* The informers, time, restarts and users.                                *)
(***************************************************************************)
SyncWorkload(w) ==
    /\ wlCache[w] # workload[w]
    /\ wlCache' = [wlCache EXCEPT ![w] = workload[w]]
    /\ kwQueued' = kwQueued \cup ({w} \cap Versioned)
    /\ UNCHANGED <<hook, requestVars, workload, reqVars, app, versions, reqCache,
                   appCache, raced, faults>>

SyncVersion(w) ==
    /\ wvCache[w] # wv[w]
    /\ wvCache' = [wvCache EXCEPT ![w] = wv[w]]
    /\ UNCHANGED <<hook, requestVars, kwQueued, workload, reqVars, app, wv, misled, caches, raced,
                   faults>>

SyncRequest ==
    /\ reqCache # req
    /\ reqCache' = req
    /\ reqQueued' = TRUE
    /\ UNCHANGED <<hook, listed, timer, kwQueued, workload, reqVars, app, versions, wlCache, appCache,
                   raced, faults>>

SyncApp ==
    /\ appCache # app
    /\ appCache' = app
    /\ UNCHANGED <<hook, requestVars, kwQueued, workload, reqVars, app, versions, wlCache, reqCache,
                   raced, faults>>

\* The discovery deadline of a request passes, and the time set for a requeue.
DeadlinePasses ==
    /\ \E id \in {req, reqCache} \ {0} :
        /\ ~requests[id].due
        /\ requests' = [requests EXCEPT ![id].due = TRUE]
    /\ reqQueued' = (reqQueued \/ timer)
    /\ timer' = FALSE
    /\ UNCHANGED <<hook, listed, kwQueued, workload, req, lastReq, app, versions, caches, raced, faults>>

\* The informers deliver every object anew from time to time.
Resync ==
    /\ reqCache # 0
    /\ ~reqQueued
    /\ reqQueued' = TRUE
    /\ UNCHANGED <<hook, listed, timer, kwQueued, workload, reqVars, app, versions, caches, raced, faults>>

\* A restarted operator lists all objects anew; running admissions fail.
Crash ==
    /\ Fault
    /\ hook' = [p \in Pods |-> IF hook[p] = "request" THEN "absent" ELSE hook[p]]
    /\ listed' = FALSE
    /\ reqQueued' = TRUE
    /\ timer' = FALSE
    /\ kwQueued' = Versioned
    /\ wlCache' = workload
    /\ reqCache' = req
    /\ appCache' = app
    /\ wvCache' = wv
    /\ UNCHANGED <<workload, reqVars, app, wv, raced, misled>>

\* A user writes the app, or makes an app of the controller their own.
UserWritesApp ==
    /\ UserActs
    /\ Fault
    /\ ~IsUsers(app)
    /\ app' = [app EXCEPT !.there = TRUE, !.managed = FALSE]
    /\ UNCHANGED <<hook, requestVars, kwQueued, workload, reqVars, versions, caches, raced>>

-----------------------------------------------------------------------------
Init ==
    /\ hook = [p \in Pods |-> "absent"]
    /\ workload = [w \in Workloads |-> NoWorkload]
    /\ wlCache = workload
    /\ req = 0
    /\ reqCache = 0
    /\ requests = [id \in RequestIds |-> [single |-> FALSE, due |-> FALSE]]
    /\ lastReq = 0
    /\ app = NoApp
    /\ appCache = NoApp
    /\ listed = FALSE
    /\ reqQueued = FALSE
    /\ timer = FALSE
    /\ kwQueued = {}
    /\ wv = [w \in Workloads |-> [v \in Versions |-> None]]
    /\ wvCache = wv
    /\ raced = {}
    /\ misled = {}
    /\ faults = 0

Webhook(p) ==
    \/ \E o \in Owners : HandleWorkload(p, o)
    \/ ParentNotFound(p)
    \/ FindRequest(p)
    \/ CreateRequest(p)

Next ==
    \/ \E p \in Pods : Webhook(p)
    \/ RequestController
    \/ \E w \in Workloads : WorkloadController(w) \/ SyncVersion(w) \/ SyncWorkload(w)
    \/ SyncRequest
    \/ SyncApp
    \/ DeadlinePasses
    \/ Resync
    \/ Crash
    \/ UserWritesApp

Spec == Init /\ [][Next]_vars

(***************************************************************************)
(* Queued keys are served, the informers deliver every change and, every   *)
(* ten hours, every object; time passes.  Nothing is assumed of the pods.  *)
(***************************************************************************)
Fairness ==
    /\ WF_vars(RequestController)
    /\ \A w \in Workloads : WF_vars(SyncWorkload(w))
    /\ WF_vars(SyncRequest)
    /\ WF_vars(SyncApp)
    /\ WF_vars(DeadlinePasses)
    /\ WF_vars(Resync)

FairSpec == Spec /\ Fairness
-----------------------------------------------------------------------------
\* The type invariant.
TypeOK ==
    /\ hook \in [Pods -> {"absent", "request", "admitted", "unmanaged"}]
    /\ workload \in [Workloads -> KeptnWorkloads]
    /\ wlCache \in [Workloads -> KeptnWorkloads]
    /\ {req, reqCache, lastReq} \subseteq 0..MaxRequests
    /\ requests \in [RequestIds -> [single : BOOLEAN, due : BOOLEAN]]
    /\ {app, appCache} \subseteq KeptnApps
    /\ {listed, reqQueued, timer} \subseteq BOOLEAN
    /\ kwQueued \subseteq Versioned
    /\ {wv, wvCache} \subseteq [Workloads -> [Versions -> Owners \cup {None}]]
    /\ raced \subseteq Workloads
    /\ misled \subseteq Versioned
    /\ faults \in 0..MaxFaults

\* The pod has the latest version of the workload.
OfLatest(p, w) == PodSpec[p].workload = w /\ PodSpec[p].version = workload[w].version

\* The pods of the workload's latest version have been admitted.  One that was
\* rejected after it had written the workload will be created again.
Admitted(w) ==
    /\ \E p \in Pods : OfLatest(p, w)
    /\ \A p \in Pods : OfLatest(p, w) => hook[p] = "admitted"

\* No workload is forgotten: once no request is left, the app lists every
\* workload whose pods have been admitted with its latest version, or it is the
\* user's.  The exception is a pod that relied on a request whose workloads had
\* been listed already, or on a stale copy of a deleted one, and a workload the
\* listing did not see (Handle of the webhook against Reconcile).
ListedUnlessRaced ==
    req = 0 /\ ~listed =>
        \A w \in Workloads :
            Admitted(w) =>
                \/ w \in raced
                \/ IsUsers(app)
                \/ app.workloads[w] = workload[w].version

\* When the workload controller has nothing left to do, the workload version
\* of the latest spec exists and has that spec, whatever was written, refused
\* and reconciled in between.  The exception is a workload whose change back
\* was compared with an old copy of its version: the version keeps the spec in
\* between until the workload is reconciled again (Reconcile of the
\* KeptnWorkload).
VersionsFollow ==
    \A w \in Versioned :
        /\ w \notin kwQueued \cup misled
        /\ wlCache[w] = workload[w]
        /\ workload[w] # NoWorkload
        => wv[w][workload[w].version] = workload[w].owner

\* What a user has written is left alone, although the controller decides
\* from a cached copy of the app ("we don't want to mess with what the user
\* has created", Reconcile of the KeptnAppCreationRequest).
UserAppUntouched == [][IsUsers(app) => app' = app]_vars

\* The workloads of all admitted pods get into the app, again and again,
\* through restarts, failed calls, a request that could not be deleted and one
\* that was not requeued.
EventuallyListed ==
    []<>(\A p \in Pods :
            hook[p] = "admitted" =>
                \/ PodSpec[p].workload \in raced
                \/ IsUsers(app)
                \/ app.workloads[PodSpec[p].workload] # None)
=============================================================================
