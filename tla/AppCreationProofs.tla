-------------------------- MODULE AppCreationProofs --------------------------
(***************************************************************************)
(* Proofs about AppCreation, for any pods, workloads, versions and owners  *)
(* and every bound.  Everybody decides from copies that lag; the argument  *)
(* is that a write based on one is refused unless the copy is current, and *)
(* that whatever a copy has hidden from a reader still has an event, a     *)
(* request or a pod to come that will make the reader look again.          *)
(***************************************************************************)
EXTENDS AppCreation, TLAPS

USE DEF RequestIds

-----------------------------------------------------------------------------
(***************************************************************************)
(* Types, in three parts: the objects and their copies, the requests, and  *)
(* what the controllers keep in memory.                                    *)
(***************************************************************************)
ObjectsOK ==
    /\ workload \in [Workloads -> KeptnWorkloads]
    /\ wlCache \in [Workloads -> KeptnWorkloads]
    /\ app \in KeptnApps /\ appCache \in KeptnApps
    /\ wv \in [Workloads -> [Versions -> Owners \cup {None}]]
    /\ wvCache \in [Workloads -> [Versions -> Owners \cup {None}]]

RequestsOK ==
    /\ req \in 0..MaxRequests /\ reqCache \in 0..MaxRequests /\ lastReq \in 0..MaxRequests
    /\ requests \in [RequestIds -> [single : BOOLEAN, due : BOOLEAN]]

MemoryOK ==
    /\ hook \in [Pods -> {"absent", "request", "admitted", "unmanaged"}]
    /\ listed \in BOOLEAN /\ reqQueued \in BOOLEAN /\ timer \in BOOLEAN
    /\ kwQueued \subseteq Versioned
    /\ raced \subseteq Workloads
    /\ misled \subseteq Versioned
    /\ faults \in 0..MaxFaults

TypeInv == ObjectsOK /\ RequestsOK /\ MemoryOK

LEMMA Objects ==
    /\ NoWorkload \in KeptnWorkloads
    /\ NoApp \in KeptnApps
    /\ NoWorkload.version = None /\ NoWorkload.owner = None
    /\ \A x \in KeptnWorkloads :
            /\ x.version \in Versions \cup {None} /\ x.owner \in Owners \cup {None}
            /\ x # NoWorkload => x.version \in Versions /\ x.owner \in Owners
  BY DEF NoWorkload, NoApp, NoRefs, KeptnWorkloads, KeptnApps, WorkloadRefs

LEMMA FaultType == ASSUME MemoryOK, Fault PROVE faults' \in 0..MaxFaults
  BY CreationBoundAssumption DEF MemoryOK, Fault

LEMMA InitType == Init => TypeInv
  <1> SUFFICES ASSUME Init PROVE TypeInv
    OBVIOUS
  <1>1. ObjectsOK
    BY Objects DEF Init, ObjectsOK
  <1>2. RequestsOK
    BY CreationBoundAssumption DEF Init, RequestsOK
  <1>3. listed \in BOOLEAN /\ reqQueued \in BOOLEAN /\ timer \in BOOLEAN
    BY DEF Init
  <1>4. MemoryOK
    BY <1>3, CreationBoundAssumption DEF Init, MemoryOK
  <1> QED
    BY <1>1, <1>2, <1>4 DEF TypeInv

\* What an admission writes is a workload.
LEMMA GenerateType ==
    ASSUME NEW p \in Pods, NEW o \in Owners
    PROVE  /\ PodSpec[p].workload \in Workloads
           /\ GenerateWorkload(p, o) \in KeptnWorkloads
           /\ PodSpec[p].version \in Versions
           /\ GenerateWorkload(p, o).version = PodSpec[p].version
           /\ PodSpec[p].hasApp \in BOOLEAN
  BY PodAssumption DEF GenerateWorkload, KeptnWorkloads

LEMMA ListingType ==
    ASSUME ObjectsOK
    PROVE  /\ Listing \in WorkloadRefs
           /\ [there |-> TRUE, managed |-> TRUE, workloads |-> Listing] \in KeptnApps
  <1>1. Listing \in WorkloadRefs
    BY Objects DEF ObjectsOK, Listing, WorkloadRefs
  <1> QED
    BY <1>1 DEF KeptnApps

\* What a step of the webhook changes.
LEMMA HandleWorkloadType ==
    ASSUME TypeInv, NEW p \in Pods, NEW o \in Owners, HandleWorkload(p, o)
    PROVE  TypeInv'
  <1> DEFINE w   == PodSpec[p].workload
             new == GenerateWorkload(p, o)
  <1>1. w \in Workloads /\ new \in KeptnWorkloads
    BY GenerateType
  <1>2. workload' \in {workload, [workload EXCEPT ![w] = new]}
    BY DEF HandleWorkload, Call
  <1>3. hook' \in {hook, [hook EXCEPT ![p] = "request"]}
    BY DEF HandleWorkload, Call, Stage
  <1>4. faults' = faults \/ Fault
    BY DEF HandleWorkload, Call
  <1>5. UNCHANGED <<requestVars, kwQueued, reqVars, app, versions, caches, raced>>
    BY DEF HandleWorkload
  <1> HIDE DEF w, new
  <1>6. ObjectsOK'
    BY <1>1, <1>2, <1>5 DEF TypeInv, ObjectsOK, caches, versions
  <1>7. RequestsOK'
    BY <1>5 DEF TypeInv, RequestsOK, reqVars, caches
  <1>8. faults' \in 0..MaxFaults
    BY <1>4, FaultType DEF TypeInv, MemoryOK
  <1>9. MemoryOK'
    BY <1>3, <1>5, <1>8 DEF TypeInv, MemoryOK, requestVars, versions
  <1> QED
    BY <1>6, <1>7, <1>9 DEF TypeInv

LEMMA AdmissionType ==
    ASSUME TypeInv, NEW p \in Pods, ParentNotFound(p) \/ FindRequest(p)
    PROVE  TypeInv'
  <1>1. UNCHANGED <<requestVars, kwQueued, workload, reqVars, app, versions, caches>>
    BY DEF ParentNotFound, FindRequest
  <1>2. hook' \in [Pods -> {"absent", "request", "admitted", "unmanaged"}]
    BY DEF ParentNotFound, FindRequest, Stage, TypeInv, MemoryOK
  <1>3. faults' = faults \/ Fault
    BY DEF ParentNotFound, FindRequest
  <1>4. faults' \in 0..MaxFaults
    BY <1>3, FaultType DEF TypeInv, MemoryOK
  <1>5. PodSpec[p].workload \in Workloads
    BY PodAssumption
  <1>6. raced' \subseteq Workloads
    BY <1>5 DEF ParentNotFound, FindRequest, RelyOn, TypeInv, MemoryOK
  <1>7. ObjectsOK'
    BY <1>1 DEF TypeInv, ObjectsOK, caches, versions
  <1>8. RequestsOK'
    BY <1>1 DEF TypeInv, RequestsOK, reqVars, caches
  <1>9. MemoryOK'
    BY <1>1, <1>2, <1>4, <1>6 DEF TypeInv, MemoryOK, requestVars, versions
  <1> QED
    BY <1>7, <1>8, <1>9 DEF TypeInv

LEMMA CreateRequestType ==
    ASSUME TypeInv, NEW p \in Pods, CreateRequest(p)
    PROVE  TypeInv'
  <1> DEFINE id == lastReq + 1
  <1>1. /\ UNCHANGED <<requestVars, kwQueued, workload, app, versions, caches>>
        /\ hook' \in {[hook EXCEPT ![p] = "admitted"], [hook EXCEPT ![p] = "absent"]}
        /\ faults' = faults \/ Fault
    BY DEF CreateRequest, Call, Stage
  <1>2. \/ UNCHANGED <<reqVars, raced>>
        \/ /\ req = 0
           /\ req' = id
           /\ lastReq' = id
           /\ requests' = [requests EXCEPT ![id].single = ~PodSpec[p].hasApp]
           /\ raced' = IF listed THEN raced \cup {PodSpec[p].workload} ELSE raced
    BY DEF CreateRequest, Call
  <1>3. req = 0 => id \in RequestIds
    BY DEF CreateRequest
  <1> HIDE DEF id
  <1>4. PodSpec[p].workload \in Workloads /\ (~PodSpec[p].hasApp) \in BOOLEAN
    BY PodAssumption
  <1>5. ObjectsOK'
    BY <1>1 DEF TypeInv, ObjectsOK, caches, versions
  <1>6. RequestsOK'
    <2>1. CASE UNCHANGED <<reqVars, raced>>
      BY <1>1, <2>1 DEF TypeInv, RequestsOK, reqVars, caches
    <2>2. CASE /\ req = 0 /\ req' = id /\ lastReq' = id
               /\ requests' = [requests EXCEPT ![id].single = ~PodSpec[p].hasApp]
      <3>1. id \in RequestIds /\ id \in 0..MaxRequests
        BY <1>3, <2>2, CreationBoundAssumption
      <3>2. requests' \in [RequestIds -> [single : BOOLEAN, due : BOOLEAN]]
        BY <1>4, <2>2, <3>1 DEF TypeInv, RequestsOK
      <3> QED
        BY <1>1, <2>2, <3>1, <3>2 DEF TypeInv, RequestsOK, caches
    <2> QED
      BY <1>2, <2>1, <2>2
  <1>7. raced' \subseteq Workloads
    BY <1>2, <1>4 DEF TypeInv, MemoryOK
  <1>8. faults' \in 0..MaxFaults
    BY <1>1, FaultType DEF TypeInv, MemoryOK
  <1>9. MemoryOK'
    BY <1>1, <1>7, <1>8 DEF TypeInv, MemoryOK, requestVars, versions
  <1> QED
    BY <1>5, <1>6, <1>9 DEF TypeInv

LEMMA RequestControllerType == TypeInv /\ RequestController => TypeInv'
  <1> SUFFICES ASSUME TypeInv, RequestController PROVE TypeInv'
    OBVIOUS
  <1>1. CASE RequestNotFound \/ UserAppFound
    <2>1. UNCHANGED <<hook, timer, kwQueued, workload, reqVars, app, versions, caches, raced, faults>>
      BY <1>1 DEF RequestNotFound, UserAppFound
    <2>2. listed' \in BOOLEAN /\ reqQueued' \in BOOLEAN
      BY <1>1 DEF RequestNotFound, UserAppFound, Serve, TypeInv, MemoryOK
    <2> QED
      BY <2>1, <2>2 DEF TypeInv, ObjectsOK, RequestsOK, MemoryOK, reqVars, caches, versions
  <1>2. CASE AwaitDeadline
    <2>1. /\ UNCHANGED <<hook, listed, kwQueued, workload, req, lastReq, app, versions, caches, raced>>
          /\ reqQueued' = FALSE
          /\ reqCache # 0
      BY <1>2 DEF AwaitDeadline, Serve
    <2>2. \/ timer' = TRUE /\ UNCHANGED <<requests, faults>>
          \/ /\ Fault
             /\ requests' = [requests EXCEPT ![reqCache].due = TRUE]
             /\ UNCHANGED timer
      BY <1>2 DEF AwaitDeadline
    <2>3. faults' \in 0..MaxFaults
      BY <2>2, FaultType DEF TypeInv, MemoryOK
    <2>4. timer' \in BOOLEAN /\ reqQueued' \in BOOLEAN
      BY <2>1, <2>2 DEF TypeInv, MemoryOK
    <2>5. reqCache \in RequestIds
      BY <2>1, CreationBoundAssumption DEF TypeInv, RequestsOK
    <2>6. requests' \in [RequestIds -> [single : BOOLEAN, due : BOOLEAN]]
      BY <2>2, <2>5 DEF TypeInv, RequestsOK
    <2>7. RequestsOK' /\ ObjectsOK'
      BY <2>1, <2>6 DEF TypeInv, RequestsOK, ObjectsOK, caches, versions
    <2>8. MemoryOK'
      BY <2>1, <2>3, <2>4 DEF TypeInv, MemoryOK, versions
    <2> QED
      BY <2>7, <2>8 DEF TypeInv
  <1>3. CASE CreateOrUpdateApp
    <2> DEFINE new == [there |-> TRUE, managed |-> TRUE, workloads |-> Listing]
    <2>1. UNCHANGED <<hook, timer, kwQueued, workload, reqVars, versions, caches>>
      BY <1>3 DEF CreateOrUpdateApp
    <2>2. app' \in {app, new}
      BY <1>3 DEF CreateOrUpdateApp, Call
    <2>3. raced' \in {raced, Unlisted, raced \cup Unlisted}
      BY <1>3 DEF CreateOrUpdateApp, Call
    <2>4. faults' = faults \/ Fault
      BY <1>3 DEF CreateOrUpdateApp, Call
    <2>5. listed' \in {listed, TRUE} /\ reqQueued' \in {reqQueued, FALSE}
      BY <1>3 DEF CreateOrUpdateApp, Call
    <2>6. app' \in KeptnApps
      BY <2>2, ListingType DEF TypeInv, ObjectsOK
    <2>7. raced' \subseteq Workloads
      BY <2>3 DEF Unlisted, TypeInv, MemoryOK
    <2>8. faults' \in 0..MaxFaults
      BY <2>4, FaultType DEF TypeInv, MemoryOK
    <2>9. listed' \in BOOLEAN /\ reqQueued' \in BOOLEAN
      BY <2>5 DEF TypeInv, MemoryOK
    <2>10. MemoryOK'
      BY <2>1, <2>7, <2>8, <2>9 DEF TypeInv, MemoryOK, versions
    <2>11. RequestsOK' /\ ObjectsOK'
      BY <2>1, <2>6 DEF TypeInv, RequestsOK, ObjectsOK, caches, reqVars, versions
    <2> QED
      BY <2>10, <2>11 DEF TypeInv
  <1>4. CASE DeleteRequest
    <2>1. /\ UNCHANGED <<hook, reqQueued, timer, kwQueued, workload, requests, lastReq, app, versions,
                         caches, raced>>
          /\ listed' = FALSE /\ req' \in {0, req} /\ (faults' = faults \/ Fault)
      BY <1>4 DEF DeleteRequest
    <2>2. req' \in 0..MaxRequests
      BY <2>1, CreationBoundAssumption DEF TypeInv, RequestsOK
    <2>3. faults' \in 0..MaxFaults
      BY <2>1, FaultType DEF TypeInv, MemoryOK
    <2>4. listed' \in BOOLEAN
      BY <2>1
    <2>5. MemoryOK'
      BY <2>1, <2>3, <2>4 DEF TypeInv, MemoryOK, versions
    <2>6. RequestsOK' /\ ObjectsOK'
      BY <2>1, <2>2 DEF TypeInv, RequestsOK, ObjectsOK, caches, versions
    <2> QED
      BY <2>5, <2>6 DEF TypeInv
  <1> QED
    BY <1>1, <1>2, <1>3, <1>4 DEF RequestController

\* The version that is written for a workload is one.
LEMMA WithVersionType ==
    ASSUME ObjectsOK, NEW w \in Workloads, wlCache[w] # NoWorkload
    PROVE  /\ WithVersion(w) \in [Workloads -> [Versions -> Owners \cup {None}]]
           /\ wlCache[w].version \in Versions
           /\ WithVersion(w)[w][wlCache[w].version] = wlCache[w].owner
           /\ \A x \in Workloads \ {w} : WithVersion(w)[x] = wv[x]
  <1>1. /\ wlCache[w] \in KeptnWorkloads /\ wlCache[w].version \in Versions
        /\ wlCache[w].owner \in Owners
    BY Objects DEF ObjectsOK
  <1> QED
    BY <1>1 DEF ObjectsOK, WithVersion

LEMMA WorkloadControllerType ==
    ASSUME TypeInv, NEW w \in Workloads, WorkloadController(w)
    PROVE  TypeInv'
  <1>1. /\ UNCHANGED <<hook, requestVars, workload, reqVars, app, wvCache, caches, raced, faults>>
        /\ kwQueued' = kwQueued \ {w} /\ w \in kwQueued
        /\ misled' \in {misled \ {w}, misled \cup {w}}
        /\ \/ wv' = wv
           \/ wv' = WithVersion(w) /\ wlCache[w] # NoWorkload
    BY DEF WorkloadController, WorkloadUnchanged, UpdateWorkloadVersion, CreateWorkloadVersion,
           WriteVersion
  <1>2. wv' \in [Workloads -> [Versions -> Owners \cup {None}]]
    BY <1>1, WithVersionType DEF TypeInv, ObjectsOK
  <1>3. ObjectsOK' /\ RequestsOK'
    BY <1>1, <1>2 DEF TypeInv, ObjectsOK, RequestsOK, reqVars, caches, versions
  <1>4. MemoryOK'
    BY <1>1 DEF TypeInv, MemoryOK, requestVars, versions
  <1> QED
    BY <1>3, <1>4 DEF TypeInv

LEMMA OtherType ==
    ASSUME TypeInv,
           \/ \E w \in Workloads : SyncWorkload(w) \/ SyncVersion(w)
           \/ SyncRequest \/ SyncApp \/ DeadlinePasses \/ Resync \/ Crash \/ UserWritesApp
           \/ UNCHANGED vars
    PROVE  TypeInv'
  <1>1. ASSUME NEW w \in Workloads, SyncWorkload(w) PROVE TypeInv'
    <2>1. ObjectsOK' /\ RequestsOK'
      BY <1>1 DEF SyncWorkload, TypeInv, ObjectsOK, RequestsOK, reqVars, versions
    <2>2. MemoryOK'
      BY <1>1 DEF SyncWorkload, TypeInv, MemoryOK, requestVars, versions
    <2> QED
      BY <2>1, <2>2 DEF TypeInv
  <1>6. ASSUME NEW w \in Workloads, SyncVersion(w) PROVE TypeInv'
    <2>1. ObjectsOK' /\ RequestsOK'
      BY <1>6 DEF SyncVersion, TypeInv, ObjectsOK, RequestsOK, reqVars, caches
    <2>2. MemoryOK'
      BY <1>6 DEF SyncVersion, TypeInv, MemoryOK, requestVars
    <2> QED
      BY <2>1, <2>2 DEF TypeInv
  <1>2. CASE SyncRequest \/ SyncApp \/ Resync \/ UNCHANGED vars
    <2>1. ObjectsOK' /\ RequestsOK'
      BY <1>2 DEF SyncRequest, SyncApp, Resync, vars, TypeInv, ObjectsOK, RequestsOK, reqVars,
         caches, versions
    <2>2. /\ UNCHANGED <<hook, listed, timer, kwQueued, raced, misled, faults>>
          /\ reqQueued' = TRUE \/ UNCHANGED reqQueued
      BY <1>2 DEF SyncRequest, SyncApp, Resync, vars, requestVars, versions
    <2>3. reqQueued' \in BOOLEAN
      BY <2>2 DEF TypeInv, MemoryOK
    <2>4. MemoryOK'
      BY <2>2, <2>3 DEF TypeInv, MemoryOK
    <2> QED
      BY <2>1, <2>4 DEF TypeInv
  <1>3. CASE DeadlinePasses
    <2>1. PICK id \in {req, reqCache} \ {0} : requests' = [requests EXCEPT ![id].due = TRUE]
      BY <1>3 DEF DeadlinePasses
    <2>2. id \in RequestIds
      BY CreationBoundAssumption DEF TypeInv, RequestsOK
    <2>3. requests' \in [RequestIds -> [single : BOOLEAN, due : BOOLEAN]]
      BY <2>1, <2>2 DEF TypeInv, RequestsOK
    <2>4. ObjectsOK' /\ RequestsOK'
      BY <1>3, <2>3 DEF DeadlinePasses, TypeInv, ObjectsOK, RequestsOK, caches, versions
    <2>5. reqQueued' \in BOOLEAN /\ timer' \in BOOLEAN
      BY <1>3 DEF DeadlinePasses
    <2>6. MemoryOK'
      BY <1>3, <2>5 DEF DeadlinePasses, TypeInv, MemoryOK, versions
    <2> QED
      BY <2>4, <2>6 DEF TypeInv
  <1>4. CASE Crash
    <2>1. ObjectsOK' /\ RequestsOK'
      BY <1>4 DEF Crash, TypeInv, ObjectsOK, RequestsOK, reqVars
    <2>2. listed' \in BOOLEAN /\ reqQueued' \in BOOLEAN /\ timer' \in BOOLEAN
      BY <1>4 DEF Crash
    <2>3. hook' \in [Pods -> {"absent", "request", "admitted", "unmanaged"}]
      BY <1>4 DEF Crash, TypeInv, MemoryOK
    <2>4. faults' \in 0..MaxFaults
      BY <1>4, FaultType DEF Crash, TypeInv
    <2>5. MemoryOK'
      BY <1>4, <2>2, <2>3, <2>4 DEF Crash, TypeInv, MemoryOK
    <2> QED
      BY <2>1, <2>5 DEF TypeInv
  <1>5. CASE UserWritesApp
    <2>1. app' \in KeptnApps
      BY <1>5 DEF UserWritesApp, TypeInv, ObjectsOK, KeptnApps
    <2>2. ObjectsOK' /\ RequestsOK'
      BY <1>5, <2>1 DEF UserWritesApp, TypeInv, ObjectsOK, RequestsOK, reqVars, caches, versions
    <2>3. faults' \in 0..MaxFaults
      BY <1>5, FaultType DEF UserWritesApp, TypeInv
    <2>4. MemoryOK'
      BY <1>5, <2>3 DEF UserWritesApp, TypeInv, MemoryOK, requestVars, versions
    <2> QED
      BY <2>2, <2>4 DEF TypeInv
  <1> QED
    BY <1>1, <1>2, <1>3, <1>4, <1>5, <1>6

LEMMA NextType == TypeInv /\ [Next]_vars => TypeInv'
  BY HandleWorkloadType, AdmissionType, CreateRequestType, RequestControllerType,
     WorkloadControllerType, OtherType DEF Next, Webhook

LEMMA TypeInvariant == Spec => []TypeInv
  BY InitType, NextType, PTL DEF Spec

\* The variables keep their types: no request beyond the bound, no workload,
\* app or version that is not one (all operations).
THEOREM CreationTypeCorrect == Spec => []TypeOK
  <1>1. TypeInv => TypeOK
    <2> SUFFICES ASSUME TypeInv PROVE TypeOK
      OBVIOUS
    <2>1. {listed, reqQueued, timer} \subseteq BOOLEAN
      BY DEF TypeInv, MemoryOK
    <2> QED
      BY <2>1 DEF TypeInv, ObjectsOK, RequestsOK, MemoryOK, TypeOK
  <1> QED
    BY <1>1, TypeInvariant, PTL

-----------------------------------------------------------------------------
(***************************************************************************)
(* The user's app.                                                         *)
(***************************************************************************)
\* What a reconciliation of the request leaves the app like.
LEMMA AppWritten ==
    ASSUME CreateOrUpdateApp
    PROVE  \/ UNCHANGED app
           \/ /\ appCache = app /\ ~IsUsers(appCache)
              /\ app' = [there |-> TRUE, managed |-> TRUE, workloads |-> Listing]
              /\ raced' = Unlisted
  BY DEF CreateOrUpdateApp, Call

LEMMA AppKept ==
    ASSUME [Next]_vars, ~CreateOrUpdateApp, ~UserWritesApp
    PROVE  UNCHANGED app
  BY DEF Next, Webhook, HandleWorkload, ParentNotFound, FindRequest, CreateRequest,
         RequestController, RequestNotFound, UserAppFound, AwaitDeadline, DeleteRequest,
         WorkloadController, WorkloadUnchanged, UpdateWorkloadVersion, CreateWorkloadVersion,
         SyncWorkload, SyncVersion, SyncRequest, SyncApp, DeadlinePasses, Resync, Crash, vars

LEMMA UserAppStep ==
    ASSUME [Next]_vars, IsUsers(app)
    PROVE  UNCHANGED app
  <1>1. CASE CreateOrUpdateApp
    BY <1>1, AppWritten
  <1>2. CASE UserWritesApp
    BY <1>2 DEF UserWritesApp
  <1> QED
    BY <1>1, <1>2, AppKept

\* What a user has written is left alone, although the controller decides from
\* a cached copy of the app: it would have to be current for the write to be
\* accepted, and then it shows that the app is the user's (Reconcile of the
\* KeptnAppCreationRequest, appIsManagedByKeptn).
THEOREM UserAppUntouchedHolds == Spec => UserAppUntouched
  <1>1. [Next]_vars => [IsUsers(app) => app' = app]_vars
    BY UserAppStep
  <1> QED
    BY <1>1, PTL DEF Spec, UserAppUntouched

-----------------------------------------------------------------------------
(***************************************************************************)
(* The workload versions.  The controller acts on its copy of a workload,  *)
(* so the invariant is about the copy: unless the workload is queued, the  *)
(* version of what the copy shows has been written.                        *)
(***************************************************************************)
FollowsCopy(w) ==
    w \notin kwQueued \cup misled /\ wlCache[w] # NoWorkload =>
        wv[w][wlCache[w].version] = wlCache[w].owner

FollowInv == \A w \in Versioned : FollowsCopy(w)

LEMMA NextFollow ==
    ASSUME TypeInv, FollowInv, [Next]_vars
    PROVE  FollowInv'
  <1>0. Versioned \subseteq Workloads
    BY CreationBoundAssumption
  <1>1. ASSUME NEW w \in Workloads, WorkloadController(w) PROVE FollowInv'
    <2>1. kwQueued' = kwQueued \ {w} /\ UNCHANGED wlCache
      BY <1>1 DEF WorkloadController, WorkloadUnchanged, UpdateWorkloadVersion,
                  CreateWorkloadVersion, caches
    <2>2. CASE WorkloadUnchanged(w)
      <3>1. /\ wv' = wv /\ (wlCache[w] # NoWorkload => VersionOf(w) = wlCache[w].owner)
            /\ misled' = IF wlCache[w] = NoWorkload \/ IsLatestCopy(w) THEN misled \ {w}
                                                                   ELSE misled \cup {w}
        BY <2>2 DEF WorkloadUnchanged
      <3>2. FollowsCopy(w)'
        BY <2>1, <3>1 DEF FollowsCopy, IsLatestCopy
      <3>3. \A x \in Versioned \ {w} : FollowsCopy(x)'
        BY <2>1, <3>1 DEF FollowInv, FollowsCopy
      <3> QED
        BY <3>2, <3>3 DEF FollowInv
    <2>3. CASE wv' = WithVersion(w) /\ misled' = misled \ {w} /\ wlCache[w] # NoWorkload
      BY <1>0, <2>1, <2>3, WithVersionType DEF FollowInv, FollowsCopy, TypeInv
    <2> QED
      BY <1>1, <2>2, <2>3 DEF WorkloadController, UpdateWorkloadVersion,
                              CreateWorkloadVersion, WriteVersion
  <1>2. ASSUME NEW w \in Workloads, SyncWorkload(w) PROVE FollowInv'
    <2>1. /\ kwQueued' = kwQueued \cup ({w} \cap Versioned) /\ UNCHANGED <<wv, misled>>
          /\ wlCache' = [wlCache EXCEPT ![w] = workload[w]]
      BY <1>2 DEF SyncWorkload, versions
    <2>2. \A x \in Workloads \ {w} : wlCache'[x] = wlCache[x]
      BY <2>1 DEF TypeInv, ObjectsOK
    <2> QED
      BY <1>0, <2>1, <2>2 DEF FollowInv, FollowsCopy
  <1>3. CASE Crash
    BY <1>3 DEF Crash, FollowInv, FollowsCopy
  <1>5. ASSUME NEW w \in Workloads, SyncVersion(w) PROVE FollowInv'
    BY <1>5 DEF SyncVersion, FollowInv, FollowsCopy, caches
  <1>4. CASE \/ \E p \in Pods : Webhook(p)
             \/ RequestController \/ SyncRequest \/ SyncApp \/ DeadlinePasses \/ Resync
             \/ UserWritesApp \/ UNCHANGED vars
    <2>1. UNCHANGED <<kwQueued, wlCache, wv, misled>>
      BY <1>4 DEF Webhook, HandleWorkload, ParentNotFound, FindRequest, CreateRequest,
         RequestController, RequestNotFound, UserAppFound, AwaitDeadline, CreateOrUpdateApp,
         DeleteRequest, SyncRequest, SyncApp, DeadlinePasses, Resync, UserWritesApp, vars, caches,
         versions
    <2> QED
      BY <2>1 DEF FollowInv, FollowsCopy
  <1> QED
    BY <1>1, <1>2, <1>3, <1>4, <1>5 DEF Next

\* When the workload controller has nothing left to do, the version of the
\* latest spec exists and has that spec, however the writes of the admissions,
\* the informers' events and the reconciliations interleave, unless an old copy
\* of the version made it look right (Reconcile of the KeptnWorkload).
THEOREM VersionsFollowHolds == Spec => []VersionsFollow
  <1>1. Init => FollowInv
    BY CreationBoundAssumption DEF Init, FollowInv, FollowsCopy
  <1>2. FollowInv => VersionsFollow
    BY DEF FollowInv, FollowsCopy, VersionsFollow
  <1> QED
    BY <1>1, <1>2, NextFollow, TypeInvariant, PTL DEF Spec

-----------------------------------------------------------------------------
(***************************************************************************)
(* No workload is forgotten.  A workload whose pods have been admitted is  *)
(* in the app, or there is a request left whose reconciliation has not     *)
(* listed the workloads yet; the rest has raced with that listing.         *)
(***************************************************************************)
Done(w) ==
    \/ w \in raced
    \/ IsUsers(app)
    \/ app.workloads[w] = workload[w].version

ListedInv ==
    /\ IsUsers(appCache) => app = appCache
    /\ \A w \in Workloads : Admitted(w) => Done(w) \/ (req # 0 /\ ~listed)

LEMMA InitListed == Init => ListedInv
  <1> SUFFICES ASSUME Init PROVE ListedInv
    OBVIOUS
  <1>1. ~IsUsers(appCache)
    BY DEF Init, IsUsers, NoApp
  <1>2. \A w \in Workloads : ~Admitted(w)
    BY DEF Init, Admitted
  <1> QED
    BY <1>1, <1>2 DEF ListedInv

\* The copy of a user's app stays the app.
LEMMA NextUserCopy ==
    ASSUME ListedInv, [Next]_vars
    PROVE  IsUsers(appCache)' => app' = appCache'
  <1> SUFFICES ASSUME IsUsers(appCache)' PROVE app' = appCache'
    OBVIOUS
  <1>1. appCache' = appCache \/ (appCache' = app /\ UNCHANGED app)
    BY DEF Next, Webhook, HandleWorkload, ParentNotFound, FindRequest, CreateRequest,
         RequestController, RequestNotFound, UserAppFound, AwaitDeadline, CreateOrUpdateApp,
         DeleteRequest, WorkloadController, WorkloadUnchanged, UpdateWorkloadVersion,
         CreateWorkloadVersion, SyncWorkload, SyncVersion, SyncRequest, SyncApp, DeadlinePasses, Resync,
         Crash, UserWritesApp, vars, caches
  <1>2. CASE appCache' = appCache
    <2>1. IsUsers(appCache)
      BY <1>2 DEF IsUsers
    <2>2. app = appCache /\ IsUsers(app)
      BY <2>1 DEF ListedInv
    <2> QED
      BY <1>2, <2>2, UserAppStep
  <1> QED
    BY <1>1, <1>2

\* A step of the webhook for one pod.
LEMMA HandleWorkloadListed ==
    ASSUME TypeInv, ListedInv, NEW p \in Pods, NEW o \in Owners, HandleWorkload(p, o),
           NEW w \in Workloads, Admitted(w)'
    PROVE  (Done(w) \/ (req # 0 /\ ~listed))'
  <1> DEFINE x   == PodSpec[p].workload
             new == GenerateWorkload(p, o)
  <1>1. /\ UNCHANGED <<req, listed, app, raced>>
        /\ hook[p] = "absent"
        /\ workload' \in {workload, [workload EXCEPT ![x] = new]}
        /\ hook' \in {hook, [hook EXCEPT ![p] = "request"]}
    BY DEF HandleWorkload, Call, Stage, requestVars, reqVars
  <1>2. /\ x \in Workloads /\ new.version = PodSpec[p].version
    BY GenerateType
  <1>3. hook'[p] # "admitted" /\ \A q \in Pods : hook'[q] = "admitted" => hook[q] = "admitted"
    BY <1>1 DEF TypeInv, MemoryOK
  <1>4. ~OfLatest(p, w)'
    BY <1>3 DEF Admitted
  <1>5. workload'[w] = workload[w]
    <2>1. CASE w = x /\ workload' = [workload EXCEPT ![x] = new]
      <3>1. workload'[w] = new
        BY <1>2, <2>1 DEF TypeInv, ObjectsOK
      <3>2. OfLatest(p, w)'
        BY <1>2, <2>1, <3>1 DEF OfLatest
      <3> QED
        BY <1>4, <3>2
    <2> HIDE DEF x, new
    <2> QED
      BY <1>1, <1>2, <2>1 DEF TypeInv, ObjectsOK
  <1>6. \A q \in Pods : OfLatest(q, w)' <=> OfLatest(q, w)
    BY <1>5 DEF OfLatest
  <1>7. Admitted(w)
    BY <1>3, <1>6 DEF Admitted
  <1> QED
    BY <1>1, <1>5, <1>7 DEF ListedInv, Done, IsUsers

\* An admission that relies on a request, found or created.
LEMMA AdmissionListed ==
    ASSUME TypeInv, ListedInv, NEW p \in Pods,
           ParentNotFound(p) \/ FindRequest(p) \/ CreateRequest(p),
           NEW w \in Workloads, Admitted(w)'
    PROVE  (Done(w) \/ (req # 0 /\ ~listed))'
  <1>1. UNCHANGED <<workload, app, listed>>
    BY DEF ParentNotFound, FindRequest, CreateRequest, requestVars
  <1>2. \A q \in Pods : OfLatest(q, w)' <=> OfLatest(q, w)
    BY <1>1 DEF OfLatest
  <1>3. /\ raced \subseteq raced' /\ (req # 0 => req' # 0)
        /\ \A q \in Pods \ {p} : hook'[q] = hook[q]
    <2>1. \A q \in Pods \ {p} : hook'[q] = hook[q]
      BY DEF ParentNotFound, FindRequest, CreateRequest, Call, Stage, TypeInv, MemoryOK
    <2>2. raced \subseteq raced'
      BY DEF ParentNotFound, FindRequest, CreateRequest, Call, RelyOn
    <2>3. req # 0 => req' # 0
      BY DEF ParentNotFound, FindRequest, CreateRequest, Call, reqVars
    <2> QED
      BY <2>1, <2>2, <2>3
  <1>4. CASE ~OfLatest(p, w)
    <2>1. Admitted(w)
      BY <1>2, <1>3, <1>4 DEF Admitted
    <2> QED
      BY <1>1, <1>3, <2>1 DEF ListedInv, Done, IsUsers
  <1>5. CASE OfLatest(p, w)
    <2>1. hook'[p] = "admitted" /\ w = PodSpec[p].workload
      BY <1>2, <1>5 DEF Admitted, OfLatest
    <2>2. hook[p] \in {"absent", "request"}
      BY DEF ParentNotFound, FindRequest, CreateRequest
    <2>3. w \in raced' \/ (req' # 0 /\ ~listed)
      <3>1. CASE ParentNotFound(p)
        BY <2>1, <3>1 DEF ParentNotFound, Stage, TypeInv, MemoryOK
      <3>2. CASE FindRequest(p)
        BY <2>1, <3>2 DEF FindRequest, RelyOn, reqVars
      <3>3. CASE CreateRequest(p)
        <4>1. ~Stage(p, "absent")
          BY <2>1 DEF Stage, TypeInv, MemoryOK
        <4>2. /\ req' = lastReq + 1
              /\ raced' = IF listed THEN raced \cup {PodSpec[p].workload} ELSE raced
          BY <3>3, <4>1 DEF CreateRequest, Call
        <4>3. lastReq + 1 # 0
          BY CreationBoundAssumption DEF TypeInv, RequestsOK
        <4> QED
          BY <2>1, <4>2, <4>3
      <3> QED
        BY <3>1, <3>2, <3>3
    <2> QED
      BY <1>1, <2>3 DEF Done
  <1> QED
    BY <1>4, <1>5

\* The reconciliation of the request.  When it has listed the workloads, each is
\* in the app as it is now or has raced; when it finds the user's app, so is it.
LEMMA RequestControllerListed ==
    ASSUME TypeInv, ListedInv, RequestController, NEW w \in Workloads, Admitted(w)'
    PROVE  (Done(w) \/ (req # 0 /\ ~listed))'
  <1>0. UNCHANGED <<hook, workload>>
    BY DEF RequestController, RequestNotFound, UserAppFound, AwaitDeadline, CreateOrUpdateApp,
           DeleteRequest
  <1>1. Admitted(w)
    BY <1>0 DEF Admitted, OfLatest
  <1>2. Done(w) \/ (req # 0 /\ ~listed)
    BY <1>1 DEF ListedInv
  <1>3. CASE RequestNotFound \/ AwaitDeadline
    BY <1>0, <1>2, <1>3 DEF RequestNotFound, AwaitDeadline, reqVars, Done, IsUsers
  <1>4. CASE UserAppFound
    BY <1>4 DEF UserAppFound, ListedInv, Done, IsUsers
  <1>5. CASE DeleteRequest
    BY <1>0, <1>2, <1>5 DEF DeleteRequest, Done, IsUsers
  <1>6. CASE CreateOrUpdateApp
    <2>1. workload[w].version \in Versions /\ workload[w].version # None
      BY <1>1, PodAssumption DEF Admitted, OfLatest
    <2>2. UNCHANGED req
      BY <1>6 DEF CreateOrUpdateApp, reqVars
    <2>3. CASE app' = [there |-> TRUE, managed |-> TRUE, workloads |-> Listing] /\ raced' = Unlisted
      <3>1. app'.workloads[w] = Listing[w]
        BY <2>3
      <3> QED
        BY <1>0, <2>3, <3>1 DEF Done, Unlisted
    <2>4. CASE NothingToWrite
      <3>1. Listing[w] = None
        BY <2>4 DEF NothingToWrite, NoRefs
      <3>2. w \in Unlisted
        BY <2>1, <3>1 DEF Unlisted
      <3> QED
        BY <1>6, <2>4, <3>2 DEF CreateOrUpdateApp, Done
    <2>5. CASE UNCHANGED <<app, raced, listed>>
      BY <1>0, <1>2, <2>2, <2>5 DEF Done, IsUsers
    <2> QED
      BY <1>6, <2>3, <2>4, <2>5 DEF CreateOrUpdateApp, Call
  <1> QED
    BY <1>3, <1>4, <1>5, <1>6 DEF RequestController

LEMMA OtherListed ==
    ASSUME TypeInv, ListedInv,
           \/ \E x \in Workloads : WorkloadController(x) \/ SyncWorkload(x) \/ SyncVersion(x)
           \/ SyncRequest \/ SyncApp \/ DeadlinePasses \/ Resync \/ Crash \/ UserWritesApp
           \/ UNCHANGED vars,
           NEW w \in Workloads, Admitted(w)'
    PROVE  (Done(w) \/ (req # 0 /\ ~listed))'
  <1>1. CASE UserWritesApp
    BY <1>1 DEF UserWritesApp, Done, IsUsers, TypeInv, ObjectsOK, KeptnApps
  <1>2. CASE ~UserWritesApp
    <2>1. /\ UNCHANGED <<workload, req, app, raced>>
          /\ listed' = listed \/ listed' = FALSE
      BY <1>2 DEF WorkloadController, WorkloadUnchanged, UpdateWorkloadVersion,
            CreateWorkloadVersion, SyncWorkload, SyncVersion, SyncRequest, SyncApp,
            DeadlinePasses, Resync, Crash, vars, reqVars, requestVars
    <2>2. \A q \in Pods : hook'[q] = "admitted" => hook[q] = "admitted"
      <3>1. CASE Crash
        BY <3>1 DEF Crash
      <3>2. CASE ~Crash
        <4>1. UNCHANGED hook
          BY <1>2, <3>2 DEF WorkloadController, WorkloadUnchanged, UpdateWorkloadVersion,
            CreateWorkloadVersion, SyncWorkload, SyncVersion, SyncRequest, SyncApp,
            DeadlinePasses, Resync, vars
        <4> QED
          BY <4>1
      <3> QED
        BY <3>1, <3>2
    <2>3. Admitted(w)
      BY <2>1, <2>2 DEF Admitted, OfLatest
    <2> QED
      BY <2>1, <2>3 DEF ListedInv, Done, IsUsers
  <1> QED
    BY <1>1, <1>2

LEMMA NextListed ==
    ASSUME TypeInv, ListedInv, [Next]_vars
    PROVE  ListedInv'
  <1>1. ASSUME NEW w \in Workloads, Admitted(w)' PROVE (Done(w) \/ (req # 0 /\ ~listed))'
    BY <1>1, HandleWorkloadListed, AdmissionListed, RequestControllerListed, OtherListed
       DEF Next, Webhook
  <1> QED
    BY <1>1, NextUserCopy DEF ListedInv

\* Once no request is left, every workload whose pods have been admitted is in
\* the app with its latest version, or the app is the user's; what is missing
\* has raced with the listing, in one of the ways the webhook and the
\* controller leave open (Handle of the webhook, Reconcile of the
\* KeptnAppCreationRequest).
THEOREM ListedUnlessRacedHolds == Spec => []ListedUnlessRaced
  <1>1. ListedInv => ListedUnlessRaced
    BY DEF ListedInv, Done, ListedUnlessRaced
  <1> QED
    BY <1>1, InitListed, NextListed, TypeInvariant, PTL DEF Spec
=============================================================================
