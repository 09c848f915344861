--------------------------- MODULE AppDeliveryProofs ---------------------------
(***************************************************************************)
(* Proofs about AppDelivery, for every app, every number of generations    *)
(* and every bound.  Two controllers write the same app versions without   *)
(* telling each other; the argument is that each of them writes only over  *)
(* what it has read, and that what both take for an end is one.            *)
(***************************************************************************)
EXTENDS AppDelivery, FiniteSetTheorems, TLAPS

-----------------------------------------------------------------------------
(***************************************************************************)
(* What the state of a phase says of the items it is folded from           *)
(* (UpdateStatusSummary, GetOverallState).                                 *)
(***************************************************************************)
LEMMA SummaryStateType ==
    ASSUME NEW s, NEW b
    PROVE  /\ GetOverallState(s) \in KeptnStates \ {StateDeprecated, StateWarning}
           /\ GetOverallStateBlockedDeployment(s, b) \in KeptnStates \ {StateDeprecated}
  BY DEF GetOverallState, GetOverallStateBlockedDeployment, KeptnStates,
     StateProgressing, StateSucceeded, StateFailed, StateUnknown, StatePending,
     StateDeprecated, StateWarning

LEMMA CountType ==
    ASSUME NEW S, IsFiniteSet(S), NEW st, NEW k
    PROVE  CountIn(S, st, k) \in Nat
  <1>1. {i \in S : st[i] = k} \in SUBSET S
    OBVIOUS
  <1>2. IsFiniteSet({i \in S : st[i] = k})
    BY <1>1, FS_Subset
  <1> QED
    BY <1>2, FS_CardinalityType DEF CountIn

\* A phase succeeds only when every check of its spec is listed as succeeded:
\* a check that could not be created is missing from the list, but counted
\* in the total.
LEMMA OverallSuccess ==
    ASSUME NEW S, IsFiniteSet(S), NEW st,
           GetOverallState(UpdateStatusSummary(S, st)) = StateSucceeded
    PROVE  \A i \in S : st[i] = StateSucceeded
  <1> DEFINE s    == UpdateStatusSummary(S, st)
             good == {i \in S : st[i] = StateSucceeded}
  <1>1. /\ s.failed \in Nat /\ s.succeeded \in Nat /\ s.progressing \in Nat
        /\ s.pending \in Nat /\ s.unknown \in Nat /\ s.deprecated \in Nat
    BY CountType DEF UpdateStatusSummary
  <1>2. s.total = Cardinality(S) /\ s.succeeded = Cardinality(good)
    BY DEF UpdateStatusSummary, CountIn
  <1> HIDE DEF s
  <1>3. GetOverallState(s) = StateSucceeded
    BY DEF s
  <1>4. /\ ~(s.failed > 0) /\ ~(s.deprecated > 0) /\ ~(s.progressing > 0)
        /\ ~(s.pending > 0) /\ ~(s.unknown > 0) /\ GetTotalCount(s) = s.total
    BY <1>3 DEF GetOverallState, StateSucceeded, StateFailed, StateProgressing, StatePending,
       StateUnknown
  <1>5. s.succeeded = s.total
    BY <1>1, <1>4 DEF GetTotalCount
  <1>6. good \in SUBSET S
    OBVIOUS
  <1>7. good = S
    BY <1>2, <1>5, <1>6, FS_Subset
  <1> QED
    BY <1>7

LEMMA WarningUnblocked ==
    ASSUME NEW s, NEW b, GetOverallStateBlockedDeployment(s, b) = StateWarning
    PROVE  ~b
  BY SummaryStateType DEF GetOverallStateBlockedDeployment

-----------------------------------------------------------------------------
InPhase == avPc \in {"checks", "workloads", "complete"}

-----------------------------------------------------------------------------
(***************************************************************************)
(* Type correctness, with what it needs to know of the control: the app    *)
(* versions are created in the order of the generations, and the one being *)
(* deprecated is older than the newest.                                    *)
(***************************************************************************)
Deprecating == appPc \in {"deprecate", "write"}

RevisionsInOrder ==
    /\ app \in [generation : Generations, currentVersion : Versions \cup {NoVersion}]
    /\ revisions \in Seq(Generations)
    /\ \A i \in DOMAIN revisions : revisions[i] <= app.generation
    /\ \A i, j \in DOMAIN revisions : i < j => revisions[i] < revisions[j]

AppSide ==
    /\ RevisionsInOrder
    /\ appPc \in {"idle", "create", "status", "deprecate", "write"}
    /\ appGen \in Generations /\ appGen <= app.generation
    /\ older \in 0..MaxGeneration
    /\ appPc = "create" => \A g \in Created : g <= appGen
    /\ appPc = "status" \/ Deprecating =>
            revisions # <<>> /\ revisions[Len(revisions)] = appGen
    /\ Deprecating => older < appGen
    /\ appPc = "write" => older \in Generations
    /\ missed \subseteq Created

AvSide ==
    /\ av \in [Generations -> AppVersions]
    /\ known \subseteq Created
    /\ avQueued \subseteq known
    /\ avPc \in {"idle", "phase", "checks", "workloads", "complete", "finish"}
    /\ gen \in Generations
    /\ avPc # "idle" => gen \in known
    /\ local \in AppVersions
    /\ ph \in 1..7
    /\ InPhase => ph \in Phases
    /\ oldPhase \in 0..7

\* The copy of the revision being deprecated.
OldSide == oldFresh => appPc = "write" /\ av[older].status # StateDeprecated

Flags ==
    /\ appQueued \in BOOLEAN
    /\ appFresh \in BOOLEAN
    /\ oldFresh \in BOOLEAN
    /\ failed \in BOOLEAN
    /\ lost \in BOOLEAN
    /\ fresh \in BOOLEAN
    /\ block \in BOOLEAN

Bounds ==
    /\ wv \in [Workloads -> KeptnStates \cup {"absent"}]
    /\ faults \in 0..(MaxDisturbances - crashes)
    /\ crashes \in 0..MaxDisturbances

TypeInv == AppSide /\ AvSide /\ OldSide /\ Flags /\ Bounds

LEMMA TypeInvImplies == TypeInv => TypeOK
  <1> SUFFICES ASSUME TypeInv PROVE TypeOK
    OBVIOUS
  <1>1. \A i, j \in DOMAIN revisions : i # j => revisions[i] # revisions[j]
    <2> SUFFICES ASSUME NEW i \in DOMAIN revisions, NEW j \in DOMAIN revisions, i # j
                 PROVE  revisions[i] # revisions[j]
      OBVIOUS
    <2>0. revisions \in Seq(Generations)
      BY DEF TypeInv, AppSide, RevisionsInOrder
    <2>1. /\ i \in 1..Len(revisions) /\ j \in 1..Len(revisions) /\ Len(revisions) \in Nat
          /\ revisions[i] \in Generations /\ revisions[j] \in Generations
      BY <2>0
    <2>2. \A k, m \in DOMAIN revisions : k < m => revisions[k] < revisions[m]
      BY DEF TypeInv, AppSide, RevisionsInOrder
    <2> QED
      BY <2>1, <2>2 DEF Generations
  <1>2. faults \in Nat /\ crashes \in Nat /\ faults + crashes <= MaxDisturbances
    BY DeliveryAssumption DEF TypeInv, Bounds
  <1>3. wv \in [Workloads -> KeptnStates \cup {"absent"}]
    BY DEF TypeInv, Bounds
  <1> QED
    BY <1>1, <1>2, <1>3 DEF TypeInv, AppSide, RevisionsInOrder, AvSide, Flags, TypeOK

\* The generations that have an app version.
LEMMA CreatedType ==
    ASSUME AppSide
    PROVE  /\ Created \subseteq 1..app.generation
           /\ Created \subseteq Generations
  BY DeliveryAssumption DEF AppSide, RevisionsInOrder, Created, Generations

\* A new app version is the newest one.
LEMMA AppendType ==
    ASSUME AppSide, appPc = "create", appGen \notin Created,
           revisions' = Append(revisions, appGen)
    PROVE  /\ UNCHANGED app => RevisionsInOrder'
           /\ revisions' # <<>> /\ revisions'[Len(revisions')] = appGen
           /\ Created' = Created \cup {appGen}
  <1>0. revisions \in Seq(Generations) /\ appGen \in Generations
    BY DEF AppSide, RevisionsInOrder
  <1>1. /\ revisions' \in Seq(Generations) /\ Len(revisions') = Len(revisions) + 1
        /\ \A i \in 1..Len(revisions) : revisions'[i] = revisions[i]
        /\ revisions'[Len(revisions) + 1] = appGen
        /\ DOMAIN revisions = 1..Len(revisions)
        /\ DOMAIN revisions' = 1..(Len(revisions) + 1)
        /\ Len(revisions) \in Nat
    BY <1>0
  <1>2. \A i \in DOMAIN revisions : revisions[i] < appGen
    <2>1. \A i \in DOMAIN revisions : revisions[i] \in Created /\ revisions[i] \in Generations
      BY <1>0 DEF Created
    <2> QED
      BY <1>0, <2>1 DEF AppSide, Generations
  <1>3. \A i, j \in DOMAIN revisions' : i < j => revisions'[i] < revisions'[j]
    BY <1>1, <1>2 DEF AppSide, RevisionsInOrder
  <1>4. Created' = {revisions'[i] : i \in DOMAIN revisions'}
    BY DEF Created
  <1>5. Created' = Created \cup {appGen}
    BY <1>1, <1>4 DEF Created
  <1>6. revisions' # <<>>
    BY <1>1
  <1> QED
    BY <1>1, <1>3, <1>5, <1>6 DEF AppSide, RevisionsInOrder

LEMMA NewAppVersionType == NewAppVersion \in AppVersions
  BY DEF NewAppVersion, AppVersions, KeptnStates, NoPhase

LEMMA InitType == Init => TypeInv
  <1> SUFFICES ASSUME Init PROVE TypeInv
    OBVIOUS
  <1>0. 1 \in Generations /\ 0 \in 0..MaxGeneration
    BY DeliveryAssumption DEF Generations
  <1>1. AppSide
    BY <1>0 DEF Init, AppSide, RevisionsInOrder, Deprecating
  <1>2. AvSide
    BY <1>0, NewAppVersionType DEF Init, AvSide, InPhase, AppPreDeployTasks, NoPhase
  <1>3. OldSide /\ Flags
    BY DEF Init, OldSide, Flags
  <1>4. Bounds
    BY DeliveryAssumption DEF Init, Bounds
  <1> QED
    BY <1>1, <1>2, <1>3, <1>4 DEF TypeInv

-----------------------------------------------------------------------------
(***************************************************************************)
(* The steps of the KeptnApp controller and of the users.                  *)
(***************************************************************************)
LEMMA ReturnAppSide ==
    ASSUME AppSide, NEW r, ReturnApp(r), RevisionsInOrder', missed' \subseteq Created'
    PROVE  AppSide'
  <1>1. 1 \in Generations /\ app'.generation \in Generations /\ 0 \in 0..MaxGeneration
    BY DeliveryAssumption DEF Generations, RevisionsInOrder
  <1>2. 1 <= app'.generation
    BY <1>1 DEF Generations
  <1> QED
    BY <1>1, <1>2 DEF AppSide, ReturnApp, Deprecating

LEMMA ReturnAppFlags ==
    ASSUME Flags, NEW r \in BOOLEAN, ReturnApp(r)
    PROVE  appQueued' \in BOOLEAN /\ appFresh' \in BOOLEAN /\ ~oldFresh' /\ ~failed'
           /\ oldFresh' \in BOOLEAN /\ failed' \in BOOLEAN
  BY DEF Flags, ReturnApp

\* The app versions are left alone.
LEMMA AvSideKept ==
    ASSUME TypeInv, UNCHANGED <<av, known, avQueued, avVars>>, Created \subseteq Created'
    PROVE  AvSide'
  BY DEF TypeInv, AvSide, avVars, InPhase

LEMMA ReconcileAppType == TypeInv /\ ReconcileApp => TypeInv'
  <1> SUFFICES ASSUME TypeInv, ReconcileApp PROVE TypeInv'
    OBVIOUS
  <1>0. UNCHANGED <<app, older, oldFresh, failed, lost, missed, revisions, av, known, avQueued,
                    avVars, wv, block, faults, crashes>> /\ Created' = Created
    BY DEF ReconcileApp, used, Created
  <1>1. AppSide'
    <2>1. RevisionsInOrder'
      BY <1>0 DEF TypeInv, AppSide, RevisionsInOrder
    <2>2. CASE app.generation \in known
      BY <1>0, <2>1, <2>2 DEF ReconcileApp, TypeInv, AppSide, Deprecating
    <2>3. CASE app.generation \notin known
      <3>1. /\ appPc' = "create" /\ appGen' = app.generation
            /\ app.generation \in Generations
        BY <2>3 DEF ReconcileApp, TypeInv, AppSide, RevisionsInOrder
      <3>2. \A g \in Created : g <= app.generation
        BY <3>1, CreatedType DEF TypeInv, Generations
      <3> QED
        BY <1>0, <2>1, <3>1, <3>2 DEF TypeInv, AppSide, Deprecating, Generations
    <2> QED
      BY <2>2, <2>3
  <1>2. AvSide'
    BY <1>0, AvSideKept
  <1>3. OldSide'
    BY <1>0 DEF OldSide, ReconcileApp, TypeInv, avVars
  <1>4. Flags'
    BY <1>0 DEF Flags, ReconcileApp, TypeInv, avVars
  <1> QED
    BY <1>0, <1>1, <1>2, <1>3, <1>4 DEF TypeInv, Bounds

LEMMA FaultType ==
    ASSUME Bounds, Fault
    PROVE  faults' \in 0..(MaxDisturbances - crashes)
  BY DeliveryAssumption DEF Bounds, Fault

LEMMA CreateAppVersionType == TypeInv /\ CreateAppVersion => TypeInv'
  <1> SUFFICES ASSUME TypeInv, CreateAppVersion PROVE TypeInv'
    OBVIOUS
  <1>0. UNCHANGED <<app, missed, av, known, avQueued, avVars, wv, block, crashes>> /\ appPc = "create"
    BY DEF CreateAppVersion
  <1>1. \/ UNCHANGED revisions
        \/ appGen \notin Created /\ revisions' = Append(revisions, appGen)
    BY DEF CreateAppVersion
  <1>2. RevisionsInOrder' /\ Created \subseteq Created'
    <2>1. CASE UNCHANGED revisions
      BY <1>0, <2>1 DEF TypeInv, AppSide, RevisionsInOrder, Created
    <2>2. CASE appGen \notin Created /\ revisions' = Append(revisions, appGen)
      BY <1>0, <2>2, AppendType DEF TypeInv
    <2> QED
      BY <1>1, <2>1, <2>2
  <1>3. AvSide'
    BY <1>0, <1>2, AvSideKept
  <1>4. CASE /\ appGen \notin Created
             /\ revisions' = Append(revisions, appGen)
             /\ appPc' = "status"
             /\ UNCHANGED <<appQueued, appGen, appFresh, older, oldFresh, failed, lost, faults>>
    <2>1. AppSide'
      BY <1>0, <1>2, <1>4, AppendType DEF TypeInv, AppSide, Deprecating
    <2>2. OldSide'
      BY <1>0, <1>4 DEF TypeInv, OldSide
    <2>3. Flags'
      BY <1>0, <1>4 DEF TypeInv, Flags, avVars
    <2> QED
      BY <1>0, <1>3, <1>4, <2>1, <2>2, <2>3 DEF TypeInv, Bounds
  <1>5. CASE ReturnApp(TRUE) /\ (UNCHANGED lost \/ lost' = TRUE) /\ (Fault \/ UNCHANGED faults)
    <2>1. AppSide'
      BY <1>0, <1>2, <1>5, ReturnAppSide DEF TypeInv, AppSide
    <2>2. OldSide' /\ Flags'
      BY <1>0, <1>5, ReturnAppFlags DEF TypeInv, OldSide, Flags, avVars
    <2> QED
      BY <1>0, <1>3, <1>5, <2>1, <2>2, FaultType DEF TypeInv, Bounds
  <1> QED
    BY <1>4, <1>5 DEF CreateAppVersion

LEMMA UpdateCurrentVersionType == TypeInv /\ UpdateCurrentVersion => TypeInv'
  <1> SUFFICES ASSUME TypeInv, UpdateCurrentVersion PROVE TypeInv'
    OBVIOUS
  <1>0. /\ UNCHANGED <<missed, revisions, av, known, avQueued, avVars, wv, block, crashes>>
        /\ appPc = "status" /\ Created' = Created
    BY DEF UpdateCurrentVersion, Created
  <1>1. app' = app \/ app' = [app EXCEPT !.currentVersion = VersionOf[appGen]]
    BY DEF UpdateCurrentVersion
  <1>2. app'.generation = app.generation /\ RevisionsInOrder'
    BY <1>0, <1>1, DeliveryAssumption DEF TypeInv, AppSide, RevisionsInOrder
  <1>3. AvSide'
    BY <1>0, AvSideKept
  <1>4. CASE /\ appPc' = "deprecate" /\ older' = appGen - 1
             /\ UNCHANGED <<appQueued, appGen, appFresh, oldFresh, failed, lost, faults>>
    <2>1. older' \in 0..MaxGeneration /\ older' < appGen
      BY <1>4, DeliveryAssumption DEF TypeInv, AppSide, Generations
    <2>2. AppSide'
      BY <1>0, <1>2, <1>4, <2>1 DEF TypeInv, AppSide, Deprecating
    <2>3. OldSide'
      BY <1>0, <1>4 DEF TypeInv, OldSide
    <2>4. Flags'
      BY <1>0, <1>4 DEF TypeInv, Flags, avVars
    <2> QED
      BY <1>0, <1>3, <1>4, <2>2, <2>3, <2>4 DEF TypeInv, Bounds
  <1>5. CASE /\ ReturnApp(TRUE) /\ lost' = TRUE
             /\ Fault \/ UNCHANGED faults
    <2>1. AppSide'
      BY <1>0, <1>2, <1>5, ReturnAppSide DEF TypeInv, AppSide
    <2>2. OldSide' /\ Flags'
      BY <1>0, <1>5, ReturnAppFlags DEF TypeInv, OldSide, Flags, avVars
    <2> QED
      BY <1>0, <1>3, <1>5, <2>1, <2>2, FaultType DEF TypeInv, Bounds
  <1> QED
    BY <1>4, <1>5 DEF UpdateCurrentVersion

\* What is deprecated is an app version again.
LEMMA DeprecatedType ==
    ASSUME NEW item \in AppVersions
    PROVE  /\ DeprecateCompletely(item) \in AppVersions
           /\ DeprecateCompletely(item).status = StateDeprecated
           /\ DeprecateCompletely(item).phaseStatus = [p \in Phases |-> StateDeprecated]
           /\ DeprecateCompletely(item).endTime = item.endTime
  BY DEF DeprecateCompletely, AppVersions, KeptnStates

LEMMA GetOlderAppVersionType == TypeInv /\ GetOlderAppVersion => TypeInv'
  <1> SUFFICES ASSUME TypeInv, GetOlderAppVersion PROVE TypeInv'
    OBVIOUS
  <1>0. /\ UNCHANGED <<app, revisions, av, known, avQueued, avVars, wv, block, crashes>>
        /\ appPc = "deprecate"
    BY DEF GetOlderAppVersion
  <1>1. RevisionsInOrder' /\ Created' = Created
    BY <1>0 DEF TypeInv, AppSide, RevisionsInOrder, Created
  <1>2. AvSide'
    BY <1>0, <1>1, AvSideKept
  <1>3. /\ older \in 0..MaxGeneration /\ older < appGen /\ appGen \in Generations
        /\ missed \subseteq Created
    BY <1>0 DEF TypeInv, AppSide, Deprecating
  <1>8. missed' \subseteq Created'
    BY <1>1, <1>3 DEF GetOlderAppVersion
  <1>4. CASE /\ older > 0 /\ appPc' = "write"
             /\ (oldFresh' = TRUE /\ IsOlderRevision(older)) \/ oldFresh' = FALSE
             /\ UNCHANGED <<appQueued, appGen, appFresh, older, failed, lost, faults>>
    <2>1. older \in Generations
      BY <1>3, <1>4 DEF Generations
    <2>2. AppSide'
      BY <1>0, <1>1, <1>3, <1>4, <1>8, <2>1 DEF TypeInv, AppSide, Deprecating
    <2>3. OldSide'
      BY <1>0, <1>4 DEF OldSide, IsOlderRevision
    <2>4. Flags'
      BY <1>0, <1>4 DEF TypeInv, Flags, avVars
    <2> QED
      BY <1>0, <1>2, <1>4, <2>2, <2>3, <2>4 DEF TypeInv, Bounds
  <1>5. CASE ReturnApp(failed) /\ lost' = (lost \/ failed) /\ UNCHANGED faults
    <2>1. AppSide'
      BY <1>1, <1>5, <1>8, ReturnAppSide DEF TypeInv
    <2>2. failed \in BOOLEAN /\ lost' \in BOOLEAN
      BY <1>5 DEF TypeInv, Flags
    <2>3. OldSide' /\ Flags'
      BY <1>0, <1>5, <2>2, ReturnAppFlags DEF TypeInv, OldSide, Flags, avVars
    <2> QED
      BY <1>0, <1>2, <1>5, <2>1, <2>3 DEF TypeInv, Bounds
  <1>6. CASE /\ older > 0 /\ older' = older - 1
             /\ (Fault /\ failed' = TRUE) \/ UNCHANGED <<failed, faults>>
             /\ UNCHANGED <<appQueued, appPc, appGen, appFresh, oldFresh, lost>>
    <2>1. older' < appGen /\ older' \in 0..MaxGeneration
      BY <1>3, <1>6, DeliveryAssumption DEF Generations
    <2>2. AppSide'
      BY <1>0, <1>1, <1>6, <1>8, <2>1 DEF TypeInv, AppSide, Deprecating
    <2>3. OldSide'
      BY <1>0, <1>6 DEF TypeInv, OldSide
    <2>4. Flags'
      BY <1>0, <1>6 DEF TypeInv, Flags, avVars
    <2> QED
      BY <1>0, <1>2, <1>6, <2>2, <2>3, <2>4, FaultType DEF TypeInv, Bounds
  <1> QED
    BY <1>4, <1>5, <1>6 DEF GetOlderAppVersion

LEMMA DeprecateOlderAppVersionType == TypeInv /\ DeprecateOlderAppVersion => TypeInv'
  <1> SUFFICES ASSUME TypeInv, DeprecateOlderAppVersion PROVE TypeInv'
    OBVIOUS
  <1>0. /\ UNCHANGED <<app, appQueued, appGen, appFresh, lost, missed, revisions, known,
                       avQueued, avPc, gen, local, ph, oldPhase, wv, block, crashes>>
        /\ appPc = "write" /\ appPc' = "deprecate" /\ older' = older - 1 /\ oldFresh' = FALSE
    BY DEF DeprecateOlderAppVersion
  <1>1. older' \in 0..MaxGeneration /\ older' < appGen
    BY <1>0, DeliveryAssumption DEF TypeInv, AppSide, Deprecating, Generations
  <1>2. AppSide'
    BY <1>0, <1>1 DEF TypeInv, AppSide, RevisionsInOrder, Deprecating, Created
  <1>3. av' \in [Generations -> AppVersions]
    BY DeprecatedType DEF DeprecateOlderAppVersion, TypeInv, AvSide
  <1>4. AvSide'
    BY <1>0, <1>3 DEF TypeInv, AvSide, InPhase, Created
  <1>5. Flags' /\ OldSide'
    BY <1>0 DEF TypeInv, Flags, OldSide, DeprecateOlderAppVersion
  <1>6. faults' \in 0..(MaxDisturbances - crashes)
    BY FaultType DEF TypeInv, Bounds, DeprecateOlderAppVersion
  <1> QED
    BY <1>0, <1>2, <1>4, <1>5, <1>6 DEF TypeInv, Bounds

LEMMA ChangeAppType == TypeInv /\ ChangeApp => TypeInv'
  <1> SUFFICES ASSUME TypeInv, ChangeApp PROVE TypeInv'
    OBVIOUS
  <1>0. /\ UNCHANGED <<appPc, appGen, older, oldFresh, failed, lost, missed, revisions, av,
                       known, avQueued, avVars, wv, block, faults, crashes>>
        /\ appQueued' = TRUE /\ appFresh' = FALSE
    BY DEF ChangeApp, used
  <1>1. app \in [generation : Generations, currentVersion : Versions \cup {NoVersion}]
    BY DEF TypeInv, AppSide, RevisionsInOrder
  <1>2. /\ app' \in [generation : Generations, currentVersion : Versions \cup {NoVersion}]
        /\ app'.generation = app.generation + 1
        /\ app.generation \in Nat
    BY <1>1, DeliveryAssumption DEF ChangeApp, Generations
  <1>3. \A i \in DOMAIN revisions : revisions[i] <= app'.generation
    <2>1. revisions \in Seq(Generations)
      BY DEF TypeInv, AppSide, RevisionsInOrder
    <2>2. \A i \in DOMAIN revisions : revisions[i] \in Generations
      BY <2>1
    <2> QED
      BY <1>2, <2>2 DEF Generations, TypeInv, AppSide, RevisionsInOrder
  <1>4. appGen <= app'.generation
    BY <1>2 DEF TypeInv, AppSide, Generations
  <1>5. AppSide'
    BY <1>0, <1>2, <1>3, <1>4 DEF TypeInv, AppSide, RevisionsInOrder, Deprecating, Created
  <1>6. AvSide'
    BY <1>0, AvSideKept DEF Created
  <1>7. Flags' /\ OldSide'
    BY <1>0 DEF TypeInv, Flags, OldSide, avVars
  <1> QED
    BY <1>0, <1>5, <1>6, <1>7 DEF TypeInv, Bounds

LEMMA CrashType == TypeInv /\ Crash => TypeInv'
  <1> SUFFICES ASSUME TypeInv, Crash PROVE TypeInv'
    OBVIOUS
  <1>1. AppSide'
    BY ReturnAppSide DEF Crash, TypeInv, AppSide, RevisionsInOrder, Created
  <1>2. AvSide'
    BY NewAppVersionType DEF Crash, TypeInv, AvSide, InPhase, Created, AppPreDeployTasks, NoPhase
  <1>3. lost' \in BOOLEAN /\ fresh' \in BOOLEAN /\ block' \in BOOLEAN
    BY DEF Crash, TypeInv, Flags
  <1>4. Flags' /\ OldSide'
    BY <1>3, ReturnAppFlags DEF Crash, TypeInv, Flags, OldSide
  <1>5. Bounds'
    BY DeliveryAssumption DEF Crash, TypeInv, Bounds
  <1> QED
    BY <1>1, <1>2, <1>4, <1>5 DEF TypeInv

LEMMA OthersType ==
    ASSUME TypeInv, UNCHANGED others, wv' \in [Workloads -> KeptnStates \cup {"absent"}]
    PROVE  TypeInv'
  <1>1. AppSide'
    BY DEF TypeInv, AppSide, RevisionsInOrder, Deprecating, Created, others, appVars
  <1>2. AvSide'
    BY AvSideKept DEF Created, others
  <1>3. Flags' /\ OldSide'
    BY DEF TypeInv, Flags, OldSide, others, appVars, avVars
  <1> QED
    BY <1>1, <1>2, <1>3 DEF TypeInv, Bounds, others, used

LEMMA WorkloadStepsType ==
    ASSUME TypeInv, NEW w \in Workloads, WorkloadSteps(w)
    PROVE  TypeInv'
  <1>1. wv' \in [Workloads -> KeptnStates \cup {"absent"}]
    BY DEF TypeInv, Bounds, WorkloadSteps, WorkloadAppears, WorkloadBegins, WorkloadEnds,
       KeptnStates
  <1> QED
    BY <1>1, OthersType DEF WorkloadSteps, WorkloadAppears, WorkloadBegins, WorkloadEnds

LEMMA SyncType ==
    ASSUME TypeInv, NEW g \in Generations, Sync(g)
    PROVE  TypeInv'
  <1>1. /\ UNCHANGED <<appVars, revisions, av, avVars, wv, block, used>> /\ Created' = Created
        /\ g \in Created /\ known' = known \cup {g} /\ avQueued' = avQueued \cup {g}
    BY DEF Sync, Created
  <1>2. AppSide'
    BY <1>1 DEF TypeInv, AppSide, RevisionsInOrder, Deprecating, appVars
  <1>3. AvSide'
    BY <1>1 DEF TypeInv, AvSide, avVars, InPhase
  <1>4. Flags' /\ OldSide'
    BY <1>1 DEF TypeInv, Flags, OldSide, appVars, avVars
  <1> QED
    BY <1>1, <1>2, <1>3, <1>4 DEF TypeInv, Bounds, used

-----------------------------------------------------------------------------
(***************************************************************************)
(* The steps of the KeptnAppVersion controller.                            *)
(***************************************************************************)
LEMMA AvTypeFromParts ==
    ASSUME TypeInv, UNCHANGED <<appKept, revisions, known, wv, block, crashes>>,
           av' \in [Generations -> AppVersions], avQueued' \subseteq known,
           avPc' \in {"idle", "phase", "checks", "workloads", "complete", "finish"},
           gen' \in Generations, avPc' # "idle" => gen' \in known, local' \in AppVersions,
           ph' \in 1..7, InPhase' => ph' \in Phases, oldPhase' \in 0..7,
           fresh' \in BOOLEAN, oldFresh' \in BOOLEAN,
           oldFresh' => oldFresh /\ av'[older] = av[older],
           faults' \in 0..(MaxDisturbances - crashes)
    PROVE  TypeInv'
  <1>1. AppSide' /\ Created' = Created
    BY DEF TypeInv, AppSide, RevisionsInOrder, Deprecating, Created, appKept
  <1>2. AvSide'
    BY <1>1 DEF TypeInv, AvSide
  <1>3. OldSide'
    BY DEF TypeInv, OldSide, appKept
  <1>4. Flags'
    BY DEF TypeInv, Flags, appKept
  <1> QED
    BY <1>1, <1>2, <1>3, <1>4 DEF TypeInv, Bounds

LEMMA UpdateType ==
    ASSUME TypeInv, NEW new \in AppVersions, NEW accepted \in BOOLEAN, Update(new, accepted)
    PROVE  /\ av' \in [Generations -> AppVersions]
           /\ fresh' \in BOOLEAN
           /\ oldFresh' \in BOOLEAN
           /\ oldFresh' => oldFresh /\ av'[older] = av[older]
           /\ faults' \in 0..(MaxDisturbances - crashes)
  <1>0. /\ av \in [Generations -> AppVersions] /\ gen \in Generations
        /\ fresh \in BOOLEAN /\ oldFresh \in BOOLEAN /\ faults \in 0..(MaxDisturbances - crashes)
    BY DEF TypeInv, AvSide, Flags, Bounds
  <1>1. av' \in [Generations -> AppVersions]
    BY <1>0 DEF Update
  <1>2. fresh' \in BOOLEAN
    BY <1>0 DEF Update
  <1>3. oldFresh' \in BOOLEAN
    BY <1>0 DEF Update
  <1>4. oldFresh' => oldFresh /\ av'[older] = av[older]
    <2>1. /\ \/ UNCHANGED <<av, oldFresh>>
             \/ av' = [av EXCEPT ![gen] = new] /\ oldFresh' = (oldFresh /\ older # gen)
      BY DEF Update
    <2>2. oldFresh /\ older # gen => [av EXCEPT ![gen] = new][older] = av[older]
      BY <1>0 DEF TypeInv, OldSide, AppSide
    <2> QED
      BY <2>1, <2>2, Zenon
  <1>5. faults' \in 0..(MaxDisturbances - crashes)
    BY <1>0, FaultType DEF Update, TypeInv
  <1> QED
    BY <1>1, <1>2, <1>3, <1>4, <1>5

LEMMA ReturnType ==
    ASSUME TypeInv, avPc # "idle", NEW r, Return(r)
    PROVE  /\ avQueued' \subseteq known
           /\ avPc' = "idle" /\ gen' \in Generations /\ local' \in AppVersions
           /\ ph' \in 1..7 /\ ~InPhase' /\ oldPhase' \in 0..7
  BY NewAppVersionType DEF Return, TypeInv, AvSide, InPhase, AppPreDeployTasks, NoPhase

LEMMA WriteOrReturnType ==
    ASSUME TypeInv, InPhase, NEW new \in AppVersions, WriteOrReturn(new)
    PROVE  TypeInv'
  <1>0. UNCHANGED <<appKept, revisions, known, wv, block, crashes>> /\ avPc # "idle" /\ ph \in Phases
    BY DEF WriteOrReturn, InPhase, TypeInv, AvSide
  <1>1. CASE /\ Update(new, TRUE) /\ local' = new /\ avPc' = "complete"
             /\ UNCHANGED <<avQueued, gen, ph, oldPhase>>
    <2>1. /\ avQueued' \subseteq known /\ gen' \in Generations /\ gen' \in known
          /\ ph' \in 1..7 /\ ph' \in Phases /\ oldPhase' \in 0..7
      BY <1>0, <1>1 DEF TypeInv, AvSide
    <2> QED
      BY <1>0, <1>1, <2>1, UpdateType, AvTypeFromParts
  <1>2. CASE Update(new, FALSE) /\ Return(TRUE)
    BY <1>0, <1>2, UpdateType, ReturnType, AvTypeFromParts
  <1> QED
    BY <1>1, <1>2 DEF WriteOrReturn

\* A new state of one phase.
LEMMA PhaseUpdateType ==
    ASSUME NEW item \in AppVersions, NEW p \in Phases, NEW state \in KeptnStates
    PROVE  /\ [item EXCEPT !.phaseStatus[p] = state] \in AppVersions
           /\ [item EXCEPT !.phaseStatus[p] = state].status = item.status
           /\ [item EXCEPT !.phaseStatus[p] = state].endTime = item.endTime
           /\ [item EXCEPT !.phaseStatus[p] = state].phaseStatus =
                    [item.phaseStatus EXCEPT ![p] = state]
  BY DEF AppVersions

LEMMA StartReconcileType ==
    ASSUME TypeInv, NEW g \in Generations, StartReconcile(g)
    PROVE  TypeInv'
  <1>1. /\ UNCHANGED <<appVars, revisions, av, known, ph, oldPhase, wv, block, used>>
        /\ avPc' = "phase" /\ gen' = g /\ local' = av[g] /\ fresh' = TRUE
        /\ g \in avQueued /\ avQueued' = avQueued \ {g}
    BY DEF StartReconcile
  <1>2. /\ av' \in [Generations -> AppVersions] /\ avQueued' \subseteq known
        /\ gen' \in known /\ local' \in AppVersions /\ ph' \in 1..7 /\ oldPhase' \in 0..7
        /\ ~InPhase'
    BY <1>1 DEF TypeInv, AvSide, InPhase
  <1>3. /\ UNCHANGED <<appKept, crashes>> /\ faults' \in 0..(MaxDisturbances - crashes)
        /\ oldFresh' \in BOOLEAN /\ (oldFresh' => oldFresh) /\ fresh' \in BOOLEAN
    BY <1>1 DEF appVars, appKept, used, TypeInv, Flags, Bounds
  <1> QED
    BY <1>1, <1>2, <1>3, AvTypeFromParts

LEMMA EnterPhaseType == TypeInv /\ EnterPhase => TypeInv'
  <1> SUFFICES ASSUME TypeInv, EnterPhase PROVE TypeInv'
    OBVIOUS
  <1>1. /\ UNCHANGED <<appKept, revisions, av, known, fresh, oldFresh, wv, block, faults,
                       crashes>>
        /\ avPc = "phase"
    BY DEF EnterPhase, appVars, appKept, used
  <1>2. /\ av' \in [Generations -> AppVersions] /\ fresh' \in BOOLEAN
        /\ oldFresh' \in BOOLEAN /\ faults' \in 0..(MaxDisturbances - crashes)
        /\ oldFresh' => oldFresh /\ av'[older] = av[older]
    BY <1>1 DEF TypeInv, AvSide, Flags, Bounds
  <1>3. PICK p \in ph..Promotion :
            \/ Return(FALSE)
            \/ /\ local' = [local EXCEPT !.currentPhase = p]
               /\ avPc' = IF p = AppDeploy THEN "workloads" ELSE "checks"
               /\ ph' = p
               /\ oldPhase' = local.currentPhase
               /\ UNCHANGED <<avQueued, gen>>
    BY DEF EnterPhase
  <1>4. CASE Return(FALSE)
    BY <1>1, <1>2, <1>4, ReturnType, AvTypeFromParts
  <1>5. CASE ~Return(FALSE)
    <2>1. ph \in 1..7 /\ p \in Phases /\ p \in 1..7 /\ p \in 0..7
      BY DEF TypeInv, AvSide, Phases, Promotion
    <2>2. /\ local' \in AppVersions /\ oldPhase' \in 0..7
          /\ avQueued' \subseteq known /\ gen' \in Generations /\ gen' \in known
      BY <1>1, <1>3, <1>5, <2>1 DEF TypeInv, AvSide, AppVersions
    <2> QED
      BY <1>1, <1>2, <1>3, <1>5, <2>1, <2>2, AvTypeFromParts
  <1> QED
    BY <1>4, <1>5

LEMMA AllPhasesPassedType == TypeInv /\ AllPhasesPassed => TypeInv'
  <1> SUFFICES ASSUME TypeInv, AllPhasesPassed PROVE TypeInv'
    OBVIOUS
  <1>1. /\ UNCHANGED <<appKept, revisions, av, known, avQueued, gen, local, fresh, oldFresh, ph,
                       oldPhase, wv, block, faults, crashes>>
        /\ avPc = "phase" /\ avPc' = "finish"
    BY DEF AllPhasesPassed, appVars, appKept, used
  <1>2. /\ av' \in [Generations -> AppVersions] /\ fresh' \in BOOLEAN
        /\ oldFresh' \in BOOLEAN /\ faults' \in 0..(MaxDisturbances - crashes)
        /\ oldFresh' => oldFresh /\ av'[older] = av[older]
    BY <1>1 DEF TypeInv, AvSide, Flags, Bounds
  <1> QED
    BY <1>1, <1>2, AvTypeFromParts DEF TypeInv, AvSide, InPhase

LEMMA CheckStateType ==
    ASSUME NEW p, NEW s
    PROVE  /\ CheckState(p, s) \in KeptnStates \ {StateDeprecated}
           /\ CheckState(p, s) = StateWarning => ~block
  BY SummaryStateType, WarningUnblocked DEF CheckState

LEMMA WorkloadsStateType ==
    ASSUME NEW g
    PROVE  WorkloadsState(g) \in KeptnStates \ {StateDeprecated, StateWarning}
  BY SummaryStateType DEF WorkloadsState

LEMMA ReconcileChecksType ==
    ASSUME TypeInv, NEW s, ReconcileChecks(s)
    PROVE  TypeInv'
  <1>1. InPhase /\ local \in AppVersions /\ ph \in Phases
    BY DEF ReconcileChecks, InPhase, TypeInv, AvSide
  <1> QED
    BY <1>1, CheckStateType, PhaseUpdateType, WriteOrReturnType DEF ReconcileChecks

LEMMA ReconcileWorkloadsType == TypeInv /\ ReconcileWorkloads => TypeInv'
  <1> SUFFICES ASSUME TypeInv, ReconcileWorkloads PROVE TypeInv'
    OBVIOUS
  <1>1. InPhase /\ local \in AppVersions /\ AppDeploy \in Phases
    BY DEF ReconcileWorkloads, InPhase, TypeInv, AvSide, AppDeploy, Phases
  <1> QED
    BY <1>1, WorkloadsStateType, PhaseUpdateType, WriteOrReturnType DEF ReconcileWorkloads

LEMMA ListFailsType == TypeInv /\ ListFails => TypeInv'
  <1> SUFFICES ASSUME TypeInv, ListFails PROVE TypeInv'
    OBVIOUS
  <1> DEFINE new == [local EXCEPT !.phaseStatus[AppDeploy] = StateUnknown]
  <1>1. /\ InPhase /\ local \in AppVersions /\ AppDeploy \in Phases /\ avPc = "workloads"
        /\ StateUnknown \in KeptnStates
    BY DEF ListFails, InPhase, TypeInv, AvSide, AppDeploy, Phases, KeptnStates
  <1>2. new \in AppVersions
    BY <1>1, PhaseUpdateType
  <1>3. /\ UNCHANGED <<appKept, revisions, known, avQueued, gen, fresh, ph, oldPhase, wv, block,
                       crashes>>
        /\ av' = [av EXCEPT ![gen] = new] /\ local' = new /\ avPc' = "complete"
        /\ oldFresh' = (oldFresh /\ older # gen) /\ Fault
    BY DEF ListFails
  <1> HIDE DEF new
  <1>4. av' \in [Generations -> AppVersions] /\ gen \in Generations
    BY <1>2, <1>3 DEF TypeInv, AvSide
  <1>7. oldFresh' => oldFresh /\ av'[older] = av[older]
    <2>1. oldFresh /\ older # gen => av'[older] = av[older]
      BY <1>3 DEF TypeInv, AvSide, OldSide, AppSide
    <2> QED
      BY <1>3, <2>1, Zenon
  <1>5. oldFresh' \in BOOLEAN /\ fresh' \in BOOLEAN
    BY <1>3 DEF TypeInv, Flags
  <1>6. /\ avQueued' \subseteq known /\ gen' \in Generations /\ gen' \in known
        /\ ph' \in 1..7 /\ ph' \in Phases /\ oldPhase' \in 0..7
    BY <1>1, <1>3 DEF TypeInv, AvSide, InPhase
  <1> QED
    BY <1>2, <1>3, <1>4, <1>5, <1>6, <1>7, FaultType, AvTypeFromParts DEF TypeInv

LEMMA AfterPhaseType ==
    ASSUME NEW item \in AppVersions, NEW p \in Phases, NEW state
    PROVE  AfterPhase(item, p, state) \in AppVersions
  BY DEF AfterPhase, DeprecateRemainingPhases, AppVersions, KeptnStates

LEMMA CompletePhaseType == TypeInv /\ CompletePhase => TypeInv'
  <1> SUFFICES ASSUME TypeInv, CompletePhase PROVE TypeInv'
    OBVIOUS
  <1> DEFINE state == local.phaseStatus[ph]
             new   == AfterPhase(local, ph, state)
  <1>1. /\ avPc = "complete" /\ ph \in Phases /\ local \in AppVersions
        /\ UNCHANGED <<appKept, revisions, known, wv, block, crashes>>
    BY DEF CompletePhase, TypeInv, AvSide, InPhase
  <1>2. new \in AppVersions
    BY <1>1, AfterPhaseType
  <1>3. \/ UNCHANGED <<av, oldFresh, fresh, faults>>
        \/ \E accepted \in BOOLEAN : Update(new, accepted)
    BY DEF CompletePhase
  <1>4. \/ /\ local' = new /\ avPc' = "phase" /\ ph' = ph + 1
           /\ UNCHANGED <<avQueued, gen, oldPhase>>
        \/ Return(Requeues(state))
    BY DEF CompletePhase
  <1> HIDE DEF new
  <1>5. /\ av' \in [Generations -> AppVersions] /\ fresh' \in BOOLEAN
        /\ oldFresh' \in BOOLEAN /\ faults' \in 0..(MaxDisturbances - crashes)
        /\ oldFresh' => oldFresh /\ av'[older] = av[older]
    <2>1. CASE UNCHANGED <<av, oldFresh, fresh, faults>>
      BY <2>1 DEF TypeInv, AvSide, Flags, Bounds
    <2>2. CASE \E accepted \in BOOLEAN : Update(new, accepted)
      BY <1>2, <2>2, UpdateType
    <2> QED
      BY <1>3, <2>1, <2>2
  <1>6. CASE /\ local' = new /\ avPc' = "phase" /\ ph' = ph + 1
             /\ UNCHANGED <<avQueued, gen, oldPhase>>
    <2>1. ph' \in 1..7 /\ ~InPhase'
      BY <1>1, <1>6 DEF Phases, InPhase
    <2>2. /\ avQueued' \subseteq known /\ gen' \in Generations /\ gen' \in known
          /\ oldPhase' \in 0..7
      BY <1>1, <1>6 DEF TypeInv, AvSide
    <2> QED
      BY <1>1, <1>2, <1>5, <1>6, <2>1, <2>2, AvTypeFromParts
  <1>7. CASE Return(Requeues(state))
    BY <1>1, <1>5, <1>7, ReturnType, AvTypeFromParts
  <1> QED
    BY <1>4, <1>6, <1>7

LEMMA FinishedType ==
    ASSUME NEW item \in AppVersions
    PROVE  FinishedAppVersion(item) \in AppVersions
  <1>1. [item EXCEPT !.currentPhase = AppCompleted, !.status = StateSucceeded, !.endTime = TRUE]
            \in AppVersions
    <2>1. AppCompleted \in 0..7 /\ StateSucceeded \in KeptnStates
      BY DEF AppCompleted, KeptnStates
    <2> QED
      BY <2>1 DEF AppVersions
  <1> QED
    BY <1>1, Zenon DEF FinishedAppVersion

LEMMA FinishReconcileType == TypeInv /\ FinishReconcile => TypeInv'
  <1> SUFFICES ASSUME TypeInv, FinishReconcile PROVE TypeInv'
    OBVIOUS
  <1>1. /\ avPc = "finish" /\ FinishedAppVersion(local) \in AppVersions
        /\ UNCHANGED <<appKept, revisions, known, wv, block, crashes>>
    BY FinishedType DEF FinishReconcile, TypeInv, AvSide
  <1>2. PICK accepted \in BOOLEAN :
            Update(FinishedAppVersion(local), accepted) /\ Return(~accepted)
    BY DEF FinishReconcile
  <1> QED
    BY <1>1, <1>2, UpdateType, ReturnType, AvTypeFromParts

-----------------------------------------------------------------------------
LEMMA StepType == TypeInv /\ [Next]_vars => TypeInv'
  <1> SUFFICES ASSUME TypeInv, [Next]_vars PROVE TypeInv'
    OBVIOUS
  <1>1. CASE UNCHANGED vars
    BY <1>1, OthersType DEF vars, others, TypeInv, Bounds
  <1> QED
    BY <1>1, ReconcileAppType, CreateAppVersionType, UpdateCurrentVersionType,
       GetOlderAppVersionType, DeprecateOlderAppVersionType, StartReconcileType,
       EnterPhaseType, AllPhasesPassedType, ReconcileChecksType, ReconcileWorkloadsType,
       ListFailsType, CompletePhaseType, FinishReconcileType, ChangeAppType, CrashType,
       SyncType, WorkloadStepsType DEF Next, AppController, AppVersionController

\* The strengthened type invariant holds in every reachable state.
LEMMA TypeInvariant == Spec => []TypeInv
  BY InitType, StepType, PTL DEF Spec

\* The variables keep their types, and a generation of the app has at most
\* one app version, whatever fails after its creation (createAppVersion).
THEOREM TypeCorrect == Spec => []TypeOK
  BY TypeInvariant, TypeInvImplies, PTL

-----------------------------------------------------------------------------
(***************************************************************************)
(* What the status of an app version is worth.  Every copy of one is Sound *)
(* (the stored one and the one in memory), a current copy has the result   *)
(* of the stored one, and a reconciliation that has entered a phase works  *)
(* on an app version that has not ended.                                   *)
(***************************************************************************)
\* Passed for a given setting of blockDeployment.
Goes(item, p, b) ==
    /\ p = AppDeploy => item.phaseStatus[p] = StateSucceeded
    /\ p = Promotion => ~PromotionTasksEnabled \/ IsCompleted(item.phaseStatus[p])
    /\ p \notin {AppDeploy, Promotion} => IsPhaseSucceeded(item.phaseStatus[p], b)

\* A deployment that is recorded as succeeded has delivered every workload.
Delivered(item, g, w) ==
    item.phaseStatus[AppDeploy] = StateSucceeded =>
        \A x \in WorkloadsOf[g] : w[x] = StateSucceeded

FailedAt(item, p, b) ==
    /\ item.phaseStatus[p] = StateFailed
    /\ \A q \in Phases : q < p => Goes(item, q, b)
    /\ \A q \in Phases : q > p => item.phaseStatus[q] = StateDeprecated

Sound(item, g, b, w) ==
    /\ item.status = StateFailed => item.endTime /\ \E p \in Phases : FailedAt(item, p, b)
    /\ item.status = StateSucceeded => item.endTime /\ \A p \in Phases : Goes(item, p, b)
    /\ item.status = StateDeprecated => item.phaseStatus[AppPreDeployTasks] = StateDeprecated
    /\ Delivered(item, g, w)

SameResult(item1, item2) ==
    /\ item1.status = item2.status
    /\ item1.phaseStatus = item2.phaseStatus
    /\ item1.endTime = item2.endTime

Current(item, stored) == SameResult(item, stored) /\ (Ended(item) => item = stored)

ItemInv ==
    /\ TypeInv
    /\ \A g \in Generations : Sound(av[g], g, block, wv)
    /\ Sound(local, gen, block, wv)
    /\ avPc # "idle" /\ fresh => Current(local, av[gen])
    /\ avPc = "idle" => ph = AppPreDeployTasks
    /\ avPc = "workloads" => ph = AppDeploy
    /\ avPc = "checks" => ph # AppDeploy
    /\ InPhase => ~Ended(local)
    /\ avPc = "phase" \/ InPhase => \A q \in Phases : q < ph => Goes(local, q, block)
    /\ avPc = "complete" => (Continues(local.phaseStatus[ph]) => Goes(local, ph, block))
    /\ avPc = "finish" => \A p \in Phases : Goes(local, p, block)

\* The step part of EndIsFinal.
EndKept ==
    \A g \in Generations :
        Ended(av[g]) =>
            \/ av'[g] = av[g]
            \/ /\ av[g].status # StateDeprecated
               /\ av'[g] = DeprecateCompletely(av[g])

LEMMA PassedGoes ==
    ASSUME NEW item, NEW p
    PROVE  Passed(item, p) <=> Goes(item, p, block)
  BY DEF Passed, Goes, IsSucceeded, AppDeploy, Promotion

LEMMA SoundNew ==
    ASSUME NEW g, NEW b, NEW w
    PROVE  Sound(NewAppVersion, g, b, w)
  BY DEF Sound, Delivered, NewAppVersion, StatePending, StateFailed, StateSucceeded,
     StateDeprecated, AppDeploy, Phases

LEMMA SoundSame ==
    ASSUME NEW item1, NEW item2, NEW g, NEW b, NEW w,
           SameResult(item2, item1), Sound(item1, g, b, w)
    PROVE  /\ Sound(item2, g, b, w)
           /\ \A p : Goes(item1, p, b) => Goes(item2, p, b)
           /\ Ended(item2) <=> Ended(item1)
  BY DEF Sound, SameResult, FailedAt, Delivered, Goes, Ended

\* A workload that was delivered stays so.
LEMMA SoundLater ==
    ASSUME NEW item, NEW g \in Generations, NEW b, NEW w1, NEW w2, Sound(item, g, b, w1),
           \A x \in Workloads : w1[x] = StateSucceeded => w2[x] = StateSucceeded
    PROVE  Sound(item, g, b, w2)
  <1>1. WorkloadsOf[g] \subseteq Workloads
    BY DeliveryAssumption
  <1> QED
    BY <1>1 DEF Sound, Delivered

\* The deprecation of a whole app version.
LEMMA SoundDeprecated ==
    ASSUME NEW item \in AppVersions, NEW g, NEW b, NEW w
    PROVE  Sound(DeprecateCompletely(item), g, b, w)
  <1>1. /\ DeprecateCompletely(item).status = StateDeprecated
        /\ \A p \in Phases : DeprecateCompletely(item).phaseStatus[p] = StateDeprecated
    BY DeprecatedType
  <1> QED
    BY <1>1 DEF Sound, Delivered, StateDeprecated, StateFailed, StateSucceeded, Phases,
       AppPreDeployTasks, AppDeploy

\* The new state of the phase being handled.
LEMMA RecordSound ==
    ASSUME ItemInv, InPhase, NEW state \in KeptnStates \ {StateDeprecated},
           NEW new \in AppVersions,
           new.status = local.status, new.endTime = local.endTime,
           new.phaseStatus = [local.phaseStatus EXCEPT ![ph] = state],
           Delivered(new, gen, wv)
    PROVE  /\ Sound(new, gen, block, wv)
           /\ ~Ended(new)
           /\ \A q \in Phases : q < ph => Goes(new, q, block)
           /\ new.phaseStatus[ph] = state
  <1>1. /\ ph \in Phases /\ local \in AppVersions /\ ~Ended(local)
        /\ \A q \in Phases : q < ph => Goes(local, q, block)
    BY DEF ItemInv, TypeInv, AvSide
  <1>2. \A q \in Phases : q < ph => new.phaseStatus[q] = local.phaseStatus[q]
    BY <1>1 DEF AppVersions, Phases
  <1>3. new.phaseStatus[ph] = state
    BY <1>1 DEF AppVersions
  <1>4. \A q \in Phases : q < ph => Goes(new, q, block)
    BY <1>1, <1>2 DEF Goes
  <1>5. ~Ended(new)
    BY <1>1 DEF Ended
  <1> QED
    BY <1>3, <1>4, <1>5 DEF Sound, Ended

\* handleCompletedPhase.
LEMMA CompletionSound ==
    ASSUME ItemInv, avPc = "complete"
    PROVE  Sound(AfterPhase(local, ph, local.phaseStatus[ph]), gen, block, wv)
  <1> DEFINE state == local.phaseStatus[ph]
             new   == AfterPhase(local, ph, state)
  <1>1. /\ ph \in Phases /\ local \in AppVersions /\ ~Ended(local)
        /\ \A q \in Phases : q < ph => Goes(local, q, block)
        /\ Sound(local, gen, block, wv)
    BY DEF ItemInv, TypeInv, AvSide, InPhase
  <1>2. CASE state = StateFailed
    <2>1. /\ new.status = StateFailed /\ new.endTime = TRUE
          /\ \A q \in Phases : new.phaseStatus[q] =
                IF q > ph THEN StateDeprecated ELSE local.phaseStatus[q]
      BY <1>1, <1>2 DEF AfterPhase, DeprecateRemainingPhases, AppVersions
    <2> HIDE DEF new
    <2>2. FailedAt(new, ph, block)
      BY <1>1, <1>2, <2>1 DEF FailedAt, Goes, Phases
    <2>3. Delivered(new, gen, wv)
      BY <1>1, <2>1 DEF Sound, Delivered, StateDeprecated, StateSucceeded, AppDeploy, Phases
    <2>4. Sound(new, gen, block, wv)
      BY <1>1, <2>1, <2>2, <2>3 DEF Sound, StateFailed, StateSucceeded, StateDeprecated
    <2> QED
      BY <2>4 DEF new
  <1>3. CASE state # StateFailed /\ IsCompleted(state)
    BY <1>1, <1>3 DEF AfterPhase
  <1>4. CASE state # StateFailed /\ ~IsCompleted(state)
    <2>1. /\ new.status = StateProgressing /\ new.phaseStatus = local.phaseStatus
      BY <1>1, <1>4 DEF AfterPhase, AppVersions
    <2> HIDE DEF new
    <2>2. Sound(new, gen, block, wv)
      BY <1>1, <2>1 DEF Sound, Delivered, StateProgressing, StateFailed, StateSucceeded,
         StateDeprecated
    <2> QED
      BY <2>2 DEF new
  <1> QED
    BY <1>2, <1>3, <1>4

LEMMA FinishedSound ==
    ASSUME ItemInv, avPc = "finish"
    PROVE  /\ Sound(FinishedAppVersion(local), gen, block, wv)
           /\ Ended(local) => FinishedAppVersion(local) = local
  <1> DEFINE new == FinishedAppVersion(local)
  <1>1. /\ local \in AppVersions /\ Sound(local, gen, block, wv)
        /\ \A p \in Phases : Goes(local, p, block)
    BY DEF ItemInv, TypeInv, AvSide
  <1>2. Ended(local) => local.endTime
    <2>1. ~IsPhaseSucceeded(StateDeprecated, block)
      BY DEF IsPhaseSucceeded, StateDeprecated, StateSucceeded, StateWarning
    <2>2. Goes(local, AppPreDeployTasks, block)
      BY <1>1 DEF AppPreDeployTasks, Phases
    <2>3. IsPhaseSucceeded(local.phaseStatus[AppPreDeployTasks], block)
      BY <2>2 DEF Goes, AppPreDeployTasks, AppDeploy, Promotion
    <2>4. local.status # StateDeprecated
      BY <1>1, <2>1, <2>3 DEF Sound
    <2> QED
      BY <1>1, <2>4 DEF Sound, Ended
  <1>3. CASE local.endTime
    BY <1>1, <1>3 DEF FinishedAppVersion
  <1>4. CASE ~local.endTime
    <2>1. /\ new.status = StateSucceeded /\ new.endTime = TRUE
          /\ new.phaseStatus = local.phaseStatus
      BY <1>1, <1>4 DEF FinishedAppVersion, AppVersions
    <2> HIDE DEF new
    <2>2. \A p \in Phases : Goes(new, p, block)
      BY <1>1, <2>1 DEF Goes
    <2>3. Sound(new, gen, block, wv)
      BY <1>1, <2>1, <2>2 DEF Sound, Delivered, StateSucceeded, StateFailed, StateDeprecated
    <2> QED
      BY <1>2, <1>4, <2>3 DEF new
  <1> QED
    BY <1>3, <1>4

-----------------------------------------------------------------------------
(***************************************************************************)
(* ItemInv is inductive, and no step changes an app version that has       *)
(* ended, unless it deprecates it.                                         *)
(***************************************************************************)
\* What the app versions become, and what a reconciliation holds of one.
StoredWell == EndKept /\ \A g \in Generations : Sound(av'[g], g, block, wv)

HeldWell ==
    /\ Sound(local', gen', block, wv)
    /\ avPc' # "idle" /\ fresh' => Current(local', av'[gen'])
    /\ avPc' = "idle" => ph' = AppPreDeployTasks
    /\ avPc' = "workloads" => ph' = AppDeploy
    /\ avPc' = "checks" => ph' # AppDeploy
    /\ InPhase' => ~Ended(local')
    /\ avPc' = "phase" \/ InPhase' => \A q \in Phases : q < ph' => Goes(local', q, block)
    /\ avPc' = "complete" => (Continues(local'.phaseStatus[ph']) => Goes(local', ph', block))
    /\ avPc' = "finish" => \A p \in Phases : Goes(local', p, block)

Holds == ItemInv' /\ EndKept

LEMMA ItemFromParts ==
    ASSUME ItemInv, TypeInv', UNCHANGED <<block, wv>>, StoredWell, HeldWell
    PROVE  Holds
  BY DEF ItemInv, StoredWell, HeldWell, Holds

LEMMA StoredSame ==
    ASSUME ItemInv, UNCHANGED av
    PROVE  StoredWell
  BY DEF ItemInv, StoredWell, EndKept

LEMMA HeldReturn ==
    ASSUME avPc' = "idle", local' = NewAppVersion, ph' = AppPreDeployTasks
    PROVE  HeldWell
  BY SoundNew DEF HeldWell, InPhase

LEMMA UpdateStores ==
    ASSUME ItemInv, avPc # "idle", NEW new, NEW accepted \in BOOLEAN, Update(new, accepted),
           Sound(new, gen, block, wv), Ended(local) => new = local
    PROVE  /\ StoredWell
           /\ accepted => av'[gen] = new
           /\ ~accepted /\ fresh' => fresh /\ av'[gen] = av[gen]
  <1>0. av \in [Generations -> AppVersions] /\ gen \in Generations
    BY DEF ItemInv, TypeInv, AvSide
  <1>1. /\ \/ UNCHANGED av
           \/ fresh /\ av' = [av EXCEPT ![gen] = new]
        /\ accepted => av' = [av EXCEPT ![gen] = new]
        /\ ~accepted /\ fresh' => fresh /\ (UNCHANGED av \/ new = av[gen])
    BY DEF Update
  <1>2. CASE UNCHANGED av
    BY <1>0, <1>1, <1>2, StoredSame
  <1>3. CASE fresh /\ av' = [av EXCEPT ![gen] = new]
    <2>1. av'[gen] = new /\ \A g \in Generations : g # gen => av'[g] = av[g]
      BY <1>0, <1>3
    <2>2. Ended(av[gen]) => new = av[gen]
      BY <1>3 DEF ItemInv, Current, SameResult, Ended
    <2>3. EndKept
      BY <2>1, <2>2 DEF EndKept
    <2>4. \A g \in Generations : Sound(av'[g], g, block, wv)
      BY <2>1 DEF ItemInv
    <2> QED
      BY <1>1, <2>1, <2>3, <2>4 DEF StoredWell
  <1> QED
    BY <1>1, <1>2, <1>3

LEMMA WriteOrReturnItem ==
    ASSUME ItemInv, TypeInv', InPhase, NEW new, WriteOrReturn(new),
           Sound(new, gen, block, wv), ~Ended(new),
           \A q \in Phases : q < ph => Goes(new, q, block),
           Continues(new.phaseStatus[ph]) => Goes(new, ph, block)
    PROVE  Holds
  <1>0. UNCHANGED <<block, wv>> /\ avPc # "idle" /\ ~Ended(local)
    BY DEF WriteOrReturn, InPhase, ItemInv
  <1>1. CASE /\ Update(new, TRUE) /\ local' = new /\ avPc' = "complete"
             /\ UNCHANGED <<avQueued, gen, ph, oldPhase>>
    <2>1. StoredWell /\ av'[gen] = new
      BY <1>0, <1>1, UpdateStores
    <2>2. HeldWell
      BY <1>1, <2>1 DEF HeldWell, Current, SameResult, InPhase
    <2> QED
      BY <1>0, <2>1, <2>2, ItemFromParts
  <1>2. CASE Update(new, FALSE) /\ Return(TRUE)
    <2>1. StoredWell
      BY <1>0, <1>2, UpdateStores
    <2> QED
      BY <1>0, <1>2, <2>1, HeldReturn, ItemFromParts DEF Return
  <1> QED
    BY <1>1, <1>2 DEF WriteOrReturn

\* A step that leaves the app versions and their reconciliation alone.
LEMMA ItemUnwritten ==
    ASSUME ItemInv, TypeInv', UNCHANGED <<av, avVars, block>>,
           \A x \in Workloads : wv[x] = StateSucceeded => wv'[x] = StateSucceeded
    PROVE  Holds
  <1>1. gen \in Generations
    BY DEF ItemInv, TypeInv, AvSide
  <1>2. \A g \in Generations : Sound(av[g], g, block, wv')
    BY SoundLater DEF ItemInv
  <1>3. Sound(local, gen, block, wv')
    BY <1>1, SoundLater DEF ItemInv
  <1> QED
    BY <1>2, <1>3 DEF ItemInv, Holds, EndKept, avVars, InPhase

LEMMA DeprecateItem ==
    ASSUME ItemInv, TypeInv', DeprecateOlderAppVersion
    PROVE  Holds
  <1>0. /\ UNCHANGED <<block, wv, avPc, gen, local, ph>>
        /\ older \in Generations /\ av \in [Generations -> AppVersions] /\ gen \in Generations
    BY DEF DeprecateOlderAppVersion, ItemInv, TypeInv, AppSide, AvSide
  <1>1. \/ UNCHANGED <<av, fresh>>
        \/ /\ oldFresh
           /\ av' = [av EXCEPT ![older] = DeprecateCompletely(av[older])]
           /\ fresh' = (fresh /\ gen # older)
    BY DEF DeprecateOlderAppVersion
  <1>2. StoredWell /\ (fresh' => fresh /\ av'[gen] = av[gen])
    <2>1. CASE UNCHANGED <<av, fresh>>
      BY <2>1, StoredSame
    <2>2. CASE /\ oldFresh
               /\ av' = [av EXCEPT ![older] = DeprecateCompletely(av[older])]
               /\ fresh' = (fresh /\ gen # older)
      <3>1. /\ av'[older] = DeprecateCompletely(av[older])
            /\ \A g \in Generations : g # older => av'[g] = av[g]
        BY <1>0, <2>2
      <3>2. Sound(DeprecateCompletely(av[older]), older, block, wv)
        BY <1>0, SoundDeprecated
      <3>3. av[older].status # StateDeprecated
        BY <2>2 DEF ItemInv, TypeInv, OldSide
      <3>4. StoredWell
        BY <3>1, <3>2, <3>3 DEF StoredWell, EndKept, ItemInv
      <3>5. fresh' => fresh /\ gen # older
        BY <2>2
      <3> QED
        BY <1>0, <3>1, <3>4, <3>5
    <2> QED
      BY <1>1, <2>1, <2>2
  <1>3. HeldWell
    BY <1>0, <1>2 DEF HeldWell, ItemInv, InPhase
  <1> QED
    BY <1>0, <1>2, <1>3, ItemFromParts

LEMMA StartReconcileItem ==
    ASSUME ItemInv, TypeInv', NEW g \in Generations, StartReconcile(g)
    PROVE  Holds
  <1>1. /\ UNCHANGED <<av, ph, block, wv>> /\ avPc = "idle"
        /\ avPc' = "phase" /\ gen' = g /\ local' = av[g]
    BY DEF StartReconcile
  <1>2. ph' = 1
    BY <1>1 DEF ItemInv, AppPreDeployTasks
  <1>3. HeldWell
    <2>1. \A q \in Phases : ~(q < ph')
      BY <1>2 DEF Phases
    <2>2. Sound(local', gen', block, wv)
      BY <1>1 DEF ItemInv
    <2> QED
      BY <1>1, <2>1, <2>2 DEF HeldWell, Current, SameResult, InPhase
  <1> QED
    BY <1>1, <1>3, StoredSame, ItemFromParts

LEMMA EnterPhaseItem ==
    ASSUME ItemInv, TypeInv', EnterPhase
    PROVE  Holds
  <1>1. UNCHANGED <<av, fresh, block, wv>> /\ avPc = "phase" /\ ph \in 1..7
        /\ local \in AppVersions
    BY DEF EnterPhase, ItemInv, TypeInv, AvSide
  <1>2. PICK p \in ph..Promotion :
            /\ ~Passed(local, p)
            /\ \A q \in ph..(p - 1) : Passed(local, q)
            /\ \/ Return(FALSE)
               \/ /\ ~ShouldAbortPhase(local)
                  /\ local' = [local EXCEPT !.currentPhase = p]
                  /\ avPc' = IF p = AppDeploy THEN "workloads" ELSE "checks"
                  /\ ph' = p
                  /\ UNCHANGED gen
    BY DEF EnterPhase
  <1>3. CASE Return(FALSE)
    BY <1>1, <1>3, StoredSame, HeldReturn, ItemFromParts DEF Return
  <1>4. CASE ~Return(FALSE)
    <2>1. p \in Phases
      BY <1>1 DEF Phases, Promotion
    <2>2. SameResult(local', local)
      BY <1>1, <1>2, <1>4 DEF AppVersions, SameResult
    <2>3. ~Ended(local)
      <3>1. ~Goes(local, p, block)
        BY <1>2, PassedGoes
      <3>2. local.status # StateSucceeded
        BY <2>1, <3>1 DEF ItemInv, Sound
      <3> QED
        BY <1>2, <1>4, <3>2 DEF ShouldAbortPhase, Ended
    <2>4. \A q \in Phases : q < p => Goes(local, q, block)
      <3> SUFFICES ASSUME NEW q \in Phases, q < p PROVE Goes(local, q, block)
        OBVIOUS
      <3>1. CASE q < ph
        BY <1>1, <3>1 DEF ItemInv
      <3>2. CASE q >= ph
        <4>1. q \in ph..(p - 1)
          BY <1>1, <2>1, <3>2 DEF Phases
        <4> QED
          BY <1>2, <4>1, PassedGoes
      <3> QED
        BY <1>1, <3>1, <3>2 DEF Phases
    <2>5. /\ Sound(local', gen, block, wv) /\ ~Ended(local')
          /\ \A q \in Phases : q < p => Goes(local', q, block)
      BY <2>2, <2>3, <2>4, SoundSame DEF ItemInv
    <2>6. fresh => SameResult(local', av[gen])
      BY <1>1, <2>2 DEF ItemInv, Current, SameResult
    <2>7. HeldWell
      BY <1>1, <1>2, <1>4, <2>5, <2>6 DEF HeldWell, Current
    <2> QED
      BY <1>1, <2>7, StoredSame, ItemFromParts
  <1> QED
    BY <1>3, <1>4

LEMMA AllPhasesPassedItem ==
    ASSUME ItemInv, TypeInv', AllPhasesPassed
    PROVE  Holds
  <1>1. /\ UNCHANGED <<av, gen, local, fresh, ph, block, wv>>
        /\ avPc = "phase" /\ avPc' = "finish" /\ ph \in 1..7
    BY DEF AllPhasesPassed, ItemInv, TypeInv, AvSide
  <1>2. \A p \in Phases : Goes(local, p, block)
    <2> SUFFICES ASSUME NEW p \in Phases PROVE Goes(local, p, block)
      OBVIOUS
    <2>1. CASE p < ph
      BY <1>1, <2>1 DEF ItemInv
    <2>2. CASE p >= ph
      <3>1. p \in ph..Promotion
        BY <1>1, <2>2 DEF Phases, Promotion
      <3> QED
        BY <3>1, PassedGoes DEF AllPhasesPassed
    <2> QED
      BY <1>1, <2>1, <2>2 DEF Phases
  <1>3. HeldWell
    BY <1>1, <1>2 DEF HeldWell, ItemInv, InPhase
  <1> QED
    BY <1>1, <1>3, StoredSame, ItemFromParts

LEMMA ReconcileChecksItem ==
    ASSUME ItemInv, TypeInv', NEW s, ReconcileChecks(s)
    PROVE  Holds
  <1> DEFINE state == CheckState(ph, s)
             new   == [local EXCEPT !.phaseStatus[ph] = state]
  <1>1. /\ InPhase /\ local \in AppVersions /\ ph \in Phases /\ ph # AppDeploy
        /\ Delivered(local, gen, wv)
    BY DEF ReconcileChecks, InPhase, ItemInv, TypeInv, AvSide, Sound
  <1>2. state \in KeptnStates \ {StateDeprecated} /\ (state = StateWarning => ~block)
    BY CheckStateType
  <1>3. WriteOrReturn(new)
    BY DEF ReconcileChecks
  <1> HIDE DEF state
  <1>4. /\ new \in AppVersions /\ new.status = local.status /\ new.endTime = local.endTime
        /\ new.phaseStatus = [local.phaseStatus EXCEPT ![ph] = state]
    BY <1>1, <1>2, PhaseUpdateType
  <1> HIDE DEF new
  <1>5. Delivered(new, gen, wv)
    <2>1. new.phaseStatus[AppDeploy] = local.phaseStatus[AppDeploy]
      BY <1>1, <1>4 DEF AppVersions
    <2> QED
      BY <1>1, <2>1 DEF Delivered
  <1>6. /\ Sound(new, gen, block, wv) /\ ~Ended(new)
        /\ \A q \in Phases : q < ph => Goes(new, q, block)
        /\ new.phaseStatus[ph] = state
    BY <1>1, <1>2, <1>4, <1>5, RecordSound
  <1>7. Continues(state) => Goes(new, ph, block)
    BY <1>1, <1>2, <1>6 DEF Continues, IsCompleted, Goes, IsPhaseSucceeded
  <1> QED
    BY <1>1, <1>3, <1>6, <1>7, WriteOrReturnItem

\* Every workload of the app version has succeeded when they have together.
LEMMA WorkloadsDelivered ==
    ASSUME TypeInv, WorkloadsState(gen) = StateSucceeded
    PROVE  \A w \in WorkloadsOf[gen] : wv[w] = StateSucceeded
  <1> DEFINE st == [w \in Workloads |-> IF wv[w] = "absent" THEN StatePending ELSE wv[w]]
  <1>1. /\ WorkloadsOf[gen] \in SUBSET Workloads
        /\ IsFiniteSet(Workloads)
    BY DeliveryAssumption DEF TypeInv, AvSide
  <1>2. IsFiniteSet(WorkloadsOf[gen])
    BY <1>1, FS_Subset
  <1>3. GetOverallState(UpdateStatusSummary(WorkloadsOf[gen], st)) = StateSucceeded
    BY DEF WorkloadsState
  <1>4. \A w \in WorkloadsOf[gen] : st[w] = StateSucceeded
    BY <1>2, <1>3, OverallSuccess
  <1>5. \A w \in WorkloadsOf[gen] : st[w] = IF wv[w] = "absent" THEN StatePending ELSE wv[w]
    BY <1>1
  <1> HIDE DEF st
  <1> QED
    BY <1>4, <1>5 DEF StatePending, StateSucceeded

LEMMA ReconcileWorkloadsItem ==
    ASSUME ItemInv, TypeInv', ReconcileWorkloads
    PROVE  Holds
  <1> DEFINE state == WorkloadsState(gen)
             new   == [local EXCEPT !.phaseStatus[AppDeploy] = state]
  <1>1. /\ InPhase /\ local \in AppVersions /\ ph \in Phases /\ ph = AppDeploy
    BY DEF ReconcileWorkloads, InPhase, ItemInv, TypeInv, AvSide
  <1>2. /\ state \in KeptnStates \ {StateDeprecated, StateWarning}
        /\ state = StateSucceeded => \A w \in WorkloadsOf[gen] : wv[w] = StateSucceeded
    BY WorkloadsStateType, WorkloadsDelivered DEF ItemInv
  <1>3. WriteOrReturn(new)
    BY DEF ReconcileWorkloads
  <1> HIDE DEF state
  <1>4. /\ new \in AppVersions /\ new.status = local.status /\ new.endTime = local.endTime
        /\ new.phaseStatus = [local.phaseStatus EXCEPT ![ph] = state]
    BY <1>1, <1>2, PhaseUpdateType
  <1> HIDE DEF new
  <1>5. Delivered(new, gen, wv)
    BY <1>1, <1>2, <1>4 DEF Delivered, AppVersions
  <1>6. /\ Sound(new, gen, block, wv) /\ ~Ended(new)
        /\ \A q \in Phases : q < ph => Goes(new, q, block)
        /\ new.phaseStatus[ph] = state
    BY <1>1, <1>2, <1>4, <1>5, RecordSound
  <1>7. Continues(state) => Goes(new, ph, block)
    BY <1>1, <1>2, <1>6 DEF Continues, IsCompleted, Goes, AppDeploy, Promotion
  <1> QED
    BY <1>1, <1>3, <1>6, <1>7, WriteOrReturnItem

LEMMA ListFailsItem ==
    ASSUME ItemInv, TypeInv', ListFails
    PROVE  Holds
  <1> DEFINE new == [local EXCEPT !.phaseStatus[AppDeploy] = StateUnknown]
  <1>1. /\ InPhase /\ local \in AppVersions /\ ph \in Phases /\ ph = AppDeploy
        /\ StateUnknown \in KeptnStates \ {StateDeprecated}
        /\ av \in [Generations -> AppVersions] /\ gen \in Generations /\ fresh
    BY DEF ListFails, InPhase, ItemInv, TypeInv, AvSide, KeptnStates, StateUnknown,
       StateDeprecated
  <1>2. /\ UNCHANGED <<gen, ph, block, wv>> /\ avPc' = "complete"
        /\ av' = [av EXCEPT ![gen] = new] /\ local' = new
    BY DEF ListFails
  <1>3. /\ new \in AppVersions /\ new.status = local.status /\ new.endTime = local.endTime
        /\ new.phaseStatus = [local.phaseStatus EXCEPT ![ph] = StateUnknown]
    BY <1>1, PhaseUpdateType
  <1> HIDE DEF new
  <1>4. Delivered(new, gen, wv)
    BY <1>1, <1>3 DEF Delivered, AppVersions, StateUnknown, StateSucceeded
  <1>5. /\ Sound(new, gen, block, wv) /\ ~Ended(new)
        /\ \A q \in Phases : q < ph => Goes(new, q, block)
        /\ new.phaseStatus[ph] = StateUnknown
    BY <1>1, <1>3, <1>4, RecordSound
  <1>6. ~Continues(StateUnknown)
    BY DEF Continues, IsCompleted, StateUnknown, StateSucceeded, StateFailed, StateDeprecated,
       StateWarning
  <1>7. av'[gen] = new /\ \A g \in Generations : g # gen => av'[g] = av[g]
    BY <1>1, <1>2
  <1>8. ~Ended(av[gen])
    BY <1>1 DEF ItemInv, Current, SameResult, Ended, InPhase
  <1>9. StoredWell
    BY <1>5, <1>7, <1>8 DEF StoredWell, EndKept, ItemInv
  <1>10. HeldWell
    BY <1>2, <1>5, <1>6, <1>7 DEF HeldWell, Current, SameResult, InPhase
  <1> QED
    BY <1>2, <1>9, <1>10, ItemFromParts

LEMMA CompletePhaseItem ==
    ASSUME ItemInv, TypeInv', CompletePhase
    PROVE  Holds
  <1> DEFINE state == local.phaseStatus[ph]
             new   == AfterPhase(local, ph, state)
  <1>1. /\ avPc = "complete" /\ InPhase /\ UNCHANGED <<block, wv>> /\ ~Ended(local)
        /\ ph \in Phases
    BY DEF CompletePhase, InPhase, ItemInv, TypeInv, AvSide
  <1>2. \/ UNCHANGED <<av, fresh>>
        \/ \E accepted \in BOOLEAN : Update(new, accepted)
    BY DEF CompletePhase
  <1>3. IF Continues(state)
        THEN local' = new /\ avPc' = "phase" /\ ph' = ph + 1 /\ UNCHANGED gen
        ELSE Return(Requeues(state))
    BY DEF CompletePhase
  <1>4. Sound(new, gen, block, wv)
    BY <1>1, CompletionSound
  <1>5. Continues(state) => new = local
    BY DEF Continues, AfterPhase
  <1> HIDE DEF new
  <1>6. StoredWell /\ (fresh' => (fresh /\ av'[gen] = av[gen]) \/ av'[gen] = new)
    <2>1. CASE UNCHANGED <<av, fresh>>
      BY <2>1, StoredSame
    <2>2. ASSUME NEW accepted \in BOOLEAN, Update(new, accepted)
          PROVE  StoredWell /\ (fresh' => (fresh /\ av'[gen] = av[gen]) \/ av'[gen] = new)
      BY <1>1, <1>4, <2>2, UpdateStores
    <2> QED
      BY <1>2, <2>1, <2>2
  <1>7. HeldWell
    <2>1. CASE Continues(state)
      <3>1. /\ UNCHANGED <<local, gen>> /\ avPc' = "phase" /\ ph' = ph + 1
            /\ Goes(local, ph, block)
        BY <1>1, <1>3, <1>5, <2>1 DEF ItemInv
      <3>2. \A q \in Phases : q < ph' => Goes(local, q, block)
        BY <1>1, <3>1 DEF ItemInv, Phases
      <3>3. fresh' => Current(local, av'[gen])
        BY <1>1, <1>5, <1>6, <2>1 DEF ItemInv, Current, SameResult
      <3> QED
        BY <3>1, <3>2, <3>3 DEF HeldWell, InPhase, ItemInv
    <2>2. CASE ~Continues(state)
      BY <1>3, <2>2, HeldReturn DEF Return
    <2> QED
      BY <2>1, <2>2
  <1> QED
    BY <1>1, <1>6, <1>7, ItemFromParts

LEMMA FinishReconcileItem ==
    ASSUME ItemInv, TypeInv', FinishReconcile
    PROVE  Holds
  <1>1. avPc = "finish" /\ UNCHANGED <<block, wv>>
    BY DEF FinishReconcile
  <1>2. PICK accepted \in BOOLEAN :
            Update(FinishedAppVersion(local), accepted) /\ Return(~accepted)
    BY DEF FinishReconcile
  <1>3. StoredWell
    BY <1>1, <1>2, FinishedSound, UpdateStores
  <1>4. HeldWell
    BY <1>2, HeldReturn DEF Return
  <1> QED
    BY <1>1, <1>3, <1>4, ItemFromParts

LEMMA StepItem ==
    ASSUME ItemInv, [Next]_vars
    PROVE  Holds
  <1>0. TypeInv'
    BY StepType DEF ItemInv
  <1>1. ASSUME UNCHANGED <<av, avVars, block, wv>> PROVE Holds
    BY <1>0, <1>1, ItemUnwritten
  <1>2. CASE ReconcileApp \/ CreateAppVersion \/ UpdateCurrentVersion \/ GetOlderAppVersion
             \/ ChangeApp \/ (\E g \in Generations : Sync(g)) \/ UNCHANGED vars
    BY <1>1, <1>2 DEF ReconcileApp, CreateAppVersion, UpdateCurrentVersion,
       GetOlderAppVersion, ChangeApp, Sync, vars
  <1>3. ASSUME NEW w \in Workloads, WorkloadSteps(w) PROVE Holds
    <2>1. /\ UNCHANGED <<av, avVars, block>>
          /\ \E s : wv' = [wv EXCEPT ![w] = s]
          /\ wv[w] # StateSucceeded
      BY <1>3 DEF WorkloadSteps, WorkloadAppears, WorkloadBegins, WorkloadEnds, others,
         StatePending, StateProgressing, StateSucceeded
    <2>2. \A x \in Workloads : wv[x] = StateSucceeded => wv'[x] = StateSucceeded
      BY <2>1 DEF ItemInv, TypeInv, Bounds
    <2> QED
      BY <1>0, <2>1, <2>2, ItemUnwritten
  <1>4. CASE Crash
    <2>1. UNCHANGED <<av, block, wv>>
      BY <1>4 DEF Crash
    <2>2. HeldWell
      BY <1>4, HeldReturn DEF Crash
    <2> QED
      BY <1>0, <2>1, <2>2, StoredSame, ItemFromParts
  <1> QED
    BY <1>0, <1>2, <1>3, <1>4, DeprecateItem, StartReconcileItem, EnterPhaseItem,
       AllPhasesPassedItem, ReconcileChecksItem, ReconcileWorkloadsItem, ListFailsItem,
       CompletePhaseItem, FinishReconcileItem DEF Next, AppController, AppVersionController

LEMMA InitItem == Init => ItemInv
  <1> SUFFICES ASSUME Init PROVE ItemInv
    OBVIOUS
  <1>1. \A g \in Generations : av[g] = NewAppVersion
    BY DEF Init
  <1>2. \A g \in Generations : Sound(av[g], g, block, wv)
    BY <1>1, SoundNew
  <1> QED
    BY <1>2, InitType, SoundNew DEF Init, ItemInv, InPhase

\* Every app version, and every copy of one in memory, stays sound.
LEMMA ItemInvariant == Spec => []ItemInv
  <1>1. ItemInv /\ [Next]_vars => ItemInv'
    BY StepItem DEF Holds
  <1> QED
    BY <1>1, InitItem, PTL DEF Spec

\* An app version that is recorded as succeeded has passed every phase up to
\* the promotion, and every workload it lists has really been delivered
\* (reconcileWorkloads, finishKeptnAppVersionReconcile).
THEOREM SucceededIsRealHolds == Spec => []SucceededIsReal
  <1>1. ItemInv => SucceededIsReal
    <2> SUFFICES ASSUME ItemInv, NEW g \in Created, av[g].status = StateSucceeded
                 PROVE  /\ \A p \in Phases \ {Promotion} : Passed(av[g], p)
                        /\ \A w \in WorkloadsOf[g] : wv[w] = StateSucceeded
      BY DEF SucceededIsReal
    <2>1. g \in Generations
      BY CreatedType DEF ItemInv, TypeInv
    <2>2. Sound(av[g], g, block, wv)
      BY <2>1 DEF ItemInv
    <2>3. \A p \in Phases : Goes(av[g], p, block)
      BY <2>2 DEF Sound
    <2>4. av[g].phaseStatus[AppDeploy] = StateSucceeded
      BY <2>3 DEF Goes, AppDeploy, Phases
    <2> QED
      BY <2>2, <2>3, <2>4, PassedGoes DEF Sound, Delivered
  <1> QED
    BY <1>1, ItemInvariant, PTL

\* A failed app version says where it failed, and has an end time, although
\* the failure is written twice and the app may be restarted in between
\* (handleCompletedPhase, DeprecateRemainingPhases).
THEOREM AppFailureShapeHolds == Spec => []AppFailureShape
  <1>1. ItemInv => AppFailureShape
    <2> SUFFICES ASSUME ItemInv, NEW g \in Created, av[g].status = StateFailed
                 PROVE  /\ av[g].endTime
                        /\ \E p \in Phases :
                            /\ av[g].phaseStatus[p] = StateFailed
                            /\ \A q \in 1..(p - 1) : Passed(av[g], q)
                            /\ \A q \in (p + 1)..Promotion :
                                    av[g].phaseStatus[q] = StateDeprecated
      BY DEF AppFailureShape
    <2>1. g \in Generations
      BY CreatedType DEF ItemInv, TypeInv
    <2>2. Sound(av[g], g, block, wv)
      BY <2>1 DEF ItemInv
    <2>3. PICK p \in Phases : FailedAt(av[g], p, block)
      BY <2>2 DEF Sound
    <2>4. \A q \in 1..(p - 1) : q \in Phases /\ q < p
      BY DEF Phases
    <2>5. \A q \in (p + 1)..Promotion : q \in Phases /\ q > p
      BY DEF Phases, Promotion
    <2>6. \A q \in 1..(p - 1) : Passed(av[g], q)
      BY <2>3, <2>4, PassedGoes DEF FailedAt
    <2>7. \A q \in (p + 1)..Promotion : av[g].phaseStatus[q] = StateDeprecated
      BY <2>3, <2>5 DEF FailedAt
    <2> QED
      BY <2>2, <2>3, <2>6, <2>7 DEF FailedAt, Sound
  <1> QED
    BY <1>1, ItemInvariant, PTL

\* Neither controller undoes the end that the other one has given an app
\* version (deprecateAppVersions against the deferred write of HandlePhase).
THEOREM EndIsFinalHolds == Spec => EndIsFinal
  <1>1. ItemInv /\ [Next]_vars => [EndKept]_vars
    BY StepItem DEF Holds
  <1> QED
    BY <1>1, ItemInvariant, PTL DEF Spec, EndIsFinal, EndKept

-----------------------------------------------------------------------------
(***************************************************************************)
(* The newest revision of a version is the only one that lives.  While a   *)
(* reconciliation of the app is at work, what holds between two of them    *)
(* holds for the pairs it has dealt with.                                  *)
(***************************************************************************)
\* An older revision is out of the way, or was not in the cache when it had to be.
Gone(i) == av[i].status = StateDeprecated \/ i \in missed

\* The app versions i and j are settled at this point of the reconciliation.
DealtWith(i, j) ==
    \/ appPc \in {"idle", "create"}
    \/ j # appGen
    \/ Deprecating /\ ~failed /\ i > older

SettledInv ==
    ~lost =>
        /\ appPc \in {"idle", "create"} /\ revisions # <<>> =>
                app.currentVersion = VersionOf[revisions[Len(revisions)]]
        /\ Deprecating => app.currentVersion = VersionOf[appGen]
        /\ \A i, j \in Created :
                i < j /\ VersionOf[i] = VersionOf[j] /\ DealtWith(i, j) =>
                    Gone(i)

DeprecatedKept ==
    /\ \A g \in Generations : av[g].status = StateDeprecated => av'[g].status = StateDeprecated
    /\ missed \subseteq missed'

LEMMA DeprecatedStays ==
    ASSUME ItemInv, [Next]_vars
    PROVE  DeprecatedKept
  <1>1. missed \subseteq missed'
    BY DEF Next, AppController, AppVersionController, ReconcileApp, CreateAppVersion,
       UpdateCurrentVersion, GetOlderAppVersion, DeprecateOlderAppVersion, StartReconcile,
       EnterPhase, AllPhasesPassed, ReconcileChecks, ReconcileWorkloads, WriteOrReturn,
       ListFails, CompletePhase, FinishReconcile, ChangeApp, Crash, Sync, WorkloadSteps,
       WorkloadAppears, WorkloadBegins, WorkloadEnds, others, vars, appVars, appKept
  <1> QED
    BY <1>1, StepItem DEF Holds, EndKept, Ended, DeprecatedKept

\* A step that leaves the reconciliation of the app alone.
LEMMA SettledUnmoved ==
    ASSUME TypeInv, SettledInv, DeprecatedKept,
           UNCHANGED <<appPc, appGen, older, failed, lost, revisions>>,
           app'.currentVersion = app.currentVersion
    PROVE  SettledInv'
  <1>1. Created' = Created /\ Created \subseteq Generations
    BY CreatedType DEF Created, TypeInv
  <1>2. \A i, j : (DealtWith(i, j))' <=> DealtWith(i, j)
    BY DEF DealtWith, Deprecating
  <1>3. Deprecating' <=> Deprecating
    BY DEF Deprecating
  <1> QED
    BY <1>1, <1>2, <1>3 DEF SettledInv, DeprecatedKept, Gone

LEMMA CreateSettled ==
    ASSUME TypeInv, SettledInv, CreateAppVersion
    PROVE  SettledInv'
  <1>0. appPc = "create" /\ UNCHANGED <<app, av, missed>> /\ AppSide
    BY DEF CreateAppVersion, TypeInv
  <1>1. CASE /\ appGen \notin Created
             /\ revisions' = Append(revisions, appGen) /\ appPc' = "status"
             /\ UNCHANGED <<appGen, older, failed, lost>>
    <2>1. Created' = Created \cup {appGen}
      BY <1>0, <1>1, AppendType
    <2>2. ASSUME ~lost, NEW i \in Created', NEW j \in Created', i < j,
                 VersionOf[i] = VersionOf[j], (DealtWith(i, j))'
          PROVE  Gone(i)
      <3>1. j # appGen /\ j \in Created
        BY <1>1, <2>1, <2>2 DEF DealtWith, Deprecating
      <3>2. i \in Created
        <4>1. i # appGen
          BY <1>0, <2>2, <3>1, CreatedType DEF AppSide, Generations
        <4> QED
          BY <2>1, <4>1
      <3> QED
        BY <1>0, <2>2, <3>1, <3>2 DEF SettledInv, DealtWith
    <2>3. ~(appPc' \in {"idle", "create"}) /\ ~Deprecating'
      BY <1>1 DEF Deprecating
    <2> QED
      BY <1>0, <1>1, <2>2, <2>3 DEF SettledInv, Gone
  <1>2. CASE ReturnApp(TRUE) /\ UNCHANGED <<lost, revisions>>
    <2>1. Created' = Created
      BY <1>2 DEF Created
    <2>2. appPc' = "idle" /\ ~Deprecating'
      BY <1>2 DEF ReturnApp, Deprecating
    <2> QED
      BY <1>0, <1>2, <2>1, <2>2 DEF SettledInv, DealtWith, Gone
  <1>3. CASE lost'
    BY <1>3 DEF SettledInv
  <1> QED
    BY <1>1, <1>2, <1>3 DEF CreateAppVersion

LEMMA UpdateCurrentVersionSettled ==
    ASSUME TypeInv, SettledInv, UpdateCurrentVersion
    PROVE  SettledInv'
  <1>0. appPc = "status" /\ UNCHANGED <<av, missed, revisions>> /\ Created' = Created /\ AppSide
    BY DEF UpdateCurrentVersion, TypeInv, Created
  <1>1. CASE /\ app' = [app EXCEPT !.currentVersion = VersionOf[appGen]]
             /\ appPc' = "deprecate" /\ older' = appGen - 1
             /\ UNCHANGED <<appGen, failed, lost>>
    <2>1. app'.currentVersion = VersionOf[appGen]
      BY <1>0, <1>1 DEF AppSide, RevisionsInOrder
    <2>2. ASSUME ~lost, NEW i \in Created, NEW j \in Created, i < j,
                 VersionOf[i] = VersionOf[j], (DealtWith(i, j))'
          PROVE  Gone(i)
      <3>1. i \in Generations /\ j \in Generations /\ appGen \in Generations
        BY <1>0, CreatedType DEF AppSide
      <3>2. j # appGen
        BY <1>1, <2>2, <3>1 DEF DealtWith, Generations
      <3> QED
        BY <1>0, <2>2, <3>2 DEF SettledInv, DealtWith
    <2> QED
      BY <1>0, <1>1, <2>1, <2>2 DEF SettledInv, Gone
  <1>2. CASE lost'
    BY <1>2 DEF SettledInv
  <1> QED
    BY <1>1, <1>2 DEF UpdateCurrentVersion

\* A revision that is passed over is deprecated, of another version, or missed.
LEMMA PassedOver ==
    ASSUME TypeInv, appPc = "deprecate", older > 0,
           older \in known => ~IsOlderRevision(older),
           missed' = missed \cup {k \in Created \cap {older} : IsRevision(k) /\ k \notin known},
           UNCHANGED av, NEW i \in Created, i = older, VersionOf[i] = VersionOf[appGen]
    PROVE  (Gone(i))'
  BY DEF Gone, IsOlderRevision, IsRevision

LEMMA GetOlderSettled ==
    ASSUME TypeInv, SettledInv, DeprecatedKept, GetOlderAppVersion
    PROVE  SettledInv'
  <1>0. /\ appPc = "deprecate" /\ UNCHANGED <<app, av, revisions>> /\ Created' = Created
        /\ older \in 0..MaxGeneration /\ Created \subseteq Generations
        /\ revisions[Len(revisions)] = appGen
        /\ \A i \in Created : Gone(i) => (Gone(i))'
    BY CreatedType DEF GetOlderAppVersion, TypeInv, AppSide, Created, Deprecating, Gone,
       DeprecatedKept
  <1>7. ~lost => app.currentVersion = VersionOf[appGen]
    BY <1>0 DEF SettledInv, Deprecating
  <1>1. CASE older = 0 /\ ReturnApp(failed) /\ lost' = (lost \/ failed)
    <2>1. appPc' = "idle" /\ ~Deprecating'
      BY <1>1 DEF ReturnApp, Deprecating
    <2>2. ASSUME ~lost', NEW i \in Created, NEW j \in Created, i < j,
                 VersionOf[i] = VersionOf[j]
          PROVE  (Gone(i))'
      <3>1. ~lost /\ ~failed
        BY <1>1, <2>2, Zenon
      <3>2. i > older
        BY <1>0, <1>1 DEF Generations
      <3> QED
        BY <1>0, <2>2, <3>1, <3>2 DEF SettledInv, DealtWith, Deprecating
    <2> QED
      BY <1>0, <1>1, <1>7, <2>1, <2>2 DEF SettledInv
  <1>2. CASE appPc' = "write" /\ UNCHANGED <<appGen, older, failed, lost>>
    <2>1. \A i, j : (DealtWith(i, j))' => DealtWith(i, j)
      BY <1>0, <1>2 DEF DealtWith, Deprecating
    <2>2. Deprecating' /\ Deprecating
      BY <1>0, <1>2 DEF Deprecating
    <2> QED
      BY <1>0, <1>2, <1>7, <2>1, <2>2 DEF SettledInv
  <1>3. CASE /\ older > 0 /\ older' = older - 1
             /\ older \in known => ~IsOlderRevision(older)
             /\ missed' = missed \cup {i \in Created \cap {older} : IsRevision(i) /\ i \notin known}
             /\ UNCHANGED <<appPc, appGen, failed, lost>>
    <2>1. ASSUME ~lost, NEW i \in Created, NEW j \in Created, i < j,
                 VersionOf[i] = VersionOf[j], (DealtWith(i, j))'
          PROVE  (Gone(i))'
      <3>1. j # appGen \/ (~failed /\ i > older - 1)
        BY <1>0, <1>3, <2>1 DEF DealtWith
      <3>2. CASE j # appGen \/ (~failed /\ i > older)
        BY <1>0, <2>1, <3>2 DEF SettledInv, DealtWith, Deprecating
      <3>3. CASE j = appGen /\ i = older
        BY <1>0, <1>3, <2>1, <3>3, PassedOver
      <3> QED
        BY <1>0, <3>1, <3>2, <3>3 DEF Generations
    <2>2. Deprecating' /\ Deprecating
      BY <1>0, <1>3 DEF Deprecating
    <2> QED
      BY <1>0, <1>3, <1>7, <2>1, <2>2 DEF SettledInv
  <1>4. CASE failed' /\ UNCHANGED <<appPc, appGen, lost>>
    <2>1. \A i, j : (DealtWith(i, j))' => DealtWith(i, j)
      BY <1>0, <1>4 DEF DealtWith, Deprecating
    <2>2. Deprecating' <=> Deprecating
      BY <1>4 DEF Deprecating
    <2> QED
      BY <1>0, <1>4, <2>1, <2>2 DEF SettledInv
  <1> QED
    BY <1>1, <1>2, <1>3, <1>4 DEF GetOlderAppVersion

LEMMA DeprecateSettled ==
    ASSUME TypeInv, SettledInv, DeprecatedKept, DeprecateOlderAppVersion
    PROVE  SettledInv'
  <1>0. /\ appPc = "write" /\ appPc' = "deprecate" /\ older' = older - 1
        /\ UNCHANGED <<app, appGen, lost, revisions>> /\ Created' = Created
        /\ older \in Generations /\ Created \subseteq Generations
        /\ av \in [Generations -> AppVersions]
        /\ \A i \in Created : Gone(i) => (Gone(i))'
    BY CreatedType DEF DeprecateOlderAppVersion, TypeInv, AppSide, AvSide, Created, Gone,
       DeprecatedKept
  <1>1. \/ failed'
        \/ UNCHANGED failed /\ av' = [av EXCEPT ![older] = DeprecateCompletely(av[older])]
    BY DEF DeprecateOlderAppVersion
  <1>2. ASSUME ~lost, NEW i \in Created, NEW j \in Created, i < j,
               VersionOf[i] = VersionOf[j], (DealtWith(i, j))'
        PROVE  (Gone(i))'
    <2>1. j # appGen \/ (~failed' /\ i > older - 1)
      BY <1>0, <1>2 DEF DealtWith
    <2>2. CASE j # appGen \/ (~failed /\ i > older)
      BY <1>0, <1>2, <2>2 DEF SettledInv, DealtWith, Deprecating
    <2>3. CASE ~failed' /\ i = older
      <3>1. av'[older] = DeprecateCompletely(av[older]) /\ av[older] \in AppVersions
        BY <1>0, <1>1, <2>3
      <3> QED
        BY <2>3, <3>1, DeprecatedType DEF Gone
    <2> QED
      BY <1>0, <1>1, <2>1, <2>2, <2>3 DEF Generations
  <1>3. ~lost => app.currentVersion = VersionOf[appGen]
    BY <1>0 DEF SettledInv, Deprecating
  <1> QED
    BY <1>0, <1>2, <1>3 DEF SettledInv

LEMMA StepSettled ==
    ASSUME ItemInv, SettledInv, [Next]_vars
    PROVE  SettledInv'
  <1>0. TypeInv /\ DeprecatedKept
    BY DeprecatedStays DEF ItemInv
  <1>1. CASE ReconcileApp
    <2>1. /\ appPc = "idle" /\ appPc' \in {"idle", "create"} /\ Created' = Created
          /\ UNCHANGED <<app, lost, missed, revisions, av>>
      BY <1>1 DEF ReconcileApp, Created
    <2> QED
      BY <2>1 DEF SettledInv, DealtWith, Deprecating, Gone
  <1>2. CASE Crash
    <2>1. CASE appPc \in {"status", "deprecate", "write"}
      BY <1>2, <2>1 DEF Crash, SettledInv
    <2>2. CASE appPc \notin {"status", "deprecate", "write"}
      <3>1. /\ appPc \in {"idle", "create"} /\ appPc' = "idle" /\ Created' = Created
            /\ UNCHANGED <<app, missed, revisions, av>> /\ (lost => lost')
        BY <1>0, <1>2, <2>2 DEF Crash, ReturnApp, Created, TypeInv, AppSide
      <3> QED
        BY <3>1 DEF SettledInv, DealtWith, Deprecating, Gone
    <2> QED
      BY <2>1, <2>2
  <1>3. CASE ChangeApp
    <2>1. app'.currentVersion = app.currentVersion
      BY <1>0, <1>3 DEF ChangeApp, TypeInv, AppSide, RevisionsInOrder
    <2> QED
      BY <1>0, <1>3, <2>1, SettledUnmoved DEF ChangeApp
  <1>4. CASE UNCHANGED <<app, appPc, appGen, older, failed, lost, revisions>>
    BY <1>0, <1>4, SettledUnmoved
  <1> QED
    BY <1>0, <1>1, <1>2, <1>3, <1>4, CreateSettled, UpdateCurrentVersionSettled,
       GetOlderSettled, DeprecateSettled
       DEF Next, AppController, AppVersionController, StartReconcile, EnterPhase,
       AllPhasesPassed, ReconcileChecks, ReconcileWorkloads, WriteOrReturn, ListFails,
       CompletePhase, FinishReconcile, Sync, WorkloadSteps, WorkloadAppears,
       WorkloadBegins, WorkloadEnds, others, vars, appVars, appKept

\* Between two reconciliations of the app its current version is that of its
\* newest app version and only the newest revision of a version is not
\* deprecated, unless a reconciliation stopped halfway or an older revision was
\* not in the cache when it was to be deprecated (handleGenerationBump,
\* deprecateAppVersions).
THEOREM SettledUnlessLostHolds == Spec => []SettledUnlessLost
  <1>1. Init => SettledInv
    BY DEF Init, SettledInv, Created, Deprecating
  <1>2. ItemInv /\ SettledInv /\ [Next]_vars => SettledInv'
    BY StepSettled
  <1>3. SettledInv => SettledUnlessLost
    BY DEF SettledInv, SettledUnlessLost, DealtWith, Gone
  <1> QED
    BY <1>1, <1>2, <1>3, ItemInvariant, PTL DEF Spec
=============================================================================
