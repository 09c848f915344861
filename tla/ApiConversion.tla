--------------------------- MODULE ApiConversion ---------------------------
(***************************************************************************)
(* The conversions between the versions of the APIs.  Objects are stored   *)
(* in one version; a client of another version reads and writes them       *)
(* through conversions.  Those of KeptnApp and KeptnAppVersion are the     *)
(* ConvertTo and ConvertFrom of the conversion webhook; of every other     *)
(* kind the API server keeps the fields that the other version has as well *)
(* and drops the rest.  An object is a function from the fields of its     *)
(* version to values; the lists of task and evaluation status hold items   *)
(* with fields of their own, which v1alpha1 names differently.             *)
(***************************************************************************)
EXTENDS Naturals, FiniteSets, ApiSchemas

\* The versions that are served, and their fields.
Schemas ==
    [KeptnApp |-> [v1 |-> KeptnApp_v1, v1beta1 |-> KeptnApp_v1beta1,
                   v1alpha3 |-> KeptnApp_v1alpha3, v1alpha2 |-> KeptnApp_v1alpha2,
                   v1alpha1 |-> KeptnApp_v1alpha1],
     KeptnAppContext |-> [v1 |-> KeptnAppContext_v1, v1beta1 |-> KeptnAppContext_v1beta1],
     KeptnAppCreationRequest |->
        [v1 |-> KeptnAppCreationRequest_v1, v1beta1 |-> KeptnAppCreationRequest_v1beta1,
         v1alpha3 |-> KeptnAppCreationRequest_v1alpha3],
     KeptnAppVersion |->
        [v1 |-> KeptnAppVersion_v1, v1beta1 |-> KeptnAppVersion_v1beta1,
         v1alpha3 |-> KeptnAppVersion_v1alpha3, v1alpha2 |-> KeptnAppVersion_v1alpha2,
         v1alpha1 |-> KeptnAppVersion_v1alpha1],
     KeptnWorkload |->
        [v1 |-> KeptnWorkload_v1, v1beta1 |-> KeptnWorkload_v1beta1,
         v1alpha3 |-> KeptnWorkload_v1alpha3, v1alpha2 |-> KeptnWorkload_v1alpha2,
         v1alpha1 |-> KeptnWorkload_v1alpha1],
     KeptnWorkloadVersion |->
        [v1 |-> KeptnWorkloadVersion_v1, v1beta1 |-> KeptnWorkloadVersion_v1beta1,
         v1alpha4 |-> KeptnWorkloadVersion_v1alpha4],
     KeptnWorkloadInstance |->
        [v1alpha3 |-> KeptnWorkloadInstance_v1alpha3, v1alpha2 |-> KeptnWorkloadInstance_v1alpha2,
         v1alpha1 |-> KeptnWorkloadInstance_v1alpha1],
     KeptnTask |->
        [v1 |-> KeptnTask_v1, v1beta1 |-> KeptnTask_v1beta1, v1alpha3 |-> KeptnTask_v1alpha3,
         v1alpha2 |-> KeptnTask_v1alpha2, v1alpha1 |-> KeptnTask_v1alpha1],
     KeptnTaskDefinition |->
        [v1 |-> KeptnTaskDefinition_v1, v1beta1 |-> KeptnTaskDefinition_v1beta1,
         v1alpha3 |-> KeptnTaskDefinition_v1alpha3, v1alpha2 |-> KeptnTaskDefinition_v1alpha2,
         v1alpha1 |-> KeptnTaskDefinition_v1alpha1],
     KeptnEvaluation |->
        [v1 |-> KeptnEvaluation_v1, v1beta1 |-> KeptnEvaluation_v1beta1,
         v1alpha3 |-> KeptnEvaluation_v1alpha3, v1alpha2 |-> KeptnEvaluation_v1alpha2,
         v1alpha1 |-> KeptnEvaluation_v1alpha1],
     KeptnEvaluationDefinition |->
        [v1 |-> KeptnEvaluationDefinition_v1, v1beta1 |-> KeptnEvaluationDefinition_v1beta1,
         v1alpha3 |-> KeptnEvaluationDefinition_v1alpha3,
         v1alpha2 |-> KeptnEvaluationDefinition_v1alpha2,
         v1alpha1 |-> KeptnEvaluationDefinition_v1alpha1],
     KeptnEvaluationProvider |->
        [v1alpha3 |-> KeptnEvaluationProvider_v1alpha3,
         v1alpha2 |-> KeptnEvaluationProvider_v1alpha2,
         v1alpha1 |-> KeptnEvaluationProvider_v1alpha1],
     KeptnMetric |->
        [v1 |-> KeptnMetric_v1, v1beta1 |-> KeptnMetric_v1beta1, v1alpha3 |-> KeptnMetric_v1alpha3,
         v1alpha2 |-> KeptnMetric_v1alpha2, v1alpha1 |-> KeptnMetric_v1alpha1],
     KeptnMetricsProvider |->
        [v1 |-> KeptnMetricsProvider_v1, v1beta1 |-> KeptnMetricsProvider_v1beta1,
         v1alpha3 |-> KeptnMetricsProvider_v1alpha3, v1alpha2 |-> KeptnMetricsProvider_v1alpha2],
     Analysis |-> [v1 |-> Analysis_v1, v1beta1 |-> Analysis_v1beta1,
                   v1alpha3 |-> Analysis_v1alpha3],
     AnalysisDefinition |->
        [v1 |-> AnalysisDefinition_v1, v1beta1 |-> AnalysisDefinition_v1beta1,
         v1alpha3 |-> AnalysisDefinition_v1alpha3],
     AnalysisValueTemplate |->
        [v1 |-> AnalysisValueTemplate_v1, v1beta1 |-> AnalysisValueTemplate_v1beta1,
         v1alpha3 |-> AnalysisValueTemplate_v1alpha3]]

Kinds          == DOMAIN Schemas
Versions(kind) == DOMAIN Schemas[kind]

\* The storage version.
Hub(kind) == IF "v1" \in Versions(kind) THEN "v1" ELSE "v1alpha3"

\* The zero value of a field.
Zero == 0

FieldsOf(schema) ==
    {<<"metadata", "objectMeta">>} \cup {<<"spec", f>> : f \in schema.spec}
                                   \cup {<<"status", f>> : f \in schema.status}

Fields(kind, v) == FieldsOf(Schemas[kind][v])

InStatus(f) == f[1] = "status"

-----------------------------------------------------------------------------
\* The lists of items in the status of app and workload versions.
IsList(kind, f) ==
    /\ kind \in {"KeptnAppVersion", "KeptnWorkloadVersion", "KeptnWorkloadInstance"}
    /\ InStatus(f)
    /\ f[2] \in CheckItems \cup {"promotionTaskStatus"}

IsEvaluationList(f) ==
    f[2] \in {"preDeploymentEvaluationTaskStatus", "postDeploymentEvaluationTaskStatus"}

\* The names that the fields of an item have: ItemStatus, and TaskStatus and
\* EvaluationStatus of v1alpha1.
DefinitionName(v, list) ==
    IF v # "v1alpha1" THEN "definitionName"
    ELSE IF IsEvaluationList(list) THEN "evaluationDefinitionName" ELSE "taskDefinitionName"

Name(v, list) ==
    IF v # "v1alpha1" THEN "name"
    ELSE IF IsEvaluationList(list) THEN "evaluationName" ELSE "taskName"

ItemFields(v, list) == {DefinitionName(v, list), Name(v, list), "status", "startTime", "endTime"}

\* An object of version v all of whose fields have the value x.
Filled(kind, v, x) ==
    [f \in Fields(kind, v) |->
        IF IsList(kind, f) THEN [i \in ItemFields(v, f) |-> x] ELSE x]

-----------------------------------------------------------------------------
\* The fields that each ConvertTo and ConvertFrom assigns from one object to the other.
KeptnAppToHub_v1alpha1   == Schema({"version", "workloads"}, {"currentVersion"})
KeptnAppFromHub_v1alpha1 == Schema({"version", "workloads"}, {"currentVersion"})
KeptnAppToHub_v1alpha2   == Schema({"version", "workloads", "revision"}, {"currentVersion"})
KeptnAppFromHub_v1alpha2 == Schema({"version", "workloads", "revision"}, {"currentVersion"})
KeptnAppToHub_v1alpha3   == KeptnAppToHub_v1alpha2
KeptnAppFromHub_v1alpha3 == KeptnAppFromHub_v1alpha2
KeptnAppToHub_v1beta1    == KeptnAppToHub_v1alpha3
KeptnAppFromHub_v1beta1  == KeptnAppFromHub_v1alpha3

KeptnAppVersionToHub_v1alpha1 ==
    Schema({"version", "workloads"} \cup DeploymentChecks
               \cup {"appName", "previousVersion", "traceId"},
           CheckStates \cup CheckItems \cup Course
               \cup {"workloadOverallStatus", "workloadStatus"})
KeptnAppVersionFromHub_v1alpha1 ==
    Schema({"version", "workloads"} \cup DeploymentChecks
               \cup {"appName", "previousVersion", "traceId"},
           CheckStates \cup CheckItems \cup Course
               \cup {"workloadOverallStatus", "workloadStatus"})
KeptnAppVersionToHub_v1alpha2   == KeptnAppVersionToHub_v1alpha1
KeptnAppVersionFromHub_v1alpha2 == KeptnAppVersionFromHub_v1alpha1
KeptnAppVersionToHub_v1alpha3   ==
    [KeptnAppVersionToHub_v1alpha2 EXCEPT !.spec = @ \cup {"revision"}]
KeptnAppVersionFromHub_v1alpha3 ==
    [KeptnAppVersionFromHub_v1alpha2 EXCEPT !.spec = @ \cup {"revision"}]

\* Mutant: the conversions of v1beta1 are those of v1alpha3.
KeptnAppVersionFromHub_BeforePromotion == KeptnAppVersionFromHub_v1alpha3

KeptnAppVersionToHub_v1beta1 ==
    [KeptnAppVersionToHub_v1alpha3 EXCEPT
        !.spec = @ \cup {"promotionTasks"},
        !.status = @ \cup {"promotionStatus", "promotionTaskStatus"}]
KeptnAppVersionFromHub_v1beta1 ==
    [KeptnAppVersionFromHub_v1alpha3 EXCEPT
        !.spec = @ \cup {"promotionTasks"},
        !.status = @ \cup {"promotionStatus", "promotionTaskStatus"}]

ToHub ==
    [KeptnApp |-> [v1alpha1 |-> KeptnAppToHub_v1alpha1, v1alpha2 |-> KeptnAppToHub_v1alpha2,
                   v1alpha3 |-> KeptnAppToHub_v1alpha3, v1beta1 |-> KeptnAppToHub_v1beta1],
     KeptnAppVersion |->
        [v1alpha1 |-> KeptnAppVersionToHub_v1alpha1, v1alpha2 |-> KeptnAppVersionToHub_v1alpha2,
         v1alpha3 |-> KeptnAppVersionToHub_v1alpha3, v1beta1 |-> KeptnAppVersionToHub_v1beta1]]

FromHub ==
    [KeptnApp |-> [v1alpha1 |-> KeptnAppFromHub_v1alpha1, v1alpha2 |-> KeptnAppFromHub_v1alpha2,
                   v1alpha3 |-> KeptnAppFromHub_v1alpha3, v1beta1 |-> KeptnAppFromHub_v1beta1],
     KeptnAppVersion |->
        [v1alpha1 |-> KeptnAppVersionFromHub_v1alpha1,
         v1alpha2 |-> KeptnAppVersionFromHub_v1alpha2,
         v1alpha3 |-> KeptnAppVersionFromHub_v1alpha3,
         v1beta1  |-> KeptnAppVersionFromHub_v1beta1]]

\* The item of a list, in the names of another version.
ConvertItem(from, to, list, item) ==
    [i \in ItemFields(to, list) |->
        CASE i = DefinitionName(to, list) -> item[DefinitionName(from, list)]
          [] i = Name(to, list)           -> item[Name(from, list)]
          [] OTHER                        -> item[i]]

\* Every field that is not assigned is zero in the new object.
Assign(kind, from, to, assigned, o) ==
    [f \in Fields(kind, to) |->
        IF f \notin FieldsOf(assigned) THEN Filled(kind, to, Zero)[f]
        ELSE IF IsList(kind, f) THEN ConvertItem(from, to, f, o[f]) ELSE o[f]]

\* The API server's conversion of the kinds without a webhook: what the other
\* version does not have is dropped, in items of lists as well.
Prune(kind, from, to, o) ==
    [f \in Fields(kind, to) |->
        IF f \notin DOMAIN o THEN Filled(kind, to, Zero)[f]
        ELSE IF IsList(kind, f)
             THEN [i \in ItemFields(to, f) |-> IF i \in DOMAIN o[f] THEN o[f][i] ELSE Zero]
             ELSE o[f]]

\* To the storage version; a revision that ConvertTo does not copy becomes 1.
ConvertTo(kind, v, o) ==
    IF v = Hub(kind) THEN o
    ELSE IF kind \notin DOMAIN ToHub THEN Prune(kind, v, Hub(kind), o)
    ELSE LET hub == Assign(kind, v, Hub(kind), ToHub[kind][v], o)
         IN  IF "revision" \in ToHub[kind][v].spec THEN hub
             ELSE [hub EXCEPT ![<<"spec", "revision">>] = 1]

\* From the storage version.
ConvertFrom(kind, v, hub) ==
    IF v = Hub(kind) THEN hub
    ELSE IF kind \notin DOMAIN FromHub THEN Prune(kind, Hub(kind), v, hub)
    ELSE Assign(kind, Hub(kind), v, FromHub[kind][v], hub)
=============================================================================
