---------------------------- MODULE ApiSchemas ----------------------------
(***************************************************************************)
(* The fields that each kind of resource has in each version of the        *)
(* lifecycle and the metrics API.  A struct that is the same in every      *)
(* version is one field; "context.metadata" is a field of the struct or of *)
(* the list items "context".  A version is written as its difference from  *)
(* the next newer one.                                                     *)
(***************************************************************************)

Schema(spec, status) == [spec |-> spec, status |-> status]

DeploymentChecks == {"preDeploymentTasks", "postDeploymentTasks",
                     "preDeploymentEvaluations", "postDeploymentEvaluations"}

\* The lists of ItemStatus.
CheckItems == {"preDeploymentTaskStatus", "postDeploymentTaskStatus",
               "preDeploymentEvaluationTaskStatus", "postDeploymentEvaluationTaskStatus"}

CheckStates == {"preDeploymentStatus", "postDeploymentStatus",
                "preDeploymentEvaluationStatus", "postDeploymentEvaluationStatus"}

Course == {"currentPhase", "phaseTraceIDs", "status", "startTime", "endTime"}

KeptnApp_v1       == Schema({"version", "revision", "workloads"}, {"currentVersion"})
KeptnApp_v1beta1  == KeptnApp_v1
KeptnApp_v1alpha3 == [KeptnApp_v1beta1 EXCEPT !.spec = @ \cup DeploymentChecks]
KeptnApp_v1alpha2 == KeptnApp_v1alpha3
KeptnApp_v1alpha1 == [KeptnApp_v1alpha2 EXCEPT !.spec = @ \ {"revision"}]

KeptnAppContext_v1 ==
    Schema(DeploymentChecks \cup {"promotionTasks", "metadata", "spanLinks"}, {"status"})
KeptnAppContext_v1beta1 == KeptnAppContext_v1

KeptnAppCreationRequest_v1       == Schema({"appName"}, {"status"})
KeptnAppCreationRequest_v1beta1  == KeptnAppCreationRequest_v1
KeptnAppCreationRequest_v1alpha3 == KeptnAppCreationRequest_v1beta1

KeptnAppVersion_v1 ==
    Schema(KeptnApp_v1.spec \cup KeptnAppContext_v1.spec
               \cup {"appName", "previousVersion", "traceId"},
           CheckStates \cup CheckItems \cup Course
               \cup {"promotionStatus", "promotionTaskStatus", "workloadOverallStatus",
                     "workloadStatus"})
KeptnAppVersion_v1beta1 == KeptnAppVersion_v1
KeptnAppVersion_v1alpha3 ==
    Schema(KeptnApp_v1alpha3.spec \cup {"appName", "previousVersion", "traceId"},
           KeptnAppVersion_v1beta1.status \ {"promotionStatus", "promotionTaskStatus"})
KeptnAppVersion_v1alpha2 == KeptnAppVersion_v1alpha3
KeptnAppVersion_v1alpha1 == [KeptnAppVersion_v1alpha2 EXCEPT !.spec = @ \ {"revision"}]

KeptnWorkload_v1 ==
    Schema(DeploymentChecks \cup {"app", "version", "resourceReference", "metadata"},
           {"currentVersion"})
KeptnWorkload_v1beta1  == KeptnWorkload_v1
KeptnWorkload_v1alpha3 == [KeptnWorkload_v1beta1 EXCEPT !.spec = @ \ {"metadata"}]
KeptnWorkload_v1alpha2 == KeptnWorkload_v1alpha3
KeptnWorkload_v1alpha1 == KeptnWorkload_v1alpha2

KeptnWorkloadVersion_v1 ==
    Schema(KeptnWorkload_v1.spec \cup {"workloadName", "previousVersion", "traceId"},
           CheckStates \cup CheckItems \cup Course
               \cup {"deploymentStatus", "appContextMetadata", "deploymentStartTime"})
KeptnWorkloadVersion_v1beta1 == KeptnWorkloadVersion_v1
KeptnWorkloadVersion_v1alpha4 ==
    Schema(KeptnWorkload_v1alpha3.spec \cup {"workloadName", "previousVersion", "traceId"},
           KeptnWorkloadVersion_v1beta1.status \ {"appContextMetadata", "deploymentStartTime"})

\* What a KeptnWorkloadVersion was called before v1alpha4.
KeptnWorkloadInstance_v1alpha3 == KeptnWorkloadVersion_v1alpha4
KeptnWorkloadInstance_v1alpha2 == KeptnWorkloadInstance_v1alpha3
KeptnWorkloadInstance_v1alpha1 == KeptnWorkloadInstance_v1alpha2

KeptnTask_v1 ==
    Schema({"taskDefinition", "context", "context.metadata", "parameters", "secureParameters",
            "checkType", "retries", "timeout"},
           {"jobName", "status", "message", "startTime", "endTime", "reason"})
KeptnTask_v1beta1  == KeptnTask_v1
KeptnTask_v1alpha3 == [KeptnTask_v1beta1 EXCEPT !.spec = @ \ {"context.metadata"}]
KeptnTask_v1alpha2 ==
    [KeptnTask_v1alpha3 EXCEPT
        !.spec = (@ \ {"retries", "timeout"})
                 \cup {"workload", "workloadVersion", "app", "appVersion"},
        !.status = @ \ {"reason"}]
KeptnTask_v1alpha1 == KeptnTask_v1alpha2

KeptnTaskDefinition_v1 ==
    Schema({"python", "deno", "container", "retries", "timeout", "serviceAccount",
            "automountServiceAccountToken", "ttlSecondsAfterFinished", "imagePullSecrets"},
           {"function"})
KeptnTaskDefinition_v1beta1  == [KeptnTaskDefinition_v1 EXCEPT !.spec = @ \cup {"function"}]
KeptnTaskDefinition_v1alpha3 == KeptnTaskDefinition_v1beta1
KeptnTaskDefinition_v1alpha2 == Schema({"function"}, {"function"})
KeptnTaskDefinition_v1alpha1 == KeptnTaskDefinition_v1alpha2

KeptnEvaluation_v1 ==
    Schema({"workload", "workloadVersion", "appName", "appVersion", "evaluationDefinition",
            "checkType", "retries", "retryInterval"},
           {"retryCount", "evaluationStatus", "overallStatus", "startTime", "endTime"})
KeptnEvaluation_v1beta1  == KeptnEvaluation_v1
KeptnEvaluation_v1alpha3 == [KeptnEvaluation_v1beta1 EXCEPT !.spec = @ \cup {"failAction"}]
KeptnEvaluation_v1alpha2 == KeptnEvaluation_v1alpha3
KeptnEvaluation_v1alpha1 == KeptnEvaluation_v1alpha2

KeptnEvaluationDefinition_v1 ==
    Schema({"objectives", "objectives.keptnMetricRef", "objectives.evaluationTarget",
            "retries", "retryInterval"}, {"status"})
KeptnEvaluationDefinition_v1beta1  == KeptnEvaluationDefinition_v1
KeptnEvaluationDefinition_v1alpha3 ==
    [KeptnEvaluationDefinition_v1beta1 EXCEPT !.spec = @ \ {"retries", "retryInterval"}]
KeptnEvaluationDefinition_v1alpha2 ==
    [KeptnEvaluationDefinition_v1alpha3 EXCEPT
        !.spec = (@ \ {"objectives.keptnMetricRef"})
                 \cup {"objectives.name", "objectives.query", "source"}]
KeptnEvaluationDefinition_v1alpha1 == KeptnEvaluationDefinition_v1alpha2

KeptnEvaluationProvider_v1alpha3 == Schema({"targetServer", "secretKeyRef"}, {"status"})
KeptnEvaluationProvider_v1alpha2 == KeptnEvaluationProvider_v1alpha3
KeptnEvaluationProvider_v1alpha1 == Schema({"targetServer", "secretName"}, {"status"})

KeptnMetric_v1 ==
    Schema({"provider", "query", "fetchIntervalSeconds", "range"},
           {"value", "rawValue", "lastUpdated", "errMsg", "intervalResults"})
KeptnMetric_v1beta1  == KeptnMetric_v1
KeptnMetric_v1alpha3 == KeptnMetric_v1beta1
KeptnMetric_v1alpha2 ==
    [KeptnMetric_v1alpha3 EXCEPT !.spec = @ \ {"range"},
                                 !.status = @ \ {"errMsg", "intervalResults"}]
KeptnMetric_v1alpha1 == KeptnMetric_v1alpha2

KeptnMetricsProvider_v1 ==
    Schema({"type", "targetServer", "secretKeyRef", "insecureSkipTlsVerify"}, {"status"})
KeptnMetricsProvider_v1beta1 ==
    [KeptnMetricsProvider_v1 EXCEPT !.spec = @ \ {"insecureSkipTlsVerify"}]
KeptnMetricsProvider_v1alpha3 == KeptnMetricsProvider_v1beta1
KeptnMetricsProvider_v1alpha2 == [KeptnMetricsProvider_v1alpha3 EXCEPT !.spec = @ \ {"type"}]

Analysis_v1 ==
    Schema({"timeframe", "args", "analysisDefinition"},
           {"timeframe", "raw", "pass", "warning", "state", "storedValues"})
Analysis_v1beta1  == Analysis_v1
Analysis_v1alpha3 == Analysis_v1beta1

AnalysisDefinition_v1       == Schema({"objectives", "totalScore"}, {"status"})
AnalysisDefinition_v1beta1  == AnalysisDefinition_v1
AnalysisDefinition_v1alpha3 == AnalysisDefinition_v1beta1

AnalysisValueTemplate_v1       == Schema({"provider", "query"}, {"status"})
AnalysisValueTemplate_v1beta1  == AnalysisValueTemplate_v1
AnalysisValueTemplate_v1alpha3 == AnalysisValueTemplate_v1beta1
=============================================================================
