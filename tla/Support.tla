------------------------------- MODULE Support -------------------------------
(***************************************************************************)
(* What supports the delivery of workloads, each part by itself: the       *)
(* metrics controller, the readers of metrics, the providers they are      *)
(* fetched from, the converter of Keptn v1 SLOs, the certificate manager   *)
(* and the conversion webhook.  They have no state in common, so a         *)
(* behaviour is one of a single part, while the others are at rest.        *)
(***************************************************************************)
EXTENDS KeptnMetric, MetricReaders, Providers, SloConverter, CertManager, ObjectStore

VARIABLE part   \* the part that this behaviour is about

supportVars == <<vars, readerVars, query, slo, result, certVars, storeVars, part>>

-----------------------------------------------------------------------------
(***************************************************************************)
(* The parts at rest.                                                      *)
(***************************************************************************)
\* There is no metric.
NoMetrics ==
    /\ metric = [m \in Metrics |-> Gone]
    /\ cache = metric
    /\ clock = MaxClock
    /\ queued = {}
    /\ timer = [m \in Metrics |-> Never]
    /\ rec = Nobody
    /\ dropped = {}
    /\ widest = [m \in Metrics |-> 0]
    /\ edits = 0
    /\ faults = 0

NothingRead ==
    /\ shown = [m \in Published |-> Absent]
    /\ listed = shown
    /\ pending = {}
    /\ known = {}
    /\ served = [k \in MetricKeys |-> NoEntry]
    /\ gauge = [g \in Gauges |-> Absent]
    /\ changes = 0
    /\ restarts = 0

NoQuery == query = [pc |-> "done", out |-> Unfinished]

NoObjective == slo = [pass |-> <<>>, warning |-> <<>>] /\ result = Pending

\* The first certificates are installed.
CertsInstalled ==
    LET root   == [id |-> 1, exp |-> RootLife]
        server == [root |-> root, exp |-> ServerLife]
    IN  /\ now = 0
        /\ secret = [there |-> TRUE, root |-> root, old |-> NoRoot, server |-> server]
        /\ copy = secret
        /\ bundle = [c \in Configs |-> {root}]
        /\ round = Idle
        /\ due = 1
        /\ serving = [o \in Servers |-> server]
        /\ poll = [o \in Servers |-> WatchInterval]
        /\ lastRoot = 1
        /\ missed = [o \in Servers |-> "no"]
        /\ disturbed = FALSE
        /\ outage = [o \in Servers |-> 0]
        /\ failures = 0
        /\ disturbances = 0

OneObject ==
    /\ kind = "KeptnApp"
    /\ stored = Filled("KeptnApp", "v1", 2)
    /\ edit = NoEdit
    /\ writes = 0

-----------------------------------------------------------------------------
InitSupport ==
    /\ part \in {"metric", "readers", "query", "slo", "certs", "store"}
    /\ IF part = "metric" THEN Init ELSE NoMetrics
    /\ IF part = "readers" THEN InitReaders ELSE NothingRead
    /\ IF part = "query" THEN InitQuery ELSE NoQuery
    /\ IF part = "slo" THEN InitObjective ELSE NoObjective
    /\ IF part = "certs" THEN InitCerts ELSE CertsInstalled
    /\ IF part = "store" THEN InitStore ELSE OneObject

NextSupport ==
    /\ UNCHANGED part
    /\ \/ /\ part = "metric"
          /\ Next
          /\ UNCHANGED <<readerVars, query, slo, result, certVars, storeVars>>
       \/ /\ part = "readers"
          /\ NextReaders
          /\ UNCHANGED <<vars, query, slo, result, certVars, storeVars>>
       \/ /\ part = "query"
          /\ ProviderStep
          /\ UNCHANGED <<vars, readerVars, slo, result, certVars, storeVars>>
       \/ /\ part = "slo"
          /\ Convert
          /\ UNCHANGED <<vars, readerVars, query, certVars, storeVars>>
       \/ /\ part = "certs"
          /\ NextCerts
          /\ UNCHANGED <<vars, readerVars, query, slo, result, storeVars>>
       \/ /\ part = "store"
          /\ NextStore
          /\ UNCHANGED <<vars, readerVars, query, slo, result, certVars>>

\* The fairness of FairSpec, if the behaviour is about the metrics controller.
FairMetrics ==
    /\ \A m \in Metrics :
          /\ WF_vars(part = "metric" /\ Reconcile(m))
          /\ WF_vars(part = "metric" /\ TimerFires(m))
          /\ WF_vars(part = "metric" /\ SyncCache(m))
    /\ WF_vars(part = "metric" /\ UpdateStatus)
    /\ WF_vars(part = "metric" /\ Tick)

\* Informers deliver, the metrics server records, and the controller fetches again
\* (see KeepsFetching).
FairReaders ==
    /\ \A m \in Published :
          /\ WF_readerVars(part = "readers" /\ WatchMetric(m))
          /\ WF_readerVars(part = "readers" /\ SyncListed(m))
          /\ WF_readerVars(part = "readers" /\ Refetch(m))
    /\ WF_readerVars(part = "readers" /\ RecordMetrics)

\* The fairness of FairCertSpec, likewise.
FairCerts ==
    /\ WF_certVars(part = "certs" /\ Manager)
    /\ WF_certVars(part = "certs" /\ SyncSecret)
    /\ WF_certVars(part = "certs" /\ TimePasses)
    /\ \A o \in Servers :
          WF_certVars(part = "certs" /\ (UpdateCertificates(o) \/ MissCertificates(o)))

SupportSpec ==
    InitSupport /\ [][NextSupport]_supportVars /\ FairMetrics /\ FairReaders /\ FairCerts
=============================================================================
