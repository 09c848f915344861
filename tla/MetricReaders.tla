---------------------------- MODULE MetricReaders ----------------------------
(***************************************************************************)
(* Those who pass on the values of KeptnMetrics to others: the custom      *)
(* metrics API of Kubernetes, which keeps an entry for each key, and the   *)
(* metrics server, which keeps Prometheus gauges.  Both run in the process *)
(* of the metrics operator.                                                *)
(*                                                                         *)
(* Neither identifies a metric by its namespace and name.  The API joins   *)
(* the two with a dash, so that metrics of different namespaces may share  *)
(* a key; the gauge has the name only, with everything that is neither a   *)
(* letter nor a digit replaced, so that metrics of different namespaces,   *)
(* or of similar names, share a gauge.                                     *)
(*                                                                         *)
(* What the metrics controller does is reduced to a status update now and  *)
(* then, which may or may not change the value: see KeptnMetric.           *)
(***************************************************************************)
EXTENDS Naturals

CONSTANTS
    Published,    \* the KeptnMetrics
    KeyOf,        \* the key of each in the custom metrics API
    GaugeOf,      \* the gauge of each
    Texts,        \* the values of metrics
    Quantities,   \* those of them that are Kubernetes quantities
    Floats,       \* those of them that are floating-point numbers
    NoText,       \* a metric has no value yet
    Absent,       \* there is no metric
    DefaultValue, \* defaultMetricsValue, and the number for what is not one
    MaxChanges,   \* bound: metrics created, deleted and given another value
    MaxRestarts   \* bound: restarts of the process

ASSUME ReadersAssumption ==
    /\ Quantities \subseteq Texts /\ Floats \subseteq Texts
    /\ {NoText, Absent, DefaultValue} \cap Texts = {}
    /\ MaxChanges \in Nat /\ MaxRestarts \in Nat

VARIABLES
    shown,      \* the value of each metric in the API server
    listed,     \* the copies in the informer of the manager
    pending,    \* the metrics of which the adapter's informer has an event to deliver
    known,      \* the metrics in the store of the adapter's informer
    served,     \* the entries of the custom metrics API
    gauge,      \* the Prometheus gauges
    changes, restarts

readerVars == <<shown, listed, pending, known, served, gauge, changes, restarts>>

NoEntry == [metric |-> Absent, value |-> Absent]

MetricKeys == {KeyOf[m] : m \in Published}
Gauges == {GaugeOf[m] : m \in Published}

There(m) == shown[m] # Absent

-----------------------------------------------------------------------------
(***************************************************************************)
(* The custom metrics API.                                                 *)
(***************************************************************************)
\* updateMetric of the adapter: a metric without a value has the default.
Quantity(text) == IF text = NoText THEN DefaultValue ELSE text

IsQuantity(text) == Quantity(text) \in Quantities \cup {DefaultValue}

\* Mutant: a metric without a value is not served.
EntryIfValue(old, m) ==
    IF shown[m] \in Quantities THEN [metric |-> m, value |-> shown[m]] ELSE old

\* A value that is no quantity leaves the entry of the key as it is.
Entry(old, m) ==
    IF IsQuantity(shown[m]) THEN [metric |-> m, value |-> Quantity(shown[m])] ELSE old

\* AddFunc, UpdateFunc
WatchUpdate(m) ==
    /\ m \in pending
    /\ There(m)
    /\ pending' = pending \ {m}
    /\ known' = known \cup {m}
    /\ served' = [served EXCEPT ![KeyOf[m]] = Entry(@, m)]
    /\ UNCHANGED <<shown, listed, gauge, changes, restarts>>

\* DeleteFunc
WatchDelete(m) ==
    /\ m \in known
    /\ ~There(m)
    /\ known' = known \ {m}
    /\ served' = [served EXCEPT ![KeyOf[m]] = NoEntry]
    /\ UNCHANGED <<shown, listed, pending, gauge, changes, restarts>>

-----------------------------------------------------------------------------
(***************************************************************************)
(* The metrics server.                                                     *)
(***************************************************************************)
\* ParseFloat, of which the error is ignored.
Float(text) == IF text \in Floats THEN text ELSE DefaultValue

\* recordMetrics sets the gauge of every metric in the list, which has no order: of
\* several metrics with the same gauge the last one counts.  A gauge is never taken back.
RecordMetrics ==
    /\ gauge' \in [Gauges -> {gauge[g] : g \in Gauges} \cup {Float(listed[m]) : m \in Published}]
    /\ \A g \in Gauges :
          LET here == {m \in Published : GaugeOf[m] = g /\ listed[m] # Absent}
          IN  gauge'[g] \in IF here = {} THEN {gauge[g]} ELSE {Float(listed[m]) : m \in here}
    /\ UNCHANGED <<shown, listed, pending, known, served, changes, restarts>>

\* The informer that List reads.
SyncListed(m) ==
    /\ listed[m] # shown[m]
    /\ listed' = [listed EXCEPT ![m] = shown[m]]
    /\ UNCHANGED <<shown, pending, known, served, gauge, changes, restarts>>

-----------------------------------------------------------------------------
(***************************************************************************)
(* Restarts, and the metrics themselves.                                   *)
(***************************************************************************)
\* The process is started again: both informers list the metrics.
RestartReaders ==
    /\ restarts < MaxRestarts
    /\ restarts' = restarts + 1
    /\ listed' = shown
    /\ pending' = {m \in Published : There(m)}
    /\ known' = {}
    /\ served' = [k \in MetricKeys |-> NoEntry]
    /\ gauge' = [g \in Gauges |-> Absent]
    /\ UNCHANGED <<shown, changes>>

\* The adapter's informer missed the deletion: it finds out when it lists the metrics
\* again, and DeleteFunc panics on the object it is given instead.
MissedDelete(m) ==
    /\ m \in known
    /\ ~There(m)
    /\ RestartReaders

Change == changes < MaxChanges /\ changes' = changes + 1

CreateMetric(m) ==
    /\ ~There(m)
    /\ Change
    /\ shown' = [shown EXCEPT ![m] = NoText]
    /\ pending' = pending \cup {m}
    /\ UNCHANGED <<listed, known, served, gauge, restarts>>

RemoveMetric(m) ==
    /\ There(m)
    /\ Change
    /\ shown' = [shown EXCEPT ![m] = Absent]
    /\ pending' = pending \ {m}
    /\ UNCHANGED <<listed, known, served, gauge, restarts>>

\* A fetch with another value ...
SetValue(m, text) ==
    /\ There(m)
    /\ text # shown[m]
    /\ Change
    /\ shown' = [shown EXCEPT ![m] = text]
    /\ pending' = pending \cup {m}
    /\ UNCHANGED <<listed, known, served, gauge, restarts>>

\* ... and one with the same value or an error: LastUpdated changes all the same.
Refetch(m) ==
    /\ There(m)
    /\ m \notin pending
    /\ pending' = pending \cup {m}
    /\ UNCHANGED <<shown, listed, known, served, gauge, changes, restarts>>

-----------------------------------------------------------------------------
\* Metrics that were just created, and a process that starts.
InitReaders ==
    /\ shown = [m \in Published |-> NoText]
    /\ listed = shown
    /\ pending = {m \in Published : There(m)}
    /\ known = {}
    /\ served = [k \in MetricKeys |-> NoEntry]
    /\ gauge = [g \in Gauges |-> Absent]
    /\ changes = 0
    /\ restarts = 0

WatchMetric(m) == WatchUpdate(m) \/ WatchDelete(m)

NextReaders ==
    \/ \E m \in Published :
          \/ WatchMetric(m) \/ SyncListed(m) \/ MissedDelete(m)
          \/ CreateMetric(m) \/ RemoveMetric(m) \/ Refetch(m)
          \/ \E text \in Texts : SetValue(m, text)
    \/ RecordMetrics \/ RestartReaders

-----------------------------------------------------------------------------
\* Once metrics change no more, the custom metrics API has no entry for a key without a
\* metric, and for one with metrics that have a quantity the value of one of them, also
\* when metrics that share the key were deleted or have values it cannot parse; and a
\* gauge has the value of one of the metrics whose gauge it is (updateMetric, DeleteFunc,
\* recordMetrics).  Of metrics that share a key or a gauge, which one it is may change
\* all the time.
ReadersCatchUp ==
    <>[]( /\ \A k \in MetricKeys :
                LET here     == {m \in Published : KeyOf[m] = k /\ There(m)}
                    readable == {m \in here : IsQuantity(shown[m])}
                IN  /\ here = {} => served[k] = NoEntry
                    /\ readable # {} =>
                          served[k] \in {[metric |-> m, value |-> Quantity(shown[m])] :
                                            m \in readable}
          /\ \A g \in Gauges :
                LET here == {m \in Published : GaugeOf[m] = g /\ There(m)}
                IN  here # {} => gauge[g] \in {Float(shown[m]) : m \in here} )
=============================================================================
