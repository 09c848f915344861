----------------------------- MODULE KeptnMetric -----------------------------
(***************************************************************************)
(* The KeptnMetric controller of the metrics operator, which fetches the   *)
(* value of every metric at its interval.  Those who read what it writes   *)
(* are in MetricReaders.                                                   *)
(*                                                                         *)
(* A metric whose range has storedResults keeps a window of results and    *)
(* has no value; any other metric has the latest value.                    *)
(***************************************************************************)
EXTENDS Integers, Sequences

CONSTANTS
    Metrics,      \* the KeptnMetrics
    Values,       \* what a provider returns
    None,         \* no value yet
    Error,        \* a result that is an error
    Limits,       \* the values of storedResults a user sets, 0 for no range
    Interval,     \* fetchIntervalSeconds, in ticks of the clock
    MaxClock,     \* bound: ticks of the clock
    MaxFaults,    \* bound: failed calls and restarts
    MaxEdits      \* bound: edits and deletions by users

ASSUME MetricAssumption ==
    /\ {None, Error} \cap Values = {}
    /\ Limits \subseteq Nat
    /\ Interval \in Nat \ {0}
    /\ MaxClock \in Nat /\ MaxFaults \in Nat /\ MaxEdits \in Nat

VARIABLES
    metric,    \* the metrics in the API server
    cache,     \* the controller's informer's copies
    clock,     \* the time
    queued,    \* the metrics in the work queue
    timer,     \* when each is requeued; Never if it is not waiting
    rec,       \* the metric that is being fetched
    dropped,   \* history: metrics that were not requeued after a failed read
    widest,    \* history: the largest limit each metric has had
    edits, faults

vars == <<metric, cache, clock, queued, timer, rec, dropped, widest, edits, faults>>

-----------------------------------------------------------------------------
Never == -1

\* Of an interval result only the time is kept.
\* A metric that was never updated has its LastUpdated long in the past.
LongAgo == -Interval

NewMetric(limit) ==
    [there |-> TRUE, limit |-> limit, value |-> None, err |-> FALSE, last |-> LongAgo,
     results |-> << >>]

Gone == [NewMetric(0) EXCEPT !.there = FALSE]

Nobody == [metric |-> None, base |-> Gone, result |-> None]

Fault == faults < MaxFaults /\ faults' = faults + 1

-----------------------------------------------------------------------------
(***************************************************************************)
(* The controller.  It has one worker.                                     *)
(***************************************************************************)
Serve(m) ==
    /\ m \in queued
    /\ rec = Nobody

\* A metric that is not found is forgotten.
NotFound(m) ==
    /\ Serve(m)
    /\ ~cache[m].there
    /\ queued' = queued \ {m}
    /\ UNCHANGED <<metric, cache, clock, timer, rec, dropped, widest, edits, faults>>

\* Any other error of the read ends the reconciliation without a requeue.
ReadFails(m) ==
    /\ Serve(m)
    /\ Fault
    /\ queued' = queued \ {m}
    /\ dropped' = dropped \cup {m}
    /\ UNCHANGED <<metric, cache, clock, timer, rec, widest, edits>>

\* Mutant: the interval is counted from now.
FetchTimeFromNow(m) == clock + Interval

\* Mutant: the interval is not waited for.
FetchTimeAtOnce(m) == cache[m].last

\* fetchTime
FetchTime(m) == cache[m].last + Interval

\* The metric was updated less than the interval ago: it waits for the rest of it.
NotDue(m) ==
    /\ Serve(m)
    /\ cache[m].there
    /\ clock < FetchTime(m)
    /\ queued' = queued \ {m}
    /\ timer' = [timer EXCEPT ![m] = FetchTime(m)]
    /\ UNCHANGED <<metric, cache, clock, rec, dropped, widest, edits, faults>>

\* The provider is not found or not supported: the metric is requeued.
NoProvider(m) ==
    /\ Serve(m)
    /\ cache[m].there
    /\ clock >= FetchTime(m)
    /\ Fault
    /\ UNCHANGED <<metric, cache, clock, queued, timer, rec, dropped, widest, edits>>

\* getResults: the provider answers, or fails to.
Fetch(m) ==
    /\ Serve(m)
    /\ cache[m].there
    /\ clock >= FetchTime(m)
    /\ queued' = queued \ {m}
    /\ \E v \in Values \cup {Error} : rec' = [metric |-> m, base |-> cache[m], result |-> v]
    /\ UNCHANGED <<metric, cache, clock, timer, dropped, widest, edits, faults>>

\* Mutant: the window is one too long.
LongWindow(results, limit, r) ==
    IF Len(results) > limit THEN Append(Tail(results), r) ELSE Append(results, r)

\* The window of results, of which the oldest goes when the limit is reached.
Window(results, limit, r) ==
    IF Len(results) >= limit THEN Append(Tail(results), r) ELSE Append(results, r)

\* updateMetric
Updated(base, result) ==
    LET new == IF base.limit > 0
               THEN [base EXCEPT !.results = Window(@, base.limit, clock)]
               ELSE IF result = Error
               THEN [base EXCEPT !.err = TRUE]
               ELSE [base EXCEPT !.err = FALSE, !.value = result]
    IN  [new EXCEPT !.last = clock]

\* The status is written, unless the metric has changed since it was read.
\* However this ends, the metric is requeued.
UpdateStatus ==
    LET m   == rec.metric
        new == Updated(rec.base, rec.result)
    IN  /\ rec # Nobody
        /\ rec' = Nobody
        /\ queued' = queued \cup {m}
        /\ \/ /\ metric[m] = rec.base
              /\ metric' = [metric EXCEPT ![m] = new]
              /\ UNCHANGED faults
           \/ /\ metric[m] # rec.base
              /\ UNCHANGED <<metric, faults>>
           \/ /\ Fault
              /\ \/ metric[m] = rec.base /\ metric' = [metric EXCEPT ![m] = new]
                 \/ UNCHANGED metric
        /\ UNCHANGED <<cache, clock, timer, dropped, widest, edits>>

\* The delay of a requeue is over.
TimerFires(m) ==
    /\ timer[m] # Never
    /\ clock >= timer[m]
    /\ timer' = [timer EXCEPT ![m] = Never]
    /\ queued' = queued \cup {m}
    /\ UNCHANGED <<metric, cache, clock, rec, dropped, widest, edits, faults>>

\* The controller's informer: an event queues the metric if its spec has changed
\* or it is gone (GenerationChangedPredicate).
SyncCache(m) ==
    /\ cache[m] # metric[m]
    /\ cache' = [cache EXCEPT ![m] = metric[m]]
    /\ IF cache[m].limit # metric[m].limit \/ ~metric[m].there
       THEN queued' = queued \cup {m} /\ dropped' = dropped \ {m}
       ELSE UNCHANGED <<queued, dropped>>
    /\ UNCHANGED <<metric, clock, timer, rec, widest, edits, faults>>

-----------------------------------------------------------------------------
(***************************************************************************)
(* Restarts, users and time.                                               *)
(***************************************************************************)
\* The process is started again: the informer lists the metrics.
Restart ==
    /\ cache' = metric
    /\ queued' = {m \in Metrics : metric[m].there}
    /\ timer' = [m \in Metrics |-> Never]
    /\ rec' = Nobody
    /\ dropped' = {}
    /\ UNCHANGED <<metric, clock, widest, edits>>

Crash == Fault /\ Restart

Edit == edits < MaxEdits /\ edits' = edits + 1

EditSpec(m, limit) ==
    /\ metric[m].there
    /\ limit # metric[m].limit
    /\ Edit
    /\ metric' = [metric EXCEPT ![m].limit = limit]
    /\ widest' = [widest EXCEPT ![m] = IF limit > @ THEN limit ELSE @]
    /\ UNCHANGED <<cache, clock, queued, timer, rec, dropped, faults>>

Delete(m) ==
    /\ metric[m].there
    /\ Edit
    /\ metric' = [metric EXCEPT ![m] = Gone]
    /\ UNCHANGED <<cache, clock, queued, timer, rec, dropped, widest, faults>>

Tick ==
    /\ clock < MaxClock
    /\ clock' = clock + 1
    /\ UNCHANGED <<metric, cache, queued, timer, rec, dropped, widest, edits, faults>>

-----------------------------------------------------------------------------
Init ==
    /\ metric \in [Metrics -> {NewMetric(l) : l \in Limits}]
    /\ cache = metric
    /\ clock = 0
    /\ queued = Metrics
    /\ timer = [m \in Metrics |-> Never]
    /\ rec = Nobody
    /\ dropped = {}
    /\ widest = [m \in Metrics |-> metric[m].limit]
    /\ edits = 0
    /\ faults = 0

Reconcile(m) == NotFound(m) \/ ReadFails(m) \/ NotDue(m) \/ NoProvider(m) \/ Fetch(m)

Next ==
    \/ \E m \in Metrics :
          \/ Reconcile(m) \/ TimerFires(m) \/ SyncCache(m) \/ Delete(m)
          \/ \E limit \in Limits : EditSpec(m, limit)
    \/ UpdateStatus \/ Crash \/ Tick

Spec == Init /\ [][Next]_vars

\* The controller and its informer run, and time passes.
FairSpec ==
    /\ Spec
    /\ \A m \in Metrics :
          WF_vars(Reconcile(m)) /\ WF_vars(TimerFires(m)) /\ WF_vars(SyncCache(m))
    /\ WF_vars(UpdateStatus) /\ WF_vars(Tick)

-----------------------------------------------------------------------------
\* The results in the window are of different fetches in the order in which they
\* were made, at least the interval apart, however often a status update fails,
\* is applied without an answer or is refused (Reconcile, updateMetric).
ResultsApart ==
    \A m \in Metrics :
        LET r == metric[m].results
        IN  \A i \in 1..Len(r) - 1 : r[i] + Interval <= r[i + 1]

\* The window never holds more results than the largest limit the metric has had,
\* also when statuses are computed from old copies or written twice (updateMetric).
\* That is all that can be said of its size: see UpdateWithinLimit.
WindowBounded ==
    \A m \in Metrics : Len(metric[m].results) <= widest[m]

\* What the description of storedResults says: it is the upper limit of how many
\* past results are stored, so an update that records a result leaves no more than
\* the metric's limit.  It does not hold: once storedResults has been lowered,
\* every further result replaces just one, and the window stays as long as it was
\* (updateMetric).
UpdateWithinLimit ==
    [][\A m \in Metrics :
          metric'[m].results # metric[m].results /\ metric'[m].there =>
              Len(metric'[m].results) <= metric'[m].limit]_vars

\* As long as it exists, a metric is fetched at its interval, unless a failed read
\* of it has ended its reconciliation (Reconcile).
KeepsFetching ==
    <>[](\A m \in Metrics :
            metric[m].there /\ m \notin dropped => metric[m].last + Interval > clock)
=============================================================================
