------------------------------ MODULE Analysis ------------------------------
(***************************************************************************)
(* The Analysis controller of the metrics operator.  A reconciliation      *)
(* starts a pool of goroutines: workers that look up the templates of the  *)
(* objectives and hand requests to one evaluator per provider type, which  *)
(* queries the provider; a collector takes one result per objective, or    *)
(* gives up when the pool's context ends after two minutes, and closes the *)
(* channels.  With every value the analysis is evaluated and completed,    *)
(* otherwise what was collected is stored in its status for the next round.*)
(*                                                                         *)
(* The channels hold as many elements as there are objectives to collect,  *)
(* so sending never blocks; sending to a closed one is a panic that ends   *)
(* the whole operator.  One analysis is modelled; it is not deleted.       *)
(***************************************************************************)
EXTENDS AnalysisScoring

CONSTANTS
    Definitions,   \* the contents the AnalysisDefinition has, one after another
    ProviderOf,    \* the provider type each template refers to
    BlankTypes,    \* the types that may answer with the empty string (DQL)
    Keys, KeyOf,   \* the key under which the value of a template is kept
    TotalScore,    \* the percentages for a pass and for a warning
    MaxWorkers,    \* the configured number of workers
    MaxClock,      \* bound: the times at which a timeframe can be fixed
    MaxFaults      \* bound: failed calls, expired contexts and restarts

Types == {ProviderOf[t] : t \in Templates}

ASSUME AnalysisAssumption ==
    /\ Definitions \in Seq(Seq(Objectives)) \ {<< >>}
    /\ ProviderOf \in [Templates -> Types]
    /\ BlankTypes \subseteq Types
    /\ KeyOf \in [Templates -> Keys]
    /\ TotalScore \in TotalScores
    /\ MaxWorkers \in Nat \ {0}
    /\ MaxClock \in Nat \ {0}
    /\ MaxFaults \in Nat

VARIABLES
    analysis,   \* the status of the Analysis
    cache,      \* the informer's copy of it
    def,        \* which of its contents the AnalysisDefinition has
    clock,      \* the time
    queued,     \* the analysis is in the work queue
    rec,        \* the reconciliation in progress
    worker,     \* per worker: the objectives left to it, and the one it is at
    requests,   \* per provider type: the channel to its evaluator
    asking,     \* per provider type: the request its evaluator is working on
    results,    \* the channel of results
    ctxDone,    \* the context of the pool has ended
    stray,      \* a goroutine of a closed pool is still going to send
    reports,    \* timeframes whose result is waiting for the reporter
    gauge,      \* timeframes whose result is exposed as a metric
    restarted,  \* history: the operator has been restarted
    faults      \* how much of the bound is used

poolVars == <<worker, requests, asking, results, ctxDone>>
vars == <<analysis, cache, def, clock, queued, rec, poolVars, stray, restarted,
          reports, gauge, faults>>

-----------------------------------------------------------------------------
(***************************************************************************)
(* The status.  A ProviderResult is what the provider of a template has     *)
(* answered for a timeframe, a number ("value") or the empty string         *)
(* ("blank"), or an error.  The map of results has one per key, or none.    *)
(***************************************************************************)
Missing == [kind |-> "missing"]
Failed  == [kind |-> "error"]

ProviderResults ==
    [kind : {"value"}, val : Numbers, template : Templates, timeframe : 1..MaxClock]
    \cup [kind : {"blank"}, template : Templates, timeframe : 1..MaxClock]
    \cup {Missing, Failed}

IsAnswer(v) == v.kind \in {"value", "blank"}

NoValues == [k \in Keys |-> Missing]

\* A timeframe of 0 is not set.  raw holds the objectives and values of the
\* verdict, as status.raw does.
Statuses ==
    [state : {"Pending", "Progressing", "Completed"}, timeframe : 0..MaxClock,
     stored : [Keys -> ProviderResults], verdict : {"none", "pass", "warning", "fail"},
     raw : [Keys -> ProviderResults], rawDef : 0..Len(Definitions)]

NewStatus ==
    [state |-> "Pending", timeframe |-> 0, stored |-> NoValues, verdict |-> "none",
     raw |-> NoValues, rawDef |-> 0]

\* No objective: an index into the definition otherwise.
Nothing == 0

Fault == faults < MaxFaults /\ faults' = faults + 1

Template(i) == Definitions[rec.def][i].template

\* ComputeKey: the name and the namespace, joined with a '-' that both may have.
ComputeKey(o) == KeyOf[o.template]

\* What getResultFromMap finds for each template.
ByTemplate(values) == [t \in Templates |-> values[KeyOf[t]]]

-----------------------------------------------------------------------------
(***************************************************************************)
(* The pool.                                                               *)
(***************************************************************************)
\* Mutant: the tasks that remain are not distributed.
AssignEvenly(todo, n, w) ==
    LET per == Len(todo) \div n
    IN  SubSeq(todo, (w - 1) * per + 1, w * per)

\* The tasks of worker w of n: as many as of the others, and one more for the
\* first ones if they do not divide evenly.
AssignTasks(todo, n, w) ==
    LET per      == Len(todo) \div n
        start(i) == i * per + (IF i < Len(todo) % n THEN i ELSE Len(todo) % n)
    IN  SubSeq(todo, start(w - 1) + 1, start(w))

IdleWorkers == [w \in 1..MaxWorkers |-> [left |-> << >>, at |-> Nothing]]

NoRequests == [p \in Types |-> << >>]

NobodyAsking == [p \in Types |-> Nothing]

\* NewWorkersPool, StartProviders and the start of the workers.
StartPool(todo) ==
    LET n == IF Len(todo) <= MaxWorkers THEN Len(todo) ELSE MaxWorkers
    IN  /\ worker' = [w \in 1..MaxWorkers |->
                        [left |-> IF w <= n THEN AssignTasks(todo, n, w) ELSE << >>,
                         at |-> Nothing]]
        /\ requests' = NoRequests
        /\ asking' = NobodyAsking
        /\ results' = << >>
        /\ ctxDone' = FALSE

\* The goroutines of a closed pool that are left: an evaluator keeps taking
\* requests from its closed channel, and each of them, like a worker that has
\* begun an objective, ends in sending on a closed channel.
SendsLeft ==
    \/ \E w \in 1..MaxWorkers : worker[w].at # Nothing
    \/ \E p \in Types : asking[p] # Nothing \/ requests[p] # << >>

NoPool ==
    /\ worker' = IdleWorkers
    /\ requests' = NoRequests
    /\ asking' = NobodyAsking
    /\ results' = << >>
    /\ ctxDone' = FALSE

-----------------------------------------------------------------------------
(***************************************************************************)
(* Reconciliation.                                                         *)
(***************************************************************************)
NoRec ==
    [pc |-> "idle", base |-> NewStatus, status |-> NewStatus, def |-> 0,
     todo |-> 0, collected |-> 0, values |-> NoValues, done |-> NoValues, err |-> FALSE]

\* EnsureTimeframeIsSet, for an analysis of a recent timeframe.
EnsureTimeframeIsSet(status) ==
    IF status.timeframe = 0 THEN [status EXCEPT !.timeframe = clock] ELSE status

\* The numbers of a finite set, in their order.
InOrder(S) ==
    [k \in 1..Cardinality(S) |-> CHOOSE i \in S : Cardinality({j \in S : j <= i}) = k]

\* Mutant: an objective whose query failed is not asked for again.
MissingUnlessFailed(objectives, stored) ==
    InOrder({i \in DOMAIN objectives : stored[ComputeKey(objectives[i])].kind = "missing"})

\* extractMissingObjectives: the objectives without an answer ...
MissingObjectives(objectives, stored) ==
    InOrder({i \in DOMAIN objectives : ~IsAnswer(stored[ComputeKey(objectives[i])])})

\* ... and the answers of the others.
DoneValues(objectives, stored) ==
    [k \in Keys |->
        IF IsAnswer(stored[k]) /\ \E i \in DOMAIN objectives : ComputeKey(objectives[i]) = k
        THEN stored[k] ELSE Missing]

Serve == queued /\ rec.pc = "idle" /\ queued' = FALSE

\* An analysis that is completed is left alone.
AlreadyCompleted ==
    /\ Serve
    /\ cache.state = "Completed"
    /\ UNCHANGED <<analysis, cache, def, clock, rec, poolVars, stray, restarted,
                   reports, gauge, faults>>

\* The definition is not found: the status is written and the analysis requeued.
DefinitionNotFound ==
    /\ Serve
    /\ cache.state # "Completed"
    /\ Fault
    /\ rec' = [NoRec EXCEPT !.pc = "update", !.base = cache,
                            !.status = EnsureTimeframeIsSet(cache), !.err = TRUE]
    /\ UNCHANGED <<analysis, cache, def, clock, poolVars, stray, restarted, reports, gauge>>

\* DispatchAndCollect begins, for the objectives that have no value yet.
StartCollection ==
    LET objectives == Definitions[def]
        todo       == MissingObjectives(objectives, cache.stored)
    IN  /\ Serve
        /\ cache.state # "Completed"
        /\ rec' = [NoRec EXCEPT !.pc = "collect", !.base = cache,
                                !.status = [EnsureTimeframeIsSet(cache)
                                              EXCEPT !.state = "Progressing"],
                                !.def = def,
                                !.todo = Len(todo),
                                !.done = DoneValues(objectives, cache.stored)]
        /\ StartPool(todo)
        /\ UNCHANGED <<analysis, cache, def, clock, stray, restarted, reports, gauge, faults>>

-----------------------------------------------------------------------------
(***************************************************************************)
(* The goroutines of the pool.                                             *)
(***************************************************************************)
\* DispatchToProviders: a worker begins its next objective, or leaves when the
\* context has ended.
BeginJob(w) ==
    /\ worker[w].at = Nothing
    /\ worker[w].left # << >>
    /\ worker' = IF ctxDone
                 THEN [worker EXCEPT ![w].left = << >>]
                 ELSE [worker EXCEPT ![w] = [left |-> Tail(@.left), at |-> Head(@.left)]]
    /\ UNCHANGED <<analysis, cache, def, clock, queued, rec, requests, asking, results,
                   ctxDone, stray, restarted, reports, gauge, faults>>

\* The template and its provider are read and the query is built: the request
\* goes to the evaluator of the provider's type ...
SendRequest(w) ==
    /\ worker[w].at # Nothing
    /\ worker' = [worker EXCEPT ![w].at = Nothing]
    /\ requests' = [requests EXCEPT ![ProviderOf[Template(worker[w].at)]] =
                        Append(@, worker[w].at)]
    /\ UNCHANGED <<analysis, cache, def, clock, queued, rec, asking, results, ctxDone,
                   stray, restarted, reports, gauge, faults>>

\* A call fails on its own, or because the context has ended.
CallFails == (ctxDone /\ UNCHANGED faults) \/ Fault

SendResult(i, result) ==
    results' = Append(results, [key |-> KeyOf[Template(i)], result |-> result])

\* ... or, if any of this fails, an error goes to the collector.
SendError(w) ==
    /\ worker[w].at # Nothing
    /\ CallFails
    /\ worker' = [worker EXCEPT ![w].at = Nothing]
    /\ SendResult(worker[w].at, Failed)
    /\ UNCHANGED <<analysis, cache, def, clock, queued, rec, requests, asking, ctxDone,
                   stray, restarted, reports, gauge>>

\* ObjectivesEvaluator.Evaluate: the evaluator takes a request ...
TakeRequest(p) ==
    /\ asking[p] = Nothing
    /\ requests[p] # << >>
    /\ asking' = [asking EXCEPT ![p] = Head(requests[p])]
    /\ requests' = [requests EXCEPT ![p] = Tail(@)]
    /\ UNCHANGED <<analysis, cache, def, clock, queued, rec, worker, results, ctxDone,
                   stray, restarted, reports, gauge, faults>>

\* ... and sends on what the provider answers for the analysis' timeframe.
Answers(p) ==
    LET template  == Template(asking[p])
        timeframe == rec.status.timeframe
    IN  {[kind |-> "value", val |-> v, template |-> template, timeframe |-> timeframe] :
            v \in Numbers}
        \cup (IF p \in BlankTypes
              THEN {[kind |-> "blank", template |-> template, timeframe |-> timeframe]}
              ELSE {})

SendValue(p) ==
    /\ asking[p] # Nothing
    /\ asking' = [asking EXCEPT ![p] = Nothing]
    /\ \/ /\ \E answer \in Answers(p) : SendResult(asking[p], answer)
          /\ UNCHANGED faults
       \/ CallFails /\ SendResult(asking[p], Failed)
    /\ UNCHANGED <<analysis, cache, def, clock, queued, rec, worker, requests, ctxDone,
                   stray, restarted, reports, gauge>>

\* CollectAnalysisResults takes one more result.
WithResult(r, res) ==
    [r EXCEPT !.values[res.key] = res.result, !.collected = @ + 1,
              !.err = @ \/ res.result.kind = "error"]

\* Mutant: the last result is not waited for.
AllButOneCollected == rec.collected + 1 >= rec.todo

AllCollected == rec.collected = rec.todo

CollectResult ==
    /\ rec.pc = "collect"
    /\ ~AllCollected
    /\ ~ctxDone
    /\ results # << >>
    /\ rec' = WithResult(rec, Head(results))
    /\ results' = Tail(results)
    /\ UNCHANGED <<analysis, cache, def, clock, queued, worker, requests, asking, ctxDone,
                   stray, restarted, reports, gauge, faults>>

\* The context has ended: the rest of the loop fails, but a result that is there
\* already may still be taken, as select chooses freely.
GiveUp ==
    LET end(r) == [r EXCEPT !.collected = r.todo, !.err = TRUE]
    IN  /\ rec.pc = "collect"
        /\ ~AllCollected
        /\ ctxDone
        /\ \/ rec' = end(rec)
           \/ /\ results # << >>
              /\ rec' = end(WithResult(rec, Head(results)))
        /\ UNCHANGED <<analysis, cache, def, clock, queued, poolVars, stray, restarted,
                       reports, gauge, faults>>

-----------------------------------------------------------------------------
\* evaluateObjectives
Completed(r) ==
    LET values == [k \in Keys |-> IF IsAnswer(r.done[k]) THEN r.done[k] ELSE r.values[k]]
    IN  [r.status EXCEPT !.state = "Completed",
                         !.verdict = Verdict(ByTemplate(values), Definitions[r.def], TotalScore),
                         !.raw = values, !.rawDef = r.def, !.stored = NoValues]

\* StopProviders closes the channels.  Without an error the analysis is
\* evaluated and a goroutine is started to report the result, before the status
\* is written; otherwise what this round collected is to be stored.
FinishCollection ==
    /\ rec.pc = "collect"
    /\ AllCollected
    /\ stray' = (stray \/ SendsLeft)
    /\ NoPool
    /\ IF rec.err
       THEN /\ rec' = [rec EXCEPT !.pc = "update", !.status.stored = rec.values]
            /\ UNCHANGED reports
       ELSE /\ rec' = [rec EXCEPT !.pc = "update", !.status = Completed(rec)]
            /\ reports' = reports \cup {rec.status.timeframe}
    /\ UNCHANGED <<analysis, cache, def, clock, queued, restarted, gauge, faults>>

\* updateStatus is refused if the analysis was read from a cache that lags.
\* Unless the analysis is completed, it is requeued in any case.
UpdateStatus ==
    /\ rec.pc = "update"
    /\ rec' = NoRec
    /\ \/ /\ rec.base = analysis
          /\ analysis' = rec.status
          /\ queued' = rec.err
          /\ UNCHANGED faults
       \/ /\ rec.base # analysis
          /\ queued' = TRUE
          /\ UNCHANGED <<analysis, faults>>
       \/ /\ Fault
          /\ analysis' \in {analysis} \cup (IF rec.base = analysis THEN {rec.status} ELSE {})
          /\ queued' = TRUE
    /\ UNCHANGED <<cache, def, clock, poolVars, stray, restarted, reports, gauge>>

\* resultsReporter.reportResult
ReportResult ==
    /\ \E t \in reports : reports' = reports \ {t} /\ gauge' = gauge \cup {t}
    /\ UNCHANGED <<analysis, cache, def, clock, queued, rec, poolVars, stray, restarted, faults>>

-----------------------------------------------------------------------------
(***************************************************************************)
(* The environment.  The cache, the definition and the clock are read only *)
(* at the start of a reconciliation, so they change only between two.      *)
(***************************************************************************)
SyncCache ==
    /\ cache # analysis
    /\ rec.pc = "idle"
    /\ cache' = analysis
    /\ UNCHANGED <<analysis, def, clock, queued, rec, poolVars, stray, restarted,
                   reports, gauge, faults>>

\* The timeout of the pool.
ContextEnds ==
    /\ rec.pc = "collect"
    /\ ~ctxDone
    /\ Fault
    /\ ctxDone' = TRUE
    /\ UNCHANGED <<analysis, cache, def, clock, queued, rec, worker, requests, asking,
                   results, stray, restarted, reports, gauge>>

\* The operator is started again: the analysis is listed and queued.
Restart ==
    /\ cache' = analysis
    /\ queued' = TRUE
    /\ rec' = NoRec
    /\ NoPool
    /\ stray' = FALSE
    /\ restarted' = TRUE
    /\ reports' = {}
    /\ gauge' = {}
    /\ UNCHANGED <<analysis, def, clock>>

Panic == stray /\ Restart /\ UNCHANGED faults

Crash == Fault /\ Restart

EditDefinition ==
    /\ def < Len(Definitions)
    /\ rec.pc = "idle"
    /\ def' = def + 1
    /\ UNCHANGED <<analysis, cache, clock, queued, rec, poolVars, stray, restarted,
                   reports, gauge, faults>>

Tick ==
    /\ clock < MaxClock
    /\ rec.pc = "idle"
    /\ clock' = clock + 1
    /\ UNCHANGED <<analysis, cache, def, queued, rec, poolVars, stray, restarted,
                   reports, gauge, faults>>

-----------------------------------------------------------------------------
Init ==
    /\ analysis = NewStatus
    /\ cache = NewStatus
    /\ def = 1
    /\ clock = 1
    /\ queued = TRUE
    /\ rec = NoRec
    /\ worker = IdleWorkers
    /\ requests = NoRequests
    /\ asking = NobodyAsking
    /\ results = << >>
    /\ ctxDone = FALSE
    /\ stray = FALSE
    /\ restarted = FALSE
    /\ reports = {}
    /\ gauge = {}
    /\ faults = 0

Reconciler ==
    \/ AlreadyCompleted \/ DefinitionNotFound \/ StartCollection
    \/ CollectResult \/ GiveUp \/ FinishCollection \/ UpdateStatus

Worker(w) == BeginJob(w) \/ SendRequest(w) \/ SendError(w)

Evaluator(p) == TakeRequest(p) \/ SendValue(p)

Next ==
    \/ Reconciler
    \/ \E w \in 1..MaxWorkers : Worker(w)
    \/ \E p \in Types : Evaluator(p)
    \/ ReportResult \/ SyncCache \/ ContextEnds \/ Panic \/ Crash \/ EditDefinition \/ Tick

Spec == Init /\ [][Next]_vars

\* The goroutines run, and the informer delivers what was written, at the latest
\* between two reconciliations.
FairSpec ==
    /\ Spec
    /\ WF_vars(Reconciler)
    /\ \A w \in 1..MaxWorkers : WF_vars(Worker(w))
    /\ \A p \in Types : WF_vars(Evaluator(p))
    /\ WF_vars(ReportResult)
    /\ SF_vars(SyncCache)
    /\ WF_vars(Panic)

-----------------------------------------------------------------------------
\* The type invariant.
TypeOK ==
    /\ {analysis, cache, rec.base, rec.status} \subseteq Statuses
    /\ def \in 1..Len(Definitions)
    /\ clock \in 1..MaxClock
    /\ rec.pc \in {"idle", "collect", "update"}
    /\ rec.collected \in 0..rec.todo
    /\ {rec.values, rec.done} \subseteq [Keys -> ProviderResults]
    /\ \A w \in 1..MaxWorkers : worker[w].at \in 0..Len(Definitions[def])
    /\ asking \in [Types -> Nat] /\ requests \in [Types -> Seq(Nat)]
    /\ {queued, rec.err, ctxDone, stray, restarted} \subseteq BOOLEAN
    /\ reports \subseteq 1..MaxClock /\ gauge \subseteq 1..MaxClock
    /\ faults \in 0..MaxFaults

\* A completed analysis rests on an answer of a provider for every one of its
\* objectives, all for the one timeframe in its status, however many rounds,
\* restarts and changes of the definition it took to collect them; and its
\* verdict is the one these answers have.  An answer need not be a number, but
\* without one for each key objective the analysis fails.  It need not be one
\* for the objective's own template either, only for one with the same key
\* (Reconcile, EnsureTimeframeIsSet, ComputeKey, getResultFromMap).
VerdictRestsOnValues ==
    analysis.state = "Completed" =>
        LET objectives == Definitions[analysis.rawDef]
            values     == [i \in DOMAIN objectives |-> analysis.raw[ComputeKey(objectives[i])]]
        IN  /\ \A i \in DOMAIN objectives :
                  /\ IsAnswer(values[i])
                  /\ values[i].timeframe = analysis.timeframe
                  /\ KeyOf[values[i].template] = ComputeKey(objectives[i])
            /\ analysis.verdict = Verdict(ByTemplate(analysis.raw), objectives, TotalScore)
            /\ analysis.verdict # "fail" =>
                  \A i \in DOMAIN objectives : objectives[i].key => values[i].kind = "value"

\* When the collector is about to close the channels without its context having
\* ended, no goroutine of the pool is going to send any more (StopProviders,
\* DispatchToProviders): only an expired pool can make the operator panic.
ClosedPoolIsQuiet ==
    rec.pc = "collect" /\ AllCollected /\ ~ctxDone =>
        /\ ~SendsLeft
        /\ \A w \in 1..MaxWorkers : worker[w].left = << >>

\* The analysis is completed for good and, unless the operator was restarted, its
\* result is exposed as a metric.
CompletedAndReported ==
    <>[](analysis.state = "Completed" /\ (restarted \/ analysis.timeframe \in gauge))
=============================================================================
