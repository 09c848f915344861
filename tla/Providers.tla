------------------------------ MODULE Providers ------------------------------
(***************************************************************************)
(* The providers of the metrics operator: how a query for a KeptnMetric or *)
(* for an objective of an Analysis becomes a value, a list of values or an *)
(* error, whatever the monitoring system answers.  One call is modelled:   *)
(* credentials, login and request, for DQL also the polling of a query     *)
(* that takes longer, and the reading of the answer.                       *)
(*                                                                         *)
(* An answer is a sequence of series, each a sequence of points; a point   *)
(* without a value is Null.  For DQL the series are the arrays of the      *)
(* first record.  The numbers stand for values that the formatting of a    *)
(* provider (six decimals, or five significant digits) does not change.    *)
(***************************************************************************)
EXTENDS Integers, Sequences, SequencesExt

CONSTANTS
    Points,    \* the values that a monitoring system measures
    MaxSeries, \* bounds the series of an answer
    MaxPoints  \* bounds the points of a series

VARIABLE query \* the call of a provider

Null == -1

ASSUME PointsAssumption == Points \subseteq Nat /\ MaxSeries \in Nat /\ MaxPoints \in Nat

\* The providers that NewProvider chooses from: Thanos and Cortex use the one of
\* Prometheus.
ProviderTypes == {"prometheus", "dynatrace", "dql", "datadog"}

\* A single value without a range, one over a range (a metric or an objective of an
\* analysis), or the values of every step of a range.
Calls == {"instant", "range", "step"}

\* The secret that the provider names: none, one without the expected keys, a good one.
Secrets == {"none", "malformed", "good"}

\* maxRetries
MaxRetries == 5

Series == SeqOf(Points \cup {Null}, MaxPoints)

\* What a monitoring system may answer.  Prometheus reports no empty series, and one
\* sample of each for an instant query.
Answers(type, call) ==
    LET series == IF type # "prometheus" THEN Series
                  ELSE {s \in SeqOf(Points, MaxPoints) :
                          IF call = "instant" THEN Len(s) = 1 ELSE s # <<>>}
    IN  SeqOf(series, MaxSeries)

Outcomes == [kind : {"none", "error", "panic"}, values : {<<>>}]
            \cup [kind : {"values"}, values : Seq(Int)]

Unfinished     == [kind |-> "none", values |-> <<>>]
QueryFailed    == [kind |-> "error", values |-> <<>>]
Panics         == [kind |-> "panic", values |-> <<>>]
Returns(values) == [kind |-> "values", values |-> values]

\* The call of a provider: pc is "new", "login", "asking", "polling" or "done".
NewQuery(type, call) ==
    [type |-> type, call |-> call, pc |-> "new", polls |-> 0, answer |-> <<>>,
     out |-> Unfinished]

InitQuery == query \in {NewQuery(t, c) : t \in ProviderTypes, c \in Calls}

Ends(out) == query' = [query EXCEPT !.pc = "done", !.out = out]

-----------------------------------------------------------------------------
(***************************************************************************)
(* Credentials and request.                                                *)
(***************************************************************************)

\* getPrometheusSecret, getDTSecret, getDQLSecret, getDDSecret: only Prometheus is
\* asked without credentials.
UsesCredentials(type, secret) ==
    \/ secret = "good"
    \/ secret = "none" /\ type = "prometheus"

ReadSecret(secret) ==
    /\ query.pc = "new"
    /\ IF UsesCredentials(query.type, secret)
       THEN query' = [query EXCEPT !.pc = IF query.type = "dql" THEN "login" ELSE "asking"]
       ELSE Ends(QueryFailed)

\* auth of the Dynatrace client: any response but a token is an error.
Login(token) ==
    /\ query.pc = "login"
    /\ IF token THEN query' = [query EXCEPT !.pc = "asking"] ELSE Ends(QueryFailed)

\* No connection, no answer in time, a response that is not JSON or that holds an error.
RequestFails ==
    /\ query.pc \in {"asking", "polling"}
    /\ Ends(QueryFailed)

-----------------------------------------------------------------------------
(***************************************************************************)
(* The reading of an answer.                                               *)
(***************************************************************************)

\* The loop of getResultSlice: the points that have a value.
Measured(s) ==
    LET kept[k \in 0..Len(s)] ==
            IF k = 0 THEN <<>>
            ELSE IF s[k] = Null THEN kept[k - 1] ELSE Append(kept[k - 1], s[k])
    IN  kept[Len(s)]

\* The loop of getSingleValue.
Total(vals) ==
    LET sum[k \in 0..Len(vals)] == IF k = 0 THEN 0 ELSE sum[k - 1] + vals[k]
    IN  sum[Len(vals)]

\* Mutant: points without a value count as well.
AverageOfAll(s) ==
    IF s = <<>> THEN 0
    ELSE Total(Measured(s)) \div Len(s)

\* getSingleValue, of Dynatrace and of Datadog: the average, 0 if nothing was measured.
Average(s) ==
    LET vals == Measured(s)
    IN  IF vals = <<>> THEN 0 ELSE Total(vals) \div Len(vals)

\* getResultForMatrix, getResultForVector, getResultForStepMatrix: exactly one series.
ReadPrometheus(answer, call) ==
    IF Len(answer) # 1 THEN QueryFailed
    ELSE Returns(IF call = "step" THEN answer[1] ELSE <<answer[1][1]>>)

\* getSingleValue and getResultSlice: every series, one after the other.
ReadDynatrace(answer, call) ==
    LET points == FlattenSeq(answer)
    IN  Returns(IF call = "step" THEN Measured(points) ELSE <<Average(points)>>)

\* query and EvaluateQueryForStep: the first series, which must have points.
ReadDatadog(answer, call) ==
    IF answer = <<>> \/ answer[1] = <<>> THEN QueryFailed
    ELSE Returns(IF call = "step" THEN Measured(answer[1]) ELSE <<Average(answer[1])>>)

\* toFloatArray: an array that holds anything but numbers does not count.
FloatArrays(record) == {i \in DOMAIN record : Null \notin Range(record[i])}

\* extractValueFromRecord and extractValuesFromRecord: a record is a Go map, so that any
\* of its arrays may come first; its latest value, or nothing if there is no array.  The
\* latest value of an empty array is an index out of range.  A query that has not
\* succeeded, or without a record, is an error (parseDQLResults).
ReadDQL(answer, call) ==
    LET latest(s) == IF s = <<>> THEN Panics ELSE Returns(<<Last(s)>>)
    IN  IF answer = <<>> THEN {QueryFailed}
        ELSE IF FloatArrays(answer) = {} THEN {Returns(<<>>)}
        ELSE {IF call = "step" THEN Returns(answer[i]) ELSE latest(answer[i]) :
                i \in FloatArrays(answer)}

\* What the provider may make of an answer.
Read(answer, type, call) ==
    CASE type = "prometheus" -> {ReadPrometheus(answer, call)}
      [] type = "dynatrace"  -> {ReadDynatrace(answer, call)}
      [] type = "datadog"    -> {ReadDatadog(answer, call)}
      [] type = "dql"        -> ReadDQL(answer, call)

\* The answer to the request, or of DQL to a poll.
Answered(answer) ==
    /\ query.pc \in {"asking", "polling"}
    /\ \E out \in Read(answer, query.type, query.call) :
          query' = [query EXCEPT !.pc = "done", !.answer = answer, !.out = out]

\* postDQL: Dynatrace accepted the query and has not finished it.
Accepted ==
    /\ query.pc = "asking"
    /\ query.type = "dql"
    /\ query' = [query EXCEPT !.pc = "polling"]

\* getDQL: a poll that finds the query unfinished; after the last of them and one more
\* wait the provider gives up.
StillRunning ==
    /\ query.pc = "polling"
    /\ IF query.polls + 1 < MaxRetries
       THEN query' = [query EXCEPT !.polls = @ + 1]
       ELSE Ends(QueryFailed)

ProviderStep ==
    \/ \E s \in Secrets : ReadSecret(s)
    \/ \E t \in BOOLEAN : Login(t)
    \/ RequestFails
    \/ \E a \in Answers(query.type, query.call) : Answered(a)
    \/ Accepted
    \/ StillRunning

ProviderSpec == InitQuery /\ [][ProviderStep]_query

-----------------------------------------------------------------------------
(***************************************************************************)
(* A value that a provider hands on as the result of a query lies within   *)
(* what the monitoring system measured: an objective is never judged by a  *)
(* number that comes from points without a value, from another series than *)
(* the one asked for, or from an answer without points.  The exception is  *)
(* the 0 that getSingleValue of Dynatrace and Datadog returns if no point  *)
(* has a value.                                                            *)
(***************************************************************************)
ValueIsMeasured ==
    query.out.kind = "values" =>
        LET asked    == IF query.type = "datadog" THEN {1} ELSE DOMAIN query.answer
            measured == (UNION {Range(query.answer[i]) : i \in asked}) \ {Null}
            averaged == query.type \in {"dynatrace", "datadog"} /\ query.call # "step"
        IN  \A v \in Range(query.out.values) :
               \/ \E low, high \in measured : low <= v /\ v <= high
               \/ averaged /\ measured = {} /\ v = 0
=============================================================================
