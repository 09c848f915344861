-------------------------- MODULE KeptnMetricProofs --------------------------
(***************************************************************************)
(* Proofs about KeptnMetric, for any metrics, any limits, any interval and *)
(* every bound: what the window of results of a metric holds.  A status is *)
(* computed from a copy that may be old, from a result that may come late, *)
(* and written without knowing whether it was; the argument is that it     *)
(* replaces exactly the copy it was computed from, which was due when the  *)
(* provider was asked and is no less due when the answer is written.       *)
(* Of the components around the metric: a provider's value is one that the *)
(* source measured (Providers), and a rule carried over by the converter   *)
(* gives every value the verdict it had (SloConverter).                    *)
(***************************************************************************)
EXTENDS KeptnMetric, Providers, SloConverter, SequenceTheorems, WellFoundedInduction, TLAPS

MetricObjects ==
    [there : BOOLEAN, limit : Nat, value : Values \cup {None}, err : BOOLEAN, last : Int,
     results : Seq(Int)]

\* The results of a metric are apart, and none is later than its last update.
Apart(r) == \A i \in 1..Len(r) - 1 : r[i] + Interval <= r[i + 1]

WellTimed(x) ==
    /\ Apart(x.results)
    /\ \A i \in 1..Len(x.results) : x.results[i] <= x.last

Bounded(x, w) == x.limit <= w /\ Len(x.results) <= w

\* The metric that is being fetched was due.
Fetching(r, now) ==
    \/ r = Nobody
    \/ /\ r.metric \in Metrics
       /\ r.base \in MetricObjects
       /\ r.result \in Values \cup {Error}
       /\ r.base.last + Interval <= now

WindowInv ==
    /\ clock \in Nat
    /\ metric \in [Metrics -> MetricObjects]
    /\ cache \in [Metrics -> MetricObjects]
    /\ widest \in [Metrics -> Nat]
    /\ Fetching(rec, clock)
    /\ \A m \in Metrics : WellTimed(metric[m]) /\ Bounded(metric[m], widest[m])

LEMMA NewMetricType ==
    ASSUME NEW l \in Nat
    PROVE  /\ NewMetric(l) \in MetricObjects /\ WellTimed(NewMetric(l))
           /\ NewMetric(l).limit = l /\ Len(NewMetric(l).results) = 0
           /\ NewMetric(l).there = TRUE
  <1>1. NewMetric(l).results = << >> /\ NewMetric(l).limit = l /\ NewMetric(l).there = TRUE
    BY DEF NewMetric
  <1>2. NewMetric(l) \in MetricObjects
    BY MetricAssumption DEF NewMetric, MetricObjects, LongAgo
  <1>3. WellTimed(NewMetric(l))
    BY <1>1 DEF WellTimed, Apart
  <1> QED
    BY <1>1, <1>2, <1>3

LEMMA GoneType ==
    /\ Gone \in MetricObjects /\ WellTimed(Gone) /\ Gone.there = FALSE
    /\ \A w \in Nat : Bounded(Gone, w)
  <1>1. /\ NewMetric(0) \in MetricObjects /\ NewMetric(0).limit = 0
        /\ NewMetric(0).results = << >>
    BY NewMetricType DEF NewMetric
  <1>2. /\ Gone \in MetricObjects /\ Gone.there = FALSE /\ Gone.limit = 0
        /\ Gone.results = << >>
    BY <1>1 DEF Gone, MetricObjects
  <1>3. WellTimed(Gone)
    BY <1>2 DEF WellTimed, Apart
  <1> QED
    BY <1>2, <1>3 DEF Bounded

LEMMA InitWindow == Init => WindowInv
  <1> SUFFICES ASSUME Init PROVE WindowInv
    OBVIOUS
  <1>1. \A m \in Metrics : \E l \in Nat : metric[m] = NewMetric(l)
    BY MetricAssumption DEF Init
  <1>2. \A m \in Metrics :
            /\ metric[m] \in MetricObjects /\ WellTimed(metric[m])
            /\ metric[m].limit \in Nat /\ Len(metric[m].results) = 0
    BY <1>1, NewMetricType
  <1>3. metric \in [Metrics -> MetricObjects]
    BY <1>2 DEF Init
  <1>4. widest \in [Metrics -> Nat] /\ \A m \in Metrics : Bounded(metric[m], widest[m])
    BY <1>2 DEF Init, Bounded
  <1> QED
    BY <1>2, <1>3, <1>4 DEF Init, WindowInv, Fetching

-----------------------------------------------------------------------------
\* One more result: those before it stay apart, and the window grows only up to
\* the limit.
LEMMA WindowStep ==
    ASSUME NEW r \in Seq(Int), NEW limit \in Nat \ {0}, NEW t \in Int, NEW last \in Int,
           Apart(r), \A i \in 1..Len(r) : r[i] <= last, last + Interval <= t
    PROVE  /\ Window(r, limit, t) \in Seq(Int)
           /\ Apart(Window(r, limit, t))
           /\ \A i \in 1..Len(Window(r, limit, t)) : Window(r, limit, t)[i] <= t
           /\ \/ Len(Window(r, limit, t)) = Len(r)
              \/ Len(Window(r, limit, t)) <= limit
  <1>1. \A i \in 1..Len(r) : r[i] \in Int
    OBVIOUS
  <1>2. \A i \in 1..Len(r) : r[i] + Interval <= t /\ r[i] <= t
    BY <1>1, MetricAssumption
  <1>3. CASE Len(r) >= limit
    <2> DEFINE s == Tail(r)
               n == Append(s, t)
    <2>1. /\ s \in Seq(Int) /\ Len(s) = Len(r) - 1 /\ Len(r) \in Nat /\ Len(r) >= 1
          /\ \A i \in 1..Len(s) : s[i] = r[i + 1]
      BY <1>3
    <2>2. /\ n \in Seq(Int) /\ Len(n) = Len(r)
          /\ \A i \in 1..Len(s) : n[i] = s[i]
          /\ n[Len(s) + 1] = t
      BY <2>1
    <2> HIDE DEF s, n
    <2>3. \A i \in 1..(Len(r) - 1) : n[i] = r[i + 1]
      BY <2>1, <2>2
    <2>4. n[Len(r)] = t
      BY <2>1, <2>2
    <2>5. \A i \in 1..Len(n) : n[i] <= t
      <3> SUFFICES ASSUME NEW i \in 1..Len(n) PROVE n[i] <= t
        OBVIOUS
      <3>1. CASE i = Len(r)
        BY <2>4, <3>1
      <3>2. CASE i # Len(r)
        <4>1. i \in 1..(Len(r) - 1) /\ i + 1 \in 1..Len(r)
          BY <2>1, <2>2, <3>2
        <4> QED
          BY <1>2, <2>3, <4>1
      <3> QED
        BY <3>1, <3>2
    <2>6. Apart(n)
      <3> SUFFICES ASSUME NEW i \in 1..(Len(r) - 1) PROVE n[i] + Interval <= n[i + 1]
        BY <2>2 DEF Apart
      <3>1. n[i] = r[i + 1] /\ i + 1 \in 1..Len(r)
        BY <2>1, <2>3
      <3>2. CASE i = Len(r) - 1
        BY <1>2, <2>1, <2>4, <3>1, <3>2
      <3>3. CASE i # Len(r) - 1
        <4>1. i + 1 \in 1..(Len(r) - 1)
          BY <2>1, <3>3
        <4>2. n[i + 1] = r[(i + 1) + 1]
          BY <2>3, <4>1
        <4> QED
          BY <3>1, <4>1, <4>2 DEF Apart
      <3> QED
        BY <3>2, <3>3
    <2>7. Window(r, limit, t) = n
      BY <1>3 DEF Window, n, s
    <2> QED
      BY <2>2, <2>5, <2>6, <2>7
  <1>4. CASE ~(Len(r) >= limit)
    <2> DEFINE n == Append(r, t)
    <2>1. /\ n \in Seq(Int) /\ Len(n) = Len(r) + 1 /\ Len(r) \in Nat
          /\ \A i \in 1..Len(r) : n[i] = r[i]
          /\ n[Len(r) + 1] = t
      OBVIOUS
    <2> HIDE DEF n
    <2>2. \A i \in 1..Len(n) : n[i] <= t
      <3> SUFFICES ASSUME NEW i \in 1..Len(n) PROVE n[i] <= t
        OBVIOUS
      <3>1. CASE i = Len(r) + 1
        BY <2>1, <3>1
      <3>2. CASE i # Len(r) + 1
        <4>1. i \in 1..Len(r)
          BY <2>1, <3>2
        <4> QED
          BY <1>2, <2>1, <4>1
      <3> QED
        BY <3>1, <3>2
    <2>3. Apart(n)
      <3> SUFFICES ASSUME NEW i \in 1..Len(r) PROVE n[i] + Interval <= n[i + 1]
        BY <2>1 DEF Apart
      <3>1. CASE i = Len(r)
        BY <1>2, <2>1, <3>1
      <3>2. CASE i # Len(r)
        <4>1. i \in 1..(Len(r) - 1) /\ i + 1 \in 1..Len(r)
          BY <2>1, <3>2
        <4> QED
          BY <2>1, <4>1 DEF Apart
      <3> QED
        BY <3>1, <3>2
    <2>4. Window(r, limit, t) = n /\ Len(n) <= limit
      BY <1>4, <2>1 DEF Window, n
    <2> QED
      BY <2>1, <2>2, <2>3, <2>4
  <1> QED
    BY <1>3, <1>4

\* updateMetric: the status that is written is well timed, and its window no
\* larger than the limit or the window before.
LEMMA UpdatedType ==
    ASSUME clock \in Nat, NEW base \in MetricObjects, NEW answer \in Values \cup {Error},
           WellTimed(base), base.last + Interval <= clock, NEW w \in Nat, Bounded(base, w)
    PROVE  /\ Updated(base, answer) \in MetricObjects
           /\ WellTimed(Updated(base, answer))
           /\ Bounded(Updated(base, answer), w)
  <1> DEFINE new == Updated(base, answer)
             win == Window(base.results, base.limit, clock)
  <1>1. /\ base.limit \in Nat /\ base.last \in Int /\ base.results \in Seq(Int)
        /\ Apart(base.results) /\ \A i \in 1..Len(base.results) : base.results[i] <= base.last
        /\ clock \in Int /\ base.limit <= w /\ Len(base.results) <= w
        /\ Len(base.results) \in Nat
    BY DEF MetricObjects, WellTimed, Bounded
  <1>2. /\ new.last = clock /\ new.limit = base.limit
        /\ new.results = IF base.limit > 0 THEN win ELSE base.results
        /\ new.there = base.there
    BY DEF Updated, MetricObjects
  <1>3. ASSUME base.limit > 0
        PROVE  /\ win \in Seq(Int) /\ Apart(win)
               /\ \A i \in 1..Len(win) : win[i] <= clock
               /\ Len(win) = Len(base.results) \/ Len(win) <= base.limit
    <2>1. base.limit \in Nat \ {0}
      BY <1>1, <1>3
    <2> QED
      BY <1>1, <2>1, WindowStep, Zenon
  <1>4. new \in MetricObjects
    <2>1. ASSUME NEW y \in MetricObjects PROVE [y EXCEPT !.last = clock] \in MetricObjects
      BY <1>1 DEF MetricObjects
    <2>2. CASE base.limit > 0
      <3>1. [base EXCEPT !.results = win] \in MetricObjects
        BY <1>3, <2>2 DEF MetricObjects
      <3> QED
        BY <2>1, <2>2, <3>1 DEF Updated
    <2>3. CASE ~(base.limit > 0) /\ answer = Error
      <3>1. [base EXCEPT !.err = TRUE] \in MetricObjects
        BY DEF MetricObjects
      <3> QED
        BY <2>1, <2>3, <3>1 DEF Updated
    <2>4. CASE ~(base.limit > 0) /\ answer # Error
      <3>1. [base EXCEPT !.err = FALSE, !.value = answer] \in MetricObjects
        BY <2>4 DEF MetricObjects
      <3> QED
        BY <2>1, <2>4, <3>1 DEF Updated
    <2> QED
      BY <2>2, <2>3, <2>4
  <1> HIDE DEF win, new
  <1>5. CASE base.limit > 0
    <2>1. Len(win) <= w
      BY <1>1, <1>3, <1>5
    <2>2. Bounded(new, w)
      BY <1>1, <1>2, <1>5, <2>1 DEF Bounded
    <2>3. WellTimed(new)
      BY <1>2, <1>3, <1>5 DEF WellTimed
    <2> QED
      BY <1>4, <2>2, <2>3 DEF new
  <1>6. CASE ~(base.limit > 0)
    <2>1. \A i \in 1..Len(base.results) : base.results[i] \in Int
      BY <1>1
    <2>2. \A i \in 1..Len(base.results) : base.results[i] <= clock
      BY <1>1, <2>1, MetricAssumption
    <2>3. WellTimed(new)
      BY <1>1, <1>2, <1>6, <2>2 DEF WellTimed
    <2>4. Bounded(new, w)
      BY <1>1, <1>2, <1>6 DEF Bounded
    <2> QED
      BY <1>4, <2>3, <2>4 DEF new
  <1> QED
    BY <1>5, <1>6

\* A metric is replaced by one that is well timed and bounded.
LEMMA Replaced ==
    ASSUME WindowInv, NEW m \in Metrics, NEW x \in MetricObjects, WellTimed(x),
           metric' = [metric EXCEPT ![m] = x],
           widest' \in [Metrics -> Nat], Bounded(x, widest'[m]),
           \A n \in Metrics \ {m} : widest'[n] = widest[n]
    PROVE  /\ metric' \in [Metrics -> MetricObjects]
           /\ \A n \in Metrics : WellTimed(metric'[n]) /\ Bounded(metric'[n], widest'[n])
  <1>1. metric \in [Metrics -> MetricObjects]
    BY DEF WindowInv
  <1>2. metric' \in [Metrics -> MetricObjects] /\ metric'[m] = x
    BY <1>1
  <1>3. \A n \in Metrics \ {m} : metric'[n] = metric[n]
    BY <1>1
  <1>4. ASSUME NEW n \in Metrics PROVE WellTimed(metric'[n]) /\ Bounded(metric'[n], widest'[n])
    <2>1. CASE n = m
      BY <1>2, <2>1
    <2>2. CASE n # m
      BY <1>3, <2>2 DEF WindowInv
    <2> QED
      BY <2>1, <2>2
  <1> QED
    BY <1>2, <1>4

LEMMA FetchWindow ==
    ASSUME WindowInv, NEW m \in Metrics, Fetch(m)
    PROVE  WindowInv'
  <1>1. PICK v \in Values \cup {Error} : rec' = [metric |-> m, base |-> cache[m], result |-> v]
    BY DEF Fetch
  <1>2. /\ UNCHANGED <<metric, cache, clock, widest>> /\ clock >= cache[m].last + Interval
    BY DEF Fetch, FetchTime
  <1>3. cache[m] \in MetricObjects /\ clock \in Nat /\ cache[m].last + Interval \in Int
    BY MetricAssumption DEF WindowInv, MetricObjects
  <1>4. cache[m].last + Interval <= clock
    BY <1>2, <1>3
  <1>5. Fetching(rec', clock)
    BY <1>1, <1>3, <1>4 DEF Fetching
  <1> QED
    BY <1>2, <1>5 DEF WindowInv

LEMMA UpdateWindow == WindowInv /\ UpdateStatus => WindowInv'
  <1> SUFFICES ASSUME WindowInv, UpdateStatus PROVE WindowInv'
    OBVIOUS
  <1> DEFINE m   == rec.metric
             new == Updated(rec.base, rec.result)
  <1>1. /\ rec # Nobody /\ rec' = Nobody /\ UNCHANGED <<cache, clock, widest>>
        /\ \/ UNCHANGED metric
           \/ metric[m] = rec.base /\ metric' = [metric EXCEPT ![m] = new]
    BY DEF UpdateStatus
  <1>2. Fetching(rec', clock')
    BY <1>1 DEF Fetching
  <1>3. CASE UNCHANGED metric
    BY <1>1, <1>2, <1>3 DEF WindowInv
  <1>4. CASE metric[m] = rec.base /\ metric' = [metric EXCEPT ![m] = new]
    <2>1. /\ m \in Metrics /\ rec.base \in MetricObjects /\ rec.result \in Values \cup {Error}
          /\ rec.base.last + Interval <= clock
      BY <1>1 DEF WindowInv, Fetching
    <2>2. WellTimed(rec.base) /\ Bounded(rec.base, widest[m]) /\ widest[m] \in Nat
      BY <1>4, <2>1 DEF WindowInv
    <2>3. new \in MetricObjects /\ WellTimed(new) /\ Bounded(new, widest[m])
      BY <2>1, <2>2, UpdatedType DEF WindowInv
    <2>4. widest' \in [Metrics -> Nat] /\ widest' = widest
      BY <1>1 DEF WindowInv
    <2> HIDE DEF m, new
    <2>5. /\ metric' \in [Metrics -> MetricObjects]
          /\ \A n \in Metrics : WellTimed(metric'[n]) /\ Bounded(metric'[n], widest'[n])
      BY <1>4, <2>1, <2>3, <2>4, Replaced
    <2> QED
      BY <1>1, <1>2, <2>4, <2>5 DEF WindowInv
  <1> QED
    BY <1>1, <1>3, <1>4

LEMMA UserWindow ==
    ASSUME WindowInv, NEW m \in Metrics, Delete(m) \/ \E l \in Limits : EditSpec(m, l)
    PROVE  WindowInv'
  <1>0. UNCHANGED <<cache, clock, rec>>
    BY DEF Delete, EditSpec
  <1>1. CASE Delete(m)
    <2>1. metric' = [metric EXCEPT ![m] = Gone] /\ widest' = widest
      BY <1>1 DEF Delete
    <2>2. widest' \in [Metrics -> Nat] /\ Bounded(Gone, widest'[m])
      BY <2>1, GoneType DEF WindowInv
    <2>3. /\ metric' \in [Metrics -> MetricObjects]
          /\ \A n \in Metrics : WellTimed(metric'[n]) /\ Bounded(metric'[n], widest'[n])
      BY <2>1, <2>2, GoneType, Replaced
    <2> QED
      BY <1>0, <2>2, <2>3 DEF WindowInv
  <1>2. ASSUME NEW l \in Limits, EditSpec(m, l) PROVE WindowInv'
    <2> DEFINE x == [metric[m] EXCEPT !.limit = l]
    <2>1. /\ metric' = [metric EXCEPT ![m] = x]
          /\ widest' = [widest EXCEPT ![m] = IF l > @ THEN l ELSE @]
      BY <1>2 DEF EditSpec
    <2>2. l \in Nat /\ metric[m] \in MetricObjects /\ widest[m] \in Nat
      BY MetricAssumption DEF WindowInv
    <2>3. /\ x \in MetricObjects /\ x.results = metric[m].results /\ x.last = metric[m].last
          /\ x.limit = l
      BY <2>2 DEF MetricObjects
    <2> HIDE DEF x
    <2>4. WellTimed(x)
      BY <2>3 DEF WellTimed, WindowInv
    <2>5. /\ widest' \in [Metrics -> Nat]
          /\ \A n \in Metrics \ {m} : widest'[n] = widest[n]
          /\ widest'[m] >= l /\ widest'[m] >= widest[m] /\ widest'[m] \in Nat
      BY <2>1, <2>2 DEF WindowInv
    <2>6. Len(x.results) <= widest[m] /\ Len(x.results) \in Nat
      BY <2>2, <2>3 DEF WindowInv, Bounded, MetricObjects
    <2>7. Bounded(x, widest'[m])
      BY <2>2, <2>3, <2>5, <2>6 DEF Bounded
    <2>8. /\ metric' \in [Metrics -> MetricObjects]
          /\ \A n \in Metrics : WellTimed(metric'[n]) /\ Bounded(metric'[n], widest'[n])
      BY <2>1, <2>3, <2>4, <2>5, <2>7, Replaced
    <2> QED
      BY <1>0, <2>5, <2>8 DEF WindowInv
  <1> QED
    BY <1>1, <1>2

LEMMA OtherWindow ==
    ASSUME WindowInv,
           \/ \E m \in Metrics :
                \/ NotFound(m) \/ ReadFails(m) \/ NotDue(m) \/ NoProvider(m) \/ TimerFires(m)
                \/ SyncCache(m)
           \/ Crash \/ Tick \/ UNCHANGED vars
    PROVE  WindowInv'
  <1>1. UNCHANGED <<metric, widest>>
    BY DEF NotFound, ReadFails, NotDue, NoProvider, TimerFires, SyncCache, Crash, Restart,
           Tick, vars
  <1>2. \/ cache' \in {metric, cache}
        \/ \E m \in Metrics : cache' = [cache EXCEPT ![m] = metric[m]]
    BY DEF NotFound, ReadFails, NotDue, NoProvider, TimerFires, SyncCache, Crash, Restart,
           Tick, vars
  <1>3. cache' \in [Metrics -> MetricObjects]
    BY <1>2 DEF WindowInv
  <1>4. (rec' = rec \/ rec' = Nobody) /\ (clock' = clock \/ clock' = clock + 1)
    BY DEF NotFound, ReadFails, NotDue, NoProvider, TimerFires, SyncCache, Crash, Restart,
           Tick, vars
  <1>5. clock \in Nat /\ clock' \in Nat /\ clock <= clock'
    BY <1>4 DEF WindowInv
  <1>6. Fetching(rec', clock')
    <2>1. CASE rec' = Nobody
      BY <2>1 DEF Fetching
    <2>2. CASE rec' = rec /\ rec # Nobody
      <3>1. /\ rec.metric \in Metrics /\ rec.base \in MetricObjects
            /\ rec.result \in Values \cup {Error} /\ rec.base.last + Interval <= clock
        BY <2>2 DEF WindowInv, Fetching
      <3>2. rec.base.last + Interval \in Int
        BY <3>1, MetricAssumption DEF MetricObjects
      <3>3. rec.base.last + Interval <= clock'
        BY <1>5, <3>1, <3>2
      <3> QED
        BY <2>2, <3>1, <3>3 DEF Fetching
    <2> QED
      BY <1>4, <2>1, <2>2
  <1> QED
    BY <1>1, <1>3, <1>5, <1>6 DEF WindowInv

LEMMA WindowInvariant == Spec => []WindowInv
  <1>1. WindowInv /\ [Next]_vars => WindowInv'
    BY FetchWindow, UpdateWindow, UserWindow, OtherWindow DEF Next, Reconcile
  <1> QED
    BY <1>1, InitWindow, PTL DEF Spec

\* The window never outgrows the largest limit the metric has had, also when
\* the user lowers the limit while a result is on its way (updateMetric).
THEOREM WindowBoundedHolds == Spec => []WindowBounded
  <1>1. WindowInv => WindowBounded
    BY DEF WindowInv, Bounded, WindowBounded
  <1> QED
    BY <1>1, WindowInvariant, PTL

\* The results in the window come from different fetches, at least the interval
\* apart and in their order: a late answer, a write that is applied without an
\* answer, a restart or a stale copy never adds a second result for one
\* interval (Reconcile, updateMetric).
THEOREM ResultsApartHolds == Spec => []ResultsApart
  <1>1. WindowInv => ResultsApart
    BY DEF WindowInv, WellTimed, Apart, ResultsApart
  <1> QED
    BY <1>1, WindowInvariant, PTL

-----------------------------------------------------------------------------
(***************************************************************************)
(* What a provider returns.  Its loops are recursive functions of how far  *)
(* they have come; a claim about a loop is the set of the rounds for which *)
(* it holds, and holds for all if it is passed on from each to the next.   *)
(***************************************************************************)
LEMMA EveryRound ==
    ASSUME NEW n \in Nat, NEW S, 0 \in S, \A k \in 1..n : k - 1 \in S => k \in S
    PROVE  \A k \in 0..n : k \in S
  <1> DEFINE B == {k \in 0..n : k \notin S}
             R == OpToRel(<, Nat)
  <1>1. SUFFICES ASSUME B # {} PROVE FALSE
    OBVIOUS
  <1>2. B \subseteq Nat
    OBVIOUS
  <1>3. PICK w \in B : \A y \in B : ~(<<y, w>> \in R)
    BY <1>1, <1>2, WFMin, NatLessThanWellFounded
  <1>4. \A y \in B : ~(y < w)
    BY <1>2, <1>3 DEF OpToRel
  <1>5. w \in 1..n /\ w - 1 \in 0..n /\ w - 1 < w
    OBVIOUS
  <1>6. w - 1 \in S
    BY <1>4, <1>5
  <1> QED
    BY <1>5, <1>6

\* A loop goes from a state in T to a state in T, round by round.
Rounds(n, T) == [(1..n) \X T -> T]

IsRun(f, n, T, base, g) ==
    /\ f \in [0..n -> T]
    /\ f[0] = base
    /\ \A k \in 1..n : f[k] = g[<<k, f[k - 1]>>]

LEMMA LoopRuns ==
    ASSUME NEW n \in Nat, NEW T, NEW base \in T, NEW g \in Rounds(n, T)
    PROVE  \E f : IsRun(f, n, T, base, g)
  <1> DEFINE Run(m, f) == f[0] = base /\ \A k \in 1..m : f[k] = g[<<k, f[k - 1]>>]
             S == {m \in 0..n : \E f \in [0..m -> T] : Run(m, f)}
  <1>g. g \in [(1..n) \X T -> T]
    BY DEF Rounds
  <1>1. 0 \in S
    <2> DEFINE f == [k \in 0..0 |-> base]
    <2>1. f \in [0..0 -> T] /\ f[0] = base /\ 0 \in 0..n
      OBVIOUS
    <2> HIDE DEF f
    <2>2. Run(0, f)
      BY <2>1
    <2> HIDE DEF Run
    <2> QED
      BY <2>1, <2>2
  <1>2. ASSUME NEW k \in 1..n, k - 1 \in S PROVE k \in S
    <2>1. PICK f \in [0..(k - 1) -> T] : Run(k - 1, f)
      BY <1>2
    <2>2. k \in Nat /\ k - 1 \in 0..(k - 1) /\ f[k - 1] \in T
      OBVIOUS
    <2> DEFINE x == g[<<k, f[k - 1]>>]
               h == [j \in 0..k |-> IF j = k THEN x ELSE f[j]]
    <2>3. x \in T
      BY <1>g, <2>2
    <2> HIDE DEF x
    <2>4. \A j \in 0..k : j # k => j \in 0..(k - 1)
      OBVIOUS
    <2>5. h \in [0..k -> T] /\ h[k] = x /\ \A j \in 0..(k - 1) : h[j] = f[j]
      BY <2>3, <2>4
    <2> HIDE DEF h
    <2>6. h[0] = base
      BY <2>1, <2>2, <2>5
    <2>7. ASSUME NEW j \in 1..k PROVE h[j] = g[<<j, h[j - 1]>>]
      <3>1. CASE j = k
        BY <2>2, <2>5, <3>1 DEF x
      <3>2. CASE j # k
        <4>1. j \in 1..(k - 1) /\ j \in 0..(k - 1) /\ j - 1 \in 0..(k - 1)
          BY <3>2
        <4> QED
          BY <2>1, <2>5, <4>1
      <3> QED
        BY <3>1, <3>2
    <2>8. Run(k, h)
      BY <2>6, <2>7
    <2> HIDE DEF Run
    <2>9. k \in 0..n
      OBVIOUS
    <2> QED
      BY <2>5, <2>8, <2>9
  <1> HIDE DEF S
  <1>3. n \in S
    BY <1>1, <1>2, EveryRound
  <1> QED
    BY <1>3 DEF S, IsRun

\* A loop that keeps the elements of a sequence, except for those to drop.
IsKeeping(f, s, drop) ==
    f = [k \in 0..Len(s) |-> IF k = 0 THEN << >>
                             ELSE IF s[k] = drop THEN f[k - 1] ELSE Append(f[k - 1], s[k])]

LEMMA KeepingRuns ==
    ASSUME NEW E, NEW s \in Seq(E), NEW drop
    PROVE  \E f : IsKeeping(f, s, drop)
  <1> DEFINE n == Len(s)
             T == Seq(E)
             g == [x \in (1..n) \X T |-> IF s[x[1]] = drop THEN x[2] ELSE Append(x[2], s[x[1]])]
  <1>1. n \in Nat /\ DOMAIN s = 1..n /\ \A k \in 1..n : s[k] \in E
    OBVIOUS
  <1>2. g \in [(1..n) \X T -> T] /\ << >> \in T
    OBVIOUS
  <1>3. PICK f : IsRun(f, n, T, << >>, g)
    <2> DEFINE base == << >>
    <2>1. base \in T /\ n \in Nat /\ g \in Rounds(n, T)
      BY <1>1, <1>2 DEF Rounds
    <2> HIDE DEF T, g, n, base
    <2>2. \E f : IsRun(f, n, T, base, g)
      BY <2>1, LoopRuns
    <2> QED
      BY <2>2 DEF base
  <1>4. ASSUME NEW k \in 1..n
        PROVE  f[k] = IF s[k] = drop THEN f[k - 1] ELSE Append(f[k - 1], s[k])
    <2>1. k - 1 \in 0..n
      BY <1>1
    <2> HIDE DEF T, n
    <2>2. f[k - 1] \in T
      BY <1>3, <2>1 DEF IsRun
    <2>3. <<k, f[k - 1]>> \in (1..n) \X T
      BY <2>2
    <2>4. f[k] = g[<<k, f[k - 1]>>]
      BY <1>3 DEF IsRun
    <2> QED
      BY <2>3, <2>4
  <1>5. \A k \in 0..n : k = 0 \/ k \in 1..n
    BY <1>1
  <1>6. IsKeeping(f, s, drop)
    BY <1>3, <1>4, <1>5 DEF IsKeeping, IsRun
  <1> QED
    BY <1>6

\* The values of a series are those of its points that have one.
LEMMA MeasuredFacts ==
    ASSUME NEW s \in Seq(Int)
    PROVE  Measured(s) \in Seq(Int) /\ Range(Measured(s)) = Range(s) \ {Null}
  <1> DEFINE n == Len(s)
             T == Seq(Int)
             kept == CHOOSE f : IsKeeping(f, s, Null)
  <1>1. n \in Nat /\ DOMAIN s = 1..n /\ \A k \in 1..n : s[k] \in Int
    OBVIOUS
  <1>2. << >> \in T
    OBVIOUS
  <1>6. Measured(s) = kept[n]
    BY DEF Measured, IsKeeping
  <1>7. IsKeeping(kept, s, Null)
    BY KeepingRuns
  <1> HIDE DEF kept
  <1>8. kept[0] = << >>
    BY <1>1, <1>7 DEF IsKeeping
  <1>9. ASSUME NEW k \in 1..n
        PROVE  kept[k] = IF s[k] = Null THEN kept[k - 1] ELSE Append(kept[k - 1], s[k])
    <2>1. k \in 0..n /\ k # 0
      BY <1>1
    <2> QED
      BY <1>7, <2>1 DEF IsKeeping
  <1> DEFINE met(k) == {s[j] : j \in 1..k}
             S == {k \in 0..n : kept[k] \in T /\ Range(kept[k]) = met(k) \ {Null}}
  <1>10. 0 \in S
    <2>1. met(0) = {} /\ Range(<< >>) = {} /\ 0 \in 0..n
      BY <1>1 DEF Range
    <2> QED
      BY <1>2, <1>8, <2>1
  <1>11. ASSUME NEW k \in 1..n, k - 1 \in S PROVE k \in S
    <2>1. k \in 0..n /\ \A j : j \in 1..k <=> j \in 1..(k - 1) \/ j = k
      BY <1>1
    <2>2. met(k) = met(k - 1) \cup {s[k]}
      BY <2>1
    <2>3. kept[k - 1] \in T /\ Range(kept[k - 1]) = met(k - 1) \ {Null}
      BY <1>11
    <2> HIDE DEF met
    <2>4. CASE s[k] = Null
      BY <1>9, <2>1, <2>2, <2>3, <2>4
    <2>5. CASE s[k] # Null
      <3> DEFINE q == kept[k - 1]
      <3>1. kept[k] = Append(q, s[k])
        BY <1>9, <2>5
      <3>2. q \in T /\ s[k] \in Int
        BY <1>1, <2>3
      <3> HIDE DEF q
      <3>3. Append(q, s[k]) \in T
        BY <3>2
      <3>4. Range(Append(q, s[k])) = Range(q) \cup {s[k]}
        <4>1. /\ DOMAIN q = 1..Len(q) /\ Len(q) \in Nat /\ DOMAIN Append(q, s[k]) = 1..(Len(q) + 1)
              /\ \A i \in 1..Len(q) : Append(q, s[k])[i] = q[i]
              /\ Append(q, s[k])[Len(q) + 1] = s[k]
          BY <3>2
        <4>2. \A i : i \in 1..(Len(q) + 1) <=> i \in 1..Len(q) \/ i = Len(q) + 1
          BY <4>1
        <4> QED
          BY <4>1, <4>2 DEF Range
      <3>5. Range(q) = met(k - 1) \ {Null}
        BY <2>3 DEF q
      <3> QED
        BY <2>1, <2>2, <2>5, <3>1, <3>3, <3>4, <3>5
    <2> QED
      BY <2>4, <2>5
  <1> HIDE DEF S
  <1>12. n \in S
    <2>1. \A k \in 1..n : k - 1 \in S => k \in S
      BY <1>11
    <2>2. n \in 0..n
      BY <1>1
    <2> HIDE DEF n
    <2>3. \A k \in 0..n : k \in S
      BY <1>1, <1>10, <2>1, EveryRound
    <2> QED
      BY <2>2, <2>3
  <1>13. met(n) = Range(s)
    BY <1>1 DEF Range
  <1> QED
    BY <1>6, <1>12, <1>13 DEF S

LEMMA Scaled ==
    ASSUME NEW a \in Int, NEW b \in Int, a <= b, NEW k \in Nat
    PROVE  a * k <= b * k
  OBVIOUS

LEMMA Added ==
    ASSUME NEW a \in Int, NEW b \in Int, NEW c \in Int, NEW x \in Int, NEW y \in Int,
           a <= b, b <= c, x <= y
    PROVE  a + x <= c + y
  OBVIOUS

IsSumming(f, s) ==
    f = [k \in 0..Len(s) |-> IF k = 0 THEN 0 ELSE f[k - 1] + s[k]]

\* A sum lies between the least and the greatest of its values times their number.
Within(x, k, s) ==
    \E low, high \in Range(s) : low * k <= x /\ x <= high * k

LEMMA TotalFacts ==
    ASSUME NEW s \in Seq(Int), s # << >>
    PROVE  Total(s) \in Int /\ Within(Total(s), Len(s), s)
  <1> DEFINE n == Len(s)
             g == [x \in (1..n) \X Int |-> x[2] + s[x[1]]]
             sum == CHOOSE f : IsSumming(f, s)
  <1>1. n \in Nat /\ n # 0 /\ DOMAIN s = 1..n /\ \A k \in 1..n : s[k] \in Int
    OBVIOUS
  <1>2. g \in [(1..n) \X Int -> Int]
    OBVIOUS
  <1>3. PICK f : IsRun(f, n, Int, 0, g)
    <2>1. 0 \in Int /\ n \in Nat /\ g \in Rounds(n, Int)
      BY <1>1, <1>2 DEF Rounds
    <2> HIDE DEF g, n
    <2> QED
      BY <2>1, LoopRuns
  <1>4. ASSUME NEW k \in 1..n
        PROVE  f[k] = f[k - 1] + s[k]
    <2>1. k - 1 \in 0..n
      BY <1>1
    <2> HIDE DEF n
    <2>2. f[k - 1] \in Int
      BY <1>3, <2>1 DEF IsRun
    <2>3. <<k, f[k - 1]>> \in (1..n) \X Int
      BY <2>2
    <2>4. f[k] = g[<<k, f[k - 1]>>]
      BY <1>3 DEF IsRun
    <2> QED
      BY <2>3, <2>4
  <1>5. \E h : IsSumming(h, s)
    <2>1. \A k \in 0..n : k = 0 \/ k \in 1..n
      BY <1>1
    <2>2. IsSumming(f, s)
      BY <1>3, <1>4, <2>1 DEF IsSumming, IsRun
    <2> QED
      BY <2>2
  <1>6. Total(s) = sum[n]
    BY DEF Total, IsSumming
  <1>7. IsSumming(sum, s)
    BY <1>5
  <1> HIDE DEF sum
  <1>8. sum[0] = 0
    BY <1>1, <1>7 DEF IsSumming
  <1>9. ASSUME NEW k \in 1..n
        PROVE  sum[k] = sum[k - 1] + s[k]
    <2>1. k \in 0..n /\ k # 0
      BY <1>1
    <2> QED
      BY <1>7, <2>1 DEF IsSumming
  <1> DEFINE S == {k \in 0..n : sum[k] \in Int /\ (k = 0 \/ Within(sum[k], k, s))}
  <1>10. 0 \in S
    BY <1>1, <1>8
  <1>11. ASSUME NEW k \in 1..n, k - 1 \in S PROVE k \in S
    <2>1. /\ k \in 0..n /\ k \in Nat /\ k - 1 \in Nat /\ k # 0
          /\ s[k] \in Int /\ s[k] \in Range(s)
      BY <1>1 DEF Range
    <2>2. sum[k - 1] \in Int /\ (k - 1 = 0 \/ Within(sum[k - 1], k - 1, s))
      BY <1>11
    <2>3. sum[k] = sum[k - 1] + s[k] /\ sum[k] \in Int
      BY <1>9, <2>1, <2>2
    <2>4. Within(sum[k], k, s)
      <3>1. CASE k - 1 = 0
        <4>1. k = 1 /\ sum[k] = s[k]
          BY <1>8, <2>1, <2>3, <3>1
        <4> QED
          BY <2>1, <4>1 DEF Within
      <3>2. CASE Within(sum[k - 1], k - 1, s)
        <4> DEFINE x == s[k]  y == sum[k - 1]  j == k - 1
        <4>1. PICK low \in Range(s), high \in Range(s) : low * j <= y /\ y <= high * j
          BY <3>2 DEF Within
        <4>2. low \in Int /\ high \in Int
          BY <1>1 DEF Range
        <4>3. x \in Int /\ y \in Int /\ j \in Nat /\ k = j + 1 /\ sum[k] = y + x /\ x \in Range(s)
          BY <2>1, <2>2, <2>3
        <4> HIDE DEF x, y, j
        <4> DEFINE lo == IF x < low THEN x ELSE low
                   hi == IF high < x THEN x ELSE high
        <4>4. /\ lo \in Range(s) /\ hi \in Range(s) /\ lo \in Int /\ hi \in Int
              /\ lo <= x /\ lo <= low /\ x <= hi /\ high <= hi
          BY <4>2, <4>3
        <4> HIDE DEF lo, hi
        <4>5. lo * j <= low * j /\ high * j <= hi * j
          BY <4>2, <4>3, <4>4, Scaled
        <4>6. lo * k = lo * j + lo /\ hi * k = hi * j + hi
          BY <4>3, <4>4
        <4>7. lo * j \in Int /\ low * j \in Int /\ hi * j \in Int /\ high * j \in Int
          BY <4>2, <4>3, <4>4
        <4>8. lo * k <= sum[k] /\ sum[k] <= hi * k
          <5>1. lo * j + lo <= y + x
            BY <4>1, <4>3, <4>4, <4>5, <4>7, Added
          <5>2. y + x <= hi * j + hi
            BY <4>1, <4>3, <4>4, <4>5, <4>7, Added
          <5> QED
            BY <4>3, <4>6, <5>1, <5>2
        <4> QED
          BY <4>4, <4>8 DEF Within
      <3> QED
        BY <2>2, <3>1, <3>2
    <2> QED
      BY <2>1, <2>3, <2>4
  <1> HIDE DEF S
  <1>12. n \in S
    <2>1. \A k \in 1..n : k - 1 \in S => k \in S
      BY <1>11
    <2>2. n \in 0..n
      BY <1>1
    <2> HIDE DEF n
    <2>3. \A k \in 0..n : k \in S
      BY <1>1, <1>10, <2>1, EveryRound
    <2> QED
      BY <2>2, <2>3
  <1> QED
    BY <1>1, <1>6, <1>12 DEF S

\* getSingleValue lies between two values that it read, unless there is none.
LEMMA AverageFacts ==
    ASSUME NEW s \in Seq(Int)
    PROVE  /\ Average(s) \in Int
           /\ \/ \E low, high \in Range(s) \ {Null} : low <= Average(s) /\ Average(s) <= high
              \/ Range(s) \ {Null} = {} /\ Average(s) = 0
  <1> DEFINE vals == Measured(s)
             n == Len(vals)
             t == Total(vals)
  <1>1. vals \in Seq(Int) /\ Range(vals) = Range(s) \ {Null}
    BY MeasuredFacts
  <1>2. Average(s) = IF vals = << >> THEN 0 ELSE t \div n
    BY DEF Average
  <1> HIDE DEF vals
  <1>3. CASE vals = << >>
    <2>1. Range(<< >>) = {}
      BY DEF Range
    <2> QED
      BY <1>1, <1>2, <1>3, <2>1
  <1>4. CASE vals # << >>
    <2>1. t \in Int /\ Within(t, n, vals)
      BY <1>1, <1>4, TotalFacts
    <2>2. n \in Nat /\ n > 0
      BY <1>1, <1>4
    <2>3. PICK low \in Range(vals), high \in Range(vals) : low * n <= t /\ t <= high * n
      BY <2>1 DEF Within
    <2>4. low \in Int /\ high \in Int
      BY <1>1 DEF Range
    <2> HIDE DEF n, t
    <2>5. t \div n \in Int /\ low <= t \div n /\ t \div n <= high
      BY <2>1, <2>2, <2>3, <2>4
    <2> QED
      BY <1>1, <1>2, <1>4, <2>5 DEF t, n
  <1> QED
    BY <1>3, <1>4

IsFlattening(f, ss) ==
    f = [i \in 1..Len(ss) |-> IF i = 1 THEN ss[i] ELSE f[i - 1] \o ss[i]]

Points1To(ss, k) == UNION {Range(ss[j]) : j \in 1..k}

\* The points of an answer are those of its series.
LEMMA FlattenFacts ==
    ASSUME NEW ss \in Seq(Seq(Int))
    PROVE  FlattenSeq(ss) \in Seq(Int) /\ Range(FlattenSeq(ss)) = Points1To(ss, Len(ss))
  <1> DEFINE n == Len(ss)
             T == Seq(Int)
             g == [x \in (1..n) \X T |-> IF x[1] = 1 THEN ss[x[1]] ELSE x[2] \o ss[x[1]]]
             flat == CHOOSE f : IsFlattening(f, ss)
  <1>1. n \in Nat /\ DOMAIN ss = 1..n /\ \A k \in 1..n : ss[k] \in T
    OBVIOUS
  <1>e. Range(<< >>) = {} /\ << >> \in T
    BY DEF Range
  <1>0. CASE n = 0
    <2>1. FlattenSeq(ss) = ss /\ ss = << >>
      BY <1>0 DEF FlattenSeq
    <2>2. Points1To(ss, n) = {}
      BY <1>0 DEF Points1To
    <2> QED
      BY <1>e, <2>1, <2>2
  <1>z. CASE n # 0
    <2>1. g \in Rounds(n, T)
      <3>1. \A x \in (1..n) \X T : ss[x[1]] \in T /\ x[2] \o ss[x[1]] \in T
        BY <1>1
      <3> HIDE DEF n, T
      <3> QED
        BY <3>1 DEF Rounds
    <2>2. PICK f : IsRun(f, n, T, << >>, g)
      <3> DEFINE base == << >>
      <3>1. base \in T /\ n \in Nat /\ g \in Rounds(n, T)
        BY <1>1, <1>e, <2>1
      <3> HIDE DEF T, g, n, base
      <3>2. \E f : IsRun(f, n, T, base, g)
        BY <3>1, LoopRuns
      <3> QED
        BY <3>2 DEF base
    <2>3. ASSUME NEW k \in 1..n
          PROVE  f[k] = IF k = 1 THEN ss[k] ELSE f[k - 1] \o ss[k]
      <3>1. k - 1 \in 0..n
        BY <1>1
      <3> HIDE DEF T, n
      <3>2. f[k - 1] \in T
        BY <2>2, <3>1 DEF IsRun
      <3>3. <<k, f[k - 1]>> \in (1..n) \X T
        BY <3>2
      <3>4. f[k] = g[<<k, f[k - 1]>>]
        BY <2>2 DEF IsRun
      <3> QED
        BY <3>3, <3>4
    <2>4. \E h : IsFlattening(h, ss)
      <3> DEFINE h == [k \in 1..n |-> f[k]]
      <3>1. \A k \in 1..n : k # 1 => k - 1 \in 1..n
        BY <1>1
      <3>2. \A k \in 1..n : h[k] = f[k]
        OBVIOUS
      <3>3. ASSUME NEW k \in 1..n
            PROVE  h[k] = IF k = 1 THEN ss[k] ELSE h[k - 1] \o ss[k]
        BY <2>3, <3>1, <3>2
      <3>4. h = [k \in 1..n |-> h[k]]
        OBVIOUS
      <3> HIDE DEF h, n
      <3>5. h = [k \in 1..n |-> IF k = 1 THEN ss[k] ELSE h[k - 1] \o ss[k]]
        BY <3>3, <3>4
      <3>6. IsFlattening(h, ss)
        BY <3>5 DEF IsFlattening, n
      <3> QED
        BY <3>6
    <2>5. FlattenSeq(ss) = flat[n]
      BY <1>z DEF FlattenSeq, IsFlattening
    <2>6. IsFlattening(flat, ss)
      BY <2>4
    <2> HIDE DEF flat
    <2>7. ASSUME NEW k \in 1..n
          PROVE  flat[k] = IF k = 1 THEN ss[k] ELSE flat[k - 1] \o ss[k]
      BY <2>6 DEF IsFlattening
    <2> DEFINE S == {k \in 0..n : k = 0 \/ (flat[k] \in T /\ Range(flat[k]) = Points1To(ss, k))}
    <2>8. 0 \in S
      BY <1>1
    <2>9. ASSUME NEW k \in 1..n, k - 1 \in S PROVE k \in S
      <3>1. k \in 0..n /\ k # 0 /\ ss[k] \in T /\ \A j : j \in 1..k <=> j \in 1..(k - 1) \/ j = k
        BY <1>1
      <3>2. Points1To(ss, k) = Points1To(ss, k - 1) \cup Range(ss[k])
        BY <3>1 DEF Points1To
      <3>3. CASE k = 1
        <4>1. Points1To(ss, k - 1) = {}
          BY <3>3 DEF Points1To
        <4> QED
          BY <2>7, <3>1, <3>2, <3>3, <4>1
      <3>4. CASE k # 1
        <4> DEFINE q == flat[k - 1]
        <4>1. q \in T /\ Range(q) = Points1To(ss, k - 1)
          BY <2>9, <3>1, <3>4
        <4>2. flat[k] = q \o ss[k]
          BY <2>7, <3>4
        <4> HIDE DEF q
        <4>3. q \o ss[k] \in T
          BY <3>1, <4>1
        <4>4. Range(q \o ss[k]) = Range(q) \cup Range(ss[k])
          BY <3>1, <4>1, RangeConcatenation
        <4> QED
          BY <3>1, <3>2, <4>1, <4>2, <4>3, <4>4
      <3> QED
        BY <3>3, <3>4
    <2> HIDE DEF S
    <2>10. n \in S
      <3>1. \A k \in 1..n : k - 1 \in S => k \in S
        BY <2>9
      <3>2. n \in 0..n
        BY <1>1
      <3> HIDE DEF n
      <3>3. \A k \in 0..n : k \in S
        BY <1>1, <2>8, <3>1, EveryRound
      <3> QED
        BY <3>2, <3>3
    <2> QED
      BY <1>z, <2>5, <2>10 DEF S
  <1> QED
    BY <1>0, <1>z

\* What ValueIsMeasured says of a call, and what a provider reads.
MeasuredPoints(answer, type) ==
    (UNION {Range(answer[i]) : i \in IF type = "datadog" THEN {1} ELSE DOMAIN answer}) \ {Null}

Grounded(answer, type, call, values) ==
    \A v \in Range(values) :
       \/ \E low, high \in MeasuredPoints(answer, type) : low <= v /\ v <= high
       \/ /\ type \in {"dynatrace", "datadog"} /\ call # "step"
          /\ MeasuredPoints(answer, type) = {}
          /\ v = 0

LEMMA AnswerType ==
    ASSUME NEW type, NEW call, NEW a \in Answers(type, call)
    PROVE  /\ a \in Seq(Seq(Int))
           /\ type = "prometheus" => \A i \in DOMAIN a : a[i] # << >> /\ Null \notin Range(a[i])
  <1> DEFINE P == SeqOf(Points, MaxPoints)
             series == IF type # "prometheus" THEN Series
                       ELSE {s \in P : IF call = "instant" THEN Len(s) = 1 ELSE s # << >>}
  <1>1. a \in SeqOf(series, MaxSeries)
    BY DEF Answers
  <1>2. Series \subseteq Seq(Int)
    <2>1. Points \cup {Null} \subseteq Int
      BY PointsAssumption DEF Null
    <2>2. ASSUME NEW s \in Series PROVE s \in Seq(Int)
      <3>1. PICK m \in 0..MaxPoints : s \in [1..m -> Points \cup {Null}]
        BY DEF Series, SeqOf
      <3>2. m \in Nat /\ s \in [1..m -> Int]
        BY <2>1, <3>1, PointsAssumption
      <3> QED
        BY <3>2, IsASeq
    <2> QED
      BY <2>2
  <1>3. P \subseteq Seq(Int) /\ \A s \in P : Null \notin Range(s)
    <2>1. ASSUME NEW s \in P PROVE s \in Seq(Int) /\ Null \notin Range(s)
      <3>1. PICK m \in 0..MaxPoints : s \in [1..m -> Points]
        BY DEF SeqOf
      <3>2. \A p \in Points : p \in Int
        BY PointsAssumption
      <3>3. m \in Nat
        BY PointsAssumption
      <3>4. s \in [1..m -> Int]
        BY <3>1, <3>2
      <3>5. s \in Seq(Int)
        BY <3>3, <3>4, IsASeq
      <3> QED
        BY <3>1, <3>5, PointsAssumption DEF Null, Range
    <2> QED
      BY <2>1
  <1> HIDE DEF P
  <1>4. series \subseteq Seq(Int)
    BY <1>2, <1>3
  <1>5. type = "prometheus" => \A s \in series : s # << >> /\ Null \notin Range(s)
    BY <1>3
  <1> HIDE DEF series
  <1>6. PICK m \in 0..MaxSeries : a \in [1..m -> series]
    BY <1>1 DEF SeqOf
  <1>7. \A i \in DOMAIN a : a[i] \in series
    BY <1>6
  <1>8. a \in Seq(Seq(Int))
    BY <1>4, <1>6
  <1> QED
    BY <1>5, <1>7, <1>8

\* One value that a provider returns.
LEMMA One ==
    ASSUME NEW x
    PROVE  Range(<<x>>) = {x}
  BY DEF Range

LEMMA ReturnsType ==
    ASSUME NEW values \in Seq(Int)
    PROVE  Returns(values) \in Outcomes
  <1>1. Returns(values) \in [kind : {"values"}, values : Seq(Int)]
    BY DEF Returns
  <1> QED
    BY <1>1 DEF Outcomes

\* Values that were measured are grounded.
LEMMA MeasuredIsGrounded ==
    ASSUME NEW answer, NEW type, NEW call, NEW values,
           MeasuredPoints(answer, type) \subseteq Int,
           Range(values) \subseteq MeasuredPoints(answer, type)
    PROVE  Grounded(answer, type, call, values)
  <1> DEFINE M == MeasuredPoints(answer, type)
  <1> HIDE DEF M
  <1>1. ASSUME NEW v \in Range(values) PROVE \E low, high \in M : low <= v /\ v <= high
    <2>1. v \in M /\ v \in Int
      BY DEF M
    <2>2. v <= v
      BY <2>1
    <2> QED
      BY <2>1, <2>2
  <1> QED
    BY <1>1 DEF Grounded, M

LEMMA PointsOfSeries ==
    ASSUME NEW a \in Seq(Seq(Int)), NEW type, type = "datadog" => a # << >>
    PROVE  /\ MeasuredPoints(a, type) \subseteq Int
           /\ \A i \in DOMAIN a : type # "datadog" \/ i = 1 =>
                Range(a[i]) \ {Null} \subseteq MeasuredPoints(a, type)
           /\ type = "datadog" => MeasuredPoints(a, type) = Range(a[1]) \ {Null}
           /\ type # "datadog" => MeasuredPoints(a, type) = Points1To(a, Len(a)) \ {Null}
  <1>1. \A i \in DOMAIN a : a[i] \in Seq(Int) /\ Range(a[i]) \subseteq Int
    BY RangeOfSeq
  <1>2. DOMAIN a = 1..Len(a) /\ (a # << >> => 1 \in DOMAIN a)
    OBVIOUS
  <1>3. CASE type = "datadog"
    <2>1. MeasuredPoints(a, type) = Range(a[1]) \ {Null}
      BY <1>3 DEF MeasuredPoints
    <2> QED
      BY <1>1, <1>2, <1>3, <2>1
  <1>4. CASE type # "datadog"
    <2>1. MeasuredPoints(a, type) = (UNION {Range(a[i]) : i \in DOMAIN a}) \ {Null}
      BY <1>4 DEF MeasuredPoints
    <2>2. Points1To(a, Len(a)) = UNION {Range(a[i]) : i \in DOMAIN a}
      BY <1>2 DEF Points1To
    <2> QED
      BY <1>1, <1>4, <2>1, <2>2
  <1> QED
    BY <1>3, <1>4

LEMMA PrometheusFacts ==
    ASSUME NEW call \in Calls, NEW a \in Answers("prometheus", call)
    PROVE  /\ ReadPrometheus(a, call) \in Outcomes
           /\ ReadPrometheus(a, call).kind = "values" =>
                Grounded(a, "prometheus", call, ReadPrometheus(a, call).values)
  <1>1. /\ a \in Seq(Seq(Int))
        /\ \A i \in DOMAIN a : a[i] # << >> /\ Null \notin Range(a[i])
    BY AnswerType
  <1>2. CASE Len(a) # 1
    BY <1>2 DEF ReadPrometheus, QueryFailed, Outcomes
  <1>3. CASE Len(a) = 1
    <2> DEFINE s == a[1]
               out == Returns(IF call = "step" THEN s ELSE <<s[1]>>)
    <2>1. ReadPrometheus(a, call) = out
      BY <1>3 DEF ReadPrometheus
    <2>2. 1 \in DOMAIN a /\ s \in Seq(Int) /\ s # << >> /\ Null \notin Range(s)
      BY <1>1, <1>3
    <2>3. Range(s) \subseteq MeasuredPoints(a, "prometheus") /\ MeasuredPoints(a, "prometheus") \subseteq Int
      BY <1>1, <2>2, PointsOfSeries
    <2> HIDE DEF s
    <2>4. s[1] \in Int /\ s[1] \in Range(s)
      BY <2>2 DEF Range
    <2>5. out.kind = "values" /\ out.values \in Seq(Int) /\ Range(out.values) \subseteq Range(s)
      BY <2>2, <2>4, One DEF Returns
    <2>6. out \in Outcomes
      BY <2>2, <2>4 DEF Outcomes, Returns
    <2> HIDE DEF out
    <2> QED
      BY <2>1, <2>3, <2>5, <2>6, MeasuredIsGrounded
  <1> QED
    BY <1>2, <1>3

\* An average, or the values, of what was measured.
LEMMA AveragedFacts ==
    ASSUME NEW call \in Calls, NEW type \in {"dynatrace", "datadog"}, NEW a, NEW s \in Seq(Int),
           MeasuredPoints(a, type) = Range(s) \ {Null}, MeasuredPoints(a, type) \subseteq Int,
           NEW out, out = Returns(IF call = "step" THEN Measured(s) ELSE <<Average(s)>>)
    PROVE  out \in Outcomes /\ Grounded(a, type, call, out.values)
  <1>1. Measured(s) \in Seq(Int) /\ Range(Measured(s)) = Range(s) \ {Null}
    BY MeasuredFacts
  <1>2. CASE call = "step"
    <2>1. out = Returns(Measured(s)) /\ out.values = Measured(s)
      BY <1>2 DEF Returns
    <2>2. out \in Outcomes
      BY <1>1, <2>1, ReturnsType
    <2> QED
      BY <1>1, <2>1, <2>2, MeasuredIsGrounded
  <1>3. CASE call # "step"
    <2> DEFINE v == Average(s)
    <2>1. out = Returns(<<v>>) /\ out.values = <<v>>
      BY <1>3 DEF Returns
    <2>2. /\ v \in Int
          /\ \/ \E low, high \in Range(s) \ {Null} : low <= v /\ v <= high
             \/ Range(s) \ {Null} = {} /\ v = 0
      BY AverageFacts
    <2> HIDE DEF v
    <2>3. out \in Outcomes
      <3>1. <<v>> \in Seq(Int)
        BY <2>2
      <3> QED
        BY <2>1, <3>1, ReturnsType
    <2>4. Range(out.values) = {v}
      BY <2>1, One
    <2> QED
      BY <1>3, <2>2, <2>3, <2>4 DEF Grounded
  <1> QED
    BY <1>2, <1>3

LEMMA DynatraceFacts ==
    ASSUME NEW call \in Calls, NEW a \in Seq(Seq(Int))
    PROVE  /\ ReadDynatrace(a, call) \in Outcomes
           /\ Grounded(a, "dynatrace", call, ReadDynatrace(a, call).values)
  <1> DEFINE s == FlattenSeq(a)
  <1>1. s \in Seq(Int) /\ Range(s) = Points1To(a, Len(a))
    BY FlattenFacts
  <1>2. MeasuredPoints(a, "dynatrace") = Range(s) \ {Null} /\ MeasuredPoints(a, "dynatrace") \subseteq Int
    BY <1>1, PointsOfSeries
  <1>3. ReadDynatrace(a, call) = Returns(IF call = "step" THEN Measured(s) ELSE <<Average(s)>>)
    BY DEF ReadDynatrace
  <1> HIDE DEF s
  <1> QED
    BY <1>1, <1>2, <1>3, AveragedFacts

LEMMA DatadogFacts ==
    ASSUME NEW call \in Calls, NEW a \in Seq(Seq(Int))
    PROVE  /\ ReadDatadog(a, call) \in Outcomes
           /\ ReadDatadog(a, call).kind = "values" =>
                Grounded(a, "datadog", call, ReadDatadog(a, call).values)
  <1>1. CASE a = << >> \/ a[1] = << >>
    BY <1>1 DEF ReadDatadog, QueryFailed, Outcomes
  <1>2. CASE ~(a = << >> \/ a[1] = << >>)
    <2> DEFINE s == a[1]
    <2>1. s \in Seq(Int)
      BY <1>2
    <2>2. MeasuredPoints(a, "datadog") = Range(s) \ {Null} /\ MeasuredPoints(a, "datadog") \subseteq Int
      BY <1>2, PointsOfSeries
    <2>3. ReadDatadog(a, call) = Returns(IF call = "step" THEN Measured(s) ELSE <<Average(s)>>)
      BY <1>2 DEF ReadDatadog
    <2> HIDE DEF s
    <2> QED
      BY <2>1, <2>2, <2>3, AveragedFacts
  <1> QED
    BY <1>1, <1>2

LEMMA DQLFacts ==
    ASSUME NEW call \in Calls, NEW a \in Seq(Seq(Int)), NEW out \in ReadDQL(a, call)
    PROVE  out \in Outcomes /\ (out.kind = "values" => Grounded(a, "dql", call, out.values))
  <1>1. CASE out = QueryFailed \/ out = Panics
    BY <1>1 DEF QueryFailed, Panics, Outcomes
  <1>2. CASE out = Returns(<< >>)
    <2>1. Range(<< >>) = {} /\ << >> \in Seq(Int)
      BY DEF Range
    <2>2. out \in Outcomes /\ out.values = << >>
      BY <1>2, <2>1 DEF Outcomes, Returns
    <2> QED
      BY <2>1, <2>2 DEF Grounded
  <1>3. ASSUME NEW i \in FloatArrays(a), out = Returns(a[i]) \/ (a[i] # << >> /\ out = Returns(<<Last(a[i])>>))
        PROVE  out \in Outcomes /\ Grounded(a, "dql", call, out.values)
    <2> DEFINE s == a[i]
    <2>1. i \in DOMAIN a /\ Null \notin Range(s) /\ s \in Seq(Int)
      BY DEF FloatArrays
    <2>2. Range(s) \subseteq MeasuredPoints(a, "dql") /\ MeasuredPoints(a, "dql") \subseteq Int
      BY <2>1, PointsOfSeries
    <2> HIDE DEF s
    <2>3. s # << >> => Last(s) \in Int /\ Last(s) \in Range(s)
      BY <2>1 DEF Last, Range
    <2>4. out = Returns(s) \/ (s # << >> /\ out = Returns(<<Last(s)>>))
      BY <1>3 DEF s
    <2>5. out \in Outcomes
      <3>1. s # << >> => <<Last(s)>> \in Seq(Int)
        BY <2>3
      <3> QED
        BY <2>1, <2>4, <3>1, ReturnsType
    <2>6. Range(out.values) \subseteq Range(s)
      BY <2>3, <2>4, One DEF Returns
    <2> QED
      BY <2>2, <2>5, <2>6, MeasuredIsGrounded
  <1>4. \/ out = QueryFailed \/ out = Panics \/ out = Returns(<< >>)
        \/ \E i \in FloatArrays(a) :
              out = Returns(a[i]) \/ (a[i] # << >> /\ out = Returns(<<Last(a[i])>>))
    BY DEF ReadDQL
  <1> QED
    BY <1>1, <1>2, <1>3, <1>4

\* Whatever a provider makes of an answer is an outcome, and its values are grounded.
LEMMA ReadFacts ==
    ASSUME NEW type \in ProviderTypes, NEW call \in Calls, NEW a \in Answers(type, call),
           NEW out \in Read(a, type, call)
    PROVE  out \in Outcomes /\ (out.kind = "values" => Grounded(a, type, call, out.values))
  <1>1. a \in Seq(Seq(Int))
    BY AnswerType
  <1>2. CASE type = "prometheus"
    <2>1. out = ReadPrometheus(a, call) /\ a \in Answers("prometheus", call)
      BY <1>2 DEF Read
    <2> QED
      BY <1>2, <2>1, PrometheusFacts
  <1>3. CASE type = "dynatrace"
    <2>1. out = ReadDynatrace(a, call)
      BY <1>3 DEF Read
    <2> QED
      BY <1>1, <1>3, <2>1, DynatraceFacts
  <1>4. CASE type = "datadog"
    <2>1. out = ReadDatadog(a, call)
      BY <1>4 DEF Read
    <2> QED
      BY <1>1, <1>4, <2>1, DatadogFacts
  <1>5. CASE type = "dql"
    <2>1. out \in ReadDQL(a, call)
      BY <1>5 DEF Read
    <2> QED
      BY <1>1, <1>5, <2>1, DQLFacts
  <1> QED
    BY <1>2, <1>3, <1>4, <1>5 DEF ProviderTypes

\* The call of a provider: values only come from the answer it keeps.
Queries ==
    [type : ProviderTypes, call : Calls, pc : {"new", "login", "asking", "polling", "done"},
     polls : Nat, answer : Seq(Seq(Int)), out : Outcomes]

QueryInv ==
    /\ query \in Queries
    /\ query.out.kind = "values" =>
          Grounded(query.answer, query.type, query.call, query.out.values)

LEMMA QueryInit == InitQuery => QueryInv
  <1> SUFFICES ASSUME InitQuery PROVE QueryInv
    OBVIOUS
  <1>1. PICK t \in ProviderTypes, c \in Calls : query = NewQuery(t, c)
    BY DEF InitQuery
  <1>2. Unfinished \in Outcomes /\ Unfinished.kind = "none"
    BY DEF Unfinished, Outcomes
  <1>3. << >> \in Seq(Seq(Int))
    OBVIOUS
  <1>4. NewQuery(t, c) \in Queries /\ NewQuery(t, c).out = Unfinished
    BY <1>2, <1>3 DEF NewQuery, Queries
  <1> QED
    BY <1>1, <1>2, <1>4 DEF QueryInv

LEMMA QueryFails ==
    ASSUME QueryInv, Ends(QueryFailed)
    PROVE  QueryInv'
  <1>1. QueryFailed \in Outcomes /\ QueryFailed.kind = "error"
    BY DEF QueryFailed, Outcomes
  <1> QED
    BY <1>1 DEF QueryInv, Queries, Ends

LEMMA QueryGoesOn ==
    ASSUME QueryInv, query' \in Queries,
           query'.out = query.out, query'.answer = query.answer,
           query'.type = query.type, query'.call = query.call
    PROVE  QueryInv'
  BY DEF QueryInv

LEMMA QueryStep == QueryInv /\ [ProviderStep]_query => QueryInv'
  <1> SUFFICES ASSUME QueryInv, [ProviderStep]_query PROVE QueryInv'
    OBVIOUS
  <1>0. query \in Queries
    BY DEF QueryInv
  <1>1. ASSUME NEW s \in Secrets, ReadSecret(s) PROVE QueryInv'
    <2>1. CASE Ends(QueryFailed)
      BY <2>1, QueryFails
    <2>2. CASE query' = [query EXCEPT !.pc = IF query.type = "dql" THEN "login" ELSE "asking"]
      BY <1>0, <2>2, QueryGoesOn DEF Queries
    <2> QED
      BY <1>1, <2>1, <2>2 DEF ReadSecret
  <1>2. ASSUME NEW t \in BOOLEAN, Login(t) PROVE QueryInv'
    <2>1. CASE Ends(QueryFailed)
      BY <2>1, QueryFails
    <2>2. CASE query' = [query EXCEPT !.pc = "asking"]
      BY <1>0, <2>2, QueryGoesOn DEF Queries
    <2> QED
      BY <1>2, <2>1, <2>2 DEF Login
  <1>3. CASE RequestFails
    BY <1>3, QueryFails DEF RequestFails
  <1>4. ASSUME NEW a \in Answers(query.type, query.call), Answered(a) PROVE QueryInv'
    <2>1. PICK out \in Read(a, query.type, query.call) :
             query' = [query EXCEPT !.pc = "done", !.answer = a, !.out = out]
      BY <1>4 DEF Answered
    <2>2. query.type \in ProviderTypes /\ query.call \in Calls
      BY <1>0 DEF Queries
    <2>3. out \in Outcomes /\ (out.kind = "values" => Grounded(a, query.type, query.call, out.values))
      BY <2>2, ReadFacts
    <2>4. a \in Seq(Seq(Int))
      BY AnswerType
    <2>5. query' \in Queries
      BY <1>0, <2>1, <2>3, <2>4 DEF Queries
    <2>6. query'.out = out /\ query'.answer = a /\ query'.type = query.type /\ query'.call = query.call
      BY <1>0, <2>1 DEF Queries
    <2> QED
      BY <2>3, <2>5, <2>6 DEF QueryInv
  <1>5. CASE Accepted
    BY <1>0, <1>5, QueryGoesOn DEF Accepted, Queries
  <1>6. CASE StillRunning
    <2>1. CASE Ends(QueryFailed)
      BY <2>1, QueryFails
    <2>2. CASE query' = [query EXCEPT !.polls = @ + 1]
      <3>1. query.polls + 1 \in Nat
        BY <1>0 DEF Queries
      <3>2. query' = [query EXCEPT !.polls = query.polls + 1]
        BY <2>2
      <3>3. query' \in Queries
        BY <1>0, <3>1, <3>2 DEF Queries
      <3>4. /\ query'.out = query.out /\ query'.answer = query.answer
            /\ query'.type = query.type /\ query'.call = query.call
        BY <1>0, <3>2 DEF Queries
      <3> QED
        BY <3>3, <3>4, QueryGoesOn
    <2> QED
      BY <1>6, <2>1, <2>2 DEF StillRunning
  <1>7. CASE UNCHANGED query
    BY <1>7 DEF QueryInv
  <1> QED
    BY <1>1, <1>2, <1>3, <1>4, <1>5, <1>6, <1>7 DEF ProviderStep

\* A value that a provider hands on lies within what the monitoring system measured
\* for the series that was asked for, whatever the answer holds, however many series
\* and points: points without a value do not count, and only if no point has one do
\* Dynatrace and Datadog return 0 (getSingleValue, getResultSlice, getResultForMatrix,
\* extractValueFromRecord).
THEOREM ValueIsMeasuredHolds == ProviderSpec => []ValueIsMeasured
  <1>1. QueryInv => ValueIsMeasured
    BY DEF QueryInv, ValueIsMeasured, Grounded, MeasuredPoints
  <1> QED
    BY <1>1, QueryInit, QueryStep, PTL DEF ProviderSpec

-----------------------------------------------------------------------------
(***************************************************************************)
(* What the converter of SLOs makes of an objective.                       *)
(***************************************************************************)
LEMMA KeptRuns ==
    ASSUME NEW E, NEW s \in Seq(E), NEW drop
    PROVE  \E f : IsKeeping(f, s, drop) /\ Kept(s, drop) = f[Len(s)]
  <1> DEFINE kept == CHOOSE f : IsKeeping(f, s, drop)
  <1>1. Kept(s, drop) = kept[Len(s)]
    BY DEF Kept, IsKeeping
  <1>2. IsKeeping(kept, s, drop)
    BY KeepingRuns
  <1> QED
    BY <1>1, <1>2

\* Sequences of no, one and two elements.
LEMMA KeptOfNone ==
    ASSUME NEW drop
    PROVE  Kept(<< >>, drop) = << >>
  <1> DEFINE s == << >>
  <1>1. s \in Seq({}) /\ Len(s) = 0
    OBVIOUS
  <1> HIDE DEF s
  <1>2. PICK f : IsKeeping(f, s, drop) /\ Kept(s, drop) = f[Len(s)]
    BY <1>1, KeptRuns
  <1>3. f[0] = << >>
    BY <1>1, <1>2 DEF IsKeeping
  <1> QED
    BY <1>1, <1>2, <1>3 DEF s

LEMMA KeptOfOne ==
    ASSUME NEW x, NEW drop
    PROVE  Kept(<<x>>, drop) = IF x = drop THEN << >> ELSE <<x>>
  <1> DEFINE s == <<x>>
  <1>1. s \in Seq({x}) /\ Len(s) = 1 /\ s[1] = x
    OBVIOUS
  <1> HIDE DEF s
  <1>2. PICK f : IsKeeping(f, s, drop) /\ Kept(s, drop) = f[Len(s)]
    BY <1>1, KeptRuns
  <1>3. f[0] = << >> /\ f[1] = IF x = drop THEN f[0] ELSE Append(f[0], x)
    <2>1. 0 \in 0..1 /\ 1 \in 0..1 /\ 1 - 1 = 0
      OBVIOUS
    <2> QED
      BY <1>1, <1>2, <2>1 DEF IsKeeping
  <1>4. Append(<< >>, x) = <<x>>
    OBVIOUS
  <1> QED
    BY <1>1, <1>2, <1>3, <1>4 DEF s

LEMMA KeptOfTwo ==
    ASSUME NEW x, NEW y, NEW drop
    PROVE  Kept(<<x, y>>, drop) =
              IF y = drop THEN (IF x = drop THEN << >> ELSE <<x>>)
              ELSE (IF x = drop THEN <<y>> ELSE <<x, y>>)
  <1> DEFINE s == <<x, y>>
  <1>1. s \in Seq({x, y}) /\ Len(s) = 2 /\ s[1] = x /\ s[2] = y
    OBVIOUS
  <1> HIDE DEF s
  <1>2. PICK f : IsKeeping(f, s, drop) /\ Kept(s, drop) = f[Len(s)]
    BY <1>1, KeptRuns
  <1>3. /\ f[0] = << >>
        /\ f[1] = IF x = drop THEN f[0] ELSE Append(f[0], x)
        /\ f[2] = IF y = drop THEN f[1] ELSE Append(f[1], y)
    <2>1. 0 \in 0..2 /\ 1 \in 0..2 /\ 2 \in 0..2 /\ 1 - 1 = 0 /\ 2 - 1 = 1
      OBVIOUS
    <2> DEFINE G(k) == IF k = 0 THEN << >>
                       ELSE IF s[k] = drop THEN f[k - 1] ELSE Append(f[k - 1], s[k])
    <2>2. f = [k \in 0..2 |-> G(k)]
      BY <1>1, <1>2 DEF IsKeeping
    <2>3. G(0) = << >>
      OBVIOUS
    <2>4. G(1) = IF s[1] = drop THEN f[0] ELSE Append(f[0], s[1])
      BY <2>1
    <2>5. G(2) = IF s[2] = drop THEN f[1] ELSE Append(f[1], s[2])
      BY <2>1
    <2> HIDE DEF G
    <2>6. f[0] = G(0) /\ f[1] = G(1) /\ f[2] = G(2)
      BY <2>1, <2>2
    <2> QED
      BY <1>1, <2>3, <2>4, <2>5, <2>6
  <1>4. Append(<< >>, x) = <<x>> /\ Append(<< >>, y) = <<y>> /\ Append(<<x>>, y) = <<x, y>>
    <2>1. Append(<< >>, x) = <<x>>
      OBVIOUS
    <2>2. Append(<< >>, y) = <<y>>
      OBVIOUS
    <2>3. Append(<<x>>, y) = <<x, y>>
      <3> DEFINE E == {x, y}
                 u == <<x>>
                 v == Append(u, y)
                 w == <<x, y>>
      <3>1. u \in Seq(E) /\ Len(u) = 1 /\ u[1] = x /\ y \in E
        OBVIOUS
      <3>2. w \in Seq(E) /\ Len(w) = 2 /\ w[1] = x /\ w[2] = y
        OBVIOUS
      <3> HIDE DEF u, w, E
      <3>3. v \in Seq(E) /\ Len(v) = 2 /\ v[1] = x /\ v[2] = y
        <4>1. 1 + 1 = 2 /\ 1 \in 1..1
          OBVIOUS
        <4>0. u \in Seq(E) /\ y \in E
          BY <3>1
        <4>2. /\ v \in Seq(E) /\ Len(v) = Len(u) + 1 /\ v[Len(u) + 1] = y
              /\ \A i \in 1..Len(u) : v[i] = u[i]
          BY <4>0
        <4> HIDE DEF v
        <4> QED
          BY <3>1, <4>1, <4>2
      <3> HIDE DEF v
      <3>4. \A i \in 1..Len(v) : v[i] = w[i]
        BY <3>2, <3>3
      <3>5. v = w
        BY <3>2, <3>3, <3>4, SeqEqual
      <3> QED
        BY <3>5 DEF u, v, w
    <2> QED
      BY <2>1, <2>2, <2>3
  <1>5. CASE x = drop
    BY <1>1, <1>2, <1>3, <1>4, <1>5 DEF s
  <1>6. CASE x # drop
    BY <1>1, <1>2, <1>3, <1>4, <1>6 DEF s
  <1> QED
    BY <1>5, <1>6

\* The criteria of a cleaned objective.
Ruled == {<<r>> : r \in Rules} \cup {<<r1, r2>> : r1, r2 \in Rules}

LEMMA RuleIsNoPercentage == \A r \in Rules : r # Percentage
  BY DEF Rules, Percentage

LEMMA CriterionCleaned ==
    ASSUME NEW c \in Criteria
    PROVE  Kept(c, Percentage) \in {<< >>} \cup Ruled
  <1>1. ASSUME NEW r \in Rules \cup {Percentage}, c = <<r>>
        PROVE  Kept(c, Percentage) \in {<< >>} \cup Ruled
    BY <1>1, KeptOfOne DEF Ruled
  <1>2. ASSUME NEW r1 \in Rules \cup {Percentage}, NEW r2 \in Rules \cup {Percentage}, c = <<r1, r2>>
        PROVE  Kept(c, Percentage) \in {<< >>} \cup Ruled
    <2>0. Kept(c, Percentage) =
              IF r2 = Percentage THEN (IF r1 = Percentage THEN << >> ELSE <<r1>>)
              ELSE (IF r1 = Percentage THEN <<r2>> ELSE <<r1, r2>>)
      BY <1>2, KeptOfTwo
    <2>2. /\ r1 \in Rules => <<r1>> \in Ruled
          /\ r2 \in Rules => <<r2>> \in Ruled
          /\ r1 \in Rules /\ r2 \in Rules => <<r1, r2>> \in Ruled
      BY DEF Ruled
    <2>3. CASE r1 = Percentage /\ r2 = Percentage
      <3>1. Kept(c, Percentage) = << >>
        BY <2>0, <2>3
      <3> QED
        BY <3>1
    <2>4. CASE r1 = Percentage /\ r2 \in Rules
      <3>1. Kept(c, Percentage) = <<r2>>
        <4>1. r2 # Percentage
          BY <2>4, RuleIsNoPercentage
        <4> QED
          BY <2>0, <2>4, <4>1
      <3> QED
        BY <2>2, <2>4, <3>1
    <2>5. CASE r1 \in Rules /\ r2 = Percentage
      <3>1. Kept(c, Percentage) = <<r1>>
        BY <2>0, <2>5, RuleIsNoPercentage
      <3> QED
        BY <2>2, <2>5, <3>1
    <2>6. CASE r1 \in Rules /\ r2 \in Rules
      <3>1. Kept(c, Percentage) = <<r1, r2>>
        BY <2>0, <2>6, RuleIsNoPercentage
      <3> QED
        BY <2>2, <2>6, <3>1
    <2> QED
      BY <2>3, <2>4, <2>5, <2>6
  <1> QED
    BY <1>1, <1>2 DEF Criteria

LEMMA CleanedOfNone == CleanupCriteria(<< >>) = << >>
  <1>1. [i \in DOMAIN << >> |-> Kept(<< >>[i], Percentage)] = << >>
    OBVIOUS
  <1> QED
    BY <1>1, KeptOfNone DEF CleanupCriteria

LEMMA CleanedOfOne ==
    ASSUME NEW c \in Criteria
    PROVE  \/ CleanupCriteria(<<c>>) = << >>
           \/ \E d \in Ruled : CleanupCriteria(<<c>>) = <<d>>
  <1> DEFINE d == Kept(c, Percentage)
  <1>1. d \in {<< >>} \cup Ruled
    BY CriterionCleaned
  <1>2. [i \in DOMAIN <<c>> |-> Kept(<<c>>[i], Percentage)] = <<d>>
    OBVIOUS
  <1>3. CleanupCriteria(<<c>>) = Kept(<<d>>, << >>)
    BY <1>2 DEF CleanupCriteria
  <1> HIDE DEF d
  <1> QED
    BY <1>1, <1>3, KeptOfOne

LEMMA CleanedOfTwo ==
    ASSUME NEW r1 \in Rules, NEW r2 \in Rules
    PROVE  CleanupCriteria(<< <<r1>>, <<r2>> >>) = << <<r1>>, <<r2>> >>
  <1> DEFINE s == << <<r1>>, <<r2>> >>
  <1>1. Kept(<<r1>>, Percentage) = <<r1>> /\ Kept(<<r2>>, Percentage) = <<r2>>
    BY KeptOfOne, RuleIsNoPercentage
  <1>2. s = [i \in 1..2 |-> s[i]] /\ DOMAIN s = 1..2 /\ s[1] = <<r1>> /\ s[2] = <<r2>>
    OBVIOUS
  <1>3. [i \in DOMAIN s |-> Kept(s[i], Percentage)] = s
    <2> HIDE DEF s
    <2>1. \A i \in 1..2 : Kept(s[i], Percentage) = s[i]
      BY <1>1, <1>2
    <2> QED
      BY <1>2, <2>1
  <1>4. CleanupCriteria(s) = Kept(s, << >>)
    <2> HIDE DEF s
    <2> QED
      BY <1>3 DEF CleanupCriteria
  <1>5. <<r1>> # << >> /\ <<r2>> # << >>
    OBVIOUS
  <1> QED
    BY <1>4, <1>5, KeptOfTwo

-----------------------------------------------------------------------------
\* What the rules of a criterion say of a value.
AllHold(val, c) == \A j \in DOMAIN c : Holds(val, c[j])

LEMMA RuleType == \A r \in Rules : r.val \in Int /\ r.val \in Numbers /\ r.op \in {"<=", "<", ">=", ">"}
  BY DecimalAssumption DEF Rules

LEMMA MetOfNone == \A val : ~Met(val, << >>)
  BY DEF Met

LEMMA MetOfOne ==
    ASSUME NEW val, NEW c
    PROVE  Met(val, <<c>>) <=> AllHold(val, c)
  BY DEF Met, AllHold

LEMMA HoldOfOne ==
    ASSUME NEW val, NEW r
    PROVE  AllHold(val, <<r>>) <=> Holds(val, r)
  BY DEF AllHold

LEMMA HoldOfTwo ==
    ASSUME NEW val, NEW r1, NEW r2
    PROVE  AllHold(val, <<r1, r2>>) <=> Holds(val, r1) /\ Holds(val, r2)
  <1>1. DOMAIN <<r1, r2>> = {1, 2} /\ <<r1, r2>>[1] = r1 /\ <<r1, r2>>[2] = r2
    OBVIOUS
  <1> QED
    BY <1>1 DEF AllHold

LEMMA MetOfTwo ==
    ASSUME NEW val, NEW r1, NEW r2
    PROVE  Met(val, << <<r1>>, <<r2>> >>) <=> Holds(val, r1) \/ Holds(val, r2)
  <1> DEFINE s == << <<r1>>, <<r2>> >>
  <1>1. DOMAIN s = {1, 2} /\ s[1] = <<r1>> /\ s[2] = <<r2>>
    OBVIOUS
  <1> HIDE DEF s
  <1>2. Met(val, s) <=> AllHold(val, s[1]) \/ AllHold(val, s[2])
    BY <1>1 DEF Met, AllHold
  <1> QED
    BY <1>1, <1>2, HoldOfOne DEF s

\* A negated rule.
LEMMA NegatedRule ==
    ASSUME NEW r \in Rules, NEW val \in Int
    PROVE  Fulfilled(val, NegateSingleOperator(r)) <=> ~Holds(val, r)
  <1> DEFINE o == NegateSingleOperator(r)
  <1>1. r.val \in Int /\ o.low = r.val
    BY RuleType DEF NegateSingleOperator
  <1>2. CASE r.op = "<="
    <2>1. o.op = "greaterThan"
      BY <1>2 DEF NegateSingleOperator
    <2> QED
      BY <1>1, <1>2, <2>1 DEF Fulfilled, Holds
  <1>3. CASE r.op = "<"
    <2>1. o.op = "greaterThanOrEqual"
      BY <1>3 DEF NegateSingleOperator
    <2> QED
      BY <1>1, <1>3, <2>1 DEF Fulfilled, Holds
  <1>4. CASE r.op = ">="
    <2>1. o.op = "lessThan"
      BY <1>4 DEF NegateSingleOperator
    <2> QED
      BY <1>1, <1>4, <2>1 DEF Fulfilled, Holds
  <1>5. CASE r.op = ">"
    <2>1. o.op = "lessThanOrEqual"
      BY <1>5 DEF NegateSingleOperator
    <2> QED
      BY <1>1, <1>5, <2>1 DEF Fulfilled, Holds
  <1> QED
    BY <1>2, <1>3, <1>4, <1>5, RuleType

\* What two rules bound: what lies between them, if they look at each other, or
\* what lies outside.
Facing(r1, r2) == IsGreaterOrEqual(Smaller(r1, r2).op) /\ IsLessOrEqual(Bigger(r1, r2).op)

Averted(r1, r2) == IsLessOrEqual(Smaller(r1, r2).op) /\ IsGreaterOrEqual(Bigger(r1, r2).op)

LEMMA Bounds ==
    ASSUME NEW r1 \in Rules, NEW r2 \in Rules
    PROVE  /\ Smaller(r1, r2) \in Rules /\ Bigger(r1, r2) \in Rules
           /\ Smaller(r1, r2).val <= Bigger(r1, r2).val
           /\ \A val : Holds(val, r1) /\ Holds(val, r2) <=>
                         Holds(val, Smaller(r1, r2)) /\ Holds(val, Bigger(r1, r2))
           /\ \A val : Holds(val, r1) \/ Holds(val, r2) <=>
                         Holds(val, Smaller(r1, r2)) \/ Holds(val, Bigger(r1, r2))
  <1>1. r1.val \in Int /\ r2.val \in Int
    BY RuleType
  <1>2. CASE r1.val < r2.val
    <2>1. Smaller(r1, r2) = r1 /\ Bigger(r1, r2) = r2
      BY <1>2 DEF Smaller, Bigger
    <2> QED
      BY <1>1, <1>2, <2>1
  <1>3. CASE ~(r1.val < r2.val)
    <2>1. Smaller(r1, r2) = r2 /\ Bigger(r1, r2) = r1
      BY <1>3 DEF Smaller, Bigger
    <2> QED
      BY <1>1, <1>3, <2>1
  <1> QED
    BY <1>2, <1>3

LEMMA RangeOperators ==
    ASSUME NEW r1 \in Rules, NEW r2 \in Rules
    PROVE  LET low  == Smaller(r1, r2).val
               high == Bigger(r1, r2).val
           IN  /\ Facing(r1, r2) =>
                    /\ CreateDoubleOperator(r1, r2) = [op |-> "inRange", low |-> low, high |-> high]
                    /\ NegateDoubleOperator(r1, r2) = [op |-> "notInRange", low |-> low, high |-> high]
               /\ Averted(r1, r2) =>
                    /\ CreateDoubleOperator(r1, r2) = [op |-> "notInRange", low |-> low, high |-> high]
                    /\ NegateDoubleOperator(r1, r2) = [op |-> "inRange", low |-> low, high |-> high]
               /\ ~Facing(r1, r2) /\ ~Averted(r1, r2) =>
                    /\ CreateDoubleOperator(r1, r2) = BadOperator
                    /\ NegateDoubleOperator(r1, r2) = BadOperator
  <1> DEFINE low == Smaller(r1, r2).val
             high == Bigger(r1, r2).val
             c == CreateDoubleOperator(r1, r2)
             n == NegateDoubleOperator(r1, r2)
  <1>1. CASE Facing(r1, r2)
    <2>1. ~Averted(r1, r2)
      BY <1>1 DEF Facing, Averted, IsGreaterOrEqual, IsLessOrEqual
    <2>2. c = [op |-> "inRange", low |-> low, high |-> high]
      BY <1>1, <2>1 DEF CreateDoubleOperator, Facing, Averted
    <2> HIDE DEF low, high, c
    <2>3. n = [op |-> "notInRange", low |-> low, high |-> high]
      BY <2>2 DEF NegateDoubleOperator, c
    <2> QED
      BY <1>1, <2>1, <2>2, <2>3 DEF low, high, c
  <1>2. CASE Averted(r1, r2)
    <2>1. ~Facing(r1, r2)
      BY <1>2 DEF Facing, Averted, IsGreaterOrEqual, IsLessOrEqual
    <2>2. c = [op |-> "notInRange", low |-> low, high |-> high]
      BY <1>2, <2>1 DEF CreateDoubleOperator, Facing, Averted
    <2> HIDE DEF low, high, c
    <2>3. n = [op |-> "inRange", low |-> low, high |-> high]
      BY <2>2 DEF NegateDoubleOperator, c
    <2> QED
      BY <1>2, <2>1, <2>2, <2>3 DEF low, high, c
  <1>3. CASE ~Facing(r1, r2) /\ ~Averted(r1, r2)
    <2>1. c = BadOperator
      BY <1>3 DEF CreateDoubleOperator, Facing, Averted
    <2> HIDE DEF c
    <2>2. n = BadOperator
      BY <2>1 DEF NegateDoubleOperator, BadOperator, c
    <2> QED
      BY <1>3, <2>1, <2>2 DEF c
  <1> QED
    BY <1>1, <1>2, <1>3

LEMMA BoundRule ==
    ASSUME NEW r \in Rules, NEW val \in Int
    PROVE  /\ IsGreaterOrEqual(r.op) /\ Holds(val, r) => r.val <= val
           /\ IsGreaterOrEqual(r.op) /\ r.val < val => Holds(val, r)
           /\ IsLessOrEqual(r.op) /\ Holds(val, r) => val <= r.val
           /\ IsLessOrEqual(r.op) /\ val < r.val => Holds(val, r)
  <1>1. r.val \in Int /\ r.op \in {"<=", "<", ">=", ">"}
    BY RuleType
  <1>2. CASE r.op = "<="
    BY <1>1, <1>2 DEF Holds, IsGreaterOrEqual, IsLessOrEqual
  <1>3. CASE r.op = "<"
    BY <1>1, <1>3 DEF Holds, IsGreaterOrEqual, IsLessOrEqual
  <1>4. CASE r.op = ">="
    BY <1>1, <1>4 DEF Holds, IsGreaterOrEqual, IsLessOrEqual
  <1>5. CASE r.op = ">"
    BY <1>1, <1>5 DEF Holds, IsGreaterOrEqual, IsLessOrEqual
  <1> QED
    BY <1>1, <1>2, <1>3, <1>4, <1>5

\* Between facing rules both hold, outside of averted rules one does.
LEMMA FacingRules ==
    ASSUME NEW r1 \in Rules, NEW r2 \in Rules, Facing(r1, r2), NEW val \in Int
    PROVE  /\ Smaller(r1, r2).val < val /\ val < Bigger(r1, r2).val => Holds(val, r1) /\ Holds(val, r2)
           /\ Holds(val, r1) /\ Holds(val, r2) => Smaller(r1, r2).val <= val /\ val <= Bigger(r1, r2).val
  <1> DEFINE s == Smaller(r1, r2)
             b == Bigger(r1, r2)
  <1>1. s \in Rules /\ b \in Rules /\ (Holds(val, r1) /\ Holds(val, r2) <=> Holds(val, s) /\ Holds(val, b))
    BY Bounds
  <1>2. IsGreaterOrEqual(s.op) /\ IsLessOrEqual(b.op)
    BY DEF Facing
  <1> HIDE DEF s, b
  <1>3. (s.val < val => Holds(val, s)) /\ (Holds(val, s) => s.val <= val)
    BY <1>1, <1>2, BoundRule
  <1>4. (val < b.val => Holds(val, b)) /\ (Holds(val, b) => val <= b.val)
    BY <1>1, <1>2, BoundRule
  <1> QED
    BY <1>1, <1>3, <1>4 DEF s, b

LEMMA AvertedRules ==
    ASSUME NEW r1 \in Rules, NEW r2 \in Rules, Averted(r1, r2), NEW val \in Int
    PROVE  /\ val < Smaller(r1, r2).val \/ Bigger(r1, r2).val < val => Holds(val, r1) \/ Holds(val, r2)
           /\ Smaller(r1, r2).val < Bigger(r1, r2).val => ~(Holds(val, r1) /\ Holds(val, r2))
  <1> DEFINE s == Smaller(r1, r2)
             b == Bigger(r1, r2)
  <1>1. /\ s \in Rules /\ b \in Rules
        /\ Holds(val, r1) /\ Holds(val, r2) <=> Holds(val, s) /\ Holds(val, b)
        /\ Holds(val, r1) \/ Holds(val, r2) <=> Holds(val, s) \/ Holds(val, b)
    BY Bounds
  <1>2. IsLessOrEqual(s.op) /\ IsGreaterOrEqual(b.op)
    BY DEF Averted
  <1> HIDE DEF s, b
  <1>3. (val < s.val => Holds(val, s)) /\ (Holds(val, s) => val <= s.val)
    BY <1>1, <1>2, BoundRule
  <1>4. (b.val < val => Holds(val, b)) /\ (Holds(val, b) => b.val <= val)
    BY <1>1, <1>2, BoundRule
  <1>5. s.val \in Int /\ b.val \in Int
    BY <1>1, RuleType
  <1>6. s.val < b.val => ~(Holds(val, s) /\ Holds(val, b))
    BY <1>3, <1>4, <1>5
  <1> QED
    BY <1>1, <1>3, <1>4, <1>6 DEF s, b

LEMMA NewOperatorFacts ==
    ASSUME NEW r1, NEW r2
    PROVE  /\ NewOperator(<<r1>>, TRUE) = NegateSingleOperator(r1)
           /\ NewOperator(<<r1, r2>>, TRUE) = NegateDoubleOperator(r1, r2)
  <1>1. Len(<<r1>>) = 1 /\ <<r1>>[1] = r1
    OBVIOUS
  <1>2. Len(<<r1, r2>>) = 2 /\ <<r1, r2>>[1] = r1 /\ <<r1, r2>>[2] = r2 /\ 2 > 1 /\ 2 # 1
    OBVIOUS
  <1>3. NewOperator(<<r1>>, TRUE) = NegateSingleOperator(r1)
    BY <1>1 DEF NewOperator
  <1>4. NewOperator(<<r1, r2>>, TRUE) = NegateDoubleOperator(r1, r2)
    BY <1>2 DEF NewOperator
  <1> QED
    BY <1>3, <1>4

\* A value that is no bound of an operator.
Off(val, o) == ~(o.op \in {"inRange", "notInRange"} /\ val \in {o.low, o.high})

\* The operators of a target that the validating webhook accepts.
Acceptable(o) == o \in Operators \cup {NoOperator}

LEMMA AcceptableRange ==
    ASSUME NEW o, Acceptable(o), o.op \in {"inRange", "notInRange"}
    PROVE  o.low < o.high
  BY DEF Acceptable, Operators, NoOperator

\* The negation of a criterion of one rule, or of two that face each other, is exact.
LEMMA NegatedCriterion ==
    ASSUME NEW c \in Ruled, Acceptable(NewOperator(c, TRUE)),
           \A r1, r2 \in Rules : c = <<r1, r2>> => Facing(r1, r2),
           NEW val \in Int, Off(val, NewOperator(c, TRUE))
    PROVE  Fulfilled(val, NewOperator(c, TRUE)) <=> ~AllHold(val, c)
  <1>1. ASSUME NEW r \in Rules, c = <<r>>
        PROVE  Fulfilled(val, NewOperator(c, TRUE)) <=> ~AllHold(val, c)
    <2>1. NewOperator(c, TRUE) = NegateSingleOperator(r)
      BY <1>1, NewOperatorFacts
    <2>2. AllHold(val, c) <=> Holds(val, r)
      BY <1>1, HoldOfOne
    <2>3. Fulfilled(val, NegateSingleOperator(r)) <=> ~Holds(val, r)
      BY NegatedRule
    <2> QED
      BY <2>1, <2>2, <2>3
  <1>2. ASSUME NEW r1 \in Rules, NEW r2 \in Rules, c = <<r1, r2>>
        PROVE  Fulfilled(val, NewOperator(c, TRUE)) <=> ~AllHold(val, c)
    <2> DEFINE o == NewOperator(c, TRUE)
               low == Smaller(r1, r2).val
               high == Bigger(r1, r2).val
    <2>1. Facing(r1, r2)
      BY <1>2
    <2>2. o = [op |-> "notInRange", low |-> low, high |-> high]
      <3>1. o = NegateDoubleOperator(r1, r2)
        BY <1>2, NewOperatorFacts
      <3>2. NegateDoubleOperator(r1, r2) = [op |-> "notInRange", low |-> low, high |-> high]
        BY <2>1, RangeOperators
      <3> HIDE DEF o, low, high
      <3> QED
        BY <3>1, <3>2
    <2>3. AllHold(val, c) <=> Holds(val, r1) /\ Holds(val, r2)
      BY <1>2, HoldOfTwo
    <2>4. /\ low < val /\ val < high => Holds(val, r1) /\ Holds(val, r2)
          /\ Holds(val, r1) /\ Holds(val, r2) => low <= val /\ val <= high
      BY <2>1, FacingRules
    <2>5. low \in Int /\ high \in Int
      BY Bounds, RuleType
    <2>6. Off(val, o)
      OBVIOUS
    <2> HIDE DEF low, high, o
    <2>7. val # low /\ val # high
      BY <2>2, <2>6 DEF Off
    <2>8. Fulfilled(val, o) <=> val < low \/ val > high
      BY <2>2 DEF Fulfilled
    <2>9. Fulfilled(val, o) <=> ~(Holds(val, r1) /\ Holds(val, r2))
      BY <2>4, <2>5, <2>7, <2>8
    <2> QED
      BY <2>3, <2>9 DEF o
  <1>3. (\E r \in Rules : c = <<r>>) \/ (\E r1, r2 \in Rules : c = <<r1, r2>>)
    BY DEF Ruled
  <1> QED
    BY <1>1, <1>2, <1>3

-----------------------------------------------------------------------------
\* What MigratedVerdict says of an objective and its target.
JudgedAlike(o, t, val) ==
    /\ Rank(TargetResult(val, t)) <= Rank(OriginalResult(val, o))
    /\ Len(o.pass) = 1 /\ (o.warning = << >> \/ WarningContainsPass(o)) =>
          TargetResult(val, t) = OriginalResult(val, o)

Judged(o, t) == \A val \in MeasuredValues : ~OnBound(val, t) => JudgedAlike(o, t, val)

LEMMA Ranks == Rank("fail") = 0 /\ Rank("warning") = 1 /\ Rank("pass") = 2
  BY DEF Rank

LEMMA NotFulfilled == \A val : ~Fulfilled(val, NoOperator)
  BY DEF Fulfilled, NoOperator

IsMadeOf(t, failure, warning) ==
    /\ t.failure = failure /\ t.warning = warning
    /\ Acceptable(failure) /\ Acceptable(warning)
    /\ \A val : ~OnBound(val, t) => Off(val, failure) /\ Off(val, warning)

LEMMA TargetFacts ==
    ASSUME NEW failure, NEW warning, NEW x, x = TargetOf(failure, warning), ~x.err,
           x.target \in Targets
    PROVE  IsMadeOf(x.target, failure, warning)
  <1>1. x = Converted(failure, warning)
    BY DEF TargetOf, Failed
  <1>2. x.target = [failure |-> failure, warning |-> warning]
    BY <1>1 DEF Converted
  <1>3. x.target.failure = failure /\ x.target.warning = warning
    BY <1>2
  <1>4. Acceptable(failure) /\ Acceptable(warning)
    BY <1>3 DEF Targets, Acceptable
  <1>5. \A val : ~OnBound(val, x.target) => Off(val, failure) /\ Off(val, warning)
    BY <1>3 DEF OnBound, Off
  <1> QED
    BY <1>3, <1>4, <1>5 DEF IsMadeOf

\* One pass criterion and no warning.
LEMMA OnePass ==
    ASSUME NEW c \in Ruled, NEW o, o = [pass |-> <<c>>, warning |-> << >>],
           NEW x, x = SetupTarget(o), ~x.err, x.target \in Targets, Meaningful(o.pass)
    PROVE  Judged(o, x.target)
  <1> DEFINE f == NewOperator(c, TRUE)
             t == x.target
  <1>1. o.pass = <<c>> /\ o.warning = << >> /\ Len(o.pass) = 1 /\ o.pass # << >> /\ o.pass[1] = c
        /\ Len(o.warning) = 0
    OBVIOUS
  <1>2. x = TargetOf(f, NoOperator)
    <2>1. ~HasNotSupportedCriteria(o) /\ ~(Len(o.pass) > 1)
      BY <1>1 DEF HasNotSupportedCriteria
    <2> QED
      BY <1>1, <2>1 DEF SetupTarget
  <1> HIDE DEF f
  <1>3. /\ t.failure = f /\ t.warning = NoOperator /\ Acceptable(f)
        /\ \A val : ~OnBound(val, t) => Off(val, f)
    <2>1. IsMadeOf(x.target, f, NoOperator)
      BY <1>2, TargetFacts
    <2> QED
      BY <2>1 DEF IsMadeOf
  <1>4. ASSUME NEW r1 \in Rules, NEW r2 \in Rules, c = <<r1, r2>> PROVE Facing(r1, r2)
    <2> DEFINE low == Smaller(r1, r2).val
               high == Bigger(r1, r2).val
    <2>1. f = NegateDoubleOperator(r1, r2)
      BY <1>4, NewOperatorFacts DEF f
    <2>2. CASE Averted(r1, r2)
      <3>1. f = [op |-> "inRange", low |-> low, high |-> high]
        BY <2>1, <2>2, RangeOperators
      <3>2. low < high
        BY <1>3, <3>1, AcceptableRange
      <3>3. PICK val \in MeasuredValues : Met(val, o.pass)
        BY DEF Meaningful
      <3>4. val \in Int
        BY DecimalAssumption
      <3>5. Holds(val, r1) /\ Holds(val, r2)
        BY <1>1, <1>4, <3>3, MetOfOne, HoldOfTwo
      <3> QED
        BY <2>2, <3>2, <3>4, <3>5, AvertedRules
    <2>3. CASE ~Facing(r1, r2) /\ ~Averted(r1, r2)
      <3>1. f = BadOperator
        BY <2>1, <2>3, RangeOperators
      <3> QED
        BY <1>3, <3>1 DEF Acceptable, Operators, NoOperator, BadOperator
    <2> QED
      BY <2>2, <2>3
  <1>5. ASSUME NEW val \in MeasuredValues, ~OnBound(val, t)
        PROVE  TargetResult(val, t) = OriginalResult(val, o)
    <2>1. val \in Int /\ Off(val, f)
      BY <1>3, <1>5, DecimalAssumption
    <2>2. Fulfilled(val, f) <=> ~AllHold(val, c)
      BY <1>3, <1>4, <2>1, NegatedCriterion DEF f
    <2>3. Met(val, o.pass) <=> AllHold(val, c)
      BY <1>1, MetOfOne
    <2>4. ~Met(val, o.warning)
      BY <1>1, MetOfNone
    <2> QED
      BY <1>3, <2>2, <2>3, <2>4, NotFulfilled DEF TargetResult, OriginalResult
  <1>6. ASSUME NEW val \in MeasuredValues PROVE Rank(OriginalResult(val, o)) \in Int
    BY Ranks DEF OriginalResult
  <1> QED
    BY <1>5, <1>6 DEF Judged, JudgedAlike

\* Two pass criteria of a rule each and no warning.
LEMMA TwoPass ==
    ASSUME NEW r1 \in Rules, NEW r2 \in Rules,
           NEW o, o = [pass |-> << <<r1>>, <<r2>> >>, warning |-> << >>],
           NEW x, x = SetupTarget(o), ~x.err, x.target \in Targets
    PROVE  Judged(o, x.target)
  <1> DEFINE f == NegateDoubleOperator(r1, r2)
             t == x.target
             low == Smaller(r1, r2).val
             high == Bigger(r1, r2).val
  <1>1. /\ o.pass = << <<r1>>, <<r2>> >> /\ o.warning = << >> /\ Len(o.pass) = 2 /\ o.pass # << >>
        /\ o.pass[1][1] = r1 /\ o.pass[2][1] = r2 /\ Len(o.warning) = 0
    OBVIOUS
  <1>2. x = TargetOf(f, NoOperator)
    <2>1. ~HasNotSupportedCriteria(o) /\ Len(o.pass) > 1
      BY <1>1 DEF HasNotSupportedCriteria
    <2>2. x = TargetOf(NewOperator(<<r1, r2>>, TRUE), NoOperator)
      BY <1>1, <2>1 DEF SetupTarget
    <2> QED
      BY <2>2, NewOperatorFacts
  <1> HIDE DEF f
  <1>3. /\ t.failure = f /\ t.warning = NoOperator /\ Acceptable(f)
        /\ \A val : ~OnBound(val, t) => Off(val, f)
    <2>1. IsMadeOf(x.target, f, NoOperator)
      BY <1>2, TargetFacts
    <2> QED
      BY <2>1 DEF IsMadeOf
  <1>4. low \in Int /\ high \in Int
    BY Bounds, RuleType
  <1>5. ASSUME NEW val \in MeasuredValues, ~OnBound(val, t), ~Fulfilled(val, f)
        PROVE  Holds(val, r1) \/ Holds(val, r2)
    <2>1. val \in Int /\ Off(val, f)
      BY <1>3, <1>5, DecimalAssumption
    <2>2. CASE Facing(r1, r2)
      <3>1. f = [op |-> "notInRange", low |-> low, high |-> high]
        BY <2>2, RangeOperators DEF f
      <3>2. low < val /\ val < high => Holds(val, r1) /\ Holds(val, r2)
        BY <2>1, <2>2, FacingRules
      <3> HIDE DEF low, high
      <3>3. val # low /\ val # high /\ ~(val < low) /\ ~(val > high)
        BY <1>5, <2>1, <3>1 DEF Off, Fulfilled
      <3> QED
        BY <1>4, <2>1, <3>2, <3>3
    <2>3. CASE Averted(r1, r2)
      <3>1. f = [op |-> "inRange", low |-> low, high |-> high]
        BY <2>3, RangeOperators DEF f
      <3>2. val < low \/ high < val => Holds(val, r1) \/ Holds(val, r2)
        BY <2>1, <2>3, AvertedRules
      <3> HIDE DEF low, high
      <3>3. ~(val >= low /\ val <= high)
        BY <1>5, <3>1 DEF Fulfilled
      <3> QED
        BY <1>4, <2>1, <3>2, <3>3
    <2>4. CASE ~Facing(r1, r2) /\ ~Averted(r1, r2)
      <3>1. f = BadOperator
        BY <2>4, RangeOperators DEF f
      <3> QED
        BY <1>3, <3>1 DEF Acceptable, Operators, NoOperator, BadOperator
    <2> QED
      BY <2>2, <2>3, <2>4
  <1>6. ASSUME NEW val \in MeasuredValues, ~OnBound(val, t)
        PROVE  JudgedAlike(o, t, val)
    <2>1. Len(o.pass) # 1
      BY <1>1
    <2>2. Met(val, o.pass) <=> Holds(val, r1) \/ Holds(val, r2)
      BY <1>1, MetOfTwo
    <2>3. CASE Fulfilled(val, f)
      <3>1. TargetResult(val, t) = "fail"
        BY <1>3, <2>3 DEF TargetResult
      <3>2. OriginalResult(val, o) \in {"pass", "warning", "fail"}
        BY DEF OriginalResult
      <3> QED
        BY <2>1, <3>1, <3>2, Ranks DEF JudgedAlike
    <2>4. CASE ~Fulfilled(val, f)
      <3>1. TargetResult(val, t) = "pass"
        BY <1>3, <2>4, NotFulfilled DEF TargetResult
      <3>2. OriginalResult(val, o) = "pass"
        BY <1>5, <1>6, <2>2, <2>4 DEF OriginalResult
      <3> QED
        BY <2>1, <3>1, <3>2, Ranks DEF JudgedAlike
    <2> QED
      BY <2>3, <2>4
  <1> QED
    BY <1>6 DEF Judged

LEMMA BeyondNumbers == \A n \in Numbers : n \in Int /\ Below \in Int /\ Above \in Int /\ Below < n /\ n < Above
  <1>1. Numbers \subseteq Int
    BY DecimalAssumption
  <1>2. PICK least \in Numbers, greatest \in Numbers : \A n \in Numbers : least <= n /\ n <= greatest
    BY DecimalAssumption
  <1>3. Min(Numbers) \in Numbers /\ \A n \in Numbers : Min(Numbers) <= n
    <2>1. \E a \in Numbers : \A n \in Numbers : a <= n
      BY <1>2
    <2> QED
      BY <2>1 DEF Min
  <1>4. Max(Numbers) \in Numbers /\ \A n \in Numbers : Max(Numbers) >= n
    <2>1. \E a \in Numbers : \A n \in Numbers : a >= n
      BY <1>1, <1>2
    <2> QED
      BY <2>1 DEF Max
  <1> DEFINE m == Min(Numbers)
             g == Max(Numbers)
  <1>5. /\ m \in Int /\ g \in Int /\ Below = m - 1 /\ Above = g + 1
        /\ \A n \in Numbers : n \in Int /\ m <= n /\ n <= g
    <2>1. m \in Int /\ g \in Int /\ \A n \in Numbers : n \in Int /\ m <= n /\ g >= n
      BY <1>1, <1>3, <1>4
    <2> HIDE DEF m, g
    <2>2. \A n \in Numbers : n <= g
      BY <2>1
    <2>3. Below = m - 1 /\ Above = g + 1
      BY DEF Below, Above, m, g
    <2> QED
      BY <2>1, <2>2, <2>3
  <1> HIDE DEF m, g
  <1> QED
    BY <1>5

LEMMA IntervalOfOne ==
    ASSUME NEW r \in Rules
    PROVE  /\ IsGreaterOrEqual(r.op) \/ IsLessOrEqual(r.op)
           /\ IsGreaterOrEqual(r.op) => CreateInterval(<<r>>) = [start |-> r.val, end |-> Above]
           /\ ~IsGreaterOrEqual(r.op) => CreateInterval(<<r>>) = [start |-> Below, end |-> r.val]
  <1>1. Len(<<r>>) = 1 /\ <<r>>[1] = r
    OBVIOUS
  <1>2. IsGreaterOrEqual(r.op) \/ IsLessOrEqual(r.op)
    BY RuleType DEF IsGreaterOrEqual, IsLessOrEqual
  <1> QED
    BY <1>1, <1>2 DEF CreateInterval

LEMMA IntervalOfTwo ==
    ASSUME NEW r1 \in Rules, NEW r2 \in Rules, CreateInterval(<<r1, r2>>) # BadInterval
    PROVE  /\ Facing(r1, r2)
           /\ CreateInterval(<<r1, r2>>) = [start |-> Smaller(r1, r2).val, end |-> Bigger(r1, r2).val]
  <1>1. Len(<<r1, r2>>) # 1 /\ <<r1, r2>>[1] = r1 /\ <<r1, r2>>[2] = r2
    OBVIOUS
  <1> QED
    BY <1>1 DEF CreateInterval, Facing

\* If the interval of the pass criterion is the larger one, some value passes and
\* gets no warning.
LEMMA Gap ==
    ASSUME NEW p \in Ruled, NEW w \in Ruled,
           CreateInterval(p) # BadInterval, CreateInterval(w) # BadInterval,
           ~(Len(p) = 1 /\ Len(w) = 1), IsSuperInterval(p, w), ~IsSuperInterval(w, p)
    PROVE  \E val \in MeasuredValues : AllHold(val, p) /\ ~AllHold(val, w)
  <1> DEFINE a == CreateInterval(p)
             b == CreateInterval(w)
  <1>1. a.start <= b.start /\ a.end >= b.end /\ ~(b.start <= a.start /\ b.end >= a.end)
    BY DEF IsSuperInterval
  <1> HIDE DEF a, b
  <1>2. PICK bottom \in MeasuredValues, top \in MeasuredValues : \A n \in Numbers : bottom < n /\ n < top
    BY DecimalAssumption
  <1>3. bottom \in Int /\ top \in Int
    BY DecimalAssumption
  <1>4. ASSUME NEW r \in Rules, p = <<r>>, NEW r1 \in Rules, NEW r2 \in Rules, w = <<r1, r2>>
        PROVE  \E val \in MeasuredValues : AllHold(val, p) /\ ~AllHold(val, w)
    <2> DEFINE low == Smaller(r1, r2).val
               high == Bigger(r1, r2).val
    <2>1. Facing(r1, r2)
      BY <1>4, IntervalOfTwo
    <2>2. low \in Numbers /\ high \in Numbers /\ r.val \in Numbers /\ low \in Int /\ high \in Int /\ r.val \in Int
      BY Bounds, RuleType
    <2>3. \A val : (AllHold(val, p) <=> Holds(val, r)) /\ (AllHold(val, w) <=> Holds(val, r1) /\ Holds(val, r2))
      BY <1>4, HoldOfOne, HoldOfTwo
    <2>4. CASE IsGreaterOrEqual(r.op)
      <3>1. r.val < top /\ high < top
        BY <1>2, <2>2
      <3>2. Holds(top, r)
        BY <1>3, <2>4, <3>1, BoundRule
      <3>3. Holds(top, r1) /\ Holds(top, r2) => top <= high
        BY <1>3, <2>1, FacingRules
      <3>4. ~(top <= high)
        BY <1>3, <2>2, <3>1
      <3> QED
        BY <2>3, <3>2, <3>3, <3>4
    <2>5. CASE IsLessOrEqual(r.op)
      <3>1. bottom < r.val /\ bottom < low
        BY <1>2, <2>2
      <3>2. Holds(bottom, r)
        BY <1>3, <2>5, <3>1, BoundRule
      <3>3. Holds(bottom, r1) /\ Holds(bottom, r2) => low <= bottom
        BY <1>3, <2>1, FacingRules
      <3>4. ~(low <= bottom)
        BY <1>3, <2>2, <3>1
      <3> QED
        BY <2>3, <3>2, <3>3, <3>4
    <2> QED
      BY <2>4, <2>5, IntervalOfOne
  <1>5. ASSUME NEW r1 \in Rules, NEW r2 \in Rules, p = <<r1, r2>>, NEW r \in Rules, w = <<r>>
        PROVE  FALSE
    <2> DEFINE low == Smaller(r1, r2).val
               high == Bigger(r1, r2).val
    <2>1. a = [start |-> low, end |-> high]
      BY <1>5, IntervalOfTwo DEF a
    <2>2. low \in Numbers /\ high \in Numbers
      BY Bounds, RuleType
    <2>3. Below < low /\ high < Above /\ Below \in Int /\ Above \in Int /\ low \in Int /\ high \in Int
      BY <2>2, BeyondNumbers
    <2>4. b.end = Above \/ b.start = Below
      <3>1. b = [start |-> r.val, end |-> Above] \/ b = [start |-> Below, end |-> r.val]
        BY <1>5, IntervalOfOne DEF b
      <3> QED
        BY <3>1
    <2> HIDE DEF low, high
    <2>5. low <= b.start /\ high >= b.end
      BY <1>1, <2>1
    <2> QED
      BY <2>3, <2>4, <2>5
  <1>6. ASSUME NEW r1 \in Rules, NEW r2 \in Rules, p = <<r1, r2>>,
               NEW q1 \in Rules, NEW q2 \in Rules, w = <<q1, q2>>
        PROVE  \E val \in MeasuredValues : AllHold(val, p) /\ ~AllHold(val, w)
    <2> DEFINE low == Smaller(r1, r2).val
               high == Bigger(r1, r2).val
               from == Smaller(q1, q2).val
               to == Bigger(q1, q2).val
    <2>1. a = [start |-> low, end |-> high] /\ Facing(r1, r2)
      BY <1>6, IntervalOfTwo DEF a
    <2>2. b = [start |-> from, end |-> to] /\ Facing(q1, q2)
      BY <1>6, IntervalOfTwo DEF b
    <2>3. low \in Numbers /\ high \in Numbers /\ from \in Numbers /\ to \in Numbers /\ from <= to
      BY Bounds, RuleType
    <2>4. low \in Int /\ high \in Int /\ from \in Int /\ to \in Int
      BY <2>3, BeyondNumbers
    <2>5. \A val \in Int : low < val /\ val < high => AllHold(val, p)
      BY <1>6, <2>1, FacingRules, HoldOfTwo
    <2>6. \A val \in Int : AllHold(val, w) => from <= val /\ val <= to
      BY <1>6, <2>2, FacingRules, HoldOfTwo
    <2> HIDE DEF low, high, from, to
    <2>7. low <= from /\ high >= to /\ (low < from \/ to < high)
      BY <1>1, <2>1, <2>2, <2>4
    <2>8. CASE low < from
      <3>1. PICK val \in MeasuredValues : low < val /\ val < from
        BY <2>3, <2>8, DecimalAssumption
      <3>2. val \in Int
        BY DecimalAssumption
      <3>3. low < val /\ val < high /\ ~(from <= val)
        BY <2>3, <2>4, <2>7, <3>1, <3>2
      <3> QED
        BY <2>5, <2>6, <3>2, <3>3
    <2>9. CASE to < high
      <3>1. PICK val \in MeasuredValues : to < val /\ val < high
        BY <2>3, <2>9, DecimalAssumption
      <3>2. val \in Int
        BY DecimalAssumption
      <3>3. low < val /\ val < high /\ ~(val <= to)
        BY <2>3, <2>4, <2>7, <3>1, <3>2
      <3> QED
        BY <2>5, <2>6, <3>2, <3>3
    <2> QED
      BY <2>7, <2>8, <2>9
  <1>7. \A c \in Ruled : (\E r \in Rules : c = <<r>>) \/ (\E r1, r2 \in Rules : c = <<r1, r2>>)
    BY DEF Ruled
  <1>8. \A r : Len(<<r>>) = 1
    OBVIOUS
  <1>9. CASE \E r \in Rules : p = <<r>>
    <2>1. \E r1, r2 \in Rules : w = <<r1, r2>>
      BY <1>7, <1>8, <1>9
    <2> QED
      BY <1>4, <1>9, <2>1
  <1>10. CASE \E r1, r2 \in Rules : p = <<r1, r2>>
    BY <1>5, <1>6, <1>7, <1>10
  <1> QED
    BY <1>7, <1>9, <1>10

\* A pass criterion and a warning.
LEMMA PassAndWarning ==
    ASSUME NEW p \in Ruled, NEW w \in Ruled, NEW o, o = [pass |-> <<p>>, warning |-> <<w>>],
           NEW x, x = SetupTarget(o), ~x.err, x.target \in Targets \ {NoTarget}
    PROVE  Judged(o, x.target)
  <1> DEFINE t == x.target
             P(val) == AllHold(val, p)
             W(val) == AllHold(val, w)
  <1>1. /\ o.pass = <<p>> /\ o.warning = <<w>> /\ Len(o.pass) = 1 /\ Len(o.warning) = 1
        /\ o.pass # << >> /\ o.warning # << >> /\ o.pass[1] = p /\ o.warning[1] = w
    OBVIOUS
  <1>2. x = IF BadInterval \in {CreateInterval(w), CreateInterval(p)} THEN Failed
            ELSE IF (Len(p) = 1 /\ Len(w) = 1) \/ IsSuperInterval(w, p) THEN
                TargetOf(NewOperator(w, TRUE), NewOperator(p, TRUE))
            ELSE IF IsSuperInterval(p, w) THEN
                TargetOf(NewOperator(p, TRUE), NewOperator(w, FALSE))
            ELSE Converted(NoOperator, NoOperator)
    <2>1. ~HasNotSupportedCriteria(o) /\ ~(Len(o.pass) > 1)
      BY <1>1 DEF HasNotSupportedCriteria
    <2> QED
      BY <1>1, <2>1 DEF SetupTarget
  <1>3. CreateInterval(w) # BadInterval /\ CreateInterval(p) # BadInterval
    <2>1. x # Failed
      BY DEF Failed
    <2>2. BadInterval \notin {CreateInterval(w), CreateInterval(p)}
      BY <1>2, <2>1
    <2> QED
      BY <2>2
  <1>4. \A r1, r2 \in Rules : (p = <<r1, r2>> => Facing(r1, r2)) /\ (w = <<r1, r2>> => Facing(r1, r2))
    BY <1>3, IntervalOfTwo
  <1>5. \A val : (Met(val, o.pass) <=> P(val)) /\ (Met(val, o.warning) <=> W(val))
    BY <1>1, MetOfOne
  <1>6. \A val \in MeasuredValues : val \in Int
    BY DecimalAssumption
  <1>7. CASE (Len(p) = 1 /\ Len(w) = 1) \/ IsSuperInterval(w, p)
    <2> DEFINE f == NewOperator(w, TRUE)
               g == NewOperator(p, TRUE)
    <2>1. x = TargetOf(f, g)
      BY <1>2, <1>3, <1>7
    <2>2. x.target \in Targets
      OBVIOUS
    <2> HIDE DEF f, g
    <2>3. /\ x.target.failure = f /\ x.target.warning = g /\ Acceptable(f) /\ Acceptable(g)
          /\ \A val : ~OnBound(val, x.target) => Off(val, f) /\ Off(val, g)
      <3>1. IsMadeOf(x.target, f, g)
        BY <2>1, <2>2, TargetFacts
      <3> QED
        BY <3>1 DEF IsMadeOf
    <2>4. ASSUME NEW val \in MeasuredValues, ~OnBound(val, t) PROVE JudgedAlike(o, t, val)
      <3>1. val \in Int /\ Off(val, f) /\ Off(val, g)
        BY <1>6, <2>3, <2>4
      <3>2. Fulfilled(val, f) <=> ~W(val)
        BY <1>4, <2>3, <3>1, NegatedCriterion DEF f
      <3>3. Fulfilled(val, g) <=> ~P(val)
        BY <1>4, <2>3, <3>1, NegatedCriterion DEF g
      <3>4. TargetResult(val, t) = IF ~W(val) THEN "fail" ELSE IF ~P(val) THEN "warning" ELSE "pass"
        BY <2>3, <3>2, <3>3 DEF TargetResult
      <3>5. OriginalResult(val, o) = IF P(val) THEN "pass" ELSE IF W(val) THEN "warning" ELSE "fail"
        BY <1>5 DEF OriginalResult
      <3>6. WarningContainsPass(o) => (P(val) => W(val))
        BY <1>5, <2>4 DEF WarningContainsPass
      <3> HIDE DEF P, W, t
      <3>7. Rank(TargetResult(val, t)) <= Rank(OriginalResult(val, o))
        BY <3>4, <3>5, Ranks
      <3>8. WarningContainsPass(o) => TargetResult(val, t) = OriginalResult(val, o)
        BY <3>4, <3>5, <3>6
      <3> QED
        BY <1>1, <3>7, <3>8 DEF JudgedAlike
    <2> QED
      BY <2>4 DEF Judged
  <1>8. CASE ~((Len(p) = 1 /\ Len(w) = 1) \/ IsSuperInterval(w, p)) /\ IsSuperInterval(p, w)
    <2> DEFINE f == NewOperator(p, TRUE)
               g == NewOperator(w, FALSE)
    <2>1. x = TargetOf(f, g)
      BY <1>2, <1>3, <1>8
    <2>2. x.target \in Targets
      OBVIOUS
    <2> HIDE DEF f, g
    <2>3. /\ x.target.failure = f /\ x.target.warning = g /\ Acceptable(f) /\ Acceptable(g)
          /\ \A val : ~OnBound(val, x.target) => Off(val, f) /\ Off(val, g)
      <3>1. IsMadeOf(x.target, f, g)
        BY <2>1, <2>2, TargetFacts
      <3> QED
        BY <3>1 DEF IsMadeOf
    <2>4. ~WarningContainsPass(o)
      <3>1. \E val \in MeasuredValues : P(val) /\ ~W(val)
        BY <1>3, <1>8, Gap
      <3> QED
        BY <1>5, <3>1 DEF WarningContainsPass
    <2>5. ASSUME NEW val \in MeasuredValues, ~OnBound(val, t) PROVE JudgedAlike(o, t, val)
      <3>1. val \in Int /\ Off(val, f)
        BY <1>6, <2>3, <2>5
      <3>2. Fulfilled(val, f) <=> ~P(val)
        BY <1>4, <2>3, <3>1, NegatedCriterion DEF f
      <3>3. /\ TargetResult(val, t) \in {"fail", "warning", "pass"}
            /\ ~P(val) => TargetResult(val, t) = "fail"
        BY <2>3, <3>2 DEF TargetResult
      <3>4. /\ OriginalResult(val, o) \in {"fail", "warning", "pass"}
            /\ P(val) => OriginalResult(val, o) = "pass"
        BY <1>5 DEF OriginalResult
      <3> HIDE DEF P, t
      <3>5. Rank(TargetResult(val, t)) <= Rank(OriginalResult(val, o))
        <4>1. CASE P(val)
          BY <3>3, <3>4, <4>1, Ranks
        <4>2. CASE ~P(val)
          BY <3>3, <3>4, <4>2, Ranks
        <4> QED
          BY <4>1, <4>2
      <3> QED
        BY <1>1, <2>4, <3>5 DEF JudgedAlike
    <2> QED
      BY <2>5 DEF Judged
  <1>9. CASE ~((Len(p) = 1 /\ Len(w) = 1) \/ IsSuperInterval(w, p)) /\ ~IsSuperInterval(p, w)
    <2>1. x = Converted(NoOperator, NoOperator)
      BY <1>2, <1>3, <1>9
    <2>2. x.target = NoTarget
      BY <2>1 DEF Converted, NoTarget
    <2> QED
      BY <2>2
  <1> QED
    BY <1>7, <1>8, <1>9

\* The objectives that are converted.
Cleaned(s) == [pass |-> CleanupCriteria(s.pass), warning |-> CleanupCriteria(s.warning)]

LEMMA ConvertedIsJudged ==
    ASSUME NEW s \in Objective, NEW x, x = ConvertSLO(s), ~x.err, x.target \in Targets \ {NoTarget},
           Meaningful(Cleaned(s).pass)
    PROVE  Judged(Cleaned(s), x.target)
  <1> DEFINE o == Cleaned(s)
  <1>0. x.target \in Targets /\ x = SetupTarget(o) /\ Meaningful(o.pass)
    BY DEF ConvertSLO, Cleaned
  <1>1. ASSUME NEW c \in Criteria, s.pass = <<c>>, s.warning = << >> \/ \E d \in Criteria : s.warning = <<d>>
        PROVE  Judged(o, x.target)
    <2>1. o.pass = << >> \/ \E p \in Ruled : o.pass = <<p>>
      BY <1>1, CleanedOfOne DEF Cleaned
    <2>2. o.warning = << >> \/ \E w \in Ruled : o.warning = <<w>>
      BY <1>1, CleanedOfOne, CleanedOfNone DEF Cleaned
    <2>3. o = [pass |-> o.pass, warning |-> o.warning]
      BY DEF Cleaned
    <2> HIDE DEF o
    <2>4. CASE o.pass = << >>
      BY <1>0, <2>4, MetOfNone DEF Meaningful
    <2>5. ASSUME NEW p \in Ruled, o.pass = <<p>> PROVE Judged(o, x.target)
      <3>1. CASE o.warning = << >>
        <4>1. o = [pass |-> <<p>>, warning |-> << >>]
          BY <2>3, <2>5, <3>1
        <4> QED
          BY <1>0, <4>1, OnePass, Zenon
      <3>2. ASSUME NEW w \in Ruled, o.warning = <<w>> PROVE Judged(o, x.target)
        <4>1. o = [pass |-> <<p>>, warning |-> <<w>>]
          BY <2>3, <2>5, <3>2
        <4> QED
          BY <1>0, <4>1, PassAndWarning, Zenon
      <3> QED
        BY <2>2, <3>1, <3>2
    <2> QED
      BY <2>1, <2>4, <2>5
  <1>2. ASSUME NEW r1 \in Rules, NEW r2 \in Rules, s.pass = << <<r1>>, <<r2>> >>, s.warning = << >>
        PROVE  Judged(o, x.target)
    <2>1. o = [pass |-> << <<r1>>, <<r2>> >>, warning |-> << >>]
      BY <1>2, CleanedOfTwo, CleanedOfNone DEF Cleaned
    <2> HIDE DEF o
    <2> QED
      BY <1>0, <2>1, TwoPass, Zenon
  <1> QED
    BY <1>1, <1>2 DEF Objective

\* A result is what the converter makes of the objective.
ConverterInv == slo \in Objective /\ (result = Pending \/ result = ConvertSLO(slo))

\* An objective of a Keptn v1 SLO that becomes a target judges no value better than
\* before, and as before if it has one pass criterion and no warning or a warning that
\* contains it, whatever the numbers of its rules and the values (setupTarget and the
\* operators it creates).
THEOREM MigratedVerdictHolds == ConverterSpec => []MigratedVerdict
  <1>1. InitObjective => ConverterInv
    BY DEF InitObjective, ConverterInv
  <1>2. ConverterInv /\ [Convert]_<<slo, result>> => ConverterInv'
    BY DEF ConverterInv, Convert
  <1>3. ConverterInv => MigratedVerdict
    <2> SUFFICES ASSUME ConverterInv, ~result.err, result.target \in Targets \ {NoTarget},
                        Meaningful(Cleaned(slo).pass)
                 PROVE  Judged(Cleaned(slo), result.target)
      BY DEF MigratedVerdict, Judged, JudgedAlike, Cleaned
    <2>1. result = ConvertSLO(slo) /\ slo \in Objective
      BY DEF ConverterInv, Pending
    <2> QED
      BY <2>1, ConvertedIsJudged
  <1> QED
    BY <1>1, <1>2, <1>3, PTL DEF ConverterSpec
=============================================================================
