---------------------------- MODULE AnalysisProofs ----------------------------
(***************************************************************************)
(* Proofs about Analysis, for all definitions, any number of workers,      *)
(* providers, edits, failures and restarts.  The collector only counts: it *)
(* closes the channels once it has taken as many results as there were     *)
(* objectives to ask for.  So the argument is to count as well.  Every     *)
(* objective is one slot somewhere in the pool, moves from one to the next *)
(* and is collected, so that nothing is left when the count is complete;   *)
(* and each stays in sight until its value is there.                       *)
(***************************************************************************)
EXTENDS Analysis, FiniteSetTheorems, SequenceTheorems, WellFoundedInduction, TLAPS

-----------------------------------------------------------------------------
(***************************************************************************)
(* How objectives become tasks, and tasks are given to workers.            *)
(***************************************************************************)
LEMMA InOrderFacts ==
    ASSUME NEW n \in Nat, NEW S \in SUBSET (1..n)
    PROVE  /\ Cardinality(S) \in Nat
           /\ InOrder(S) \in [1..Cardinality(S) -> S]
           /\ \A i \in S : \E k \in 1..Cardinality(S) : InOrder(S)[k] = i
  <1> DEFINE upTo(i) == {j \in S : j <= i}
             c == Cardinality(S)
             rank == [i \in S |-> Cardinality(upTo(i))]
  <1>1. IsFiniteSet(S) /\ c \in Nat
    <2>1. IsFiniteSet(1..n)
      BY FS_Interval
    <2>2. IsFiniteSet(S)
      BY <2>1, FS_Subset
    <2> QED
      BY <2>2, FS_CardinalityType
  <1>2. ASSUME NEW i \in S
        PROVE  IsFiniteSet(upTo(i)) /\ Cardinality(upTo(i)) \in 1..c
    <2>1. upTo(i) \in SUBSET S
      OBVIOUS
    <2>2. IsFiniteSet(upTo(i)) /\ Cardinality(upTo(i)) <= c
      BY <1>1, <2>1, FS_Subset
    <2>3. upTo(i) # {}
      OBVIOUS
    <2>4. Cardinality(upTo(i)) \in Nat /\ Cardinality(upTo(i)) # 0
      BY <2>2, <2>3, FS_CardinalityType, FS_EmptySet
    <2> QED
      BY <1>1, <2>2, <2>4
  <1>3. ASSUME NEW i \in S, NEW k \in S, i < k
        PROVE  Cardinality(upTo(i)) # Cardinality(upTo(k))
    <2>0. /\ \A j \in S : j \in Nat /\ (j <= i => j <= k)
          /\ k <= k /\ ~(k <= i)
      BY <1>3
    <2>1. upTo(i) \in SUBSET upTo(k) /\ k \in upTo(k) /\ k \notin upTo(i)
      BY <2>0
    <2>2. upTo(i) # upTo(k)
      BY <2>1
    <2>3. IsFiniteSet(upTo(k))
      BY <1>2
    <2> HIDE DEF upTo
    <2> QED
      BY <2>1, <2>2, <2>3, FS_Subset
  <1>4. \A i, k \in S : rank[i] = rank[k] => i = k
    <2>1. SUFFICES ASSUME NEW i \in S, NEW k \in S, i # k PROVE rank[i] # rank[k]
      OBVIOUS
    <2>2. i < k \/ k < i
      <3>1. i \in Nat /\ k \in Nat
        OBVIOUS
      <3> QED
        BY <2>1, <3>1
    <2> QED
      BY <1>3, <2>1, <2>2
  <1>5. rank \in Injection(S, 1..c)
    <2>1. rank \in [S -> 1..c]
      BY <1>2
    <2> QED
      BY <1>4, <2>1 DEF Injection, IsInjective
  <1> HIDE DEF rank
  <1>6. rank \in Surjection(S, 1..c)
    <2>1. IsFiniteSet(1..c) /\ Cardinality(1..c) = c
      BY <1>1, FS_Interval
    <2> QED
      BY <1>5, <2>1, FS_Injection
  <1>7. \A k \in 1..c : \E i \in S : Cardinality(upTo(i)) = k
    BY <1>6 DEF Surjection, rank
  <1> DEFINE sel(k) == CHOOSE i \in S : Cardinality(upTo(i)) = k
  <1>8. InOrder(S) = [k \in 1..c |-> sel(k)]
    BY DEF InOrder
  <1>9. \A k \in 1..c : sel(k) \in S /\ Cardinality(upTo(sel(k))) = k
    BY <1>7
  <1>10. ASSUME NEW i \in S PROVE Cardinality(upTo(i)) \in 1..c /\ sel(Cardinality(upTo(i))) = i
    <2>1. Cardinality(upTo(i)) \in 1..c
      BY <1>2
    <2>2. /\ sel(Cardinality(upTo(i))) \in S
          /\ Cardinality(upTo(sel(Cardinality(upTo(i))))) = Cardinality(upTo(i))
      BY <1>9, <2>1
    <2>3. rank[sel(Cardinality(upTo(i)))] = rank[i]
      BY <2>2 DEF rank
    <2> QED
      BY <1>4, <2>1, <2>2, <2>3
  <1> HIDE DEF sel
  <1>11. InOrder(S) \in [1..c -> S] /\ \A k \in 1..c : InOrder(S)[k] = sel(k)
    BY <1>8, <1>9
  <1> QED
    BY <1>1, <1>10, <1>11

\* How many of c tasks the first i of n workers have (assignTasks).
First(c, n, i) == i * (c \div n) + (IF i < c % n THEN i ELSE c % n)

LEMMA FirstFacts ==
    ASSUME NEW c \in Nat, NEW n \in Nat \ {0}
    PROVE  /\ First(c, n, 0) = 0 /\ First(c, n, n) = c
           /\ \A i \in Nat : First(c, n, i) \in Nat
           /\ \A i, k \in Nat : i <= k => First(c, n, i) <= First(c, n, k)
  <1>1. c \div n \in Nat /\ c % n \in 0..(n - 1) /\ n * (c \div n) + (c % n) = c
    <2>1. c % n \in 0..(n - 1) /\ c \div n \in Int
      OBVIOUS
    <2>2. \A a, b \in Int : b > 0 => a = b * (a \div b) + (a % b)
      OBVIOUS
    <2>3. c = n * (c \div n) + (c % n)
      BY <2>2
    <2>4. c \div n >= 0
      BY <2>1, <2>3
    <2> QED
      BY <2>1, <2>3, <2>4
  <1> DEFINE q == c \div n
             r == c % n
  <1>2. q \in Nat /\ r \in 0..(n - 1) /\ n * q + r = c
    BY <1>1
  <1>3. \A i : First(c, n, i) = i * q + (IF i < r THEN i ELSE r)
    BY DEF First
  <1> HIDE DEF q, r
  <1>4. First(c, n, 0) = 0
    BY <1>2, <1>3
  <1>5. First(c, n, n) = c
    BY <1>2, <1>3
  <1>6. ASSUME NEW i \in Nat, NEW k \in Nat, i <= k
        PROVE  i * q \in Nat /\ k * q \in Nat /\ i * q <= k * q
    <2>1. PICK d \in Nat : k = i + d
      BY <1>6
    <2>2. i * q \in Nat /\ d * q \in Nat
      BY <1>2
    <2>3. k * q = i * q + d * q
      BY <1>2, <2>1
    <2> QED
      BY <2>2, <2>3
  <1>7. \A i \in Nat : First(c, n, i) \in Nat
    BY <1>2, <1>3, <1>6
  <1>8. \A i, k \in Nat : i <= k => First(c, n, i) <= First(c, n, k)
    BY <1>2, <1>3, <1>6
  <1> QED
    BY <1>4, <1>5, <1>7, <1>8

\* Every task is given to one worker, and only to one.
LEMMA EveryTaskAssigned ==
    ASSUME NEW c \in Nat, NEW n \in Nat \ {0}, NEW j \in 1..c
    PROVE  /\ \E w \in 1..n : First(c, n, w - 1) < j /\ j <= First(c, n, w)
           /\ \A v, w \in 1..n : /\ First(c, n, v - 1) < j /\ j <= First(c, n, v)
                                 /\ First(c, n, w - 1) < j /\ j <= First(c, n, w)
                                 => v = w
  <1> DEFINE T == {w \in Nat : j <= First(c, n, w)}
             R == OpToRel(<, Nat)
  <1>1. n \in T /\ T \subseteq Nat
    BY FirstFacts
  <1>2. PICK w \in T : \A y \in T : ~(<<y, w>> \in R)
    BY <1>1, WFMin, NatLessThanWellFounded
  <1>3. \A y \in T : ~(y < w)
    BY <1>2 DEF OpToRel
  <1>4. w # 0 /\ w <= n
    BY <1>1, <1>3, FirstFacts
  <1>5. w - 1 \in Nat /\ w - 1 < w /\ w \in 1..n
    BY <1>4
  <1>6. First(c, n, w - 1) < j
    BY <1>3, <1>5, FirstFacts
  <1>7. ASSUME NEW u \in 1..n, NEW v \in 1..n,
               First(c, n, v - 1) < j, j <= First(c, n, u)
        PROVE  v <= u
    <2>1. SUFFICES ASSUME u <= v - 1 PROVE FALSE
      OBVIOUS
    <2>0. u \in Nat /\ v - 1 \in Nat
      OBVIOUS
    <2>2. First(c, n, u) <= First(c, n, v - 1) /\ First(c, n, u) \in Nat /\ First(c, n, v - 1) \in Nat
      BY <2>0, <2>1, FirstFacts
    <2> QED
      BY <1>7, <2>2
  <1>8. \A u, v \in 1..n : v <= u /\ u <= v => v = u
    OBVIOUS
  <1>9. \E x \in 1..n : First(c, n, x - 1) < j /\ j <= First(c, n, x)
    BY <1>2, <1>5, <1>6
  <1> QED
    BY <1>7, <1>8, <1>9

\* Where tasks can be: with a worker, on their way to an evaluator, with it, and on
\* their way to the collector.
SlotsOf(W, R, A, Q) ==
    (UNION {{<<"left", w, k>> : k \in 1..Len(W[w].left)} : w \in 1..MaxWorkers})
    \cup {<<"at", w, 0>> : w \in {x \in 1..MaxWorkers : W[x].at # Nothing}}
    \cup (UNION {{<<"request", p, k>> : k \in 1..Len(R[p])} : p \in Types})
    \cup {<<"asking", p, 0>> : p \in {x \in Types : A[x] # Nothing}}
    \cup {<<"result", 0, k>> : k \in 1..Len(Q)}

LeftSlot(W, s) == \E w \in 1..MaxWorkers : \E k \in 1..Len(W[w].left) : s = <<"left", w, k>>

AtSlot(W, s) == \E w \in 1..MaxWorkers : W[w].at # Nothing /\ s = <<"at", w, 0>>

SentSlot(R, s) == \E p \in Types : \E k \in 1..Len(R[p]) : s = <<"request", p, k>>

AskedSlot(A, s) == \E p \in Types : A[p] # Nothing /\ s = <<"asking", p, 0>>

AnswerSlot(Q, s) == \E k \in 1..Len(Q) : s = <<"result", 0, k>>

LEMMA SlotMembers ==
    ASSUME NEW W, NEW R, NEW A, NEW Q, NEW s
    PROVE  s \in SlotsOf(W, R, A, Q) <=>
              LeftSlot(W, s) \/ AtSlot(W, s) \/ SentSlot(R, s) \/ AskedSlot(A, s) \/ AnswerSlot(Q, s)
  <1> DEFINE leftTo(w) == {<<"left", w, k>> : k \in 1..Len(W[w].left)}
             lefts == UNION {leftTo(w) : w \in 1..MaxWorkers}
             ats == {<<"at", w, 0>> : w \in {x \in 1..MaxWorkers : W[x].at # Nothing}}
             sentTo(p) == {<<"request", p, k>> : k \in 1..Len(R[p])}
             requested == UNION {sentTo(p) : p \in Types}
             asked == {<<"asking", p, 0>> : p \in {x \in Types : A[x] # Nothing}}
             answered == {<<"result", 0, k>> : k \in 1..Len(Q)}
  <1>1. SlotsOf(W, R, A, Q) = lefts \cup ats \cup requested \cup asked \cup answered
    BY DEF SlotsOf
  <1>2. s \in lefts <=> \E w \in 1..MaxWorkers : \E k \in 1..Len(W[w].left) : s = <<"left", w, k>>
    <2>1. \A w : s \in leftTo(w) <=> \E k \in 1..Len(W[w].left) : s = <<"left", w, k>>
      OBVIOUS
    <2> HIDE DEF leftTo
    <2>2. s \in lefts <=> \E w \in 1..MaxWorkers : s \in leftTo(w)
      OBVIOUS
    <2> QED
      BY <2>1, <2>2
  <1>3. s \in ats <=> \E w \in 1..MaxWorkers : W[w].at # Nothing /\ s = <<"at", w, 0>>
    BY Zenon
  <1>4. s \in requested <=> \E p \in Types : \E k \in 1..Len(R[p]) : s = <<"request", p, k>>
    <2>1. \A p : s \in sentTo(p) <=> \E k \in 1..Len(R[p]) : s = <<"request", p, k>>
      OBVIOUS
    <2> HIDE DEF sentTo
    <2>2. s \in requested <=> \E p \in Types : s \in sentTo(p)
      OBVIOUS
    <2> QED
      BY <2>1, <2>2
  <1>5. s \in asked <=> \E p \in Types : A[p] # Nothing /\ s = <<"asking", p, 0>>
    BY Zenon
  <1>6. s \in answered <=> \E k \in 1..Len(Q) : s = <<"result", 0, k>>
    BY Zenon
  <1> HIDE DEF lefts, ats, requested, asked, answered
  <1>7. s \in SlotsOf(W, R, A, Q) <=> \/ s \in lefts \/ s \in ats \/ s \in requested
                                       \/ s \in asked \/ s \in answered
    BY <1>1
  <1> QED
    BY <1>2, <1>3, <1>4, <1>5, <1>6, <1>7 DEF LeftSlot, AtSlot, SentSlot, AskedSlot, AnswerSlot

\* The five kinds are told apart by their first component.
LEMMA SlotKinds ==
    ASSUME NEW s
    PROVE  /\ \A W : LeftSlot(W, s) => s[1] = "left"
           /\ \A W : AtSlot(W, s) => s[1] = "at"
           /\ \A R : SentSlot(R, s) => s[1] = "request"
           /\ \A A : AskedSlot(A, s) => s[1] = "asking"
           /\ \A Q : AnswerSlot(Q, s) => s[1] = "result"
  BY DEF LeftSlot, AtSlot, SentSlot, AskedSlot, AnswerSlot

Has(q, x) == \E k \in DOMAIN q : q[k] = x

WithWorker(W, x) == \E w \in 1..MaxWorkers : W[w].at = x \/ Has(W[w].left, x)

\* The tasks of n workers, and nothing else in the pool.
Assigned(W, todo, n) ==
    \A w \in 1..MaxWorkers : /\ W[w].left = IF w <= n THEN AssignTasks(todo, n, w) ELSE << >>
                             /\ W[w].at = Nothing

Unused(R, A) == \A p \in Types : R[p] = << >> /\ A[p] = Nothing

LEMMA SlotsAtStart ==
    ASSUME NEW S, NEW todo \in Seq(S), NEW n \in 1..MaxWorkers, NEW W, NEW R, NEW A,
           Assigned(W, todo, n), Unused(R, A)
    PROVE  /\ \A w \in 1..MaxWorkers : W[w].left \in Seq(S)
           /\ \A j \in 1..Len(todo) : WithWorker(W, todo[j])
           /\ IsFiniteSet(SlotsOf(W, R, A, << >>))
           /\ Cardinality(SlotsOf(W, R, A, << >>)) = Len(todo)
  <1> USE DEF Assigned, Unused
  <1> DEFINE c == Len(todo)
             F(i) == First(c, n, i)
  <1>1. c \in Nat /\ n \in Nat \ {0} /\ 1..n \subseteq 1..MaxWorkers /\ MaxWorkers \in Nat
    BY AnalysisAssumption
  <1>2. ASSUME NEW w \in 1..n
        PROVE  /\ w \in 1..MaxWorkers /\ W[w].left = SubSeq(todo, F(w - 1) + 1, F(w))
               /\ F(w - 1) \in Nat /\ F(w) \in Nat /\ F(w - 1) <= F(w) /\ F(w) <= c
    <2>1. w <= n /\ w \in 1..MaxWorkers /\ w - 1 \in Nat /\ w \in Nat /\ w - 1 <= w
      BY <1>1
    <2>2. W[w].left = SubSeq(todo, F(w - 1) + 1, F(w))
      BY <2>1 DEF AssignTasks, First
    <2> HIDE DEF c
    <2>3. F(w - 1) \in Nat /\ F(w) \in Nat /\ F(w - 1) <= F(w) /\ F(w) <= F(n) /\ F(n) = c
      BY <1>1, <2>1, FirstFacts
    <2> QED
      BY <2>1, <2>2, <2>3
  <1> HIDE DEF F
  <1>3. ASSUME NEW w \in 1..n
        PROVE  /\ W[w].left \in Seq(S) /\ Len(W[w].left) = F(w) - F(w - 1)
               /\ \A k \in 1..(F(w) - F(w - 1)) : W[w].left[k] = todo[F(w - 1) + k]
    <2>1. \A a, b \in Nat : a <= b /\ b <= c =>
            /\ SubSeq(todo, a + 1, b) \in Seq(S)
            /\ Len(SubSeq(todo, a + 1, b)) = b - a
            /\ \A k \in 1..(b - a) : SubSeq(todo, a + 1, b)[k] = todo[a + k]
      OBVIOUS
    <2> QED
      BY <1>2, <2>1
  <1>4. ASSUME NEW w \in (1..MaxWorkers) \ (1..n) PROVE W[w].left = << >>
    BY <1>1
  <1> DEFINE slots == SlotsOf(W, R, A, << >>)
             owns(j, w) == F(w - 1) < j /\ j <= F(w)
             owner(j) == CHOOSE w \in 1..n : owns(j, w)
             f == [j \in 1..c |-> <<"left", owner(j), j - F(owner(j) - 1)>>]
  <1>5. ASSUME NEW j \in 1..c
        PROVE  owner(j) \in 1..n /\ owns(j, owner(j)) /\ \A w \in 1..n : owns(j, w) => w = owner(j)
    <2>1. /\ \E w \in 1..n : owns(j, w)
          /\ \A v, w \in 1..n : owns(j, v) /\ owns(j, w) => v = w
      BY <1>1, EveryTaskAssigned DEF F
    <2> HIDE DEF owns
    <2>2. owner(j) \in 1..n /\ owns(j, owner(j))
      BY <2>1
    <2> QED
      BY <2>1, <2>2
  <1>6. ASSUME NEW s
        PROVE  s \in slots <=> \E w \in 1..n : \E k \in 1..(F(w) - F(w - 1)) : s = <<"left", w, k>>
    <2>1. \A w \in 1..MaxWorkers : W[w].at = Nothing
      OBVIOUS
    <2>2. s \in slots <=> \E w \in 1..MaxWorkers : \E k \in 1..Len(W[w].left) : s = <<"left", w, k>>
      <3>1. 1..Len(<< >>) = {} /\ \A p \in Types : 1..Len(R[p]) = {} /\ A[p] = Nothing
        OBVIOUS
      <3> QED
        BY <2>1, <3>1, SlotMembers DEF LeftSlot, AtSlot, SentSlot, AskedSlot, AnswerSlot
    <2>3. \A w \in 1..MaxWorkers : w \in 1..n \/ 1..Len(W[w].left) = {}
      BY <1>4
    <2> QED
      BY <1>2, <1>3, <2>2, <2>3
  <1>7. ASSUME NEW j \in 1..c
        PROVE  j - F(owner(j) - 1) \in 1..(F(owner(j)) - F(owner(j) - 1))
    <2>1. owner(j) \in 1..n /\ owns(j, owner(j))
      BY <1>5
    <2> HIDE DEF owner
    <2>2. F(owner(j) - 1) \in Nat /\ F(owner(j)) \in Nat
      BY <1>2, <2>1
    <2> QED
      BY <1>1, <2>1, <2>2
  <1> HIDE DEF owner, slots, c
  <1>8. f \in [1..c -> slots]
    BY <1>5, <1>6, <1>7
  <1>9. ASSUME NEW i \in 1..c, NEW j \in 1..c, f[i] = f[j] PROVE i = j
    <2>1. owner(i) = owner(j) /\ i - F(owner(i) - 1) = j - F(owner(j) - 1)
      BY <1>9
    <2>2. F(owner(i) - 1) \in Nat
      BY <1>2, <1>5
    <2> QED
      BY <2>1, <2>2
  <1>10. ASSUME NEW w \in 1..n, NEW k \in 1..(F(w) - F(w - 1))
         PROVE  F(w - 1) + k \in 1..c /\ f[F(w - 1) + k] = <<"left", w, k>>
    <2>0. F(w - 1) \in Nat /\ F(w) \in Nat /\ F(w - 1) <= F(w) /\ F(w) <= c
      BY <1>2
    <2>1. F(w - 1) + k \in 1..c /\ owns(F(w - 1) + k, w) /\ (F(w - 1) + k) - F(w - 1) = k
      BY <1>1, <2>0
    <2>2. owner(F(w - 1) + k) = w
      BY <1>5, <2>1
    <2> QED
      BY <2>1, <2>2
  <1>11. f \in Bijection(1..c, slots)
    <2>1. f \in Injection(1..c, slots)
      BY <1>8, <1>9 DEF Injection, IsInjective
    <2>2. \A s \in slots : \E j \in 1..c : f[j] = s
      <3> HIDE DEF f
      <3>1. SUFFICES ASSUME NEW s \in slots PROVE \E j \in 1..c : f[j] = s
        OBVIOUS
      <3>2. PICK w \in 1..n : \E k \in 1..(F(w) - F(w - 1)) : s = <<"left", w, k>>
        BY <1>6
      <3>3. PICK k \in 1..(F(w) - F(w - 1)) : s = <<"left", w, k>>
        BY <3>2
      <3> QED
        BY <1>10, <3>3
    <2>3. f \in Surjection(1..c, slots)
      BY <1>8, <2>2 DEF Surjection
    <2> QED
      BY <2>1, <2>3 DEF Bijection
  <1>12. IsFiniteSet(slots) /\ Cardinality(slots) = c
    <2>1. ExistsBijection(1..c, slots)
      BY <1>11 DEF ExistsBijection
    <2>2. IsFiniteSet(1..c) /\ Cardinality(1..c) = c
      BY <1>1, FS_Interval
    <2> QED
      BY <2>1, <2>2, FS_Bijection
  <1>13. ASSUME NEW w \in 1..MaxWorkers PROVE W[w].left \in Seq(S)
    <2>1. CASE w \in 1..n
      BY <1>3, <2>1
    <2>2. CASE w \notin 1..n
      <3>1. W[w].left = << >>
        BY <1>4, <2>2
      <3> QED
        BY <3>1
    <2> QED
      BY <2>1, <2>2
  <1>14. ASSUME NEW j \in 1..c
         PROVE  WithWorker(W, todo[j])
    <2>1. owner(j) \in 1..n /\ owner(j) \in 1..MaxWorkers /\ F(owner(j) - 1) \in Nat
      BY <1>2, <1>5
    <2>2. F(owner(j) - 1) + (j - F(owner(j) - 1)) = j
      BY <2>1
    <2>3. W[owner(j)].left[j - F(owner(j) - 1)] = todo[j]
      BY <1>3, <1>7, <2>1, <2>2
    <2>4. j - F(owner(j) - 1) \in DOMAIN W[owner(j)].left
      BY <1>3, <1>7, <2>1
    <2> QED
      BY <2>1, <2>3, <2>4 DEF WithWorker, Has
  <1> QED
    BY <1>12, <1>13, <1>14 DEF slots, c

-----------------------------------------------------------------------------
(***************************************************************************)
(* How a task moves.                                                       *)
(***************************************************************************)
LEMMA TakeFacts ==
    ASSUME NEW S, NEW q \in Seq(S), q # << >>
    PROVE  /\ Len(q) \in Nat \ {0} /\ Head(q) \in S
           /\ Tail(q) \in Seq(S)
           /\ \A k : k \in 1..Len(Tail(q)) <=> k \in 1..Len(q) /\ k # Len(q)
           /\ \A x : Has(q, x) => x = Head(q) \/ Has(Tail(q), x)
  <1>1. Len(q) \in Nat \ {0} /\ DOMAIN q = 1..Len(q) /\ Head(q) = q[1] /\ Head(q) \in S
    OBVIOUS
  <1>2. /\ Tail(q) \in Seq(S) /\ Len(Tail(q)) = Len(q) - 1
        /\ DOMAIN Tail(q) = 1..(Len(q) - 1)
        /\ \A k \in 1..(Len(q) - 1) : Tail(q)[k] = q[k + 1]
    OBVIOUS
  <1>3. ASSUME NEW k \in DOMAIN q, k # 1 PROVE k - 1 \in DOMAIN Tail(q) /\ Tail(q)[k - 1] = q[k]
    BY <1>1, <1>2, <1>3
  <1>4. \A k : k \in 1..Len(Tail(q)) <=> k \in 1..Len(q) /\ k # Len(q)
    BY <1>1, <1>2
  <1>5. \A x : Has(q, x) => x = Head(q) \/ Has(Tail(q), x)
    BY <1>1, <1>3 DEF Has
  <1> QED
    BY <1>1, <1>2, <1>4, <1>5

LEMMA PutFacts ==
    ASSUME NEW S, NEW q \in Seq(S), NEW e \in S
    PROVE  /\ Len(q) \in Nat
           /\ Append(q, e) \in Seq(S)
           /\ \A k : k \in 1..Len(Append(q, e)) <=> k \in 1..Len(q) \/ k = Len(q) + 1
           /\ \A x : Has(q, x) => Has(Append(q, e), x)
           /\ Has(Append(q, e), e)
  <1>1. Len(q) \in Nat /\ DOMAIN q = 1..Len(q)
    OBVIOUS
  <1>2. /\ Append(q, e) \in Seq(S) /\ Len(Append(q, e)) = Len(q) + 1
        /\ DOMAIN Append(q, e) = 1..(Len(q) + 1)
        /\ \A k \in 1..Len(q) : Append(q, e)[k] = q[k]
        /\ Append(q, e)[Len(q) + 1] = e
    OBVIOUS
  <1>3. \A k : k \in 1..Len(Append(q, e)) <=> k \in 1..Len(q) \/ k = Len(q) + 1
    BY <1>1, <1>2
  <1>4. \A x : Has(q, x) => Has(Append(q, e), x)
    BY <1>1, <1>2 DEF Has
  <1>5. Has(Append(q, e), e)
    BY <1>1, <1>2 DEF Has
  <1> QED
    BY <1>1, <1>2, <1>3, <1>4, <1>5

\* One element is replaced by another.
LEMMA Moved ==
    ASSUME NEW S, NEW T, IsFiniteSet(S), NEW a \in S, NEW b, b \notin S,
           \A s : s \in T <=> (s \in S /\ s # a) \/ s = b
    PROVE  IsFiniteSet(T) /\ Cardinality(T) = Cardinality(S)
  <1>1. T = (S \ {a}) \cup {b}
    OBVIOUS
  <1>2. IsFiniteSet(S \ {a}) /\ Cardinality(S \ {a}) = Cardinality(S) - 1
    BY FS_RemoveElement
  <1>3. Cardinality(S) \in Nat
    BY FS_CardinalityType
  <1>4. b \notin S \ {a}
    OBVIOUS
  <1>5. IsFiniteSet(T) /\ Cardinality(T) = Cardinality(S \ {a}) + 1
    BY <1>1, <1>2, <1>4, FS_AddElement
  <1> QED
    BY <1>2, <1>3, <1>5

LEMMA Removed ==
    ASSUME NEW S, NEW T, IsFiniteSet(S), NEW a \in S,
           \A s : s \in T <=> (s \in S /\ s # a)
    PROVE  IsFiniteSet(T) /\ Cardinality(T) = Cardinality(S) - 1 /\ Cardinality(S) \in Nat
  <1>1. T = S \ {a}
    OBVIOUS
  <1> QED
    BY <1>1, FS_RemoveElement, FS_CardinalityType

Workers(I) == [1..MaxWorkers -> [left : Seq(I), at : I \cup {Nothing}]]

Begun(W, w) == [W EXCEPT ![w] = [left |-> Tail(@.left), at |-> Head(@.left)]]

LEMMA WorkerBegins ==
    ASSUME NEW I, Nothing \notin I, NEW W \in Workers(I), NEW w \in 1..MaxWorkers,
           W[w].at = Nothing, W[w].left # << >>, NEW W2, W2 = Begun(W, w)
    PROVE  /\ W2 \in Workers(I)
           /\ LeftSlot(W, <<"left", w, Len(W[w].left)>>) /\ ~AtSlot(W, <<"at", w, 0>>)
           /\ \A s : LeftSlot(W2, s) <=> LeftSlot(W, s) /\ s # <<"left", w, Len(W[w].left)>>
           /\ \A s : AtSlot(W2, s) <=> AtSlot(W, s) \/ s = <<"at", w, 0>>
           /\ \A x : WithWorker(W, x) => x = Nothing \/ WithWorker(W2, x)
  <1> DEFINE q == W[w].left
  <1>1. q \in Seq(I) /\ W[w] \in [left : Seq(I), at : I \cup {Nothing}]
    BY DEF Workers
  <1>2. /\ Len(q) \in Nat \ {0} /\ Head(q) \in I /\ Tail(q) \in Seq(I)
        /\ \A k : k \in 1..Len(Tail(q)) <=> k \in 1..Len(q) /\ k # Len(q)
        /\ \A x : Has(q, x) => x = Head(q) \/ Has(Tail(q), x)
    BY <1>1, TakeFacts
  <1>3. /\ W2[w] = [left |-> Tail(q), at |-> Head(q)]
        /\ \A v \in 1..MaxWorkers : v # w => W2[v] = W[v]
    BY DEF Workers, Begun
  <1>4. W2[w].left = Tail(q) /\ W2[w].at = Head(q)
    BY <1>3
  <1>5. W2 \in Workers(I)
    BY <1>2 DEF Workers, Begun
  <1>6. Len(q) \in 1..Len(q)
    BY <1>2
  <1>7. LeftSlot(W, <<"left", w, Len(W[w].left)>>) /\ ~AtSlot(W, <<"at", w, 0>>)
    BY <1>6 DEF LeftSlot, AtSlot
  <1>8. ASSUME NEW s
        PROVE  LeftSlot(W2, s) <=> LeftSlot(W, s) /\ s # <<"left", w, Len(W[w].left)>>
    <2>1. ASSUME NEW v \in 1..MaxWorkers, NEW k
          PROVE  k \in 1..Len(W2[v].left) <=> k \in 1..Len(W[v].left) /\ <<"left", v, k>> # <<"left", w, Len(q)>>
      BY <1>2, <1>3, <1>4
    <2> QED
      BY <2>1 DEF LeftSlot
  <1>9. ASSUME NEW s
        PROVE  AtSlot(W2, s) <=> AtSlot(W, s) \/ s = <<"at", w, 0>>
    <2>1. Head(q) # Nothing
      BY <1>2
    <2> QED
      BY <1>3, <1>4, <2>1 DEF AtSlot
  <1>10. ASSUME NEW x, WithWorker(W, x), x # Nothing PROVE WithWorker(W2, x)
    <2>1. PICK v \in 1..MaxWorkers : W[v].at = x \/ Has(W[v].left, x)
      BY <1>10 DEF WithWorker
    <2>2. W2[v].at = x \/ Has(W2[v].left, x)
      BY <1>2, <1>3, <1>4, <1>10, <2>1
    <2> QED
      BY <2>2 DEF WithWorker
  <1> QED
    BY <1>5, <1>7, <1>8, <1>9, <1>10

Freed(W, w) == [W EXCEPT ![w].at = Nothing]

LEMMA WorkerSends ==
    ASSUME NEW I, NEW W \in Workers(I), NEW w \in 1..MaxWorkers, W[w].at # Nothing, NEW W2,
           W2 = Freed(W, w)
    PROVE  /\ W2 \in Workers(I) /\ W[w].at \in I
           /\ AtSlot(W, <<"at", w, 0>>)
           /\ \A s : LeftSlot(W2, s) <=> LeftSlot(W, s)
           /\ \A s : AtSlot(W2, s) <=> AtSlot(W, s) /\ s # <<"at", w, 0>>
           /\ \A x : WithWorker(W, x) => x = W[w].at \/ WithWorker(W2, x)
  <1>1. W[w] \in [left : Seq(I), at : I \cup {Nothing}]
    BY DEF Workers
  <1>2. /\ W2[w].left = W[w].left /\ W2[w].at = Nothing
        /\ \A v \in 1..MaxWorkers : v # w => W2[v] = W[v]
    BY <1>1 DEF Workers, Freed
  <1>3. W2 \in Workers(I) /\ W[w].at \in I
    BY <1>1 DEF Workers, Freed
  <1>4. \A v \in 1..MaxWorkers : W2[v].left = W[v].left
    BY <1>2
  <1>5. AtSlot(W, <<"at", w, 0>>)
    BY DEF AtSlot
  <1>6. \A s : LeftSlot(W2, s) <=> LeftSlot(W, s)
    BY <1>4 DEF LeftSlot
  <1>7. \A s : AtSlot(W2, s) <=> AtSlot(W, s) /\ s # <<"at", w, 0>>
    BY <1>2 DEF AtSlot
  <1>8. \A x : WithWorker(W, x) => x = W[w].at \/ WithWorker(W2, x)
    BY <1>2, <1>4 DEF WithWorker
  <1> QED
    BY <1>3, <1>5, <1>6, <1>7, <1>8

Requests(I) == [Types -> Seq(I)]

Askings(I) == [Types -> I \cup {Nothing}]

WithEvaluator(R, A, x) == \E p \in Types : A[p] = x \/ Has(R[p], x)

Requested(R, p, x) == [R EXCEPT ![p] = Append(@, x)]

LEMMA RequestSent ==
    ASSUME NEW I, NEW R \in Requests(I), NEW p \in Types, NEW x \in I, NEW R2,
           R2 = Requested(R, p, x)
    PROVE  /\ R2 \in Requests(I)
           /\ ~SentSlot(R, <<"request", p, Len(R[p]) + 1>>)
           /\ \A s : SentSlot(R2, s) <=> SentSlot(R, s) \/ s = <<"request", p, Len(R[p]) + 1>>
           /\ \A A, y : WithEvaluator(R, A, y) => WithEvaluator(R2, A, y)
           /\ \A A : WithEvaluator(R2, A, x)
  <1> DEFINE q == R[p]
             n == Len(q) + 1
  <1>1. q \in Seq(I)
    BY DEF Requests
  <1>2. /\ Len(q) \in Nat
        /\ Append(q, x) \in Seq(I)
        /\ \A k : k \in 1..Len(Append(q, x)) <=> k \in 1..Len(q) \/ k = n
        /\ \A y : Has(q, y) => Has(Append(q, x), y)
        /\ Has(Append(q, x), x)
    BY <1>1, PutFacts
  <1>3. R2[p] = Append(q, x) /\ \A t \in Types : t # p => R2[t] = R[t]
    BY DEF Requested, Requests
  <1>4. R2 \in Requests(I)
    BY <1>2 DEF Requested, Requests
  <1>5. n \notin 1..Len(q)
    BY <1>2
  <1>6. ~SentSlot(R, <<"request", p, n>>)
    BY <1>5 DEF SentSlot
  <1>7. ASSUME NEW s PROVE SentSlot(R2, s) <=> SentSlot(R, s) \/ s = <<"request", p, n>>
    <2>1. ASSUME NEW t \in Types, NEW k
          PROVE  k \in 1..Len(R2[t]) <=> k \in 1..Len(R[t]) \/ (t = p /\ k = n)
      BY <1>2, <1>3
    <2> QED
      BY <2>1 DEF SentSlot
  <1>8. \A A, y : WithEvaluator(R, A, y) => WithEvaluator(R2, A, y)
    BY <1>2, <1>3 DEF WithEvaluator
  <1>9. \A A : WithEvaluator(R2, A, x)
    BY <1>2, <1>3 DEF WithEvaluator
  <1> QED
    BY <1>4, <1>6, <1>7, <1>8, <1>9

Rest(R, p) == [R EXCEPT ![p] = Tail(@)]

Asking(A, p, x) == [A EXCEPT ![p] = x]

LEMMA RequestTaken ==
    ASSUME NEW I, Nothing \notin I, NEW R \in Requests(I), NEW A \in Askings(I),
           NEW p \in Types, A[p] = Nothing, R[p] # << >>, NEW R2, NEW A2,
           R2 = Rest(R, p), A2 = Asking(A, p, Head(R[p]))
    PROVE  /\ R2 \in Requests(I) /\ A2 \in Askings(I)
           /\ SentSlot(R, <<"request", p, Len(R[p])>>) /\ ~AskedSlot(A, <<"asking", p, 0>>)
           /\ \A s : SentSlot(R2, s) <=> SentSlot(R, s) /\ s # <<"request", p, Len(R[p])>>
           /\ \A s : AskedSlot(A2, s) <=> AskedSlot(A, s) \/ s = <<"asking", p, 0>>
           /\ \A y : WithEvaluator(R, A, y) => y = Nothing \/ WithEvaluator(R2, A2, y)
  <1> DEFINE q == R[p]
             n == Len(q)
  <1>1. q \in Seq(I)
    BY DEF Requests
  <1>2. /\ Len(q) \in Nat \ {0} /\ Head(q) \in I /\ Tail(q) \in Seq(I)
        /\ \A k : k \in 1..Len(Tail(q)) <=> k \in 1..Len(q) /\ k # Len(q)
        /\ \A x : Has(q, x) => x = Head(q) \/ Has(Tail(q), x)
    BY <1>1, TakeFacts
  <1>3. /\ R2[p] = Tail(q) /\ A2[p] = Head(q)
        /\ \A t \in Types : t # p => R2[t] = R[t] /\ A2[t] = A[t]
    BY DEF Rest, Asking, Requests, Askings
  <1>4. R2 \in Requests(I) /\ A2 \in Askings(I)
    BY <1>2 DEF Rest, Asking, Requests, Askings
  <1>5. n \in 1..n
    BY <1>2
  <1>6. SentSlot(R, <<"request", p, n>>) /\ ~AskedSlot(A, <<"asking", p, 0>>)
    BY <1>5 DEF SentSlot, AskedSlot
  <1>7. ASSUME NEW s PROVE SentSlot(R2, s) <=> SentSlot(R, s) /\ s # <<"request", p, n>>
    <2>1. ASSUME NEW t \in Types, NEW k
          PROVE  k \in 1..Len(R2[t]) <=> k \in 1..Len(R[t]) /\ <<"request", t, k>> # <<"request", p, n>>
      BY <1>2, <1>3
    <2> QED
      BY <2>1 DEF SentSlot
  <1>8. \A s : AskedSlot(A2, s) <=> AskedSlot(A, s) \/ s = <<"asking", p, 0>>
    BY <1>2, <1>3 DEF AskedSlot
  <1>9. \A y : WithEvaluator(R, A, y) => y = Nothing \/ WithEvaluator(R2, A2, y)
    BY <1>2, <1>3 DEF WithEvaluator
  <1> QED
    BY <1>4, <1>6, <1>7, <1>8, <1>9

LEMMA EvaluatorAnswers ==
    ASSUME NEW I, NEW A \in Askings(I), NEW p \in Types, A[p] # Nothing, NEW A2,
           A2 = Asking(A, p, Nothing)
    PROVE  /\ A2 \in Askings(I) /\ A[p] \in I
           /\ AskedSlot(A, <<"asking", p, 0>>)
           /\ \A s : AskedSlot(A2, s) <=> AskedSlot(A, s) /\ s # <<"asking", p, 0>>
           /\ \A R, y : WithEvaluator(R, A, y) => y = A[p] \/ WithEvaluator(R, A2, y)
  <1>1. A2[p] = Nothing /\ \A t \in Types : t # p => A2[t] = A[t]
    BY DEF Asking, Askings
  <1>2. A2 \in Askings(I) /\ A[p] \in I
    BY DEF Asking, Askings
  <1>3. AskedSlot(A, <<"asking", p, 0>>)
    BY DEF AskedSlot
  <1>4. \A s : AskedSlot(A2, s) <=> AskedSlot(A, s) /\ s # <<"asking", p, 0>>
    BY <1>1 DEF AskedSlot
  <1>5. \A R, y : WithEvaluator(R, A, y) => y = A[p] \/ WithEvaluator(R, A2, y)
    BY <1>1 DEF WithEvaluator
  <1> QED
    BY <1>2, <1>3, <1>4, <1>5

Answered(Q, k) == \E j \in DOMAIN Q : Q[j].key = k

LEMMA ResultSent ==
    ASSUME NEW S, NEW Q \in Seq(S), NEW r \in S
    PROVE  /\ Append(Q, r) \in Seq(S)
           /\ ~AnswerSlot(Q, <<"result", 0, Len(Q) + 1>>)
           /\ \A s : AnswerSlot(Append(Q, r), s) <=> AnswerSlot(Q, s) \/ s = <<"result", 0, Len(Q) + 1>>
           /\ \A k : Answered(Q, k) => Answered(Append(Q, r), k)
           /\ Answered(Append(Q, r), r.key)
  <1>1. /\ Len(Q) \in Nat /\ Append(Q, r) \in Seq(S)
        /\ \A k : k \in 1..Len(Append(Q, r)) <=> k \in 1..Len(Q) \/ k = Len(Q) + 1
        /\ \A x : Has(Q, x) => Has(Append(Q, r), x)
        /\ Has(Append(Q, r), r)
    BY PutFacts
  <1>2. ~(Len(Q) + 1 \in 1..Len(Q))
    BY <1>1
  <1>3. \A s : AnswerSlot(Append(Q, r), s) <=> AnswerSlot(Q, s) \/ s = <<"result", 0, Len(Q) + 1>>
    BY <1>1 DEF AnswerSlot
  <1>4. ~AnswerSlot(Q, <<"result", 0, Len(Q) + 1>>)
    BY <1>2 DEF AnswerSlot
  <1>5. \A k : Answered(Q, k) => Answered(Append(Q, r), k)
    BY <1>1 DEF Answered, Has
  <1>6. Answered(Append(Q, r), r.key)
    BY <1>1 DEF Answered, Has
  <1> QED
    BY <1>1, <1>3, <1>4, <1>5, <1>6

LEMMA ResultTaken ==
    ASSUME NEW S, NEW Q \in Seq(S), Q # << >>
    PROVE  /\ Tail(Q) \in Seq(S) /\ Head(Q) \in S
           /\ AnswerSlot(Q, <<"result", 0, Len(Q)>>)
           /\ \A s : AnswerSlot(Tail(Q), s) <=> AnswerSlot(Q, s) /\ s # <<"result", 0, Len(Q)>>
           /\ \A k : Answered(Q, k) => k = Head(Q).key \/ Answered(Tail(Q), k)
  <1>1. /\ Len(Q) \in Nat \ {0} /\ Head(Q) \in S
        /\ Tail(Q) \in Seq(S)
        /\ \A k : k \in 1..Len(Tail(Q)) <=> k \in 1..Len(Q) /\ k # Len(Q)
        /\ \A x : Has(Q, x) => x = Head(Q) \/ Has(Tail(Q), x)
    BY TakeFacts
  <1>2. Len(Q) \in 1..Len(Q)
    BY <1>1
  <1>3. AnswerSlot(Q, <<"result", 0, Len(Q)>>)
    BY <1>2 DEF AnswerSlot
  <1>4. \A s : AnswerSlot(Tail(Q), s) <=> AnswerSlot(Q, s) /\ s # <<"result", 0, Len(Q)>>
    BY <1>1 DEF AnswerSlot
  <1>5. \A k : Answered(Q, k) => k = Head(Q).key \/ Answered(Tail(Q), k)
    BY <1>1 DEF Answered, Has
  <1> QED
    BY <1>1, <1>3, <1>4, <1>5

\* A step of the pool moves one task from one slot to another.
SameCount(S, T) == IsFiniteSet(S) => IsFiniteSet(T) /\ Cardinality(T) = Cardinality(S)

LEMMA OneMoved ==
    ASSUME NEW W, NEW R, NEW A, NEW Q, NEW W2, NEW R2, NEW A2, NEW Q2, NEW a, NEW b,
           a \in SlotsOf(W, R, A, Q), ~(b \in SlotsOf(W, R, A, Q)),
           \A s : s \in SlotsOf(W2, R2, A2, Q2) <=> (s \in SlotsOf(W, R, A, Q) /\ s # a) \/ s = b
    PROVE  SameCount(SlotsOf(W, R, A, Q), SlotsOf(W2, R2, A2, Q2))
  BY Moved DEF SameCount

LEMMA BeginMoves ==
    ASSUME NEW W, NEW W2, NEW R, NEW A, NEW Q, NEW w, NEW n,
           LeftSlot(W, <<"left", w, n>>), ~AtSlot(W, <<"at", w, 0>>),
           \A s : LeftSlot(W2, s) <=> LeftSlot(W, s) /\ s # <<"left", w, n>>,
           \A s : AtSlot(W2, s) <=> AtSlot(W, s) \/ s = <<"at", w, 0>>
    PROVE  SameCount(SlotsOf(W, R, A, Q), SlotsOf(W2, R, A, Q))
  <1>1. <<"left", w, n>> \in SlotsOf(W, R, A, Q)
    BY SlotMembers
  <1>2. ~(<<"at", w, 0>> \in SlotsOf(W, R, A, Q))
    BY SlotMembers, SlotKinds
  <1>3. \A s : s \in SlotsOf(W2, R, A, Q) <=>
                  (s \in SlotsOf(W, R, A, Q) /\ s # <<"left", w, n>>) \/ s = <<"at", w, 0>>
    BY SlotMembers, SlotKinds
  <1> QED
    BY <1>1, <1>2, <1>3, OneMoved

LEMMA RequestMoves ==
    ASSUME NEW W, NEW W2, NEW R, NEW R2, NEW A, NEW Q, NEW w, NEW p, NEW n,
           AtSlot(W, <<"at", w, 0>>), ~SentSlot(R, <<"request", p, n>>),
           \A s : LeftSlot(W2, s) <=> LeftSlot(W, s),
           \A s : AtSlot(W2, s) <=> AtSlot(W, s) /\ s # <<"at", w, 0>>,
           \A s : SentSlot(R2, s) <=> SentSlot(R, s) \/ s = <<"request", p, n>>
    PROVE  SameCount(SlotsOf(W, R, A, Q), SlotsOf(W2, R2, A, Q))
  <1>1. <<"at", w, 0>> \in SlotsOf(W, R, A, Q)
    BY SlotMembers
  <1>2. ~(<<"request", p, n>> \in SlotsOf(W, R, A, Q))
    BY SlotMembers, SlotKinds
  <1>3. \A s : s \in SlotsOf(W2, R2, A, Q) <=>
                  (s \in SlotsOf(W, R, A, Q) /\ s # <<"at", w, 0>>) \/ s = <<"request", p, n>>
    BY SlotMembers, SlotKinds
  <1> QED
    BY <1>1, <1>2, <1>3, OneMoved

LEMMA ErrorMoves ==
    ASSUME NEW W, NEW W2, NEW R, NEW A, NEW Q, NEW Q2, NEW w, NEW n,
           AtSlot(W, <<"at", w, 0>>), ~AnswerSlot(Q, <<"result", 0, n>>),
           \A s : LeftSlot(W2, s) <=> LeftSlot(W, s),
           \A s : AtSlot(W2, s) <=> AtSlot(W, s) /\ s # <<"at", w, 0>>,
           \A s : AnswerSlot(Q2, s) <=> AnswerSlot(Q, s) \/ s = <<"result", 0, n>>
    PROVE  SameCount(SlotsOf(W, R, A, Q), SlotsOf(W2, R, A, Q2))
  <1>1. <<"at", w, 0>> \in SlotsOf(W, R, A, Q)
    BY SlotMembers
  <1>2. ~(<<"result", 0, n>> \in SlotsOf(W, R, A, Q))
    BY SlotMembers, SlotKinds
  <1>3. \A s : s \in SlotsOf(W2, R, A, Q2) <=>
                  (s \in SlotsOf(W, R, A, Q) /\ s # <<"at", w, 0>>) \/ s = <<"result", 0, n>>
    BY SlotMembers, SlotKinds
  <1> QED
    BY <1>1, <1>2, <1>3, OneMoved

LEMMA TakeMoves ==
    ASSUME NEW W, NEW R, NEW R2, NEW A, NEW A2, NEW Q, NEW p, NEW n,
           SentSlot(R, <<"request", p, n>>), ~AskedSlot(A, <<"asking", p, 0>>),
           \A s : SentSlot(R2, s) <=> SentSlot(R, s) /\ s # <<"request", p, n>>,
           \A s : AskedSlot(A2, s) <=> AskedSlot(A, s) \/ s = <<"asking", p, 0>>
    PROVE  SameCount(SlotsOf(W, R, A, Q), SlotsOf(W, R2, A2, Q))
  <1>1. <<"request", p, n>> \in SlotsOf(W, R, A, Q)
    BY SlotMembers
  <1>2. ~(<<"asking", p, 0>> \in SlotsOf(W, R, A, Q))
    BY SlotMembers, SlotKinds
  <1>3. \A s : s \in SlotsOf(W, R2, A2, Q) <=>
                  (s \in SlotsOf(W, R, A, Q) /\ s # <<"request", p, n>>) \/ s = <<"asking", p, 0>>
    BY SlotMembers, SlotKinds
  <1> QED
    BY <1>1, <1>2, <1>3, OneMoved

LEMMA AnswerMoves ==
    ASSUME NEW W, NEW R, NEW A, NEW A2, NEW Q, NEW Q2, NEW p, NEW n,
           AskedSlot(A, <<"asking", p, 0>>), ~AnswerSlot(Q, <<"result", 0, n>>),
           \A s : AskedSlot(A2, s) <=> AskedSlot(A, s) /\ s # <<"asking", p, 0>>,
           \A s : AnswerSlot(Q2, s) <=> AnswerSlot(Q, s) \/ s = <<"result", 0, n>>
    PROVE  SameCount(SlotsOf(W, R, A, Q), SlotsOf(W, R, A2, Q2))
  <1>1. <<"asking", p, 0>> \in SlotsOf(W, R, A, Q)
    BY SlotMembers
  <1>2. ~(<<"result", 0, n>> \in SlotsOf(W, R, A, Q))
    BY SlotMembers, SlotKinds
  <1>3. \A s : s \in SlotsOf(W, R, A2, Q2) <=>
                  (s \in SlotsOf(W, R, A, Q) /\ s # <<"asking", p, 0>>) \/ s = <<"result", 0, n>>
    BY SlotMembers, SlotKinds
  <1> QED
    BY <1>1, <1>2, <1>3, OneMoved

\* And the collector removes one.
LEMMA CollectRemoves ==
    ASSUME NEW W, NEW R, NEW A, NEW Q, NEW Q2, NEW n, IsFiniteSet(SlotsOf(W, R, A, Q)),
           AnswerSlot(Q, <<"result", 0, n>>),
           \A s : AnswerSlot(Q2, s) <=> AnswerSlot(Q, s) /\ s # <<"result", 0, n>>
    PROVE  /\ IsFiniteSet(SlotsOf(W, R, A, Q2)) /\ Cardinality(SlotsOf(W, R, A, Q)) \in Nat
           /\ Cardinality(SlotsOf(W, R, A, Q2)) = Cardinality(SlotsOf(W, R, A, Q)) - 1
  <1>1. <<"result", 0, n>> \in SlotsOf(W, R, A, Q)
    BY SlotMembers
  <1>2. \A s : s \in SlotsOf(W, R, A, Q2) <=> s \in SlotsOf(W, R, A, Q) /\ s # <<"result", 0, n>>
    BY SlotMembers, SlotKinds
  <1> QED
    BY <1>1, <1>2, Removed

-----------------------------------------------------------------------------
(***************************************************************************)
(* The inductive invariant.                                                *)
(***************************************************************************)
Indices(d) == DOMAIN Definitions[d]

\* An answer that is kept under key k is for the timeframe tf and a template with
\* this key.
Fits(v, k, tf) == IsAnswer(v) => v.timeframe = tf /\ KeyOf[v.template] = k

\* What VerdictRestsOnValues says of the status of the analysis, for any status.
Sound(s) ==
    /\ s.rawDef \in 1..Len(Definitions)
    /\ \A i \in Indices(s.rawDef) :
          LET v == s.raw[ComputeKey(Definitions[s.rawDef][i])]
          IN  IsAnswer(v) /\ Fits(v, ComputeKey(Definitions[s.rawDef][i]), s.timeframe)
    /\ s.verdict = Verdict(ByTemplate(s.raw), Definitions[s.rawDef], TotalScore)

StatusOK(s) ==
    /\ s \in Statuses
    /\ \A k \in Keys : Fits(s.stored[k], k, s.timeframe)
    /\ s.state = "Completed" => Sound(s)

Recs ==
    [pc : {"idle", "collect", "update"}, base : Statuses, status : Statuses,
     def : 0..Len(Definitions), todo : Nat, collected : Nat,
     values : [Keys -> ProviderResults], done : [Keys -> ProviderResults], err : BOOLEAN]

\* What is in the channel of results.
Sendable(tf) ==
    {r \in [key : Keys, result : ProviderResults] :
        r.result.kind # "missing" /\ Fits(r.result, r.key, tf)}

RecOK ==
    /\ rec \in Recs /\ rec.collected <= rec.todo
    /\ StatusOK(rec.status)
    /\ rec.pc = "collect" =>
        /\ rec.def = def
        /\ rec.status.state # "Completed" /\ rec.status.timeframe # 0
        /\ \A k \in Keys : /\ Fits(rec.values[k], k, rec.status.timeframe)
                           /\ Fits(rec.done[k], k, rec.status.timeframe)
                           /\ rec.err \/ rec.values[k].kind # "error"

EmptyPool ==
    worker = IdleWorkers /\ requests = NoRequests /\ asking = NobodyAsking /\ results = << >>

\* Between two collections there is no pool.
PoolOK ==
    /\ rec.pc = "collect" =>
        /\ worker \in Workers(Indices(rec.def))
        /\ requests \in Requests(Indices(rec.def))
        /\ asking \in Askings(Indices(rec.def))
        /\ results \in Seq(Sendable(rec.status.timeframe))
    /\ rec.pc # "collect" => EmptyPool

\* The collector still takes every result: once its context has ended it may give
\* up, and the workers leave tasks.
Live == ~ctxDone \/ (AllCollected /\ ~rec.err)

Slots == SlotsOf(worker, requests, asking, results)

KeyAt(i) == KeyOf[Template(i)]

\* An objective is in sight: in the pool, or there is an answer with its key.
Located(i) ==
    \/ WithWorker(worker, i) \/ WithEvaluator(requests, asking, i) \/ Answered(results, KeyAt(i))
    \/ rec.values[KeyAt(i)].kind # "missing" \/ IsAnswer(rec.done[KeyAt(i)])

CountOK ==
    rec.pc = "collect" /\ Live =>
        /\ IsFiniteSet(Slots) /\ Cardinality(Slots) + rec.collected = rec.todo
        /\ \A i \in Indices(rec.def) : Located(i)

RestOK ==
    /\ StatusOK(analysis) /\ StatusOK(cache)
    /\ def \in 1..Len(Definitions) /\ clock \in 1..MaxClock /\ faults \in 0..MaxFaults
    /\ queued \in BOOLEAN /\ ctxDone \in BOOLEAN /\ stray \in BOOLEAN /\ restarted \in BOOLEAN
    /\ reports \subseteq 1..MaxClock /\ gauge \subseteq 1..MaxClock

Invariant == RestOK /\ RecOK /\ PoolOK /\ CountOK

LEMMA DefinitionFacts ==
    ASSUME NEW d \in 1..Len(Definitions)
    PROVE  /\ Definitions[d] \in Seq(Objectives)
           /\ Len(Definitions[d]) \in Nat /\ Indices(d) = 1..Len(Definitions[d])
           /\ Nothing \notin Indices(d)
           /\ \A i \in Indices(d) : /\ Definitions[d][i].template \in Templates
                                    /\ ProviderOf[Definitions[d][i].template] \in Types
                                    /\ ComputeKey(Definitions[d][i]) \in Keys
                                    /\ ComputeKey(Definitions[d][i]) = KeyOf[Definitions[d][i].template]
  <1>1. Definitions[d] \in Seq(Objectives)
    BY AnalysisAssumption
  <1>2. Len(Definitions[d]) \in Nat /\ Indices(d) = 1..Len(Definitions[d])
    BY <1>1 DEF Indices
  <1>3. Nothing \notin Indices(d)
    BY <1>2 DEF Nothing
  <1>4. ASSUME NEW i \in Indices(d) PROVE Definitions[d][i].template \in Templates
    <2>1. Definitions[d][i] \in Objectives
      BY <1>1 DEF Indices
    <2> QED
      BY <2>1 DEF Objectives
  <1> QED
    BY <1>1, <1>2, <1>3, <1>4, AnalysisAssumption DEF Types, ComputeKey

LEMMA ResultFacts ==
    /\ Missing \in ProviderResults /\ Failed \in ProviderResults
    /\ NoValues \in [Keys -> ProviderResults]
    /\ \A k \in Keys : NoValues[k].kind = "missing"
    /\ Missing.kind = "missing" /\ Failed.kind = "error"
    /\ \A v \in ProviderResults :
          /\ v.kind \in {"value", "blank", "missing", "error"}
          /\ IsAnswer(v) => v.timeframe \in 1..MaxClock
    /\ ~IsAnswer(Missing) /\ ~IsAnswer(Failed)
  BY DEF ProviderResults, NoValues, Missing, Failed, IsAnswer

LEMMA NewStatusOK == StatusOK(NewStatus)
  <1>1. NewStatus \in Statuses
    BY ResultFacts, AnalysisAssumption DEF NewStatus, Statuses
  <1> QED
    BY <1>1, ResultFacts DEF StatusOK, NewStatus, Fits, IsAnswer

LEMMA NoRecOK == NoRec \in Recs /\ NoRec.pc = "idle" /\ NoRec.collected <= NoRec.todo /\ StatusOK(NoRec.status)
  <1>1. NewStatus \in Statuses /\ Len(Definitions) \in Nat
    BY NewStatusOK, AnalysisAssumption DEF StatusOK
  <1> QED
    BY <1>1, ResultFacts, NewStatusOK DEF NoRec, Recs

\* The invariant of a pool that is not there.
LEMMA Idle ==
    ASSUME rec' \in Recs, rec'.pc # "collect", StatusOK(rec'.status), rec'.collected <= rec'.todo,
           EmptyPool'
    PROVE  RecOK' /\ PoolOK' /\ CountOK'
  BY DEF RecOK, PoolOK, CountOK

LEMMA InitInvariant == Init => Invariant
  <1> SUFFICES ASSUME Init PROVE Invariant
    OBVIOUS
  <1>1. RestOK
    <2>1. Len(Definitions) \in Nat \ {0} /\ 1 \in 1..Len(Definitions) /\ 1 \in 1..MaxClock /\ 0 \in 0..MaxFaults
      BY AnalysisAssumption
    <2>2. /\ StatusOK(analysis) /\ StatusOK(cache)
          /\ def \in 1..Len(Definitions) /\ clock \in 1..MaxClock /\ faults \in 0..MaxFaults
      BY <2>1, NewStatusOK DEF Init
    <2>3. queued \in BOOLEAN /\ ctxDone \in BOOLEAN /\ stray \in BOOLEAN /\ restarted \in BOOLEAN
      BY DEF Init
    <2>4. reports \subseteq 1..MaxClock /\ gauge \subseteq 1..MaxClock
      BY DEF Init
    <2> QED
      BY <2>2, <2>3, <2>4 DEF RestOK
  <1>2. RecOK /\ PoolOK /\ CountOK
    BY NoRecOK DEF Init, RecOK, PoolOK, CountOK, EmptyPool
  <1> QED
    BY <1>1, <1>2 DEF Invariant

\* An empty pool, and what it means that no slot is taken.
LEMMA NoSlots ==
    ASSUME NEW I, NEW W \in Workers(I), NEW R \in Requests(I), NEW A, NEW S, NEW Q \in Seq(S)
    PROVE  SlotsOf(W, R, A, Q) = {} <=>
              /\ \A w \in 1..MaxWorkers : W[w].left = << >> /\ W[w].at = Nothing
              /\ \A p \in Types : R[p] = << >> /\ A[p] = Nothing
              /\ Q = << >>
  <1>1. \A T : \A q \in Seq(T) :
          /\ Len(q) \in Nat
          /\ q # << >> => 1 \in 1..Len(q)
          /\ q = << >> => 1..Len(q) = {}
    OBVIOUS
  <1>2. \A w \in 1..MaxWorkers : W[w].left \in Seq(I)
    BY DEF Workers
  <1>3. ASSUME SlotsOf(W, R, A, Q) = {}
        PROVE  /\ \A w \in 1..MaxWorkers : W[w].left = << >> /\ W[w].at = Nothing
               /\ \A p \in Types : R[p] = << >> /\ A[p] = Nothing
               /\ Q = << >>
    <2>1. \A s : ~LeftSlot(W, s) /\ ~AtSlot(W, s) /\ ~SentSlot(R, s) /\ ~AskedSlot(A, s) /\ ~AnswerSlot(Q, s)
      BY <1>3, SlotMembers
    <2>2. ASSUME NEW w \in 1..MaxWorkers PROVE W[w].left = << >> /\ W[w].at = Nothing
      <3>1. ~LeftSlot(W, <<"left", w, 1>>) /\ ~AtSlot(W, <<"at", w, 0>>)
        BY <2>1
      <3> QED
        BY <1>1, <1>2, <3>1 DEF LeftSlot, AtSlot
    <2>3. ASSUME NEW p \in Types PROVE R[p] = << >> /\ A[p] = Nothing
      <3>1. ~SentSlot(R, <<"request", p, 1>>) /\ ~AskedSlot(A, <<"asking", p, 0>>)
        BY <2>1
      <3> QED
        BY <1>1, <3>1 DEF SentSlot, AskedSlot, Requests
    <2>4. Q = << >>
      <3>1. ~AnswerSlot(Q, <<"result", 0, 1>>)
        BY <2>1
      <3> QED
        BY <1>1, <3>1 DEF AnswerSlot
    <2> QED
      BY <2>2, <2>3, <2>4
  <1>4. ASSUME \A w \in 1..MaxWorkers : W[w].left = << >> /\ W[w].at = Nothing,
               \A p \in Types : R[p] = << >> /\ A[p] = Nothing,
               Q = << >>
        PROVE  SlotsOf(W, R, A, Q) = {}
    <2>1. \A s : ~LeftSlot(W, s)
      BY <1>1, <1>2, <1>4 DEF LeftSlot
    <2>2. \A s : ~AtSlot(W, s)
      BY <1>4 DEF AtSlot
    <2>3. \A s : ~SentSlot(R, s)
      BY <1>1, <1>4 DEF SentSlot, Requests
    <2>4. \A s : ~AskedSlot(A, s)
      BY <1>4 DEF AskedSlot
    <2>5. \A s : ~AnswerSlot(Q, s)
      BY <1>1, <1>4 DEF AnswerSlot
    <2>6. \A s : ~(s \in SlotsOf(W, R, A, Q))
      BY <2>1, <2>2, <2>3, <2>4, <2>5, SlotMembers
    <2> QED
      BY <2>6
  <1> QED
    BY <1>3, <1>4

-----------------------------------------------------------------------------
(***************************************************************************)
(* Every step keeps it.                                                    *)
(***************************************************************************)
LEMMA Unmoved ==
    ASSUME RecOK, PoolOK, CountOK, UNCHANGED <<rec, worker, requests, asking, results, ctxDone>>,
           rec.pc = "collect" => def' = def
    PROVE  RecOK' /\ PoolOK' /\ CountOK'
  <1>1. RecOK'
    BY DEF RecOK
  <1>2. PoolOK'
    BY DEF PoolOK, EmptyPool
  <1>3. CountOK'
    BY DEF CountOK, Live, AllCollected, Slots, Located, KeyAt, Template
  <1> QED
    BY <1>1, <1>2, <1>3

LEMMA FaultFacts == ASSUME Fault, faults \in 0..MaxFaults PROVE faults' \in 0..MaxFaults
  BY AnalysisAssumption DEF Fault

LEMMA Environment ==
    ASSUME Invariant,
           AlreadyCompleted \/ SyncCache \/ EditDefinition \/ Tick \/ ReportResult
    PROVE  Invariant'
  <1>1. RecOK /\ PoolOK /\ CountOK /\ RestOK
    BY DEF Invariant
  <1>2. RecOK' /\ PoolOK' /\ CountOK'
    <2>1. UNCHANGED <<rec, worker, requests, asking, results, ctxDone>> /\ (rec.pc = "collect" => def' = def)
      BY DEF AlreadyCompleted, SyncCache, EditDefinition, Tick, ReportResult, poolVars, Serve
    <2> QED
      BY <1>1, <2>1, Unmoved
  <1>3. RestOK'
    <2>0. Len(Definitions) \in Nat /\ MaxClock \in Nat
      BY AnalysisAssumption
    <2>1. CASE AlreadyCompleted
      BY <1>1, <2>1 DEF RestOK, AlreadyCompleted, Serve, poolVars
    <2>2. CASE SyncCache
      BY <1>1, <2>2 DEF RestOK, SyncCache, poolVars
    <2>3. CASE EditDefinition
      <3>1. def' \in 1..Len(Definitions)
        BY <1>1, <2>0, <2>3 DEF RestOK, EditDefinition
      <3> QED
        BY <1>1, <2>3, <3>1 DEF RestOK, EditDefinition, poolVars
    <2>4. CASE Tick
      <3>1. clock' \in 1..MaxClock
        BY <1>1, <2>0, <2>4 DEF RestOK, Tick
      <3> QED
        BY <1>1, <2>4, <3>1 DEF RestOK, Tick, poolVars
    <2>5. CASE ReportResult
      BY <1>1, <2>5 DEF RestOK, ReportResult, poolVars
    <2> QED
      BY <2>1, <2>2, <2>3, <2>4, <2>5
  <1> QED
    BY <1>2, <1>3 DEF Invariant

LEMMA TimeframeSet ==
    ASSUME NEW s, StatusOK(s), clock \in 1..MaxClock, s.state # "Completed"
    PROVE  /\ StatusOK(EnsureTimeframeIsSet(s))
           /\ EnsureTimeframeIsSet(s).stored = s.stored
           /\ EnsureTimeframeIsSet(s).state = s.state
           /\ EnsureTimeframeIsSet(s).timeframe \in 1..MaxClock
  <1>0. s \in Statuses /\ s.timeframe \in 0..MaxClock /\ MaxClock \in Nat
        /\ \A k \in Keys : s.stored[k] \in ProviderResults
    BY AnalysisAssumption DEF StatusOK, Statuses
  <1>1. CASE s.timeframe = 0
    <2> DEFINE e == [s EXCEPT !.timeframe = clock]
    <2>1. EnsureTimeframeIsSet(s) = e
      BY <1>1 DEF EnsureTimeframeIsSet
    <2>2. e \in Statuses /\ e.stored = s.stored /\ e.state = s.state /\ e.timeframe = clock
      BY <1>0 DEF Statuses
    <2>3. ASSUME NEW k \in Keys PROVE Fits(e.stored[k], k, e.timeframe)
      <3>1. Fits(s.stored[k], k, 0) /\ s.stored[k] \in ProviderResults
        BY <1>0, <1>1 DEF StatusOK
      <3>2. ~IsAnswer(s.stored[k])
        BY <1>0, <3>1, ResultFacts DEF Fits
      <3> QED
        BY <2>2, <3>2 DEF Fits
    <2> HIDE DEF e
    <2> QED
      BY <2>1, <2>2, <2>3 DEF StatusOK
  <1>2. CASE s.timeframe # 0
    BY <1>0, <1>2 DEF EnsureTimeframeIsSet
  <1> QED
    BY <1>1, <1>2

LEMMA NotFoundStep == ASSUME Invariant, DefinitionNotFound PROVE Invariant'
  <1>1. RecOK /\ PoolOK /\ CountOK /\ RestOK
    BY DEF Invariant
  <1>2. RestOK'
    <2>1. faults' \in 0..MaxFaults
      BY <1>1, FaultFacts DEF RestOK, DefinitionNotFound
    <2> QED
      BY <1>1, <2>1 DEF RestOK, DefinitionNotFound, Serve, poolVars
  <1> DEFINE s == EnsureTimeframeIsSet(cache)
  <1>3. StatusOK(s) /\ s \in Statuses /\ cache \in Statuses
    BY <1>1, TimeframeSet DEF RestOK, DefinitionNotFound, StatusOK
  <1> HIDE DEF s
  <1>4. rec' = [NoRec EXCEPT !.pc = "update", !.base = cache, !.status = s, !.err = TRUE]
    BY DEF DefinitionNotFound, s
  <1>5. rec' \in Recs /\ rec'.pc = "update" /\ rec'.status = s /\ rec'.collected <= rec'.todo
    <2>1. NoRec \in Recs /\ NoRec.collected <= NoRec.todo
      BY NoRecOK
    <2> HIDE DEF NoRec
    <2> QED
      BY <1>3, <1>4, <2>1 DEF Recs
  <1>6. EmptyPool'
    BY <1>1 DEF PoolOK, DefinitionNotFound, Serve, EmptyPool, poolVars
  <1>7. RecOK' /\ PoolOK' /\ CountOK'
    BY <1>3, <1>5, <1>6, Idle
  <1> QED
    BY <1>2, <1>7 DEF Invariant

LEMMA RestartStep == ASSUME Invariant, Panic \/ Crash PROVE Invariant'
  <1>1. RestOK /\ Restart
    BY DEF Invariant, Panic, Crash
  <1>2. faults' \in 0..MaxFaults
    BY <1>1, FaultFacts DEF RestOK, Panic, Crash
  <1>3. RestOK'
    BY <1>1, <1>2 DEF RestOK, Restart, NoPool
  <1>4. RecOK' /\ PoolOK' /\ CountOK'
    <2>1. rec' = NoRec /\ EmptyPool'
      BY <1>1 DEF Restart, NoPool, EmptyPool
    <2> QED
      BY <2>1, NoRecOK, Idle
  <1> QED
    BY <1>3, <1>4 DEF Invariant

LEMMA UpdateStep == ASSUME Invariant, UpdateStatus PROVE Invariant'
  <1>1. RecOK /\ PoolOK /\ RestOK
    BY DEF Invariant
  <1>2. StatusOK(analysis') /\ faults' \in 0..MaxFaults /\ queued' \in BOOLEAN
    <2>1. StatusOK(rec.status) /\ StatusOK(analysis) /\ faults \in 0..MaxFaults /\ rec.err \in BOOLEAN
      BY <1>1 DEF RecOK, RestOK, Recs
    <2>2. analysis' \in {analysis, rec.status} /\ (faults' = faults \/ Fault) /\ queued' \in {TRUE, rec.err}
      BY DEF UpdateStatus
    <2> QED
      BY <2>1, <2>2, FaultFacts
  <1>3. RestOK'
    BY <1>1, <1>2 DEF RestOK, UpdateStatus, poolVars
  <1>4. RecOK' /\ PoolOK' /\ CountOK'
    <2>1. rec' = NoRec /\ EmptyPool'
      BY <1>1 DEF PoolOK, UpdateStatus, EmptyPool, poolVars
    <2> QED
      BY <2>1, NoRecOK, Idle
  <1> QED
    BY <1>3, <1>4 DEF Invariant

\* A step that leaves the reconciliation alone and moves a task.
LEMMA PoolStep ==
    ASSUME Invariant, rec.pc = "collect", UNCHANGED <<rec, def>>,
           worker' \in Workers(Indices(rec.def)),
           requests' \in Requests(Indices(rec.def)),
           asking' \in Askings(Indices(rec.def)),
           results' \in Seq(Sendable(rec.status.timeframe)),
           Live' => Live,
           Live => SameCount(Slots, Slots') /\ \A i \in Indices(rec.def) : Located(i) => Located(i)'
    PROVE  RecOK' /\ PoolOK' /\ CountOK'
  <1>1. RecOK'
    BY DEF Invariant, RecOK
  <1>2. PoolOK'
    BY DEF Invariant, PoolOK
  <1>3. ASSUME Live' PROVE /\ IsFiniteSet(Slots') /\ Cardinality(Slots') + rec'.collected = rec'.todo
                           /\ \A i \in Indices(rec'.def) : Located(i)'
    <2>1. Live /\ IsFiniteSet(Slots) /\ Cardinality(Slots) + rec.collected = rec.todo
          /\ \A i \in Indices(rec.def) : Located(i)
      BY <1>3 DEF Invariant, CountOK
    <2>2. IsFiniteSet(Slots') /\ Cardinality(Slots') = Cardinality(Slots)
      BY <2>1 DEF SameCount
    <2> QED
      BY <2>1, <2>2
  <1>4. CountOK'
    BY <1>3 DEF CountOK
  <1> QED
    BY <1>1, <1>2, <1>4

\* Without a collection nobody has a task.
LEMMA Collecting ==
    ASSUME Invariant
    PROVE  /\ \A w \in 1..MaxWorkers : worker[w].at # Nothing \/ worker[w].left # << >> => rec.pc = "collect"
           /\ \A p \in Types : asking[p] # Nothing \/ requests[p] # << >> => rec.pc = "collect"
           /\ rec.pc = "collect" =>
                /\ rec.def = def /\ rec.def \in 1..Len(Definitions)
                /\ worker \in Workers(Indices(rec.def))
                /\ requests \in Requests(Indices(rec.def))
                /\ asking \in Askings(Indices(rec.def))
                /\ results \in Seq(Sendable(rec.status.timeframe))
  <1>1. PoolOK /\ RecOK /\ RestOK
    BY DEF Invariant
  <1>2. CASE rec.pc = "collect"
    BY <1>1, <1>2 DEF PoolOK, RecOK, RestOK
  <1>3. CASE rec.pc # "collect"
    <2>1. worker = IdleWorkers /\ requests = NoRequests /\ asking = NobodyAsking
      BY <1>1, <1>3 DEF PoolOK, EmptyPool
    <2>2. \A w \in 1..MaxWorkers : worker[w].at = Nothing /\ worker[w].left = << >>
      BY <2>1 DEF IdleWorkers
    <2>3. \A p \in Types : asking[p] = Nothing /\ requests[p] = << >>
      BY <2>1 DEF NoRequests, NobodyAsking
    <2> QED
      BY <1>3, <2>2, <2>3
  <1> QED
    BY <1>2, <1>3

\* When the count is complete the pool is empty.
LEMMA CompleteMeansEmpty ==
    ASSUME Invariant, rec.pc = "collect", Live, AllCollected
    PROVE  /\ \A w \in 1..MaxWorkers : worker[w].left = << >> /\ worker[w].at = Nothing
           /\ \A p \in Types : requests[p] = << >> /\ asking[p] = Nothing
           /\ results = << >>
  <1>1. IsFiniteSet(Slots) /\ Cardinality(Slots) + rec.collected = rec.todo /\ rec.collected \in Nat /\ rec.todo \in Nat
    BY DEF Invariant, CountOK, RecOK, Recs
  <1>2. Cardinality(Slots) \in Nat
    BY <1>1, FS_CardinalityType
  <1>3. Cardinality(Slots) = 0
    BY <1>1, <1>2 DEF AllCollected
  <1>4. Slots = {}
    BY <1>1, <1>3, FS_EmptySet
  <1> DEFINE I == Indices(rec.def)
             T == Sendable(rec.status.timeframe)
  <1>5. worker \in Workers(I) /\ requests \in Requests(I) /\ results \in Seq(T)
    BY Collecting
  <1> HIDE DEF I, T
  <1>6. SlotsOf(worker, requests, asking, results) = {}
    BY <1>4 DEF Slots
  <1> QED
    BY <1>5, <1>6, NoSlots

LEMMA BeginStep == ASSUME Invariant, NEW w \in 1..MaxWorkers, BeginJob(w) PROVE Invariant'
  <1>1. rec.pc = "collect" /\ rec.def = def /\ rec.def \in 1..Len(Definitions)
        /\ worker \in Workers(Indices(rec.def))
        /\ requests \in Requests(Indices(rec.def))
        /\ asking \in Askings(Indices(rec.def))
        /\ results \in Seq(Sendable(rec.status.timeframe))
    BY Collecting DEF BeginJob
  <1>2. RestOK'
    BY DEF Invariant, RestOK, BeginJob
  <1>3. UNCHANGED <<rec, def, requests, asking, results, ctxDone>>
    BY DEF BeginJob
  <1>4. Nothing \notin Indices(rec.def)
    BY <1>1, DefinitionFacts
  <1>5. CASE ctxDone
    <2>1. worker' \in Workers(Indices(rec.def))
      <3>1. worker' = [worker EXCEPT ![w].left = << >>]
        BY <1>5 DEF BeginJob
      <3>2. << >> \in Seq(Indices(rec.def))
        OBVIOUS
      <3> QED
        BY <1>1, <3>1, <3>2 DEF Workers
    <2>2. ~Live
      <3>1. SUFFICES ASSUME Live PROVE FALSE
        OBVIOUS
      <3>2. AllCollected
        BY <1>5, <3>1 DEF Live
      <3>3. worker[w].left = << >>
        BY <1>1, <3>1, <3>2, CompleteMeansEmpty
      <3> QED
        BY <3>3 DEF BeginJob
    <2>3. Live' => Live
      BY <1>3 DEF Live, AllCollected
    <2>4. RecOK' /\ PoolOK' /\ CountOK'
      BY <1>1, <1>3, <2>1, <2>2, <2>3, PoolStep
    <2> QED
      BY <1>2, <2>4 DEF Invariant
  <1>6. CASE ~ctxDone
    <2>1. worker' = Begun(worker, w) /\ worker[w].at = Nothing /\ worker[w].left # << >>
      BY <1>6 DEF BeginJob, Begun
    <2> DEFINE n == Len(worker[w].left)
    <2>2. /\ worker' \in Workers(Indices(rec.def))
          /\ LeftSlot(worker, <<"left", w, n>>) /\ ~AtSlot(worker, <<"at", w, 0>>)
          /\ \A s : LeftSlot(worker', s) <=> LeftSlot(worker, s) /\ s # <<"left", w, n>>
          /\ \A s : AtSlot(worker', s) <=> AtSlot(worker, s) \/ s = <<"at", w, 0>>
          /\ \A x : WithWorker(worker, x) => x = Nothing \/ WithWorker(worker', x)
      BY <1>1, <1>4, <2>1, WorkerBegins
    <2> HIDE DEF n
    <2>3. SameCount(Slots, Slots')
      <3>1. SameCount(SlotsOf(worker, requests, asking, results), SlotsOf(worker', requests, asking, results))
        BY <2>2, BeginMoves
      <3> QED
        BY <1>3, <3>1 DEF Slots
    <2>4. ASSUME NEW i \in Indices(rec.def), Located(i) PROVE Located(i)'
      <3>1. i # Nothing
        BY <1>4
      <3> QED
        BY <1>3, <2>2, <2>4, <3>1 DEF Located, KeyAt, Template
    <2>5. Live' => Live
      BY <1>3 DEF Live, AllCollected
    <2>6. RecOK' /\ PoolOK' /\ CountOK'
      BY <1>1, <1>3, <2>2, <2>3, <2>4, <2>5, PoolStep
    <2> QED
      BY <1>2, <2>6 DEF Invariant
  <1> QED
    BY <1>5, <1>6

LEMMA SendRequestStep == ASSUME Invariant, NEW w \in 1..MaxWorkers, SendRequest(w) PROVE Invariant'
  <1>1. rec.pc = "collect" /\ rec.def = def /\ rec.def \in 1..Len(Definitions)
        /\ worker \in Workers(Indices(rec.def))
        /\ requests \in Requests(Indices(rec.def))
        /\ asking \in Askings(Indices(rec.def))
        /\ results \in Seq(Sendable(rec.status.timeframe))
    BY Collecting DEF SendRequest
  <1>2. RestOK'
    BY DEF Invariant, RestOK, SendRequest
  <1>3. UNCHANGED <<rec, def, asking, results, ctxDone>>
    BY DEF SendRequest
  <1> DEFINE x == worker[w].at
             p == ProviderOf[Template(x)]
             n == Len(requests[p]) + 1
  <1>4. worker' = Freed(worker, w) /\ x # Nothing /\ requests' = Requested(requests, p, x)
    BY DEF SendRequest, Freed, Requested
  <1> HIDE DEF p
  <1>5. /\ worker' \in Workers(Indices(rec.def)) /\ x \in Indices(rec.def)
        /\ AtSlot(worker, <<"at", w, 0>>)
        /\ \A s : LeftSlot(worker', s) <=> LeftSlot(worker, s)
        /\ \A s : AtSlot(worker', s) <=> AtSlot(worker, s) /\ s # <<"at", w, 0>>
        /\ \A y : WithWorker(worker, y) => y = x \/ WithWorker(worker', y)
    BY <1>1, <1>4, WorkerSends
  <1> HIDE DEF x
  <1>6. p \in Types
    BY <1>1, <1>5, DefinitionFacts DEF p, Template
  <1>7. /\ requests' \in Requests(Indices(rec.def))
        /\ ~SentSlot(requests, <<"request", p, n>>)
        /\ \A s : SentSlot(requests', s) <=> SentSlot(requests, s) \/ s = <<"request", p, n>>
        /\ \A A, y : WithEvaluator(requests, A, y) => WithEvaluator(requests', A, y)
        /\ \A A : WithEvaluator(requests', A, x)
    BY <1>1, <1>4, <1>5, <1>6, RequestSent
  <1> HIDE DEF n
  <1>8. SameCount(Slots, Slots')
    <2>1. SameCount(SlotsOf(worker, requests, asking, results), SlotsOf(worker', requests', asking, results))
      BY <1>5, <1>7, RequestMoves
    <2> QED
      BY <1>3, <2>1 DEF Slots
  <1>9. ASSUME NEW i \in Indices(rec.def), Located(i) PROVE Located(i)'
    BY <1>3, <1>5, <1>7, <1>9 DEF Located, KeyAt, Template
  <1>10. Live' => Live
    BY <1>3 DEF Live, AllCollected
  <1>11. RecOK' /\ PoolOK' /\ CountOK'
    BY <1>1, <1>3, <1>5, <1>7, <1>8, <1>9, <1>10, PoolStep
  <1> QED
    BY <1>2, <1>11 DEF Invariant

LEMMA TakeStep == ASSUME Invariant, NEW p \in Types, TakeRequest(p) PROVE Invariant'
  <1>1. rec.pc = "collect" /\ rec.def = def /\ rec.def \in 1..Len(Definitions)
        /\ worker \in Workers(Indices(rec.def))
        /\ requests \in Requests(Indices(rec.def))
        /\ asking \in Askings(Indices(rec.def))
        /\ results \in Seq(Sendable(rec.status.timeframe))
    BY Collecting DEF TakeRequest
  <1>2. RestOK'
    BY DEF Invariant, RestOK, TakeRequest
  <1>3. UNCHANGED <<rec, def, worker, results, ctxDone>>
    BY DEF TakeRequest
  <1>4. Nothing \notin Indices(rec.def)
    BY <1>1, DefinitionFacts
  <1>5. /\ asking[p] = Nothing /\ requests[p] # << >>
        /\ asking' = Asking(asking, p, Head(requests[p]))
        /\ requests' = Rest(requests, p)
    BY DEF TakeRequest, Rest, Asking
  <1> DEFINE n == Len(requests[p])
  <1>6. /\ requests' \in Requests(Indices(rec.def))
        /\ asking' \in Askings(Indices(rec.def))
        /\ SentSlot(requests, <<"request", p, n>>) /\ ~AskedSlot(asking, <<"asking", p, 0>>)
        /\ \A s : SentSlot(requests', s) <=> SentSlot(requests, s) /\ s # <<"request", p, n>>
        /\ \A s : AskedSlot(asking', s) <=> AskedSlot(asking, s) \/ s = <<"asking", p, 0>>
        /\ \A y : WithEvaluator(requests, asking, y) => y = Nothing \/ WithEvaluator(requests', asking', y)
    BY <1>1, <1>4, <1>5, RequestTaken
  <1> HIDE DEF n
  <1>7. SameCount(Slots, Slots')
    <2>1. SameCount(SlotsOf(worker, requests, asking, results), SlotsOf(worker, requests', asking', results))
      BY <1>6, TakeMoves
    <2> QED
      BY <1>3, <2>1 DEF Slots
  <1>8. ASSUME NEW i \in Indices(rec.def), Located(i) PROVE Located(i)'
    <2>1. i # Nothing
      BY <1>4
    <2> QED
      BY <1>3, <1>6, <1>8, <2>1 DEF Located, KeyAt, Template
  <1>9. Live' => Live
    BY <1>3 DEF Live, AllCollected
  <1>10. RecOK' /\ PoolOK' /\ CountOK'
    BY <1>1, <1>3, <1>6, <1>7, <1>8, <1>9, PoolStep
  <1> QED
    BY <1>2, <1>10 DEF Invariant

LEMMA CallFailsFacts == ASSUME CallFails, faults \in 0..MaxFaults PROVE faults' \in 0..MaxFaults
  BY FaultFacts DEF CallFails

\* What is sent to the collector.
LEMMA SendResultFacts ==
    ASSUME Invariant, rec.pc = "collect", NEW i \in Indices(rec.def), NEW v \in ProviderResults,
           v.kind # "missing", Fits(v, KeyAt(i), rec.status.timeframe), SendResult(i, v)
    PROVE  /\ results' \in Seq(Sendable(rec.status.timeframe))
           /\ ~AnswerSlot(results, <<"result", 0, Len(results) + 1>>)
           /\ \A s : AnswerSlot(results', s) <=> AnswerSlot(results, s) \/ s = <<"result", 0, Len(results) + 1>>
           /\ \A k : Answered(results, k) => Answered(results', k)
           /\ Answered(results', KeyAt(i))
  <1> DEFINE T == Sendable(rec.status.timeframe)
             r == [key |-> KeyAt(i), result |-> v]
  <1>1. results \in Seq(T) /\ rec.def \in 1..Len(Definitions)
    BY Collecting
  <1>2. KeyAt(i) \in Keys
    BY <1>1, DefinitionFacts DEF Template, KeyAt
  <1>3. r \in T /\ r.key = KeyAt(i)
    BY <1>2 DEF Sendable
  <1>4. results' = Append(results, r)
    BY DEF SendResult, KeyAt
  <1> HIDE DEF T, r
  <1>5. /\ Append(results, r) \in Seq(T)
        /\ ~AnswerSlot(results, <<"result", 0, Len(results) + 1>>)
        /\ \A s : AnswerSlot(Append(results, r), s) <=> AnswerSlot(results, s) \/ s = <<"result", 0, Len(results) + 1>>
        /\ \A k : Answered(results, k) => Answered(Append(results, r), k)
        /\ Answered(Append(results, r), r.key)
    BY <1>1, <1>3, ResultSent
  <1> QED
    BY <1>3, <1>4, <1>5 DEF T

LEMMA SendErrorStep == ASSUME Invariant, NEW w \in 1..MaxWorkers, SendError(w) PROVE Invariant'
  <1>1. rec.pc = "collect" /\ rec.def = def /\ rec.def \in 1..Len(Definitions)
        /\ worker \in Workers(Indices(rec.def))
        /\ requests \in Requests(Indices(rec.def))
        /\ asking \in Askings(Indices(rec.def))
    BY Collecting DEF SendError
  <1>2. RestOK'
    <2>1. faults' \in 0..MaxFaults
      BY CallFailsFacts DEF Invariant, RestOK, SendError
    <2> QED
      BY <2>1 DEF Invariant, RestOK, SendError
  <1>3. UNCHANGED <<rec, def, requests, asking, ctxDone>>
    BY DEF SendError
  <1> DEFINE x == worker[w].at
             n == Len(results) + 1
  <1>4. worker' = Freed(worker, w) /\ x # Nothing /\ SendResult(x, Failed)
    BY DEF SendError, Freed
  <1>5. /\ worker' \in Workers(Indices(rec.def)) /\ x \in Indices(rec.def)
        /\ AtSlot(worker, <<"at", w, 0>>)
        /\ \A s : LeftSlot(worker', s) <=> LeftSlot(worker, s)
        /\ \A s : AtSlot(worker', s) <=> AtSlot(worker, s) /\ s # <<"at", w, 0>>
        /\ \A y : WithWorker(worker, y) => y = x \/ WithWorker(worker', y)
    BY <1>1, <1>4, WorkerSends
  <1> HIDE DEF x
  <1>6. /\ results' \in Seq(Sendable(rec.status.timeframe))
        /\ ~AnswerSlot(results, <<"result", 0, n>>)
        /\ \A s : AnswerSlot(results', s) <=> AnswerSlot(results, s) \/ s = <<"result", 0, n>>
        /\ \A k : Answered(results, k) => Answered(results', k)
        /\ Answered(results', KeyAt(x))
    <2>1. Failed \in ProviderResults /\ Failed.kind # "missing" /\ Fits(Failed, KeyAt(x), rec.status.timeframe)
      BY ResultFacts DEF Fits
    <2> QED
      BY <1>1, <1>4, <1>5, <2>1, SendResultFacts
  <1> HIDE DEF n
  <1>7. SameCount(Slots, Slots')
    <2>1. SameCount(SlotsOf(worker, requests, asking, results), SlotsOf(worker', requests, asking, results'))
      BY <1>5, <1>6, ErrorMoves
    <2> QED
      BY <1>3, <2>1 DEF Slots
  <1>8. ASSUME NEW i \in Indices(rec.def), Located(i) PROVE Located(i)'
    BY <1>3, <1>5, <1>6, <1>8 DEF Located, KeyAt, Template
  <1>9. Live' => Live
    BY <1>3 DEF Live, AllCollected
  <1>10. RecOK' /\ PoolOK' /\ CountOK'
    BY <1>1, <1>3, <1>5, <1>6, <1>7, <1>8, <1>9, PoolStep
  <1> QED
    BY <1>2, <1>10 DEF Invariant

LEMMA SendValueStep == ASSUME Invariant, NEW p \in Types, SendValue(p) PROVE Invariant'
  <1>1. rec.pc = "collect" /\ rec.def = def /\ rec.def \in 1..Len(Definitions)
        /\ worker \in Workers(Indices(rec.def))
        /\ requests \in Requests(Indices(rec.def))
        /\ asking \in Askings(Indices(rec.def))
    BY Collecting DEF SendValue
  <1> DEFINE x == asking[p]
             n == Len(results) + 1
             tf == rec.status.timeframe
  <1>2. RestOK'
    <2>1. faults' = faults \/ CallFails
      BY DEF SendValue
    <2>2. faults' \in 0..MaxFaults
      BY <2>1, CallFailsFacts DEF Invariant, RestOK
    <2> QED
      BY <2>2 DEF Invariant, RestOK, SendValue
  <1>3. UNCHANGED <<rec, def, worker, requests, ctxDone>>
    BY DEF SendValue
  <1>4. asking' = Asking(asking, p, Nothing) /\ x # Nothing
    BY DEF SendValue, Asking
  <1>5. \E v \in ProviderResults : v.kind # "missing" /\ Fits(v, KeyAt(x), tf) /\ SendResult(x, v)
    <2>1. tf \in 1..MaxClock
      BY <1>1, AnalysisAssumption DEF Invariant, RecOK, Recs, Statuses
    <2>2. Template(x) \in Templates
      BY <1>1, <1>4, DefinitionFacts DEF Template, Askings
    <2>3. CASE SendResult(x, Failed)
      BY <2>3, ResultFacts DEF Fits
    <2>4. CASE \E answer \in Answers(p) : SendResult(x, answer)
      <3>1. PICK answer \in Answers(p) : SendResult(x, answer)
        BY <2>4
      <3>2. /\ answer \in ProviderResults /\ answer.kind # "missing"
            /\ answer.timeframe = tf /\ answer.template = Template(x)
        BY <2>1, <2>2 DEF Answers, ProviderResults
      <3> QED
        BY <3>1, <3>2 DEF Fits, KeyAt
    <2> QED
      BY <2>3, <2>4 DEF SendValue
  <1>6. /\ asking' \in Askings(Indices(rec.def)) /\ x \in Indices(rec.def)
        /\ AskedSlot(asking, <<"asking", p, 0>>)
        /\ \A s : AskedSlot(asking', s) <=> AskedSlot(asking, s) /\ s # <<"asking", p, 0>>
        /\ \A R, y : WithEvaluator(R, asking, y) => y = x \/ WithEvaluator(R, asking', y)
    BY <1>1, <1>4, EvaluatorAnswers
  <1> HIDE DEF x
  <1>7. /\ results' \in Seq(Sendable(rec.status.timeframe))
        /\ ~AnswerSlot(results, <<"result", 0, n>>)
        /\ \A s : AnswerSlot(results', s) <=> AnswerSlot(results, s) \/ s = <<"result", 0, n>>
        /\ \A k : Answered(results, k) => Answered(results', k)
        /\ Answered(results', KeyAt(x))
    BY <1>1, <1>5, <1>6, SendResultFacts
  <1> HIDE DEF n
  <1>8. SameCount(Slots, Slots')
    <2>1. SameCount(SlotsOf(worker, requests, asking, results), SlotsOf(worker, requests, asking', results'))
      BY <1>6, <1>7, AnswerMoves
    <2> QED
      BY <1>3, <2>1 DEF Slots
  <1>9. ASSUME NEW i \in Indices(rec.def), Located(i) PROVE Located(i)'
    BY <1>3, <1>6, <1>7, <1>9 DEF Located, KeyAt, Template
  <1>10. Live' => Live
    BY <1>3 DEF Live, AllCollected
  <1>11. RecOK' /\ PoolOK' /\ CountOK'
    BY <1>1, <1>3, <1>6, <1>7, <1>8, <1>9, <1>10, PoolStep
  <1> QED
    BY <1>2, <1>11 DEF Invariant

LEMMA ContextStep == ASSUME Invariant, ContextEnds PROVE Invariant'
  <1>1. RestOK'
    <2>1. faults' \in 0..MaxFaults
      BY FaultFacts DEF Invariant, RestOK, ContextEnds
    <2> QED
      BY <2>1 DEF Invariant, RestOK, ContextEnds
  <1>2. UNCHANGED <<rec, def, worker, requests, asking, results>> /\ ~ctxDone
    BY DEF ContextEnds
  <1>3. RecOK' /\ PoolOK'
    BY <1>2 DEF Invariant, RecOK, PoolOK, EmptyPool
  <1>4. CountOK'
    BY <1>2 DEF Invariant, CountOK, Live, Slots, Located, KeyAt, Template
  <1> QED
    BY <1>1, <1>3, <1>4 DEF Invariant

\* What the collector makes of a result.
LEMMA WithResultFacts ==
    ASSUME Invariant, rec.pc = "collect", ~AllCollected, NEW a \in Sendable(rec.status.timeframe), NEW r,
           r = WithResult(rec, a)
    PROVE  /\ r \in Recs /\ r.collected = rec.collected + 1 /\ r.collected <= r.todo
           /\ r.pc = rec.pc /\ r.status = rec.status /\ r.def = rec.def /\ r.done = rec.done
           /\ r.todo = rec.todo
           /\ \A k \in Keys : /\ Fits(r.values[k], k, r.status.timeframe)
                              /\ r.err \/ r.values[k].kind # "error"
                              /\ rec.values[k].kind # "missing" => r.values[k].kind # "missing"
                              /\ k = a.key => r.values[k].kind # "missing"
  <1>1. rec \in Recs /\ rec.collected <= rec.todo
    BY DEF Invariant, RecOK
  <1>2. a.key \in Keys /\ a.result \in ProviderResults /\ a.result.kind # "missing"
        /\ Fits(a.result, a.key, rec.status.timeframe)
    BY DEF Sendable
  <1>3. rec.collected \in Nat /\ rec.todo \in Nat /\ rec.values \in [Keys -> ProviderResults] /\ rec.err \in BOOLEAN
    BY <1>1 DEF Recs
  <1>4. rec.collected + 1 \in Nat /\ rec.collected + 1 <= rec.todo
    BY <1>1, <1>3 DEF AllCollected
  <1> DEFINE vals == [rec.values EXCEPT ![a.key] = a.result]
             e == rec.err \/ a.result.kind = "error"
             c == rec.collected + 1
  <1>5. r = [rec EXCEPT !.values = vals, !.collected = c, !.err = e]
    BY <1>1 DEF WithResult, Recs
  <1>6. vals \in [Keys -> ProviderResults] /\ e \in BOOLEAN
        /\ \A k \in Keys : vals[k] = IF k = a.key THEN a.result ELSE rec.values[k]
    BY <1>2, <1>3
  <1>7. c \in Nat
    BY <1>4
  <1> HIDE DEF vals, c
  <1>8. e <=> (rec.err \/ a.result.kind = "error")
    OBVIOUS
  <1> HIDE DEF e
  <1>9. r \in Recs
    BY <1>1, <1>5, <1>6, <1>7 DEF Recs
  <1>10. r.values = vals /\ r.collected = c /\ r.err = e
         /\ r.pc = rec.pc /\ r.status = rec.status /\ r.def = rec.def /\ r.done = rec.done
         /\ r.todo = rec.todo
    BY <1>1, <1>5 DEF Recs
  <1>11. ASSUME NEW k \in Keys
         PROVE  /\ Fits(r.values[k], k, r.status.timeframe)
                /\ r.err \/ r.values[k].kind # "error"
                /\ rec.values[k].kind # "missing" => r.values[k].kind # "missing"
                /\ k = a.key => r.values[k].kind # "missing"
    <2>1. Fits(rec.values[k], k, rec.status.timeframe) /\ (rec.err \/ rec.values[k].kind # "error")
      BY DEF Invariant, RecOK
    <2>2. r.values[k] = IF k = a.key THEN a.result ELSE rec.values[k]
      BY <1>6, <1>10
    <2>3. CASE k = a.key
      BY <1>2, <1>8, <1>10, <2>2, <2>3
    <2>4. CASE k # a.key
      BY <1>8, <1>10, <2>1, <2>2, <2>4
    <2> QED
      BY <2>3, <2>4
  <1> QED
    BY <1>4, <1>9, <1>10, <1>11 DEF c

LEMMA CollectStep == ASSUME Invariant, CollectResult PROVE Invariant'
  <1> DEFINE I == Indices(rec.def)
             T == Sendable(rec.status.timeframe)
             a == Head(results)
             n == Len(results)
  <1>1. rec.pc = "collect" /\ rec.def = def /\ rec.def \in 1..Len(Definitions)
        /\ worker \in Workers(I) /\ requests \in Requests(I) /\ asking \in Askings(I)
        /\ results \in Seq(T)
    BY Collecting DEF CollectResult
  <1>2. RestOK'
    BY DEF Invariant, RestOK, CollectResult
  <1>3. UNCHANGED <<def, worker, requests, asking, ctxDone>>
        /\ ~AllCollected /\ ~ctxDone /\ results # << >>
        /\ rec' = WithResult(rec, a) /\ results' = Tail(results)
    BY DEF CollectResult
  <1> HIDE DEF T
  <1>4. /\ results' \in Seq(T) /\ a \in T
        /\ AnswerSlot(results, <<"result", 0, n>>)
        /\ \A s : AnswerSlot(results', s) <=> AnswerSlot(results, s) /\ s # <<"result", 0, n>>
        /\ \A k : Answered(results, k) => k = a.key \/ Answered(results', k)
    BY <1>1, <1>3, ResultTaken
  <1> HIDE DEF a, n, I
  <1>5. /\ rec' \in Recs /\ rec'.collected = rec.collected + 1 /\ rec'.collected <= rec'.todo
        /\ rec'.pc = rec.pc /\ rec'.status = rec.status /\ rec'.def = rec.def /\ rec'.done = rec.done
        /\ rec'.todo = rec.todo
        /\ \A k \in Keys : /\ Fits(rec'.values[k], k, rec'.status.timeframe)
                           /\ rec'.err \/ rec'.values[k].kind # "error"
                           /\ rec.values[k].kind # "missing" => rec'.values[k].kind # "missing"
                           /\ k = a.key => rec'.values[k].kind # "missing"
    BY <1>1, <1>3, <1>4, WithResultFacts DEF T
  <1>6. RecOK'
    BY <1>3, <1>5 DEF Invariant, RecOK
  <1>7. PoolOK'
    BY <1>1, <1>3, <1>4, <1>5 DEF PoolOK, I, T
  <1>8. /\ IsFiniteSet(Slots) /\ Cardinality(Slots) + rec.collected = rec.todo
        /\ \A i \in I : Located(i)
    BY <1>1, <1>3 DEF Invariant, CountOK, Live, I
  <1>9. /\ IsFiniteSet(Slots') /\ Cardinality(Slots) \in Nat
        /\ Cardinality(Slots') = Cardinality(Slots) - 1
    <2>1. IsFiniteSet(SlotsOf(worker, requests, asking, results))
      BY <1>8 DEF Slots
    <2>2. /\ IsFiniteSet(SlotsOf(worker, requests, asking, results'))
          /\ Cardinality(SlotsOf(worker, requests, asking, results)) \in Nat
          /\ Cardinality(SlotsOf(worker, requests, asking, results')) =
                Cardinality(SlotsOf(worker, requests, asking, results)) - 1
      BY <1>4, <2>1, CollectRemoves
    <2> QED
      BY <1>3, <2>2 DEF Slots
  <1>10. Cardinality(Slots') + rec'.collected = rec'.todo
    <2>1. rec.collected \in Nat /\ rec.todo \in Nat
      BY DEF Invariant, RecOK, Recs
    <2> QED
      BY <1>5, <1>8, <1>9, <2>1
  <1>11. ASSUME NEW i \in I PROVE Located(i)'
    <2>1. KeyAt(i) \in Keys /\ KeyAt(i)' = KeyAt(i)
      BY <1>1, <1>5, DefinitionFacts DEF KeyAt, Template, I
    <2>2. Located(i)
      BY <1>8
    <2> QED
      BY <1>3, <1>4, <1>5, <2>1, <2>2 DEF Located
  <1>12. CountOK'
    BY <1>5, <1>9, <1>10, <1>11 DEF CountOK, I
  <1> QED
    BY <1>2, <1>6, <1>7, <1>12 DEF Invariant

LEMMA GiveUpStep == ASSUME Invariant, GiveUp PROVE Invariant'
  <1> DEFINE T == Sendable(rec.status.timeframe)
             end(r) == [r EXCEPT !.collected = r.todo, !.err = TRUE]
  <1>1. rec.pc = "collect" /\ rec.def = def /\ rec.def \in 1..Len(Definitions) /\ results \in Seq(T)
    BY Collecting DEF GiveUp
  <1>2. RestOK'
    BY DEF Invariant, RestOK, GiveUp, poolVars
  <1>3. UNCHANGED <<def, worker, requests, asking, results, ctxDone>> /\ ~AllCollected /\ ctxDone
    BY DEF GiveUp, poolVars
  <1>4. \E r \in Recs : /\ r.pc = rec.pc /\ r.status = rec.status /\ r.def = rec.def /\ r.done = rec.done
                        /\ \A k \in Keys : Fits(r.values[k], k, r.status.timeframe)
                        /\ rec' = end(r)
    <2>1. CASE rec' = end(rec)
      BY <1>1, <2>1 DEF Invariant, RecOK
    <2>2. CASE results # << >> /\ rec' = end(WithResult(rec, Head(results)))
      <3> DEFINE r == WithResult(rec, Head(results))
      <3>1. Head(results) \in T
        BY <1>1, <2>2
      <3> HIDE DEF r
      <3>2. /\ r \in Recs
            /\ r.pc = rec.pc /\ r.status = rec.status /\ r.def = rec.def /\ r.done = rec.done
            /\ \A k \in Keys : Fits(r.values[k], k, r.status.timeframe)
        BY <1>1, <1>3, <3>1, WithResultFacts DEF r
      <3>3. rec' = end(r)
        BY <2>2 DEF r
      <3> QED
        BY <3>2, <3>3
    <2> QED
      BY <2>1, <2>2 DEF GiveUp
  <1>5. PICK r \in Recs : /\ r.pc = rec.pc /\ r.status = rec.status /\ r.def = rec.def /\ r.done = rec.done
                          /\ \A k \in Keys : Fits(r.values[k], k, r.status.timeframe)
                          /\ rec' = end(r)
    BY <1>4
  <1>6. /\ rec' \in Recs /\ rec'.collected <= rec'.todo /\ rec'.err = TRUE
        /\ rec'.pc = rec.pc /\ rec'.status = rec.status /\ rec'.def = rec.def /\ rec'.done = rec.done
        /\ rec'.values = r.values
    <2>1. r.todo \in Nat /\ r.todo <= r.todo /\ rec' = [r EXCEPT !.collected = r.todo, !.err = TRUE]
      BY <1>5 DEF Recs
    <2>2. rec' \in Recs
      BY <2>1 DEF Recs
    <2>3. /\ rec'.collected = r.todo /\ rec'.todo = r.todo /\ rec'.err = TRUE
          /\ rec'.pc = r.pc /\ rec'.status = r.status /\ rec'.def = r.def /\ rec'.done = r.done
          /\ rec'.values = r.values
      BY <2>1 DEF Recs
    <2> QED
      BY <1>5, <2>1, <2>2, <2>3
  <1>7. RecOK'
    <2>1. \A k \in Keys : Fits(rec'.values[k], k, rec'.status.timeframe)
      BY <1>5, <1>6
    <2> QED
      BY <1>1, <1>3, <1>6, <2>1 DEF Invariant, RecOK
  <1>8. PoolOK'
    BY <1>1, <1>3, <1>6 DEF Invariant, PoolOK
  <1>9. CountOK'
    BY <1>3, <1>6 DEF CountOK, Live
  <1> QED
    BY <1>2, <1>7, <1>8, <1>9 DEF Invariant

LEMMA VerdictType ==
    ASSUME NEW values, NEW objectives, NEW total
    PROVE  Verdict(values, objectives, total) \in {"none", "pass", "warning", "fail"}
  BY DEF Verdict

\* A collection without an error has a value for every objective.
LEMMA CompletedSound ==
    ASSUME Invariant, rec.pc = "collect", AllCollected, ~rec.err
    PROVE  StatusOK(Completed(rec))
  <1> DEFINE values == [k \in Keys |-> IF IsAnswer(rec.done[k]) THEN rec.done[k] ELSE rec.values[k]]
             v == Verdict(ByTemplate(values), Definitions[rec.def], TotalScore)
             s == Completed(rec)
             tf == rec.status.timeframe
  <1>1. /\ rec \in Recs /\ rec.status \in Statuses /\ rec.def \in 1..Len(Definitions)
        /\ rec.values \in [Keys -> ProviderResults] /\ rec.done \in [Keys -> ProviderResults]
    BY Collecting DEF Invariant, RecOK, Recs
  <1>2. values \in [Keys -> ProviderResults]
    BY <1>1
  <1>3. s = [rec.status EXCEPT !.state = "Completed", !.verdict = v, !.raw = values,
                               !.rawDef = rec.def, !.stored = NoValues]
    BY DEF Completed
  <1>4. v \in {"none", "pass", "warning", "fail"}
    BY VerdictType
  <1>5. ASSUME NEW i \in Indices(rec.def)
        PROVE  LET x == values[ComputeKey(Definitions[rec.def][i])]
               IN  IsAnswer(x) /\ Fits(x, ComputeKey(Definitions[rec.def][i]), tf)
    <2> DEFINE k == ComputeKey(Definitions[rec.def][i])
    <2>1. k \in Keys /\ i # Nothing
      BY <1>1, DefinitionFacts
    <2>2. Live
      BY DEF Live
    <2>3. Located(i)
      BY <2>2 DEF Invariant, CountOK
    <2>4. /\ \A w \in 1..MaxWorkers : worker[w].left = << >> /\ worker[w].at = Nothing
          /\ \A p \in Types : requests[p] = << >> /\ asking[p] = Nothing
          /\ results = << >>
      BY <2>2, CompleteMeansEmpty
    <2>5. ~WithWorker(worker, i) /\ ~WithEvaluator(requests, asking, i) /\ ~Answered(results, k)
      BY <2>1, <2>4 DEF WithWorker, WithEvaluator, Answered, Has
    <2>6. rec.values[k].kind # "missing" \/ IsAnswer(rec.done[k])
      <3>1. KeyAt(i) = k
        BY DEF KeyAt, Template, ComputeKey
      <3> HIDE DEF k
      <3> QED
        BY <2>3, <2>5, <3>1 DEF Located
    <2>7. /\ Fits(rec.values[k], k, tf) /\ Fits(rec.done[k], k, tf)
          /\ rec.values[k].kind # "error" /\ rec.values[k] \in ProviderResults
      BY <1>1, <2>1 DEF Invariant, RecOK
    <2>8. rec.values[k].kind \in {"value", "blank", "missing", "error"}
      BY <2>7, ResultFacts
    <2>9. values[k] = IF IsAnswer(rec.done[k]) THEN rec.done[k] ELSE rec.values[k]
      BY <2>1
    <2> HIDE DEF k, values
    <2>10. IsAnswer(values[k]) /\ Fits(values[k], k, tf)
      BY <2>6, <2>7, <2>8, <2>9 DEF IsAnswer
    <2> QED
      BY <2>10 DEF k
  <1> HIDE DEF values, s
  <1>6. v = Verdict(ByTemplate(values), Definitions[rec.def], TotalScore)
    OBVIOUS
  <1> HIDE DEF v
  <1>7. /\ s \in Statuses /\ s.raw = values /\ s.rawDef = rec.def /\ s.verdict = v
        /\ s.stored = NoValues /\ s.timeframe = tf
    <2>1. NoValues \in [Keys -> ProviderResults]
      BY ResultFacts
    <2>2. rec.def \in 0..Len(Definitions)
      BY <1>1 DEF Recs
    <2>3. s \in Statuses
      BY <1>1, <1>2, <1>3, <1>4, <2>1, <2>2 DEF Statuses
    <2>4. /\ s.raw = values /\ s.rawDef = rec.def /\ s.verdict = v
          /\ s.stored = NoValues /\ s.timeframe = tf
      BY <1>1, <1>3 DEF Statuses
    <2> QED
      BY <2>3, <2>4
  <1>8. Sound(s)
    BY <1>1, <1>5, <1>6, <1>7 DEF Sound
  <1>9. \A k \in Keys : Fits(s.stored[k], k, s.timeframe)
    BY <1>7, ResultFacts DEF Fits, IsAnswer
  <1>10. StatusOK(s)
    BY <1>7, <1>8, <1>9 DEF StatusOK
  <1> QED
    BY <1>10 DEF s

LEMMA FinishStep == ASSUME Invariant, FinishCollection PROVE Invariant'
  <1>1. RestOK /\ RecOK /\ rec \in Recs /\ rec.pc = "collect" /\ AllCollected /\ StatusOK(rec.status)
    BY DEF Invariant, RecOK, FinishCollection
  <1>2. EmptyPool' /\ ctxDone' = FALSE
    BY DEF FinishCollection, NoPool, EmptyPool
  <1>3. rec.status.timeframe \in 1..MaxClock
    BY <1>1, AnalysisAssumption DEF RecOK, StatusOK, Statuses
  <1>4. /\ stray' \in BOOLEAN /\ reports' \subseteq 1..MaxClock
    <2>1. reports' \subseteq reports \cup {rec.status.timeframe} /\ reports \subseteq 1..MaxClock
      BY <1>1 DEF FinishCollection, RestOK
    <2>2. stray' \in BOOLEAN
      BY DEF FinishCollection
    <2> QED
      BY <1>3, <2>1, <2>2
  <1>5. RestOK'
    BY <1>1, <1>2, <1>4 DEF RestOK, FinishCollection
  <1>6. \E s : StatusOK(s) /\ rec' = [rec EXCEPT !.pc = "update", !.status = s]
    <2>1. CASE rec.err
      <3> DEFINE s == [rec.status EXCEPT !.stored = rec.values]
      <3>1. rec' = [rec EXCEPT !.pc = "update", !.status = s]
        BY <1>1, <2>1 DEF FinishCollection, Recs
      <3>2. rec.values \in [Keys -> ProviderResults] /\ rec.status \in Statuses
        BY <1>1 DEF Recs
      <3>3. s \in Statuses /\ s.stored = rec.values /\ s.timeframe = rec.status.timeframe
            /\ s.state = rec.status.state
        BY <3>2 DEF Statuses
      <3>4. StatusOK(s)
        <4> HIDE DEF s
        <4> QED
          BY <1>1, <3>3 DEF RecOK, StatusOK
      <3> QED
        BY <3>1, <3>4
    <2>2. CASE ~rec.err
      BY <1>1, <2>2, CompletedSound DEF FinishCollection
    <2> QED
      BY <2>1, <2>2
  <1>7. PICK s : StatusOK(s) /\ rec' = [rec EXCEPT !.pc = "update", !.status = s]
    BY <1>6
  <1>8. rec' \in Recs /\ rec'.pc # "collect" /\ rec'.status = s /\ rec'.collected <= rec'.todo
    <2>1. s \in Statuses /\ rec.collected <= rec.todo
      BY <1>1, <1>7 DEF StatusOK, RecOK
    <2> QED
      BY <1>1, <1>7, <2>1 DEF Recs
  <1>9. RecOK' /\ PoolOK' /\ CountOK'
    BY <1>2, <1>7, <1>8, Idle
  <1> QED
    BY <1>5, <1>9 DEF Invariant

\* The new pool has one slot for every task, and nothing else.
LEMMA PoolStarted ==
    ASSUME NEW I, NEW todo \in Seq(I), StartPool(todo)
    PROVE  /\ worker' \in Workers(I) /\ requests' \in Requests(I) /\ asking' \in Askings(I)
           /\ results' = << >> /\ ctxDone' = FALSE
           /\ IsFiniteSet(Slots') /\ Cardinality(Slots') = Len(todo)
           /\ \A j \in 1..Len(todo) : WithWorker(worker', todo[j])
  <1> DEFINE n == IF Len(todo) <= MaxWorkers THEN Len(todo) ELSE MaxWorkers
             left(w) == IF w <= n THEN AssignTasks(todo, n, w) ELSE << >>
  <1>1. worker' = [w \in 1..MaxWorkers |-> [left |-> left(w), at |-> Nothing]]
        /\ requests' = NoRequests /\ asking' = NobodyAsking /\ results' = << >> /\ ctxDone' = FALSE
    BY DEF StartPool
  <1>2. MaxWorkers \in Nat \ {0} /\ Len(todo) \in Nat /\ n \in 0..MaxWorkers /\ (n = 0 <=> Len(todo) = 0)
    BY AnalysisAssumption
  <1> HIDE DEF n
  <1>3. \A w \in 1..MaxWorkers : worker'[w].left = left(w) /\ worker'[w].at = Nothing
    BY <1>1
  <1>4. \A p \in Types : requests'[p] = << >> /\ asking'[p] = Nothing
    BY <1>1 DEF NoRequests, NobodyAsking
  <1>5. requests' \in Requests(I) /\ asking' \in Askings(I)
    BY <1>1 DEF NoRequests, NobodyAsking, Requests, Askings
  <1> DEFINE slots == SlotsOf(worker', requests', asking', << >>)
  <1>6. /\ \A w \in 1..MaxWorkers : worker'[w].left \in Seq(I)
        /\ \A j \in 1..Len(todo) : WithWorker(worker', todo[j])
        /\ IsFiniteSet(slots) /\ Cardinality(slots) = Len(todo)
    <2>1. CASE n = 0
      <3>1. \A w \in 1..MaxWorkers : worker'[w].left = << >> /\ worker'[w].at = Nothing
        BY <1>2, <1>3, <2>1
      <3>2. << >> \in Seq(I)
        OBVIOUS
      <3>3. \A w \in 1..MaxWorkers : worker'[w].left \in Seq(I)
        BY <3>1, <3>2
      <3>4. worker' \in Workers(I)
        <4>1. \A w \in 1..MaxWorkers : left(w) \in Seq(I)
          BY <1>3, <3>3
        <4> HIDE DEF left
        <4> QED
          BY <1>1, <4>1 DEF Workers
      <3>5. slots = {}
        BY <1>4, <1>5, <3>1, <3>2, <3>4, NoSlots
      <3>6. IsFiniteSet(slots) /\ Cardinality(slots) = 0
        BY <3>5, FS_EmptySet
      <3>7. Len(todo) = 0 /\ 1..Len(todo) = {}
        BY <1>2, <2>1
      <3> QED
        BY <3>3, <3>6, <3>7
    <2>2. CASE n # 0
      <3>1. n \in 1..MaxWorkers
        BY <1>2, <2>2
      <3>2. Assigned(worker', todo, n) /\ Unused(requests', asking')
        BY <1>3, <1>4 DEF Assigned, Unused
      <3> QED
        <4> HIDE DEF slots
        <4>1. \A w \in 1..MaxWorkers : worker'[w].left \in Seq(I)
          BY <3>1, <3>2, SlotsAtStart
        <4>2. \A j \in 1..Len(todo) : WithWorker(worker', todo[j])
          BY <3>1, <3>2, SlotsAtStart
        <4>3. IsFiniteSet(slots) /\ Cardinality(slots) = Len(todo)
          BY <3>1, <3>2, SlotsAtStart DEF slots
        <4> QED
          BY <4>1, <4>2, <4>3
    <2> QED
      BY <2>1, <2>2
  <1>7. worker' \in Workers(I)
    <2>1. \A w \in 1..MaxWorkers : left(w) \in Seq(I)
      BY <1>3, <1>6
    <2> HIDE DEF left
    <2> QED
      BY <1>1, <2>1 DEF Workers
  <1>8. IsFiniteSet(Slots') /\ Cardinality(Slots') = Len(todo)
    BY <1>1, <1>6 DEF Slots
  <1> QED
    BY <1>1, <1>5, <1>6, <1>7, <1>8

LEMMA MissingFacts ==
    ASSUME NEW d \in 1..Len(Definitions), NEW stored, NEW todo, todo = MissingObjectives(Definitions[d], stored)
    PROVE  /\ todo \in Seq(Indices(d))
           /\ \A i \in Indices(d) :
                ~IsAnswer(stored[ComputeKey(Definitions[d][i])]) => \E j \in 1..Len(todo) : todo[j] = i
  <1> DEFINE n == Len(Definitions[d])
             S == {i \in Indices(d) : ~IsAnswer(stored[ComputeKey(Definitions[d][i])])}
             c == Cardinality(S)
  <1>1. n \in Nat /\ Indices(d) = 1..n
    BY DefinitionFacts
  <1>2. todo = InOrder(S)
    BY DEF MissingObjectives, Indices
  <1>3. S \in SUBSET (1..n) /\ S \subseteq Indices(d)
    BY <1>1
  <1>4. \A i \in Indices(d) : ~IsAnswer(stored[ComputeKey(Definitions[d][i])]) => i \in S
    OBVIOUS
  <1> HIDE DEF S, n
  <1>5. /\ c \in Nat /\ todo \in [1..c -> S]
        /\ \A i \in S : \E k \in 1..c : todo[k] = i
    BY <1>1, <1>2, <1>3, InOrderFacts
  <1> HIDE DEF c
  <1>6. todo \in Seq(Indices(d)) /\ Len(todo) = c
    <2>1. todo \in [1..c -> Indices(d)]
      BY <1>3, <1>5
    <2> QED
      BY <1>5, <2>1
  <1> QED
    BY <1>4, <1>5, <1>6

LEMMA StartStep == ASSUME Invariant, StartCollection PROVE Invariant'
  <1> DEFINE objectives == Definitions[def]
             todo == MissingObjectives(objectives, cache.stored)
             e == EnsureTimeframeIsSet(cache)
             s == [e EXCEPT !.state = "Progressing"]
             done == DoneValues(objectives, cache.stored)
             I == Indices(def)
  <1>1. RestOK /\ def \in 1..Len(Definitions) /\ StatusOK(cache) /\ cache \in Statuses /\ clock \in 1..MaxClock
    BY DEF Invariant, RestOK, StatusOK
  <1>2. /\ cache.state # "Completed" /\ StartPool(todo)
        /\ rec' = [NoRec EXCEPT !.pc = "collect", !.base = cache, !.status = s, !.def = def,
                                !.todo = Len(todo), !.done = done]
        /\ UNCHANGED <<analysis, cache, def, clock, stray, restarted, reports, gauge, faults>>
        /\ queued' = FALSE
    BY DEF StartCollection, Serve
  <1>3. /\ StatusOK(e) /\ e \in Statuses /\ e.stored = cache.stored
        /\ e.timeframe \in 1..MaxClock
    BY <1>1, <1>2, TimeframeSet DEF StatusOK
  <1> HIDE DEF e
  <1>4. /\ s \in Statuses /\ s.stored = cache.stored /\ s.timeframe = e.timeframe /\ s.state = "Progressing"
    BY <1>3 DEF Statuses
  <1> HIDE DEF s
  <1>5. StatusOK(s)
    BY <1>3, <1>4 DEF StatusOK
  <1>6. ASSUME NEW k \in Keys
        PROVE  cache.stored[k] \in ProviderResults /\ Fits(cache.stored[k], k, s.timeframe)
    BY <1>1, <1>4, <1>5 DEF StatusOK, Statuses
  <1>7. /\ done \in [Keys -> ProviderResults]
        /\ \A k \in Keys : Fits(done[k], k, s.timeframe)
        /\ \A i \in I : IsAnswer(cache.stored[ComputeKey(objectives[i])]) =>
                           IsAnswer(done[ComputeKey(objectives[i])])
    <2>1. done \in [Keys -> ProviderResults]
      BY <1>6, ResultFacts DEF DoneValues
    <2>2. \A k \in Keys : Fits(done[k], k, s.timeframe)
      BY <1>6, ResultFacts DEF DoneValues, Fits
    <2>3. \A i \in I : ComputeKey(objectives[i]) \in Keys /\ i \in DOMAIN objectives
      BY <1>1, DefinitionFacts DEF Indices
    <2>4. \A i \in I : IsAnswer(cache.stored[ComputeKey(objectives[i])]) =>
                           IsAnswer(done[ComputeKey(objectives[i])])
      BY <2>3 DEF DoneValues
    <2> QED
      BY <2>1, <2>2, <2>4
  <1> HIDE DEF done
  <1>8. /\ todo \in Seq(I)
        /\ \A i \in I : ~IsAnswer(cache.stored[ComputeKey(objectives[i])]) =>
                           \E j \in 1..Len(todo) : todo[j] = i
    <2>1. todo = MissingObjectives(Definitions[def], cache.stored)
      OBVIOUS
    <2>2. \A stored, q : q = MissingObjectives(Definitions[def], stored) =>
            /\ q \in Seq(Indices(def))
            /\ \A i \in Indices(def) :
                 ~IsAnswer(stored[ComputeKey(Definitions[def][i])]) => \E j \in 1..Len(q) : q[j] = i
      BY <1>1, MissingFacts
    <2> HIDE DEF todo
    <2> QED
      BY <2>1, <2>2
  <1> HIDE DEF todo, I
  <1>9. /\ worker' \in Workers(I) /\ requests' \in Requests(I) /\ asking' \in Askings(I)
        /\ results' = << >> /\ ctxDone' = FALSE
        /\ IsFiniteSet(Slots') /\ Cardinality(Slots') = Len(todo)
        /\ \A j \in 1..Len(todo) : WithWorker(worker', todo[j])
    BY <1>2, <1>8, PoolStarted
  <1>10. RestOK'
    BY <1>1, <1>2, <1>9 DEF RestOK
  <1>11. Len(todo) \in Nat
    BY <1>8
  <1>12. /\ rec' \in Recs /\ rec'.pc = "collect" /\ rec'.status = s /\ rec'.def = def
         /\ rec'.todo = Len(todo) /\ rec'.collected = 0 /\ rec'.values = NoValues /\ rec'.done = done
         /\ rec'.err = FALSE
    <2>1. NoRec \in Recs /\ NoRec.collected = 0 /\ NoRec.values = NoValues /\ NoRec.err = FALSE
      BY NoRecOK DEF NoRec
    <2>2. def \in 0..Len(Definitions)
      BY <1>1, AnalysisAssumption
    <2> HIDE DEF NoRec
    <2>3. rec' \in Recs
      BY <1>1, <1>2, <1>4, <1>7, <1>11, <2>1, <2>2 DEF Recs
    <2> QED
      BY <1>2, <2>1, <2>3 DEF Recs
  <1>13. RecOK'
    <2>1. 0 <= Len(todo) /\ s.timeframe # 0
      BY <1>3, <1>4, <1>11
    <2>2. \A k \in Keys : Fits(NoValues[k], k, s.timeframe) /\ NoValues[k].kind # "error"
      BY ResultFacts DEF Fits, IsAnswer
    <2> QED
      BY <1>2, <1>4, <1>5, <1>7, <1>12, <2>1, <2>2 DEF RecOK
  <1>14. PoolOK'
    BY <1>9, <1>12 DEF PoolOK, I
  <1>15. ASSUME NEW i \in I PROVE Located(i)'
    <2>1. KeyAt(i)' = ComputeKey(objectives[i])
      BY <1>2, <1>12 DEF Template, KeyAt, ComputeKey
    <2>2. IsAnswer(done[ComputeKey(objectives[i])]) \/ WithWorker(worker', i)
      BY <1>7, <1>8, <1>9
    <2> QED
      BY <1>12, <2>1, <2>2 DEF Located
  <1>16. CountOK'
    <2>1. Len(todo) + 0 = Len(todo)
      BY <1>11
    <2> QED
      BY <1>9, <1>12, <1>15, <2>1 DEF CountOK, I
  <1> QED
    BY <1>10, <1>13, <1>14, <1>16 DEF Invariant

LEMMA NextInvariant == ASSUME Invariant, [Next]_vars PROVE Invariant'
  <1>1. CASE Reconciler
    BY <1>1, Environment, NotFoundStep, StartStep, CollectStep, GiveUpStep, FinishStep, UpdateStep
       DEF Reconciler
  <1>2. CASE \E w \in 1..MaxWorkers : Worker(w)
    BY <1>2, BeginStep, SendRequestStep, SendErrorStep DEF Worker
  <1>3. CASE \E p \in Types : Evaluator(p)
    BY <1>3, TakeStep, SendValueStep DEF Evaluator
  <1>4. CASE ReportResult \/ SyncCache \/ ContextEnds \/ Panic \/ Crash \/ EditDefinition \/ Tick
    BY <1>4, Environment, ContextStep, RestartStep
  <1>5. CASE UNCHANGED vars
    <2>1. RecOK' /\ PoolOK' /\ CountOK'
      BY <1>5, Unmoved DEF Invariant, vars, poolVars
    <2>2. RestOK'
      BY <1>5 DEF Invariant, RestOK, vars, poolVars
    <2> QED
      BY <2>1, <2>2 DEF Invariant
  <1> QED
    BY <1>1, <1>2, <1>3, <1>4, <1>5 DEF Next

LEMMA InvariantHolds == Spec => []Invariant
  BY InitInvariant, NextInvariant, PTL DEF Spec

-----------------------------------------------------------------------------
\* The type invariant.
THEOREM AnalysisTypeHolds == Spec => []TypeOK
  <1>1. Invariant => TypeOK
    <2> SUFFICES ASSUME Invariant PROVE TypeOK
      OBVIOUS
    <2>1. /\ RestOK /\ rec \in Recs /\ rec.collected <= rec.todo
          /\ analysis \in Statuses /\ cache \in Statuses
      BY DEF Invariant, RestOK, RecOK, StatusOK
    <2>2. {analysis, cache, rec.base, rec.status} \subseteq Statuses
      BY <2>1 DEF Recs
    <2>3. rec.pc \in {"idle", "collect", "update"} /\ rec.collected \in 0..rec.todo
      BY <2>1 DEF Recs
    <2>4. {rec.values, rec.done} \subseteq [Keys -> ProviderResults]
      BY <2>1 DEF Recs
    <2>5. \A w \in 1..MaxWorkers : worker[w].at \in 0..Len(Definitions[def])
      <3>1. Len(Definitions[def]) \in Nat /\ Indices(def) = 1..Len(Definitions[def]) /\ Nothing = 0
        BY <2>1, DefinitionFacts DEF RestOK, Nothing
      <3>2. \A w \in 1..MaxWorkers : worker[w].at \in Indices(def) \cup {Nothing}
        BY Collecting DEF Workers
      <3> QED
        BY <3>1, <3>2
    <2>6. asking \in [Types -> Nat] /\ requests \in [Types -> Seq(Nat)]
      <3>1. CASE rec.pc = "collect"
        <4>1. requests \in [Types -> Seq(Indices(def))] /\ asking \in [Types -> Indices(def) \cup {Nothing}]
          BY <3>1, Collecting DEF Requests, Askings
        <4>2. Indices(def) \subseteq Nat /\ Nothing \in Nat
          BY <2>1, DefinitionFacts DEF RestOK, Nothing
        <4>3. Seq(Indices(def)) \subseteq Seq(Nat)
          BY <4>2
        <4> QED
          BY <4>1, <4>2, <4>3
      <3>2. CASE rec.pc # "collect"
        <4>1. requests = NoRequests /\ asking = NobodyAsking
          BY <3>2 DEF Invariant, PoolOK, EmptyPool
        <4> QED
          BY <4>1 DEF NoRequests, NobodyAsking, Nothing
      <3> QED
        BY <3>1, <3>2
    <2>7. {queued, rec.err, ctxDone, stray, restarted} \subseteq BOOLEAN
      <3>1. rec.err \in BOOLEAN
        BY <2>1 DEF Recs
      <3> QED
        BY <2>1, <3>1, Zenon DEF RestOK
    <2> QED
      BY <2>1, <2>2, <2>3, <2>4, <2>5, <2>6, <2>7 DEF TypeOK, RestOK
  <1> QED
    BY <1>1, InvariantHolds, PTL

\* Without a number its objective gets no point, and a key objective without one
\* fails the analysis.
LEMMA KeyNeedsNumber ==
    ASSUME NEW values, NEW objectives \in Seq(Objectives), NEW i \in DOMAIN objectives,
           objectives[i].key, values[objectives[i].template].kind # "value"
    PROVE  Verdict(values, objectives, TotalScore) = "fail"
  BY DEF Verdict, KeyObjectiveFailed, Score

\* A completed analysis rests on an answer for every objective of its definition, all
\* for its one timeframe, and has the verdict of these answers; unless it fails, the
\* answer for each key objective is a number (Reconcile, extractMissingObjectives,
\* evaluateObjectives): whatever the objectives and keys, however many workers and
\* providers, however often collecting failed, the context ended, the definition
\* changed or the operator was restarted in between.
THEOREM VerdictRestsOnValuesHolds == Spec => []VerdictRestsOnValues
  <1>1. Invariant => VerdictRestsOnValues
    <2> SUFFICES ASSUME Invariant, analysis.state = "Completed" PROVE VerdictRestsOnValues
      BY DEF VerdictRestsOnValues
    <2> DEFINE objectives == Definitions[analysis.rawDef]
    <2>1. Sound(analysis) /\ analysis \in Statuses
      BY DEF Invariant, RestOK, StatusOK
    <2>2. objectives \in Seq(Objectives) /\ DOMAIN objectives = Indices(analysis.rawDef)
      BY <2>1, DefinitionFacts DEF Sound, Indices
    <2>3. ASSUME NEW i \in DOMAIN objectives
          PROVE  /\ IsAnswer(analysis.raw[ComputeKey(objectives[i])])
                 /\ analysis.raw[ComputeKey(objectives[i])].timeframe = analysis.timeframe
                 /\ KeyOf[analysis.raw[ComputeKey(objectives[i])].template] = ComputeKey(objectives[i])
      BY <2>1, <2>2 DEF Sound, Fits
    <2>4. analysis.verdict = Verdict(ByTemplate(analysis.raw), objectives, TotalScore)
      BY <2>1 DEF Sound
    <2>5. ASSUME NEW i \in DOMAIN objectives, objectives[i].key, analysis.verdict # "fail"
          PROVE  analysis.raw[ComputeKey(objectives[i])].kind = "value"
      <3>1. ByTemplate(analysis.raw)[objectives[i].template] = analysis.raw[ComputeKey(objectives[i])]
        BY <2>1, <2>2, DefinitionFacts DEF Sound, ByTemplate, ComputeKey
      <3> HIDE DEF objectives
      <3> QED
        BY <2>2, <2>4, <2>5, <3>1, KeyNeedsNumber
    <2> QED
      BY <2>3, <2>4, <2>5 DEF VerdictRestsOnValues
  <1> QED
    BY <1>1, InvariantHolds, PTL

\* A pool whose collector took all its results in time is quiet when its channels are
\* closed (CollectAnalysisResults, StopProviders): no worker and no evaluator has a
\* task left, so nobody sends on a closed channel.
THEOREM ClosedPoolIsQuietHolds == Spec => []ClosedPoolIsQuiet
  <1>1. Invariant => ClosedPoolIsQuiet
    <2> SUFFICES ASSUME Invariant, rec.pc = "collect", AllCollected, ~ctxDone
                 PROVE  /\ ~SendsLeft
                        /\ \A w \in 1..MaxWorkers : worker[w].left = << >>
      BY DEF ClosedPoolIsQuiet
    <2>1. /\ \A w \in 1..MaxWorkers : worker[w].left = << >> /\ worker[w].at = Nothing
          /\ \A p \in Types : requests[p] = << >> /\ asking[p] = Nothing
      BY CompleteMeansEmpty DEF Live
    <2> QED
      BY <2>1 DEF SendsLeft
  <1> QED
    BY <1>1, InvariantHolds, PTL
=============================================================================
