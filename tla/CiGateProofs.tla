----------------------------- MODULE CiGateProofs -----------------------------
(***************************************************************************)
(* Proofs about the two gates of CI, for every number of shards, every     *)
(* workflow, every checkout and every release.                             *)
(*                                                                         *)
(* The check of reports (CiReports): work is divided soundly, a green      *)
(* check is true, and what went as it should is green.  The first part is  *)
(* about the two algorithms of ShardAllocation.  Of the round robin it     *)
(* uses that remainders are unique; of the greedy one, that a test is as   *)
(* short as any handed out before it and goes to a shard that is ahead of  *)
(* none.  The inductive invariant of a green check is CiInv: what a job    *)
(* leaves agrees with what it did (UnitTruth, ReportTruth, RowTruth,       *)
(* SummaryTruth), and a green verdict is still what the reports say        *)
(* (GateInv).  FateInv adds the other direction: a job that nothing ends   *)
(* before its time and that succeeds leaves the very report that the check *)
(* expects of it (UnitFate, SuiteFate), and a red verdict is still what    *)
(* the reports say (RedInv).                                               *)
(*                                                                         *)
(* The guard of snapshots (ReleasedSnapshots): what was released never     *)
(* changes, for any versions, roots and contents, when releases are tagged *)
(* in the order of their dates.                                            *)
(***************************************************************************)
EXTENDS CiReports, ReleasedSnapshots, Induction, SequenceTheorems, FiniteSetTheorems, TLAPS

Measured(timings) == \A t \in DOMAIN timings : timings[t] \in Nat

(* With a file that was accepted, every test takes a natural number of     *)
(* units.                                                                  *)
LEMMA DurationType ==
  ASSUME NEW timings, Measured(timings), NEW t
  PROVE  Duration(timings, t) \in Nat
BY DEF Measured, Duration

(* Adding up goes through the tests one by one.                            *)
Adding(timings, ids) == [t \in ids |-> [sum \in Nat |-> Duration(timings, t) + sum]]
Chosen(ids)           == [s \in SUBSET ids |-> CHOOSE x \in s : TRUE]

(* The load of a shard is such a sum over the tests of an inventory.       *)
LEMMA LoadIsGathered ==
  ASSUME NEW timings, Measured(timings), NEW ids, IsFiniteSet(ids)
  PROVE  \E g : /\ Gathers(g, ids, Nat, 0, Adding(timings, ids), Chosen(ids))
                /\ \A s \in SUBSET ids : Load(timings, s) = g[s]
<1>1. \A s \in SUBSET ids : s # {} => Chosen(ids)[s] \in s
  BY DEF Chosen
<1>2. Adding(timings, ids) \in [ids -> [Nat -> Nat]]
  <2>1. ASSUME NEW t \in ids, NEW sum \in Nat PROVE Duration(timings, t) + sum \in Nat
    BY DurationType
  <2> QED BY <2>1 DEF Adding
<1>3. PICK g : Gathers(g, ids, Nat, 0, Adding(timings, ids), Chosen(ids))
  <2>1. 0 \in Nat
    OBVIOUS
  <2> QED BY <1>1, <1>2, <2>1, FiniteRecursion
<1>4. ASSUME NEW S \in SUBSET ids PROVE Load(timings, S) = g[S]
  <2> DEFINE Sums(f) == f = [s \in SUBSET S |-> IF s = {} THEN 0
                               ELSE LET x == CHOOSE x \in s : TRUE
                                    IN  Duration(timings, x) + f[s \ {x}]]
             iter == CHOOSE f : Sums(f)
  <2>1. Load(timings, S) = iter[S]
    BY DEF Load, MapThenSumSet, MapThenFoldSet
  <2>2. Sums([s \in SUBSET S |-> g[s]])
    <3> DEFINE f == [s \in SUBSET S |-> g[s]]
    <3>1. ASSUME NEW s \in SUBSET S
          PROVE  f[s] = IF s = {} THEN 0
                        ELSE LET x == CHOOSE x \in s : TRUE
                             IN  Duration(timings, x) + f[s \ {x}]
      <4> DEFINE x == CHOOSE x \in s : TRUE
      <4>1. s \in SUBSET ids
        OBVIOUS
      <4>2. CASE s = {}
        BY <1>3, <4>1, <4>2 DEF Gathers
      <4>3. CASE s # {}
        <5>1. x \in ids /\ s \ {x} \in SUBSET ids /\ s \ {x} \in SUBSET S /\ Chosen(ids)[s] = x
          BY <4>1, <4>3 DEF Chosen
        <5> HIDE DEF x
        <5>2. g[s] = Adding(timings, ids)[x][g[s \ {x}]] /\ g[s \ {x}] \in Nat
          BY <1>3, <4>1, <4>3, <5>1 DEF Gathers
        <5>3. g[s] = Duration(timings, x) + g[s \ {x}]
          BY <5>1, <5>2 DEF Adding
        <5>4. f[s] = g[s] /\ f[s \ {x}] = g[s \ {x}]
          BY <5>1
        <5> QED BY <4>3, <5>3, <5>4 DEF x
      <4> QED BY <4>2, <4>3
    <3> HIDE DEF f
    <3>2. f = [s \in SUBSET S |-> f[s]]
      BY DEF f
    <3> QED BY <3>1, <3>2 DEF f
  <2>3. Sums(iter)
    <3> HIDE DEF Sums
    <3> QED BY <2>2
  <2> HIDE DEF iter
  <2> DEFINE Same == {s \in SUBSET S : iter[s] = g[s]}
  <2>4. {} \in Same
    BY <1>3, <2>3 DEF Gathers
  <2>5. ASSUME NEW s \in SUBSET S, s # {}, NEW x, x = CHOOSE y \in s : TRUE, s \ {x} \in Same
        PROVE  s \in Same
    <3>1. x \in s /\ x \in ids /\ s \in SUBSET ids /\ s \ {x} \in SUBSET ids /\ Chosen(ids)[s] = x
      BY <2>5 DEF Chosen
    <3>2. g[s] = Adding(timings, ids)[x][g[s \ {x}]] /\ g[s \ {x}] \in Nat
      BY <1>3, <2>5, <3>1 DEF Gathers
    <3>3. g[s] = Duration(timings, x) + g[s \ {x}]
      BY <3>1, <3>2 DEF Adding
    <3>4. iter[s] = Duration(timings, x) + iter[s \ {x}]
      BY <2>3, <2>5
    <3> QED BY <2>5, <3>3, <3>4
  <2>6. IsFiniteSet(S)
    BY FS_Subset
  <2>7. Same \in SUBSET (SUBSET S)
    OBVIOUS
  <2> HIDE DEF Same
  <2>8. \A s \in SUBSET S : s # {} /\ (\A x \in s : s \ {x} \in Same) => s \in Same
    BY <2>5
  <2>9. Same = SUBSET S
    BY <2>4, <2>6, <2>7, <2>8, PartInduction
  <2> QED BY <2>1, <2>9 DEF Same
<1> QED BY <1>3, <1>4

(* What a shard takes is what its tests take, in whatever order.           *)
LEMMA LoadFacts ==
  ASSUME NEW timings, Measured(timings), NEW tests, IsFiniteSet(tests)
  PROVE  /\ Load(timings, tests) \in Nat
         /\ Load(timings, {}) = 0
         /\ \A t \in tests : Load(timings, tests) = Duration(timings, t) + Load(timings, tests \ {t})
<1> DEFINE D(t) == Duration(timings, t)
<1>1. PICK g : /\ Gathers(g, tests, Nat, 0, Adding(timings, tests), Chosen(tests))
               /\ \A s \in SUBSET tests : Load(timings, s) = g[s]
  BY LoadIsGathered
<1>2. \A s \in SUBSET tests : g[s] \in Nat
  BY <1>1 DEF Gathers
<1>3. Load(timings, {}) = 0
  BY <1>1 DEF Gathers
<1>4. \A t : D(t) \in Nat
  BY DurationType
<1>5. ASSUME NEW s \in SUBSET tests, s # {}
      PROVE  /\ Chosen(tests)[s] \in s /\ g[s] = D(Chosen(tests)[s]) + g[s \ {Chosen(tests)[s]}]
  <2> DEFINE x == Chosen(tests)[s]
  <2>1. x \in s /\ x \in tests /\ s \ {x} \in SUBSET tests
    BY <1>5 DEF Chosen
  <2>2. g[s] = Adding(timings, tests)[x][g[s \ {x}]]
    BY <1>1, <1>5 DEF Gathers
  <2> HIDE DEF x
  <2>3. g[s] = D(x) + g[s \ {x}]
    BY <1>2, <2>1, <2>2 DEF Adding
  <2> QED BY <2>1, <2>3 DEF x
<1> HIDE DEF D
<1> DEFINE P == {s \in SUBSET tests : \A t \in s : g[s] = D(t) + g[s \ {t}]}
<1>6. ASSUME NEW s \in SUBSET tests, s # {}, \A x \in s : s \ {x} \in P PROVE s \in P
  <2>1. SUFFICES ASSUME NEW t \in s PROVE g[s] = D(t) + g[s \ {t}]
    OBVIOUS
  <2>2. PICK x \in s : g[s] = D(x) + g[s \ {x}]
    BY <1>5, <1>6
  <2>3. CASE x = t
    BY <2>2, <2>3
  <2>4. CASE x # t
    <3>1. t \in s \ {x} /\ x \in s \ {t} /\ (s \ {x}) \ {t} = (s \ {t}) \ {x}
      BY <2>4
    <3> DEFINE r == (s \ {t}) \ {x}
    <3>2. g[s \ {x}] = D(t) + g[r] /\ g[s \ {t}] = D(x) + g[r]
      BY <1>6, <3>1
    <3>3. g[r] \in Nat /\ D(x) \in Nat /\ D(t) \in Nat
      BY <1>2, <1>4
    <3> HIDE DEF r
    <3> QED BY <2>2, <3>2, <3>3
  <2> QED BY <2>3, <2>4
<1>7. {} \in P /\ P \in SUBSET (SUBSET tests)
  OBVIOUS
<1> HIDE DEF P
<1>8. P = SUBSET tests
  BY <1>6, <1>7, PartInduction
<1>9. \A t \in tests : g[tests] = D(t) + g[tests \ {t}]
  BY <1>8 DEF P
<1> QED BY <1>1, <1>2, <1>3, <1>9 DEF D

(* A shard that gets a test takes as much longer as the test.              *)
LEMMA LoadGrows ==
  ASSUME NEW timings, Measured(timings), NEW tests, IsFiniteSet(tests), NEW t, t \notin tests
  PROVE  Load(timings, tests \cup {t}) = Load(timings, tests) + Duration(timings, t)
<1>1. IsFiniteSet(tests \cup {t}) /\ (tests \cup {t}) \ {t} = tests
  BY FS_AddElement
<1>2. Load(timings, tests \cup {t}) = Duration(timings, t) + Load(timings, tests)
  BY <1>1, LoadFacts
<1>3. Load(timings, tests) \in Nat /\ Duration(timings, t) \in Nat
  BY LoadFacts, DurationType
<1> QED BY <1>2, <1>3

-------------------------------------------------------------------------------
(* Longest first: the tests get places without a gap, none twice.          *)
LEMMA PlaceFacts ==
  ASSUME NEW timings, Measured(timings), NEW ids \in SUBSET Int, IsFiniteSet(ids)
  PROVE  /\ \A t \in ids : Place(ids, timings, t) \in 0..(Cardinality(ids) - 1)
         /\ \A s, t \in ids : Precedes(timings, s, t) => Place(ids, timings, s) < Place(ids, timings, t)
         /\ \A s, t \in ids : s = t \/ Precedes(timings, s, t) \/ Precedes(timings, t, s)
         /\ \A s, t \in ids : Place(ids, timings, s) = Place(ids, timings, t) => s = t
         /\ \A k \in 0..(Cardinality(ids) - 1) : \E t \in ids : Place(ids, timings, t) = k
<1> DEFINE Ahead(t) == {s \in ids : Precedes(timings, s, t)}
<1>1. \A t : Duration(timings, t) \in Nat
  BY DurationType
<1>2. \A t : IsFiniteSet(Ahead(t)) /\ Cardinality(Ahead(t)) \in Nat
  BY FS_Subset, FS_CardinalityType
<1>3. ASSUME NEW t \in ids PROVE Place(ids, timings, t) \in 0..(Cardinality(ids) - 1)
  <2>1. t \notin Ahead(t)
    BY <1>1 DEF Precedes
  <2>2. Ahead(t) \subseteq ids /\ Ahead(t) # ids
    BY <2>1
  <2>3. Cardinality(Ahead(t)) <= Cardinality(ids) /\ Cardinality(Ahead(t)) # Cardinality(ids)
    <3> HIDE DEF Ahead
    <3> QED BY <2>2, FS_Subset
  <2>4. Cardinality(ids) \in Nat
    BY FS_CardinalityType
  <2>5. Cardinality(Ahead(t)) \in 0..(Cardinality(ids) - 1)
    <3> HIDE DEF Ahead
    <3> QED BY <1>2, <2>3, <2>4
  <2> QED BY <2>5 DEF Place
<1>4. ASSUME NEW s \in ids, NEW t \in ids, Precedes(timings, s, t)
      PROVE  Place(ids, timings, s) < Place(ids, timings, t)
  <2>1. ASSUME NEW u \in ids, Precedes(timings, u, s) PROVE Precedes(timings, u, t)
    <3>1. /\ Duration(timings, u) \in Nat /\ Duration(timings, s) \in Nat /\ Duration(timings, t) \in Nat
          /\ u \in Int /\ s \in Int /\ t \in Int
      BY <1>1
    <3> QED BY <1>4, <2>1, <3>1 DEF Precedes
  <2>2. s \in Ahead(t) /\ s \notin Ahead(s)
    BY <1>1, <1>4 DEF Precedes
  <2>3. IsFiniteSet(Ahead(t)) /\ Ahead(s) # Ahead(t)
    BY <1>2, <2>2
  <2>4. Cardinality(Ahead(s)) < Cardinality(Ahead(t))
    <3>1. Ahead(s) \subseteq Ahead(t)
      BY <2>1
    <3> HIDE DEF Ahead
    <3>2. Cardinality(Ahead(s)) <= Cardinality(Ahead(t)) /\ Cardinality(Ahead(s)) # Cardinality(Ahead(t))
      BY <2>3, <3>1, FS_Subset
    <3> QED BY <1>2, <3>2
  <2> QED BY <2>4 DEF Place
<1>5. \A s, t \in ids : s = t \/ Precedes(timings, s, t) \/ Precedes(timings, t, s)
  BY <1>1 DEF Precedes
<1> DEFINE n == Cardinality(ids)
           P(t) == Place(ids, timings, t)
           place == [t \in ids |-> P(t)]
<1>8. n \in Nat
  BY FS_CardinalityType
<1> HIDE DEF P
<1>6. \A s, t \in ids : P(s) = P(t) => s = t
  <2>1. ASSUME NEW s \in ids, NEW t \in ids, Precedes(timings, s, t) PROVE P(s) # P(t)
    <3>1. P(s) < P(t) /\ P(s) \in Int /\ P(t) \in Int
      BY <1>3, <1>4, <2>1 DEF P
    <3> QED BY <3>1
  <2> QED BY <1>5, <2>1
<1>7. ASSUME NEW k \in 0..(n - 1) PROVE \E t \in ids : P(t) = k
  <2>1. SUFFICES ASSUME k \notin {P(t) : t \in ids} PROVE FALSE
    OBVIOUS
  <2> DEFINE rest == (0..(n - 1)) \ {k}
  <2>2. IsFiniteSet(0..(n - 1)) /\ Cardinality(0..(n - 1)) = n
    BY <1>8, FS_Interval
  <2>3. IsFiniteSet(rest) /\ Cardinality(rest) < Cardinality(ids)
    <3>1. IsFiniteSet(rest) /\ Cardinality(rest) = n - 1
      BY <2>2, FS_RemoveElement
    <3> QED BY <1>8, <3>1
  <2>4. place \in [ids -> rest]
    BY <1>3, <2>1 DEF P
  <2> HIDE DEF rest, place
  <2>5. PICK s, t \in ids : s # t /\ place[s] = place[t]
    BY <2>3, <2>4, FS_PigeonHole
  <2> QED BY <1>6, <2>5 DEF place
<1> QED BY <1>3, <1>4, <1>5, <1>6, <1>7 DEF P

(* The order of allocation lists every test once, none before a longer     *)
(* one.                                                                    *)
LEMMA LongestFirstFacts ==
  ASSUME NEW timings, Measured(timings), NEW ids \in SUBSET Int, IsFiniteSet(ids)
  PROVE  LET n == Cardinality(ids)  order == LongestFirst(ids, timings)
         IN  /\ n \in Nat /\ order \in [1..n -> ids]
             /\ ids = {order[i] : i \in 1..n}
             /\ \A i, j \in 1..n : i < j =>
                  order[i] # order[j] /\ Duration(timings, order[i]) >= Duration(timings, order[j])
<1> DEFINE n == Cardinality(ids)
           order == LongestFirst(ids, timings)
           P(t) == Place(ids, timings, t)
<1>1. n \in Nat
  BY FS_CardinalityType
<1>2. /\ \A t \in ids : P(t) \in 0..(n - 1)
      /\ \A s, t \in ids : Precedes(timings, s, t) => P(s) < P(t)
      /\ \A s, t \in ids : s = t \/ Precedes(timings, s, t) \/ Precedes(timings, t, s)
      /\ \A s, t \in ids : P(s) = P(t) => s = t
      /\ \A k \in 0..(n - 1) : \E t \in ids : P(t) = k
  BY PlaceFacts
<1> HIDE DEF P
<1>5. ASSUME NEW i \in 1..n PROVE order[i] \in ids /\ P(order[i]) = i - 1
  <2>1. i - 1 \in 0..(n - 1)
    BY <1>1
  <2>2. order[i] = CHOOSE t \in ids : P(t) = i - 1
    BY DEF LongestFirst, P
  <2> QED BY <1>2, <2>1, <2>2
<1>6. order \in [1..n -> ids]
  BY <1>5 DEF LongestFirst
<1>7. ids = {order[i] : i \in 1..n}
  <2>1. ASSUME NEW t \in ids PROVE \E i \in 1..n : order[i] = t
    <3>1. P(t) + 1 \in 1..n /\ (P(t) + 1) - 1 = P(t)
      BY <1>1, <1>2
    <3>2. P(order[P(t) + 1]) = P(t) /\ order[P(t) + 1] \in ids
      BY <1>5, <3>1
    <3> QED BY <1>2, <3>1, <3>2
  <2> HIDE DEF order
  <2> QED BY <1>5, <2>1
<1>8. ASSUME NEW i \in 1..n, NEW j \in 1..n, i < j
      PROVE  order[i] # order[j] /\ Duration(timings, order[i]) >= Duration(timings, order[j])
  <2>1. /\ order[i] \in ids /\ order[j] \in ids
        /\ P(order[i]) = i - 1 /\ P(order[j]) = j - 1
    BY <1>5
  <2> HIDE DEF order
  <2>2. P(order[i]) < P(order[j])
    BY <1>1, <1>8, <2>1
  <2>3. ~ Precedes(timings, order[j], order[i])
    <3>1. P(order[i]) \in Int /\ P(order[j]) \in Int /\ ~ (P(order[j]) < P(order[i]))
      BY <1>2, <2>1, <2>2
    <3> QED BY <1>2, <2>1, <3>1
  <2>4. Duration(timings, order[i]) \in Nat /\ Duration(timings, order[j]) \in Nat
    BY DurationType
  <2>5. Duration(timings, order[i]) >= Duration(timings, order[j])
    BY <2>3, <2>4 DEF Precedes
  <2>6. P(order[i]) # P(order[j])
    BY <1>1, <1>2, <2>1, <2>2
  <2> QED BY <2>5, <2>6
<1> HIDE DEF n, order
<1> QED BY <1>1, <1>6, <1>7, <1>8 DEF n, order

-------------------------------------------------------------------------------
(* There is a lightest shard, and no other takes less.                     *)
LEMMA LightestFacts ==
  ASSUME NEW timings, Measured(timings), NEW n \in Nat \ {0},
         NEW shards, DOMAIN shards = Shards(n), \A i \in Shards(n) : IsFiniteSet(shards[i])
  PROVE  /\ Lightest(timings, shards) \in Shards(n)
         /\ \A j \in Shards(n) :
              Load(timings, shards[Lightest(timings, shards)]) <= Load(timings, shards[j])
<1> DEFINE L(i) == Load(timings, shards[i])
           C(i) == Cardinality(shards[i])
<1>1. ASSUME NEW i \in Shards(n) PROVE L(i) \in Nat /\ C(i) \in Nat /\ i \in Nat
  <2>1. L(i) \in Nat
    BY LoadFacts
  <2>2. C(i) \in Nat
    BY FS_CardinalityType
  <2> QED BY <2>1, <2>2 DEF Shards
<1> HIDE DEF L, C
<1> DEFINE Loads == {L(i) : i \in Shards(n)}
<1>2. 0 \in Shards(n)
  BY DEF Shards
<1>3. PICK l \in Loads : \A m \in Loads : l <= m
  <2>1. Loads \in SUBSET Nat /\ Loads # {}
    BY <1>1, <1>2
  <2> HIDE DEF Loads
  <2> QED BY <2>1, LeastNatural
<1> DEFINE Light  == {i \in Shards(n) : L(i) = l}
           Counts == {C(i) : i \in Light}
<1>4. PICK c \in Counts : \A m \in Counts : c <= m
  <2>1. Counts \in SUBSET Nat /\ Counts # {}
    BY <1>1, <1>3
  <2> HIDE DEF Counts
  <2> QED BY <2>1, LeastNatural
<1> DEFINE Small == {i \in Light : C(i) = c}
<1>5. PICK i \in Small : \A m \in Small : i <= m
  <2>1. Small \in SUBSET Nat /\ Small # {}
    BY <1>1, <1>4
  <2> HIDE DEF Small
  <2> QED BY <2>1, LeastNatural
<1>6. i \in Shards(n) /\ L(i) = l /\ C(i) = c
  BY <1>5
<1>7. ASSUME NEW j \in Shards(n) PROVE Before(timings, shards, i, j)
  <2>1. /\ L(i) \in Nat /\ L(j) \in Nat /\ L(i) <= L(j)
        /\ L(i) = L(j) => C(i) <= C(j)
        /\ L(i) = L(j) /\ C(i) = C(j) => i <= j
    BY <1>1, <1>3, <1>4, <1>5, <1>6
  <2>2. C(i) \in Nat /\ C(j) \in Nat /\ i \in Nat /\ j \in Nat
    BY <1>1, <1>6
  <2>3. L(i) < L(j) \/ (L(i) = L(j) /\ (C(i) < C(j) \/ (C(i) = C(j) /\ i <= j)))
    BY <2>1, <2>2
  <2> QED BY <2>3 DEF Before, L, C
<1>8. Lightest(timings, shards) \in Shards(n)
      /\ \A j \in Shards(n) : Before(timings, shards, Lightest(timings, shards), j)
  BY <1>6, <1>7 DEF Lightest
<1>9. ASSUME NEW j \in Shards(n) PROVE L(Lightest(timings, shards)) <= L(j)
  <2>1. L(Lightest(timings, shards)) < L(j) \/ L(Lightest(timings, shards)) = L(j)
    BY <1>8 DEF Before, L
  <2> QED BY <1>1, <1>8, <2>1
<1> QED BY <1>8, <1>9 DEF L

(* The tests are handed out one after the other.                           *)
Gets(timings, shards, t) == [shards EXCEPT ![Lightest(timings, shards)] = @ \cup {t}]

Handed(h, ids, n, timings) ==
  LET order == LongestFirst(ids, timings)
  IN  /\ h[0] = [i \in Shards(n) |-> {}]
      /\ \A k \in 0..(Cardinality(ids) - 1) : h[k + 1] = Gets(timings, h[k], order[k + 1])
      /\ Greedy(ids, n, timings) = h[Cardinality(ids)]

(* The fold that hands out the tests is the function that does it one by   *)
(* one, from empty shards on.                                              *)
LEMMA GreedyIsHanded ==
  ASSUME NEW timings, Measured(timings), NEW ids \in SUBSET Int, IsFiniteSet(ids), NEW n \in Nat \ {0}
  PROVE  \E h : Handed(h, ids, n, timings)
<1> DEFINE size  == Cardinality(ids)
           order == LongestFirst(ids, timings)
           V     == [Shards(n) -> SUBSET ids]
           none  == [i \in Shards(n) |-> {}]
           S     == 1..size
           pick  == [s \in SUBSET S |-> Max(s)]
           step  == [i \in S |-> [sh \in V |-> Gets(timings, sh, order[i])]]
<1>1. size \in Nat /\ order \in [S -> ids]
  BY LongestFirstFacts
<1> HIDE DEF order
<1>2. IsFiniteSet(S)
  BY <1>1, FS_Interval
<1>3. ASSUME NEW s \in SUBSET S, s # {} PROVE pick[s] = Max(s) /\ Max(s) \in s
  <2>1. s \in SUBSET (0..size)
    BY <1>1
  <2>2. PICK m \in s : \A k \in s : m >= k
    <3> HIDE DEF size, S
    <3> QED BY <1>1, <1>3, <2>1, GreatestNatural
  <2> QED BY <2>2 DEF Max
<1>4. step \in [S -> [V -> V]]
  <2>1. ASSUME NEW i \in S, NEW sh \in V PROVE Gets(timings, sh, order[i]) \in V
    <3>1. \A j \in Shards(n) : IsFiniteSet(sh[j])
      BY FS_Subset
    <3>2. Lightest(timings, sh) \in Shards(n)
      BY <3>1, LightestFacts
    <3>3. order[i] \in ids
      BY <1>1
    <3> QED BY <3>2, <3>3 DEF Gets
  <2> QED BY <2>1
<1>5. none \in V
  OBVIOUS
<1>6. PICK g : Gathers(g, S, V, none, step, pick)
  <2> HIDE DEF V, none, S, pick, step
  <2> QED BY <1>2, <1>3, <1>4, <1>5, FiniteRecursion
<1>7. ASSUME NEW s \in SUBSET S
      PROVE  g[s] = IF s = {} THEN none ELSE Gets(timings, g[s \ {Max(s)}], order[Max(s)])
  <2>1. CASE s = {}
    BY <1>6, <2>1 DEF Gathers
  <2>2. CASE s # {}
    <3>1. g[s] = step[Max(s)][g[s \ {Max(s)}]]
      BY <1>3, <1>6, <2>2 DEF Gathers
    <3>2. Max(s) \in S /\ g[s \ {Max(s)}] \in V
      BY <1>3, <1>6, <2>2 DEF Gathers
    <3> QED BY <2>2, <3>1, <3>2
  <2> QED BY <2>1, <2>2
<1> DEFINE h == [k \in 0..size |-> g[1..k]]
<1>8. h[0] = none
  <2>1. 1..0 = {} /\ 0 \in 0..size
    BY <1>1
  <2> QED BY <1>7, <2>1
<1>9. ASSUME NEW k \in 0..(size - 1) PROVE h[k + 1] = Gets(timings, h[k], order[k + 1])
  <2>1. k \in 0..size /\ k + 1 \in 0..size /\ 1..(k + 1) \in SUBSET S /\ 1..(k + 1) # {}
    BY <1>1
  <2>2. Max(1..(k + 1)) = k + 1
    BY <1>1 DEF Max
  <2>3. (1..(k + 1)) \ {k + 1} = 1..k
    BY <1>1
  <2>4. h[k + 1] = g[1..(k + 1)] /\ h[k] = g[1..k]
    BY <2>1
  <2> HIDE DEF h
  <2> QED BY <1>7, <2>1, <2>2, <2>3, <2>4
<1>10. Greedy(ids, n, timings) = g[S]
  <2> DEFINE Loop(f) == f = [s \in SUBSET S |-> IF s = {} THEN none
                               ELSE LET x == Max(s) IN Gets(timings, f[s \ {x}], order[x])]
             iter == CHOOSE f : Loop(f)
  <2>1. DOMAIN order = S
    BY <1>1
  <2>2. Greedy(ids, n, timings) = iter[S]
    BY <2>1 DEF Greedy, FoldLeft, MapThenFoldSet, Gets, order
  <2>3. Loop([s \in SUBSET S |-> g[s]])
    <3> DEFINE f == [s \in SUBSET S |-> g[s]]
    <3>1. ASSUME NEW s \in SUBSET S
          PROVE  f[s] = IF s = {} THEN none ELSE LET x == Max(s) IN Gets(timings, f[s \ {x}], order[x])
      <4>1. f[s] = g[s] /\ f[s \ {Max(s)}] = g[s \ {Max(s)}]
        OBVIOUS
      <4> HIDE DEF f
      <4> QED BY <1>7, <4>1
    <3> HIDE DEF f, S, none
    <3>2. f = [s \in SUBSET S |-> f[s]]
      BY DEF f
    <3> QED BY <3>1, <3>2 DEF f
  <2>4. Loop(iter)
    <3> HIDE DEF Loop
    <3> QED BY <2>3
  <2> HIDE DEF iter
  <2> DEFINE Same == {s \in SUBSET S : iter[s] = g[s]}
  <2>5. {} \in Same
    BY <1>7, <2>4
  <2>6. ASSUME NEW s \in SUBSET S, s # {}, \A x \in s : s \ {x} \in Same PROVE s \in Same
    <3>1. Max(s) \in s /\ s \ {Max(s)} \in Same
      BY <1>3, <2>6
    <3>2. iter[s] = Gets(timings, iter[s \ {Max(s)}], order[Max(s)])
      BY <2>4, <2>6
    <3> QED BY <1>7, <2>6, <3>1, <3>2
  <2>7. Same \in SUBSET (SUBSET S)
    OBVIOUS
  <2> HIDE DEF Same
  <2>8. Same = SUBSET S
    <3> HIDE DEF S
    <3> QED BY <1>2, <2>5, <2>6, <2>7, PartInduction
  <2> QED BY <2>2, <2>8 DEF Same
<1>11. h[size] = g[S]
  BY <1>1
<1> HIDE DEF h
<1> QED BY <1>8, <1>9, <1>10, <1>11 DEF Handed, order

-------------------------------------------------------------------------------
(* What holds of the shards after the first k tests were handed out.       *)
Filled(shards, ids, n, timings, k) ==
  LET order == LongestFirst(ids, timings)
  IN  /\ shards \in [Shards(n) -> SUBSET ids]
      /\ UNION {shards[i] : i \in Shards(n)} = {order[m] : m \in 1..k}
      /\ \A i, j \in Shards(n) : i # j => shards[i] \cap shards[j] = {}
      /\ \A i, j \in Shards(n) : \A t \in shards[i] :
           Load(timings, shards[i]) <= Load(timings, shards[j]) + Duration(timings, t)

(* The next test is as short as any before, and goes to a shard that is    *)
(* ahead of none.                                                          *)
LEMMA GetsKeepsFilled ==
  ASSUME NEW timings, Measured(timings), NEW ids \in SUBSET Int, IsFiniteSet(ids), NEW n \in Nat \ {0},
         NEW k \in 0..(Cardinality(ids) - 1), NEW shards, Filled(shards, ids, n, timings, k)
  PROVE  Filled(Gets(timings, shards, LongestFirst(ids, timings)[k + 1]), ids, n, timings, k + 1)
<1> DEFINE size  == Cardinality(ids)
           order == LongestFirst(ids, timings)
           t     == order[k + 1]
           l     == Lightest(timings, shards)
           new   == Gets(timings, shards, t)
           L(i)  == Load(timings, shards[i])
           D(u)  == Duration(timings, u)
<1>1. /\ size \in Nat /\ order \in [1..size -> ids]
      /\ \A i, j \in 1..size : i < j => order[i] # order[j] /\ D(order[i]) >= D(order[j])
  BY LongestFirstFacts
<1>2. k \in Nat /\ k + 1 \in 1..size /\ 1..(k + 1) = 1..k \cup {k + 1} /\ 1..k \subseteq 1..size
  BY <1>1
<1>3. /\ shards \in [Shards(n) -> SUBSET ids]
      /\ UNION {shards[i] : i \in Shards(n)} = {order[m] : m \in 1..k}
      /\ \A i, j \in Shards(n) : i # j => shards[i] \cap shards[j] = {}
      /\ \A i, j \in Shards(n) : \A u \in shards[i] : L(i) <= L(j) + D(u)
  BY DEF Filled
<1>4. t \in ids
  BY <1>1, <1>2
<1>5. ASSUME NEW i \in Shards(n), NEW u \in shards[i] PROVE u # t /\ D(u) >= D(t)
  <2>1. PICK m \in 1..k : u = order[m]
    BY <1>3, <1>5
  <2>2. m \in 1..size /\ m < k + 1
    BY <1>2
  <2> QED BY <1>1, <1>2, <2>1, <2>2
<1>6. \A i \in Shards(n) : IsFiniteSet(shards[i])
  BY <1>3, FS_Subset
<1>7. l \in Shards(n) /\ \A j \in Shards(n) : L(l) <= L(j)
  BY <1>3, <1>6, LightestFacts
<1>8. \A u : D(u) \in Nat
  BY DurationType
<1>9. \A i \in Shards(n) : L(i) \in Nat
  BY <1>6, LoadFacts
<1>10. Load(timings, shards[l] \cup {t}) = L(l) + D(t)
  BY <1>5, <1>6, <1>7, LoadGrows
<1> HIDE DEF order, t, l, L, D
<1>11. /\ new \in [Shards(n) -> SUBSET ids]
       /\ \A i \in Shards(n) : new[i] = IF i = l THEN shards[i] \cup {t} ELSE shards[i]
  BY <1>3, <1>4, <1>7 DEF Gets, l
<1> HIDE DEF new
<1>12. UNION {new[i] : i \in Shards(n)} = {order[m] : m \in 1..(k + 1)}
  <2>1. UNION {new[i] : i \in Shards(n)} = (UNION {shards[i] : i \in Shards(n)}) \cup {t}
    BY <1>7, <1>11
  <2>2. {order[m] : m \in 1..(k + 1)} = {order[m] : m \in 1..k} \cup {t}
    BY <1>2 DEF t
  <2> QED BY <1>3, <2>1, <2>2
<1>13. ASSUME NEW i \in Shards(n), NEW j \in Shards(n), i # j PROVE new[i] \cap new[j] = {}
  BY <1>3, <1>5, <1>11, <1>13
<1>14. \A i \in Shards(n) : Load(timings, new[i]) = IF i = l THEN L(l) + D(t) ELSE L(i)
  BY <1>10, <1>11 DEF L
<1>15. ASSUME NEW i \in Shards(n), NEW j \in Shards(n), NEW u \in new[i]
       PROVE  Load(timings, new[i]) <= Load(timings, new[j]) + D(u)
  <2>1. /\ L(i) \in Nat /\ L(j) \in Nat /\ L(l) \in Nat /\ D(t) \in Nat /\ D(u) \in Nat
        /\ L(l) <= L(j)
    BY <1>7, <1>8, <1>9
  <2>2. CASE i = l
    <3>1. D(u) >= D(t)
      BY <1>5, <1>7, <1>8, <1>11, <2>1, <2>2
    <3> QED BY <1>14, <2>1, <2>2, <3>1
  <2>3. CASE i # l
    <3>1. L(i) <= L(j) + D(u)
      BY <1>3, <1>11, <2>3
    <3> QED BY <1>14, <2>1, <2>3, <3>1
  <2> QED BY <2>2, <2>3
<1> QED BY <1>11, <1>12, <1>13, <1>15 DEF Filled, new, order, t, D

(* run_unit_shard.py:47-58: with timings, every test falls to one shard    *)
(* and the shards are even.                                                *)
LEMMA GreedySound ==
  ASSUME NEW timings, Measured(timings), timings # NoTimings,
         NEW ids \in SUBSET Int, IsFiniteSet(ids), NEW n \in Nat \ {0}
  PROVE  LET shards == Greedy(ids, n, timings)
         IN  shards \in [Shards(n) -> SUBSET ids] /\ Partitions(shards, ids) /\ Even(shards, timings)
<1> DEFINE size   == Cardinality(ids)
           order  == LongestFirst(ids, timings)
           shards == Greedy(ids, n, timings)
<1>1. size \in Nat /\ ids = {order[m] : m \in 1..size}
  <2>1. LET z == Cardinality(ids)  first == LongestFirst(ids, timings)
        IN  /\ z \in Nat /\ first \in [1..z -> ids]
            /\ ids = {first[i] : i \in 1..z}
            /\ \A i, j \in 1..z : i < j =>
                 first[i] # first[j] /\ Duration(timings, first[i]) >= Duration(timings, first[j])
    BY LongestFirstFacts, Zenon
  <2> QED BY <2>1
<1>2. PICK h : Handed(h, ids, n, timings)
  BY GreedyIsHanded
<1> DEFINE S == {k \in Nat : k <= size => Filled(h[k], ids, n, timings, k)}
<1>3. 0 \in S
  <2>1. h[0] = [i \in Shards(n) |-> {}] /\ 1..0 = {}
    BY <1>2 DEF Handed
  <2> QED BY <2>1 DEF Filled
<1>4. ASSUME NEW k \in S PROVE k + 1 \in S
  <2>1. SUFFICES ASSUME k + 1 <= size PROVE Filled(h[k + 1], ids, n, timings, k + 1)
    BY <1>4
  <2>2. k \in 0..(size - 1) /\ Filled(h[k], ids, n, timings, k)
    BY <1>1, <1>4, <2>1
  <2>3. h[k + 1] = Gets(timings, h[k], order[k + 1])
    BY <1>2, <2>2 DEF Handed
  <2> QED BY <2>2, <2>3, GetsKeepsFilled
<1>5. S \in SUBSET Nat
  OBVIOUS
<1> HIDE DEF S
<1>6. S = Nat
  BY <1>3, <1>4, <1>5, SetInduction
<1>7. Filled(shards, ids, n, timings, size)
  BY <1>1, <1>2, <1>6 DEF S, Handed
<1> HIDE DEF size, order, shards
<1>8. /\ shards \in [Shards(n) -> SUBSET ids] /\ UNION {shards[i] : i \in Shards(n)} = ids
      /\ \A i, j \in Shards(n) : i # j => shards[i] \cap shards[j] = {}
  BY <1>1, <1>7 DEF Filled, order
<1>9. ASSUME NEW i \in Shards(n), NEW j \in Shards(n), NEW t \in shards[i]
      PROVE  Load(timings, shards[i]) - Duration(timings, t) <= Load(timings, shards[j])
  <2>1. Load(timings, shards[i]) <= Load(timings, shards[j]) + Duration(timings, t)
    BY <1>7 DEF Filled
  <2>2. Load(timings, shards[i]) \in Nat /\ Load(timings, shards[j]) \in Nat
    BY <1>8, FS_Subset, LoadFacts
  <2>3. Duration(timings, t) \in Nat
    BY DurationType
  <2> QED BY <2>1, <2>2, <2>3
<1> QED BY <1>8, <1>9 DEF Partitions, Even, shards

-------------------------------------------------------------------------------
(* Division with remainder: the remainder is the only one.                 *)
LEMMA Remainder ==
  ASSUME NEW n \in Nat \ {0}, NEW r \in Nat
  PROVE  /\ r % n \in 0..(n - 1)
         /\ \E q \in Nat : r = n * q + (r % n)
<1>1. r \div n \in Nat /\ r % n \in 0..(n - 1) /\ r = n * (r \div n) + (r % n)
  OBVIOUS
<1> QED BY <1>1

(* A number has one remainder only.                                        *)
LEMMA RemainderUnique ==
  ASSUME NEW n \in Nat \ {0}, NEW q \in Nat, NEW i \in 0..(n - 1)
  PROVE  (n * q + i) % n = i
<1> DEFINE r == n * q + i
<1>1. n * q \in Nat /\ r \in Nat
  OBVIOUS
<1>2. PICK p \in Nat : r = n * p + (r % n)
  BY <1>1, Remainder
<1>3. r % n \in 0..(n - 1)
  BY <1>1, Remainder
<1>4. ASSUME NEW a \in Nat, NEW b \in Nat, a >= b + 1 PROVE n * a >= n * b + n
  <2>1. PICK c \in Nat : a = b + 1 + c
    <3>1. a - b - 1 \in Nat /\ a = b + 1 + (a - b - 1)
      BY <1>4
    <3> QED BY <3>1
  <2>2. n * a = n * b + n + n * c /\ n * c >= 0
    BY <2>1
  <2>3. n * a \in Nat /\ n * b \in Nat /\ n * c \in Nat
    OBVIOUS
  <2> QED BY <2>2, <2>3
<1>5. n * p \in Nat /\ n * q + i = n * p + (r % n)
  BY <1>2
<1>6. ~ (p >= q + 1)
  <2>1. SUFFICES ASSUME p >= q + 1 PROVE FALSE
    OBVIOUS
  <2>2. n * p >= n * q + n
    BY <1>4, <2>1
  <2> HIDE DEF r
  <2> QED BY <1>1, <1>3, <1>5, <2>2
<1>7. ~ (q >= p + 1)
  <2>1. SUFFICES ASSUME q >= p + 1 PROVE FALSE
    OBVIOUS
  <2>2. n * q >= n * p + n
    BY <1>4, <2>1
  <2> HIDE DEF r
  <2> QED BY <1>1, <1>3, <1>5, <2>2
<1>8. p = q
  BY <1>6, <1>7
<1> HIDE DEF r
<1>9. r % n = i
  BY <1>1, <1>3, <1>5, <1>8
<1> QED BY <1>9 DEF r

(* Ranks are the places that tests without any timing have.                *)
LEMMA RankFacts ==
  ASSUME NEW ids \in SUBSET Int, IsFiniteSet(ids)
  PROVE  /\ Cardinality(ids) \in Nat
         /\ \A t \in ids : Rank(ids, t) \in 0..(Cardinality(ids) - 1)
         /\ \A s, t \in ids : Rank(ids, s) = Rank(ids, t) => s = t
         /\ \A k \in 0..(Cardinality(ids) - 1) : \E t \in ids : Rank(ids, t) = k
<1>1. Measured(<<>>)
  BY DEF Measured
<1>2. ASSUME NEW t \in ids PROVE Rank(ids, t) = Place(ids, <<>>, t)
  <2>1. \A u \in ids : Duration(<<>>, u) = 1
    BY DEF Duration
  <2>2. \A u \in ids : Precedes(<<>>, u, t) <=> u < t
    BY <2>1 DEF Precedes
  <2> QED BY <2>2 DEF Rank, Place
<1>3. Cardinality(ids) \in Nat
  BY FS_CardinalityType
<1> QED BY <1>1, <1>2, <1>3, PlaceFacts

(* A shift of the ranks that maps some tests of one shard to tests of      *)
(* another shows that there are not more of them.                          *)
LEMMA Shifted ==
  ASSUME NEW ids \in SUBSET Int, IsFiniteSet(ids),
         NEW X \in SUBSET ids, NEW Y \in SUBSET ids, NEW d \in Int,
         \A t \in X : \E u \in Y : Rank(ids, u) = Rank(ids, t) - d
  PROVE  Cardinality(X) <= Cardinality(Y)
<1> DEFINE R(t) == Rank(ids, t)
           f == [t \in X |-> CHOOSE u \in Y : R(u) = R(t) - d]
<1>1. /\ \A t \in ids : R(t) \in Nat
      /\ \A s, t \in ids : R(s) = R(t) => s = t
  BY RankFacts
<1>2. ASSUME NEW t \in X PROVE f[t] \in Y /\ R(f[t]) = R(t) - d
  OBVIOUS
<1> HIDE DEF R
<1>3. f \in [X -> Y]
  BY <1>2
<1> HIDE DEF f
<1>4. ASSUME NEW s \in X, NEW t \in X, f[s] = f[t] PROVE s = t
  <2>1. R(s) - d = R(t) - d /\ R(s) \in Nat /\ R(t) \in Nat
    BY <1>1, <1>2, <1>4
  <2>2. R(s) = R(t)
    BY <2>1
  <2> QED BY <1>1, <2>2
<1>5. f \in Injection(X, Y)
  BY <1>3, <1>4 DEF Injection, IsInjective
<1>6. IsFiniteSet(Y)
  BY FS_Subset
<1> QED BY <1>5, <1>6, FS_Injection

(* run_unit_shard.py:47-52: without timings, every test falls to one shard *)
(* and no shard has two tests more than another.                           *)
LEMMA RoundRobinSound ==
  ASSUME NEW timings, timings = NoTimings,
         NEW ids \in SUBSET Int, IsFiniteSet(ids), NEW n \in Nat \ {0}
  PROVE  LET shards == RoundRobin(ids, n)
         IN  shards \in [Shards(n) -> SUBSET ids] /\ Partitions(shards, ids) /\ Even(shards, timings)
<1> DEFINE R(t) == Rank(ids, t)
           N == Cardinality(ids)
           shards == RoundRobin(ids, n)
<1>1. /\ N \in Nat
      /\ \A t \in ids : R(t) \in 0..(N - 1)
      /\ \A s, t \in ids : R(s) = R(t) => s = t
      /\ \A k \in 0..(N - 1) : \E t \in ids : R(t) = k
  BY RankFacts
<1>2. \A i \in Shards(n) : shards[i] = {t \in ids : R(t) % n = i}
  BY DEF RoundRobin
<1>3. shards \in [Shards(n) -> SUBSET ids]
  BY DEF RoundRobin
<1> HIDE DEF R, N, shards
<1>4. ASSUME NEW t \in ids PROVE \E i \in Shards(n) : t \in shards[i]
  <2>1. R(t) \in Nat
    BY <1>1
  <2>2. R(t) % n \in Shards(n)
    BY <2>1, Remainder DEF Shards
  <2> QED BY <1>2, <2>2
<1>5. Partitions(shards, ids)
  <2>1. DOMAIN shards = Shards(n) /\ \A i \in Shards(n) : shards[i] \subseteq ids
    BY <1>3
  <2>2. UNION {shards[i] : i \in Shards(n)} = ids
    BY <1>4, <2>1
  <2>3. \A i, j \in Shards(n) : i # j => shards[i] \cap shards[j] = {}
    BY <1>2
  <2> QED BY <2>1, <2>2, <2>3 DEF Partitions
<1>6. \A i \in Shards(n) : IsFiniteSet(shards[i]) /\ Cardinality(shards[i]) \in Nat
  BY <1>3, FS_Subset, FS_CardinalityType
<1>7. ASSUME NEW i \in Shards(n), NEW t \in shards[i]
      PROVE  \E q \in Nat : R(t) = n * q + i /\ n * q \in Nat
  <2>1. t \in ids /\ R(t) % n = i
    BY <1>2
  <2>4. R(t) \in Nat
    BY <1>1, <2>1
  <2>2. PICK q \in Nat : R(t) = n * q + i
    BY <2>1, <2>4, Remainder
  <2>3. n * q \in Nat
    OBVIOUS
  <2> QED BY <2>2, <2>3
<1>8. ASSUME NEW j \in Shards(n), NEW q \in Nat, n * q + j <= N - 1
      PROVE  \E u \in shards[j] : R(u) = n * q + j
  <2>1. n * q + j \in 0..(N - 1) /\ j \in 0..(n - 1)
    BY <1>1, <1>8 DEF Shards
  <2>2. PICK u \in ids : R(u) = n * q + j
    BY <1>1, <2>1
  <2>3. R(u) % n = j
    BY <2>1, <2>2, RemainderUnique
  <2> QED BY <1>2, <2>2, <2>3
<1>9. ASSUME NEW i \in Shards(n), NEW j \in Shards(n)
      PROVE  Cardinality(shards[i]) <= Cardinality(shards[j]) + 1
  <2>1. i \in 0..(n - 1) /\ j \in 0..(n - 1) /\ shards[i] \in SUBSET ids /\ shards[j] \in SUBSET ids
    BY <1>3 DEF Shards
  <2>2. CASE j <= i
    <3>1. ASSUME NEW t \in shards[i] PROVE \E u \in shards[j] : R(u) = R(t) - (i - j)
      <4>1. PICK q \in Nat : R(t) = n * q + i /\ n * q \in Nat
        BY <1>7
      <4>2. R(t) \in 0..(N - 1)
        BY <1>1, <2>1
      <4>3. n * q + j <= N - 1
        BY <1>1, <2>1, <2>2, <4>1, <4>2
      <4>4. R(t) - (i - j) = n * q + j
        BY <2>1, <4>1
      <4> QED BY <1>8, <4>3, <4>4
    <3>2. i - j \in Int
      BY <2>1
    <3>3. Cardinality(shards[i]) <= Cardinality(shards[j])
      BY <2>1, <3>1, <3>2, Shifted DEF R
    <3> QED BY <1>6, <3>3
  <2>3. CASE i < j
    <3> DEFINE rest == {t \in shards[i] : R(t) # i}
    <3>1. ASSUME NEW t \in rest PROVE \E u \in shards[j] : R(u) = R(t) - (i - j + n)
      <4>1. PICK q \in Nat : R(t) = n * q + i /\ n * q \in Nat
        BY <1>7
      <4>2. R(t) \in 0..(N - 1)
        BY <1>1, <2>1
      <4>3. q # 0
        BY <2>1, <4>1
      <4>4. q - 1 \in Nat /\ n * (q - 1) = n * q - n /\ n * (q - 1) \in Int
        BY <4>3
      <4>5. n * (q - 1) + j <= N - 1
        BY <1>1, <2>1, <2>3, <4>1, <4>2, <4>4
      <4>6. R(t) - (i - j + n) = n * (q - 1) + j
        BY <2>1, <4>1, <4>4
      <4> QED BY <1>8, <4>4, <4>5, <4>6
    <3>2. i - j + n \in Int /\ rest \in SUBSET ids
      BY <2>1
    <3> HIDE DEF rest
    <3>3. Cardinality(rest) <= Cardinality(shards[j])
      BY <2>1, <3>1, <3>2, Shifted DEF R
    <3>4. Cardinality(shards[i]) <= Cardinality(rest) + 1 /\ Cardinality(rest) \in Nat
      <4>1. PICK x : shards[i] \subseteq rest \cup {x}
        <5>1. \A s, t \in shards[i] : R(s) = i /\ R(t) = i => s = t
          BY <1>1, <2>1
        <5> QED BY <5>1 DEF rest
      <4>2. IsFiniteSet(rest) /\ Cardinality(rest) \in Nat
        BY <3>2, FS_Subset, FS_CardinalityType
      <4>3. IsFiniteSet(rest \cup {x}) /\ Cardinality(rest \cup {x}) <= Cardinality(rest) + 1
        <5>1. /\ IsFiniteSet(rest \cup {x})
              /\ Cardinality(rest \cup {x}) \in {Cardinality(rest), Cardinality(rest) + 1}
          BY <4>2, FS_AddElement
        <5> QED BY <4>2, <5>1
      <4>4. Cardinality(shards[i]) <= Cardinality(rest \cup {x}) /\ Cardinality(rest \cup {x}) \in Nat
        BY <4>1, <4>3, FS_Subset, FS_CardinalityType
      <4> QED BY <1>6, <4>2, <4>3, <4>4
    <3> QED BY <1>6, <3>3, <3>4
  <2> QED BY <2>1, <2>2, <2>3
<1> QED BY <1>3, <1>5, <1>9 DEF Even, shards

-------------------------------------------------------------------------------
UnitFields   == {"at", "inventory", "broken", "assigned", "waiting", "courses", "fixtures"}
RunnerFields == {"at", "sound", "row"}
SuiteFields  == {"state", "code", "alive"}
FileFields   == {"report", "summary"}

(* A report that says passed was written at the end, and lists what the    *)
(* tests of the shard did.                                                 *)
UnitTruth(j) ==
  reports[j] # Missing /\ reports[j].status = "passed" =>
    /\ unit[j].at = "ended"
    /\ reports[j].inventory = unit[j].inventory
    /\ reports[j].assigned = unit[j].assigned
    /\ reports[j].results = [t \in unit[j].assigned |-> Row(unit[j], t)]
    /\ reports[j].clean => Clean(unit[j])

UnitInv ==
  kind = "unit" =>
    /\ DOMAIN reports = DOMAIN unit
    /\ \A j \in DOMAIN unit : DOMAIN unit[j] = UnitFields /\ UnitTruth(j)

(* A suite that succeeded has left its report of this run.                 *)
ReportTruth(j) ==
  /\ runner[j].at \in {"starting", "ready"} => suite[j].state = "none"
  /\ suite[j].state = "exited" /\ suite[j].code = 0 => Reported(j)
  /\ files[j].report # Missing =>
       files[j].report.expected = Grid(j) /\ files[j].report.assigned = Assigned(j)

(* The runner's row says passed only of a suite that succeeded.            *)
RowTruth(j) ==
  /\ runner[j].at = "starting" => runner[j].row.status # "passed"
  /\ runner[j].at \in {"reading", "summing"} /\ runner[j].row.status = "passed" =>
       suite[j].state = "exited" /\ suite[j].code = 0
  /\ runner[j].at = "summing" /\ runner[j].row.status = "passed" =>
       /\ runner[j].row.coverage.expected = Grid(j)
       /\ runner[j].row.coverage.assigned = Assigned(j)

SummaryTruth(j) ==
  files[j].summary # Missing /\ files[j].summary.status = "passed" =>
    /\ files[j].summary.row.coverage.expected = Grid(j)
    /\ files[j].summary.row.coverage.assigned = Assigned(j)
    /\ files[j].summary.fresh =>
         runner[j].at = "ended" /\ runner[j].sound /\ suite[j].state = "exited" /\ suite[j].code = 0

SuiteInv ==
  kind = "suite" =>
    /\ DOMAIN runner = DOMAIN shard /\ DOMAIN suite = DOMAIN shard /\ DOMAIN files = DOMAIN shard
    /\ \A j \in DOMAIN shard :
         /\ DOMAIN runner[j] = RunnerFields /\ DOMAIN suite[j] = SuiteFields /\ DOMAIN files[j] = FileFields
         /\ ReportTruth(j) /\ RowTruth(j) /\ SummaryTruth(j)

GateInv ==
  verdict = "passed" =>
    /\ kind = "unit" => verify_units(reports) /\ \A j \in DOMAIN unit : UnitDone(j)
    /\ kind = "suite" => verify_integration(Summaries) /\ \A j \in DOMAIN runner : SuiteDone(j)

KindInv == kind \in {"unit", "suite"}

CiInv == KindInv /\ UnitInv /\ SuiteInv /\ GateInv

-------------------------------------------------------------------------------
(* verify_partition: every element of the one inventory is in one share.   *)
LEMMA PartitionUnique ==
  ASSUME NEW inventory, NEW assigned, verify_partition(inventory, assigned),
         DOMAIN assigned = Shards(Count), DOMAIN inventory = Shards(Count),
         NEW t, NEW k \in Shards(Count), t \in inventory[k]
  PROVE  Cardinality({j \in Shards(Count) : t \in assigned[j]}) = 1
<1>1. t \in inventory[0]
  BY DEF verify_partition
<1>2. PICK i \in Shards(Count) : t \in assigned[i]
  BY <1>1 DEF verify_partition
<1>3. ASSUME NEW j \in Shards(Count), t \in assigned[j] PROVE j = i
  BY <1>2, <1>3 DEF verify_partition
<1>4. {j \in Shards(Count) : t \in assigned[j]} = {i}
  BY <1>2, <1>3
<1> QED BY <1>4, FS_Singleton

(* A green check of unit reports is true of the tests.                     *)
LEMMA UnitGreen ==
  ASSUME UnitInv, kind = "unit", verify_units(reports)
  PROVE  UnitsRan
<1> DEFINE inventory == [i \in Shards(Count) |-> reports[i].inventory]
           assigned  == [i \in Shards(Count) |-> reports[i].assigned]
<1>1. /\ Artifacts(reports) = Shards(Count)
      /\ \A j \in Shards(Count) : reports[j] # Missing /\ reports[j].status = "passed" /\ j \in DOMAIN unit
  BY DEF verify_units, artifact_reports, Artifacts, UnitInv
<1>2. \A j \in Shards(Count) : UnitTruth(j)
  BY <1>1 DEF UnitInv
<1>3. \A j \in Shards(Count) :
        inventory[j] = unit[j].inventory /\ assigned[j] = unit[j].assigned
  BY <1>1, <1>2 DEF UnitTruth
<1>4. verify_partition(inventory, assigned)
  BY DEF verify_units
<1>8. ASSUME NEW j \in Shards(Count) PROVE reports[j].clean /\ Clean(unit[j])
  <2>1. reports[j].clean
    BY DEF verify_units
  <2> QED BY <1>1, <1>2, <2>1 DEF UnitTruth
<1>9. \A j \in Shards(Count) : \A f \in unit[j].fixtures : f[2] # "error"
  BY <1>8 DEF Clean
<1>5. SUFFICES ASSUME NEW k \in Shards(Count), NEW t \in unit[k].inventory
               PROVE  /\ Cardinality({j \in Shards(Count) : t \in unit[j].assigned}) = 1
                      /\ \A j \in Shards(Count) : t \in unit[j].assigned =>
                           IF Ran(j, t) THEN Passes(unit[j].courses[t]) ELSE Skipped(unit[j], t)
  BY <1>1, <1>9 DEF UnitsRan
<1>6. Cardinality({j \in Shards(Count) : t \in unit[j].assigned}) = 1
  <2>1. Cardinality({j \in Shards(Count) : t \in assigned[j]}) = 1
    <3>1. t \in inventory[k] /\ DOMAIN assigned = Shards(Count) /\ DOMAIN inventory = Shards(Count)
      BY <1>3
    <3> HIDE DEF inventory, assigned
    <3> QED BY <1>4, <3>1, PartitionUnique
  <2>2. {j \in Shards(Count) : t \in assigned[j]} = {j \in Shards(Count) : t \in unit[j].assigned}
    BY <1>3
  <2> QED BY <2>1, <2>2
<1>7. ASSUME NEW j \in Shards(Count), t \in unit[j].assigned
      PROVE  IF Ran(j, t) THEN Passes(unit[j].courses[t]) ELSE Skipped(unit[j], t)
  <2>1. /\ reports[j].clean
        /\ \A u \in DOMAIN reports[j].results :
             reports[j].results[u] \in {"passed", "skipped", "expected_failure"}
    BY DEF verify_units
  <2>2. Row(unit[j], t) \in {"passed", "skipped", "expected_failure"} /\ Clean(unit[j])
    <3>1. /\ reports[j].results = [u \in unit[j].assigned |-> Row(unit[j], u)]
          /\ Clean(unit[j])
      BY <1>1, <1>2, <2>1 DEF UnitTruth
    <3>2. t \in DOMAIN reports[j].results /\ reports[j].results[t] = Row(unit[j], t)
      BY <1>7, <3>1
    <3> QED BY <2>1, <3>1, <3>2
  <2>3. CASE Ran(j, t)
    BY <2>2, <2>3 DEF Ran, Passes, Clean
  <2>4. CASE ~ Ran(j, t)
    BY <2>2, <2>4 DEF Ran, Row
  <2> QED BY <2>3, <2>4
<1> QED BY <1>6, <1>7

(* A green check of summaries is true of the suites.                       *)
LEMMA SuiteGreen ==
  ASSUME SuiteInv, kind = "suite", verify_integration(Summaries)
  PROVE  SuitesRan
<1> DEFINE inventory == [i \in Shards(Count) |-> Summaries[i].row.coverage.expected]
           assigned  == [i \in Shards(Count) |-> Summaries[i].row.coverage.assigned]
<1>1. /\ Artifacts(Summaries) = Shards(Count)
      /\ \A j \in Shards(Count) :
           /\ j \in DOMAIN shard /\ Summaries[j] = files[j].summary
           /\ files[j].summary # Missing /\ files[j].summary.status = "passed"
  BY DEF verify_integration, artifact_reports, Artifacts, Summaries, SuiteInv
<1>2. \A j \in Shards(Count) : ReportTruth(j) /\ SummaryTruth(j)
  BY <1>1 DEF SuiteInv
<1>3. \A j \in Shards(Count) : inventory[j] = Grid(j) /\ assigned[j] = Assigned(j)
  BY <1>1, <1>2 DEF SummaryTruth
<1>4. verify_partition(inventory, assigned)
  BY DEF verify_integration
<1>5. SUFFICES ASSUME NEW k \in Shards(Count)
               PROVE  /\ files[k].summary.fresh =>
                           runner[k].sound /\ suite[k].state = "exited" /\ suite[k].code = 0 /\ Reported(k)
                      /\ \A g \in Grid(k) : Cardinality({i \in Shards(Count) : g \in Assigned(i)}) = 1
  BY <1>1 DEF SuitesRan
<1>6. files[k].summary.fresh =>
        runner[k].sound /\ suite[k].state = "exited" /\ suite[k].code = 0 /\ Reported(k)
  BY <1>1, <1>2 DEF SummaryTruth, ReportTruth
<1>7. ASSUME NEW g \in Grid(k) PROVE Cardinality({i \in Shards(Count) : g \in Assigned(i)}) = 1
  <2>1. Cardinality({j \in Shards(Count) : g \in assigned[j]}) = 1
    <3>1. g \in inventory[k] /\ DOMAIN assigned = Shards(Count) /\ DOMAIN inventory = Shards(Count)
      BY <1>3
    <3> HIDE DEF inventory, assigned
    <3> QED BY <1>4, <3>1, PartitionUnique
  <2>2. {j \in Shards(Count) : g \in assigned[j]} = {i \in Shards(Count) : g \in Assigned(i)}
    BY <1>3
  <2> QED BY <2>1, <2>2
<1> QED BY <1>6, <1>7

LEMMA InvariantGreen == CiInv => GreenIsTrue
  BY UnitGreen, SuiteGreen DEF CiInv, GateInv, GreenIsTrue

-------------------------------------------------------------------------------
LEMMA InitInv == Init => CiInv
<1> SUFFICES ASSUME Init PROVE CiInv
  OBVIOUS
<1>1. CASE UnitInit
  <2>1. UnitInv
    BY <1>1 DEF UnitInit, UnitInv, UnitTruth, NotStarted, UnitFields
  <2> QED BY <1>1, <2>1 DEF UnitInit, Init, CiInv, KindInv, SuiteInv, GateInv
<1>2. CASE SuiteInit
  <2>1. PICK workflow \in SuiteWorkflows :
          /\ shard = [j \in DOMAIN workflow |-> workflow[j].shard]
          /\ runner = [j \in DOMAIN workflow |-> [at |-> "starting", sound |-> FALSE, row |-> NoRow]]
          /\ suite = [j \in DOMAIN workflow |-> NotRunning]
          /\ files = [j \in DOMAIN workflow |->
                       IF workflow[j].reused
                         THEN [report |-> StaleReport(j), summary |-> StaleSummary(j)]
                         ELSE [report |-> Missing, summary |-> Missing]]
    BY <1>2 DEF SuiteInit
  <2>2. ASSUME NEW j \in DOMAIN shard
        PROVE  /\ DOMAIN runner[j] = RunnerFields /\ DOMAIN suite[j] = SuiteFields /\ DOMAIN files[j] = FileFields
               /\ ReportTruth(j) /\ RowTruth(j) /\ SummaryTruth(j)
    <3>1. /\ runner[j] = [at |-> "starting", sound |-> FALSE, row |-> NoRow]
          /\ suite[j] = NotRunning
          /\ \/ files[j] = [report |-> StaleReport(j), summary |-> StaleSummary(j)]
             \/ files[j] = [report |-> Missing, summary |-> Missing]
      BY <2>1
    <3>2. /\ DOMAIN runner[j] = RunnerFields /\ DOMAIN suite[j] = SuiteFields
          /\ DOMAIN files[j] = FileFields
      BY <3>1 DEF RunnerFields, SuiteFields, FileFields, NotRunning
    <3>3. ReportTruth(j)
      BY <3>1 DEF ReportTruth, NotRunning, StaleReport, Coverage
    <3>4. RowTruth(j)
      BY <3>1 DEF RowTruth, NoRow
    <3>5. SummaryTruth(j)
      BY <3>1 DEF SummaryTruth, StaleSummary, StaleReport, Coverage
    <3> QED BY <3>2, <3>3, <3>4, <3>5
  <2>3. SuiteInv
    BY <2>1, <2>2 DEF SuiteInv
  <2> QED BY <1>2, <2>3 DEF SuiteInit, Init, CiInv, KindInv, UnitInv, GateInv
<1> QED BY <1>1, <1>2 DEF Init

-------------------------------------------------------------------------------
(* A unit shard changes its own state and report only, and its report says *)
(* passed only when it ends.                                               *)
LEMMA UnitStepTruth ==
  ASSUME UnitInv, kind = "unit", kind' = kind, NEW j \in DOMAIN unit, UnitStep(j)
  PROVE  UnitInv'
<1> USE DEF UnitInv
<1>1. j \in DOMAIN reports /\ DOMAIN unit[j] = UnitFields /\ UnitTruth(j)
  OBVIOUS
<1>2. SUFFICES /\ DOMAIN unit' = DOMAIN unit /\ DOMAIN reports' = DOMAIN reports
               /\ \A k \in DOMAIN unit : k # j => unit'[k] = unit[k] /\ reports'[k] = reports[k]
               /\ DOMAIN unit'[j] = UnitFields /\ UnitTruth(j)'
  <2>1. SUFFICES ASSUME NEW k \in DOMAIN unit, k # j PROVE UnitTruth(k)' /\ DOMAIN unit'[k] = UnitFields
    BY <1>2
  <2> QED BY <1>2, <2>1 DEF UnitTruth
<1>3. CASE Refuse(j)
  BY <1>1, <1>3 DEF Refuse, Writes, Report, UnitTruth
<1>4. CASE Begin(j)
  <2>1. PICK assigned :
          /\ unit' = [unit EXCEPT ![j].at = "running", ![j].assigned = assigned, ![j].waiting = assigned]
          /\ reports' = [reports EXCEPT ![j] =
               [Report(j, "running") EXCEPT !.inventory = unit[j].inventory, !.assigned = assigned]]
    BY <1>4 DEF Begin, Writes
  <2>2. reports'[j].status = "running"
    BY <1>1, <2>1 DEF Report
  <2>3. /\ DOMAIN unit' = DOMAIN unit /\ DOMAIN reports' = DOMAIN reports
        /\ \A k \in DOMAIN unit : k # j => unit'[k] = unit[k] /\ reports'[k] = reports[k]
        /\ DOMAIN unit'[j] = UnitFields
    BY <1>1, <2>1
  <2> QED BY <2>2, <2>3 DEF UnitTruth
<1>5. CASE RunTest(j)
  BY <1>1, <1>5 DEF RunTest, Runs, UnitTruth
<1>6. CASE FixtureStops(j)
  BY <1>1, <1>6 DEF FixtureStops, Runs, UnitTruth
<1>7. CASE Finish(j)
  <2> DEFINE report ==
        [Report(j, IF Successful(unit[j]) THEN "passed" ELSE "failed") EXCEPT
           !.inventory = unit[j].inventory, !.assigned = unit[j].assigned,
           !.results = [t \in unit[j].assigned |-> Row(unit[j], t)], !.clean = Clean(unit[j])]
  <2>1. /\ unit' = [unit EXCEPT ![j].at = "ended"] /\ reports' = [reports EXCEPT ![j] = report]
    BY <1>7 DEF Finish, Writes
  <2>2. /\ report.inventory = unit[j].inventory /\ report.assigned = unit[j].assigned
        /\ report.results = [t \in unit[j].assigned |-> Row(unit[j], t)] /\ report.clean = Clean(unit[j])
    BY DEF Report
  <2>3. /\ unit'[j].at = "ended" /\ unit'[j].inventory = unit[j].inventory
        /\ unit'[j].assigned = unit[j].assigned /\ unit'[j].courses = unit[j].courses
        /\ unit'[j].fixtures = unit[j].fixtures /\ DOMAIN unit'[j] = UnitFields
    BY <1>1, <2>1 DEF UnitFields
  <2>4. /\ Clean(unit'[j]) = Clean(unit[j])
        /\ \A t : Row(unit'[j], t) = Row(unit[j], t)
    BY <2>3 DEF Clean, Row, Skipped
  <2>5. reports'[j] = report
    BY <1>1, <2>1
  <2> HIDE DEF report
  <2>6. UnitTruth(j)'
    BY <2>2, <2>3, <2>4, <2>5 DEF UnitTruth
  <2> QED BY <2>1, <2>3, <2>6
<1>8. CASE KillUnit(j)
  BY <1>1, <1>8 DEF KillUnit, UnitTruth
<1>9. CASE TearDownFails(j)
  <2>1. unit[j].at = "running" /\ reports' = reports
    BY <1>9 DEF TearDownFails
  <2>2. PICK fixtures : unit' = [unit EXCEPT ![j].fixtures = fixtures]
    BY <1>9 DEF TearDownFails, Fails
  <2>3. /\ DOMAIN unit' = DOMAIN unit /\ \A k \in DOMAIN unit : k # j => unit'[k] = unit[k]
        /\ DOMAIN unit'[j] = UnitFields /\ unit'[j].at = "running"
    BY <1>1, <2>1, <2>2 DEF UnitFields
  <2> QED BY <1>1, <2>1, <2>3 DEF UnitTruth
<1> QED BY <1>3, <1>4, <1>5, <1>6, <1>7, <1>8, <1>9 DEF UnitStep

(* A shard that has come to its end does nothing more.                     *)
LEMMA UnitDoneStops ==
  ASSUME NEW j, UnitStep(j)
  PROVE  ~ UnitDone(j)
BY DEF UnitStep, UnitDone, Refuse, Begin, RunTest, FixtureStops, TearDownFails, Runs, Finish, KillUnit

-------------------------------------------------------------------------------
(* What a step of one suite job leaves alone.                              *)
Frame(j) ==
  /\ DOMAIN runner' = DOMAIN runner /\ DOMAIN suite' = DOMAIN suite /\ DOMAIN files' = DOMAIN files
  /\ shard' = shard
  /\ \A k \in DOMAIN shard : k # j =>
       runner'[k] = runner[k] /\ suite'[k] = suite[k] /\ files'[k] = files[k]
  /\ DOMAIN runner'[j] = RunnerFields /\ DOMAIN suite'[j] = SuiteFields /\ DOMAIN files'[j] = FileFields

RunnerAt(j, point, row) ==
  /\ DOMAIN runner' = DOMAIN runner
  /\ \A k \in DOMAIN runner : k # j => runner'[k] = runner[k]
  /\ DOMAIN runner'[j] = RunnerFields
  /\ runner'[j].at = point /\ runner'[j].row = row

LEMMA LeaveFacts ==
  ASSUME NEW j \in DOMAIN runner, DOMAIN runner[j] = RunnerFields, NEW point, NEW row, Leave(j, point, row)
  PROVE  RunnerAt(j, point, row)
<1> DEFINE there == [runner EXCEPT ![j].at = point]
<1>1. runner' = [there EXCEPT ![j].row = row]
  BY DEF Leave
<1>2. /\ DOMAIN there = DOMAIN runner /\ DOMAIN there[j] = RunnerFields
      /\ there[j].at = point /\ \A k \in DOMAIN runner : k # j => there[k] = runner[k]
  BY DEF RunnerFields
<1> HIDE DEF there
<1> QED BY <1>1, <1>2 DEF RunnerFields, RunnerAt

LEMMA AtFacts ==
  ASSUME NEW j \in DOMAIN runner, DOMAIN runner[j] = RunnerFields, NEW point, At(j, point)
  PROVE  RunnerAt(j, point, runner[j].row)
BY DEF At, RunnerFields, RunnerAt

(* The runner's steps other than the first leave its checks alone.         *)
LEMMA LeaveKeepsSound ==
  ASSUME NEW j \in DOMAIN runner, DOMAIN runner[j] = RunnerFields, NEW point, NEW row, Leave(j, point, row)
  PROVE  runner'[j].sound = runner[j].sound
<1> DEFINE there == [runner EXCEPT ![j].at = point]
<1>1. runner' = [there EXCEPT ![j].row = row]
  BY DEF Leave
<1>2. j \in DOMAIN there /\ DOMAIN there[j] = RunnerFields /\ there[j].sound = runner[j].sound
  BY DEF RunnerFields
<1> HIDE DEF there
<1> QED BY <1>1, <1>2 DEF RunnerFields

(* So does a step that only goes on.                                       *)
LEMMA AtKeepsSound ==
  ASSUME NEW j \in DOMAIN runner, DOMAIN runner[j] = RunnerFields, NEW point, At(j, point)
  PROVE  runner'[j].sound = runner[j].sound
BY DEF At, RunnerFields

LEMMA PrepareFacts ==
  ASSUME NEW j \in DOMAIN runner, DOMAIN runner[j] = RunnerFields, Prepare(j)
  PROVE  \E point \in {"ready", "summing"} : RunnerAt(j, point, runner[j].row)
<1>1. PICK built \in BOOLEAN, manifests \in BOOLEAN :
        runner' = [runner EXCEPT ![j].at = IF built THEN "ready" ELSE "summing",
                                 ![j].sound = built /\ manifests]
  BY DEF Prepare
<1> DEFINE point == IF built THEN "ready" ELSE "summing"
           sound == built /\ manifests
           there == [runner EXCEPT ![j].at = point]
<1>2. runner' = [there EXCEPT ![j].sound = sound]
  BY <1>1
<1>3. point \in {"ready", "summing"}
  OBVIOUS
<1> HIDE DEF point, sound
<1>4. /\ DOMAIN there = DOMAIN runner /\ DOMAIN there[j] = RunnerFields
      /\ there[j].at = point /\ there[j].row = runner[j].row
      /\ \A k \in DOMAIN runner : k # j => there[k] = runner[k]
  BY DEF RunnerFields
<1> HIDE DEF there
<1> QED BY <1>2, <1>3, <1>4 DEF RunnerFields, RunnerAt

LEMMA SuiteFrame ==
  ASSUME SuiteInv, kind = "suite", NEW j \in DOMAIN shard, SuiteStep(j)
  PROVE  Frame(j)
<1>1. /\ DOMAIN runner = DOMAIN shard /\ j \in DOMAIN runner /\ j \in DOMAIN suite /\ j \in DOMAIN files
      /\ DOMAIN runner[j] = RunnerFields /\ DOMAIN suite[j] = SuiteFields /\ DOMAIN files[j] = FileFields
  BY DEF SuiteInv
<1>2. CASE Prepare(j)
  <2>1. PICK point \in {"ready", "summing"} : RunnerAt(j, point, runner[j].row)
    BY <1>1, <1>2, PrepareFacts
  <2>2. files' = [files EXCEPT ![j].report = Missing] /\ UNCHANGED <<shard, suite>>
    BY <1>2 DEF Prepare
  <2> QED BY <1>1, <2>1, <2>2 DEF Frame, RunnerAt
<1>3. CASE Launch(j)
  <2>1. PICK point, row : RunnerAt(j, point, row)
    BY <1>1, <1>3, AtFacts, LeaveFacts DEF Launch
  <2>2. /\ \/ suite' = [suite EXCEPT ![j] = [state |-> "running", code |-> 0, alive |-> {"suite", "helper"}]]
           \/ UNCHANGED suite
        /\ UNCHANGED <<shard, files>>
    BY <1>3 DEF Launch
  <2>3. /\ DOMAIN suite' = DOMAIN suite /\ DOMAIN suite'[j] = SuiteFields
        /\ \A k \in DOMAIN shard : k # j => suite'[k] = suite[k]
    <3> DEFINE process == [state |-> "running", code |-> 0, alive |-> {"suite", "helper"}]
    <3>1. DOMAIN process = SuiteFields
      BY DEF SuiteFields
    <3> HIDE DEF process
    <3>2. CASE suite' = [suite EXCEPT ![j] = process]
      BY <1>1, <3>1, <3>2
    <3>3. CASE suite' = suite
      BY <1>1, <3>3
    <3> QED BY <2>2, <3>2, <3>3 DEF process
  <2> QED BY <1>1, <2>1, <2>2, <2>3 DEF Frame, RunnerAt
<1>4. CASE InstallHandler(j)
  BY <1>1, <1>4, AtFacts DEF InstallHandler, Frame, RunnerAt
<1>5. CASE Collect(j)
  BY <1>1, <1>5, LeaveFacts DEF Collect, Frame, RunnerAt
<1>6. CASE Expire(j)
  BY <1>1, <1>6, AtFacts DEF Expire, Frame, RunnerAt
<1>7. CASE KillGroup(j)
  BY <1>1, <1>7, LeaveFacts DEF KillGroup, Killed, Frame, RunnerAt, SuiteFields
<1>8. CASE ReadCoverage(j)
  BY <1>1, <1>8, LeaveFacts DEF ReadCoverage, Frame, RunnerAt
<1>9. CASE Summarize(j)
  BY <1>1, <1>9, AtFacts DEF Summarize, Frame, RunnerAt
<1>10. CASE Terminate(j)
  BY <1>1, <1>10, AtFacts DEF Terminate, Killed, Frame, RunnerAt, SuiteFields
<1>11. CASE Abort(j)
  BY <1>1, <1>11, AtFacts DEF Abort, Frame, RunnerAt
<1>12. CASE SuiteReports(j)
  BY <1>1, <1>12 DEF SuiteReports, Frame
<1>13. CASE SuiteExits(j)
  BY <1>1, <1>13 DEF SuiteExits, Frame, SuiteFields
<1>14. CASE HelperExits(j)
  BY <1>1, <1>14 DEF HelperExits, Frame
<1> QED BY <1>2, <1>3, <1>4, <1>5, <1>6, <1>7, <1>8, <1>9, <1>10, <1>11, <1>12, <1>13, <1>14
        DEF SuiteStep, RunnerStep

-------------------------------------------------------------------------------
(* What a suite job leaves stays true at each of its steps.                *)
JobTruth(j) == ReportTruth(j) /\ RowTruth(j) /\ SummaryTruth(j)

LEMMA SuiteStepTruth ==
  ASSUME SuiteInv, kind = "suite", NEW j \in DOMAIN shard, SuiteStep(j)
  PROVE  JobTruth(j)'
<1>1. /\ j \in DOMAIN runner /\ j \in DOMAIN suite /\ j \in DOMAIN files
      /\ DOMAIN runner[j] = RunnerFields /\ DOMAIN suite[j] = SuiteFields /\ DOMAIN files[j] = FileFields
      /\ ReportTruth(j) /\ RowTruth(j) /\ SummaryTruth(j)
  BY DEF SuiteInv
<1>2. shard' = shard /\ Grid(j)' = Grid(j) /\ Assigned(j)' = Assigned(j)
  BY SuiteFrame DEF Frame, Grid, Assigned
<1>3. CASE Prepare(j)
  <2>1. PICK point \in {"ready", "summing"} : RunnerAt(j, point, runner[j].row)
    BY <1>1, <1>3, PrepareFacts
  <2>2. /\ runner[j].at = "starting" /\ suite' = suite
        /\ files'[j].report = Missing /\ files'[j].summary = files[j].summary
    BY <1>1, <1>3 DEF Prepare, FileFields
  <2> QED BY <1>1, <1>2, <2>1, <2>2 DEF RunnerAt, JobTruth, ReportTruth, RowTruth, SummaryTruth
<1>4. CASE Launch(j)
  <2>1. /\ runner[j].at = "ready" /\ files' = files
        /\ \/ RunnerAt(j, "launched", runner[j].row) /\ suite'[j].state = "running"
           \/ RunnerAt(j, "reading", [NoRow EXCEPT !.status = "failed"]) /\ suite' = suite
    BY <1>1, <1>4, AtFacts, LeaveFacts DEF Launch
  <2>2. [NoRow EXCEPT !.status = "failed"].status = "failed"
    BY DEF NoRow
  <2> QED BY <1>1, <1>2, <2>1, <2>2
          DEF RunnerAt, JobTruth, ReportTruth, Reported, RowTruth, SummaryTruth
<1>5. CASE InstallHandler(j)
  <2>1. RunnerAt(j, "waiting", runner[j].row) /\ runner[j].at = "launched" /\ suite' = suite /\ files' = files
    BY <1>1, <1>5, AtFacts DEF InstallHandler
  <2> QED BY <1>1, <1>2, <2>1 DEF RunnerAt, JobTruth, ReportTruth, Reported, RowTruth, SummaryTruth
<1>6. CASE Collect(j)
  <2> DEFINE row == [NoRow EXCEPT !.status = IF suite[j].code = 0 THEN "passed" ELSE "failed"]
  <2>1. /\ RunnerAt(j, "reading", row) /\ runner[j].at = "waiting" /\ suite[j].state = "exited"
        /\ suite' = suite /\ files' = files
    BY <1>1, <1>6, LeaveFacts DEF Collect
  <2>2. row.status = "passed" => suite[j].code = 0
    BY DEF NoRow
  <2> HIDE DEF row
  <2> QED BY <1>1, <1>2, <2>1, <2>2 DEF RunnerAt, JobTruth, ReportTruth, Reported, RowTruth, SummaryTruth
<1>7. CASE Expire(j)
  <2>1. RunnerAt(j, "expired", runner[j].row) /\ runner[j].at = "waiting" /\ suite' = suite /\ files' = files
    BY <1>1, <1>7, AtFacts DEF Expire
  <2> QED BY <1>1, <1>2, <2>1 DEF RunnerAt, JobTruth, ReportTruth, Reported, RowTruth, SummaryTruth
<1>8. ASSUME suite' = [suite EXCEPT ![j] = Killed(@)], files' = files,
             NEW point \in {"reading", "terminated"}, NEW row, RunnerAt(j, point, row),
             row.status # "passed" \/ point = "terminated", runner[j].at # "ended"
      PROVE  JobTruth(j)'
  <2>1. /\ suite'[j].state \in {"killed", suite[j].state} /\ suite'[j].code = suite[j].code
        /\ suite'[j].state = "exited" => suite[j].state = "exited"
    BY <1>1, <1>8 DEF Killed
  <2>2. ReportTruth(j)' /\ RowTruth(j)'
    BY <1>1, <1>2, <1>8, <2>1 DEF RunnerAt, ReportTruth, Reported, RowTruth
  <2>3. SummaryTruth(j)'
    BY <1>1, <1>2, <1>8, <2>1 DEF RunnerAt, SummaryTruth
  <2> QED BY <2>2, <2>3 DEF JobTruth
<1>9. CASE KillGroup(j)
  <2> DEFINE row == [NoRow EXCEPT !.status = "timeout"]
  <2>1. /\ RunnerAt(j, "reading", row) /\ row.status # "passed" /\ runner[j].at = "expired"
        /\ suite' = [suite EXCEPT ![j] = Killed(@)] /\ files' = files
    BY <1>1, <1>9, LeaveFacts DEF KillGroup, NoRow
  <2> HIDE DEF row
  <2> QED BY <1>8, <2>1
<1>10. CASE Terminate(j)
  <2>1. /\ RunnerAt(j, "terminated", runner[j].row) /\ runner[j].at # "ended"
        /\ suite' = [suite EXCEPT ![j] = Killed(@)] /\ files' = files
    BY <1>1, <1>10, AtFacts DEF Terminate, Guarding
  <2> QED BY <1>8, <2>1
<1>11. CASE ReadCoverage(j)
  <2> DEFINE row == [status   |-> IF files[j].report # Missing /\ Covered(j, files[j].report)
                                    THEN runner[j].row.status ELSE "failed",
                     coverage |-> files[j].report]
  <2>1. /\ RunnerAt(j, "summing", row) /\ runner[j].at = "reading" /\ suite' = suite /\ files' = files
    BY <1>1, <1>11, LeaveFacts DEF ReadCoverage
  <2>2. /\ row.coverage = files[j].report
        /\ row.status = "passed" => files[j].report # Missing /\ runner[j].row.status = "passed"
    OBVIOUS
  <2> HIDE DEF row
  <2> QED BY <1>1, <1>2, <2>1, <2>2 DEF RunnerAt, JobTruth, ReportTruth, Reported, RowTruth, SummaryTruth
<1>12. CASE Summarize(j)
  <2> DEFINE summary ==
        [status |-> IF runner[j].sound /\ runner[j].row.status = "passed" THEN "passed" ELSE "failed",
         index |-> shard[j].index, count |-> shard[j].count, sound |-> runner[j].sound,
         row |-> runner[j].row, fresh |-> TRUE]
  <2>1. /\ RunnerAt(j, "ended", runner[j].row) /\ runner[j].at = "summing" /\ suite' = suite
        /\ files'[j].report = files[j].report /\ files'[j].summary = summary
        /\ runner'[j].sound = runner[j].sound
    BY <1>1, <1>12, AtFacts, AtKeepsSound DEF Summarize, FileFields
  <2>2. /\ summary.row = runner[j].row
        /\ summary.status = "passed" => runner[j].sound /\ runner[j].row.status = "passed"
    OBVIOUS
  <2> HIDE DEF summary
  <2> QED BY <1>1, <1>2, <2>1, <2>2 DEF RunnerAt, JobTruth, ReportTruth, Reported, RowTruth, SummaryTruth
<1>13. CASE Abort(j)
  <2>1. /\ RunnerAt(j, "aborted", runner[j].row) /\ runner[j].at # "ended" /\ suite' = suite /\ files' = files
    BY <1>1, <1>13, AtFacts DEF Abort
  <2> QED BY <1>1, <1>2, <2>1 DEF RunnerAt, JobTruth, ReportTruth, Reported, RowTruth, SummaryTruth
<1>14. CASE SuiteReports(j)
  <2>1. PICK completed : files' = [files EXCEPT ![j].report = Coverage(j, completed)]
    BY <1>14 DEF SuiteReports
  <2>2. /\ files'[j].report = Coverage(j, completed) /\ files'[j].summary = files[j].summary
        /\ runner' = runner /\ suite' = suite /\ suite[j].state = "running"
    BY <1>1, <1>14, <2>1 DEF SuiteReports, FileFields
  <2>3. Coverage(j, completed).expected = Grid(j) /\ Coverage(j, completed).assigned = Assigned(j)
    BY DEF Coverage
  <2> QED BY <1>1, <1>2, <2>2, <2>3 DEF JobTruth, ReportTruth, RowTruth, SummaryTruth
<1>15. CASE SuiteExits(j)
  <2>1. /\ runner' = runner /\ files' = files /\ suite[j].state = "running" /\ suite'[j].state = "exited"
        /\ suite'[j].code = 0 => Reported(j)
    BY <1>1, <1>15 DEF SuiteExits
  <2> QED BY <1>1, <1>2, <2>1 DEF JobTruth, ReportTruth, Reported, RowTruth, SummaryTruth
<1>16. CASE HelperExits(j)
  <2>1. /\ runner' = runner /\ files' = files
        /\ suite'[j].state = suite[j].state /\ suite'[j].code = suite[j].code
    BY <1>1, <1>16 DEF HelperExits, SuiteFields
  <2> QED BY <1>1, <1>2, <2>1 DEF JobTruth, ReportTruth, Reported, RowTruth, SummaryTruth
<1> QED BY <1>3, <1>4, <1>5, <1>6, <1>7, <1>9, <1>10, <1>11, <1>12, <1>13, <1>14, <1>15, <1>16
        DEF SuiteStep, RunnerStep

LEMMA SuiteStepInv ==
  ASSUME SuiteInv, kind = "suite", kind' = kind, NEW j \in DOMAIN runner, SuiteStep(j)
  PROVE  SuiteInv'
<1>1. /\ j \in DOMAIN shard /\ DOMAIN runner = DOMAIN shard /\ DOMAIN suite = DOMAIN shard
      /\ DOMAIN files = DOMAIN shard
  BY DEF SuiteInv
<1>2. Frame(j) /\ JobTruth(j)'
  BY <1>1, SuiteFrame, SuiteStepTruth
<1>3. ASSUME NEW k \in DOMAIN shard, k # j
      PROVE  /\ DOMAIN runner'[k] = RunnerFields /\ DOMAIN suite'[k] = SuiteFields
             /\ DOMAIN files'[k] = FileFields /\ JobTruth(k)'
  <2>1. /\ runner'[k] = runner[k] /\ suite'[k] = suite[k] /\ files'[k] = files[k]
        /\ Grid(k)' = Grid(k) /\ Assigned(k)' = Assigned(k)
    BY <1>2, <1>3 DEF Frame, Grid, Assigned
  <2>2. /\ DOMAIN runner[k] = RunnerFields /\ DOMAIN suite[k] = SuiteFields /\ DOMAIN files[k] = FileFields
        /\ ReportTruth(k) /\ RowTruth(k) /\ SummaryTruth(k)
    BY DEF SuiteInv
  <2> QED BY <2>1, <2>2 DEF JobTruth, ReportTruth, Reported, RowTruth, SummaryTruth
<1> QED BY <1>1, <1>2, <1>3 DEF SuiteInv, Frame, JobTruth

(* A job that has come to its end changes no summary.                      *)
LEMMA SuiteDoneStops ==
  ASSUME SuiteInv, kind = "suite", NEW j \in DOMAIN runner, SuiteStep(j), SuiteDone(j)
  PROVE  runner' = runner /\ Summaries' = Summaries
<1>1. j \in DOMAIN files /\ \A k \in DOMAIN files : DOMAIN files[k] = FileFields
  BY DEF SuiteInv
<1>2. SuiteReports(j) \/ SuiteExits(j) \/ HelperExits(j)
  BY DEF SuiteStep, SuiteDone, RunnerStep, Prepare, Launch, InstallHandler, Collect, Expire, KillGroup,
         ReadCoverage, Summarize, Terminate, Guarding, Abort
<1>3. /\ runner' = runner /\ DOMAIN files' = DOMAIN files
      /\ \A k \in DOMAIN files : files'[k].summary = files[k].summary
  BY <1>1, <1>2 DEF SuiteReports, SuiteExits, HelperExits, FileFields
<1> QED BY <1>3 DEF Summaries

-------------------------------------------------------------------------------
LEMMA NextInv == CiInv /\ [Next]_vars => CiInv'
<1> SUFFICES ASSUME CiInv, [Next]_vars PROVE CiInv'
  OBVIOUS
<1> USE DEF CiInv
<1>1. CASE \E j \in DOMAIN unit : UnitMoves(j)
  <2>1. PICK j \in DOMAIN unit : UnitMoves(j)
    BY <1>1
  <2>2. /\ kind = "unit" /\ kind' = kind /\ verdict' = verdict /\ UnitStep(j)
    BY <2>1 DEF UnitMoves
  <2>3. verdict # "passed"
    BY <2>2, UnitDoneStops DEF GateInv
  <2> QED BY <2>2, <2>3, UnitStepTruth DEF KindInv, SuiteInv, GateInv
<1>2. CASE \E j \in DOMAIN runner : SuiteMoves(j)
  <2>1. PICK j \in DOMAIN runner : SuiteMoves(j)
    BY <1>2
  <2>2. kind = "suite" /\ kind' = kind /\ verdict' = verdict /\ SuiteStep(j)
    BY <2>1 DEF SuiteMoves
  <2>3. SuiteInv'
    BY <2>2, SuiteStepInv
  <2>4. GateInv'
    <3>1. SUFFICES ASSUME verdict = "passed" PROVE verify_integration(Summaries)' /\ \A k \in DOMAIN runner' : SuiteDone(k)'
      BY <2>2 DEF GateInv
    <3>2. verify_integration(Summaries) /\ \A k \in DOMAIN runner : SuiteDone(k)
      BY <2>2, <3>1 DEF GateInv
    <3>3. runner' = runner /\ Summaries' = Summaries
      BY <2>2, <3>2, SuiteDoneStops
    <3> QED BY <3>2, <3>3 DEF SuiteDone
  <2> QED BY <2>2, <2>3, <2>4 DEF KindInv, UnitInv
<1>3. CASE Verify
  <2>1. UNCHANGED <<unitVars, suiteVars, kind>>
    BY <1>3 DEF Verify
  <2>2. KindInv' /\ UnitInv' /\ SuiteInv'
    BY <2>1 DEF unitVars, suiteVars, KindInv, UnitInv, UnitTruth, SuiteInv, ReportTruth, Reported, RowTruth,
                SummaryTruth, Grid, Assigned
  <2>3. GateInv'
    BY <1>3, <2>1 DEF Verify, unitVars, suiteVars, GateInv, Summaries, UnitDone, SuiteDone
  <2> QED BY <2>2, <2>3
<1>4. CASE UNCHANGED vars
  <2>1. KindInv' /\ UnitInv' /\ SuiteInv'
    BY <1>4 DEF vars, unitVars, suiteVars, KindInv, UnitInv, UnitTruth, SuiteInv, ReportTruth, Reported, RowTruth,
                SummaryTruth, Grid, Assigned
  <2>2. GateInv'
    BY <1>4 DEF vars, unitVars, suiteVars, GateInv, Summaries, UnitDone, SuiteDone
  <2> QED BY <2>1, <2>2
<1> QED BY <1>1, <1>2, <1>3, <1>4 DEF Next

(* check_ci_reports.py:53-121: a green check is true, for every number of  *)
(* shards, every division of the work that a job may have been started     *)
(* with, and wherever jobs were killed.                                    *)
THEOREM AlwaysGreenIsTrue == Spec => []GreenIsTrue
<1>1. CiInv /\ [Next]_vars => CiInv'
  BY NextInv
<1> QED BY <1>1, InitInv, InvariantGreen, PTL DEF Spec

-------------------------------------------------------------------------------
(* run_unit_shard.py:34-59: every test falls to one shard, whatever was    *)
(* measured, for every number of shards.                                   *)
LEMMA BalancedSound ==
  ASSUME NEW ids \in SUBSET Int, IsFiniteSet(ids), NEW n \in Nat \ {0}, NEW timings \in Timings
  PROVE  LET shards == Balanced(ids, n, timings)
         IN  shards \in [Shards(n) -> SUBSET ids] /\ Partitions(shards, ids) /\ Even(shards, timings)
<1>1. CASE timings = NoTimings
  <2>1. Balanced(ids, n, timings) = RoundRobin(ids, n)
    BY <1>1 DEF Balanced
  <2> QED BY <1>1, <2>1, RoundRobinSound
<1>2. CASE timings # NoTimings
  <2>1. Balanced(ids, n, timings) = Greedy(ids, n, timings)
    BY <1>2 DEF Balanced
  <2>2. Measured(timings)
    BY <1>2, TimingsAssumption DEF Measured
  <2> QED BY <1>2, <2>1, <2>2, GreedySound
<1> QED BY <1>1, <1>2

(* Isolated tests have the first shard, the others share the rest.         *)
Divides(shards, ids, n, timings, isolated) ==
  LET others == IF isolated = <<>> THEN DOMAIN shards ELSE DOMAIN shards \ {0}
  IN  /\ DOMAIN shards = Shards(n) /\ Partitions(shards, ids)
      /\ isolated # <<>> => n >= 2 /\ shards[0] = ToSet(isolated) /\ ToSet(isolated) \subseteq ids
      /\ Even([i \in others |-> shards[i]], timings)

(* run_unit_shard.py:34-59: whatever allocate returns divides the          *)
(* inventory, isolated tests first, for every inventory, number of shards  *)
(* and file of durations.                                                  *)
LEMMA AllocateSound ==
  ASSUME NEW ids \in SUBSET Int, IsFiniteSet(ids), NEW n \in Nat \ {0}, NEW timings \in Timings,
         NEW isolated \in Seq(Int), NEW shards \in allocate(ids, n, timings, isolated)
  PROVE  Divides(shards, ids, n, timings, isolated)
<1>1. CASE isolated = <<>>
  <2>1. shards = Balanced(ids, n, timings)
    BY <1>1 DEF allocate
  <2>2. shards \in [Shards(n) -> SUBSET ids] /\ Partitions(shards, ids) /\ Even(shards, timings)
    BY <2>1, BalancedSound
  <2>3. [i \in DOMAIN shards |-> shards[i]] = shards
    BY <2>2
  <2> QED BY <1>1, <2>2, <2>3 DEF Divides
<1>2. CASE isolated # <<>>
  <2> DEFINE alone == ToSet(isolated)
             rest  == Balanced(ids \ alone, n - 1, timings)
             others == Shards(n) \ {0}
  <2>1. /\ n >= 2 /\ alone \subseteq ids
        /\ shards = [i \in Shards(n) |-> IF i = 0 THEN alone ELSE rest[i - 1]]
    <3> DEFINE stopped == n < 2 \/ ~ IsInjective(isolated) \/ ~ alone \subseteq ids
               divided == [i \in Shards(n) |-> IF i = 0 THEN alone ELSE rest[i - 1]]
    <3>1. shards \in IF stopped THEN {} ELSE {divided}
      BY <1>2, Zenon DEF allocate
    <3> HIDE DEF divided, alone
    <3>2. ~ stopped /\ shards = divided
      BY <3>1
    <3>3. n >= 2
      BY <3>2
    <3> QED BY <3>2, <3>3 DEF divided
  <2>2. n - 1 \in Nat \ {0}
    BY <2>1
  <2>3. ids \ alone \in SUBSET Int /\ IsFiniteSet(ids \ alone)
    <3>1. IsFiniteSet(ids \ alone)
      <4> HIDE DEF alone
      <4> QED BY FS_Subset
    <3> QED BY <3>1
  <2> HIDE DEF alone
  <2>4. rest \in [Shards(n - 1) -> SUBSET (ids \ alone)] /\ Partitions(rest, ids \ alone) /\ Even(rest, timings)
    BY <2>2, <2>3, BalancedSound
  <2> HIDE DEF rest
  <2>5. /\ DOMAIN shards = Shards(n) /\ 0 \in Shards(n) /\ shards[0] = alone
        /\ \A i \in others : i - 1 \in Shards(n - 1) /\ shards[i] = rest[i - 1]
    BY <2>1 DEF Shards
  <2>6. \A k \in Shards(n - 1) : k + 1 \in others /\ (k + 1) - 1 = k
    BY <2>2 DEF Shards
  <2>7. Partitions(shards, ids)
    <3>1. DOMAIN rest = Shards(n - 1) /\ UNION {rest[k] : k \in Shards(n - 1)} = ids \ alone
      BY <2>4 DEF Partitions
    <3>2. \A i \in Shards(n) : shards[i] \subseteq ids
      BY <2>1, <2>4, <2>5
    <3>3. ASSUME NEW t \in ids PROVE \E i \in Shards(n) : t \in shards[i]
      <4>1. CASE t \in alone
        BY <2>5, <4>1
      <4>2. CASE t \notin alone
        <5>1. PICK k \in Shards(n - 1) : t \in rest[k]
          BY <3>1, <4>2
        <5>2. k + 1 \in others /\ shards[k + 1] = rest[k]
          BY <2>5, <2>6
        <5> QED BY <5>1, <5>2
      <4> QED BY <4>1, <4>2
    <3>4. ASSUME NEW i \in Shards(n), NEW j \in Shards(n), i # j PROVE shards[i] \cap shards[j] = {}
      <4>1. CASE i = 0 \/ j = 0
        BY <2>4, <2>5, <3>4, <4>1
      <4>2. CASE i # 0 /\ j # 0
        <5>1. i - 1 # j - 1
          BY <3>4 DEF Shards
        <5>2. rest[i - 1] \cap rest[j - 1] = {}
          BY <2>4, <2>5, <3>1, <4>2, <5>1 DEF Partitions
        <5> QED BY <2>5, <4>2, <5>2
      <4> QED BY <4>1, <4>2
    <3> QED BY <2>5, <3>2, <3>3, <3>4 DEF Partitions
  <2>8. Even([i \in others |-> shards[i]], timings)
    <3> DEFINE part == [i \in others |-> shards[i]]
    <3>4. SUFFICES Even(part, timings)
      OBVIOUS
    <3>1. DOMAIN part = others /\ \A i \in others : i - 1 \in DOMAIN rest /\ part[i] = rest[i - 1]
      BY <2>4, <2>5
    <3> HIDE DEF part, others
    <3>2. CASE timings = NoTimings
      BY <2>4, <3>1, <3>2 DEF Even
    <3>3. CASE timings # NoTimings
      <4>1. ASSUME NEW i \in others, NEW j \in others, NEW t \in part[i]
            PROVE  Load(timings, part[i]) - Duration(timings, t) <= Load(timings, part[j])
        <5>1. t \in rest[i - 1] /\ i - 1 \in DOMAIN rest /\ j - 1 \in DOMAIN rest
          BY <3>1, <4>1
        <5>2. \A a, b \in DOMAIN rest : \A u \in rest[a] :
                Load(timings, rest[a]) - Duration(timings, u) <= Load(timings, rest[b])
          BY <2>4, <3>3 DEF Even
        <5>3. Load(timings, rest[i - 1]) - Duration(timings, t) <= Load(timings, rest[j - 1])
          BY <5>1, <5>2
        <5> QED BY <3>1, <5>3
      <4> QED BY <3>1, <3>3, <4>1 DEF Even
    <3> QED BY <3>2, <3>3
  <2> QED BY <1>2, <2>1, <2>5, <2>7, <2>8 DEF alone, Divides
<1> QED BY <1>1, <1>2

-------------------------------------------------------------------------------
(* What a unit job was given, and what becomes of it when nothing ends it. *)
UnitInputs(j) ==
  /\ unit[j].inventory \in SUBSET Int /\ IsFiniteSet(unit[j].inventory)
  /\ call[j] \in [index : Int, count : Int, isolated : Seq(Int), timings : Timings]

Filed(j, status, inventory, assigned, results, clean) ==
  [Report(j, status) EXCEPT !.inventory = inventory, !.assigned = assigned, !.results = results, !.clean = clean]

FinishedReport(j) ==
  Filed(j, IF Successful(unit[j]) THEN "passed" ELSE "failed", unit[j].inventory, unit[j].assigned,
        [t \in unit[j].assigned |-> Row(unit[j], t)], Clean(unit[j]))

UnitFate(j) ==
  /\ unit[j].at = "running" \/ (unit[j].at = "ended" /\ Allocated(j) # {}) =>
       \E shards \in Allocated(j) : unit[j].assigned = shards[call[j].index]
  /\ \A t \in DOMAIN unit[j].courses : unit[j].courses[t] \in Courses
  /\ unit[j].at = "ended" /\ Allocated(j) # {} => reports[j] = FinishedReport(j)

UnitFateInv ==
  kind = "unit" =>
    /\ DOMAIN call = DOMAIN unit
    /\ \A j \in DOMAIN unit : UnitInputs(j) /\ UnitFate(j)

(* No job has been given anything to do at the start.                      *)
LEMMA UnitFateInit == Init => UnitFateInv
<1> SUFFICES ASSUME Init, kind = "unit" PROVE UnitFateInv
  BY DEF UnitFateInv
<1>1. PICK workflow \in UnitWorkflows :
        /\ call = [j \in DOMAIN workflow |-> workflow[j].call]
        /\ unit = [j \in DOMAIN workflow |-> NotStarted(workflow[j].inventory, workflow[j].broken)]
  BY DEF Init, UnitInit, SuiteInit
<1>2. ASSUME NEW j \in DOMAIN unit PROVE UnitInputs(j) /\ UnitFate(j)
  <2>1. unit[j] = NotStarted(workflow[j].inventory, workflow[j].broken) /\ call[j] = workflow[j].call
    BY <1>1
  <2>2. /\ unit[j].inventory = workflow[j].inventory /\ unit[j].at = "started" /\ unit[j].courses = <<>>
    BY <2>1 DEF NotStarted
  <2>3. UnitInputs(j)
    BY <1>1, <2>1, <2>2, UnitAssumption DEF UnitInputs
  <2> QED BY <2>2, <2>3 DEF UnitFate
<1> QED BY <1>1, <1>2 DEF UnitFateInv

(* What discovery and allocation give does not change.                     *)
LEMMA AllocatedStays ==
  ASSUME NEW j, UNCHANGED <<call[j], unit[j].inventory, unit[j].broken>>
  PROVE  UnitInputs(j)' = UnitInputs(j) /\ Allocated(j)' = Allocated(j)
BY DEF UnitInputs, Allocated, Discovered

(* A step of a unit job keeps what is known of all of them.                *)
LEMMA UnitFateStep ==
  ASSUME UnitInv, UnitFateInv, kind = "unit", kind' = kind, NEW j \in DOMAIN unit, UnitStep(j)
  PROVE  UnitFateInv'
<1>1. /\ j \in DOMAIN reports /\ DOMAIN unit[j] = UnitFields /\ DOMAIN call = DOMAIN unit
      /\ UnitInputs(j) /\ UnitFate(j)
  BY DEF UnitInv, UnitFateInv
<1>2. call' = call /\ DOMAIN unit' = DOMAIN unit /\ DOMAIN reports' = DOMAIN reports
      /\ \A k \in DOMAIN unit : k # j => unit'[k] = unit[k] /\ reports'[k] = reports[k]
  BY <1>1 DEF UnitInv, UnitStep, Refuse, Begin, RunTest, FixtureStops, TearDownFails, Fails, Finish, KillUnit,
              Writes
<1>3. SUFFICES /\ unit'[j].inventory = unit[j].inventory /\ unit'[j].broken = unit[j].broken
               /\ UnitFate(j)'
  <2>1. ASSUME NEW k \in DOMAIN unit, k # j PROVE (UnitInputs(k) /\ UnitFate(k))'
    <3>1. UnitInputs(k) /\ UnitFate(k) /\ unit'[k] = unit[k] /\ reports'[k] = reports[k]
      BY <1>2, <2>1 DEF UnitFateInv
    <3>2. FinishedReport(k)' = FinishedReport(k)
      BY <1>2, <3>1 DEF FinishedReport, Filed, Report
    <3>3. UnitInputs(k)' /\ Allocated(k)' = Allocated(k)
      BY <1>2, <3>1, AllocatedStays
    <3> QED BY <1>2, <3>1, <3>2, <3>3 DEF UnitFate
  <2>2. UnitInputs(j)'
    BY <1>1, <1>2, <1>3, AllocatedStays
  <2> QED BY <1>1, <1>2, <1>3, <2>1, <2>2 DEF UnitFateInv
<1>4. CASE Refuse(j)
  <2>1. Allocated(j) = {} /\ unit' = [unit EXCEPT ![j].at = "ended"]
    BY <1>4 DEF Refuse
  <2>2. /\ unit'[j].inventory = unit[j].inventory /\ unit'[j].broken = unit[j].broken
        /\ unit'[j].at = "ended" /\ unit'[j].courses = unit[j].courses
    BY <1>1, <2>1 DEF UnitFields
  <2>3. Allocated(j)' = {}
    BY <1>2, <2>1, <2>2, AllocatedStays
  <2> QED BY <1>1, <2>2, <2>3 DEF UnitFate
<1>5. CASE Begin(j)
  <2>1. PICK shards \in Allocated(j) :
          unit' = [unit EXCEPT ![j].at = "running", ![j].assigned = shards[call[j].index],
                               ![j].waiting = shards[call[j].index]]
    BY <1>5 DEF Begin
  <2> DEFINE assigned == shards[call[j].index]
  <2>2. unit' = [unit EXCEPT ![j].at = "running", ![j].assigned = assigned, ![j].waiting = assigned]
    BY <2>1
  <2> HIDE DEF assigned
  <2>3. /\ unit'[j].inventory = unit[j].inventory /\ unit'[j].broken = unit[j].broken
        /\ unit'[j].at = "running" /\ unit'[j].assigned = assigned /\ unit'[j].courses = unit[j].courses
    BY <1>1, <2>2 DEF UnitFields
  <2>4. Allocated(j)' = Allocated(j)
    BY <1>2, <2>3, AllocatedStays
  <2> QED BY <1>1, <1>2, <2>1, <2>3, <2>4 DEF UnitFate, assigned
<1>6. CASE RunTest(j)
  <2>1. PICK course \in Courses :
          unit' = [unit EXCEPT ![j].courses = Noted(@, Turn(j), course), ![j].waiting = @ \ {Turn(j)}]
    BY <1>6 DEF RunTest
  <2> DEFINE courses == Noted(unit[j].courses, Turn(j), course)
             waiting == unit[j].waiting \ {Turn(j)}
  <2>2. unit' = [unit EXCEPT ![j].courses = courses, ![j].waiting = waiting]
    BY <2>1
  <2>3. \A t \in DOMAIN courses : courses[t] \in Courses
    BY <1>1 DEF UnitFate, Noted
  <2> HIDE DEF courses, waiting
  <2>4. /\ unit'[j].inventory = unit[j].inventory /\ unit'[j].broken = unit[j].broken
        /\ unit'[j].at = unit[j].at /\ unit'[j].assigned = unit[j].assigned /\ unit'[j].courses = courses
    BY <1>1, <2>2 DEF UnitFields
  <2>5. Allocated(j)' = Allocated(j) /\ unit[j].at = "running"
    BY <1>2, <1>6, <2>4, AllocatedStays DEF RunTest, Runs
  <2> QED BY <1>1, <1>2, <2>3, <2>4, <2>5 DEF UnitFate
<1>7. CASE FixtureStops(j)
  <2>1. PICK fixtures, waiting : unit' = [unit EXCEPT ![j].fixtures = fixtures, ![j].waiting = waiting]
    BY <1>7 DEF FixtureStops
  <2>2. /\ unit'[j].inventory = unit[j].inventory /\ unit'[j].broken = unit[j].broken
        /\ unit'[j].at = unit[j].at /\ unit'[j].assigned = unit[j].assigned
        /\ unit'[j].courses = unit[j].courses
    BY <1>1, <2>1 DEF UnitFields
  <2>3. Allocated(j)' = Allocated(j) /\ unit[j].at = "running"
    BY <1>2, <1>7, <2>2, AllocatedStays DEF FixtureStops, Runs
  <2> QED BY <1>1, <1>2, <2>2, <2>3 DEF UnitFate
<1>8. CASE Finish(j)
  <2>1. /\ unit' = [unit EXCEPT ![j].at = "ended"] /\ unit[j].at = "running"
        /\ reports' = [reports EXCEPT ![j] = FinishedReport(j)]
    BY <1>8 DEF Finish, Writes, FinishedReport, Filed
  <2>2. /\ unit'[j].inventory = unit[j].inventory /\ unit'[j].broken = unit[j].broken
        /\ unit'[j].at = "ended" /\ unit'[j].assigned = unit[j].assigned
        /\ unit'[j].courses = unit[j].courses /\ unit'[j].fixtures = unit[j].fixtures
        /\ DOMAIN unit'[j] = UnitFields
    BY <1>1, <2>1 DEF UnitFields
  <2>3. Allocated(j)' = Allocated(j)
    BY <1>2, <2>2, AllocatedStays
  <2>4. FinishedReport(j)' = FinishedReport(j)
    <3>1. Clean(unit'[j]) = Clean(unit[j]) /\ \A t : Row(unit'[j], t) = Row(unit[j], t)
      BY <2>2 DEF Clean, Row, Skipped
    <3>2. Successful(unit'[j]) = Successful(unit[j])
      BY <2>2, <3>1 DEF Successful
    <3>3. [t \in unit'[j].assigned |-> Row(unit'[j], t)] = [t \in unit[j].assigned |-> Row(unit[j], t)]
      BY <2>2, <3>1
    <3>4. ASSUME NEW CONSTANT status, NEW CONSTANT inventory, NEW CONSTANT assigned,
                 NEW CONSTANT results, NEW CONSTANT clean
          PROVE  Filed(j, status, inventory, assigned, results, clean)'
                   = Filed(j, status, inventory, assigned, results, clean)
      BY <1>2 DEF Report, Filed
    <3> QED BY <1>2, <2>2, <3>1, <3>2, <3>3, <3>4 DEF FinishedReport, Filed, Report
  <2>5. reports'[j] = FinishedReport(j)
    BY <1>1, <2>1
  <2> QED BY <1>1, <1>2, <2>1, <2>2, <2>3, <2>4, <2>5 DEF UnitFate
<1>9. CASE KillUnit(j)
  <2>1. unit' = [unit EXCEPT ![j].at = "killed"]
    BY <1>9 DEF KillUnit
  <2>2. /\ unit'[j].inventory = unit[j].inventory /\ unit'[j].broken = unit[j].broken
        /\ unit'[j].at = "killed" /\ unit'[j].courses = unit[j].courses
    BY <1>1, <2>1 DEF UnitFields
  <2> QED BY <1>1, <2>2 DEF UnitFate
<1>10. CASE TearDownFails(j)
  <2>1. PICK fixtures : unit' = [unit EXCEPT ![j].fixtures = fixtures]
    BY <1>10 DEF TearDownFails, Fails
  <2>2. /\ unit'[j].inventory = unit[j].inventory /\ unit'[j].broken = unit[j].broken
        /\ unit'[j].at = unit[j].at /\ unit'[j].assigned = unit[j].assigned
        /\ unit'[j].courses = unit[j].courses
    BY <1>1, <2>1 DEF UnitFields
  <2>3. Allocated(j)' = Allocated(j) /\ unit[j].at = "running"
    BY <1>2, <1>10, <2>2, AllocatedStays DEF TearDownFails
  <2> QED BY <1>1, <1>2, <2>2, <2>3 DEF UnitFate
<1> QED BY <1>4, <1>5, <1>6, <1>7, <1>8, <1>9, <1>10 DEF UnitStep

-------------------------------------------------------------------------------
(* A shard that was allocated its tests, ran to its end and failed nothing *)
(* leaves the report that the check expects of it.                         *)
LEMMA RegularReport ==
  ASSUME UnitInv, UnitFateInv, kind = "unit", Regular, NEW j \in Shards(Count)
  PROVE  /\ j \in DOMAIN unit /\ unit[j].inventory = unit[0].inventory /\ unit[0].inventory # {}
         /\ reports[j] # Missing /\ reports[j].status = "passed"
         /\ reports[j].index = j /\ reports[j].count = Count
         /\ reports[j].isolated = ToSet(call[0].isolated)
         /\ reports[j].inventory = unit[0].inventory
         /\ reports[j].assigned = unit[j].assigned
         /\ reports[j].results = [t \in unit[j].assigned |-> Row(unit[j], t)]
         /\ reports[j].clean
<1>1. /\ DOMAIN unit = Shards(Count) /\ j \in DOMAIN unit /\ 0 \in DOMAIN unit
      /\ unit[j].at = "ended" /\ call[j] = [call[0] EXCEPT !.index = j] /\ call[j].count = Count
      /\ unit[j].inventory = unit[0].inventory /\ Allocated(j) # {} /\ Successful(unit[j])
  BY CountAssumption DEF Regular, Shards
<1>2. UnitInputs(0) /\ UnitInputs(j) /\ UnitFate(j)
  BY <1>1 DEF UnitFateInv
<1>3. call[j].index = j /\ call[j].isolated = call[0].isolated
  BY <1>1, <1>2 DEF UnitInputs
<1>4. unit[0].inventory # {}
  BY <1>1 DEF Allocated, Discovered
<1>5. reports[j] = FinishedReport(j)
  BY <1>1, <1>2 DEF UnitFate
<1>6. Clean(unit[j])
  BY <1>1 DEF Successful
<1> DEFINE results == [t \in unit[j].assigned |-> Row(unit[j], t)]
<1>7. reports[j] = Filed(j, "passed", unit[j].inventory, unit[j].assigned, results, Clean(unit[j]))
  BY <1>1, <1>5 DEF FinishedReport
<1> HIDE DEF results
<1>8. /\ reports[j].status = "passed" /\ reports[j].index = call[j].index
      /\ reports[j].count = call[j].count /\ reports[j].isolated = ToSet(call[j].isolated)
      /\ reports[j].inventory = unit[j].inventory /\ reports[j].assigned = unit[j].assigned
      /\ reports[j].results = results /\ reports[j].clean = Clean(unit[j])
  BY <1>7 DEF Filed, Report
<1>9. reports[j] # Missing
  BY <1>8 DEF Missing
<1> QED BY <1>1, <1>3, <1>4, <1>6, <1>8, <1>9 DEF results

(* None of a test's outcomes was bad, so its row is not.                   *)
LEMMA GoodRows ==
  ASSUME NEW j, UnitFate(j), Successful(unit[j]), NEW t \in unit[j].assigned
  PROVE  Row(unit[j], t) \in {"passed", "skipped", "expected_failure"}
<1>1. /\ \A i \in DOMAIN unit[j].courses : \A k \in DOMAIN unit[j].courses[i] : unit[j].courses[i][k] \notin Bad
      /\ Row(unit[j], t) # "not_run"
  BY DEF Successful, Clean
<1>2. CASE t \in DOMAIN unit[j].courses
  <2> DEFINE course == unit[j].courses[t]
             Outcomes == {"error", "failed", "skipped", "expected_failure", "unexpected_success"}
  <2>1. course \in Seq(Outcomes)
    BY <1>2, CoursesAssumption DEF UnitFate
  <2>2. \A k \in DOMAIN course : course[k] \notin Bad
    BY <1>1, <1>2
  <2>3. Row(unit[j], t) = Status(course)
    BY <1>2 DEF Row
  <2> HIDE DEF course
  <2>4. CASE course = <<>>
    BY <2>3, <2>4 DEF Status
  <2>5. CASE course # <<>>
    <3>1. Last(course) = course[Len(course)]
      BY DEF Last
    <3>2. Len(course) \in DOMAIN course /\ course[Len(course)] \in Outcomes
      BY <2>1, <2>5
    <3> QED BY <2>2, <2>3, <2>5, <3>1, <3>2 DEF Status, Bad
  <2> QED BY <2>4, <2>5
<1>3. CASE t \notin DOMAIN unit[j].courses
  BY <1>1, <1>3 DEF Row
<1> QED BY <1>2, <1>3

(* verify_partition accepts whatever is a partition of one inventory.      *)
LEMMA PartitionVerified ==
  ASSUME NEW ids, ids # {}, NEW shards, DOMAIN shards = Shards(Count), Partitions(shards, ids),
         NEW inventory, DOMAIN inventory = Shards(Count), \A i \in Shards(Count) : inventory[i] = ids,
         NEW assigned, DOMAIN assigned = Shards(Count), \A i \in Shards(Count) : assigned[i] = shards[i]
  PROVE  verify_partition(inventory, assigned)
<1>1. inventory[0] = ids
  BY CountAssumption DEF Shards
<1>2. /\ UNION {shards[i] : i \in Shards(Count)} = ids
      /\ \A i, j \in Shards(Count) : i # j => shards[i] \cap shards[j] = {}
  BY DEF Partitions
<1>3. UNION {assigned[i] : i \in Shards(Count)} = ids
  BY <1>2
<1>4. \A i \in Shards(Count) : assigned[i] \subseteq ids
  BY <1>2
<1>5. \A i, j \in Shards(Count) : i # j => assigned[i] \cap assigned[j] = {}
  BY <1>2
<1> QED BY <1>1, <1>3, <1>4, <1>5 DEF verify_partition

(* Shards of one inventory and the same arguments compute the same         *)
(* allocation.                                                             *)
LEMMA AllocationUnique ==
  ASSUME NEW ids, NEW n, NEW timings, NEW isolated,
         NEW a \in allocate(ids, n, timings, isolated), NEW b \in allocate(ids, n, timings, isolated)
  PROVE  a = b
<1> DEFINE stopped == n < 2 \/ ~ IsInjective(isolated) \/ ~ ToSet(isolated) \subseteq ids
           divided == [i \in Shards(n) |-> IF i = 0 THEN ToSet(isolated)
                                          ELSE Balanced(ids \ ToSet(isolated), n - 1, timings)[i - 1]]
<1>1. allocate(ids, n, timings, isolated) = IF isolated = <<>> THEN {Balanced(ids, n, timings)}
                                            ELSE IF stopped THEN {} ELSE {divided}
  BY Zenon DEF allocate
<1> HIDE DEF stopped, divided
<1> QED BY <1>1

(* The reports of unit shards that were started alike and succeeded pass   *)
(* the check.                                                              *)
LEMMA RegularUnitsVerify ==
  ASSUME UnitInv, UnitFateInv, kind = "unit", Regular
  PROVE  verify_units(reports)
<1> DEFINE ids == unit[0].inventory
           isolated == call[0].isolated
           timings == call[0].timings
           given == allocate(ids, Count, timings, isolated)
<1>1. /\ DOMAIN unit = Shards(Count) /\ DOMAIN reports = Shards(Count) /\ 0 \in Shards(Count)
      /\ \A j \in Shards(Count) :
           /\ unit[j].at = "ended" /\ call[j] = [call[0] EXCEPT !.index = j] /\ call[j].count = Count
           /\ unit[j].inventory = ids /\ Allocated(j) # {} /\ Successful(unit[j])
           /\ UnitInputs(j) /\ UnitFate(j)
  BY CountAssumption DEF Regular, UnitInv, UnitFateInv, Shards
<1>2. /\ ids \in SUBSET Int /\ IsFiniteSet(ids) /\ isolated \in Seq(Int) /\ timings \in Timings
      /\ Count \in Nat \ {0}
  BY <1>1, CountAssumption DEF UnitInputs
<1>3. ASSUME NEW j \in Shards(Count) PROVE Allocated(j) = given /\ call[j].index = j
  <2>1. DOMAIN call[0] = {"index", "count", "isolated", "timings"}
    BY <1>1 DEF UnitInputs
  <2>2. /\ call[j].count = Count /\ call[j].timings = timings /\ call[j].isolated = isolated /\ call[j].index = j
        /\ unit[j].inventory = ids
    <3>1. call[j] = [call[0] EXCEPT !.index = j] /\ call[j].count = Count /\ unit[j].inventory = ids
      BY <1>1
    <3>2. call[j].timings = call[0].timings /\ call[j].isolated = call[0].isolated /\ call[j].index = j
      BY <2>1, <3>1
    <3> QED BY <3>1, <3>2
  <2>3. Discovered(j) = unit[j].inventory /\ Discovered(j) # {}
    BY <1>1 DEF Allocated, Discovered
  <2> QED BY <2>2, <2>3 DEF Allocated
<1>4. ASSUME NEW j \in Shards(Count)
      PROVE  /\ ids # {}
             /\ reports[j] # Missing /\ reports[j].status = "passed"
             /\ reports[j].index = j /\ reports[j].count = Count /\ reports[j].isolated = ToSet(isolated)
             /\ reports[j].inventory = ids /\ reports[j].assigned = unit[j].assigned
             /\ reports[j].results = [t \in unit[j].assigned |-> Row(unit[j], t)] /\ reports[j].clean
  BY RegularReport
<1> HIDE DEF ids, isolated, timings
<1>5. PICK shards \in given : \A j \in Shards(Count) : unit[j].assigned = shards[j]
  <2>1. \A j \in Shards(Count) : \E a \in given : unit[j].assigned = a[j]
    <3> SUFFICES ASSUME NEW j \in Shards(Count) PROVE \E a \in given : unit[j].assigned = a[j]
      OBVIOUS
    <3>1. Allocated(j) = given /\ call[j].index = j
      BY <1>3
    <3> HIDE DEF given
    <3>2. \E a \in Allocated(j) : unit[j].assigned = a[call[j].index]
      BY <1>1 DEF UnitFate
    <3> QED BY <3>1, <3>2
  <2>2. \A a, b \in given : a = b
    BY AllocationUnique
  <2> HIDE DEF given
  <2> QED BY <1>1, <2>1, <2>2
<1>6. /\ DOMAIN shards = Shards(Count) /\ Partitions(shards, ids)
      /\ isolated # <<>> => Count >= 2 /\ shards[0] = ToSet(isolated) /\ ToSet(isolated) \subseteq ids
  <2>1. Divides(shards, ids, Count, timings, isolated)
    BY <1>2, <1>5, AllocateSound
  <2> QED BY <2>1 DEF Divides
<1> HIDE DEF given
<1>7. artifact_reports(reports)
  <2>1. Artifacts(reports) = Shards(Count)
    BY <1>1, <1>4 DEF Artifacts
  <2> QED BY <1>4, <2>1 DEF artifact_reports
<1>8. verify_partition([i \in Shards(Count) |-> reports[i].inventory], [i \in Shards(Count) |-> reports[i].assigned])
  <2> DEFINE inventory == [i \in Shards(Count) |-> reports[i].inventory]
             assigned  == [i \in Shards(Count) |-> reports[i].assigned]
  <2>1. /\ DOMAIN inventory = Shards(Count) /\ DOMAIN assigned = Shards(Count)
        /\ \A i \in Shards(Count) : inventory[i] = ids /\ assigned[i] = shards[i]
    BY <1>4, <1>5
  <2>2. SUFFICES verify_partition(inventory, assigned)
    OBVIOUS
  <2> HIDE DEF inventory, assigned
  <2> QED BY <1>1, <1>4, <1>6, <2>1, PartitionVerified
<1>9. isolated = <<>> => ToSet(isolated) = {}
  BY DEF ToSet
<1>10. ASSUME NEW i \in Shards(Count)
       PROVE  /\ DOMAIN reports[i].results = reports[i].assigned
              /\ \A t \in DOMAIN reports[i].results : reports[i].results[t] \in {"passed", "skipped", "expected_failure"}
  <2>1. \A t \in unit[i].assigned : Row(unit[i], t) \in {"passed", "skipped", "expected_failure"}
    BY <1>1, GoodRows
  <2> DEFINE results == [t \in unit[i].assigned |-> Row(unit[i], t)]
  <2>2. reports[i].results = results /\ reports[i].assigned = unit[i].assigned
    BY <1>4
  <2>3. DOMAIN results = unit[i].assigned /\ \A t \in unit[i].assigned : results[t] = Row(unit[i], t)
    OBVIOUS
  <2> HIDE DEF results
  <2> QED BY <2>1, <2>2, <2>3
<1>11. /\ \A i \in Shards(Count) : reports[i].isolated = reports[0].isolated /\ reports[i].clean
       /\ reports[0].isolated \subseteq reports[0].inventory
       /\ reports[0].isolated # {} => Count >= 2 /\ reports[0].assigned = reports[0].isolated
  BY <1>1, <1>4, <1>5, <1>6, <1>9
<1> QED BY <1>7, <1>8, <1>10, <1>11 DEF verify_units

-------------------------------------------------------------------------------
(* What becomes of a suite job when nothing ends its runner: the report of *)
(* a suite that succeeded is its own and complete, and the row and the     *)
(* summary pass it on.                                                     *)
Succeeded(j) == suite[j].state = "exited" /\ suite[j].code = 0

GridInputs(j) ==
  /\ DOMAIN shard[j] = {"index", "count", "grid", "scenarios"}
  /\ shard[j].grid \in Seq(ToSet(shard[j].grid)) /\ IsInjective(shard[j].grid)

ReportFate(j) ==
  /\ Reported(j) => \E completed : files[j].report = Coverage(j, completed)
  /\ Succeeded(j) => files[j].report = Coverage(j, Assigned(j))

RowFate(j) ==
  /\ runner[j].at \in {"reading", "summing", "ended"} => suite[j].state # "running"
  /\ runner[j].at = "reading" /\ Succeeded(j) => runner[j].row.status \in {"passed", "timeout"}
  /\ runner[j].at \in {"summing", "ended"} /\ runner[j].sound /\ Succeeded(j) =>
       runner[j].row.status \in {"passed", "timeout"} /\ runner[j].row.coverage = files[j].report

FinishedSummary(j) ==
  [status |-> IF runner[j].sound /\ runner[j].row.status = "passed" THEN "passed" ELSE "failed",
   index |-> shard[j].index, count |-> shard[j].count, sound |-> runner[j].sound,
   row |-> runner[j].row, fresh |-> TRUE]

SummaryFate(j) == runner[j].at = "ended" => files[j].summary = FinishedSummary(j)

SuiteFate(j) == GridInputs(j) /\ ReportFate(j) /\ RowFate(j) /\ SummaryFate(j)

SuiteFateInv == kind = "suite" => \A j \in DOMAIN shard : SuiteFate(j)

(* What a reused directory holds is not taken for a report of this run.    *)
LEMMA SuiteFateInit == Init => SuiteFateInv
<1> SUFFICES ASSUME Init, kind = "suite", NEW j \in DOMAIN shard PROVE SuiteFate(j)
  BY DEF SuiteFateInv
<1>1. PICK workflow \in SuiteWorkflows :
        /\ shard = [i \in DOMAIN workflow |-> workflow[i].shard]
        /\ runner = [i \in DOMAIN workflow |-> [at |-> "starting", sound |-> FALSE, row |-> NoRow]]
        /\ suite = [i \in DOMAIN workflow |-> NotRunning]
        /\ files = [i \in DOMAIN workflow |->
                     IF workflow[i].reused
                       THEN [report |-> StaleReport(i), summary |-> StaleSummary(i)]
                       ELSE [report |-> Missing, summary |-> Missing]]
  BY DEF Init, UnitInit, SuiteInit
<1>2. /\ shard[j] = workflow[j].shard /\ runner[j].at = "starting" /\ suite[j].state = "none"
      /\ files[j].report \in {StaleReport(j), Missing}
  BY <1>1 DEF NotRunning
<1>3. GridInputs(j)
  BY <1>1, <1>2, SuiteAssumption DEF GridInputs
<1>4. ~ Reported(j)
  BY <1>2 DEF Reported, StaleReport, Coverage
<1> QED BY <1>2, <1>3, <1>4 DEF SuiteFate, ReportFate, RowFate, SummaryFate, Succeeded

(* A step of a suite job keeps what is known of that job.                  *)
LEMMA SuiteFateStep ==
  ASSUME SuiteInv, SuiteFateInv, kind = "suite", NEW j \in DOMAIN shard, SuiteStep(j)
  PROVE  SuiteFate(j)'
<1>1. /\ j \in DOMAIN runner /\ j \in DOMAIN suite /\ j \in DOMAIN files
      /\ DOMAIN runner[j] = RunnerFields /\ DOMAIN suite[j] = SuiteFields /\ DOMAIN files[j] = FileFields
      /\ ReportTruth(j)
      /\ GridInputs(j) /\ ReportFate(j) /\ RowFate(j) /\ SummaryFate(j)
  BY DEF SuiteInv, SuiteFateInv, SuiteFate
<1>2. /\ shard' = shard /\ Grid(j)' = Grid(j) /\ Assigned(j)' = Assigned(j) /\ GridInputs(j)'
      /\ \A completed : Coverage(j, completed)' = Coverage(j, completed)
  BY <1>1, SuiteFrame DEF Frame, Grid, Assigned, GridInputs, Inventory, Coverage
<1>3. CASE Prepare(j)
  <2>1. PICK point \in {"ready", "summing"} : RunnerAt(j, point, runner[j].row)
    BY <1>1, <1>3, PrepareFacts
  <2>2. /\ suite[j].state = "none" /\ suite' = suite /\ files'[j].report = Missing
    BY <1>1, <1>3 DEF Prepare, ReportTruth, FileFields
  <2> QED BY <1>1, <1>2, <2>1, <2>2
          DEF RunnerAt, SuiteFate, ReportFate, RowFate, SummaryFate, Reported, Succeeded
<1>4. ASSUME runner[j].at \in {"ready", "launched", "waiting", "expired", "starting", "reading", "summing"},
             NEW point \in {"launched", "waiting", "expired", "aborted"}, RunnerAt(j, point, runner[j].row),
             files' = files,
             suite' = suite \/ (suite'[j].state = "running" /\ runner[j].at = "ready")
      PROVE  SuiteFate(j)'
  <2>1. ReportFate(j)'
    BY <1>1, <1>2, <1>4 DEF ReportFate, Reported, Succeeded
  <2> QED BY <1>2, <1>4, <2>1 DEF RunnerAt, SuiteFate, RowFate, SummaryFate
<1>5. CASE Launch(j)
  <2>1. /\ runner[j].at = "ready" /\ files' = files
        /\ \/ RunnerAt(j, "launched", runner[j].row) /\ suite'[j].state = "running"
           \/ RunnerAt(j, "reading", [NoRow EXCEPT !.status = "failed"]) /\ suite' = suite
    BY <1>1, <1>5, AtFacts, LeaveFacts DEF Launch
  <2>2. CASE RunnerAt(j, "launched", runner[j].row) /\ suite'[j].state = "running"
    BY <1>4, <2>1, <2>2
  <2>3. ASSUME NEW row, RunnerAt(j, "reading", row), suite' = suite PROVE SuiteFate(j)'
    <3>1. suite[j].state = "none"
      BY <1>1, <2>1 DEF ReportTruth
    <3> QED BY <1>1, <1>2, <2>1, <2>3, <3>1
            DEF RunnerAt, SuiteFate, ReportFate, RowFate, SummaryFate, Reported, Succeeded
  <2> QED BY <2>1, <2>2, <2>3
<1>6. CASE InstallHandler(j)
  <2>1. RunnerAt(j, "waiting", runner[j].row) /\ runner[j].at = "launched" /\ suite' = suite /\ files' = files
    BY <1>1, <1>6, AtFacts DEF InstallHandler
  <2> QED BY <1>4, <2>1
<1>7. CASE Expire(j)
  <2>1. RunnerAt(j, "expired", runner[j].row) /\ runner[j].at = "waiting" /\ suite' = suite /\ files' = files
    BY <1>1, <1>7, AtFacts DEF Expire
  <2> QED BY <1>4, <2>1
<1>8. CASE Collect(j)
  <2> DEFINE row == [NoRow EXCEPT !.status = IF suite[j].code = 0 THEN "passed" ELSE "failed"]
  <2>1. RunnerAt(j, "reading", row) /\ suite[j].state = "exited" /\ suite' = suite /\ files' = files
    BY <1>1, <1>8, LeaveFacts DEF Collect
  <2>2. suite[j].code = 0 => row.status = "passed"
    BY DEF NoRow
  <2> HIDE DEF row
  <2> QED BY <1>1, <1>2, <2>1, <2>2
          DEF RunnerAt, SuiteFate, ReportFate, RowFate, SummaryFate, Reported, Succeeded
<1>9. ASSUME suite' = [suite EXCEPT ![j] = Killed(@)], files' = files
      PROVE  /\ suite'[j].state # "running" /\ ReportFate(j)'
             /\ Succeeded(j)' => Succeeded(j)
  <2>1. /\ suite'[j].state # "running" /\ suite'[j].code = suite[j].code
        /\ suite'[j].state = "exited" => suite[j].state = "exited"
    BY <1>1, <1>9 DEF Killed
  <2> QED BY <1>1, <1>2, <1>9, <2>1 DEF ReportFate, Reported, Succeeded
<1>10. CASE KillGroup(j)
  <2> DEFINE row == [NoRow EXCEPT !.status = "timeout"]
  <2>1. /\ RunnerAt(j, "reading", row) /\ row.status = "timeout"
        /\ suite' = [suite EXCEPT ![j] = Killed(@)] /\ files' = files
    BY <1>1, <1>10, LeaveFacts DEF KillGroup, NoRow
  <2> HIDE DEF row
  <2> QED BY <1>2, <1>9, <2>1 DEF RunnerAt, SuiteFate, RowFate, SummaryFate
<1>11. CASE Terminate(j)
  <2>1. /\ RunnerAt(j, "terminated", runner[j].row)
        /\ suite' = [suite EXCEPT ![j] = Killed(@)] /\ files' = files
    BY <1>1, <1>11, AtFacts DEF Terminate
  <2> QED BY <1>2, <1>9, <2>1 DEF RunnerAt, SuiteFate, RowFate, SummaryFate
<1>12. CASE ReadCoverage(j)
  <2> DEFINE row == [status   |-> IF files[j].report # Missing /\ Covered(j, files[j].report)
                                    THEN runner[j].row.status ELSE "failed",
                     coverage |-> files[j].report]
  <2>1. /\ RunnerAt(j, "summing", row) /\ runner[j].at = "reading" /\ suite' = suite /\ files' = files
    BY <1>1, <1>12, LeaveFacts DEF ReadCoverage
  <2>2. /\ row.coverage = files[j].report
        /\ files[j].report = Coverage(j, Assigned(j)) => row.status = runner[j].row.status
    <3>1. Coverage(j, Assigned(j)) # Missing /\ Covered(j, Coverage(j, Assigned(j)))
      BY DEF Coverage, Covered, Missing
    <3> QED BY <3>1
  <2> HIDE DEF row
  <2> QED BY <1>1, <1>2, <2>1, <2>2
          DEF RunnerAt, SuiteFate, ReportFate, RowFate, SummaryFate, Reported, Succeeded
<1>13. CASE Summarize(j)
  <2>1. /\ RunnerAt(j, "ended", runner[j].row) /\ runner[j].at = "summing" /\ suite' = suite
        /\ files'[j].report = files[j].report /\ files'[j].summary = FinishedSummary(j)
        /\ runner'[j].sound = runner[j].sound
    BY <1>1, <1>13, AtFacts, AtKeepsSound DEF Summarize, FileFields, FinishedSummary
  <2>2. FinishedSummary(j)' = FinishedSummary(j)
    BY <1>2, <2>1 DEF RunnerAt, FinishedSummary
  <2> QED BY <1>1, <1>2, <2>1, <2>2
          DEF RunnerAt, SuiteFate, ReportFate, RowFate, SummaryFate, Reported, Succeeded
<1>14. CASE Abort(j)
  <2>1. RunnerAt(j, "aborted", runner[j].row) /\ suite' = suite /\ files' = files
    BY <1>1, <1>14, AtFacts DEF Abort
  <2> QED BY <1>1, <1>2, <2>1
          DEF RunnerAt, SuiteFate, ReportFate, RowFate, SummaryFate, Reported, Succeeded
<1>15. CASE SuiteReports(j)
  <2>1. PICK completed : files' = [files EXCEPT ![j].report = Coverage(j, completed)]
    BY <1>15 DEF SuiteReports
  <2>2. /\ files'[j].report = Coverage(j, completed) /\ files'[j].summary = files[j].summary
        /\ runner' = runner /\ suite' = suite /\ suite[j].state = "running"
    BY <1>1, <1>15, <2>1 DEF SuiteReports, FileFields
  <2>3. ReportFate(j)'
    BY <1>2, <2>2 DEF ReportFate, Succeeded
  <2> QED BY <1>1, <1>2, <2>2, <2>3 DEF SuiteFate, RowFate, SummaryFate
<1>16. CASE SuiteExits(j)
  <2>1. /\ runner' = runner /\ files' = files /\ suite[j].state = "running"
        /\ suite'[j].code = 0 => Reported(j) /\ files[j].report.complete
    BY <1>1, <1>16 DEF SuiteExits
  <2>2. ASSUME suite'[j].code = 0 PROVE files[j].report = Coverage(j, Assigned(j))
    <3>1. PICK completed : files[j].report = Coverage(j, completed)
      BY <1>1, <2>1, <2>2 DEF ReportFate
    <3>2. completed = Assigned(j)
      <4>1. Coverage(j, completed).complete
        BY <2>1, <2>2, <3>1
      <4>2. Coverage(j, completed).complete = (completed = Assigned(j))
        BY DEF Coverage
      <4> QED BY <4>1, <4>2, Zenon
    <3> QED BY <3>1, <3>2
  <2>3. ReportFate(j)'
    BY <1>1, <1>2, <2>1, <2>2 DEF ReportFate, Reported, Succeeded
  <2>4. runner[j].at \notin {"reading", "summing", "ended"}
    BY <1>1, <2>1 DEF RowFate
  <2> QED BY <1>1, <1>2, <2>1, <2>3, <2>4 DEF SuiteFate, RowFate, SummaryFate
<1>17. CASE HelperExits(j)
  <2>1. /\ runner' = runner /\ files' = files
        /\ suite'[j].state = suite[j].state /\ suite'[j].code = suite[j].code
    BY <1>1, <1>17 DEF HelperExits, SuiteFields
  <2>2. FinishedSummary(j)' = FinishedSummary(j)
    BY <1>2, <2>1 DEF FinishedSummary
  <2> QED BY <1>1, <1>2, <2>1, <2>2 DEF SuiteFate, ReportFate, RowFate, SummaryFate, Reported, Succeeded
<1> QED BY <1>3, <1>5, <1>6, <1>7, <1>8, <1>10, <1>11, <1>12, <1>13, <1>14, <1>15, <1>16, <1>17
        DEF SuiteStep, RunnerStep

-------------------------------------------------------------------------------
(* lifting to all suites: a step of one job leaves the others alone.       *)
LEMMA SuiteFateInvStep ==
  ASSUME SuiteInv, SuiteFateInv, kind = "suite", kind' = kind, NEW j \in DOMAIN runner, SuiteStep(j)
  PROVE  SuiteFateInv'
<1>1. j \in DOMAIN shard
  BY DEF SuiteInv
<1>2. Frame(j) /\ SuiteFate(j)'
  BY <1>1, SuiteFrame, SuiteFateStep
<1>3. ASSUME NEW k \in DOMAIN shard, k # j PROVE SuiteFate(k)'
  <2>1. /\ runner'[k] = runner[k] /\ suite'[k] = suite[k] /\ files'[k] = files[k]
        /\ Assigned(k)' = Assigned(k) /\ \A completed : Coverage(k, completed)' = Coverage(k, completed)
        /\ shard' = shard
    BY <1>2, <1>3 DEF Frame, Grid, Assigned, Inventory, Coverage
  <2>2. FinishedSummary(k)' = FinishedSummary(k)
    BY <2>1 DEF FinishedSummary
  <2>3. SuiteFate(k)
    BY DEF SuiteFateInv
  <2> QED BY <2>1, <2>2, <2>3
          DEF SuiteFate, GridInputs, ReportFate, RowFate, SummaryFate, Reported, Succeeded
<1> QED BY <1>2, <1>3 DEF SuiteFateInv, Frame

-------------------------------------------------------------------------------
(* A stride through a grid gives every group to one shard.                 *)
LEMMA StridePartitions ==
  ASSUME NEW grid, grid \in Seq(ToSet(grid)), IsInjective(grid), NEW n \in Nat \ {0}
  PROVE  Partitions([i \in Shards(n) |-> Stride(grid, i, n)], ToSet(grid))
<1> DEFINE shares == [i \in Shards(n) |-> Stride(grid, i, n)]
<1>1. ASSUME NEW k \in DOMAIN grid PROVE (k - 1) % n \in Shards(n)
  <2>1. k - 1 \in Nat
    <3>1. DOMAIN grid = 1..Len(grid) /\ Len(grid) \in Nat
      BY LenProperties
    <3> QED BY <3>1
  <2> QED BY <2>1, Remainder DEF Shards
<1>2. ToSet(grid) = {grid[k] : k \in DOMAIN grid}
  BY DEF ToSet
<1>3. \A i \in Shards(n) : shares[i] = {grid[k] : k \in {m \in DOMAIN grid : (m - 1) % n = i}}
  BY DEF Stride
<1>4. \A a, b \in DOMAIN grid : grid[a] = grid[b] => a = b
  BY DEF IsInjective
<1>5. DOMAIN shares = Shards(n)
  OBVIOUS
<1> SUFFICES Partitions(shares, ToSet(grid))
  OBVIOUS
<1> HIDE DEF shares
<1>6. UNION {shares[i] : i \in Shards(n)} = ToSet(grid)
  <2>1. ASSUME NEW i \in Shards(n) PROVE shares[i] \subseteq ToSet(grid)
    BY <1>2, <1>3
  <2>2. ASSUME NEW g \in ToSet(grid) PROVE \E i \in Shards(n) : g \in shares[i]
    <3>1. PICK k \in DOMAIN grid : g = grid[k]
      BY <1>2
    <3>2. (k - 1) % n \in Shards(n)
      BY <1>1
    <3>3. g \in shares[(k - 1) % n]
      BY <1>3, <3>1, <3>2
    <3> QED BY <3>2, <3>3
  <2> QED BY <2>1, <2>2
<1>7. ASSUME NEW i \in Shards(n), NEW j \in Shards(n), i # j PROVE shares[i] \cap shares[j] = {}
  BY <1>3, <1>4, <1>7
<1> QED BY <1>5, <1>6, <1>7 DEF Partitions

(* Where each group of a grid stands decides its shard as the rank of a    *)
(* test does: no shard has two groups more than another.                   *)
LEMMA StrideEven ==
  ASSUME NEW grid, grid \in Seq(ToSet(grid)), IsInjective(grid), NEW n \in Nat \ {0}
  PROVE  Even([i \in Shards(n) |-> Stride(grid, i, n)], NoTimings)
<1> DEFINE places    == 1..Len(grid)
           At0(i)    == {m \in places : (m - 1) % n = i}
           shares    == [i \in Shards(n) |-> Stride(grid, i, n)]
           robin     == RoundRobin(places, n)
<1>1. Len(grid) \in Nat /\ DOMAIN grid = places
  BY LenProperties
<1>2. places \in SUBSET Int /\ IsFiniteSet(places)
  BY <1>1, FS_Interval
<1>3. ASSUME NEW m \in places PROVE Rank(places, m) = m - 1
  <2>1. {u \in places : u < m} = 1..(m - 1) /\ m - 1 \in Nat
    BY <1>1
  <2>2. Cardinality(1..(m - 1)) = m - 1
    BY <2>1, FS_Interval
  <2> QED BY <2>1, <2>2 DEF Rank
<1>4. \A i \in Shards(n) : robin[i] = At0(i)
  BY <1>3 DEF RoundRobin
<1>5. \A i, j \in Shards(n) : Cardinality(robin[i]) <= Cardinality(robin[j]) + 1
  <2>1. robin \in [Shards(n) -> SUBSET places] /\ Even(robin, NoTimings)
    BY <1>2, RoundRobinSound
  <2> HIDE DEF robin
  <2> QED BY <2>1 DEF Even
<1>6. ASSUME NEW i \in Shards(n) PROVE Cardinality(shares[i]) = Cardinality(robin[i])
  <2> DEFINE S == At0(i)
             f == [k \in S |-> grid[k]]
  <2>1. S \subseteq DOMAIN grid /\ IsFiniteSet(S)
    BY <1>1, <1>2, FS_Subset
  <2>2. shares[i] = {grid[k] : k \in S}
    BY <1>1 DEF Stride
  <2> HIDE DEF S
  <2>3. f \in Bijection(S, {grid[k] : k \in S})
    <3>1. f \in [S -> {grid[k] : k \in S}] /\ \A k \in S : f[k] = grid[k]
      OBVIOUS
    <3>2. \A a, b \in S : f[a] = f[b] => a = b
      BY <2>1 DEF IsInjective
    <3>3. \A t \in {grid[k] : k \in S} : \E k \in S : f[k] = t
      OBVIOUS
    <3> QED BY <3>1, <3>2, <3>3 DEF Bijection, Injection, Surjection, IsInjective
  <2>4. Cardinality(S) = Cardinality({grid[k] : k \in S})
    <3> DEFINE T == {grid[k] : k \in S}
    <3>1. ExistsBijection(S, T)
      BY <2>3 DEF ExistsBijection
    <3> HIDE DEF T, f
    <3>2. Cardinality(T) = Cardinality(S)
      BY <2>1, <3>1, FS_Bijection
    <3> QED BY <3>2 DEF T
  <2> QED BY <1>4, <2>2, <2>4 DEF S
<1> DEFINE Goal == Even(shares, NoTimings)
<1>7. \A i, j \in DOMAIN shares : Cardinality(shares[i]) <= Cardinality(shares[j]) + 1
  <2>1. DOMAIN shares = Shards(n)
    OBVIOUS
  <2> HIDE DEF shares, robin
  <2> QED BY <1>5, <1>6, <2>1
<1>8. Goal
  <2> HIDE DEF shares
  <2> QED BY <1>7 DEF Even
<1> QED BY <1>8

-------------------------------------------------------------------------------
(* There are jobs only of the kind whose reports are looked at.            *)
UnitFree  == kind = "suite" => DOMAIN unit = {}
SuiteFree == kind = "unit" => DOMAIN runner = {}

(* What allocate returns to any job of an inventory is sound,              *)
LEMMA SoundTests == UnitFateInv /\ KindInv /\ UnitFree => TestsDivided
<1> SUFFICES ASSUME UnitFateInv, KindInv, UnitFree PROVE TestsDivided
  OBVIOUS
<1>1. SUFFICES ASSUME NEW j \in DOMAIN unit, NEW timings \in Timings, NEW n \in 1..(Count + 1),
                      NEW shards \in allocate(unit[j].inventory, n, timings, call[j].isolated)
               PROVE  LET others == IF call[j].isolated = <<>> THEN DOMAIN shards ELSE DOMAIN shards \ {0}
                      IN  /\ Partitions(shards, unit[j].inventory)
                          /\ call[j].isolated # <<>> => shards[0] = ToSet(call[j].isolated)
                          /\ Even([i \in others |-> shards[i]], timings)
  BY DEF TestsDivided
<1>2. kind = "unit"
  BY DEF KindInv, UnitFree
<1>3. UnitInputs(j)
  BY <1>2 DEF UnitFateInv
<1>4. /\ unit[j].inventory \in SUBSET Int /\ IsFiniteSet(unit[j].inventory)
      /\ call[j].isolated \in Seq(Int) /\ n \in Nat \ {0}
  BY <1>3, CountAssumption DEF UnitInputs
<1> DEFINE ids == unit[j].inventory
           isolated == call[j].isolated
<1> HIDE DEF ids, isolated
<1>5. Divides(shards, ids, n, timings, isolated)
  BY <1>4, AllocateSound DEF ids, isolated
<1> QED BY <1>5 DEF Divides, ids, isolated

(* and so is the stride through the grid of any matrix.                    *)
LEMMA SoundGroups == SuiteInv /\ SuiteFateInv /\ KindInv /\ SuiteFree => GroupsDivided
<1> SUFFICES ASSUME SuiteInv, SuiteFateInv, KindInv, SuiteFree, NEW j \in DOMAIN runner, NEW n \in 1..(Count + 1)
             PROVE  LET shares == [i \in Shards(n) |-> Stride(shard[j].grid, i, n)]
                    IN  Partitions(shares, Grid(j)) /\ Even(shares, NoTimings)
  BY DEF GroupsDivided
<1>1. GridInputs(j)
  BY DEF KindInv, SuiteFree, SuiteInv, SuiteFateInv, SuiteFate
<1>2. shard[j].grid \in Seq(ToSet(shard[j].grid)) /\ IsInjective(shard[j].grid) /\ n \in Nat \ {0}
  BY <1>1, CountAssumption DEF GridInputs
<1> QED BY <1>2, StridePartitions, StrideEven DEF Grid

-------------------------------------------------------------------------------
(* A suite of the expected shard that succeeded and was checked leaves the *)
(* summary that the check expects of it.                                   *)
LEMMA RegularSummary ==
  ASSUME SuiteInv, SuiteFateInv, kind = "suite", Regular, NEW j \in Shards(Count)
  PROVE  LET row == files[j].summary.row IN
         /\ files[j].summary # Missing /\ files[j].summary.status = "passed"
         /\ files[j].summary.index = j /\ files[j].summary.count = Count
         /\ row.status = "passed" /\ row.coverage.index = j /\ row.coverage.count = Count
         /\ row.coverage.complete /\ row.coverage.scenarios = shard[0].scenarios
         /\ row.coverage.expected = ToSet(shard[0].grid)
         /\ row.coverage.assigned = Stride(shard[0].grid, j, Count)
         /\ row.coverage.completed = row.coverage.assigned
         /\ row.coverage.inventory = Inventory(0) /\ files[j].summary.sound
<1>1. /\ j \in DOMAIN shard /\ 0 \in DOMAIN shard
      /\ runner[j].at = "ended" /\ runner[j].sound /\ Succeeded(j)
      /\ shard[j] = [shard[0] EXCEPT !.index = j] /\ shard[j].count = Count /\ runner[j].row.status # "timeout"
  BY CountAssumption DEF Regular, SuiteInv, Shards, Succeeded
<1>2. GridInputs(0) /\ ReportFate(j) /\ RowFate(j) /\ SummaryFate(j)
  BY <1>1 DEF SuiteFateInv, SuiteFate
<1>3. /\ shard[j].index = j /\ shard[j].grid = shard[0].grid /\ shard[j].scenarios = shard[0].scenarios
  BY <1>1, <1>2 DEF GridInputs
<1>4. /\ runner[j].row.status = "passed" /\ runner[j].row.coverage = Coverage(j, Assigned(j))
      /\ files[j].summary = FinishedSummary(j)
  BY <1>1, <1>2 DEF ReportFate, RowFate, SummaryFate
<1>5. /\ files[j].summary.status = "passed" /\ files[j].summary.index = j /\ files[j].summary.count = Count
      /\ files[j].summary.row = runner[j].row /\ files[j].summary # Missing /\ files[j].summary.sound
  <2> DEFINE summary == [status |-> "passed", index |-> j, count |-> Count, sound |-> TRUE, row |-> runner[j].row,
                         fresh |-> TRUE]
  <2>3. runner[j].sound = TRUE
    BY <1>1
  <2>1. files[j].summary = summary
    BY <1>1, <1>3, <1>4, <2>3 DEF FinishedSummary
  <2>2. summary # Missing
    BY DEF Missing
  <2> QED BY <2>1, <2>2
<1> DEFINE coverage == Coverage(j, Assigned(j))
<1>6. /\ coverage.index = j /\ coverage.count = Count /\ coverage.scenarios = shard[0].scenarios
      /\ coverage.expected = ToSet(shard[0].grid) /\ coverage.assigned = Stride(shard[0].grid, j, Count)
      /\ coverage.completed = coverage.assigned /\ coverage.complete /\ coverage.inventory = Inventory(0)
  <2>1. Inventory(j) = Inventory(0)
    BY <1>3 DEF Inventory
  <2>2. coverage.inventory = Inventory(j)
    BY DEF Coverage
  <2> QED BY <1>1, <1>3, <2>1, <2>2 DEF Coverage, Grid, Assigned
<1> HIDE DEF coverage
<1> QED BY <1>4, <1>5, <1>6 DEF coverage

(* The inventory of a grid and of scenarios with IDs of their own is one   *)
(* that the check takes.                                                   *)
LEMMA ScenariosVerified ==
  ASSUME GridInputs(0), Grid(0) # {}, DistinctIds(0),
         NEW coverage, 0 \in DOMAIN coverage, coverage[0].expected = Grid(0),
         \A i \in DOMAIN coverage : coverage[i].inventory = Inventory(0)
  PROVE  verify_scenarios(coverage)
<1> DEFINE grid == shard[0].grid
           scenarios == shard[0].scenarios
           inventory == Inventory(0)
           groups == [k \in DOMAIN inventory |-> inventory[k].group]
<1>0. /\ grid \in Seq(ToSet(grid)) /\ IsInjective(grid) /\ ToSet(grid) # {}
      /\ coverage[0].expected = ToSet(grid)
      /\ \A a, b \in DOMAIN scenarios : scenarios[a].id = scenarios[b].id => a = b
      /\ \A k \in DOMAIN grid :
           /\ inventory[k].group = grid[k]
           /\ inventory[k].selected = Selected(scenarios, grid[k])
           /\ inventory[k].excluded = Excluded(scenarios, grid[k])
  BY DEF GridInputs, Grid, DistinctIds, Inventory
<1>1. coverage[0].inventory = inventory /\ DOMAIN inventory = DOMAIN grid
  BY DEF Inventory
<1> HIDE DEF grid, scenarios, inventory
<1>2. groups = grid
  <2>1. DOMAIN groups = DOMAIN grid /\ \A k \in DOMAIN grid : groups[k] = grid[k]
    BY <1>0, <1>1
  <2>2. grid = [k \in DOMAIN grid |-> grid[k]]
    BY <1>0
  <2>3. groups = [k \in DOMAIN grid |-> grid[k]]
    BY <1>0, <1>1
  <2> QED BY <2>2, <2>3
<1>3. inventory # <<>>
  <2>1. DOMAIN grid # {}
    BY <1>0 DEF ToSet
  <2> QED BY <1>1, <2>1
<1>4. ASSUME NEW k \in DOMAIN inventory
      PROVE  /\ IsInjective(inventory[k].selected) /\ IsInjective(inventory[k].excluded)
             /\ ToSet(inventory[k].selected) \cap ToSet(inventory[k].excluded) = {}
  <2> DEFINE g   == grid[k]
             in  == {i \in DOMAIN scenarios : g \in scenarios[i].applies}
             out == {i \in DOMAIN scenarios : g \notin scenarios[i].applies}
  <2>1. inventory[k].selected = Ids(scenarios, in) /\ inventory[k].excluded = Ids(scenarios, out)
    BY <1>0, <1>1 DEF Selected, Excluded
  <2>2. in \subseteq DOMAIN scenarios /\ out \subseteq DOMAIN scenarios /\ in \cap out = {}
    OBVIOUS
  <2> HIDE DEF in, out
  <2>3. /\ DOMAIN Ids(scenarios, in) = in /\ \A i \in in : Ids(scenarios, in)[i] = scenarios[i].id
        /\ DOMAIN Ids(scenarios, out) = out /\ \A i \in out : Ids(scenarios, out)[i] = scenarios[i].id
    BY DEF Ids
  <2>4. IsInjective(Ids(scenarios, in)) /\ IsInjective(Ids(scenarios, out))
    BY <1>0, <2>2, <2>3 DEF IsInjective
  <2>5. ToSet(Ids(scenarios, in)) \cap ToSet(Ids(scenarios, out)) = {}
    BY <1>0, <2>2, <2>3 DEF ToSet
  <2> QED BY <2>1, <2>4, <2>5
<1> HIDE DEF groups
<1>5. IsInjective(groups) /\ ToSet(groups) = coverage[0].expected
  BY <1>0, <1>2
<1> QED BY <1>1, <1>3, <1>4, <1>5 DEF verify_scenarios, groups

(* The summaries of suites that were started alike and succeeded pass the  *)
(* check.                                                                  *)
LEMMA RegularSuitesVerify ==
  ASSUME SuiteInv, SuiteFateInv, kind = "suite", Regular
  PROVE  verify_integration(Summaries)
<1>1. /\ DOMAIN files = Shards(Count) /\ 0 \in Shards(Count) /\ Grid(0) # {}
      /\ GridInputs(0) /\ Count \in Nat \ {0}
  BY CountAssumption DEF Regular, SuiteInv, SuiteFateInv, SuiteFate, Shards
<1> DEFINE grid == shard[0].grid
           ids == ToSet(grid)
           shares == [i \in Shards(Count) |-> Stride(grid, i, Count)]
           inventory == [i \in Shards(Count) |-> Summaries[i].row.coverage.expected]
           assigned == [i \in Shards(Count) |-> Summaries[i].row.coverage.assigned]
<1>2. ids # {} /\ Partitions(shares, ids) /\ DOMAIN shares = Shards(Count)
  BY <1>1, StridePartitions DEF Grid, GridInputs
<1>3. ASSUME NEW j \in Shards(Count)
      PROVE  LET row == Summaries[j].row IN
             /\ Summaries[j] # Missing /\ Summaries[j].status = "passed"
             /\ Summaries[j].index = j /\ Summaries[j].count = Count
             /\ row.status = "passed" /\ row.coverage.index = j /\ row.coverage.count = Count
             /\ row.coverage.complete /\ row.coverage.scenarios = shard[0].scenarios
             /\ row.coverage.expected = ids /\ row.coverage.assigned = shares[j]
             /\ row.coverage.completed = row.coverage.assigned
             /\ row.coverage.inventory = Inventory(0) /\ Summaries[j].sound
  <2>1. Summaries[j] = files[j].summary /\ shares[j] = Stride(grid, j, Count)
    BY <1>1 DEF Summaries
  <2> QED BY <2>1, RegularSummary
<1>4. artifact_reports(Summaries)
  <2>1. DOMAIN Summaries = Shards(Count)
    BY <1>1 DEF Summaries
  <2>2. Artifacts(Summaries) = Shards(Count)
    BY <1>3, <2>1 DEF Artifacts
  <2> QED BY <1>3, <2>2 DEF artifact_reports
<1>5. verify_partition(inventory, assigned)
  <2>1. /\ DOMAIN inventory = Shards(Count) /\ DOMAIN assigned = Shards(Count)
        /\ \A i \in Shards(Count) : inventory[i] = ids /\ assigned[i] = shares[i]
    BY <1>3
  <2> HIDE DEF inventory, assigned, ids, shares
  <2> QED BY <1>2, <2>1, PartitionVerified
<1>6. \A i \in Shards(Count) :
        LET row == Summaries[i].row IN
        /\ row.status = "passed" /\ Summaries[i].sound
        /\ row.coverage.index = i /\ row.coverage.count = Count /\ row.coverage.complete
        /\ row.coverage.scenarios = Summaries[0].row.coverage.scenarios
        /\ row.coverage.completed = row.coverage.assigned
  BY <1>1, <1>3
<1>7. verify_scenarios([i \in Shards(Count) |-> Summaries[i].row.coverage])
  <2> DEFINE coverage == [i \in Shards(Count) |-> Summaries[i].row.coverage]
  <2>1. /\ DOMAIN coverage = Shards(Count) /\ 0 \in DOMAIN coverage
        /\ coverage[0].expected = Grid(0)
        /\ \A i \in DOMAIN coverage : coverage[i].inventory = Inventory(0)
    BY <1>1, <1>3 DEF Grid
  <2>2. DistinctIds(0)
    BY <1>1 DEF Regular, SuiteInv
  <2>3. GridInputs(0) /\ Grid(0) # {}
    BY <1>1
  <2> HIDE DEF coverage
  <2>4. verify_scenarios(coverage)
    BY <2>1, <2>2, <2>3, ScenariosVerified
  <2> QED BY <2>4 DEF coverage
<1> QED BY <1>4, <1>5, <1>6, <1>7 DEF verify_integration

-------------------------------------------------------------------------------
(* A red verdict is one on the reports as they still are.                  *)
RedInv ==
  /\ verdict \in {"none", "passed", "failed"}
  /\ verdict = "failed" =>
       /\ kind = "unit" => ~ verify_units(reports) /\ \A j \in DOMAIN unit : UnitDone(j)
       /\ kind = "suite" => ~ verify_integration(Summaries) /\ \A j \in DOMAIN runner : SuiteDone(j)

FateInv == CiInv /\ UnitFree /\ SuiteFree /\ UnitFateInv /\ SuiteFateInv /\ RedInv

(* The invariant of green and red verdicts holds at the start,             *)
LEMMA FateInit == Init => FateInv
<1> SUFFICES ASSUME Init PROVE FateInv
  OBVIOUS
<1>1. CiInv /\ UnitFateInv /\ SuiteFateInv
  BY InitInv, UnitFateInit, SuiteFateInit
<1>2. UnitFree /\ SuiteFree /\ RedInv
  BY DEF Init, UnitInit, SuiteInit, UnitFree, SuiteFree, RedInv
<1> QED BY <1>1, <1>2 DEF FateInv

(* every step keeps it,                                                    *)
LEMMA FateNext == FateInv /\ [Next]_vars => FateInv'
<1> SUFFICES ASSUME FateInv, [Next]_vars PROVE FateInv'
  OBVIOUS
<1>1. CiInv' /\ KindInv /\ UnitInv /\ SuiteInv
  BY NextInv DEF FateInv, CiInv
<1> USE DEF FateInv
<1>2. CASE \E j \in DOMAIN unit : UnitMoves(j)
  <2>1. PICK j \in DOMAIN unit : UnitMoves(j)
    BY <1>2
  <2>2. kind = "unit" /\ kind' = kind /\ verdict' = verdict /\ UnitStep(j)
    BY <2>1 DEF UnitMoves
  <2>3. UnitFateInv'
    BY <1>1, <2>2, UnitFateStep
  <2>4. verdict # "failed"
    BY <2>2, UnitDoneStops DEF RedInv
  <2>5. SuiteFree'
    BY <2>1 DEF UnitMoves, suiteVars, SuiteFree
  <2> QED BY <1>1, <2>2, <2>3, <2>4, <2>5 DEF UnitFree, SuiteFateInv, RedInv
<1>3. CASE \E j \in DOMAIN runner : SuiteMoves(j)
  <2>1. PICK j \in DOMAIN runner : SuiteMoves(j)
    BY <1>3
  <2>2. kind = "suite" /\ kind' = kind /\ verdict' = verdict /\ SuiteStep(j) /\ UNCHANGED unitVars
    BY <2>1 DEF SuiteMoves
  <2>3. SuiteFateInv'
    BY <1>1, <2>2, SuiteFateInvStep
  <2>4. RedInv'
    <3>1. SUFFICES ASSUME verdict = "failed"
                   PROVE  ~ verify_integration(Summaries)' /\ \A k \in DOMAIN runner' : SuiteDone(k)'
      BY <2>2 DEF RedInv
    <3>2. ~ verify_integration(Summaries) /\ \A k \in DOMAIN runner : SuiteDone(k)
      BY <2>2, <3>1 DEF RedInv
    <3>3. runner' = runner /\ Summaries' = Summaries
      BY <1>1, <2>2, <3>2, SuiteDoneStops
    <3> QED BY <3>2, <3>3 DEF SuiteDone
  <2>5. UnitFree' /\ SuiteFree' /\ UnitFateInv'
    BY <2>2 DEF UnitFree, SuiteFree, UnitFateInv, unitVars
  <2> QED BY <1>1, <2>3, <2>4, <2>5
<1>4. CASE Verify \/ UNCHANGED vars
  <2>1. UNCHANGED <<unitVars, suiteVars, kind>>
    BY <1>4 DEF Verify, vars
  <2>2. UnitFree' /\ SuiteFree' /\ UnitFateInv' /\ SuiteFateInv'
    <3>1. UnitFree' /\ SuiteFree'
      BY <2>1 DEF unitVars, suiteVars, UnitFree, SuiteFree
    <3>2. UnitFateInv'
      <4>1. SUFFICES ASSUME kind = "unit", NEW j \in DOMAIN unit PROVE (UnitInputs(j) /\ UnitFate(j))'
        BY <2>1 DEF unitVars, UnitFateInv
      <4>2. UnitInputs(j) /\ UnitFate(j) /\ unit' = unit /\ call' = call /\ reports' = reports
        BY <2>1, <4>1 DEF unitVars, UnitFateInv
      <4>3. FinishedReport(j)' = FinishedReport(j)
        BY <4>2 DEF FinishedReport, Filed, Report
      <4>4. UnitInputs(j)' /\ Allocated(j)' = Allocated(j)
        BY <4>2, AllocatedStays
      <4> QED BY <4>2, <4>3, <4>4 DEF UnitFate
    <3>3. SuiteFateInv'
      <4>1. SUFFICES ASSUME kind = "suite", NEW j \in DOMAIN shard PROVE SuiteFate(j)'
        BY <2>1 DEF suiteVars, SuiteFateInv
      <4>2. /\ SuiteFate(j) /\ shard' = shard /\ runner' = runner /\ suite' = suite /\ files' = files
        BY <2>1, <4>1 DEF suiteVars, SuiteFateInv
      <4>3. Assigned(j)' = Assigned(j) /\ \A completed : Coverage(j, completed)' = Coverage(j, completed)
        BY <4>2 DEF Assigned, Grid, Inventory, Coverage
      <4>4. FinishedSummary(j)' = FinishedSummary(j)
        BY <4>2 DEF FinishedSummary
      <4> QED BY <4>2, <4>3, <4>4 DEF SuiteFate, GridInputs, ReportFate, RowFate, SummaryFate, Reported, Succeeded
    <3> QED BY <3>1, <3>2, <3>3
  <2>3. RedInv'
    BY <1>4, <2>1 DEF Verify, vars, unitVars, suiteVars, RedInv, Summaries, UnitDone, SuiteDone
  <2> QED BY <1>1, <2>2, <2>3
<1> QED BY <1>2, <1>3, <1>4 DEF Next

(* and it refutes a red verdict on regular reports.                        *)
LEMMA FateGreen == FateInv => TrueIsGreen
<1> SUFFICES ASSUME FateInv, verdict # "none", Regular PROVE verdict = "passed"
  BY DEF TrueIsGreen
<1>1. UnitInv /\ SuiteInv /\ KindInv /\ UnitFateInv /\ SuiteFateInv /\ RedInv
  BY DEF FateInv, CiInv
<1>2. CASE kind = "unit"
  BY <1>1, <1>2, RegularUnitsVerify DEF RedInv
<1>3. CASE kind = "suite"
  BY <1>1, <1>3, RegularSuitesVerify DEF RedInv
<1> QED BY <1>1, <1>2, <1>3 DEF KindInv

(* check_ci_reports.py:53-121: the check is green whenever all shards were *)
(* started as it expects, from one checkout, and succeeded: for every      *)
(* number of shards and every inventory, empty shards included.            *)
THEOREM AlwaysTrueIsGreen == Spec => []TrueIsGreen
<1>1. FateInv /\ [Next]_vars => FateInv'
  BY FateNext
<1> QED BY <1>1, FateInit, FateGreen, PTL DEF Spec

(* run_unit_shard.py:34-59: whatever was measured, every test is allocated *)
(* to one shard, isolated tests to the first one only, and the others are  *)
(* even; matrix.py:296-303, lifecycle_matrix.py:493-504: every group falls *)
(* to one shard, evenly: for every inventory, grid and number of shards.   *)
THEOREM AlwaysAllocationSound == Spec => []AllocationSound
<1>1. FateInv /\ [Next]_vars => FateInv'
  BY FateNext
<1>2. FateInv => AllocationSound
  BY SoundTests, SoundGroups DEF FateInv, CiInv, AllocationSound
<1> QED BY <1>1, <1>2, FateInit, PTL DEF Spec

-------------------------------------------------------------------------------
(* Released snapshots.                                                     *)

(* All that a tagged commit holds is on the branch as that commit has it.  *)
Held == \A t \in Tagged : \A v \in released_snapshot_entries(tags[t]) : head[v] = tags[t][v]

NewestExists == Tagged # {} => \E n \in Versions : newest_reachable_release_tag(n)

(* Why the newest tag alone is a sufficient baseline: it was set on a      *)
(* branch that held what every earlier tag holds, so the tags agree.       *)
ReleaseInv == ReleaseTypeOK /\ NewestExists /\ Held /\ TagsCoherent

LEMMA ReleaseStart == ReleaseInit => ReleaseInv
<1>1. SUFFICES ASSUME ReleaseInit PROVE ReleaseInv
  OBVIOUS
<1>2. ReleaseTypeOK
  BY <1>1 DEF ReleaseInit, ReleaseTypeOK, NoSnapshots, Trees
<1>3. Tagged = {}
  BY <1>1 DEF ReleaseInit, Tagged
<1> QED BY <1>2, <1>3 DEF ReleaseInv, NewestExists, Held, TagsCoherent

LEMMA ChangeStep ==
  ASSUME ReleaseInv, NEW v \in Versions, NEW r \in SNAPSHOT_ROOTS,
         NEW content \in Revisions \cup {Absent}, Change(v, r, content)
  PROVE  ReleaseInv'
<1>1. UNCHANGED <<head, tags>> /\ work' \in Trees
  BY DEF Change, ReleaseInv, ReleaseTypeOK, Trees
<1> QED BY <1>1 DEF ReleaseInv, ReleaseTypeOK, NewestExists, Held, TagsCoherent, Tagged,
                   newest_reachable_release_tag

(* A merged tree agrees with the newest release on everything it holds,    *)
(* which is everything that any tagged commit holds.                       *)
LEMMA MergeStep == ASSUME ReleaseInv, Merge PROVE ReleaseInv'
<1>1. UNCHANGED <<work, tags>> /\ head' = work /\ run_all_checks(work)
  BY DEF Merge
<1>2. ReleaseTypeOK' /\ NewestExists' /\ TagsCoherent'
  BY <1>1 DEF ReleaseInv, ReleaseTypeOK, NewestExists, TagsCoherent, Tagged,
              newest_reachable_release_tag
<1>3. ASSUME NEW t \in Tagged, NEW v \in released_snapshot_entries(tags[t])
      PROVE  work[v] = tags[t][v]
  <2>1. PICK n \in Versions : newest_reachable_release_tag(n)
    BY <1>3 DEF ReleaseInv, NewestExists
  <2>2. n \in Tagged /\ (t = n \/ t < n)
    BY <1>3, <2>1, VersionsAssumption DEF newest_reachable_release_tag, Tagged
  <2>3. tags[n][v] = tags[t][v]
    BY <1>3, <2>2 DEF ReleaseInv, TagsCoherent
  <2>4. v \in released_snapshot_entries(tags[n])
    BY <1>3, <2>3 DEF released_snapshot_entries, Present
  <2>5. check_immutable_release(work, n)
    BY <1>1, <2>1, <2>2 DEF run_all_checks
  <2> QED BY <2>3, <2>4, <2>5 DEF check_immutable_release
<1>4. Held'
  BY <1>1, <1>3 DEF Held, Tagged
<1> QED BY <1>2, <1>4 DEF ReleaseInv

(* A new tag of the latest date takes over the baseline: the branch it is  *)
(* set on holds what all earlier tags hold.                                *)
LEMMA TagStep ==
  ASSUME InOrder, ReleaseInv, NEW v \in Versions, Tag(v)
  PROVE  ReleaseInv'
<1>1. /\ v \notin Tagged /\ UNCHANGED <<work, head>>
      /\ \A u \in Tagged : u < v
      /\ tags' = [tags EXCEPT ![v] = head]
  BY DEF Tag
<1>2. /\ tags' \in [Versions -> Trees \cup {Untagged}]
      /\ tags'[v] = head /\ head \in Trees
      /\ \A u \in Versions : u # v => tags'[u] = tags[u]
  BY <1>1 DEF ReleaseInv, ReleaseTypeOK
<1>3. ReleaseTypeOK'
  BY <1>1, <1>2 DEF ReleaseInv, ReleaseTypeOK
<1>4. Tagged' = Tagged \cup {v} /\ \A t \in Tagged : tags'[t] = tags[t]
  BY <1>1, <1>2, MarkersAssumption DEF Tagged
<1>5. NewestExists'
  <2>1. \A u \in Tagged : u \in Nat /\ v \in Nat
    BY VersionsAssumption DEF Tagged
  <2>2. newest_reachable_release_tag(v)'
    BY <1>1, <1>4, <2>1, VersionsAssumption DEF newest_reachable_release_tag
  <2> QED BY <2>2 DEF NewestExists
<1>6. \A t \in Tagged' : \A w \in released_snapshot_entries(tags'[t]) : head[w] = tags'[t][w]
  BY <1>2, <1>4 DEF ReleaseInv, Held
<1>7. Held'
  BY <1>1, <1>6 DEF Held
<1>8. TagsCoherent'
  <2>1. SUFFICES ASSUME NEW t \in Tagged', NEW u \in Tagged', t < u,
                        NEW w \in released_snapshot_entries(tags'[t])
                 PROVE  tags'[u][w] = tags'[t][w]
    BY DEF TagsCoherent
  <2>2. CASE u = v
    BY <1>2, <1>6, <2>1, <2>2
  <2>3. CASE u # v /\ t # v
    <3>1. t \in Tagged /\ u \in Tagged
      BY <1>4, <2>1, <2>3
    <3> QED BY <1>4, <2>1, <3>1 DEF ReleaseInv, TagsCoherent
  <2>4. CASE u # v /\ t = v
    <3>1. u < v /\ u \in Nat /\ v \in Nat
      BY <1>1, <1>4, <2>1, <2>4, VersionsAssumption DEF Tagged
    <3> QED BY <2>1, <2>4, <3>1
  <2> QED BY <2>2, <2>3, <2>4
<1> QED BY <1>3, <1>5, <1>7, <1>8 DEF ReleaseInv

THEOREM ReleaseInvariant == InOrder => (ReleaseSpec => []ReleaseInv)
<1>1. SUFFICES ASSUME InOrder PROVE ReleaseSpec => []ReleaseInv
  OBVIOUS
<1>2. ReleaseInv /\ [ReleaseNext]_releaseVars => ReleaseInv'
  <2>1. SUFFICES ASSUME ReleaseInv, [ReleaseNext]_releaseVars PROVE ReleaseInv'
    OBVIOUS
  <2>2. CASE UNCHANGED releaseVars
    BY <2>1, <2>2 DEF releaseVars, ReleaseInv, ReleaseTypeOK, NewestExists, Held,
                      TagsCoherent, Tagged, newest_reachable_release_tag
  <2> QED BY <1>1, <2>1, <2>2, ChangeStep, MergeStep, TagStep DEF ReleaseNext
<1> QED BY <1>2, ReleaseStart, PTL DEF ReleaseSpec

(* With tags in date order, a released snapshot stays on the branch as it  *)
(* was tagged, although only the newest tag is compared.                   *)
THEOREM ReleasedNeverChange == InOrder => (ReleaseSpec => []ReleasedUnchanged)
<1>1. SUFFICES ASSUME InOrder PROVE ReleaseSpec => []ReleasedUnchanged
  OBVIOUS
<1>2. ReleaseSpec => []ReleaseInv
  BY <1>1, ReleaseInvariant
<1>3. ReleaseInv => ReleasedUnchanged
  BY DEF ReleaseInv, Held, ReleasedUnchanged, Released, Tagged, released_snapshot_entries
<1> QED BY <1>2, <1>3, PTL

(* With tags in date order, the tagged commits agree on every snapshot     *)
(* that two of them hold, and none drops what an earlier one holds.        *)
THEOREM TagsAlwaysCoherent == InOrder => (ReleaseSpec => []TagsCoherent)
<1>1. SUFFICES ASSUME InOrder PROVE ReleaseSpec => []TagsCoherent
  OBVIOUS
<1>2. ReleaseSpec => []ReleaseInv
  BY <1>1, ReleaseInvariant
<1>3. ReleaseInv => TagsCoherent
  BY DEF ReleaseInv
<1> QED BY <1>2, <1>3, PTL
===============================================================================
