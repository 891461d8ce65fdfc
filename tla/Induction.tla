-------------------------------- MODULE Induction --------------------------------
(***************************************************************************)
(* Induction and recursion on natural numbers, without operator            *)
(* parameters: what is shown of all numbers is given as the set of the     *)
(* counterexamples, and what is defined step by step as a function.        *)
(***************************************************************************)
EXTENDS Integers, FiniteSets, FiniteSetTheorems, WellFoundedInduction, TLAPS

(* Every nonempty set of natural numbers has a least element.              *)
LEMMA LeastNatural ==
  ASSUME NEW S \in SUBSET Nat, S # {}
  PROVE  \E n \in S : \A m \in S : n <= m
<1>1. IsWellFoundedOn({p \in Nat \X Nat : p[1] < p[2]}, Nat)
  BY NatLessThanWellFounded DEF OpToRel
<1>2. PICK n \in S : \A m \in S : <<m, n>> \notin {p \in Nat \X Nat : p[1] < p[2]}
  BY <1>1, WFMin, Zenon
<1>3. \A m \in S : ~ (m < n)
  BY <1>2
<1> QED BY <1>3

(* Every nonempty set of numbers up to n has a greatest element.           *)
LEMMA GreatestNatural ==
  ASSUME NEW n \in Nat, NEW S \in SUBSET (0..n), S # {}
  PROVE  \E m \in S : \A k \in S : m >= k
<1> DEFINE Bounds == {b \in Nat : \A k \in S : b >= k}
<1>1. n \in Bounds /\ Bounds \in SUBSET Nat
  OBVIOUS
<1>2. PICK b \in Bounds : \A c \in Bounds : b <= c
  <2> HIDE DEF Bounds
  <2> QED BY <1>1, LeastNatural
<1>3. SUFFICES ASSUME b \notin S PROVE FALSE
  BY <1>2
<1>4. PICK k \in S : TRUE
  OBVIOUS
<1>5. k \in Nat /\ b \in Nat /\ b >= k /\ b # k
  BY <1>2, <1>3, <1>4
<1>6. b - 1 \in Nat
  BY <1>5
<1>7. ASSUME NEW j \in S PROVE b - 1 >= j
  <2>1. j \in Nat /\ b >= j /\ b # j
    BY <1>2, <1>3, <1>7
  <2> QED BY <1>5, <2>1
<1>8. b - 1 \in Bounds
  BY <1>6, <1>7
<1> QED BY <1>2, <1>5, <1>8

(* A set that holds 0 and with a number also the next one holds them all.  *)
LEMMA SetInduction ==
  ASSUME NEW S \in SUBSET Nat, 0 \in S, \A n \in S : n + 1 \in S
  PROVE  S = Nat
<1>1. SUFFICES ASSUME Nat \ S # {} PROVE FALSE
  OBVIOUS
<1>2. PICK n \in Nat \ S : \A m \in Nat \ S : n <= m
  BY <1>1, LeastNatural
<1>3. n # 0 /\ n - 1 \in Nat /\ (n - 1) + 1 = n
  BY <1>2
<1>4. n - 1 \in S
  BY <1>2, <1>3
<1> QED BY <1>2, <1>3, <1>4

(* A first value and a step determine a sequence of values.                *)
Iterates(f, V, base, step) ==
  f \in [Nat -> V] /\ f[0] = base /\ \A n \in Nat : f[n + 1] = step[n][f[n]]

LEMMA Recursion ==
  ASSUME NEW V, NEW base \in V, NEW step \in [Nat -> [V -> V]]
  PROVE  \E f : Iterates(f, V, base, step)
<1> DEFINE Follows(g, n) == g[0] = base /\ \A i \in 0..(n - 1) : g[i + 1] = step[i][g[i]]
           Start(n) == {g \in [0..n -> V] : Follows(g, n)}
<1>1. ASSUME NEW n \in Nat PROVE Start(n) # {}
  <2> DEFINE S == {k \in Nat : Start(k) # {}}
  <2>1. 0 \in S
    <3>1. [i \in 0..0 |-> base] \in Start(0)
      OBVIOUS
    <3> QED BY <3>1
  <2>2. ASSUME NEW k \in S PROVE k + 1 \in S
    <3>1. PICK g \in [0..k -> V] : Follows(g, k)
      BY <2>2
    <3>2. DEFINE h == [i \in 0..(k + 1) |-> IF i = k + 1 THEN step[k][g[k]] ELSE g[i]]
    <3>3. k \in Nat /\ g[k] \in V /\ step[k][g[k]] \in V
      BY <3>1, <2>2
    <3>4. h \in [0..(k + 1) -> V]
      BY <3>3
    <3>5. h[0] = base
      BY <3>1, <3>3
    <3>6. ASSUME NEW i \in 0..k PROVE h[i + 1] = step[i][h[i]]
      BY <3>1, <3>3
    <3> HIDE DEF h
    <3>7. h \in Start(k + 1)
      BY <3>3, <3>4, <3>5, <3>6
    <3> HIDE DEF Start
    <3>8. k + 1 \in Nat /\ Start(k + 1) # {}
      BY <3>3, <3>7
    <3> QED BY <3>8
  <2> HIDE DEF S
  <2>3. S = Nat
    <3>1. S \in SUBSET Nat
      BY DEF S
    <3> QED BY <2>1, <2>2, <3>1, SetInduction
  <2> QED BY <2>3 DEF S
<1>2. ASSUME NEW m \in Nat, NEW n \in Nat, m <= n, NEW g \in Start(m), NEW h \in Start(n)
      PROVE  g[m] = h[m]
  <2> DEFINE S == {k \in Nat : k <= m => g[k] = h[k]}
  <2>1. 0 \in S
    OBVIOUS
  <2>2. ASSUME NEW k \in S PROVE k + 1 \in S
    <3>1. SUFFICES ASSUME k + 1 <= m PROVE g[k + 1] = h[k + 1]
      BY <2>2
    <3>2. k \in Nat /\ k \in 0..(m - 1) /\ k \in 0..(n - 1) /\ g[k] = h[k]
      BY <2>2, <3>1, <1>2
    <3> QED BY <3>2
  <2> HIDE DEF S
  <2>3. S = Nat
    <3>1. S \in SUBSET Nat
      BY DEF S
    <3> QED BY <2>1, <2>2, <3>1, SetInduction
  <2> QED BY <2>3 DEF S
<1>3. DEFINE f == [n \in Nat |-> (CHOOSE g : g \in Start(n))[n]]
<1> HIDE DEF Start
<1>4. ASSUME NEW n \in Nat, NEW g \in Start(n) PROVE f[n] = g[n]
  <2>1. (CHOOSE h : h \in Start(n)) \in Start(n)
    BY <1>4
  <2> QED BY <1>2, <2>1
<1>5. f \in [Nat -> V]
  <2>1. ASSUME NEW n \in Nat PROVE f[n] \in V
    <3>1. PICK g : g \in Start(n)
      BY <1>1
    <3>2. g[n] \in V
      BY <3>1 DEF Start
    <3> QED BY <1>4, <3>1, <3>2
  <2> QED BY <2>1
<1> HIDE DEF f
<1>6. f[0] = base
  <2>1. PICK g : g \in Start(0)
    BY <1>1
  <2>2. g[0] = base
    BY <2>1 DEF Start
  <2> QED BY <1>4, <2>1, <2>2
<1>7. ASSUME NEW n \in Nat PROVE f[n + 1] = step[n][f[n]]
  <2>1. PICK g : g \in Start(n)
    BY <1>1
  <2>2. PICK h : h \in Start(n + 1)
    BY <1>1
  <2>3. f[n] = h[n] /\ f[n + 1] = h[n + 1]
    BY <1>2, <1>4, <2>1, <2>2
  <2>4. h[n + 1] = step[n][h[n]]
    BY <2>2 DEF Start
  <2> QED BY <2>3, <2>4
<1> QED BY <1>5, <1>6, <1>7 DEF Iterates

(* A first value and a step for every element determine a value for every  *)
(* part of a finite set, whose elements are taken one by one.              *)
Gathers(g, S, V, base, step, pick) ==
  /\ g \in [SUBSET S -> V]
  /\ \A s \in SUBSET S :
       g[s] = IF s = {} THEN base ELSE step[pick[s]][g[s \ {pick[s]}]]

LEMMA FiniteRecursion ==
  ASSUME NEW S, IsFiniteSet(S), NEW V, NEW base \in V, NEW step \in [S -> [V -> V]],
         NEW pick, \A s \in SUBSET S : s # {} => pick[s] \in s
  PROVE  \E g : Gathers(g, S, V, base, step, pick)
<1> DEFINE Values  == [SUBSET S -> V]
           Next(F) == [s \in SUBSET S |->
                         IF s = {} THEN base ELSE step[pick[s]][F[s \ {pick[s]}]]]
           start   == [s \in SUBSET S |-> base]
           steps   == [n \in Nat |-> [F \in Values |-> Next(F)]]
<1>1. start \in Values
  OBVIOUS
<1>2. ASSUME NEW F \in Values PROVE Next(F) \in Values
  <2>1. ASSUME NEW s \in SUBSET S, s # {} PROVE step[pick[s]][F[s \ {pick[s]}]] \in V
    <3>1. pick[s] \in S /\ s \ {pick[s]} \in SUBSET S
      BY <2>1
    <3>2. F[s \ {pick[s]}] \in V
      BY <3>1
    <3> QED BY <3>1, <3>2
  <2> QED BY <2>1
<1> HIDE DEF Next, start
<1>3. steps \in [Nat -> [Values -> Values]]
  BY <1>2
<1> HIDE DEF Values
<1>4. PICK f : Iterates(f, Values, start, steps)
  <2> HIDE DEF steps
  <2> QED BY <1>1, <1>3, Recursion
<1>5. ASSUME NEW n \in Nat PROVE f[n] \in Values /\ f[n + 1] = Next(f[n])
  BY <1>4 DEF Iterates
<1> DEFINE g == [s \in SUBSET S |-> f[Cardinality(s)][s]]
<1>6. ASSUME NEW s \in SUBSET S PROVE IsFiniteSet(s) /\ Cardinality(s) \in Nat
  BY FS_Subset, FS_CardinalityType
<1>7. g \in [SUBSET S -> V]
  <2>1. ASSUME NEW s \in SUBSET S PROVE f[Cardinality(s)][s] \in V
    BY <1>5, <1>6 DEF Values
  <2> QED BY <2>1
<1>8. ASSUME NEW s \in SUBSET S, s = {} PROVE g[s] = base
  <2>1. Cardinality(s) = 0
    BY <1>8, FS_EmptySet
  <2>2. f[0] = start
    BY <1>4 DEF Iterates
  <2> QED BY <2>1, <2>2 DEF start
<1>9. ASSUME NEW s \in SUBSET S, s # {} PROVE g[s] = step[pick[s]][g[s \ {pick[s]}]]
  <2> DEFINE t == s \ {pick[s]}
  <2>1. pick[s] \in s /\ t \in SUBSET S
    BY <1>9
  <2>2. Cardinality(s) = Cardinality(t) + 1 /\ Cardinality(t) \in Nat
    <3>1. Cardinality(t) = Cardinality(s) - 1
      BY <1>6, <2>1, FS_RemoveElement
    <3> QED BY <1>6, <2>1, <3>1
  <2> HIDE DEF t
  <2>3. f[Cardinality(s)] = Next(f[Cardinality(t)])
    BY <1>5, <2>2
  <2>4. g[s] = Next(f[Cardinality(t)])[s]
    BY <2>3
  <2>5. g[s] = step[pick[s]][f[Cardinality(t)][t]]
    BY <1>9, <2>4 DEF Next, t
  <2>6. g[t] = f[Cardinality(t)][t]
    BY <2>1
  <2> QED BY <2>5, <2>6 DEF t
<1> HIDE DEF g
<1> QED BY <1>7, <1>8, <1>9 DEF Gathers

(* A set of parts of a finite set that holds the empty part, and every part *)
(* that it holds without any one of its elements, holds all.                *)
LEMMA PartInduction ==
  ASSUME NEW S, IsFiniteSet(S), NEW P \in SUBSET (SUBSET S), {} \in P,
         \A s \in SUBSET S : s # {} /\ (\A x \in s : s \ {x} \in P) => s \in P
  PROVE  P = SUBSET S
<1> DEFINE Missed == {s \in SUBSET S : s \notin P}
           Sizes  == {Cardinality(s) : s \in Missed}
<1>1. ASSUME NEW s \in SUBSET S PROVE IsFiniteSet(s) /\ Cardinality(s) \in Nat
  BY FS_Subset, FS_CardinalityType
<1>2. SUFFICES ASSUME Missed # {} PROVE FALSE
  OBVIOUS
<1>3. Sizes \in SUBSET Nat /\ Sizes # {}
  BY <1>1, <1>2
<1>4. PICK n \in Sizes : \A m \in Sizes : n <= m
  <2> HIDE DEF Sizes
  <2> QED BY <1>3, LeastNatural
<1>5. PICK s \in Missed : Cardinality(s) = n
  BY <1>4
<1>6. s \in SUBSET S /\ s \notin P /\ s # {}
  BY <1>5
<1>7. PICK x \in s : s \ {x} \notin P
  BY <1>6
<1>8. Cardinality(s \ {x}) = n - 1 /\ n \in Nat
  BY <1>1, <1>5, <1>7, FS_RemoveElement
<1>9. n - 1 \in Sizes
  <2>1. s \ {x} \in Missed
    BY <1>6, <1>7
  <2> QED BY <1>8, <2>1
<1> QED BY <1>4, <1>8, <1>9
==================================================================================
