--------------------------- MODULE CapabilitiesProofs ---------------------------
(***************************************************************************)
(* Proofs about what applications put together with the generated SDKs:    *)
(* a host's declaration (HostCapabilities), for every catalogue that the   *)
(* compiler accepts, and a subscription (Subscriptions), for any events,   *)
(* timeouts and number of selectors.                                       *)
(*                                                                         *)
(* HostInv says what is so after every call: the Rust builder is what the  *)
(* record asks for, family by family, but for the order of its two lists,  *)
(* which have the record's members once each; and whatever was written to  *)
(* the TypeScript object, what it has for lists are lists.  From it the    *)
(* four wire forms are written out field by field.  SubscriptionInv says   *)
(* the same of the builder of subscriptions.                               *)
(***************************************************************************)
EXTENDS HostCapabilities, Subscriptions, Induction, SequenceTheorems, FiniteSetTheorems, TLAPS

-------------------------------------------------------------------------------
(* Lists that stand for sets.                                              *)

LEMMA RangeOfList ==
  ASSUME NEW V, NEW list \in Seq(V)
  PROVE  /\ Range(list) \subseteq V
         /\ \A x : Contains(list, x) <=> x \in Range(list)
         /\ list = <<>> <=> Range(list) = {}
<1>1. /\ Len(list) \in Nat /\ DOMAIN list = 1..Len(list)
      /\ \A i \in 1..Len(list) : list[i] \in V
  OBVIOUS
<1>2. Range(list) = {list[i] : i \in 1..Len(list)}
  BY <1>1 DEF Range
<1>3. Range(list) \subseteq V /\ \A x : Contains(list, x) <=> x \in Range(list)
  BY <1>1, <1>2 DEF Contains
<1>4. list = <<>> => Range(list) = {}
  BY <1>1, <1>2
<1>5. ASSUME Range(list) = {} PROVE list = <<>>
  <2>1. 1 \notin 1..Len(list)
    BY <1>2, <1>5
  <2>2. Len(list) = 0
    BY <1>1, <2>1
  <2> QED BY <2>2
<1> QED BY <1>3, <1>4, <1>5

(* A member that is lacking is added at the end.                           *)
Added(all, x) == IF Contains(all, x) THEN all ELSE Append(all, x)

LEMMA AddedFacts ==
  ASSUME NEW V, NEW all \in Seq(V), NEW x \in V
  PROVE  /\ Added(all, x) \in Seq(V)
         /\ Range(Added(all, x)) = Range(all) \cup {x}
         /\ IsInjective(all) => IsInjective(Added(all, x))
<1>1. CASE Contains(all, x)
  <2>1. x \in Range(all)
    BY <1>1, RangeOfList
  <2> QED BY <1>1, <2>1 DEF Added
<1>2. CASE ~ Contains(all, x)
  <2> DEFINE n == Len(all)
             more == Append(all, x)
  <2>1. /\ n \in Nat /\ DOMAIN all = 1..n
        /\ more \in Seq(V) /\ DOMAIN more = 1..(n + 1)
        /\ more[n + 1] = x /\ \A i \in 1..n : more[i] = all[i]
    OBVIOUS
  <2>2. 1..(n + 1) = 1..n \cup {n + 1}
    BY <2>1
  <2>3. Added(all, x) = more
    BY <1>2 DEF Added
  <2>4. \A i \in 1..n : all[i] # x
    BY <1>2, <2>1 DEF Contains
  <2> HIDE DEF more, n
  <2>5. Range(more) = Range(all) \cup {x}
    BY <2>1, <2>2 DEF Range
  <2>6. IsInjective(all) => IsInjective(more)
    BY <2>1, <2>2, <2>4 DEF IsInjective
  <2> QED BY <2>1, <2>3, <2>5, <2>6
<1> QED BY <1>1, <1>2

(* As long as no member comes twice, each is added.                        *)
Start(list, k) == [i \in 1..k |-> list[i]]

LEMMA StartFacts ==
  ASSUME NEW V, NEW list \in Seq(V)
  PROVE  /\ Start(list, 0) = <<>> /\ Start(list, Len(list)) = list
         /\ \A k \in 1..Len(list) :
              IsInjective(list) => Added(Start(list, k - 1), list[k]) = Start(list, k)
<1>1. Len(list) \in Nat /\ DOMAIN list = 1..Len(list) /\ list \in [1..Len(list) -> V]
  BY LenProperties
<1>2. \A k \in 0..Len(list) : /\ Start(list, k) \in Seq(V) /\ Len(Start(list, k)) = k
                              /\ \A i \in 1..k : Start(list, k)[i] = list[i]
  <2>1. SUFFICES ASSUME NEW k \in 0..Len(list)
                 PROVE  /\ Start(list, k) \in Seq(V) /\ Len(Start(list, k)) = k
                        /\ \A i \in 1..k : Start(list, k)[i] = list[i]
    OBVIOUS
  <2>2. k \in Nat /\ Start(list, k) \in [1..k -> V] /\ \A i \in 1..k : Start(list, k)[i] = list[i]
    BY <1>1 DEF Start
  <2>3. Start(list, k) \in Seq(V)
    BY <2>2, SeqDef
  <2>4. Len(Start(list, k)) = k
    BY <2>2, <2>3, LenProperties
  <2> QED BY <2>2, <2>3, <2>4
<1>3. Start(list, 0) = <<>>
  <2>1. 0 \in 0..Len(list)
    BY <1>1
  <2>2. Start(list, 0) \in Seq(V) /\ Len(Start(list, 0)) = 0
    BY <1>2, <2>1
  <2> QED BY <2>2, EmptySeq
<1>4. Start(list, Len(list)) = list
  BY <1>1 DEF Start
<1>5. ASSUME NEW k \in 1..Len(list), IsInjective(list)
      PROVE  Added(Start(list, k - 1), list[k]) = Start(list, k)
  <2> DEFINE s == Start(list, k - 1)
             x == list[k]
             new == Start(list, k)
  <2>1. k \in 1..Len(list) /\ k - 1 \in 0..Len(list) /\ k \in 0..Len(list) /\ k \in Nat /\ (k - 1) + 1 = k
    BY <1>1
  <2>2. s \in Seq(V) /\ Len(s) = k - 1 /\ \A i \in 1..(k - 1) : s[i] = list[i]
    BY <1>2, <2>1
  <2>3. new \in Seq(V) /\ Len(new) = k /\ \A i \in 1..k : new[i] = list[i]
    BY <1>2, <2>1
  <2>4. \A i \in 1..(k - 1) : list[i] # x
    BY <1>1, <1>5, <2>1 DEF IsInjective
  <2>5. x \in V
    BY <1>1, <2>1
  <2> HIDE DEF s, new, x
  <2>6. ~ Contains(s, x)
    BY <2>2, <2>4 DEF Contains
  <2>7. Added(s, x) = Append(s, x)
    BY <2>6 DEF Added
  <2>8. /\ Append(s, x) \in Seq(V) /\ Len(Append(s, x)) = k
        /\ \A i \in 1..(k - 1) : Append(s, x)[i] = s[i]
        /\ Append(s, x)[k] = x
    BY <2>1, <2>2, <2>5
  <2>9. new[k] = x
    BY <2>1, <2>3 DEF x
  <2>10. \A i \in 1..k : Append(s, x)[i] = new[i]
    <3>1. \A i \in 1..k : i = k \/ i \in 1..(k - 1)
      BY <2>1
    <3> QED BY <2>2, <2>3, <2>8, <2>9, <3>1
  <2>11. Append(s, x) = new
    BY <2>3, <2>8, <2>10, SeqEqual
  <2> QED BY <2>7, <2>11 DEF s, x, new
<1> QED BY <1>3, <1>4, <1>5

(* Extending a list adds what it lacks, and nothing twice.                 *)
LEMMA ExtendFacts ==
  ASSUME NEW V, NEW list \in Seq(V), NEW more \in Seq(V)
  PROVE  /\ Extend(list, more) \in Seq(V)
         /\ Range(Extend(list, more)) = Range(list) \cup Range(more)
         /\ IsInjective(list) => IsInjective(Extend(list, more))
         /\ list = <<>> /\ IsInjective(more) => Extend(list, more) = more
<1> DEFINE S    == 1..Len(more)
           pick == [s \in SUBSET S |-> Max(s)]
           W    == Seq(V)
           step == [i \in S |-> [all \in W |-> Added(all, more[i])]]
<1>1. Len(more) \in Nat /\ DOMAIN more = S /\ \A i \in S : more[i] \in V
  OBVIOUS
<1>2. IsFiniteSet(S)
  BY <1>1, FS_Interval
<1>3. ASSUME NEW s \in SUBSET S, s # {}
      PROVE  pick[s] = Max(s) /\ Max(s) \in s /\ \A k \in s : Max(s) >= k
  <2>1. s \in SUBSET (0..Len(more))
    BY <1>1
  <2>2. PICK m \in s : \A k \in s : m >= k
    <3> HIDE DEF S
    <3> QED BY <1>1, <1>3, <2>1, GreatestNatural
  <2> QED BY <2>2 DEF Max
<1>4. step \in [S -> [W -> W]]
  BY <1>1, AddedFacts
<1>5. PICK g : Gathers(g, S, W, list, step, pick)
  <2> HIDE DEF W, S, pick, step
  <2>1. list \in W
    BY DEF W
  <2> QED BY <1>2, <1>3, <1>4, <2>1, FiniteRecursion
<1>6. ASSUME NEW s \in SUBSET S
      PROVE  g[s] = IF s = {} THEN list ELSE Added(g[s \ {Max(s)}], more[Max(s)])
  <2>1. CASE s = {}
    BY <1>5, <2>1 DEF Gathers
  <2>2. CASE s # {}
    <3>1. g[s] = step[Max(s)][g[s \ {Max(s)}]]
      BY <1>3, <1>5, <2>2 DEF Gathers
    <3>2. Max(s) \in S /\ g[s \ {Max(s)}] \in W
      BY <1>3, <1>5, <2>2 DEF Gathers
    <3> HIDE DEF W, S
    <3> QED BY <2>2, <3>1, <3>2
  <2> QED BY <2>1, <2>2
<1> DEFINE Loop(f) == f = [s \in SUBSET S |-> IF s = {} THEN list
                             ELSE LET x == Max(s) IN Added(f[s \ {x}], more[x])]
           iter == CHOOSE f : Loop(f)
<1>7. Extend(list, more) = iter[S]
  BY <1>1 DEF Extend, FoldLeft, MapThenFoldSet, Added
<1>8. Loop([s \in SUBSET S |-> g[s]])
  <2> DEFINE f == [s \in SUBSET S |-> g[s]]
  <2>1. ASSUME NEW s \in SUBSET S
        PROVE  f[s] = IF s = {} THEN list ELSE LET x == Max(s) IN Added(f[s \ {x}], more[x])
    <3>1. f[s] = g[s] /\ f[s \ {Max(s)}] = g[s \ {Max(s)}]
      OBVIOUS
    <3> HIDE DEF f
    <3> QED BY <1>6, <3>1
  <2> HIDE DEF f, S
  <2>2. f = [s \in SUBSET S |-> f[s]]
    BY DEF f
  <2> QED BY <2>1, <2>2 DEF f
<1>9. Loop(iter)
  <2> HIDE DEF Loop
  <2> QED BY <1>8
<1> HIDE DEF iter
<1> DEFINE Right(s) == /\ iter[s] \in Seq(V)
                       /\ Range(iter[s]) = Range(list) \cup {more[i] : i \in s}
                       /\ IsInjective(list) => IsInjective(iter[s])
           P == {s \in SUBSET S : Right(s)}
<1>10. {} \in P
  BY <1>9
<1>11. ASSUME NEW s \in SUBSET S, s # {}, \A x \in s : s \ {x} \in P PROVE s \in P
  <2> DEFINE x == Max(s)
             t == s \ {x}
  <2>1. x \in s /\ t \in P /\ more[x] \in V
    BY <1>1, <1>3, <1>11
  <2>2. iter[s] = Added(iter[t], more[x])
    BY <1>9, <1>11
  <2>3. s = t \cup {x}
    BY <2>1
  <2> HIDE DEF x, t
  <2>4. Right(t)
    BY <2>1
  <2>5. {more[i] : i \in s} = {more[i] : i \in t} \cup {more[x]}
    BY <2>3
  <2>6. /\ iter[s] \in Seq(V)
        /\ Range(iter[s]) = Range(iter[t]) \cup {more[x]}
        /\ IsInjective(iter[t]) => IsInjective(iter[s])
    <3> DEFINE all == iter[t]
               y   == more[x]
    <3>1. all \in Seq(V) /\ y \in V
      BY <2>1, <2>4
    <3> HIDE DEF all, y, Right
    <3>2. /\ Added(all, y) \in Seq(V)
          /\ Range(Added(all, y)) = Range(all) \cup {y}
          /\ IsInjective(all) => IsInjective(Added(all, y))
      BY <3>1, AddedFacts
    <3> QED BY <2>2, <3>2 DEF all, y
  <2>7. Right(s)
    BY <2>4, <2>5, <2>6
  <2> QED BY <2>7
<1>12. S \in P
  <2>1. P \in SUBSET (SUBSET S)
    OBVIOUS
  <2> HIDE DEF P, S
  <2>2. P = SUBSET S
    BY <1>2, <1>10, <1>11, <2>1, PartInduction
  <2> QED BY <2>2
<1>13. Range(more) = {more[i] : i \in S}
  BY <1>1 DEF Range
<1>14. ASSUME list = <<>>, IsInjective(more) PROVE iter[S] = more
  <2> DEFINE Kept(s) == \A k \in 0..Len(more) : s = 1..k => iter[s] = Start(more, k)
             K == {s \in SUBSET S : Kept(s)}
  <2>1. {} \in K
    <3>1. iter[{}] = Start(more, 0)
      BY <1>9, <1>14, StartFacts
    <3>2. \A k \in 0..Len(more) : {} = 1..k => k = 0
      <4>1. \A k \in 0..Len(more) : k # 0 => 1 \in 1..k
        BY <1>1
      <4> QED BY <4>1
    <3> QED BY <3>1, <3>2
  <2>2. ASSUME NEW s \in SUBSET S, s # {}, \A x \in s : s \ {x} \in K PROVE s \in K
    <3>1. SUFFICES ASSUME NEW k \in 0..Len(more), s = 1..k PROVE iter[s] = Start(more, k)
      BY <2>2
    <3>2. k \in Nat /\ k \in s /\ k \in 1..Len(more) /\ k - 1 \in 0..Len(more)
          /\ s \ {k} = 1..(k - 1)
      BY <1>1, <2>2, <3>1
    <3>3. Max(s) = k
      <4>1. Max(s) \in s /\ Max(s) >= k
        BY <1>3, <2>2, <3>2
      <4> DEFINE m == Max(s)
      <4>2. m \in 1..k /\ m >= k
        BY <3>1, <4>1
      <4> HIDE DEF m
      <4>3. m = k
        BY <3>2, <4>2
      <4> QED BY <4>3 DEF m
    <3>4. iter[s] = Added(iter[s \ {k}], more[k])
      BY <1>9, <2>2, <3>3
    <3>5. iter[s \ {k}] = Start(more, k - 1)
      BY <2>2, <3>2
    <3>6. Added(Start(more, k - 1), more[k]) = Start(more, k)
      BY <1>14, <3>2, StartFacts
    <3> QED BY <3>4, <3>5, <3>6
  <2>3. S \in K
    <3>1. K \in SUBSET (SUBSET S)
      OBVIOUS
    <3> HIDE DEF K, S
    <3>2. K = SUBSET S
      BY <1>2, <2>1, <2>2, <3>1, PartInduction
    <3> QED BY <3>2
  <2>4. iter[S] = Start(more, Len(more))
    <3>1. Len(more) \in 0..Len(more)
      BY <1>1
    <3> QED BY <2>3, <3>1
  <2> QED BY <2>4, StartFacts
<1> QED BY <1>7, <1>12, <1>13, <1>14

(* The members of a finite set, listed.                                    *)
LEMMA ListedFacts ==
  ASSUME NEW V, IsFiniteSet(V)
  PROVE  SetToSeq(V) \in Seq(V) /\ IsInjective(SetToSeq(V)) /\ Range(SetToSeq(V)) = V
<1> DEFINE n == Cardinality(V)
           list == SetToSeq(V)
<1>1. n \in Nat /\ ExistsBijection(1..n, V)
  BY FS_CardinalityType
<1>2. \E f \in [1..n -> V] : IsInjective(f)
  BY <1>1 DEF ExistsBijection, Bijection, Injection
<1>3. list \in [1..n -> V] /\ IsInjective(list)
  BY <1>2 DEF SetToSeq
<1> HIDE DEF list
<1>4. IsFiniteSet(1..n) /\ Cardinality(1..n) = n
  BY <1>1, FS_Interval
<1>5. list \in Injection(1..n, V)
  BY <1>3 DEF Injection
<1>6. list \in Surjection(1..n, V)
  BY <1>4, <1>5, FS_Injection
<1>7. Range(list) = V
  BY <1>3, <1>6 DEF Range, Surjection
<1>8. list \in Seq(V)
  BY <1>1, <1>3, SeqDef
<1> QED BY <1>3, <1>7, <1>8 DEF list

LEMMA JoinedFacts ==
  ASSUME NEW V, NEW s \in Seq(V), NEW t \in Seq(V)
  PROVE  /\ s \o t \in Seq(V)
         /\ Range(s \o t) = Range(s) \cup Range(t)
         /\ IsInjective(s) /\ IsInjective(t) /\ Range(s) \cap Range(t) = {} => IsInjective(s \o t)
<1> DEFINE m == Len(s)
           n == Len(t)
           both == s \o t
<1>1. /\ m \in Nat /\ n \in Nat
      /\ DOMAIN s = 1..m /\ DOMAIN t = 1..n /\ DOMAIN both = 1..(m + n)
      /\ \A i \in 1..(m + n) : both[i] = IF i <= m THEN s[i] ELSE t[i - m]
  OBVIOUS
<1>2. both \in Seq(V)
  OBVIOUS
<1> HIDE DEF m, n, both
<1>3. ASSUME NEW x PROVE x \in Range(both) <=> x \in Range(s) \cup Range(t)
  <2>1. ASSUME NEW i \in 1..(m + n) PROVE both[i] \in Range(s) \cup Range(t)
    <3>1. CASE i <= m
      <4>1. i \in 1..m
        BY <1>1, <3>1
      <4> QED BY <1>1, <3>1, <4>1 DEF Range
    <3>2. CASE ~ (i <= m)
      <4>1. i - m \in 1..n
        BY <1>1, <3>2
      <4> QED BY <1>1, <3>2, <4>1 DEF Range
    <3> QED BY <3>1, <3>2
  <2>2. ASSUME NEW i \in 1..m PROVE i \in 1..(m + n) /\ both[i] = s[i]
    BY <1>1
  <2>3. ASSUME NEW i \in 1..n PROVE i + m \in 1..(m + n) /\ both[i + m] = t[i]
    BY <1>1
  <2>4. x \in Range(both) => x \in Range(s) \cup Range(t)
    BY <1>1, <2>1 DEF Range
  <2>5. x \in Range(s) => x \in Range(both)
    BY <1>1, <2>2 DEF Range
  <2>6. x \in Range(t) => x \in Range(both)
    BY <1>1, <2>3 DEF Range
  <2> QED BY <2>4, <2>5, <2>6
<1>4. ASSUME IsInjective(s), IsInjective(t), Range(s) \cap Range(t) = {} PROVE IsInjective(both)
  <2> SUFFICES ASSUME NEW a \in 1..(m + n), NEW b \in 1..(m + n), both[a] = both[b] PROVE a = b
    BY <1>1 DEF IsInjective
  <2>1. ASSUME NEW i \in 1..(m + n)
        PROVE  \/ i <= m /\ i \in 1..m /\ both[i] = s[i] /\ both[i] \in Range(s)
               \/ ~ (i <= m) /\ i - m \in 1..n /\ both[i] = t[i - m] /\ both[i] \in Range(t)
    <3>1. CASE i <= m
      <4>1. i \in 1..m /\ both[i] = s[i]
        BY <1>1, <3>1
      <4> QED BY <1>1, <3>1, <4>1 DEF Range
    <3>2. CASE ~ (i <= m)
      <4>1. i - m \in 1..n /\ both[i] = t[i - m]
        BY <1>1, <3>2
      <4> QED BY <1>1, <3>2, <4>1 DEF Range
    <3> QED BY <3>1, <3>2
  <2>2. CASE a <= m /\ b <= m
    <3>1. a \in DOMAIN s /\ b \in DOMAIN s /\ s[a] = s[b]
      BY <1>1, <2>1, <2>2
    <3> QED BY <1>4, <3>1 DEF IsInjective
  <2>3. CASE ~ (a <= m) /\ ~ (b <= m)
    <3>1. a - m \in DOMAIN t /\ b - m \in DOMAIN t /\ t[a - m] = t[b - m]
      BY <1>1, <2>1, <2>3
    <3>2. a - m = b - m
      BY <1>4, <3>1 DEF IsInjective
    <3> QED BY <1>1, <3>2
  <2>4. CASE a <= m /\ ~ (b <= m)
    BY <1>4, <2>1, <2>4
  <2>5. CASE ~ (a <= m) /\ b <= m
    BY <1>4, <2>1, <2>5
  <2> QED BY <2>2, <2>3, <2>4, <2>5
<1>5. Range(both) = Range(s) \cup Range(t)
  BY <1>3
<1> QED BY <1>2, <1>4, <1>5 DEF both

(* A member that is there or not.                                          *)
Perhaps(condition, x) == IF condition THEN <<x>> ELSE <<>>

LEMMA PerhapsFacts ==
  ASSUME NEW V, NEW condition, NEW x, condition => x \in V
  PROVE  /\ Perhaps(condition, x) \in Seq(V)
         /\ Range(Perhaps(condition, x)) = IF condition THEN {x} ELSE {}
         /\ IsInjective(Perhaps(condition, x))
<1>1. CASE condition
  <2>1. <<x>> \in Seq(V) /\ DOMAIN <<x>> = {1} /\ <<x>>[1] = x
    BY <1>1
  <2> QED BY <1>1, <2>1 DEF Perhaps, Range, IsInjective
<1>2. CASE ~ condition
  <2>1. <<>> \in Seq(V) /\ DOMAIN <<>> = {}
    OBVIOUS
  <2> QED BY <1>2, <2>1 DEF Perhaps, Range, IsInjective
<1> QED BY <1>1, <1>2

LEMMA OrderedFacts ==
  ASSUME NEW V, NEW list \in Seq(V), NEW first
  PROVE  /\ Ordered(list, first) \in Seq(V)
         /\ Range(Ordered(list, first)) = Range(list)
         /\ IsInjective(Ordered(list, first))
<1> DEFINE head == Perhaps(Contains(list, first), first)
<1>1. Contains(list, first) => first \in Range(list) /\ first \in V
  BY RangeOfList
<1>2. head \in Seq(V) /\ Range(head) \subseteq Range(list) /\ IsInjective(head)
  BY <1>1, PerhapsFacts
<1>3. Ordered(list, first) = Extend(head, list)
  BY DEF Ordered, Perhaps
<1> HIDE DEF head
<1>4. /\ Extend(head, list) \in Seq(V)
      /\ Range(Extend(head, list)) = Range(head) \cup Range(list)
      /\ IsInjective(head) => IsInjective(Extend(head, list))
  BY <1>2, ExtendFacts
<1> QED BY <1>2, <1>3, <1>4

-------------------------------------------------------------------------------
(* The inductive invariant: what the Rust builder holds follows from what  *)
(* the record asks for, but for the order of the two lists.                *)
Asks(a) ==
  /\ a \in [observe : BOOLEAN, controls : SUBSET Controls,
            modify : [DOMAIN rule.modify -> SUBSET ModifyOperations],
            flow : {None} \cup FlowGrants(SUBSET rule.flow), delivery : Seq(rule.delivery),
            elicitation : SUBSET rule.elicitation]
  /\ a.observe => rule.observe
  /\ IsInjective(a.delivery)

Families(a) ==
  a.controls \cup (IF Granted(a) # {} THEN {"modify"} ELSE {})
    \cup (IF a.flow # None THEN {"flow"} ELSE {})
    \cup (IF a.delivery # <<>> THEN {"inject"} ELSE {})

Masks(a) == [t \in Granted(a) |-> [op \in ModifyOperations |-> op \in a.modify[t]]]

Counted(flow) == Contains(flow.operations, "continue") => flow.remaining # None /\ flow.count # None

SameFlow(built, flow) ==
  /\ flow = None => built = None
  /\ flow # None => /\ built \in FlowGrants(Seq(rule.flow))
                    /\ built.operations # <<>> /\ IsInjective(built.operations) /\ Counted(built)
                    /\ flow = [built EXCEPT !.operations = Range(@)]

SameDelivery(built, delivery) ==
  /\ delivery = <<>> => built = None
  /\ delivery # <<>> => /\ built \in Seq(rule.delivery) /\ IsInjective(built)
                        /\ Range(built) = Range(delivery)

Built(state, a) ==
  /\ DOMAIN state = {"observe", "effects", "modify", "flow", "inject", "elicitation"}
  /\ state.observe = a.observe /\ state.effects = Families(a)
  /\ state.modify = Masks(a) /\ state.elicitation = a.elicitation
  /\ SameFlow(state.flow, a.flow)
  /\ SameDelivery(state.inject, a.delivery)

(* Whatever others wrote to the object, its lists are lists.               *)
Words == rule.flow \cup rule.delivery \cup {"stop", "continue", "now", Foreign}

ShapedFlows ==
  [operations : Seq(Words), remaining : Counts \cup {None, Bad},
   count : Counts \cup {None, Bad}, most : Counts \cup {None, Bad}]

ShapedGrants(g) ==
  /\ g.flow # None => g.flow \in ShapedFlows
  /\ g.inject # None => g.inject.deliverAt \in Seq(Words)

Shaped(o) == o.grants # None => ShapedGrants(o.grants)

HostInv ==
  /\ event \in DOMAIN Catalogue /\ rule = Catalogue[event]
  /\ Asks(asked) /\ Built(builder, asked) /\ Shaped(object)

LEMMA RuleFacts == HostInv => Compiled(rule) /\ Present(rule) /\ Bad \notin BOOLEAN
BY CatalogueAssumption, NoneAssumption, BadAssumption DEF HostInv

(* A record that nothing was added to.                                     *)
LEMMA InitAsks ==
  ASSUME Compiled(rule), Present(rule)
  PROVE  Asks(Unasked) /\ Built(Fresh, Unasked)
<1>1. Asks(Unasked)
  <2>1. <<>> \in Seq(rule.delivery) /\ DOMAIN <<>> = {}
    OBVIOUS
  <2>2. IsInjective(<<>>)
    BY <2>1 DEF IsInjective
  <2> QED BY <2>1, <2>2 DEF Asks, Unasked
<1>2. Granted(Unasked) = {}
  BY DEF Granted, Unasked
<1>3. Families(Unasked) = {} /\ Masks(Unasked) = [t \in {} |-> {}]
  <2>1. Unasked.controls = {} /\ Unasked.flow = None /\ Unasked.delivery = <<>>
    BY DEF Unasked
  <2> QED BY <1>2, <2>1 DEF Families, Masks
<1>4. SameFlow(None, None) /\ SameDelivery(None, <<>>)
  BY DEF SameFlow, SameDelivery
<1>5. Built(Fresh, Unasked)
  BY <1>3, <1>4 DEF Built, Fresh, Unasked
<1> QED BY <1>1, <1>5

(* A list of deliveries is put in order, and extended.                     *)
LEMMA StepInject ==
  ASSUME Compiled(rule), Present(rule), Asks(asked), Built(builder, asked),
         NEW delivery \in NonEmptySubsets(rule.delivery)
  PROVE  LET a == [asked EXCEPT !.delivery = Extend(@, SetToSeq(delivery))]
         IN  Asks(a) /\ Built(AddInject(builder, SetToSeq(delivery)), a)
<1> DEFINE V    == rule.delivery
           list == SetToSeq(delivery)
           a    == [asked EXCEPT !.delivery = Extend(@, list)]
           old  == asked.delivery
           new  == Extend(old, list)
           bold == builder.inject
           all  == IF bold = None THEN list ELSE Extend(list, bold)
           bnew == Ordered(all, "now")
<1>1. IsFiniteSet(delivery) /\ delivery \subseteq V /\ delivery # {}
  <2>1. delivery \in SUBSET V /\ delivery # {}
    BY DEF NonEmptySubsets
  <2>2. IsFiniteSet(V)
    BY DEF Compiled
  <2> QED BY <2>1, <2>2, FS_Subset
<1>2. list \in Seq(V) /\ IsInjective(list) /\ Range(list) = delivery
  <2>1. list \in Seq(delivery) /\ IsInjective(list) /\ Range(list) = delivery
    BY <1>1, ListedFacts
  <2> HIDE DEF list
  <2> QED BY <1>1, <2>1, SeqMonotonic
<1>3. old \in Seq(V) /\ IsInjective(old)
  BY DEF Asks
<1> HIDE DEF list
<1>4. new \in Seq(V) /\ IsInjective(new) /\ Range(new) = Range(old) \cup delivery
  <2>1. /\ Extend(old, list) \in Seq(V)
        /\ Range(Extend(old, list)) = Range(old) \cup Range(list)
        /\ IsInjective(old) => IsInjective(Extend(old, list))
    BY <1>2, <1>3, ExtendFacts
  <2> QED BY <1>2, <1>3, <2>1
<1>5. new # <<>>
  <2>1. Range(new) # {}
    BY <1>1, <1>4
  <2> QED BY <1>4, <2>1, RangeOfList
<1>6. all \in Seq(V) /\ Range(all) = Range(old) \cup delivery
  <2>1. CASE old = <<>>
    <3>1. bold = None
      BY <2>1 DEF Built, SameDelivery
    <3>2. Range(old) = {}
      BY <1>3, <2>1, RangeOfList
    <3> QED BY <1>2, <3>1, <3>2
  <2>2. CASE old # <<>>
    <3>1. bold \in Seq(V) /\ Range(bold) = Range(old)
      BY <2>2 DEF Built, SameDelivery
    <3>2. bold # None
      BY <3>1 DEF Present
    <3>3. Extend(list, bold) \in Seq(V) /\ Range(Extend(list, bold)) = Range(list) \cup Range(bold)
      BY <1>2, <3>1, ExtendFacts
    <3> QED BY <1>2, <3>1, <3>2, <3>3
  <2> QED BY <2>1, <2>2
<1> HIDE DEF all
<1>7. bnew \in Seq(V) /\ IsInjective(bnew) /\ Range(bnew) = Range(new)
  BY <1>4, <1>6, OrderedFacts
<1>8. SameDelivery(bnew, new)
  BY <1>5, <1>7 DEF SameDelivery
<1> HIDE DEF new, bnew
<1>9. a = [asked EXCEPT !.delivery = new]
  BY DEF new
<1> HIDE DEF a
<1>10. Asks(a)
  BY <1>4, <1>9 DEF Asks
<1>11. /\ a.observe = asked.observe /\ a.controls = asked.controls /\ a.modify = asked.modify
       /\ a.flow = asked.flow /\ a.delivery = new /\ a.elicitation = asked.elicitation
  BY <1>9 DEF Asks
<1>12. Granted(a) = Granted(asked) /\ Masks(a) = Masks(asked)
  BY <1>11 DEF Granted, Masks
<1>13. Families(a) = Families(asked) \cup {"inject"}
  BY <1>5, <1>11, <1>12 DEF Families
<1>14. AddInject(builder, list) = [builder EXCEPT !.effects = @ \cup {"inject"}, !.inject = bnew]
  BY DEF AddInject, bnew, all
<1>15. Built([builder EXCEPT !.effects = @ \cup {"inject"}, !.inject = bnew], a)
  <2> DEFINE state == [builder EXCEPT !.effects = @ \cup {"inject"}, !.inject = bnew]
  <2>1. /\ DOMAIN builder = {"observe", "effects", "modify", "flow", "inject", "elicitation"}
        /\ builder.observe = asked.observe /\ builder.effects = Families(asked)
        /\ builder.modify = Masks(asked) /\ builder.elicitation = asked.elicitation
        /\ SameFlow(builder.flow, asked.flow)
    BY DEF Built
  <2>2. /\ DOMAIN state = DOMAIN builder /\ state.observe = builder.observe
        /\ state.effects = builder.effects \cup {"inject"} /\ state.modify = builder.modify
        /\ state.flow = builder.flow /\ state.inject = bnew /\ state.elicitation = builder.elicitation
    BY <2>1
  <2> HIDE DEF state
  <2>3. Built(state, a)
    BY <1>8, <1>11, <1>12, <1>13, <2>1, <2>2 DEF Built
  <2> QED BY <2>3 DEF state
<1> QED BY <1>10, <1>14, <1>15 DEF a, new, list

LEMMA FlowFacts ==
  ASSUME NEW S, NEW flow \in FlowGrants(S)
  PROVE  /\ flow.operations \in S /\ flow.remaining \in Counts \cup {None}
         /\ flow.count \in Counts \cup {None} /\ flow.most \in Counts \cup {None}
         /\ flow = Flow(flow.operations, flow.remaining, flow.count, flow.most)
         /\ \A operations :
              LET new == [flow EXCEPT !.operations = operations]
              IN  /\ new = Flow(operations, flow.remaining, flow.count, flow.most)
                  /\ \A T : operations \in T => new \in FlowGrants(T)
BY DEF FlowGrants, Flow

LEMMA FlowFields ==
  ASSUME NEW o, NEW r, NEW c, NEW m
  PROVE  LET flow == Flow(o, r, c, m)
         IN  flow.operations = o /\ flow.remaining = r /\ flow.count = c /\ flow.most = m
BY DEF Flow

LEMMA FlowIsGrant ==
  ASSUME NEW S, NEW o \in S, NEW r \in Counts \cup {None}, NEW c \in Counts \cup {None},
         NEW m \in Counts \cup {None}
  PROVE  Flow(o, r, c, m) \in FlowGrants(S)
BY DEF Flow, FlowGrants

LEMMA ShortLists ==
  ASSUME NEW V, NEW x \in V, NEW y \in V
  PROVE  <<x>> \in Seq(V) /\ <<x>> # <<>> /\ <<x, y>> \in Seq(V) /\ <<x, y>> # <<>>
<1>1. <<x>> \in Seq(V) /\ <<x, y>> \in Seq(V)
  OBVIOUS
<1>2. Len(<<x>>) = 1 /\ Len(<<x, y>>) = 2
  OBVIOUS
<1>3. <<>> \in Seq(V) /\ Len(<<>>) = 0
  BY EmptySeq
<1> QED BY <1>1, <1>2, <1>3

LEMMA GrantFacts ==
  ASSUME Present(rule), NEW grant \in StopGrant \cup ContinueGrants
  PROVE  grant \in FlowGrants(Seq(rule.flow)) /\ grant.operations # <<>> /\ Counted(grant)
<1> DEFINE V == rule.flow
<1>1. None \notin Counts
  BY DEF Present
<1>2. CASE grant \in StopGrant
  <2>1. grant = Flow(<<"stop">>, None, None, None) /\ "stop" \in V
    BY <1>2 DEF StopGrant
  <2>2. <<"stop">> \in Seq(V) /\ <<"stop">> # <<>>
    BY <2>1, ShortLists
  <2>3. ~ Contains(<<"stop">>, "continue")
    BY DEF Contains
  <2>4. grant \in FlowGrants(Seq(V))
    BY <2>1, <2>2, FlowIsGrant
  <2>5. grant.operations = <<"stop">>
    BY <2>1, FlowFields
  <2> QED BY <2>2, <2>3, <2>4, <2>5 DEF Counted
<1>3. CASE grant \in ContinueGrants
  <2>1. "continue" \in V
    BY <1>3 DEF ContinueGrants
  <2>2. PICK operations \in {<<"continue">>} \cup {<<"stop", "continue">> : op \in V \cap {"stop"}},
             remaining \in Counts, count \in Counts, most \in Counts \cup {None} :
          grant = Flow(operations, remaining, count, most)
    BY <1>3, <2>1 DEF ContinueGrants
  <2>3. operations \in Seq(V) /\ operations # <<>>
    <3>1. CASE operations = <<"continue">>
      BY <2>1, <3>1, ShortLists
    <3>2. CASE operations # <<"continue">>
      <4>1. operations = <<"stop", "continue">> /\ "stop" \in V
        BY <2>2, <3>2
      <4> QED BY <2>1, <4>1, ShortLists
    <3> QED BY <3>1, <3>2
  <2>4. grant \in FlowGrants(Seq(V))
    BY <2>2, <2>3, FlowIsGrant
  <2>5. /\ grant.operations = operations /\ grant.remaining = remaining /\ grant.count = count
    BY <2>2, FlowFields
  <2> QED BY <1>1, <2>2, <2>3, <2>4, <2>5 DEF Counted
<1> QED BY <1>2, <1>3

(* Flow grants are combined: the operations of all of them, and the counts *)
(* of the last that named them.                                            *)
FlowOf(old, grant) ==
  LET all == IF old = None THEN grant
             ELSE Flow(Extend(grant.operations, old.operations), Or(grant.remaining, old.remaining),
                       Or(grant.count, old.count), Or(grant.most, old.most))
  IN  [all EXCEPT !.operations = Ordered(@, "stop")]

LEMMA OrFacts ==
  ASSUME NEW new \in Counts \cup {None}, NEW old \in Counts \cup {None}
  PROVE  /\ Or(new, old) \in Counts \cup {None}
         /\ new # None \/ old # None => Or(new, old) # None
BY DEF Or

LEMMA FlowStep ==
  ASSUME Present(rule), NEW grant \in StopGrant \cup ContinueGrants,
         NEW built, NEW flow, SameFlow(built, flow)
  PROVE  /\ SameFlow(FlowOf(built, grant), Combined(flow, grant))
         /\ Combined(flow, grant) \in FlowGrants(SUBSET rule.flow)
         /\ Combined(flow, grant) # None
<1> DEFINE V == rule.flow
           W == Seq(V)
           N == FlowOf(built, grant)
           C == Combined(flow, grant)
<1>1. grant \in FlowGrants(W) /\ grant.operations # <<>> /\ Counted(grant)
  BY GrantFacts
<1>2. None \notin FlowGrants(W) /\ None \notin FlowGrants(SUBSET V)
  BY DEF Present
<1>3. /\ grant.operations \in W /\ grant.remaining \in Counts \cup {None}
      /\ grant.count \in Counts \cup {None} /\ grant.most \in Counts \cup {None}
      /\ Range(grant.operations) \subseteq V /\ Range(grant.operations) # {}
  BY <1>1, FlowFacts, RangeOfList
<1>4. PICK all \in FlowGrants(W) :
        /\ N = [all EXCEPT !.operations = Ordered(@, "stop")]
        /\ C = Flow(Range(all.operations), all.remaining, all.count, all.most)
        /\ all.operations # <<>> /\ Counted(all)
  <2>1. CASE flow = None
    <3>1. built = None
      BY <2>1 DEF SameFlow
    <3>2. N = [grant EXCEPT !.operations = Ordered(@, "stop")]
      BY <3>1 DEF FlowOf
    <3> DEFINE z == Flow({}, None, None, None)
    <3>3. C = Flow(z.operations \cup Range(grant.operations), Or(grant.remaining, z.remaining),
                   Or(grant.count, z.count), Or(grant.most, z.most))
      BY <2>1 DEF Combined
    <3>4. z.operations = {} /\ z.remaining = None /\ z.count = None /\ z.most = None
      BY FlowFields
    <3>5. \A x : Or(x, None) = x
      BY DEF Or
    <3>6. C = Flow(Range(grant.operations), grant.remaining, grant.count, grant.most)
      BY <3>3, <3>4, <3>5
    <3> QED BY <1>1, <3>2, <3>6
  <2>2. CASE flow # None
    <3>1. /\ built \in FlowGrants(W) /\ built.operations # <<>> /\ Counted(built)
          /\ flow = [built EXCEPT !.operations = Range(@)]
      BY <2>2 DEF SameFlow
    <3>2. built # None
      BY <1>2, <3>1
    <3>3. /\ built.operations \in W /\ built.remaining \in Counts \cup {None}
          /\ built.count \in Counts \cup {None} /\ built.most \in Counts \cup {None}
          /\ flow = Flow(Range(built.operations), built.remaining, built.count, built.most)
      BY <3>1, FlowFacts
    <3> DEFINE o == Extend(grant.operations, built.operations)
               r == Or(grant.remaining, built.remaining)
               c == Or(grant.count, built.count)
               m == Or(grant.most, built.most)
               all == Flow(o, r, c, m)
    <3>4. N = [all EXCEPT !.operations = Ordered(@, "stop")]
      BY <3>2 DEF FlowOf
    <3>5. o \in W /\ Range(o) = Range(built.operations) \cup Range(grant.operations)
      BY <1>3, <3>3, ExtendFacts
    <3>6. r \in Counts \cup {None} /\ c \in Counts \cup {None} /\ m \in Counts \cup {None}
      BY <1>3, <3>3, OrFacts
    <3>7. /\ flow.operations = Range(built.operations) /\ flow.remaining = built.remaining
          /\ flow.count = built.count /\ flow.most = built.most
      BY <3>3, FlowFields
    <3>8. C = Flow(Range(built.operations) \cup Range(grant.operations), r, c, m)
      BY <2>2, <3>7 DEF Combined
    <3>9. o # <<>>
      BY <1>3, <3>5, RangeOfList
    <3>10. Contains(o, "continue") => r # None /\ c # None
      <4>1. ASSUME Contains(o, "continue")
            PROVE  Contains(built.operations, "continue") \/ Contains(grant.operations, "continue")
        BY <1>3, <3>3, <3>5, <4>1, RangeOfList
      <4> QED BY <1>1, <1>3, <3>1, <3>3, <4>1, OrFacts DEF Counted
    <3> HIDE DEF o, r, c, m
    <3>11. all.operations = o /\ all.remaining = r /\ all.count = c /\ all.most = m
      BY FlowFields
    <3>12. all \in FlowGrants(W)
      BY <3>5, <3>6, FlowIsGrant
    <3> HIDE DEF all
    <3>13. Counted(all)
      BY <3>10, <3>11 DEF Counted
    <3>14. C = Flow(Range(o), r, c, m)
      BY <3>5, <3>8
    <3> QED BY <3>4, <3>9, <3>11, <3>12, <3>13, <3>14
  <2> QED BY <2>1, <2>2
<1> DEFINE L == Ordered(all.operations, "stop")
<1>5. /\ all.operations \in W /\ all.remaining \in Counts \cup {None}
      /\ all.count \in Counts \cup {None} /\ all.most \in Counts \cup {None}
      /\ N = Flow(L, all.remaining, all.count, all.most)
  BY <1>4, FlowFacts
<1>6. L \in W /\ Range(L) = Range(all.operations) /\ IsInjective(L)
  BY <1>5, OrderedFacts
<1>7. Range(L) \subseteq V /\ Range(L) # {} /\ L # <<>>
  BY <1>4, <1>5, <1>6, RangeOfList
<1> HIDE DEF L, N, C
<1>8. N.operations = L /\ N.remaining = all.remaining /\ N.count = all.count /\ N.most = all.most
  BY <1>5, FlowFields
<1>9. N \in FlowGrants(W)
  BY <1>5, <1>6, FlowIsGrant
<1>10. Counted(N)
  <2>1. Contains(L, "continue") => Contains(all.operations, "continue")
    BY <1>5, <1>6, RangeOfList
  <2> QED BY <1>4, <1>8, <2>1 DEF Counted
<1>11. C \in FlowGrants(SUBSET V)
  <2>1. Range(all.operations) \in SUBSET V
    BY <1>6, <1>7
  <2> QED BY <1>4, <1>5, <2>1, FlowIsGrant
<1>12. C = [N EXCEPT !.operations = Range(@)]
  <2>1. [N EXCEPT !.operations = Range(@)] = Flow(Range(N.operations), N.remaining, N.count, N.most)
    BY <1>9, FlowFacts
  <2> QED BY <1>4, <1>6, <1>8, <2>1
<1>13. C # None
  BY <1>2, <1>11
<1>14. SameFlow(N, C)
  BY <1>6, <1>7, <1>8, <1>9, <1>10, <1>12, <1>13 DEF SameFlow
<1> QED BY <1>11, <1>13, <1>14 DEF N, C

LEMMA StepFlow ==
  ASSUME Compiled(rule), Present(rule), Asks(asked), Built(builder, asked),
         NEW grant \in StopGrant \cup ContinueGrants
  PROVE  LET a == [asked EXCEPT !.flow = Combined(@, grant)]
         IN  Asks(a) /\ Built(AddFlow(builder, grant), a)
<1> DEFINE new  == Combined(asked.flow, grant)
           a    == [asked EXCEPT !.flow = new]
           bnew == FlowOf(builder.flow, grant)
           state == [builder EXCEPT !.effects = @ \cup {"flow"}, !.flow = bnew]
<1>1. SameFlow(builder.flow, asked.flow)
  BY DEF Built
<1>2. SameFlow(bnew, new) /\ new \in FlowGrants(SUBSET rule.flow) /\ new # None
  BY <1>1, FlowStep
<1>3. AddFlow(builder, grant) = state
  BY DEF AddFlow, FlowOf
<1> HIDE DEF new, bnew
<1>4. Asks(a)
  BY <1>2 DEF Asks
<1>5. /\ a.observe = asked.observe /\ a.controls = asked.controls /\ a.modify = asked.modify
      /\ a.flow = new /\ a.delivery = asked.delivery /\ a.elicitation = asked.elicitation
  BY DEF Asks
<1> HIDE DEF a
<1>6. Granted(a) = Granted(asked) /\ Masks(a) = Masks(asked)
  BY <1>5 DEF Granted, Masks
<1>7. Families(a) = Families(asked) \cup {"flow"}
  BY <1>2, <1>5, <1>6 DEF Families
<1>8. /\ DOMAIN builder = {"observe", "effects", "modify", "flow", "inject", "elicitation"}
      /\ builder.observe = asked.observe /\ builder.effects = Families(asked)
      /\ builder.modify = Masks(asked) /\ builder.elicitation = asked.elicitation
      /\ SameDelivery(builder.inject, asked.delivery)
  BY DEF Built
<1>9. /\ DOMAIN state = DOMAIN builder /\ state.observe = builder.observe
      /\ state.effects = builder.effects \cup {"flow"} /\ state.modify = builder.modify
      /\ state.flow = bnew /\ state.inject = builder.inject /\ state.elicitation = builder.elicitation
  BY <1>8
<1> HIDE DEF state
<1>10. Built(state, a)
  BY <1>2, <1>5, <1>6, <1>7, <1>8, <1>9 DEF Built
<1> QED BY <1>3, <1>4, <1>10 DEF a, new

(* A grant for a target adds to what was granted for it before.            *)
LEMMA StepModify ==
  ASSUME Compiled(rule), Present(rule), Asks(asked), Built(builder, asked),
         NEW target \in DOMAIN rule.modify, NEW operations \in NonEmptySubsets(rule.modify[target])
  PROVE  LET a == [asked EXCEPT !.modify[target] = @ \cup operations]
         IN  Asks(a) /\ Built(AddModify(builder, target, operations), a)
<1> DEFINE M    == asked.modify
           new  == [M EXCEPT ![target] = @ \cup operations]
           a    == [asked EXCEPT !.modify = new]
           grant == ModifyGrant(target, operations)
           old  == IF target \in DOMAIN builder.modify THEN builder.modify[target]
                                                       ELSE [op \in DOMAIN grant |-> FALSE]
           mask == [op \in DOMAIN grant |-> old[op] \/ grant[op]]
           bnew == Put(builder.modify, target, mask)
           state == [builder EXCEPT !.effects = @ \cup {"modify"}, !.modify = bnew]
<1>1. /\ rule.modify[target] = ModifyOperations
      /\ operations \subseteq ModifyOperations /\ operations # {}
  BY DEF NonEmptySubsets, Compiled
<1>2. M \in [DOMAIN rule.modify -> SUBSET ModifyOperations]
  BY DEF Asks
<1>3. new \in [DOMAIN rule.modify -> SUBSET ModifyOperations]
  BY <1>1, <1>2
<1>4. \A t \in DOMAIN rule.modify : new[t] = IF t = target THEN M[t] \cup operations ELSE M[t]
  BY <1>2
<1>5. grant = [op \in ModifyOperations |-> op \in operations] /\ DOMAIN grant = ModifyOperations
  BY <1>1 DEF ModifyGrant
<1>6. AddModify(builder, target, operations) = state
  BY DEF AddModify
<1>7. /\ DOMAIN builder = {"observe", "effects", "modify", "flow", "inject", "elicitation"}
      /\ builder.observe = asked.observe /\ builder.effects = Families(asked)
      /\ builder.modify = Masks(asked) /\ builder.elicitation = asked.elicitation
      /\ SameFlow(builder.flow, asked.flow) /\ SameDelivery(builder.inject, asked.delivery)
  BY DEF Built
<1>8. Granted(asked) = {t \in DOMAIN rule.modify : M[t] # {}}
  BY <1>2 DEF Granted
<1>9. DOMAIN builder.modify = Granted(asked)
      /\ \A t \in Granted(asked) : builder.modify[t] = [op \in ModifyOperations |-> op \in M[t]]
  BY <1>7 DEF Masks
<1>10. a = [asked EXCEPT !.modify[target] = @ \cup operations]
  BY DEF Asks
<1> HIDE DEF new, grant
<1>11. Asks(a)
  BY <1>3 DEF Asks
<1>12. /\ a.observe = asked.observe /\ a.controls = asked.controls /\ a.modify = new
       /\ a.flow = asked.flow /\ a.delivery = asked.delivery /\ a.elicitation = asked.elicitation
  BY DEF Asks
<1>13. old = [op \in ModifyOperations |-> op \in M[target]]
  <2>1. CASE target \in Granted(asked)
    BY <1>9, <2>1
  <2>2. CASE target \notin Granted(asked)
    <3>1. M[target] = {}
      BY <1>8, <2>2
    <3>2. old = [op \in ModifyOperations |-> FALSE]
      BY <1>5, <1>9, <2>2
    <3>3. \A op \in ModifyOperations : (op \in M[target]) = FALSE
      BY <3>1
    <3> QED BY <3>2, <3>3, Zenon
  <2> QED BY <2>1, <2>2
<1>14. mask = [op \in ModifyOperations |-> op \in new[target]]
  <2>1. ASSUME NEW op \in ModifyOperations
        PROVE  (old[op] \/ grant[op]) = (op \in new[target])
    <3>1. old[op] = (op \in M[target]) /\ grant[op] = (op \in operations)
      <4> HIDE DEF old
      <4> QED BY <1>5, <1>13, Zenon
    <3>2. op \in new[target] <=> op \in M[target] \/ op \in operations
      BY <1>4
    <3>3. (op \in new[target]) = (op \in M[target] \/ op \in operations)
      BY <3>2
    <3> HIDE DEF old, M
    <3> QED BY <3>1, <3>3, Zenon
  <2> HIDE DEF old
  <2>2. mask = [op \in ModifyOperations |-> old[op] \/ grant[op]]
    BY <1>5
  <2> QED BY <2>1, <2>2, Zenon
<1> HIDE DEF mask, old, a
<1>15. Granted(a) = Granted(asked) \cup {target}
  <2>1. Granted(a) = {t \in DOMAIN rule.modify : new[t] # {}}
    BY <1>3, <1>12 DEF Granted
  <2>2. ASSUME NEW t \in DOMAIN rule.modify PROVE new[t] # {} <=> M[t] # {} \/ t = target
    BY <1>1, <1>4
  <2> QED BY <1>8, <2>1, <2>2
<1>16. bnew = Masks(a)
  <2>1. bnew = [t \in Granted(a) |-> IF t = target THEN mask ELSE builder.modify[t]]
    BY <1>9, <1>15 DEF Put
  <2>2. ASSUME NEW t \in Granted(a)
        PROVE  (IF t = target THEN mask ELSE builder.modify[t]) = [op \in ModifyOperations |-> op \in a.modify[t]]
    <3>1. CASE t = target
      BY <1>12, <1>14, <3>1
    <3>2. CASE t # target
      <4>1. t \in Granted(asked) /\ t \in DOMAIN rule.modify
        BY <1>8, <1>15, <3>2, <2>2
      <4>2. new[t] = M[t]
        BY <1>4, <3>2, <4>1
      <4> QED BY <1>9, <1>12, <3>2, <4>1, <4>2
    <3> QED BY <3>1, <3>2
  <2> HIDE DEF bnew
  <2> QED BY <2>1, <2>2, Zenon DEF Masks
<1> HIDE DEF bnew
<1>17. Families(a) = Families(asked) \cup {"modify"}
  BY <1>12, <1>15 DEF Families
<1>18. /\ DOMAIN state = DOMAIN builder /\ state.observe = builder.observe
       /\ state.effects = builder.effects \cup {"modify"} /\ state.modify = bnew
       /\ state.flow = builder.flow /\ state.inject = builder.inject /\ state.elicitation = builder.elicitation
  BY <1>7
<1> HIDE DEF state
<1>19. Built(state, a)
  BY <1>7, <1>12, <1>16, <1>17, <1>18 DEF Built
<1> QED BY <1>6, <1>10, <1>11, <1>19

LEMMA StepObserve ==
  ASSUME Asks(asked), Built(builder, asked), rule.observe
  PROVE  LET a == [asked EXCEPT !.observe = TRUE]
         IN  Asks(a) /\ Built([builder EXCEPT !.observe = TRUE], a)
<1> DEFINE a == [asked EXCEPT !.observe = TRUE]
           state == [builder EXCEPT !.observe = TRUE]
<1>1. Asks(a)
  BY DEF Asks
<1>2. /\ a.observe = TRUE /\ a.controls = asked.controls /\ a.modify = asked.modify
      /\ a.flow = asked.flow /\ a.delivery = asked.delivery /\ a.elicitation = asked.elicitation
  BY DEF Asks
<1> HIDE DEF a
<1>3. Families(a) = Families(asked) /\ Masks(a) = Masks(asked)
  BY <1>2 DEF Families, Masks, Granted
<1>4. /\ DOMAIN state = DOMAIN builder /\ state.observe = TRUE
      /\ state.effects = builder.effects /\ state.modify = builder.modify
      /\ state.flow = builder.flow /\ state.inject = builder.inject /\ state.elicitation = builder.elicitation
  BY DEF Built
<1> HIDE DEF state
<1>5. Built(state, a)
  BY <1>2, <1>3, <1>4 DEF Built
<1> QED BY <1>1, <1>5 DEF a, state

LEMMA StepControl ==
  ASSUME Asks(asked), Built(builder, asked), NEW control \in Controls
  PROVE  LET a == [asked EXCEPT !.controls = @ \cup {control}]
         IN  Asks(a) /\ Built([builder EXCEPT !.effects = @ \cup {control}], a)
<1> DEFINE a == [asked EXCEPT !.controls = @ \cup {control}]
           state == [builder EXCEPT !.effects = @ \cup {control}]
<1>1. Asks(a)
  BY DEF Asks
<1>2. /\ a.observe = asked.observe /\ a.controls = asked.controls \cup {control}
      /\ a.modify = asked.modify
      /\ a.flow = asked.flow /\ a.delivery = asked.delivery /\ a.elicitation = asked.elicitation
  BY DEF Asks
<1> HIDE DEF a
<1>3. Granted(a) = Granted(asked) /\ Masks(a) = Masks(asked)
  BY <1>2 DEF Masks, Granted
<1>4. Families(a) = Families(asked) \cup {control}
  BY <1>2, <1>3 DEF Families
<1>5. /\ DOMAIN state = DOMAIN builder /\ state.observe = builder.observe
      /\ state.effects = builder.effects \cup {control} /\ state.modify = builder.modify
      /\ state.flow = builder.flow /\ state.inject = builder.inject /\ state.elicitation = builder.elicitation
  BY DEF Built
<1> HIDE DEF state
<1>6. Built(state, a)
  BY <1>2, <1>3, <1>4, <1>5 DEF Built
<1> QED BY <1>1, <1>6 DEF a, state

LEMMA StepElicit ==
  ASSUME Asks(asked), Built(builder, asked), NEW mode \in rule.elicitation
  PROVE  LET a == [asked EXCEPT !.elicitation = @ \cup {mode}]
         IN  Asks(a) /\ Built([builder EXCEPT !.elicitation = @ \cup {mode}], a)
<1> DEFINE a == [asked EXCEPT !.elicitation = @ \cup {mode}]
           state == [builder EXCEPT !.elicitation = @ \cup {mode}]
<1>1. Asks(a)
  BY DEF Asks
<1>2. /\ a.observe = asked.observe /\ a.controls = asked.controls /\ a.modify = asked.modify
      /\ a.flow = asked.flow /\ a.delivery = asked.delivery
      /\ a.elicitation = asked.elicitation \cup {mode}
  BY DEF Asks
<1> HIDE DEF a
<1>3. Families(a) = Families(asked) /\ Masks(a) = Masks(asked)
  BY <1>2 DEF Families, Masks, Granted
<1>4. /\ DOMAIN state = DOMAIN builder /\ state.observe = builder.observe
      /\ state.effects = builder.effects /\ state.modify = builder.modify
      /\ state.flow = builder.flow /\ state.inject = builder.inject
      /\ state.elicitation = builder.elicitation \cup {mode}
  BY DEF Built
<1> HIDE DEF state
<1>5. Built(state, a)
  BY <1>2, <1>3, <1>4 DEF Built
<1> QED BY <1>1, <1>5 DEF a, state

(* A flow that is asked for is written as a list.                          *)
LEMMA FlowListFacts ==
  ASSUME NEW operations \in SUBSET {"stop", "continue"}
  PROVE  /\ FlowList(operations) \in Seq(operations)
         /\ Range(FlowList(operations)) = operations
         /\ IsInjective(FlowList(operations))
<1> DEFINE s == Perhaps("continue" \in operations, "continue")
           t == Perhaps("stop" \in operations, "stop")
<1>1. s \in Seq(operations) /\ IsInjective(s)
      /\ Range(s) = IF "continue" \in operations THEN {"continue"} ELSE {}
  BY PerhapsFacts
<1>2. t \in Seq(operations) /\ IsInjective(t)
      /\ Range(t) = IF "stop" \in operations THEN {"stop"} ELSE {}
  BY PerhapsFacts
<1>3. FlowList(operations) = s \o t
  BY DEF FlowList, Perhaps
<1> HIDE DEF s, t
<1>4. Range(s) \cap Range(t) = {} /\ Range(s) \cup Range(t) = operations
  BY <1>1, <1>2
<1>5. /\ s \o t \in Seq(operations) /\ Range(s \o t) = Range(s) \cup Range(t)
      /\ IsInjective(s \o t)
  BY <1>1, <1>2, <1>4, JoinedFacts
<1> QED BY <1>3, <1>4, <1>5

LEMMA RecordFlowFacts ==
  ASSUME Compiled(rule), NEW a, Asks(a), a.flow # None
  PROVE  /\ RecordFlow(a) \in FlowGrants(Seq(rule.flow))
         /\ RecordFlow(a) = Flow(FlowList(a.flow.operations), a.flow.remaining, a.flow.count, a.flow.most)
         /\ FlowList(a.flow.operations) \in Seq(rule.flow)
         /\ Range(FlowList(a.flow.operations)) = a.flow.operations
         /\ IsInjective(FlowList(a.flow.operations))
<1> DEFINE f == a.flow
<1>1. f \in FlowGrants(SUBSET rule.flow)
  BY DEF Asks
<1>2. f.operations \in SUBSET rule.flow /\ rule.flow \subseteq {"stop", "continue"}
  BY <1>1, FlowFacts DEF Compiled
<1>3. /\ FlowList(f.operations) \in Seq(rule.flow)
      /\ Range(FlowList(f.operations)) = f.operations /\ IsInjective(FlowList(f.operations))
  BY <1>2, FlowListFacts, SeqMonotonic
<1>4. RecordFlow(a) = [f EXCEPT !.operations = FlowList(f.operations)]
  BY DEF RecordFlow
<1> HIDE DEF f
<1>5. /\ RecordFlow(a) = Flow(FlowList(f.operations), f.remaining, f.count, f.most)
      /\ RecordFlow(a) \in FlowGrants(Seq(rule.flow))
  BY <1>1, <1>3, <1>4, FlowFacts
<1> QED BY <1>3, <1>5 DEF f

(* An object is made of lists, and whoever writes to it once leaves lists. *)
LEMMA ObjectShaped ==
  ASSUME Compiled(rule), Present(rule), NEW a, Asks(a)
  PROVE  Shaped(ObjectOf(a))
<1> DEFINE o == ObjectOf(a)
           g == o.grants
<1>1. SUFFICES ASSUME g # None PROVE ShapedGrants(g)
  BY DEF Shaped
<1>2. /\ g.flow = RecordFlow(a)
      /\ g.inject = IF a.delivery = <<>> THEN None ELSE [append |-> TRUE, deliverAt |-> a.delivery]
  BY <1>1 DEF ObjectOf
<1> HIDE DEF o
<1>3. ASSUME g.flow # None PROVE g.flow \in ShapedFlows
  <2>1. a.flow # None
    BY <1>2, <1>3 DEF RecordFlow
  <2>2. g.flow \in FlowGrants(Seq(rule.flow))
    BY <1>2, <2>1, RecordFlowFacts
  <2>3. \A list \in Seq(rule.flow) : list \in Seq(Words)
    BY SeqMonotonic DEF Words
  <2> HIDE DEF g
  <2> QED BY <2>2, <2>3 DEF FlowGrants, ShapedFlows
<1>4. ASSUME g.inject # None PROVE g.inject.deliverAt \in Seq(Words)
  <2>1. g.inject.deliverAt = a.delivery
    BY <1>2, <1>4
  <2>2. a.delivery \in Seq(rule.delivery)
    BY DEF Asks
  <2>3. a.delivery \in Seq(Words)
    BY <2>2, SeqMonotonic DEF Words
  <2> QED BY <2>1, <2>3
<1> QED BY <1>3, <1>4 DEF ShapedGrants

LEMMA SpoiledShaped ==
  ASSUME NEW base, DOMAIN base = {"controls", "modify", "flow", "inject", "elicitation", "foreign"},
         ShapedGrants(base), NEW g \in SpoiledGrants(base), g # None, None \notin Counts
  PROVE  ShapedGrants(g)
<1>1. CASE g = NoGrants
  BY <1>1 DEF NoGrants, ShapedGrants
<1>2. CASE g.flow = base.flow /\ g.inject = base.inject
  BY <1>2 DEF ShapedGrants
<1>3. ASSUME NEW f \in SpoiledFlow(base), g = [base EXCEPT !.flow = f] PROVE ShapedGrants(g)
  <2> DEFINE old == Writable(base.flow)
  <2>1. old \in ShapedFlows
    <3>1. <<>> \in Seq(Words)
      BY EmptySeq
    <3> QED BY <3>1 DEF Writable, Flow, ShapedFlows, ShapedGrants
  <2> HIDE DEF old
  <2>2. \/ \E ops \in {<<>>, <<"stop">>, <<"continue", "continue">>, <<Foreign>>} :
             f = [old EXCEPT !.operations = ops]
        \/ \E part \in {"remaining", "count", "most"} : \E v \in Counts \cup {None, Bad} :
             f = [old EXCEPT ![part] = v]
    BY <1>3 DEF SpoiledFlow, old
  <2>3. ASSUME NEW ops \in {<<>>, <<"stop">>, <<"continue", "continue">>, <<Foreign>>},
               f = [old EXCEPT !.operations = ops]
        PROVE  f \in ShapedFlows
    <3>1. "stop" \in Words /\ "continue" \in Words /\ Foreign \in Words
      BY DEF Words
    <3>2. /\ <<>> \in Seq(Words) /\ <<"stop">> \in Seq(Words)
          /\ <<"continue", "continue">> \in Seq(Words) /\ <<Foreign>> \in Seq(Words)
      BY <3>1, EmptySeq, ShortLists
    <3>3. ops \in Seq(Words)
      BY <3>2
    <3> QED BY <2>1, <2>3, <3>3 DEF ShapedFlows
  <2>4. ASSUME NEW part \in {"remaining", "count", "most"}, NEW v \in Counts \cup {None, Bad},
               f = [old EXCEPT ![part] = v]
        PROVE  f \in ShapedFlows
    <3>1. CASE part = "remaining"
      BY <2>1, <2>4, <3>1 DEF ShapedFlows
    <3>2. CASE part = "count"
      BY <2>1, <2>4, <3>2 DEF ShapedFlows
    <3>3. CASE part = "most"
      BY <2>1, <2>4, <3>3 DEF ShapedFlows
    <3> QED BY <3>1, <3>2, <3>3
  <2>5. f \in ShapedFlows
    BY <2>2, <2>3, <2>4
  <2>6. g.flow = f /\ g.inject = base.inject
    BY <1>3
  <2> QED BY <2>5, <2>6 DEF ShapedGrants
<1>4. ASSUME NEW i \in SpoiledInject, g = [base EXCEPT !.inject = i] PROVE ShapedGrants(g)
  <2>1. "now" \in Words /\ Foreign \in Words
    BY DEF Words
  <2>2. /\ <<>> \in Seq(Words) /\ <<"now">> \in Seq(Words)
        /\ <<"now", "now">> \in Seq(Words) /\ <<Foreign>> \in Seq(Words)
    BY <2>1, EmptySeq, ShortLists
  <2>3. PICK append \in {TRUE, Bad}, list \in {<<>>, <<"now">>, <<"now", "now">>, <<Foreign>>} :
          i = [append |-> append, deliverAt |-> list]
    <3> DEFINE A == {TRUE, Bad}
               L == {<<>>, <<"now">>, <<"now", "now">>, <<Foreign>>}
    <3>1. i \in {[append |-> a, deliverAt |-> list] : a \in A, list \in L}
      BY <1>4 DEF SpoiledInject
    <3> HIDE DEF A, L
    <3>2. \E append \in A, list \in L : i = [append |-> append, deliverAt |-> list]
      BY <3>1
    <3> QED BY <3>2 DEF A, L
  <2>4. i.deliverAt \in Seq(Words)
    BY <2>2, <2>3
  <2>5. g.flow = base.flow /\ g.inject = i
    BY <1>4
  <2> QED BY <2>4, <2>5 DEF ShapedGrants
<1>5. /\ [base EXCEPT !.foreign = {Foreign}].flow = base.flow
      /\ [base EXCEPT !.foreign = {Foreign}].inject = base.inject
  OBVIOUS
<1>6. \A x : /\ [base EXCEPT !.controls = x].flow = base.flow /\ [base EXCEPT !.controls = x].inject = base.inject
             /\ [base EXCEPT !.modify = x].flow = base.flow /\ [base EXCEPT !.modify = x].inject = base.inject
             /\ [base EXCEPT !.elicitation = x].flow = base.flow
             /\ [base EXCEPT !.elicitation = x].inject = base.inject
  OBVIOUS
<1> QED BY <1>1, <1>2, <1>3, <1>4, <1>5, <1>6 DEF SpoiledGrants

LEMMA InitInv == Init => HostInv
<1> SUFFICES ASSUME Init PROVE HostInv
  OBVIOUS
<1>1. event \in DOMAIN Catalogue /\ rule = Catalogue[event] /\ builder = Fresh /\ asked = Unasked
  BY DEF Init
<1>2. Compiled(rule) /\ Present(rule)
  BY <1>1, CatalogueAssumption, NoneAssumption
<1>3. Asks(Unasked) /\ Built(Fresh, Unasked)
  BY <1>2, InitAsks
<1>4. Asks(asked) /\ Built(builder, asked)
  BY <1>1, <1>3
<1>5. Shaped(object)
  BY <1>2, <1>4, ObjectShaped DEF Init
<1> QED BY <1>1, <1>4, <1>5 DEF HostInv

(* A declaration that keeps the record and the builder in step keeps the   *)
(* invariant.                                                              *)
LEMMA DeclareInv ==
  ASSUME HostInv, NEW state, NEW record, Asks(record), Built(state, record),
         Declare(state, record)
  PROVE  HostInv'
<1>1. builder' = state /\ asked' = record /\ object' = ObjectOf(record) /\ event' = event /\ rule' = rule
  BY DEF Declare
<1>2. Compiled(rule) /\ Present(rule)
  BY RuleFacts
<1>3. Shaped(ObjectOf(record))
  BY <1>2, ObjectShaped
<1>4. Asks(asked)' /\ Built(builder, asked)' /\ Shaped(object)'
  <2>1. Asks(asked)'
    BY <1>1 DEF Asks, Controls, FlowGrants
  <2>2. Built(builder, asked)'
    BY <1>1 DEF Built, SameFlow, SameDelivery, FlowGrants, Counted
  <2>3. Shaped(object)'
    BY <1>1, <1>3 DEF Shaped, ShapedGrants, ShapedFlows, Words
  <2> QED BY <2>1, <2>2, <2>3
<1> QED BY <1>1, <1>4 DEF HostInv

LEMMA SpoilInv ==
  ASSUME HostInv, Spoil PROVE HostInv'
<1> DEFINE base == IF object.grants = None THEN NoGrants ELSE object.grants
<1>1. Compiled(rule) /\ Present(rule) /\ None \notin Counts
  BY RuleFacts DEF Present
<1>2. /\ object = ObjectOf(asked) /\ builder' = builder /\ asked' = asked
      /\ event' = event /\ rule' = rule
  BY DEF Spoil
<1>3. Shaped(object)
  BY DEF HostInv
<1>4. DOMAIN object = {"observe", "grants"}
  BY <1>2 DEF ObjectOf
<1>5. DOMAIN base = {"controls", "modify", "flow", "inject", "elicitation", "foreign"}
      /\ ShapedGrants(base)
  <2>1. CASE object.grants = None
    BY <2>1 DEF NoGrants, ShapedGrants
  <2>2. CASE object.grants # None
    BY <1>2, <1>3, <2>2 DEF Shaped, ObjectOf
  <2> QED BY <2>1, <2>2
<1> HIDE DEF base
<1>6. \/ \E v : object' = [object EXCEPT !.observe = v]
      \/ \E g \in SpoiledGrants(base) : object' = [object EXCEPT !.grants = g]
  BY DEF Spoil, base
<1>7. \A g \in SpoiledGrants(base) : g # None => ShapedGrants(g)
  BY <1>1, <1>5, SpoiledShaped
<1>8. \/ object'.grants = object.grants
      \/ object'.grants \in SpoiledGrants(base)
  BY <1>4, <1>6
<1>9. object'.grants # None => ShapedGrants(object'.grants)
  BY <1>3, <1>7, <1>8 DEF Shaped
<1>10. Shaped(object)'
  BY <1>2, <1>9 DEF Shaped, ShapedGrants, ShapedFlows, Words
<1>11. Asks(asked)'
  BY <1>2 DEF HostInv, Asks, Controls, FlowGrants
<1>12. Built(builder, asked)'
  BY <1>2 DEF HostInv, Built, SameFlow, SameDelivery, FlowGrants, Counted
<1> QED BY <1>2, <1>10, <1>11, <1>12 DEF HostInv

LEMMA StepInv == HostInv /\ [Next]_vars => HostInv'
<1> SUFFICES ASSUME HostInv, [Next]_vars PROVE HostInv'
  OBVIOUS
<1>1. Compiled(rule) /\ Present(rule) /\ Asks(asked) /\ Built(builder, asked)
  BY RuleFacts DEF HostInv
<1>2. CASE Observe
  BY <1>1, <1>2, StepObserve, DeclareInv DEF Observe
<1>3. CASE GrantControl
  <2>1. PICK control \in Controls :
          Declare([builder EXCEPT !.effects = @ \cup {control}], [asked EXCEPT !.controls = @ \cup {control}])
    BY <1>3 DEF GrantControl
  <2> QED BY <1>1, <2>1, StepControl, DeclareInv
<1>4. CASE GrantModify
  <2>1. PICK target \in DOMAIN rule.modify : \E operations \in NonEmptySubsets(rule.modify[target]) :
          Declare(AddModify(builder, target, operations), [asked EXCEPT !.modify[target] = @ \cup operations])
    BY <1>4 DEF GrantModify
  <2>2. PICK operations \in NonEmptySubsets(rule.modify[target]) :
          Declare(AddModify(builder, target, operations), [asked EXCEPT !.modify[target] = @ \cup operations])
    BY <2>1
  <2> QED BY <1>1, <2>2, StepModify, DeclareInv
<1>5. CASE GrantFlow
  <2>1. PICK grant \in StopGrant \cup ContinueGrants :
          Declare(AddFlow(builder, grant), [asked EXCEPT !.flow = Combined(@, grant)])
    BY <1>5 DEF GrantFlow
  <2> QED BY <1>1, <2>1, StepFlow, DeclareInv
<1>6. CASE Inject
  <2>1. PICK delivery \in NonEmptySubsets(rule.delivery) :
          Declare(AddInject(builder, SetToSeq(delivery)),
                  [asked EXCEPT !.delivery = Extend(@, SetToSeq(delivery))])
    BY <1>6 DEF Inject
  <2> QED BY <1>1, <2>1, StepInject, DeclareInv
<1>7. CASE Elicit
  <2>1. PICK mode \in rule.elicitation :
          Declare([builder EXCEPT !.elicitation = @ \cup {mode}], [asked EXCEPT !.elicitation = @ \cup {mode}])
    BY <1>7 DEF Elicit
  <2> QED BY <1>1, <2>1, StepElicit, DeclareInv
<1>8. CASE Spoil
  BY <1>8, SpoilInv
<1>9. CASE UNCHANGED vars
  <2>1. /\ event' = event /\ rule' = rule /\ builder' = builder /\ asked' = asked /\ object' = object
    BY <1>9 DEF vars
  <2>2. Asks(asked)'
    BY <2>1 DEF HostInv, Asks, Controls, FlowGrants
  <2>3. Built(builder, asked)'
    BY <2>1 DEF HostInv, Built, SameFlow, SameDelivery, FlowGrants, Counted
  <2>4. Shaped(object)'
    BY <2>1 DEF HostInv, Shaped, ShapedGrants, ShapedFlows, Words
  <2> QED BY <2>1, <2>2, <2>3, <2>4 DEF HostInv
<1> QED BY <1>2, <1>3, <1>4, <1>5, <1>6, <1>7, <1>8, <1>9 DEF Next

LEMMA AlwaysHostInv == Spec => []HostInv
BY InitInv, StepInv, PTL DEF Spec

-------------------------------------------------------------------------------
(* No call of a Rust builder grants what was not asked for or loses what   *)
(* was, in whatever order the calls come.                                  *)
LEMMA InvGrantsAreExact == HostInv => GrantsAreExact
<1> SUFFICES ASSUME HostInv PROVE GrantsAreExact
  OBVIOUS
<1>1. Compiled(rule) /\ Present(rule) /\ Asks(asked) /\ Built(builder, asked)
  BY RuleFacts DEF HostInv
<1>2. /\ builder.observe = asked.observe /\ builder.elicitation = asked.elicitation
      /\ builder.effects = Families(asked) /\ builder.modify = Masks(asked)
      /\ SameFlow(builder.flow, asked.flow)
  BY <1>1 DEF Built
<1>3. asked.controls \subseteq Controls
  BY <1>1 DEF Asks
<1>4. builder.effects \ Detailed = asked.controls
  BY <1>2, <1>3 DEF Families, Controls, Detailed
<1>5. Granted(asked) = DOMAIN builder.modify
  BY <1>2 DEF Masks
<1>6. ASSUME NEW t \in DOMAIN builder.modify
      PROVE  asked.modify[t] = {op \in DOMAIN builder.modify[t] : builder.modify[t][op]}
  <2>1. t \in Granted(asked) /\ builder.modify[t] = [op \in ModifyOperations |-> op \in asked.modify[t]]
    BY <1>2 DEF Masks
  <2>2. asked.modify[t] \subseteq ModifyOperations
    BY <1>1, <2>1 DEF Asks, Granted
  <2> QED BY <2>1, <2>2
<1>7. (builder.flow = None) = (asked.flow = None)
  <2>1. asked.flow = None => builder.flow = None
    BY <1>2 DEF SameFlow
  <2>2. asked.flow # None => builder.flow # None
    BY <1>1, <1>2 DEF SameFlow, Present
  <2> QED BY <2>1, <2>2
<1>8. builder.flow # None => [builder.flow EXCEPT !.operations = Range(@)] = asked.flow
  BY <1>2 DEF SameFlow
<1> QED BY <1>2, <1>4, <1>5, <1>6, <1>7, <1>8 DEF GrantsAreExact

(* In every reachable state the grants are those that were asked for.      *)
THEOREM AlwaysGrantsAreExact == Spec => []GrantsAreExact
BY AlwaysHostInv, InvGrantsAreExact, PTL

-------------------------------------------------------------------------------
(* What a wire form must be for the schemas to accept it.                  *)
LEMMA CapabilitiesConform ==
  ASSUME Compiled(rule), Present(rule),
         NEW E \in Seq(rule.effects), IsInjective(E),
         NEW M \in UNION {[T -> [ModifyOperations -> BOOLEAN]] : T \in SUBSET DOMAIN rule.modify},
         \A t \in DOMAIN M : \E op \in ModifyOperations : M[t][op],
         NEW F, F # None => /\ F \in FlowGrants(Seq(rule.flow)) /\ F.operations # <<>>
                            /\ IsInjective(F.operations) /\ Counted(F),
         NEW I, I # None => I \in Seq(rule.delivery) /\ I # <<>> /\ IsInjective(I),
         NEW L \in SUBSET rule.elicitation,
         "modify" \in Range(E) <=> DOMAIN M # {},
         "flow" \in Range(E) <=> F # None,
         "inject" \in Range(E) <=> I # None
  PROVE  LET caps == [effects |-> E, modify |-> M, flow |-> F, inject |-> I, elicitation |-> L]
         IN  Conforms(caps) /\ caps # None
<1> DEFINE caps == [effects |-> E, modify |-> M, flow |-> F, inject |-> I, elicitation |-> L]
<1>1. caps \in WireCapabilities(rule)
  BY DEF WireCapabilities
<1>2. caps # None
  BY <1>1 DEF Present
<1>3. /\ caps.effects = E /\ caps.modify = M /\ caps.flow = F /\ caps.inject = I
      /\ caps.elicitation = L
  OBVIOUS
<1> HIDE DEF caps
<1>4. Range(E) \subseteq rule.effects /\ \A x : Contains(E, x) <=> x \in Range(E)
  BY RangeOfList
<1>5. PICK T \in SUBSET DOMAIN rule.modify : M \in [T -> [ModifyOperations -> BOOLEAN]]
  OBVIOUS
<1>6. DOMAIN M \subseteq DOMAIN rule.modify
  BY <1>5
<1>7. ASSUME NEW t \in DOMAIN M
      PROVE  DOMAIN M[t] = {"replace", "merge"} /\ \E op \in DOMAIN M[t] : M[t][op]
  <2>1. DOMAIN M[t] = ModifyOperations
    BY <1>5
  <2>2. \E op \in DOMAIN M[t] : M[t][op]
    BY <2>1
  <2> QED BY <2>1, <2>2 DEF ModifyOperations
<1>8. F # None => FlowConforms(F)
  <2> SUFFICES ASSUME F # None PROVE FlowConforms(F)
    OBVIOUS
  <2>1. F \in FlowGrants(Seq(rule.flow))
    OBVIOUS
  <2>2. /\ F.operations \in Seq(rule.flow) /\ F.remaining \in Counts \cup {None}
        /\ F.count \in Counts \cup {None} /\ F.most \in Counts \cup {None}
    BY <2>1, FlowFacts
  <2>3. Range(F.operations) \subseteq rule.flow
    BY <2>2, RangeOfList
  <2> QED BY <2>2, <2>3 DEF FlowConforms, Unique, Counted
<1>9. I # None => Unique(I, rule.delivery)
  BY RangeOfList DEF Unique
<1> QED BY <1>2, <1>3, <1>4, <1>6, <1>7, <1>8, <1>9 DEF Conforms, caps

LEMMA ModesFacts ==
  ASSUME NEW i \in BOOLEAN, NEW o \in BOOLEAN
  PROVE  /\ i \/ o <=> Modes(i, o) # <<>>
         /\ i \/ o => Modes(i, o) \in {<<"intercept">>, <<"observe">>, <<"intercept", "observe">>}
         /\ Contains(Modes(i, o), "observe") <=> o
         /\ Contains(Modes(i, o), "intercept") <=> i
<1> DEFINE V == {"intercept", "observe"}
           s == Perhaps(i, "intercept")
           t == Perhaps(o, "observe")
<1>1. Modes(i, o) = s \o t
  BY DEF Modes, Perhaps
<1>2. /\ s \in Seq(V) /\ Range(s) = IF i THEN {"intercept"} ELSE {}
      /\ t \in Seq(V) /\ Range(t) = IF o THEN {"observe"} ELSE {}
  BY PerhapsFacts
<1>3. s \o t \in Seq(V) /\ Range(s \o t) = Range(s) \cup Range(t)
  BY <1>2, JoinedFacts
<1>4. \A x : Contains(Modes(i, o), x) <=> x \in Range(s) \cup Range(t)
  <2>1. Modes(i, o) \in Seq(V) /\ Range(Modes(i, o)) = Range(s) \cup Range(t)
    BY <1>1, <1>3
  <2>2. \A x : Contains(Modes(i, o), x) <=> x \in Range(Modes(i, o))
    BY <2>1, RangeOfList
  <2> QED BY <2>1, <2>2
<1>5. Modes(i, o) = <<>> <=> Range(s) \cup Range(t) = {}
  BY <1>1, <1>3, RangeOfList
<1>6. i \/ o => Modes(i, o) \in {<<"intercept">>, <<"observe">>, <<"intercept", "observe">>}
  <2>1. CASE i /\ o
    <3>1. Modes(i, o) = <<"intercept">> \o <<"observe">>
      BY <2>1 DEF Modes
    <3>2. <<"intercept">> \o <<"observe">> = <<"intercept", "observe">>
      <4> DEFINE a == <<"intercept">>
                 b == <<"observe">>
                 c == <<"intercept", "observe">>
      <4>1. /\ a \in Seq(V) /\ b \in Seq(V) /\ c \in Seq(V)
            /\ Len(a) = 1 /\ Len(b) = 1 /\ Len(c) = 2
            /\ a[1] = "intercept" /\ b[1] = "observe" /\ c[1] = "intercept" /\ c[2] = "observe"
        OBVIOUS
      <4> HIDE DEF a, b, c
      <4>2. a \o b \in Seq(V) /\ Len(a \o b) = 2 /\ (a \o b)[1] = a[1] /\ (a \o b)[2] = b[1]
        <5>1. /\ a \o b \in Seq(V) /\ Len(a \o b) = Len(a) + Len(b)
              /\ \A k \in 1..(Len(a) + Len(b)) :
                   (a \o b)[k] = IF k <= Len(a) THEN a[k] ELSE b[k - Len(a)]
          BY <4>1, ConcatProperties
        <5>2. Len(a) + Len(b) = 2 /\ 1 \in 1..2 /\ 2 \in 1..2 /\ 1 <= 1 /\ ~ (2 <= 1) /\ 2 - 1 = 1
          BY <4>1
        <5>3. (a \o b)[1] = a[1]
          BY <4>1, <5>1, <5>2
        <5>4. (a \o b)[2] = b[2 - 1]
          BY <4>1, <5>1, <5>2
        <5> QED BY <5>1, <5>2, <5>3, <5>4
      <4>3. \A k \in 1..2 : k = 1 \/ k = 2
        OBVIOUS
      <4>4. \A k \in 1..Len(a \o b) : (a \o b)[k] = c[k]
        BY <4>1, <4>2, <4>3
      <4>5. a \o b = c
        BY <4>1, <4>2, <4>4, SeqEqual
      <4> QED BY <4>5 DEF a, b, c
    <3> QED BY <3>1, <3>2
  <2>2. CASE i /\ ~ o
    <3>1. Modes(i, o) = <<"intercept">> \o <<>>
      BY <2>2 DEF Modes
    <3>2. <<"intercept">> \o <<>> = <<"intercept">>
      OBVIOUS
    <3> QED BY <3>1, <3>2
  <2>3. CASE ~ i /\ o
    <3>1. Modes(i, o) = <<>> \o <<"observe">>
      BY <2>3 DEF Modes
    <3>2. <<>> \o <<"observe">> = <<"observe">>
      OBVIOUS
    <3> QED BY <3>1, <3>2
  <2> QED BY <2>1, <2>2, <2>3
<1> HIDE DEF s, t
<1> QED BY <1>2, <1>4, <1>5, <1>6

LEMMA WireConformsIf ==
  ASSUME NEW i \in BOOLEAN, NEW o \in BOOLEAN, NEW caps, i \/ o, o => rule.observe,
         i <=> caps # None, i => rule.intercept /\ Conforms(caps)
  PROVE  WireConforms([modes |-> Modes(i, o), capabilities |-> caps])
<1> DEFINE wire == [modes |-> Modes(i, o), capabilities |-> caps]
<1>1. wire.modes = Modes(i, o) /\ wire.capabilities = caps
  OBVIOUS
<1> HIDE DEF wire
<1>2. WireConforms(wire)
  BY <1>1, ModesFacts DEF WireConforms
<1> QED BY <1>2 DEF wire

(* What a record may ask for.                                              *)
LEMMA AskedFacts ==
  ASSUME HostInv
  PROVE  /\ asked.flow # None => /\ asked.flow \in FlowGrants(SUBSET rule.flow)
                                 /\ asked.flow.operations # {}
                                 /\ "continue" \in asked.flow.operations =>
                                      asked.flow.remaining # None /\ asked.flow.count # None
         /\ Families(asked) \subseteq rule.effects /\ IsFiniteSet(Families(asked))
         /\ "modify" \in Families(asked) <=> Granted(asked) # {}
         /\ "flow" \in Families(asked) <=> asked.flow # None
         /\ "inject" \in Families(asked) <=> asked.delivery # <<>>
         /\ Intercepts(asked) <=> Families(asked) # {} \/ asked.elicitation # {}
         /\ Intercepts(asked) => rule.intercept
<1>1. Compiled(rule) /\ Present(rule) /\ Asks(asked) /\ Built(builder, asked)
  BY RuleFacts DEF HostInv
<1>2. ASSUME asked.flow # None
      PROVE  /\ asked.flow \in FlowGrants(SUBSET rule.flow)
             /\ asked.flow.operations # {} /\ rule.flow # {}
             /\ "continue" \in asked.flow.operations =>
                  asked.flow.remaining # None /\ asked.flow.count # None
  <2> DEFINE b == builder.flow
  <2>1. /\ b \in FlowGrants(Seq(rule.flow)) /\ b.operations # <<>> /\ Counted(b)
        /\ asked.flow = [b EXCEPT !.operations = Range(@)]
    BY <1>1, <1>2 DEF Built, SameFlow
  <2>2. b.operations \in Seq(rule.flow) /\ asked.flow = Flow(Range(b.operations), b.remaining, b.count, b.most)
    BY <2>1, FlowFacts
  <2> HIDE DEF b
  <2>3. /\ asked.flow.operations = Range(b.operations) /\ asked.flow.remaining = b.remaining
        /\ asked.flow.count = b.count
    BY <2>2, FlowFields
  <2>4. Range(b.operations) # {} /\ Range(b.operations) \subseteq rule.flow
        /\ (Contains(b.operations, "continue") <=> "continue" \in Range(b.operations))
    BY <2>1, <2>2, RangeOfList
  <2>5. asked.flow \in FlowGrants(SUBSET rule.flow)
    BY <1>1, <1>2 DEF Asks
  <2> QED BY <2>1, <2>3, <2>4, <2>5 DEF Counted
<1>3. ASSUME asked.delivery # <<>> PROVE rule.delivery # {}
  <2>1. asked.delivery \in Seq(rule.delivery)
    BY <1>1 DEF Asks
  <2>2. Range(asked.delivery) # {} /\ Range(asked.delivery) \subseteq rule.delivery
    BY <1>3, <2>1, RangeOfList
  <2> QED BY <2>2
<1>4. Granted(asked) \subseteq DOMAIN rule.modify
  BY <1>1 DEF Asks, Granted
<1>5. asked.controls \subseteq rule.effects \ Detailed /\ asked.elicitation \subseteq rule.elicitation
  BY <1>1 DEF Asks, Controls
<1>6. Families(asked) \subseteq rule.effects
  BY <1>1, <1>2, <1>3, <1>4, <1>5 DEF Families, Compiled
<1>7. IsFiniteSet(Families(asked))
  <2>1. IsFiniteSet(rule.effects)
    BY <1>1 DEF Compiled
  <2> QED BY <1>6, <2>1, FS_Subset
<1>8. /\ "modify" \in Families(asked) <=> Granted(asked) # {}
      /\ "flow" \in Families(asked) <=> asked.flow # None
      /\ "inject" \in Families(asked) <=> asked.delivery # <<>>
  BY <1>5 DEF Families, Detailed
<1>9. Intercepts(asked) <=> Families(asked) # {} \/ asked.elicitation # {}
  BY DEF Intercepts, Families
<1>10. Intercepts(asked) => rule.intercept
  BY <1>1, <1>5, <1>6, <1>9 DEF Compiled
<1> QED BY <1>2, <1>6, <1>7, <1>8, <1>9, <1>10

LEMMA MasksFacts ==
  ASSUME HostInv
  PROVE  /\ Masks(asked) \in UNION {[T -> [ModifyOperations -> BOOLEAN]] : T \in SUBSET DOMAIN rule.modify}
         /\ DOMAIN Masks(asked) = Granted(asked)
         /\ \A t \in DOMAIN Masks(asked) : \E op \in ModifyOperations : Masks(asked)[t][op]
<1>1. Asks(asked)
  BY DEF HostInv
<1>2. Granted(asked) \in SUBSET DOMAIN rule.modify
      /\ \A t \in Granted(asked) : asked.modify[t] \subseteq ModifyOperations /\ asked.modify[t] # {}
  BY <1>1 DEF Asks, Granted
<1>3. Masks(asked) \in [Granted(asked) -> [ModifyOperations -> BOOLEAN]]
  BY DEF Masks
<1>4. ASSUME NEW t \in Granted(asked) PROVE \E op \in ModifyOperations : Masks(asked)[t][op]
  <2>1. PICK op \in ModifyOperations : op \in asked.modify[t]
    BY <1>2
  <2>2. Masks(asked)[t][op]
    BY <2>1 DEF Masks
  <2> QED BY <2>2
<1> QED BY <1>2, <1>3, <1>4

LEMMA DeclaredFacts ==
  ASSUME HostInv, Declared
  PROVE  Intercepts(asked) \/ asked.observe
<1>1. SUFFICES ASSUME ~ Intercepts(asked), ~ asked.observe PROVE asked = Unasked
  BY DEF Declared
<1>2. Asks(asked)
  BY DEF HostInv
<1>3. /\ asked.controls = {} /\ Granted(asked) = {} /\ asked.flow = None
      /\ asked.delivery = <<>> /\ asked.elicitation = {}
  BY <1>1 DEF Intercepts
<1>4. asked.observe = FALSE
  BY <1>1, <1>2 DEF Asks
<1>5. asked.modify = [t \in DOMAIN rule.modify |-> {}]
  <2>1. asked.modify \in [DOMAIN rule.modify -> SUBSET ModifyOperations]
    BY <1>2 DEF Asks
  <2>2. \A t \in DOMAIN rule.modify : asked.modify[t] = {}
    BY <1>3, <2>1 DEF Granted
  <2> QED BY <2>1, <2>2
<1>6. asked = [observe |-> asked.observe, controls |-> asked.controls, modify |-> asked.modify,
               flow |-> asked.flow, delivery |-> asked.delivery, elicitation |-> asked.elicitation]
  BY <1>2 DEF Asks
<1> QED BY <1>3, <1>4, <1>5, <1>6 DEF Unasked

(* Rust's form: the effects in the order of a set, the rest as it is held. *)
LEMMA RustForm ==
  ASSUME HostInv
  PROVE  RustWire = [modes |-> Modes(Intercepts(asked), asked.observe),
                     capabilities |->
                       IF ~ Intercepts(asked) THEN None
                       ELSE [effects |-> SetToSeq(Families(asked)), modify |-> Masks(asked),
                             flow |-> builder.flow, inject |-> builder.inject,
                             elicitation |-> asked.elicitation]]
<1>1. /\ builder.observe = asked.observe /\ builder.elicitation = asked.elicitation
      /\ builder.effects = Families(asked) /\ builder.modify = Masks(asked)
  BY DEF HostInv, Built
<1> DEFINE intercept == builder.effects # {} \/ builder.elicitation # {}
<1>2. intercept = Intercepts(asked)
  BY <1>1, AskedFacts DEF Intercepts
<1>3. RustWire = [modes |-> Modes(intercept, builder.observe),
                  capabilities |->
                    IF ~ intercept THEN None
                    ELSE [effects |-> SetToSeq(builder.effects), modify |-> builder.modify,
                          flow |-> builder.flow, inject |-> builder.inject,
                          elicitation |-> builder.elicitation]]
  BY Zenon DEF RustWire, Modes
<1> HIDE DEF intercept
<1> QED BY <1>1, <1>2, <1>3

LEMMA RustConforms ==
  ASSUME HostInv, Declared PROVE WireConforms(RustWire)
<1> DEFINE i == Intercepts(asked)
           o == asked.observe
           E == SetToSeq(Families(asked))
           full == [effects |-> E, modify |-> Masks(asked), flow |-> builder.flow,
                    inject |-> builder.inject, elicitation |-> asked.elicitation]
           caps == IF ~ i THEN None ELSE full
<1>1. Compiled(rule) /\ Present(rule) /\ Asks(asked) /\ Built(builder, asked)
  BY RuleFacts DEF HostInv
<1>2. E \in Seq(rule.effects) /\ IsInjective(E) /\ Range(E) = Families(asked)
  <2>1. E \in Seq(Families(asked)) /\ IsInjective(E) /\ Range(E) = Families(asked)
    BY AskedFacts, ListedFacts
  <2> HIDE DEF E
  <2> QED BY <2>1, AskedFacts, SeqMonotonic
<1>3. builder.flow # None => /\ builder.flow \in FlowGrants(Seq(rule.flow)) /\ builder.flow.operations # <<>>
                             /\ IsInjective(builder.flow.operations) /\ Counted(builder.flow)
                             /\ asked.flow # None
  BY <1>1 DEF Built, SameFlow
<1>4. builder.flow = None => asked.flow = None
  BY <1>1 DEF Built, SameFlow, Present
<1>5. builder.inject # None => /\ builder.inject \in Seq(rule.delivery) /\ builder.inject # <<>>
                               /\ IsInjective(builder.inject) /\ asked.delivery # <<>>
  <2>1. SUFFICES ASSUME builder.inject # None PROVE builder.inject # <<>>
    BY <1>1, <2>1 DEF Built, SameDelivery
  <2>2. /\ asked.delivery # <<>> /\ builder.inject \in Seq(rule.delivery)
        /\ Range(builder.inject) = Range(asked.delivery)
    BY <1>1, <2>1 DEF Built, SameDelivery
  <2>3. asked.delivery \in Seq(rule.delivery)
    BY <1>1 DEF Asks
  <2> QED BY <2>2, <2>3, RangeOfList
<1>6. builder.inject = None => asked.delivery = <<>>
  BY <1>1 DEF Built, SameDelivery, Present
<1>7. asked.elicitation \in SUBSET rule.elicitation
  BY <1>1 DEF Asks
<1> HIDE DEF E
<1>8. Conforms(full) /\ full # None
  <2>1. /\ "modify" \in Range(E) <=> DOMAIN Masks(asked) # {}
        /\ "flow" \in Range(E) <=> builder.flow # None
        /\ "inject" \in Range(E) <=> builder.inject # None
    BY <1>2, <1>3, <1>4, <1>5, <1>6, AskedFacts, MasksFacts
  <2> QED BY <1>1, <1>2, <1>3, <1>5, <1>7, <2>1, MasksFacts, CapabilitiesConform
<1>9. /\ i \in BOOLEAN /\ o \in BOOLEAN /\ (o => rule.observe) /\ (i => rule.intercept) /\ (i \/ o)
  BY <1>1, AskedFacts, DeclaredFacts DEF Asks, Intercepts
<1>10. RustWire = [modes |-> Modes(i, o), capabilities |-> caps]
  BY RustForm DEF E
<1> HIDE DEF full, i, o
<1>11. (i <=> caps # None) /\ (i => rule.intercept /\ Conforms(caps))
  BY <1>8, <1>9
<1> HIDE DEF caps
<1> QED BY <1>9, <1>10, <1>11, WireConformsIf

(* Effects that are listed family by family.                               *)
FamilyList(controls, modify, flow, inject) ==
  SetToSeq(controls) \o Perhaps(modify, "modify") \o Perhaps(flow, "flow") \o Perhaps(inject, "inject")

FamilySet(controls, modify, flow, inject) ==
  controls \cup (IF modify THEN {"modify"} ELSE {}) \cup (IF flow THEN {"flow"} ELSE {})
    \cup (IF inject THEN {"inject"} ELSE {})

LEMMA FamilyListFacts ==
  ASSUME Compiled(rule), NEW controls \in SUBSET Controls,
         NEW modify \in BOOLEAN, NEW flow \in BOOLEAN, NEW inject \in BOOLEAN,
         modify => "modify" \in rule.effects, flow => "flow" \in rule.effects,
         inject => "inject" \in rule.effects
  PROVE  LET list == FamilyList(controls, modify, flow, inject)
         IN  /\ list \in Seq(rule.effects) /\ IsInjective(list)
             /\ Range(list) = FamilySet(controls, modify, flow, inject)
             /\ ("modify" \in Range(list) <=> modify) /\ ("flow" \in Range(list) <=> flow)
             /\ ("inject" \in Range(list) <=> inject)
<1> DEFINE V == rule.effects
           c == SetToSeq(controls)
           m == Perhaps(modify, "modify")
           f == Perhaps(flow, "flow")
           d == Perhaps(inject, "inject")
<1>1. controls \subseteq V \ Detailed /\ IsFiniteSet(controls)
  <2>1. controls \subseteq V \ Detailed
    BY DEF Controls
  <2>2. IsFiniteSet(V)
    BY DEF Compiled
  <2> QED BY <2>1, <2>2, FS_Subset
<1>2. c \in Seq(V) /\ IsInjective(c) /\ Range(c) = controls
  <2>1. c \in Seq(controls) /\ IsInjective(c) /\ Range(c) = controls
    BY <1>1, ListedFacts
  <2> HIDE DEF c
  <2> QED BY <1>1, <2>1, SeqMonotonic
<1>4. m \in Seq(V) /\ IsInjective(m) /\ Range(m) = IF modify THEN {"modify"} ELSE {}
  BY PerhapsFacts
<1>5. f \in Seq(V) /\ IsInjective(f) /\ Range(f) = IF flow THEN {"flow"} ELSE {}
  BY PerhapsFacts
<1>6. d \in Seq(V) /\ IsInjective(d) /\ Range(d) = IF inject THEN {"inject"} ELSE {}
  BY PerhapsFacts
<1>7. FamilyList(controls, modify, flow, inject) = ((c \o m) \o f) \o d
  BY DEF FamilyList
<1> HIDE DEF c, m, f, d
<1>8. c \o m \in Seq(V) /\ IsInjective(c \o m) /\ Range(c \o m) = Range(c) \cup Range(m)
  BY <1>1, <1>2, <1>4, JoinedFacts DEF Detailed
<1> DEFINE cm == c \o m
<1> HIDE DEF cm
<1>9. cm \o f \in Seq(V) /\ IsInjective(cm \o f) /\ Range(cm \o f) = Range(c) \cup Range(m) \cup Range(f)
  <2>1. cm \in Seq(V) /\ IsInjective(cm) /\ Range(cm) = Range(c) \cup Range(m)
    BY <1>8 DEF cm
  <2>2. Range(cm) \cap Range(f) = {}
    BY <1>1, <1>2, <1>4, <1>5, <2>1 DEF Detailed
  <2> QED BY <1>5, <2>1, <2>2, JoinedFacts
<1> DEFINE cmf == cm \o f
<1> HIDE DEF cmf
<1>10. cmf \o d \in Seq(V) /\ IsInjective(cmf \o d)
       /\ Range(cmf \o d) = Range(c) \cup Range(m) \cup Range(f) \cup Range(d)
  <2>1. cmf \in Seq(V) /\ IsInjective(cmf) /\ Range(cmf) = Range(c) \cup Range(m) \cup Range(f)
    BY <1>9 DEF cmf
  <2>2. Range(cmf) \cap Range(d) = {}
    BY <1>1, <1>2, <1>4, <1>5, <1>6, <2>1 DEF Detailed
  <2> QED BY <1>6, <2>1, <2>2, JoinedFacts
<1>11. Range(c) \cup Range(m) \cup Range(f) \cup Range(d) = FamilySet(controls, modify, flow, inject)
  BY <1>2, <1>4, <1>5, <1>6 DEF FamilySet
<1>12. LET S == FamilySet(controls, modify, flow, inject)
       IN  ("modify" \in S <=> modify) /\ ("flow" \in S <=> flow) /\ ("inject" \in S <=> inject)
  BY <1>1 DEF FamilySet, Detailed
<1> QED BY <1>7, <1>10, <1>11, <1>12 DEF cmf, cm

LEMMA EffectListFacts ==
  ASSUME HostInv
  PROVE  /\ EffectList(asked) \in Seq(rule.effects) /\ IsInjective(EffectList(asked))
         /\ Range(EffectList(asked)) = Families(asked)
<1> DEFINE C == asked.controls
           m == Granted(asked) # {}
           f == asked.flow # None
           d == asked.delivery # <<>>
<1>1. Compiled(rule) /\ C \in SUBSET Controls
  BY RuleFacts DEF HostInv, Asks
<1>2. (m => "modify" \in rule.effects) /\ (f => "flow" \in rule.effects) /\ (d => "inject" \in rule.effects)
  BY AskedFacts
<1>3. EffectList(asked) = FamilyList(C, m, f, d) /\ Families(asked) = FamilySet(C, m, f, d)
  BY DEF EffectList, FamilyList, Families, FamilySet, Perhaps
<1>4. m \in BOOLEAN /\ f \in BOOLEAN /\ d \in BOOLEAN
  OBVIOUS
<1> HIDE DEF C, m, f, d
<1> QED BY <1>1, <1>2, <1>3, <1>4, FamilyListFacts

RecordForm ==
  [modes |-> Modes(Intercepts(asked), asked.observe),
   capabilities |->
     IF ~ Intercepts(asked) THEN None
     ELSE [effects |-> EffectList(asked), modify |-> Masks(asked), flow |-> RecordFlow(asked),
           inject |-> IF asked.delivery = <<>> THEN None ELSE asked.delivery,
           elicitation |-> asked.elicitation]]

LEMMA RecordForms ==
  ASSUME HostInv PROVE GoWire = RecordForm /\ PythonWire = RecordForm
<1>1. \A t \in Granted(asked) : rule.modify[t] = ModifyOperations
  BY RuleFacts DEF HostInv, Asks, Granted, Compiled
<1>2. [t \in Granted(asked) |-> [op \in rule.modify[t] |-> op \in asked.modify[t]]] = Masks(asked)
  BY <1>1 DEF Masks
<1>3. PythonWire = RecordForm
  BY <1>2 DEF PythonWire, RecordWire, RecordForm
<1>4. GoWire = RecordForm
  BY DEF GoWire, RecordWire, RecordForm, Masks, ModifyOperations
<1> QED BY <1>3, <1>4

(* The flow and the deliveries that a record is written with.              *)
LEMMA WrittenFlow ==
  ASSUME HostInv
  PROVE  /\ asked.flow = None => RecordFlow(asked) = None
         /\ asked.flow # None => /\ RecordFlow(asked) # None
                                 /\ RecordFlow(asked) \in FlowGrants(Seq(rule.flow))
                                 /\ RecordFlow(asked).operations \in Seq(rule.flow)
                                 /\ RecordFlow(asked).operations # <<>>
                                 /\ IsInjective(RecordFlow(asked).operations)
                                 /\ Range(RecordFlow(asked).operations) = asked.flow.operations
                                 /\ Counted(RecordFlow(asked))
                                 /\ RecordFlow(asked).remaining = asked.flow.remaining
                                 /\ RecordFlow(asked).count = asked.flow.count
                                 /\ RecordFlow(asked).most = asked.flow.most
<1>1. Compiled(rule) /\ Present(rule) /\ Asks(asked)
  BY RuleFacts DEF HostInv
<1>2. asked.flow = None => RecordFlow(asked) = None
  BY DEF RecordFlow
<1>3. SUFFICES ASSUME asked.flow # None
      PROVE  /\ RecordFlow(asked) # None
             /\ RecordFlow(asked) \in FlowGrants(Seq(rule.flow))
             /\ RecordFlow(asked).operations \in Seq(rule.flow)
             /\ RecordFlow(asked).operations # <<>>
             /\ IsInjective(RecordFlow(asked).operations)
             /\ Range(RecordFlow(asked).operations) = asked.flow.operations
             /\ Counted(RecordFlow(asked))
             /\ RecordFlow(asked).remaining = asked.flow.remaining
             /\ RecordFlow(asked).count = asked.flow.count
             /\ RecordFlow(asked).most = asked.flow.most
  BY <1>2
<1> DEFINE L == FlowList(asked.flow.operations)
           F == RecordFlow(asked)
<1>4. /\ F \in FlowGrants(Seq(rule.flow)) /\ L \in Seq(rule.flow) /\ IsInjective(L)
      /\ F = Flow(L, asked.flow.remaining, asked.flow.count, asked.flow.most)
      /\ Range(L) = asked.flow.operations
  BY <1>1, <1>3, RecordFlowFacts
<1> HIDE DEF F, L
<1>5. /\ F.operations = L /\ F.remaining = asked.flow.remaining /\ F.count = asked.flow.count
      /\ F.most = asked.flow.most
  BY <1>4, FlowFields
<1>6. F # None
  BY <1>1, <1>4 DEF Present
<1>7. asked.flow.operations # {}
      /\ ("continue" \in asked.flow.operations => asked.flow.remaining # None /\ asked.flow.count # None)
  BY <1>3, AskedFacts
<1>8. L # <<>> /\ (Contains(L, "continue") <=> "continue" \in Range(L))
  BY <1>4, <1>7, RangeOfList
<1>9. Counted(F)
  BY <1>4, <1>5, <1>7, <1>8 DEF Counted
<1> QED BY <1>4, <1>5, <1>6, <1>8, <1>9 DEF F

LEMMA WrittenDelivery ==
  ASSUME HostInv
  PROVE  /\ asked.delivery \in Seq(rule.delivery) /\ IsInjective(asked.delivery)
         /\ asked.delivery # None
<1>1. asked.delivery \in Seq(rule.delivery) /\ IsInjective(asked.delivery)
  BY DEF HostInv, Asks
<1> QED BY <1>1, RuleFacts DEF Present

LEMMA RecordConforms ==
  ASSUME HostInv, Declared PROVE WireConforms(RecordForm)
<1> DEFINE i == Intercepts(asked)
           o == asked.observe
           E == EffectList(asked)
           F == RecordFlow(asked)
           I == IF asked.delivery = <<>> THEN None ELSE asked.delivery
           full == [effects |-> E, modify |-> Masks(asked), flow |-> F, inject |-> I,
                    elicitation |-> asked.elicitation]
           caps == IF ~ i THEN None ELSE full
<1>1. Compiled(rule) /\ Present(rule) /\ Asks(asked)
  BY RuleFacts DEF HostInv
<1>2. E \in Seq(rule.effects) /\ IsInjective(E) /\ Range(E) = Families(asked)
  BY EffectListFacts
<1>3. F # None => /\ F \in FlowGrants(Seq(rule.flow)) /\ F.operations # <<>>
                  /\ IsInjective(F.operations) /\ Counted(F)
  BY WrittenFlow
<1>4. F # None <=> asked.flow # None
  BY WrittenFlow
<1>5. I # None => I \in Seq(rule.delivery) /\ I # <<>> /\ IsInjective(I)
  BY WrittenDelivery
<1>6. I # None <=> asked.delivery # <<>>
  BY WrittenDelivery
<1>7. asked.elicitation \in SUBSET rule.elicitation
  BY <1>1 DEF Asks
<1> HIDE DEF E, F, I
<1>8. Conforms(full) /\ full # None
  <2>1. /\ "modify" \in Range(E) <=> DOMAIN Masks(asked) # {}
        /\ "flow" \in Range(E) <=> F # None
        /\ "inject" \in Range(E) <=> I # None
    BY <1>2, <1>4, <1>6, AskedFacts, MasksFacts
  <2> QED BY <1>1, <1>2, <1>3, <1>5, <1>7, <2>1, MasksFacts, CapabilitiesConform
<1>9. /\ i \in BOOLEAN /\ o \in BOOLEAN /\ (o => rule.observe) /\ (i => rule.intercept) /\ (i \/ o)
  BY <1>1, AskedFacts, DeclaredFacts DEF Asks, Intercepts
<1>10. RecordForm = [modes |-> Modes(i, o), capabilities |-> caps]
  BY DEF RecordForm, E, F, I
<1> HIDE DEF full, i, o
<1>11. (i <=> caps # None) /\ (i => rule.intercept /\ Conforms(caps))
  BY <1>8, <1>9
<1> HIDE DEF caps
<1> QED BY <1>9, <1>10, <1>11, WireConformsIf

(* A list without its repetitions.                                         *)
LEMMA DistinctFacts ==
  ASSUME NEW V, NEW list \in Seq(V)
  PROVE  /\ Distinct(list) \in Seq(V) /\ Range(Distinct(list)) = Range(list)
         /\ IsInjective(Distinct(list))
         /\ IsInjective(list) => Distinct(list) = list
<1> DEFINE none == <<>>
<1>1. none \in Seq(V) /\ DOMAIN none = {}
  OBVIOUS
<1>2. Range(none) = {} /\ IsInjective(none)
  BY <1>1 DEF Range, IsInjective
<1>3. Distinct(list) = Extend(none, list) /\ none = <<>>
  BY DEF Distinct
<1>4. ASSUME NEW base \in Seq(V)
      PROVE  /\ Extend(base, list) \in Seq(V) /\ Range(Extend(base, list)) = Range(base) \cup Range(list)
             /\ IsInjective(base) => IsInjective(Extend(base, list))
             /\ base = <<>> /\ IsInjective(list) => Extend(base, list) = list
  BY ExtendFacts
<1> HIDE DEF none
<1>5. /\ Extend(none, list) \in Seq(V) /\ Range(Extend(none, list)) = Range(none) \cup Range(list)
      /\ IsInjective(none) => IsInjective(Extend(none, list))
      /\ none = <<>> /\ IsInjective(list) => Extend(none, list) = list
  BY <1>1, <1>4
<1> QED BY <1>2, <1>3, <1>5

(* A list of some words, whose members are known to be others.             *)
LEMMA ListOfMembers ==
  ASSUME NEW V, NEW list \in Seq(V)
  PROVE  list \in Seq(Range(list))
<1>1. Len(list) \in Nat /\ list \in [1..Len(list) -> V]
  BY LenProperties
<1>2. list \in [1..Len(list) -> Range(list)]
  BY <1>1 DEF Range
<1> QED BY <1>1, <1>2, SeqDef

(* What the checks of TypeScript let through is what the schemas accept,   *)
(* whoever wrote it.                                                       *)
GrantsForm(g) ==
  [effects |-> FamilyList(DOMAIN g.controls, DOMAIN g.modify # {}, g.flow # None, g.inject # None),
   modify  |-> [t \in DOMAIN g.modify |-> [op \in ModifyOperations |-> op \in g.modify[t]]],
   flow    |-> IF g.flow = None THEN None ELSE [g.flow EXCEPT !.operations = Distinct(@)],
   inject  |-> IF g.inject = None THEN None ELSE Distinct(g.inject.deliverAt),
   elicitation |-> IF g.elicitation = None THEN {} ELSE DOMAIN g.elicitation]

LEMMA ObjectForm ==
  ASSUME NEW o
  PROVE  ObjectWire(o) = [modes |-> Modes(o.grants # None, o.observe = TRUE),
                          capabilities |-> IF o.grants = None THEN None ELSE GrantsForm(o.grants)]
BY Zenon DEF ObjectWire, GrantsForm, FamilyList, Perhaps, ModifyOperations

LEMMA GrantsConform ==
  ASSUME Compiled(rule), Present(rule), NEW g, ShapedGrants(g), GrantsHold(g)
  PROVE  Conforms(GrantsForm(g)) /\ GrantsForm(g) # None
<1> DEFINE E == FamilyList(DOMAIN g.controls, DOMAIN g.modify # {}, g.flow # None, g.inject # None)
           M == [t \in DOMAIN g.modify |-> [op \in ModifyOperations |-> op \in g.modify[t]]]
           F == IF g.flow = None THEN None ELSE [g.flow EXCEPT !.operations = Distinct(@)]
           I == IF g.inject = None THEN None ELSE Distinct(g.inject.deliverAt)
           L == IF g.elicitation = None THEN {} ELSE DOMAIN g.elicitation
<1>1. /\ DOMAIN g.controls \subseteq Controls
      /\ DOMAIN g.modify \subseteq DOMAIN rule.modify
      /\ \A t \in DOMAIN g.modify : g.modify[t] \in NonEmptySubsets(rule.modify[t])
      /\ g.flow # None => rule.flow # {} /\ FlowHolds(g.flow)
      /\ g.inject # None => rule.delivery # {} /\ ListOf(g.inject.deliverAt, rule.delivery)
      /\ g.elicitation # None => DOMAIN g.elicitation \subseteq rule.elicitation
  BY DEF GrantsHold
<1>2. /\ E \in Seq(rule.effects) /\ IsInjective(E)
      /\ ("modify" \in Range(E) <=> DOMAIN g.modify # {}) /\ ("flow" \in Range(E) <=> g.flow # None)
      /\ ("inject" \in Range(E) <=> g.inject # None)
  <2> DEFINE C == DOMAIN g.controls
             m == DOMAIN g.modify # {}
             f == g.flow # None
             d == g.inject # None
  <2>1. (m => "modify" \in rule.effects) /\ (f => "flow" \in rule.effects) /\ (d => "inject" \in rule.effects)
    BY <1>1 DEF Compiled
  <2>2. m \in BOOLEAN /\ f \in BOOLEAN /\ d \in BOOLEAN /\ C \in SUBSET Controls
    BY <1>1
  <2> HIDE DEF C, m, f, d
  <2>3. LET list == FamilyList(C, m, f, d)
        IN  /\ list \in Seq(rule.effects) /\ IsInjective(list)
            /\ ("modify" \in Range(list) <=> m) /\ ("flow" \in Range(list) <=> f)
            /\ ("inject" \in Range(list) <=> d)
    BY <2>1, <2>2, FamilyListFacts
  <2> QED BY <2>3 DEF C, m, f, d
<1>3. /\ M \in UNION {[T -> [ModifyOperations -> BOOLEAN]] : T \in SUBSET DOMAIN rule.modify}
      /\ DOMAIN M = DOMAIN g.modify
      /\ \A t \in DOMAIN M : \E op \in ModifyOperations : M[t][op]
  <2>1. M \in [DOMAIN g.modify -> [ModifyOperations -> BOOLEAN]]
    OBVIOUS
  <2>2. ASSUME NEW t \in DOMAIN g.modify PROVE \E op \in ModifyOperations : M[t][op]
    <3>1. g.modify[t] \subseteq ModifyOperations /\ g.modify[t] # {}
      BY <1>1 DEF NonEmptySubsets, Compiled
    <3>2. PICK op \in ModifyOperations : op \in g.modify[t]
      BY <3>1
    <3>3. M[t][op]
      BY <3>2
    <3> QED BY <3>3
  <2> QED BY <1>1, <2>1, <2>2
<1>4. /\ F # None <=> g.flow # None
      /\ F # None => /\ F \in FlowGrants(Seq(rule.flow)) /\ F.operations # <<>>
                     /\ IsInjective(F.operations) /\ Counted(F)
  <2>1. SUFFICES ASSUME g.flow # None
                 PROVE  /\ F # None /\ F \in FlowGrants(Seq(rule.flow)) /\ F.operations # <<>>
                        /\ IsInjective(F.operations) /\ Counted(F)
    OBVIOUS
  <2> DEFINE f == g.flow
             old == f.operations
             new == Distinct(old)
  <2>2. /\ f \in ShapedFlows /\ old \in Seq(Words)
    BY <2>1 DEF ShapedGrants, ShapedFlows
  <2>3. /\ old # <<>> /\ Range(old) \subseteq rule.flow
        /\ {f.remaining, f.count, f.most} \subseteq Counts \cup {None}
        /\ Contains(old, "continue") => f.remaining # None /\ f.count # None
    BY <1>1, <2>1 DEF FlowHolds, ListOf
  <2>4. new \in Seq(Words) /\ Range(new) = Range(old) /\ IsInjective(new)
    BY <2>2, DistinctFacts
  <2>5. new \in Seq(rule.flow)
    BY <2>3, <2>4, ListOfMembers, SeqMonotonic
  <2>6. new # <<>> /\ (Contains(new, "continue") => Contains(old, "continue"))
    BY <2>2, <2>3, <2>4, RangeOfList
  <2>7. F = [f EXCEPT !.operations = new]
    BY <2>1
  <2> HIDE DEF f, new, F
  <2>8. /\ F.operations = new /\ F.remaining = f.remaining /\ F.count = f.count
        /\ F \in FlowGrants(Seq(rule.flow))
    BY <2>2, <2>3, <2>5, <2>7 DEF ShapedFlows, FlowGrants
  <2>9. F # None
    BY <2>8 DEF Present
  <2> QED BY <2>3, <2>4, <2>6, <2>8, <2>9 DEF Counted, f
<1>5. /\ I # None <=> g.inject # None
      /\ I # None => I \in Seq(rule.delivery) /\ I # <<>> /\ IsInjective(I)
  <2>1. SUFFICES ASSUME g.inject # None
                 PROVE  I # None /\ I \in Seq(rule.delivery) /\ I # <<>> /\ IsInjective(I)
    OBVIOUS
  <2> DEFINE old == g.inject.deliverAt
             new == Distinct(old)
  <2>2. old \in Seq(Words) /\ old # <<>> /\ Range(old) \subseteq rule.delivery
    BY <1>1, <2>1 DEF ShapedGrants, ListOf
  <2>3. new \in Seq(Words) /\ Range(new) = Range(old) /\ IsInjective(new)
    BY <2>2, DistinctFacts
  <2>4. new \in Seq(rule.delivery) /\ new # <<>>
    BY <2>2, <2>3, ListOfMembers, SeqMonotonic, RangeOfList
  <2>5. I = new
    BY <2>1
  <2> HIDE DEF new, I
  <2> QED BY <2>3, <2>4, <2>5 DEF Present
<1>6. L \in SUBSET rule.elicitation
  BY <1>1
<1>7. GrantsForm(g) = [effects |-> E, modify |-> M, flow |-> F, inject |-> I, elicitation |-> L]
  BY Zenon DEF GrantsForm
<1> HIDE DEF E, M, F, I, L
<1>8. /\ "modify" \in Range(E) <=> DOMAIN M # {}
      /\ "flow" \in Range(E) <=> F # None
      /\ "inject" \in Range(E) <=> I # None
  BY <1>2, <1>3, <1>4, <1>5
<1>9. /\ E \in Seq(rule.effects) /\ IsInjective(E)
      /\ M \in UNION {[T -> [ModifyOperations -> BOOLEAN]] : T \in SUBSET DOMAIN rule.modify}
      /\ \A t \in DOMAIN M : \E op \in ModifyOperations : M[t][op]
      /\ F # None => /\ F \in FlowGrants(Seq(rule.flow)) /\ F.operations # <<>>
                     /\ IsInjective(F.operations) /\ Counted(F)
      /\ I # None => I \in Seq(rule.delivery) /\ I # <<>> /\ IsInjective(I)
      /\ L \in SUBSET rule.elicitation
  BY <1>2, <1>3, <1>4, <1>5, <1>6
<1> DEFINE full == [effects |-> E, modify |-> M, flow |-> F, inject |-> I, elicitation |-> L]
<1>10. Conforms(full) /\ full # None
  BY <1>8, <1>9, CapabilitiesConform
<1> HIDE DEF full
<1> QED BY <1>7, <1>10 DEF full

LEMMA ObjectConforms ==
  ASSUME Compiled(rule), Present(rule), NEW o, Shaped(o), OwnedHost(o),
         o.grants # None \/ o.observe = TRUE
  PROVE  WireConforms(ObjectWire(o))
<1> DEFINE i == o.grants # None
           b == o.observe = TRUE
           caps == IF o.grants = None THEN None ELSE GrantsForm(o.grants)
<1>1. i => rule.intercept /\ Conforms(GrantsForm(o.grants)) /\ GrantsForm(o.grants) # None
  BY GrantsConform DEF Shaped, OwnedHost
<1>2. b => rule.observe
  BY DEF OwnedHost, Present
<1>3. (i <=> caps # None) /\ (i => rule.intercept /\ Conforms(caps))
  BY <1>1
<1>4. i \in BOOLEAN /\ b \in BOOLEAN /\ (i \/ b)
  OBVIOUS
<1>5. ObjectWire(o) = [modes |-> Modes(i, b), capabilities |-> caps]
  BY ObjectForm
<1> HIDE DEF i, b, caps
<1> QED BY <1>2, <1>3, <1>4, <1>5, WireConformsIf

(* What a record is written as in TypeScript passes the checks there.      *)
LEMMA TrueForFacts ==
  ASSUME NEW S, NEW C \in SUBSET S
  PROVE  /\ [c \in C |-> TRUE] \in TrueFor(S)
         /\ DOMAIN [c \in C |-> TRUE] = C
         /\ Bad \notin BOOLEAN => \A c \in C : [k \in C |-> TRUE][c] # Bad
<1>1. [c \in C |-> TRUE] \in [C -> {TRUE}]
  BY Zenon
<1>2. [c \in C |-> TRUE] \in TrueFor(S)
  BY <1>1, Zenon DEF TrueFor
<1>3. Bad \notin BOOLEAN => \A c \in C : [k \in C |-> TRUE][c] # Bad
  BY Zenon
<1> QED BY <1>2, <1>3

TrueOn(S) == [c \in S |-> TRUE]
AskedModes(a) == IF a.elicitation = {} THEN None ELSE TrueOn(a.elicitation)
AskedTimings(a) == IF a.delivery = <<>> THEN None ELSE [append |-> TRUE, deliverAt |-> a.delivery]

GrantsOf(a) ==
  [controls |-> TrueOn(a.controls), modify |-> [t \in Granted(a) |-> a.modify[t]],
   flow |-> RecordFlow(a), inject |-> AskedTimings(a), elicitation |-> AskedModes(a), foreign |-> {}]

LEMMA ObjectOfForm ==
  ASSUME NEW a
  PROVE  /\ ObjectOf(a).observe = IF a.observe THEN TRUE ELSE None
         /\ ObjectOf(a).grants = IF ~ Intercepts(a) THEN None ELSE GrantsOf(a)
BY Zenon DEF ObjectOf, GrantsOf, TrueOn, AskedModes, AskedTimings

LEMMA GrantsOfFields ==
  ASSUME NEW a
  PROVE  /\ GrantsOf(a).controls = TrueOn(a.controls)
         /\ GrantsOf(a).modify = [t \in Granted(a) |-> a.modify[t]]
         /\ GrantsOf(a).flow = RecordFlow(a) /\ GrantsOf(a).inject = AskedTimings(a)
         /\ GrantsOf(a).elicitation = AskedModes(a) /\ GrantsOf(a).foreign = {}
BY DEF GrantsOf

LEMMA TrueOnFacts ==
  ASSUME NEW S, NEW C \in SUBSET S
  PROVE  /\ TrueOn(C) \in TrueFor(S) /\ DOMAIN TrueOn(C) = C
         /\ Bad \notin BOOLEAN => \A c \in C : TrueOn(C)[c] # Bad
BY TrueForFacts DEF TrueOn

LEMMA AskedModesFacts ==
  ASSUME HostInv
  PROVE  /\ AskedModes(asked) \in {None} \cup TrueFor(rule.elicitation)
         /\ AskedModes(asked) # None <=> asked.elicitation # {}
         /\ AskedModes(asked) # None =>
              /\ DOMAIN AskedModes(asked) = asked.elicitation
              /\ \A m \in DOMAIN AskedModes(asked) : AskedModes(asked)[m] # Bad
<1> DEFINE E == asked.elicitation
<1>1. Present(rule) /\ Bad \notin BOOLEAN /\ E \in SUBSET rule.elicitation
  BY RuleFacts DEF HostInv, Asks
<1>2. AskedModes(asked) = IF E = {} THEN None ELSE TrueOn(E)
  BY DEF AskedModes
<1> HIDE DEF E
<1>3. /\ TrueOn(E) \in TrueFor(rule.elicitation) /\ DOMAIN TrueOn(E) = E
      /\ \A c \in E : TrueOn(E)[c] # Bad
  BY <1>1, TrueOnFacts
<1>4. TrueOn(E) # None
  BY <1>1, <1>3 DEF Present
<1> QED BY <1>2, <1>3, <1>4 DEF E

LEMMA AskedTimingsFacts ==
  ASSUME HostInv
  PROVE  /\ AskedTimings(asked) \in {None} \cup Injections(rule)
         /\ AskedTimings(asked) # None <=> asked.delivery # <<>>
         /\ AskedTimings(asked) # None =>
              /\ AskedTimings(asked).append # Bad /\ AskedTimings(asked).deliverAt = asked.delivery
              /\ rule.delivery # {} /\ ListOf(asked.delivery, rule.delivery)
<1> DEFINE D == asked.delivery
           inject == [append |-> TRUE, deliverAt |-> D]
<1>1. Present(rule) /\ Bad \notin BOOLEAN /\ D \in Seq(rule.delivery)
  BY RuleFacts, WrittenDelivery
<1>2. AskedTimings(asked) = IF D = <<>> THEN None ELSE inject
  BY DEF AskedTimings
<1>3. inject \in Injections(rule)
  BY <1>1, Zenon DEF Injections
<1>4. inject.append # Bad
  BY <1>1, Zenon
<1>5. inject.deliverAt = D
  OBVIOUS
<1>6. D # <<>> => rule.delivery # {} /\ ListOf(D, rule.delivery)
  BY <1>1, RangeOfList DEF ListOf
<1> HIDE DEF inject, D
<1>7. inject # None
  BY <1>1, <1>3 DEF Present
<1> QED BY <1>2, <1>3, <1>4, <1>5, <1>6, <1>7 DEF D

LEMMA AskedTargetsFacts ==
  ASSUME HostInv
  PROVE  LET M == [t \in Granted(asked) |-> asked.modify[t]]
         IN  /\ M \in UNION {[T -> SUBSET ModifyOperations] : T \in SUBSET DOMAIN rule.modify}
             /\ DOMAIN M = Granted(asked) /\ DOMAIN M \subseteq DOMAIN rule.modify
             /\ \A t \in DOMAIN M : M[t] \in NonEmptySubsets(rule.modify[t])
<1> DEFINE G == Granted(asked)
           M == [t \in G |-> asked.modify[t]]
<1>1. Compiled(rule) /\ Asks(asked)
  BY RuleFacts DEF HostInv
<1>2. /\ G \subseteq DOMAIN rule.modify
      /\ \A t \in G : asked.modify[t] \in SUBSET ModifyOperations /\ asked.modify[t] # {}
  BY <1>1 DEF Asks, Granted
<1>3. \A t \in G : rule.modify[t] = ModifyOperations
  BY <1>1, <1>2 DEF Compiled
<1> HIDE DEF G
<1>4. M \in [G -> SUBSET ModifyOperations] /\ DOMAIN M = G
  BY <1>2
<1>5. \A t \in DOMAIN M : M[t] \in NonEmptySubsets(rule.modify[t])
  BY <1>2, <1>3 DEF NonEmptySubsets
<1> QED BY <1>2, <1>4, <1>5 DEF G

LEMMA GrantsOfHold ==
  ASSUME HostInv, Intercepts(asked)
  PROVE  GrantsOf(asked) \in ObjectGrants(rule) /\ GrantsOf(asked) # None /\ GrantsHold(GrantsOf(asked))
<1> DEFINE g == GrantsOf(asked)
<1>1. Compiled(rule) /\ Present(rule) /\ Bad \notin BOOLEAN /\ Asks(asked)
  BY RuleFacts DEF HostInv
<1>2. /\ TrueOn(asked.controls) \in TrueFor(rule.effects) /\ DOMAIN TrueOn(asked.controls) = asked.controls
      /\ \A c \in asked.controls : TrueOn(asked.controls)[c] # Bad
      /\ asked.controls \subseteq Controls
  <2>1. asked.controls \in SUBSET Controls /\ asked.controls \in SUBSET rule.effects
    BY <1>1 DEF Asks, Controls
  <2> QED BY <1>1, <2>1, TrueOnFacts
<1>3. /\ g.controls = TrueOn(asked.controls) /\ g.modify = [t \in Granted(asked) |-> asked.modify[t]]
      /\ g.flow = RecordFlow(asked) /\ g.inject = AskedTimings(asked)
      /\ g.elicitation = AskedModes(asked) /\ g.foreign = {}
      /\ DOMAIN g = {"controls", "modify", "flow", "inject", "elicitation", "foreign"}
  BY GrantsOfFields DEF GrantsOf
<1>4. g = [controls |-> g.controls, modify |-> g.modify, flow |-> g.flow, inject |-> g.inject,
           elicitation |-> g.elicitation, foreign |-> g.foreign]
  BY DEF GrantsOf
<1> HIDE DEF g
<1>5. /\ g.modify \in UNION {[T -> SUBSET ModifyOperations] : T \in SUBSET DOMAIN rule.modify}
      /\ DOMAIN g.modify = Granted(asked) /\ DOMAIN g.modify \subseteq DOMAIN rule.modify
      /\ \A t \in DOMAIN g.modify : g.modify[t] \in NonEmptySubsets(rule.modify[t])
  BY <1>3, AskedTargetsFacts
<1>6. /\ g.flow \in {None} \cup FlowGrants(Seq(rule.flow)) /\ (g.flow # None <=> asked.flow # None)
      /\ g.flow # None => rule.flow # {} /\ FlowHolds(g.flow)
  <2>1. CASE asked.flow = None
    BY <1>3, <2>1, WrittenFlow
  <2>2. CASE asked.flow # None
    <3>1. /\ g.flow # None /\ g.flow \in FlowGrants(Seq(rule.flow))
          /\ g.flow.operations \in Seq(rule.flow) /\ g.flow.operations # <<>> /\ Counted(g.flow)
      BY <1>3, <2>2, WrittenFlow
    <3>2. ListOf(g.flow.operations, rule.flow) /\ rule.flow # {}
      BY <3>1, RangeOfList DEF ListOf
    <3>3. {g.flow.remaining, g.flow.count, g.flow.most} \subseteq Counts \cup {None}
      BY <3>1 DEF FlowGrants
    <3> QED BY <2>2, <3>1, <3>2, <3>3 DEF FlowHolds, Counted
  <2> QED BY <2>1, <2>2
<1>7. /\ g.inject \in {None} \cup Injections(rule)
      /\ g.inject # None => /\ rule.delivery # {} /\ g.inject.append # Bad
                            /\ ListOf(g.inject.deliverAt, rule.delivery)
  BY <1>3, AskedTimingsFacts
<1>8. /\ g.elicitation \in {None} \cup TrueFor(rule.elicitation)
      /\ g.elicitation # None =>
           /\ DOMAIN g.elicitation \subseteq rule.elicitation /\ DOMAIN g.elicitation # {}
           /\ \A m \in DOMAIN g.elicitation : g.elicitation[m] # Bad
  BY <1>1, <1>3, AskedModesFacts DEF Asks
<1>9. g.controls \in TrueFor(rule.effects) /\ DOMAIN g.controls \subseteq Controls
      /\ \A c \in DOMAIN g.controls : g.controls[c] # Bad
  BY <1>2, <1>3
<1>10. Supported(g)
  <2>1. DOMAIN g.controls = asked.controls
    BY <1>2, <1>3
  <2> QED BY <1>3, <1>5, <1>6, <2>1, AskedTimingsFacts, AskedModesFacts DEF Supported, Intercepts
<1>11. GrantsHold(g)
  BY <1>3, <1>5, <1>6, <1>7, <1>8, <1>9, <1>10 DEF GrantsHold
<1>12. g \in ObjectGrants(rule)
  BY <1>3, <1>4, <1>5, <1>6, <1>7, <1>8, <1>9, Zenon DEF ObjectGrants
<1>13. g # None
  BY <1>1, <1>12 DEF Present
<1> QED BY <1>11, <1>12, <1>13 DEF g

LEMMA ObjectOwned ==
  ASSUME HostInv
  PROVE  /\ OwnedHost(ObjectOf(asked)) /\ Shaped(ObjectOf(asked))
         /\ (ObjectOf(asked).grants # None <=> Intercepts(asked))
         /\ (ObjectOf(asked).observe = TRUE <=> asked.observe)
<1> DEFINE o == ObjectOf(asked)
<1>1. Compiled(rule) /\ Present(rule) /\ Bad \notin BOOLEAN /\ Asks(asked)
  BY RuleFacts DEF HostInv
<1>2. /\ o.observe = IF asked.observe THEN TRUE ELSE None
      /\ o.grants = IF ~ Intercepts(asked) THEN None ELSE GrantsOf(asked)
  BY ObjectOfForm
<1>3. Shaped(o)
  BY <1>1, ObjectShaped
<1> HIDE DEF o
<1>4. asked.observe \in BOOLEAN /\ (asked.observe => rule.observe)
  BY <1>1 DEF Asks
<1>5. /\ o.observe # None => rule.observe /\ o.observe # Bad
      /\ o.observe = TRUE <=> asked.observe
  <2>1. CASE asked.observe = TRUE
    <3>1. o.observe = TRUE
      BY <1>2, <2>1, Zenon
    <3>2. TRUE # Bad
      BY <1>1, Zenon
    <3> QED BY <1>4, <2>1, <3>1, <3>2, Zenon
  <2>2. CASE asked.observe = FALSE
    <3>1. o.observe = None
      BY <1>2, <2>2, Zenon
    <3>2. TRUE # None
      BY <1>1, Zenon DEF Present
    <3> QED BY <2>2, <3>1, <3>2, Zenon
  <2> QED BY <1>4, <2>1, <2>2
<1>6. /\ o.grants # None => rule.intercept /\ GrantsHold(o.grants)
      /\ o.grants # None <=> Intercepts(asked)
  BY <1>2, GrantsOfHold, AskedFacts
<1>7. OwnedHost(o)
  BY <1>5, <1>6 DEF OwnedHost
<1> QED BY <1>3, <1>5, <1>6, <1>7 DEF o

(* What the classes of Python check holds of every record.                 *)
LEMMA PythonTakes ==
  ASSUME HostInv, Declared PROVE PythonAccepts(asked)
<1>1. Compiled(rule) /\ Asks(asked)
  BY RuleFacts DEF HostInv
<1>2. \A t \in Granted(asked) : asked.modify[t] \subseteq rule.modify[t]
  BY <1>1 DEF Asks, Granted, Compiled
<1>3. asked.flow # None => asked.flow.operations \subseteq rule.flow
  BY AskedFacts DEF FlowGrants
<1>4. IsInjective(asked.delivery) /\ Range(asked.delivery) \subseteq rule.delivery
  BY WrittenDelivery, RangeOfList
<1>5. asked.elicitation \subseteq rule.elicitation /\ (asked.observe => rule.observe)
  BY <1>1 DEF Asks
<1> QED BY <1>2, <1>3, <1>4, <1>5, DeclaredFacts DEF PythonAccepts

LEMMA InvDeclarationsConform == HostInv => DeclarationsConform
<1> SUFFICES ASSUME HostInv PROVE DeclarationsConform
  OBVIOUS
<1>1. Compiled(rule) /\ Present(rule) /\ Shaped(object)
  BY RuleFacts DEF HostInv
<1>2. ASSUME Declared
      PROVE  /\ PythonAccepts(asked)
             /\ \A wire \in {RustWire, GoWire, PythonWire, ObjectWire(ObjectOf(asked))} : WireConforms(wire)
  <2> DEFINE o == ObjectOf(asked)
  <2>1. PythonAccepts(asked) /\ WireConforms(RustWire)
    BY <1>2, PythonTakes, RustConforms
  <2>2. WireConforms(GoWire) /\ WireConforms(PythonWire)
    BY <1>2, RecordForms, RecordConforms
  <2>3. OwnedHost(o) /\ Shaped(o) /\ (o.grants # None \/ o.observe = TRUE)
    BY <1>2, ObjectOwned, DeclaredFacts
  <2> HIDE DEF o
  <2>4. WireConforms(ObjectWire(o))
    BY <1>1, <2>3, ObjectConforms
  <2> QED BY <2>1, <2>2, <2>4 DEF o
<1>3. OwnedHost(ObjectOf(asked))
  BY ObjectOwned
<1>4. ASSUME OwnedHost(object), ObjectWire(object).modes # <<>>
      PROVE  WireConforms(ObjectWire(object))
  <2>1. ObjectWire(object).modes = Modes(object.grants # None, object.observe = TRUE)
    BY ObjectForm
  <2> DEFINE i == object.grants # None
             b == object.observe = TRUE
  <2>2. i \in BOOLEAN /\ b \in BOOLEAN /\ Modes(i, b) # <<>>
    BY <1>4, <2>1
  <2> HIDE DEF i, b
  <2>3. i \/ b
    BY <2>2, ModesFacts
  <2> QED BY <1>1, <1>4, <2>3, ObjectConforms DEF i, b
<1> QED BY <1>2, <1>3, <1>4 DEF DeclarationsConform

(* In every reachable state the four wire forms conform to the schema of   *)
(* the event, and so does what an object that passes the checks, whoever   *)
(* wrote to it, is rendered as.                                            *)
THEOREM AlwaysDeclarationsConform == Spec => []DeclarationsConform
BY AlwaysHostInv, InvDeclarationsConform, PTL

-------------------------------------------------------------------------------
(* The four languages: every wire form is one of these, up to the order of *)
(* its lists.                                                              *)
CapsOf(E, M, F, I, L) == [effects |-> E, modify |-> M, flow |-> F, inject |-> I, elicitation |-> L]

AskedCaps ==
  CapsOf(Families(asked), Masks(asked), asked.flow,
         IF asked.delivery = <<>> THEN None ELSE Range(asked.delivery), asked.elicitation)

AskedForm ==
  [modes |-> Modes(Intercepts(asked), asked.observe),
   capabilities |-> IF ~ Intercepts(asked) THEN None ELSE AskedCaps]

LEMMA AsSetsForm ==
  ASSUME NEW m, NEW c
  PROVE  AsSets([modes |-> m, capabilities |-> c])
           = [modes |-> m, capabilities |-> IF c = None THEN None ELSE SetCaps(c)]
BY DEF AsSets

LEMMA AsSetsOfCaps ==
  ASSUME NEW m, NEW E, NEW M, NEW F, NEW I, NEW L, CapsOf(E, M, F, I, L) # None
  PROVE  AsSets([modes |-> m, capabilities |-> CapsOf(E, M, F, I, L)])
           = [modes |-> m, capabilities |-> CapsOf(Range(E), M, SetFlow(F), SetList(I), L)]
<1> DEFINE C == CapsOf(E, M, F, I, L)
<1>1. SetCaps(C) = CapsOf(Range(E), M, SetFlow(F), SetList(I), L)
  BY DEF SetCaps, CapsOf
<1> HIDE DEF C
<1>2. AsSets([modes |-> m, capabilities |-> C]) = [modes |-> m, capabilities |-> SetCaps(C)]
  <2>1. C # None
    BY DEF C
  <2> QED BY <2>1, AsSetsForm
<1> QED BY <1>1, <1>2 DEF C

LEMMA AsSetsOfNone ==
  ASSUME NEW m
  PROVE  AsSets([modes |-> m, capabilities |-> None]) = [modes |-> m, capabilities |-> None]
BY AsSetsForm

LEMMA CapsPresent ==
  ASSUME Present(rule), NEW E \in Seq(rule.effects),
         NEW M \in UNION {[T -> [ModifyOperations -> BOOLEAN]] : T \in SUBSET DOMAIN rule.modify},
         NEW F \in {None} \cup FlowGrants(Seq(rule.flow)), NEW I \in {None} \cup Seq(rule.delivery),
         NEW L \in SUBSET rule.elicitation
  PROVE  CapsOf(E, M, F, I, L) # None
<1>1. CapsOf(E, M, F, I, L) \in WireCapabilities(rule)
  BY DEF CapsOf, WireCapabilities
<1> QED BY <1>1 DEF Present

(* One language: what it writes is the record's, list by list.             *)
LEMMA Agrees ==
  ASSUME HostInv, NEW wire, NEW E \in Seq(rule.effects), NEW F \in {None} \cup FlowGrants(Seq(rule.flow)),
         NEW I \in {None} \cup Seq(rule.delivery),
         wire = [modes |-> Modes(Intercepts(asked), asked.observe),
                 capabilities |-> IF ~ Intercepts(asked) THEN None
                                  ELSE CapsOf(E, Masks(asked), F, I, asked.elicitation)],
         Range(E) = Families(asked), SetFlow(F) = asked.flow,
         SetList(I) = IF asked.delivery = <<>> THEN None ELSE Range(asked.delivery)
  PROVE  AsSets(wire) = AskedForm
<1> DEFINE m == Modes(Intercepts(asked), asked.observe)
<1>1. CASE ~ Intercepts(asked)
  <2>1. wire = [modes |-> m, capabilities |-> None] /\ AskedForm = [modes |-> m, capabilities |-> None]
    BY <1>1 DEF AskedForm
  <2> QED BY <2>1, AsSetsOfNone
<1>2. CASE Intercepts(asked)
  <2> DEFINE M == Masks(asked)
             L == asked.elicitation
             caps == CapsOf(E, M, F, I, L)
             sets == CapsOf(Range(E), M, SetFlow(F), SetList(I), L)
  <2>1. Present(rule) /\ L \in SUBSET rule.elicitation
    BY RuleFacts DEF HostInv, Asks
  <2>2. M \in UNION {[T -> [ModifyOperations -> BOOLEAN]] : T \in SUBSET DOMAIN rule.modify}
    BY MasksFacts
  <2>3. wire = [modes |-> m, capabilities |-> caps]
    BY <1>2
  <2>4. AskedForm = [modes |-> m, capabilities |-> sets]
    BY <1>2 DEF AskedForm, AskedCaps
  <2> HIDE DEF m, M, L
  <2>5. caps # None
    BY <2>1, <2>2, CapsPresent
  <2>6. AsSets([modes |-> m, capabilities |-> caps]) = [modes |-> m, capabilities |-> sets]
    BY <2>5, AsSetsOfCaps
  <2> QED BY <2>3, <2>4, <2>6
<1> QED BY <1>1, <1>2

LEMMA SetFlowIs ==
  ASSUME Present(rule), NEW F \in FlowGrants(Seq(rule.flow)), NEW flow \in FlowGrants(SUBSET rule.flow),
         Range(F.operations) = flow.operations, F.remaining = flow.remaining, F.count = flow.count,
         F.most = flow.most
  PROVE  SetFlow(F) = flow
<1> DEFINE S == Range(F.operations)
<1>1. SetFlow(F) = [F EXCEPT !.operations = S]
  BY DEF SetFlow, Present
<1> HIDE DEF S
<1>2. [F EXCEPT !.operations = S] = Flow(S, F.remaining, F.count, F.most)
  BY FlowFacts
<1>3. flow = Flow(flow.operations, flow.remaining, flow.count, flow.most)
  BY FlowFacts
<1> QED BY <1>1, <1>2, <1>3 DEF S

LEMMA SetListIs ==
  ASSUME Present(rule), NEW list \in Seq(rule.delivery), NEW delivery, Range(list) = Range(delivery)
  PROVE  SetList(list) = Range(delivery) /\ SetList(None) = None
BY DEF SetList, Present

LEMMA RustAgrees == HostInv => AsSets(RustWire) = AskedForm
<1> SUFFICES ASSUME HostInv PROVE AsSets(RustWire) = AskedForm
  OBVIOUS
<1> DEFINE E == SetToSeq(Families(asked))
           F == builder.flow
           I == builder.inject
<1>1. Compiled(rule) /\ Present(rule) /\ Asks(asked) /\ Built(builder, asked)
  BY RuleFacts DEF HostInv
<1>2. E \in Seq(rule.effects) /\ Range(E) = Families(asked)
  <2>1. E \in Seq(Families(asked)) /\ Range(E) = Families(asked)
    BY AskedFacts, ListedFacts
  <2> HIDE DEF E
  <2> QED BY <2>1, AskedFacts, SeqMonotonic
<1>3. F \in {None} \cup FlowGrants(Seq(rule.flow)) /\ SetFlow(F) = asked.flow
  BY <1>1 DEF Built, SameFlow, SetFlow, Present
<1>4. /\ I \in {None} \cup Seq(rule.delivery)
      /\ SetList(I) = IF asked.delivery = <<>> THEN None ELSE Range(asked.delivery)
  BY <1>1 DEF Built, SameDelivery, SetList, Present
<1>5. RustWire = [modes |-> Modes(Intercepts(asked), asked.observe),
                  capabilities |-> IF ~ Intercepts(asked) THEN None
                                   ELSE CapsOf(E, Masks(asked), F, I, asked.elicitation)]
  BY RustForm DEF CapsOf
<1> HIDE DEF E, F, I
<1> QED BY <1>2, <1>3, <1>4, <1>5, Agrees

LEMMA RecordAgrees == HostInv => AsSets(RecordForm) = AskedForm
<1> SUFFICES ASSUME HostInv PROVE AsSets(RecordForm) = AskedForm
  OBVIOUS
<1> DEFINE E == EffectList(asked)
           F == RecordFlow(asked)
           I == IF asked.delivery = <<>> THEN None ELSE asked.delivery
<1>1. Present(rule) /\ Asks(asked)
  BY RuleFacts DEF HostInv
<1>2. E \in Seq(rule.effects) /\ Range(E) = Families(asked)
  BY EffectListFacts
<1>3. F \in {None} \cup FlowGrants(Seq(rule.flow)) /\ SetFlow(F) = asked.flow
  <2>1. CASE asked.flow = None
    BY <2>1, WrittenFlow DEF SetFlow
  <2>2. CASE asked.flow # None
    <3>1. asked.flow \in FlowGrants(SUBSET rule.flow)
      BY <2>2, AskedFacts
    <3>2. /\ F \in FlowGrants(Seq(rule.flow)) /\ Range(F.operations) = asked.flow.operations
          /\ F.remaining = asked.flow.remaining /\ F.count = asked.flow.count /\ F.most = asked.flow.most
      BY <2>2, WrittenFlow
    <3> HIDE DEF F
    <3> QED BY <1>1, <3>1, <3>2, SetFlowIs
  <2> QED BY <2>1, <2>2
<1>4. /\ I \in {None} \cup Seq(rule.delivery)
      /\ SetList(I) = IF asked.delivery = <<>> THEN None ELSE Range(asked.delivery)
  BY WrittenDelivery DEF SetList
<1>5. RecordForm = [modes |-> Modes(Intercepts(asked), asked.observe),
                    capabilities |-> IF ~ Intercepts(asked) THEN None
                                     ELSE CapsOf(E, Masks(asked), F, I, asked.elicitation)]
  BY Zenon DEF RecordForm, CapsOf
<1> HIDE DEF E, F, I
<1> QED BY <1>2, <1>3, <1>4, <1>5, Agrees

LEMMA ObjectAgrees == HostInv => AsSets(ObjectWire(ObjectOf(asked))) = AskedForm
<1> SUFFICES ASSUME HostInv PROVE AsSets(ObjectWire(ObjectOf(asked))) = AskedForm
  OBVIOUS
<1> DEFINE o == ObjectOf(asked)
           g == GrantsOf(asked)
           C == asked.controls
           m == Granted(asked) # {}
           f == asked.flow # None
           d == asked.delivery # <<>>
           E == FamilyList(C, m, f, d)
           R == RecordFlow(asked)
           F == IF R = None THEN None ELSE [R EXCEPT !.operations = Distinct(@)]
           I == IF asked.delivery = <<>> THEN None ELSE Distinct(asked.delivery)
<1>1. Compiled(rule) /\ Present(rule) /\ Asks(asked)
  BY RuleFacts DEF HostInv
<1>2. E \in Seq(rule.effects) /\ Range(E) = Families(asked)
  <2>1. EffectList(asked) = E
    BY DEF EffectList, FamilyList, Perhaps
  <2> QED BY <2>1, EffectListFacts
<1>3. F \in {None} \cup FlowGrants(Seq(rule.flow)) /\ SetFlow(F) = asked.flow
  <2>1. CASE asked.flow = None
    BY <2>1, WrittenFlow DEF SetFlow
  <2>2. CASE asked.flow # None
    <3> DEFINE list == Distinct(R.operations)
    <3>1. asked.flow \in FlowGrants(SUBSET rule.flow)
      BY <2>2, AskedFacts
    <3>2. /\ R # None /\ R \in FlowGrants(Seq(rule.flow)) /\ R.operations \in Seq(rule.flow)
          /\ Range(R.operations) = asked.flow.operations
          /\ R.remaining = asked.flow.remaining /\ R.count = asked.flow.count /\ R.most = asked.flow.most
      BY <2>2, WrittenFlow
    <3>3. list \in Seq(rule.flow) /\ Range(list) = asked.flow.operations
      BY <3>2, DistinctFacts
    <3>4. F = [R EXCEPT !.operations = list]
      BY <3>2
    <3> HIDE DEF list, R, F
    <3>5. F = Flow(list, R.remaining, R.count, R.most) /\ F \in FlowGrants(Seq(rule.flow))
      BY <3>2, <3>3, <3>4, FlowFacts
    <3>6. F.operations = list /\ F.remaining = R.remaining /\ F.count = R.count /\ F.most = R.most
      BY <3>5, FlowFields
    <3> QED BY <1>1, <3>1, <3>2, <3>3, <3>5, <3>6, SetFlowIs
  <2> QED BY <2>1, <2>2
<1>4. /\ I \in {None} \cup Seq(rule.delivery)
      /\ SetList(I) = IF asked.delivery = <<>> THEN None ELSE Range(asked.delivery)
  <2> DEFINE list == Distinct(asked.delivery)
  <2>1. asked.delivery \in Seq(rule.delivery)
    BY WrittenDelivery
  <2>2. list \in Seq(rule.delivery) /\ Range(list) = Range(asked.delivery)
    BY <2>1, DistinctFacts
  <2> HIDE DEF list
  <2>3. SetList(list) = Range(asked.delivery) /\ SetList(None) = None
    BY <1>1, <2>2, SetListIs
  <2> QED BY <2>2, <2>3 DEF list
<1>5. GrantsForm(g) = CapsOf(E, Masks(asked), F, I, asked.elicitation)
  <2>1. /\ g.controls = TrueOn(C) /\ g.modify = [t \in Granted(asked) |-> asked.modify[t]]
        /\ g.flow = R /\ g.inject = AskedTimings(asked) /\ g.elicitation = AskedModes(asked)
    BY GrantsOfFields
  <2>2. DOMAIN g.controls = C /\ DOMAIN g.modify = Granted(asked)
    BY <2>1 DEF TrueOn
  <2>3. (R # None) = f
    BY WrittenFlow
  <2>4. (g.inject # None) = d
    BY <2>1, AskedTimingsFacts
  <2>5. [t \in DOMAIN g.modify |-> [op \in ModifyOperations |-> op \in g.modify[t]]] = Masks(asked)
    BY <2>1 DEF Masks
  <2>6. (IF g.inject = None THEN None ELSE Distinct(g.inject.deliverAt)) = I
    BY <2>1, AskedTimingsFacts
  <2>7. (IF g.elicitation = None THEN {} ELSE DOMAIN g.elicitation) = asked.elicitation
    BY <2>1, AskedModesFacts
  <2>8. FamilyList(DOMAIN g.controls, DOMAIN g.modify # {}, g.flow # None, g.inject # None) = E
    BY <2>1, <2>2, <2>3, <2>4
  <2>9. (IF g.flow = None THEN None ELSE [g.flow EXCEPT !.operations = Distinct(@)]) = F
    BY <2>1
  <2> HIDE DEF g, E, F, I
  <2> QED BY <2>5, <2>6, <2>7, <2>8, <2>9, Zenon DEF GrantsForm, CapsOf
<1>6. ObjectWire(o) = [modes |-> Modes(Intercepts(asked), asked.observe),
                       capabilities |-> IF ~ Intercepts(asked) THEN None
                                        ELSE CapsOf(E, Masks(asked), F, I, asked.elicitation)]
  <2> DEFINE i == Intercepts(asked)
  <2>1. /\ (o.grants # None) = i /\ (o.observe = TRUE) = asked.observe
        /\ o.grants = IF ~ i THEN None ELSE g
    <3>1. (o.grants # None <=> i) /\ (o.observe = TRUE <=> asked.observe)
      BY ObjectOwned
    <3>2. i \in BOOLEAN /\ asked.observe \in BOOLEAN
      BY <1>1 DEF Asks, Intercepts
    <3>3. o.grants = IF ~ i THEN None ELSE g
      BY ObjectOfForm
    <3> HIDE DEF o, i, g
    <3> QED BY <3>1, <3>2, <3>3
  <2>2. ObjectWire(o) = [modes |-> Modes(o.grants # None, o.observe = TRUE),
                         capabilities |-> IF o.grants = None THEN None ELSE GrantsForm(o.grants)]
    BY ObjectForm
  <2> DEFINE caps == CapsOf(E, Masks(asked), F, I, asked.elicitation)
  <2>3. GrantsForm(g) = caps
    BY <1>5
  <2> HIDE DEF o, i, g, caps
  <2>4. (IF o.grants = None THEN None ELSE GrantsForm(o.grants)) = IF ~ i THEN None ELSE caps
    BY <2>1, <2>3
  <2> QED BY <2>1, <2>2, <2>4 DEF i, caps
<1> HIDE DEF o, E, F, I
<1> QED BY <1>2, <1>3, <1>4, <1>6, Agrees DEF o

LEMMA InvLanguagesAgree == HostInv => LanguagesAgree
<1> SUFFICES ASSUME HostInv PROVE LanguagesAgree
  OBVIOUS
<1>1. AsSets(GoWire) = AskedForm /\ AsSets(PythonWire) = AskedForm
  BY RecordForms, RecordAgrees
<1>2. AsSets(RustWire) = AskedForm /\ AsSets(ObjectWire(ObjectOf(asked))) = AskedForm
  BY RustAgrees, ObjectAgrees
<1> QED BY <1>1, <1>2 DEF LanguagesAgree

(* In every reachable state the four SDKs write the same declaration, up   *)
(* to the order of its lists.                                              *)
THEOREM AlwaysLanguagesAgree == Spec => []LanguagesAgree
BY AlwaysHostInv, InvLanguagesAgree, PTL

-------------------------------------------------------------------------------
(* Subscriptions.  What Rust's builder holds follows from the request, but *)
(* for the selectors that are repeated, a duration that no request can     *)
(* carry, which is 0, and one that Rust cannot express.                    *)
BuilderTimeout(duration) ==
  IF duration = Unset \/ duration < 0 THEN Unset ELSE RustTimeout(duration)

Follows(built, wanted) ==
  /\ Composable(wanted.mode, wanted.events)
  /\ built \in Named(Timeouts \cup {0})
  /\ built.mode = wanted.mode /\ built.events = Names(wanted.events)
  /\ built.policy = wanted.policy /\ built.content = wanted.content
  /\ built.timeout = BuilderTimeout(wanted.timeout)

SubscriptionInv ==
  /\ request = Unset => composed = Unset
  /\ request # Unset => /\ request \in Named(Timeouts)
                        /\ request.mode = "observe" => request.timeout = Unset /\ request.policy = Unset
  /\ composed # Unset => Follows(composed, request)

LEMMA NamesFacts ==
  ASSUME NEW V, NEW list \in Seq(V)
  PROVE  /\ Names(list) \in Seq(V) /\ ToSet(Names(list)) = ToSet(list) /\ IsInjective(Names(list))
         /\ IsInjective(list) => Names(list) = list
         /\ Names(list) = <<>> <=> list = <<>>
<1>1. Names(list) = Distinct(list)
  BY DEF Names, Distinct, Extend
<1>2. /\ Distinct(list) \in Seq(V) /\ Range(Distinct(list)) = Range(list) /\ IsInjective(Distinct(list))
      /\ IsInjective(list) => Distinct(list) = list
  BY DistinctFacts
<1>3. Distinct(list) = <<>> <=> list = <<>>
  BY <1>2, RangeOfList
<1>4. \A s : ToSet(s) = Range(s)
  BY DEF ToSet, Range
<1> QED BY <1>1, <1>2, <1>3, <1>4

LEMMA RustTimeoutFacts ==
  ASSUME NEW d \in Timeouts
  PROVE  /\ d \in Int /\ d # Unset /\ RustTimeout(d) \in Timeouts \cup {0} /\ RustTimeout(d) # Unset
         /\ BuilderTimeout(d) = IF d < 0 THEN Unset ELSE RustTimeout(d)
BY SubscriptionAssumption DEF RustTimeout, BuilderTimeout

LEMMA SubscriptionInitInv == SubscriptionInit => SubscriptionInv
BY DEF SubscriptionInit, SubscriptionInv

LEMMA BeginInv ==
  ASSUME SubscriptionInv, NEW mode \in {"intercept", "observe"}, Begin(mode) PROVE SubscriptionInv'
<1>1. PICK selectors \in BoundedSeq(Selectors, MaxSelectors) :
        /\ request' = Parts(mode, selectors)
        /\ composed' = IF Composable(mode, selectors) THEN Parts(mode, Names(selectors)) ELSE Unset
  BY DEF Begin
<1>2. selectors \in Seq(Selectors)
  <2>1. PICK m \in 0..MaxSelectors : selectors \in [1..m -> Selectors]
    BY DEF BoundedSeq, SeqOf
  <2>2. m \in Nat
    BY SubscriptionAssumption
  <2> QED BY <2>1, <2>2, SeqDef
<1>3. Names(selectors) \in Seq(Selectors)
  BY <1>2, NamesFacts
<1>4. \A list \in Seq(Selectors) : Parts(mode, list) \in Named(Timeouts) /\ Parts(mode, list) \in Named(Timeouts \cup {0})
  BY DEF Parts, Named
<1>5. \A list : /\ Parts(mode, list).mode = mode /\ Parts(mode, list).events = list
                /\ Parts(mode, list).timeout = Unset /\ Parts(mode, list).policy = Unset
                /\ Parts(mode, list).content = Unset
  BY DEF Parts
<1>6. request' \in Named(Timeouts) /\ request'.mode = mode /\ request'.events = selectors
      /\ request'.timeout = Unset /\ request'.policy = Unset /\ request'.content = Unset
  BY <1>1, <1>2, <1>4, <1>5
<1>7. request' # Unset
  <2>1. request' \in Named(Timeouts \cup {0})
    BY <1>1, <1>2, <1>4
  <2> QED BY <2>1, SubscriptionAssumption
<1>8. ASSUME composed' # Unset PROVE Follows(composed, request)'
  <2>1. Composable(mode, selectors) /\ composed' = Parts(mode, Names(selectors))
    BY <1>1, <1>8
  <2>2. /\ composed' \in Named(Timeouts \cup {0}) /\ composed'.mode = mode
        /\ composed'.events = Names(selectors)
        /\ composed'.timeout = Unset /\ composed'.policy = Unset /\ composed'.content = Unset
    BY <1>3, <1>4, <1>5, <2>1
  <2>3. BuilderTimeout(Unset) = Unset
    BY DEF BuilderTimeout
  <2> QED BY <1>6, <2>1, <2>2, <2>3 DEF Follows
<1> QED BY <1>6, <1>7, <1>8 DEF SubscriptionInv

WithTimeout(s, d) == [s EXCEPT !["timeout"] = d]
WithPolicy(s, p)  == [s EXCEPT !["policy"] = p]
WithContent(s, c) == [s EXCEPT !["content"] = c]

LEMMA NamedTimeout ==
  ASSUME NEW durations, NEW s \in Named(durations), NEW d \in durations \cup {Unset}
  PROVE  LET new == WithTimeout(s, d)
         IN  /\ new \in Named(durations) /\ new.timeout = d /\ new.mode = s.mode
             /\ new.events = s.events /\ new.policy = s.policy /\ new.content = s.content
BY DEF Named, WithTimeout

LEMMA NamedPolicy ==
  ASSUME NEW durations, NEW s \in Named(durations), NEW p \in Policies \cup {Unset}
  PROVE  LET new == WithPolicy(s, p)
         IN  /\ new \in Named(durations) /\ new.policy = p /\ new.mode = s.mode
             /\ new.events = s.events /\ new.timeout = s.timeout /\ new.content = s.content
BY DEF Named, WithPolicy

LEMMA NamedContent ==
  ASSUME NEW durations, NEW s \in Named(durations), NEW c \in Contents \cup {Unset}
  PROVE  LET new == WithContent(s, c)
         IN  /\ new \in Named(durations) /\ new.content = c /\ new.mode = s.mode
             /\ new.events = s.events /\ new.timeout = s.timeout /\ new.policy = s.policy
BY DEF Named, WithContent

LEMMA NotUnset ==
  ASSUME NEW s PROVE s \in Named(Timeouts) \/ s \in Named(Timeouts \cup {0}) => s # Unset
<1>1. s \in Named(Timeouts) => s \in Named(Timeouts \cup {0})
  BY DEF Named
<1> QED BY <1>1, SubscriptionAssumption

LEMMA SetTimeoutInv == SubscriptionInv /\ SetTimeout => SubscriptionInv'
<1> SUFFICES ASSUME SubscriptionInv, SetTimeout PROVE SubscriptionInv'
  OBVIOUS
<1>1. request # Unset /\ request.mode = "intercept" /\ request \in Named(Timeouts)
  BY DEF SubscriptionInv, SetTimeout
<1>2. PICK d \in Timeouts : SetPart("timeout", d, IF d < 0 THEN Unset ELSE RustTimeout(d))
  BY DEF SetTimeout
<1> DEFINE b == IF d < 0 THEN Unset ELSE RustTimeout(d)
<1>3. /\ request' = WithTimeout(request, d)
      /\ composed' = IF composed = Unset THEN Unset ELSE WithTimeout(composed, b)
  BY <1>2 DEF SetPart, WithTimeout
<1>4. b \in Timeouts \cup {0} \cup {Unset} /\ b = BuilderTimeout(d)
  BY RustTimeoutFacts
<1> HIDE DEF b
<1>5. /\ request' \in Named(Timeouts) /\ request'.timeout = d /\ request'.mode = request.mode
      /\ request'.events = request.events /\ request'.policy = request.policy
      /\ request'.content = request.content
  BY <1>1, <1>3, NamedTimeout
<1>6. ASSUME composed' # Unset PROVE Follows(composed, request)'
  <2>1. composed # Unset /\ composed' = WithTimeout(composed, b)
    BY <1>3, <1>6
  <2>2. Follows(composed, request)
    BY <2>1 DEF SubscriptionInv
  <2>3. /\ composed' \in Named(Timeouts \cup {0}) /\ composed'.timeout = b
        /\ composed'.mode = composed.mode /\ composed'.events = composed.events
        /\ composed'.policy = composed.policy /\ composed'.content = composed.content
    BY <1>4, <2>1, <2>2, NamedTimeout DEF Follows
  <2> QED BY <1>4, <1>5, <2>2, <2>3 DEF Follows
<1>7. request' # Unset
  BY <1>5, NotUnset
<1> QED BY <1>1, <1>5, <1>6, <1>7 DEF SubscriptionInv

LEMMA SetPolicyInv == SubscriptionInv /\ SetPolicy => SubscriptionInv'
<1> SUFFICES ASSUME SubscriptionInv, SetPolicy PROVE SubscriptionInv'
  OBVIOUS
<1>1. request # Unset /\ request.mode = "intercept" /\ request \in Named(Timeouts)
  BY DEF SubscriptionInv, SetPolicy
<1>2. PICK p \in Policies : SetPart("policy", p, p)
  BY DEF SetPolicy
<1>3. /\ request' = WithPolicy(request, p)
      /\ composed' = IF composed = Unset THEN Unset ELSE WithPolicy(composed, p)
  BY <1>2 DEF SetPart, WithPolicy
<1>4. /\ request' \in Named(Timeouts) /\ request'.policy = p /\ request'.mode = request.mode
      /\ request'.events = request.events /\ request'.timeout = request.timeout
      /\ request'.content = request.content
  BY <1>1, <1>3, NamedPolicy
<1>5. ASSUME composed' # Unset PROVE Follows(composed, request)'
  <2>1. composed # Unset /\ composed' = WithPolicy(composed, p)
    BY <1>3, <1>5
  <2>2. Follows(composed, request)
    BY <2>1 DEF SubscriptionInv
  <2>3. /\ composed' \in Named(Timeouts \cup {0}) /\ composed'.policy = p
        /\ composed'.mode = composed.mode /\ composed'.events = composed.events
        /\ composed'.timeout = composed.timeout /\ composed'.content = composed.content
    BY <2>1, <2>2, NamedPolicy DEF Follows
  <2> QED BY <1>4, <2>2, <2>3 DEF Follows
<1>6. request' # Unset
  BY <1>4, NotUnset
<1> QED BY <1>1, <1>4, <1>5, <1>6 DEF SubscriptionInv

LEMMA SetContentInv == SubscriptionInv /\ SetContent => SubscriptionInv'
<1> SUFFICES ASSUME SubscriptionInv, SetContent PROVE SubscriptionInv'
  OBVIOUS
<1>1. PICK c \in Contents : SetPart("content", c, c)
  BY DEF SetContent
<1>2. request # Unset /\ request \in Named(Timeouts)
  BY <1>1 DEF SubscriptionInv, SetPart
<1>3. /\ request' = WithContent(request, c)
      /\ composed' = IF composed = Unset THEN Unset ELSE WithContent(composed, c)
  BY <1>1 DEF SetPart, WithContent
<1>4. /\ request' \in Named(Timeouts) /\ request'.content = c /\ request'.mode = request.mode
      /\ request'.events = request.events /\ request'.timeout = request.timeout
      /\ request'.policy = request.policy
  BY <1>2, <1>3, NamedContent
<1>5. ASSUME composed' # Unset PROVE Follows(composed, request)'
  <2>1. composed # Unset /\ composed' = WithContent(composed, c)
    BY <1>3, <1>5
  <2>2. Follows(composed, request)
    BY <2>1 DEF SubscriptionInv
  <2>3. /\ composed' \in Named(Timeouts \cup {0}) /\ composed'.content = c
        /\ composed'.mode = composed.mode /\ composed'.events = composed.events
        /\ composed'.timeout = composed.timeout /\ composed'.policy = composed.policy
    BY <2>1, <2>2, NamedContent DEF Follows
  <2> QED BY <1>4, <2>2, <2>3 DEF Follows
<1>6. request' # Unset
  BY <1>4, NotUnset
<1> QED BY <1>2, <1>4, <1>5, <1>6 DEF SubscriptionInv

LEMMA SubscriptionStepInv == SubscriptionInv /\ [SubscriptionNext]_subscriptionVars => SubscriptionInv'
<1> SUFFICES ASSUME SubscriptionInv, [SubscriptionNext]_subscriptionVars PROVE SubscriptionInv'
  OBVIOUS
<1>1. ASSUME NEW mode \in {"intercept", "observe"}, Begin(mode) PROVE SubscriptionInv'
  BY <1>1, BeginInv
<1>2. CASE SetTimeout
  BY <1>2, SetTimeoutInv
<1>3. CASE SetPolicy
  BY <1>3, SetPolicyInv
<1>4. CASE SetContent
  BY <1>4, SetContentInv
<1>5. CASE UNCHANGED subscriptionVars
  <2>1. request' = request /\ composed' = composed
    BY <1>5 DEF subscriptionVars
  <2>2. Follows(composed, request)' <=> Follows(composed, request)
    BY <2>1 DEF Follows
  <2> QED BY <2>1, <2>2 DEF SubscriptionInv
<1> QED BY <1>1, <1>2, <1>3, <1>4, <1>5 DEF SubscriptionNext

LEMMA AlwaysSubscriptionInv == SubscriptionSpec => []SubscriptionInv
BY SubscriptionInitInv, SubscriptionStepInv, PTL DEF SubscriptionSpec

(* The schemas look at the selectors and at the other parts separately.    *)
Selected(mode, events) ==
  /\ events # <<>> /\ IsInjective(events)
  /\ \A s \in ToSet(events) : Len(s) = 1 /\ s # <<"*">> => s[1] \in Listed[mode]

Rest(subscription) ==
  /\ subscription.content # Unset
  /\ IF subscription.mode = "intercept"
       THEN subscription.policy # Unset /\ subscription.timeout # Unset
              /\ subscription.timeout >= 2 /\ Whole(subscription.timeout)
       ELSE subscription.policy = Unset /\ subscription.timeout = Unset

LEMMA AcceptsIs ==
  ASSUME NEW s PROVE Accepts(s) <=> Selected(s.mode, s.events) /\ Rest(s)
BY DEF Accepts, Selected, Rest

LEMMA WholeFacts ==
  ASSUME NEW d \in Int
  PROVE  /\ d > 0 /\ Whole(d) <=> d >= 2 /\ Whole(d)
         /\ d >= 0 => (RustTimeout(d) # 0 <=> d >= 2 /\ Whole(d))
         /\ RustTimeout(d) # 0 => RustTimeout(d) = d
BY DEF Whole, RustTimeout

LEMMA ToSetFacts ==
  ASSUME NEW V, NEW list \in Seq(V)
  PROVE  ToSet(list) \subseteq V /\ (list = <<>> <=> ToSet(list) = {})
<1>1. ToSet(list) = Range(list)
  BY DEF ToSet, Range
<1> QED BY <1>1, RangeOfList

LEMMA SelectedSame ==
  ASSUME NEW V, NEW s \in Seq(V), NEW t \in Seq(V), ToSet(s) = ToSet(t), IsInjective(s), IsInjective(t),
         NEW mode
  PROVE  Selected(mode, s) <=> Selected(mode, t)
BY ToSetFacts DEF Selected

LEMMA RestSame ==
  ASSUME NEW s, NEW t, s.mode = t.mode, s.timeout = t.timeout, s.policy = t.policy, s.content = t.content
  PROVE  Rest(s) <=> Rest(t)
BY DEF Rest

WithEvents(s, events) == [s EXCEPT !.events = events]

LEMMA NamedFields ==
  ASSUME NEW durations, NEW s \in Named(durations)
  PROVE  /\ s.mode \in {"intercept", "observe"} /\ s.events \in Seq(Selectors)
         /\ s.timeout \in durations \cup {Unset} /\ s.policy \in Policies \cup {Unset}
         /\ s.content \in Contents \cup {Unset}
         /\ s = [mode |-> s.mode, events |-> s.events, timeout |-> s.timeout, policy |-> s.policy,
                 content |-> s.content]
BY DEF Named

LEMMA WithEventsFacts ==
  ASSUME NEW durations, NEW s \in Named(durations), NEW e
  PROVE  LET new == WithEvents(s, e)
         IN  /\ new.events = e /\ new.mode = s.mode /\ new.timeout = s.timeout
             /\ new.policy = s.policy /\ new.content = s.content
             /\ new = [mode |-> s.mode, events |-> e, timeout |-> s.timeout, policy |-> s.policy,
                       content |-> s.content]
BY DEF Named, WithEvents

(* What Rust offers.                                                       *)
LEMMA RustOffered ==
  ASSUME SubscriptionInv, NEW s \in RustOffers
  PROVE  /\ s = composed /\ Follows(composed, request) /\ request \in Named(Timeouts)
         /\ Rest(composed) <=> Rest(request)
         /\ Rest(composed) => composed.timeout = request.timeout
         /\ Rest(composed) <=> request.timeout = Unset \/ RustTimeout(request.timeout) # 0
<1>1. s = composed /\ composed # Unset /\ AllParts(composed)
  BY DEF RustOffers
<1>2. /\ Follows(composed, request) /\ request # Unset /\ request \in Named(Timeouts)
      /\ request.mode = "observe" => request.timeout = Unset /\ request.policy = Unset
  BY <1>1 DEF SubscriptionInv
<1> DEFINE d == request.timeout
           b == composed.timeout
<1>3. /\ composed.mode = request.mode /\ composed.policy = request.policy
      /\ composed.content = request.content /\ composed.content # Unset /\ b = BuilderTimeout(d)
      /\ composed.mode = "intercept" => b # Unset /\ composed.policy # Unset
      /\ request.mode \in {"intercept", "observe"} /\ d \in Timeouts \cup {Unset}
  BY <1>1, <1>2, NamedFields DEF Follows, AllParts
<1>4. CASE request.mode = "observe"
  <2>1. d = Unset /\ request.policy = Unset /\ b = Unset
    BY <1>2, <1>3, <1>4 DEF BuilderTimeout
  <2>2. Rest(composed) /\ Rest(request)
    BY <1>3, <1>4, <2>1 DEF Rest
  <2> QED BY <1>1, <1>2, <2>1, <2>2
<1>5. CASE request.mode = "intercept"
  <2>1. b # Unset /\ composed.policy # Unset
    BY <1>3, <1>5
  <2>2. d \in Timeouts
    BY <1>3, <2>1 DEF BuilderTimeout
  <2>3. d \in Int /\ d # Unset /\ d >= 0 /\ b = RustTimeout(d) /\ b \in Int
    BY <1>3, <2>1, <2>2, RustTimeoutFacts, SubscriptionAssumption
  <2> HIDE DEF d, b
  <2>4. /\ RustTimeout(d) # 0 <=> d >= 2 /\ Whole(d)
        /\ RustTimeout(d) # 0 => RustTimeout(d) = d
    BY <2>3, WholeFacts
  <2>5. Rest(composed) <=> b >= 2 /\ Whole(b)
    BY <1>3, <1>5, <2>1 DEF Rest, b
  <2>6. Rest(request) <=> d >= 2 /\ Whole(d)
    BY <1>3, <1>5, <2>1, <2>3 DEF Rest, d
  <2>7. b >= 2 /\ Whole(b) <=> RustTimeout(d) # 0
    BY <2>3, <2>4
  <2> QED BY <1>1, <1>2, <2>3, <2>4, <2>5, <2>6, <2>7 DEF d, b
<1> QED BY <1>3, <1>4, <1>5

(* What the other three take at once.                                      *)
OnlyRequest == {s \in {request} : Accepts(s)}

LEMMA OffersAre ==
  /\ Offers("rust") = RustOffers /\ Offers("rust try") = RustTried
  /\ Offers("go") = GoOffers /\ Offers("go checked") = GoChecked
  /\ Offers("python") = PythonOffers /\ Offers("typescript") = TypeScriptOffers
BY DEF Offers

LEMMA SelectorLengths ==
  ASSUME NEW s \in Selectors PROVE Len(s) = 1 \/ Len(s) = 2
BY DEF Selectors

LEMMA TakenAtOnce ==
  ASSUME SubscriptionInv, Wanted
  PROVE  \A form \in Forms \ {"rust", "rust try"} : Taken(form) = OnlyRequest
<1>1. request # Unset /\ request \in Named(Timeouts)
  BY DEF Wanted, SubscriptionInv
<1>2. Taken("go") = OnlyRequest
  BY OffersAre DEF Taken, GoOffers, OnlyRequest
<1>3. ASSUME Accepts(request)
      PROVE  /\ Selected(request.mode, request.events)
             /\ request.timeout = Unset \/ (request.timeout \in Int /\ request.timeout >= 2 /\ Whole(request.timeout)
                                              /\ request.timeout > 0)
             /\ request.mode = "intercept" => request.policy \in Policies /\ request.timeout # Unset
  <2>1. Selected(request.mode, request.events) /\ Rest(request)
    BY <1>3, AcceptsIs
  <2> DEFINE d == request.timeout
  <2>2. d \in Timeouts \cup {Unset} /\ request.policy \in Policies \cup {Unset}
        /\ request.mode \in {"intercept", "observe"}
    BY <1>1, NamedFields
  <2>3. d = Unset \/ (d \in Int /\ d >= 2 /\ Whole(d))
    BY <2>1, <2>2, SubscriptionAssumption DEF Rest
  <2>4. request.mode = "intercept" => request.policy \in Policies /\ d # Unset
    BY <2>1, <2>2 DEF Rest
  <2> HIDE DEF d
  <2>5. d = Unset \/ (d \in Int /\ d >= 2 /\ Whole(d) /\ d > 0)
    BY <2>3
  <2> QED BY <2>1, <2>4, <2>5 DEF d
<1>4. Accepts(request) => request.timeout = Unset \/ GoMilliseconds(request.timeout) # {}
  BY <1>3 DEF GoMilliseconds
<1>5. Accepts(request) => request.timeout = Unset \/ PythonTimeout(request.timeout) # {}
  BY <1>3 DEF PythonTimeout
<1>6. ASSUME Accepts(request)
      PROVE  /\ CheckedEvents(request.mode, request.events)
             /\ request.mode = "intercept" => request.policy \in Policies /\ DurationOf(request.timeout) # {}
  <2>1. \A s \in ToSet(request.events) : Len(s) = 1 \/ Len(s) = 2
    <3>1. ToSet(request.events) \subseteq Selectors
      BY <1>1, NamedFields, ToSetFacts
    <3> QED BY <3>1, SelectorLengths
  <2>2. CheckedEvents(request.mode, request.events)
    BY <1>3, <1>6, <2>1 DEF CheckedEvents, Selected
  <2>3. request.mode = "intercept" => request.policy \in Policies /\ DurationOf(request.timeout) # {}
    BY <1>3, <1>6 DEF DurationOf
  <2> QED BY <2>2, <2>3
<1>7. Taken("go checked") = OnlyRequest
  BY <1>4, OffersAre DEF Taken, GoChecked, GoOffers, OnlyRequest
<1>8. Taken("python") = OnlyRequest
  BY <1>5, OffersAre DEF Taken, PythonOffers, OnlyRequest
<1>9. Taken("typescript") = OnlyRequest
  BY <1>6, OffersAre DEF Taken, TypeScriptOffers, OnlyRequest
<1> QED BY <1>2, <1>7, <1>8, <1>9 DEF Forms

LEMMA DeliveredSame ==
  ASSUME NEW s, NEW t, s.mode = t.mode, ToSet(s.events) = ToSet(t.events)
  PROVE  Delivered(s) = Delivered(t)
BY DEF Delivered

(* Every subscription that is set up is the request.                       *)
LEMMA RustTakesAsAsked ==
  ASSUME SubscriptionInv, NEW s \in RustOffers, Accepts(s)
  PROVE  /\ [s EXCEPT !.events = ToSet(@)] = [request EXCEPT !.events = ToSet(@)]
         /\ Delivered(s) = Delivered(request)
<1>1. s = composed /\ Rest(composed) /\ Follows(composed, request) /\ request \in Named(Timeouts)
  BY RustOffered, AcceptsIs
<1>2. /\ s \in Named(Timeouts \cup {0}) /\ s.mode = request.mode /\ s.events = Names(request.events)
      /\ s.policy = request.policy /\ s.content = request.content /\ s.timeout = request.timeout
  BY <1>1, RustOffered DEF Follows
<1>3. ToSet(s.events) = ToSet(request.events)
  <2>1. request.events \in Seq(Selectors)
    BY <1>1, NamedFields
  <2> QED BY <1>2, <2>1, NamesFacts
<1> DEFINE S == ToSet(s.events)
           R == ToSet(request.events)
<1>4. [s EXCEPT !.events = ToSet(@)] = WithEvents(s, S)
  BY DEF WithEvents
<1>5. [request EXCEPT !.events = ToSet(@)] = WithEvents(request, R)
  BY DEF WithEvents
<1> HIDE DEF S, R
<1>6. WithEvents(s, S) = [mode |-> s.mode, events |-> S, timeout |-> s.timeout, policy |-> s.policy,
                          content |-> s.content]
  BY <1>2, WithEventsFacts
<1>7. WithEvents(request, R) = [mode |-> request.mode, events |-> R, timeout |-> request.timeout,
                                policy |-> request.policy, content |-> request.content]
  BY <1>1, WithEventsFacts
<1>8. S = R
  BY <1>3 DEF S, R
<1>9. WithEvents(s, S) = WithEvents(request, R)
  BY <1>2, <1>6, <1>7, <1>8
<1> QED BY <1>2, <1>3, <1>4, <1>5, <1>9, DeliveredSame

Everything == <<<<"*">>>>

LEMMA EverythingSelected ==
  ASSUME NEW mode PROVE Selected(mode, Everything)
<1> DEFINE all == <<"*">>
           list == <<all>>
<1>1. list \in Seq({all}) /\ Len(list) = 1 /\ DOMAIN list = 1..1 /\ list[1] = all
  OBVIOUS
<1>2. Everything = list
  BY DEF Everything
<1> HIDE DEF list, all
<1>3. list # <<>> /\ IsInjective(list) /\ ToSet(list) = {all}
  <2>1. IsInjective(list)
    BY <1>1 DEF IsInjective
  <2>2. ToSet(list) = {all}
    BY <1>1 DEF ToSet
  <2>3. list # <<>>
    BY <1>1, <2>2, ToSetFacts
  <2> QED BY <2>1, <2>2, <2>3
<1>4. \A s \in ToSet(list) : s = <<"*">>
  BY <1>3 DEF all
<1> QED BY <1>2, <1>3, <1>4 DEF Selected

LEMMA TimesKept ==
  ASSUME NEW durations, NEW s \in Named(durations), Rest(s)
  PROVE  Accepts([s EXCEPT !.events = <<<<"*">>>>])
<1> DEFINE new == WithEvents(s, Everything)
<1>1. /\ new.events = Everything /\ new.mode = s.mode /\ new.timeout = s.timeout
      /\ new.policy = s.policy /\ new.content = s.content
  <2> DEFINE e == Everything
  <2> HIDE DEF e
  <2>1. LET other == WithEvents(s, e)
        IN  /\ other.events = e /\ other.mode = s.mode /\ other.timeout = s.timeout
            /\ other.policy = s.policy /\ other.content = s.content
    BY WithEventsFacts
  <2> QED BY <2>1 DEF e
<1>2. [s EXCEPT !.events = <<<<"*">>>>] = new
  BY DEF WithEvents, Everything
<1> HIDE DEF new
<1>3. Rest(new)
  BY <1>1, RestSame
<1>4. Selected(new.mode, new.events)
  BY <1>1, EverythingSelected
<1> QED BY <1>2, <1>3, <1>4, AcceptsIs

LEMMA InvSetUpAsAsked ==
  ASSUME SubscriptionInv, Wanted PROVE SetUpAsAsked
<1>1. request # Unset /\ request \in Named(Timeouts) /\ AllParts(request)
      /\ (request.mode = "observe" => request.timeout = Unset /\ request.policy = Unset)
  BY DEF Wanted, SubscriptionInv
<1>2. ASSUME NEW form \in Forms, NEW s \in Taken(form)
      PROVE  /\ [s EXCEPT !.events = ToSet(@)] = [request EXCEPT !.events = ToSet(@)]
             /\ Delivered(s) = Delivered(request)
  <2>1. CASE form \in Forms \ {"rust", "rust try"}
    <3>1. Taken(form) = OnlyRequest
      BY <2>1, TakenAtOnce
    <3>2. s = request
      BY <1>2, <3>1 DEF OnlyRequest
    <3> QED BY <3>2
  <2>2. CASE form \in {"rust", "rust try"}
    <3>1. s \in RustOffers /\ Accepts(s)
      BY <1>2, <2>2, OffersAre DEF Taken, RustTried
    <3> QED BY <3>1, RustTakesAsAsked
  <2> QED BY <2>1, <2>2
<1>3. \A s \in PythonOffers \cup TypeScriptOffers : Accepts(s)
  BY DEF PythonOffers, TypeScriptOffers
<1>4. ASSUME NEW s \in RustTried PROVE Accepts([s EXCEPT !.events = <<<<"*">>>>])
  <2>1. s \in RustOffers /\ (request.timeout = Unset \/ RustTimeout(request.timeout) # 0)
    BY DEF RustTried
  <2>2. s \in Named(Timeouts \cup {0}) /\ Rest(s)
    BY <2>1, RustOffered DEF Follows
  <2> QED BY <2>2, TimesKept
<1>5. ASSUME NEW s \in GoChecked PROVE Accepts([s EXCEPT !.events = <<<<"*">>>>])
  <2>1. s = request /\ (request.timeout = Unset \/ GoMilliseconds(request.timeout) # {})
    BY DEF GoChecked, GoOffers
  <2> DEFINE d == request.timeout
  <2>2. /\ request.mode \in {"intercept", "observe"} /\ d \in Timeouts \cup {Unset}
        /\ request.content # Unset
        /\ request.mode = "intercept" => d # Unset /\ request.policy # Unset
    BY <1>1, NamedFields DEF AllParts
  <2>3. d # Unset => d \in Int /\ d > 0 /\ Whole(d)
    BY <2>1, <2>2, SubscriptionAssumption DEF GoMilliseconds
  <2> HIDE DEF d
  <2>4. d # Unset => d \in Int /\ d >= 2 /\ Whole(d)
    BY <2>3, WholeFacts
  <2>5. Rest(request)
    BY <1>1, <2>2, <2>4 DEF Rest, d
  <2> QED BY <1>1, <2>1, <2>5, TimesKept
<1>6. ASSUME NEW s \in RustOffers, s.mode = "intercept" PROVE Delivered(s) # {}
  <2>1. /\ Composable(request.mode, request.events) /\ s.mode = request.mode
        /\ s.events = Names(request.events) /\ request.events \in Seq(Selectors)
    BY RustOffered, NamedFields DEF Follows
  <2>2. request.events # <<>> /\ \A x \in ToSet(request.events) : InterceptSelector(x)
    BY <1>6, <2>1 DEF Composable
  <2>3. ToSet(s.events) = ToSet(request.events) /\ ToSet(request.events) # {}
    BY <2>1, <2>2, NamesFacts, ToSetFacts
  <2>4. PICK x \in ToSet(s.events) : InterceptSelector(x)
    BY <2>2, <2>3
  <2>5. PICK e \in DOMAIN Supports : Covers(x, e) /\ "intercept" \in Supports[e]
    BY <2>4, SubscriptionAssumption DEF InterceptSelector, Covers
  <2>6. e \in Delivered(s)
    BY <1>6, <2>4, <2>5 DEF Delivered
  <2> QED BY <2>6
<1> QED BY <1>2, <1>3, <1>4, <1>5, <1>6 DEF SetUpAsAsked

LEMMA FiniteToSet ==
  ASSUME NEW V, NEW list \in Seq(V) PROVE IsFiniteSet(ToSet(list))
<1> DEFINE I == 1..Len(list)
<1>1. Len(list) \in Nat /\ DOMAIN list = I
  OBVIOUS
<1>2. IsFiniteSet(I)
  BY <1>1, FS_Interval
<1>3. list \in Surjection(I, ToSet(list))
  <2>1. list \in [I -> ToSet(list)]
    <3>1. list \in [I -> V] /\ ToSet(list) = {list[i] : i \in I}
      BY <1>1, LenProperties DEF ToSet
    <3> HIDE DEF I
    <3> QED BY <3>1
  <2>2. \A x \in ToSet(list) : \E i \in I : list[i] = x
    BY <1>1 DEF ToSet
  <2> QED BY <2>1, <2>2 DEF Surjection
<1> QED BY <1>2, <1>3, FS_Surjection

LEMMA InvSetUpAlike ==
  ASSUME SubscriptionInv, Wanted PROVE SetUpAlike
<1>1. \A form \in Forms \ {"rust", "rust try"} : Taken(form) = Taken("go")
  BY TakenAtOnce DEF Forms
<1>2. Taken("rust") = Taken("rust try")
  <2>1. ASSUME NEW s \in RustOffers, Accepts(s)
        PROVE  request.timeout = Unset \/ RustTimeout(request.timeout) # 0
    BY <2>1, RustOffered, AcceptsIs
  <2> QED BY <2>1, OffersAre DEF Taken, RustTried
<1>3. ASSUME RustOffers # {}, IsInjective(request.events) PROVE Taken("rust") = Taken("go")
  <2>1. RustOffers = {composed} /\ composed \in RustOffers
    BY <1>3 DEF RustOffers
  <2>2. /\ Follows(composed, request) /\ request \in Named(Timeouts)
        /\ Rest(composed) <=> Rest(request)
        /\ Rest(composed) => composed.timeout = request.timeout
    BY <2>1, RustOffered
  <2>3. /\ composed \in Named(Timeouts \cup {0}) /\ composed.mode = request.mode
        /\ composed.policy = request.policy /\ composed.content = request.content
        /\ composed.events = request.events
    <3>1. request.events \in Seq(Selectors)
      BY <2>2, NamedFields
    <3>2. Names(request.events) = request.events
      BY <1>3, <3>1, NamesFacts
    <3> QED BY <2>2, <3>2 DEF Follows
  <2>4. ASSUME Rest(request) PROVE composed = request
    <3>1. composed = [mode |-> composed.mode, events |-> composed.events, timeout |-> composed.timeout,
                      policy |-> composed.policy, content |-> composed.content]
      BY <2>3, NamedFields
    <3>2. request = [mode |-> request.mode, events |-> request.events, timeout |-> request.timeout,
                     policy |-> request.policy, content |-> request.content]
      BY <2>2, NamedFields
    <3> QED BY <2>2, <2>3, <2>4, <3>1, <3>2
  <2>5. Accepts(composed) <=> Accepts(request)
    BY <2>2, <2>3, AcceptsIs
  <2>6. Accepts(request) => composed = request
    BY <2>4, AcceptsIs
  <2>7. Taken("rust") = {s \in {composed} : Accepts(s)}
    BY <2>1, OffersAre DEF Taken
  <2>8. Taken("go") = {s \in {request} : Accepts(s)}
    BY OffersAre DEF Taken, GoOffers
  <2> QED BY <2>5, <2>6, <2>7, <2>8
<1>4. ASSUME RustOffers # {}, ~ IsInjective(request.events)
      PROVE  /\ Taken("go") = {}
             /\ Taken("rust") # {} <=> Accepts([request EXCEPT !.events = SetToSeq(ToSet(@))])
  <2>1. RustOffers = {composed} /\ composed \in RustOffers
    BY <1>4 DEF RustOffers
  <2>2. /\ Follows(composed, request) /\ request \in Named(Timeouts)
        /\ Rest(composed) <=> Rest(request)
    BY <2>1, RustOffered
  <2> DEFINE e == request.events
             list == SetToSeq(ToSet(e))
             new == WithEvents(request, list)
  <2>3. e \in Seq(Selectors)
    BY <2>2, NamedFields
  <2>4. Names(e) \in Seq(Selectors) /\ ToSet(Names(e)) = ToSet(e) /\ IsInjective(Names(e))
    BY <2>3, NamesFacts
  <2>5. list \in Seq(Selectors) /\ ToSet(list) = ToSet(e) /\ IsInjective(list)
    <3>1. ToSet(e) \subseteq Selectors /\ ToSet(e) = Range(e)
      BY <2>3, ToSetFacts DEF ToSet, Range
    <3>3. IsFiniteSet(ToSet(e))
      BY <2>3, FiniteToSet
    <3> DEFINE S == ToSet(e)
    <3> HIDE DEF S
    <3>4. SetToSeq(S) \in Seq(S) /\ IsInjective(SetToSeq(S)) /\ Range(SetToSeq(S)) = S
      BY <3>3, ListedFacts DEF S
    <3>5. SetToSeq(S) \in Seq(Selectors)
      BY <3>1, <3>4, SeqMonotonic DEF S
    <3>6. ToSet(SetToSeq(S)) = S
      BY <3>4 DEF ToSet, Range
    <3> QED BY <3>4, <3>5, <3>6 DEF S
  <2>6. Taken("go") = {}
    <3>1. ~ Accepts(request)
      BY <1>4, AcceptsIs DEF Selected
    <3> QED BY <3>1, OffersAre DEF Taken, GoOffers
  <2>7. [request EXCEPT !.events = SetToSeq(ToSet(@))] = new
    BY DEF WithEvents
  <2>8. Taken("rust") # {} <=> Accepts(composed)
    BY <2>1, OffersAre DEF Taken
  <2> HIDE DEF list, e
  <2>9. /\ new.events = list /\ new.mode = request.mode /\ new.timeout = request.timeout
        /\ new.policy = request.policy /\ new.content = request.content
    BY <2>2, WithEventsFacts
  <2> HIDE DEF new
  <2>10. Rest(new) <=> Rest(request)
    BY <2>9, RestSame
  <2>11. composed.events = Names(e) /\ composed.mode = request.mode
    BY <2>2 DEF Follows, e
  <2>12. Selected(request.mode, Names(e)) <=> Selected(request.mode, list)
    BY <2>4, <2>5, SelectedSame
  <2>13. Accepts(composed) <=> Accepts(new)
    BY <2>2, <2>9, <2>10, <2>11, <2>12, AcceptsIs
  <2> QED BY <2>6, <2>7, <2>8, <2>13
<1> QED BY <1>1, <1>2, <1>3, <1>4 DEF SetUpAlike

(* In every reachable state a subscription is set up for what was asked,   *)
(* and in all four SDKs alike, whatever was named and in whatever order.   *)
THEOREM AlwaysSubscriptionsExact == SubscriptionSpec => []SubscriptionsExact
<1>1. SubscriptionInv => SubscriptionsExact
  BY InvSetUpAsAsked, InvSetUpAlike DEF SubscriptionsExact
<1> QED BY <1>1, AlwaysSubscriptionInv, PTL
===============================================================================
