---------------------------- MODULE HostInputsProofs ----------------------------
(***************************************************************************)
(* Proofs about HostInputs.  What an application means is a tree whose     *)
(* nodes are those its setters placed; the visits of a projection reach    *)
(* places of that tree only, and every host object in it; and each visit   *)
(* keeps the identities different, writes a host object under its own, and *)
(* tells of it and binds its source.  From the identities known between    *)
(* two projections it follows that IdentitiesOnce always holds, and from   *)
(* what the visits have written together that ProjectionFaithful does, and *)
(* that SDKs which accept one input send one event (AcceptedAlike).        *)
(***************************************************************************)
EXTENDS HostInputs, Induction, SequenceTheorems, FiniteSetTheorems, TLAPS

(* What an application gives stays as it was planned, declared and typed.  *)
GivenInv ==
  /\ event \in DOMAIN Plan /\ plan = Plan[event]
  /\ base \in Bases[event] /\ host \in Hosts[event]
  /\ placed \in Seq(Placements[event])

(* The image of a finite set under a function is finite.                   *)
LEMMA ImageFinite ==
  ASSUME NEW S, IsFiniteSet(S), NEW T, NEW f \in [S -> T]
  PROVE  IsFiniteSet({f[x] : x \in S})
<1> DEFINE R == {f[x] : x \in S}
<1>1. f \in [S -> R] /\ \A y \in R : \E x \in S : f[x] = y
  OBVIOUS
<1> HIDE DEF R
<1>2. f \in Surjection(S, R)
  BY <1>1 DEF Surjection
<1>3. IsFiniteSet(R)
  BY <1>2, FS_Surjection
<1> QED BY <1>3 DEF R

(* A set whose every element is a value of a function on a finite set is   *)
(* finite.                                                                 *)
LEMMA OntoFinite ==
  ASSUME NEW S, IsFiniteSet(S), NEW R, NEW f, DOMAIN f = S, \A y \in R : \E x \in S : f[x] = y
  PROVE  IsFiniteSet(R)
<1> DEFINE Q == {x \in S : f[x] \in R}
           g == [x \in Q |-> f[x]]
<1>1. g \in [Q -> R] /\ \A y \in R : \E x \in Q : g[x] = y
  OBVIOUS
<1>2. Q \in SUBSET S
  OBVIOUS
<1> HIDE DEF g, Q
<1>3. g \in Surjection(Q, R)
  BY <1>1 DEF Surjection
<1>4. IsFiniteSet(Q)
  BY <1>2, FS_Subset
<1> QED BY <1>3, <1>4, FS_Surjection

(* The numbers up to n are finitely many.                                  *)
LEMMA UpToFinite ==
  ASSUME NEW n \in Nat PROVE IsFiniteSet(1..n)
BY FS_Interval

(* An application is typed as generated: its plan, its host values, what   *)
(* it declares and its calls are those InputsAssumption speaks of.         *)
LEMMA GivenFacts ==
  ASSUME GivenInv
  PROVE  /\ Planned(plan.fields, plan.slots) /\ Hostly(host)
         /\ \A f \in plan.fields : f.name \in DOMAIN base => Flat(base[f.name])
         /\ \A k \in DOMAIN placed : Callable(placed[k], host, plan.slots)
<1>1. \A k \in DOMAIN placed : placed[k] \in Placements[event]
  BY DEF GivenInv
<1> QED BY <1>1, InputsAssumption DEF GivenInv

-------------------------------------------------------------------------------
(* Trees.                                                                  *)
Tree(t, N) == /\ t = [p \in DOMAIN t |-> t[p]]
              /\ IsFiniteSet(DOMAIN t) /\ DOMAIN t \subseteq Paths
              /\ \A p \in DOMAIN t : t[p] \in N

(* What a setter may place: objects of the application, lists, records     *)
(* and null.                                                               *)
HostNodes == {[is |-> "host", object |-> o] : o \in DOMAIN host} \cup {List, Record, Null}

(* An object, or the nil of a declared list, stands for a node of its own  *)
(* kind.                                                                   *)
LEMMA HostedFacts ==
  ASSUME NEW o \in DOMAIN host \cup {Nil}
  PROVE  Hosted(o) \in HostNodes
BY DEF Hosted, HostNodes

(* Every index is a word of a path and ranks where it stands in Indices.   *)
LEMMA RankFacts ==
  ASSUME NEW i \in 1..Len(Indices)
  PROVE  /\ Indices[i] \in Words /\ RankOf(Indices[i]) = i
         /\ Len(Indices) \in Nat /\ DOMAIN Indices = 1..Len(Indices)
<1>1. /\ Len(Indices) \in Nat /\ DOMAIN Indices = 1..Len(Indices)
      /\ Indices[i] \in Words
  BY IndicesAssumption DEF Paths
<1>2. \A j \in DOMAIN Indices : Indices[j] = Indices[i] => j = i
  BY <1>1, IndicesAssumption DEF IsInjective
<1>3. RankOf(Indices[i]) = i
  BY <1>1, <1>2 DEF RankOf
<1> QED BY <1>1, <1>3

(* A path one word longer.                                                 *)
LEMMA AppendFacts ==
  ASSUME NEW at \in Paths, NEW x \in Words
  PROVE  /\ Append(at, x) \in Paths /\ Len(Append(at, x)) = Len(at) + 1
         /\ Last(Append(at, x)) = x /\ Append(at, x)[Len(at) + 1] = x
BY AppendProperties DEF Paths, Last

(* The parts of a host message are a sequence of objects, as long as       *)
(* there are indices for them.                                             *)
LEMMA PartsFacts ==
  ASSUME GivenInv, NEW o \in DOMAIN host \cup {Nil}, PartsOf(o) # None
  PROVE  /\ Len(PartsOf(o)) \in 0..Len(Indices)
         /\ DOMAIN PartsOf(o) = 1..Len(PartsOf(o))
         /\ \A i \in DOMAIN PartsOf(o) : PartsOf(o)[i] \in DOMAIN host \cup {Nil}
<1>1. o \in DOMAIN host /\ host[o].is = "message" /\ PartsOf(o) = host[o].parts
  BY DEF PartsOf
<1>2. Listed(PartsOf(o), DOMAIN host)
  BY <1>1, GivenFacts DEF Hostly
<1>3. Len(Indices) \in Nat
  BY IndicesAssumption DEF Paths
<1> QED BY <1>2, <1>3 DEF Listed

(* The nodes that stand for one object in the input are a finite tree of   *)
(* host nodes.                                                             *)
LEMMA NodesOfFacts ==
  ASSUME GivenInv, NEW at \in Paths, NEW o \in DOMAIN host \cup {Nil}
  PROVE  Tree(NodesOf(at, o), HostNodes)
<1> DEFINE parts  == PartsOf(o)
           within == Append(at, "parts")
           D == {at} \cup (IF parts = None THEN {} ELSE {within} \cup Items(within, parts))
           Node(p) == IF p = at THEN Hosted(o) ELSE IF p = within THEN List
                      ELSE Hosted(parts[RankOf(Last(p))])
<1>1. NodesOf(at, o) = [p \in D |-> Node(p)]
  BY DEF NodesOf
<1>2. within \in Paths
  BY IndicesAssumption, AppendFacts
<1>3. CASE parts = None
  <2>1. D = {at}
    BY <1>3
  <2>2. IsFiniteSet(D)
    BY <2>1, FS_Singleton
  <2>3. \A p \in D : Node(p) \in HostNodes
    BY <2>1, HostedFacts
  <2> HIDE DEF D, Node
  <2> QED BY <1>1, <2>1, <2>2, <2>3 DEF Tree
<1>4. CASE parts # None
  <2>1. /\ Len(parts) \in 0..Len(Indices) /\ DOMAIN parts = 1..Len(parts)
        /\ \A i \in DOMAIN parts : parts[i] \in DOMAIN host \cup {Nil}
    BY <1>4, PartsFacts
  <2>2. Len(Indices) \in Nat
    BY IndicesAssumption DEF Paths
  <2>3. ASSUME NEW i \in DOMAIN parts
        PROVE  /\ Append(within, Indices[i]) \in Paths
               /\ Hosted(parts[RankOf(Last(Append(within, Indices[i])))]) \in HostNodes
    <3>1. i \in 1..Len(Indices)
      BY <2>1, <2>2, <2>3
    <3>2. Indices[i] \in Words /\ RankOf(Indices[i]) = i
      BY <3>1, RankFacts
    <3>3. Append(within, Indices[i]) \in Paths /\ Last(Append(within, Indices[i])) = Indices[i]
      BY <1>2, <3>2, AppendFacts
    <3>4. Hosted(parts[i]) \in HostNodes
      BY <2>1, HostedFacts
    <3> QED BY <3>2, <3>3, <3>4
  <2> HIDE DEF parts, within
  <2>4. IsFiniteSet(Items(within, parts))
    <3>1. IsFiniteSet(DOMAIN parts)
      BY <2>1, <2>2, UpToFinite
    <3> DEFINE f == [i \in DOMAIN parts |-> Append(within, Indices[i])]
    <3>2. f \in [DOMAIN parts -> Paths]
      BY <2>3
    <3>3. Items(within, parts) = {f[i] : i \in DOMAIN parts}
      BY DEF Items
    <3> HIDE DEF f
    <3>4. IsFiniteSet({f[i] : i \in DOMAIN parts})
      BY <3>1, <3>2, ImageFinite
    <3> QED BY <3>3, <3>4
  <2>5. D = {at} \cup ({within} \cup Items(within, parts))
    BY <1>4
  <2>6. IsFiniteSet(D)
    <3>1. IsFiniteSet({within} \cup Items(within, parts))
      BY <2>4, FS_Singleton, FS_Union
    <3> QED BY <2>5, <3>1, FS_Singleton, FS_Union
  <2>7. D \subseteq Paths
    BY <1>2, <2>3, <2>5 DEF Items
  <2>8. ASSUME NEW p \in D PROVE Node(p) \in HostNodes
    <3>1. CASE p = at
      BY <3>1, HostedFacts
    <3>2. CASE p # at /\ p = within
      BY <3>2 DEF HostNodes
    <3>3. CASE p # at /\ p # within
      <4>1. PICK i \in DOMAIN parts : p = Append(within, Indices[i])
        BY <2>5, <3>3 DEF Items
      <4> QED BY <2>3, <3>3, <4>1
    <3> QED BY <3>1, <3>2, <3>3
  <2> HIDE DEF D, Node
  <2> QED BY <1>1, <2>6, <2>7, <2>8 DEF Tree
<1> QED BY <1>3, <1>4

(* The nodes that one call of a setter places are a finite tree of host    *)
(* nodes.                                                                  *)
LEMMA NodesPlacedFacts ==
  ASSUME GivenInv, NEW k \in DOMAIN placed
  PROVE  placed[k].at \in Paths /\ Tree(NodesPlaced(placed[k]), HostNodes)
<1> DEFINE call == placed[k]
           item(i) == Append(call.at, Indices[i])
           Item(i) == NodesOf(item(i), call.put[i])
<1>1. Callable(call, host, plan.slots)
  BY GivenFacts
<1> HIDE DEF call
<1>2. /\ call.at \in Paths /\ call.many \in BOOLEAN /\ call.put \in Seq(DOMAIN host \cup {Nil})
      /\ Len(call.put) <= Len(Indices) /\ (~ call.many => call.put # <<>>)
  BY <1>1 DEF Callable, Listed
<1>3. Len(Indices) \in Nat /\ Len(call.put) \in Nat /\ DOMAIN call.put = 1..Len(call.put)
      /\ \A i \in DOMAIN call.put : call.put[i] \in DOMAIN host \cup {Nil}
  BY <1>2, IndicesAssumption DEF Paths
<1>4. CASE ~ call.many
  <2>1. 1 \in DOMAIN call.put
    BY <1>2, <1>3, <1>4
  <2>2. Tree(NodesOf(call.at, call.put[1]), HostNodes)
    BY <1>2, <1>3, <2>1, NodesOfFacts
  <2>3. NodesPlaced(call) = NodesOf(call.at, call.put[1])
    BY <1>4 DEF NodesPlaced
  <2> QED BY <1>2, <2>2, <2>3 DEF call
<1>5. CASE call.many
  <2>1. ASSUME NEW i \in DOMAIN call.put
        PROVE  /\ item(i) \in Paths /\ item(i)[Len(call.at) + 1] = Indices[i] /\ RankOf(Indices[i]) = i
               /\ Len(item(i)) = Len(call.at) + 1
               /\ Tree(Item(i), HostNodes)
    <3>1. i \in 1..Len(Indices)
      BY <1>2, <1>3, <2>1
    <3>2. Indices[i] \in Words /\ RankOf(Indices[i]) = i
      BY <3>1, RankFacts
    <3>3. item(i) \in Paths /\ item(i)[Len(call.at) + 1] = Indices[i] /\ Len(item(i)) = Len(call.at) + 1
      BY <1>2, <3>2, AppendFacts
    <3>4. Tree(Item(i), HostNodes)
      BY <1>3, <3>3, NodesOfFacts
    <3> QED BY <3>2, <3>3, <3>4
  <2>2. ASSUME NEW i \in DOMAIN call.put, NEW p \in DOMAIN Item(i)
        PROVE  p[Len(call.at) + 1] = Indices[i]
    <3> DEFINE within == Append(item(i), "parts")
    <3>1. p \in {item(i), within} \cup Items(within, PartsOf(call.put[i]))
      BY <2>2 DEF NodesOf
    <3>2. within \in Paths /\ within[Len(call.at) + 1] = Indices[i] /\ Len(within) = Len(call.at) + 2
      <4>1. "parts" \in Words /\ Len(call.at) \in Nat
        BY <1>2, IndicesAssumption DEF Paths
      <4> HIDE DEF item
      <4> QED BY <2>1, <4>1, AppendProperties DEF Paths
    <3>3. CASE p \in Items(within, PartsOf(call.put[i]))
      <4>1. PICK j : p = Append(within, Indices[j])
        BY <3>3 DEF Items
      <4> HIDE DEF within
      <4>2. Len(call.at) \in Nat
        BY <1>2 DEF Paths
      <4> QED BY <3>2, <4>1, <4>2 DEF Paths
    <3> QED BY <2>1, <3>1, <3>2, <3>3
  <2> DEFINE D == {call.at} \cup UNION {DOMAIN Item(i) : i \in DOMAIN call.put}
             ItemAt(p) == Item(RankOf(p[Len(call.at) + 1]))
             Node(p) == IF p = call.at THEN List ELSE ItemAt(p)[p]
  <2>3. NodesPlaced(call) = [p \in D |-> Node(p)]
    BY <1>5 DEF NodesPlaced
  <2> HIDE DEF Item
  <2>4. IsFiniteSet(D)
    <3>1. IsFiniteSet(DOMAIN call.put)
      <4>1. IsFiniteSet(1..Len(call.put))
        BY <1>3, UpToFinite
      <4> QED BY <1>3, <4>1
    <3>2. IsFiniteSet({DOMAIN Item(i) : i \in DOMAIN call.put})
      <4> DEFINE f == [i \in DOMAIN call.put |-> DOMAIN Item(i)]
      <4>1. f \in [DOMAIN call.put -> {DOMAIN Item(i) : i \in DOMAIN call.put}]
        OBVIOUS
      <4>2. {DOMAIN Item(i) : i \in DOMAIN call.put} = {f[i] : i \in DOMAIN call.put}
        OBVIOUS
      <4> HIDE DEF f
      <4>3. IsFiniteSet({f[i] : i \in DOMAIN call.put})
        BY <3>1, <4>1, ImageFinite
      <4> QED BY <4>2, <4>3
    <3>3. \A d \in {DOMAIN Item(i) : i \in DOMAIN call.put} : IsFiniteSet(d)
      BY <2>1 DEF Tree
    <3>4. IsFiniteSet(UNION {DOMAIN Item(i) : i \in DOMAIN call.put})
      BY <3>2, <3>3, FS_UNION
    <3> QED BY <3>4, FS_Singleton, FS_Union
  <2>5. D \subseteq Paths
    BY <1>2, <2>1 DEF Tree
  <2>6. ASSUME NEW p \in D PROVE Node(p) \in HostNodes
    <3>1. CASE p = call.at
      BY <3>1 DEF HostNodes
    <3>2. CASE p # call.at
      <4>1. PICK i \in DOMAIN call.put : p \in DOMAIN Item(i)
        BY <3>2
      <4>2. RankOf(p[Len(call.at) + 1]) = i
        BY <2>1, <2>2, <4>1
      <4>3. Node(p) = Item(i)[p]
        BY <3>2, <4>2
      <4> QED BY <2>1, <4>1, <4>3 DEF Tree
    <3> QED BY <3>1, <3>2
  <2> HIDE DEF D, Node
  <2>7. Tree(NodesPlaced(call), HostNodes)
    BY <2>3, <2>4, <2>5, <2>6 DEF Tree
  <2> QED BY <1>2, <2>7 DEF call
<1> QED BY <1>2, <1>4, <1>5

-------------------------------------------------------------------------------
(* Prefixes.                                                               *)
LEMMA PrefixFacts ==
  ASSUME NEW s \in Paths, NEW t \in Paths
  PROVE  IsPrefix(s, t) <=> Len(s) <= Len(t) /\ \A i \in 1..Len(s) : s[i] = t[i]
<1>1. Len(s) \in Nat /\ Len(t) \in Nat
  BY DEF Paths
<1>2. ASSUME Len(s) <= Len(t)
      PROVE  /\ Len(SubSeq(t, 1, Len(s))) = Len(s) /\ SubSeq(t, 1, Len(s)) \in Paths
             /\ \A i \in 1..Len(s) : SubSeq(t, 1, Len(s))[i] = t[i]
  <2>1. \A i \in 1..Len(s) : t[i] \in Words
    BY <1>1, <1>2 DEF Paths
  <2>2. /\ SubSeq(t, 1, Len(s)) \in Seq(Words)
        /\ Len(SubSeq(t, 1, Len(s))) = IF 1 <= Len(s) THEN Len(s) - 1 + 1 ELSE 0
        /\ \A i \in 1..(Len(s) - 1 + 1) : SubSeq(t, 1, Len(s))[i] = t[1 + i - 1]
    BY <1>1, <2>1, SubSeqProperties
  <2> QED BY <1>1, <2>2 DEF Paths
<1>3. ASSUME Len(s) <= Len(t)
      PROVE  s = SubSeq(t, 1, Len(s)) <=> \A i \in 1..Len(s) : s[i] = t[i]
  <2>1. ASSUME \A i \in 1..Len(s) : s[i] = t[i] PROVE s = SubSeq(t, 1, Len(s))
    BY <1>2, <1>3, <2>1, SeqEqual DEF Paths
  <2>2. ASSUME s = SubSeq(t, 1, Len(s)), NEW i \in 1..Len(s) PROVE s[i] = t[i]
    <3>1. SubSeq(t, 1, Len(s))[i] = t[i]
      BY <1>2, <1>3
    <3> QED BY <2>2, <3>1
  <2> QED BY <2>1, <2>2
<1>4. SubSeq(s, 1, Len(s)) = s
  BY SubSeqFull DEF Paths
<1> QED BY <1>3, <1>4 DEF IsPrefix

(* Two prefixes of one path compare.                                       *)
LEMMA PrefixesCompare ==
  ASSUME NEW s \in Paths, NEW t \in Paths, NEW p \in Paths, IsPrefix(s, p), IsPrefix(t, p)
  PROVE  IsPrefix(s, t) \/ IsPrefix(t, s)
<1>1. Len(s) \in Nat /\ Len(t) \in Nat /\ Len(p) \in Nat
  BY DEF Paths
<1>2. /\ Len(s) <= Len(p) /\ \A i \in 1..Len(s) : s[i] = p[i]
      /\ Len(t) <= Len(p) /\ \A i \in 1..Len(t) : t[i] = p[i]
  BY PrefixFacts
<1>3. CASE Len(s) <= Len(t)
  BY <1>1, <1>2, <1>3, PrefixFacts
<1>4. CASE Len(t) <= Len(s)
  BY <1>1, <1>2, <1>4, PrefixFacts
<1> QED BY <1>1, <1>3, <1>4

(* A path goes on from its prefix, and the rest is what was appended.      *)
LEMMA JoinFacts ==
  ASSUME NEW s \in Paths, NEW q \in Paths
  PROVE  /\ s \o q \in Paths /\ IsPrefix(s, s \o q)
         /\ SubSeq(s \o q, Len(s) + 1, Len(s \o q)) = q
<1>1. /\ s \o q \in Paths /\ Len(s \o q) = Len(s) + Len(q)
      /\ \A i \in 1..(Len(s) + Len(q)) : (s \o q)[i] = IF i <= Len(s) THEN s[i] ELSE q[i - Len(s)]
      /\ Len(s) \in Nat /\ Len(q) \in Nat
  BY ConcatProperties DEF Paths
<1>2. IsPrefix(s, s \o q)
  <2>1. Len(s) <= Len(s \o q) /\ \A i \in 1..Len(s) : s[i] = (s \o q)[i]
    BY <1>1
  <2> QED BY <1>1, <2>1, PrefixFacts
<1>3. SubSeq(s \o q, Len(s) + 1, Len(s \o q)) = q
  <2> DEFINE r == s \o q
             m == Len(s) + 1
             n == Len(s \o q)
  <2>1. m \in Int /\ n \in Int /\ n - m + 1 = Len(q) /\ (m <= n <=> Len(q) > 0)
    BY <1>1
  <2>2. \A i \in m..n : r[i] \in Words
    BY <1>1 DEF Paths
  <2>3. \A i \in 1..Len(q) : r[m + i - 1] = q[i]
    BY <1>1
  <2> HIDE DEF r, m, n
  <2>4. /\ SubSeq(r, m, n) \in Seq(Words)
        /\ Len(SubSeq(r, m, n)) = IF m <= n THEN n - m + 1 ELSE 0
        /\ \A i \in 1..(n - m + 1) : SubSeq(r, m, n)[i] = r[m + i - 1]
    BY <2>1, <2>2, SubSeqProperties
  <2>5. Len(SubSeq(r, m, n)) = Len(q)
    BY <1>1, <2>1, <2>4
  <2>6. \A i \in 1..Len(SubSeq(r, m, n)) : SubSeq(r, m, n)[i] = q[i]
    BY <2>1, <2>3, <2>4, <2>5
  <2>7. SubSeq(r, m, n) = q
    BY <2>4, <2>5, <2>6, SeqEqual DEF Paths
  <2> QED BY <2>7 DEF r, m, n
<1> QED BY <1>1, <1>2, <1>3

(* A path has finitely many parents, each of them a path.                  *)
LEMMA ParentsFacts ==
  ASSUME NEW at \in Paths
  PROVE  IsFiniteSet(Parents(at)) /\ Parents(at) \subseteq Paths
<1>1. Len(at) \in Nat
  BY DEF Paths
<1> DEFINE f == [n \in 0..(Len(at) - 1) |-> SubSeq(at, 1, n)]
<1>2. f \in [0..(Len(at) - 1) -> Paths]
  <2>1. ASSUME NEW n \in 0..(Len(at) - 1) PROVE SubSeq(at, 1, n) \in Paths
    <3>1. \A i \in 1..n : at[i] \in Words
      BY <1>1 DEF Paths
    <3>2. n \in Int
      OBVIOUS
    <3>3. SubSeq(at, 1, n) \in Seq(Words)
      BY <3>1, <3>2, SubSeqProperties
    <3> QED BY <3>3 DEF Paths
  <2> QED BY <2>1
<1>3. Parents(at) = {f[n] : n \in 0..(Len(at) - 1)}
  BY DEF Parents
<1>4. IsFiniteSet(0..(Len(at) - 1))
  BY <1>1, FS_Interval
<1> HIDE DEF f
<1>5. IsFiniteSet({f[n] : n \in 0..(Len(at) - 1)})
  BY <1>2, <1>4, ImageFinite
<1>6. Parents(at) \subseteq Paths
  BY <1>2, <1>3
<1> QED BY <1>3, <1>5, <1>6

-------------------------------------------------------------------------------
(* What nodes of a tree are before the host objects are written.           *)
Facts == UNION {{base[f.name][p] : p \in DOMAIN base[f.name]} : f \in {g \in plan.fields : g.name \in DOMAIN base}}
Nodes == HostNodes \cup Facts
Trees == UNION {[T -> Nodes] : T \in {U \in SUBSET Paths : IsFiniteSet(U)}}

(* The set of trees in terms of what a tree is.                            *)
LEMMA TreesAreTrees ==
  ASSUME NEW t
  PROVE  t \in Trees <=> Tree(t, Nodes)
<1>1. ASSUME t \in Trees PROVE Tree(t, Nodes)
  <2>1. PICK T \in SUBSET Paths : IsFiniteSet(T) /\ t \in [T -> Nodes]
    BY <1>1 DEF Trees
  <2> QED BY <2>1 DEF Tree
<1>2. ASSUME Tree(t, Nodes) PROVE t \in Trees
  <2>1. t \in [DOMAIN t -> Nodes] /\ DOMAIN t \in {U \in SUBSET Paths : IsFiniteSet(U)}
    BY <1>2 DEF Tree
  <2> QED BY <2>1 DEF Trees
<1> QED BY <1>1, <1>2

(* A node is of one of five kinds, and a host node refers to an object of  *)
(* the application.                                                        *)
LEMMA NodeFacts ==
  ASSUME GivenInv, NEW n \in Nodes
  PROVE  /\ n.is \in {"fact", "record", "list", "null", "host"}
         /\ n.is = "host" => n.object \in DOMAIN host
<1>1. CASE n \in Facts
  <2>1. PICK f \in plan.fields : f.name \in DOMAIN base /\ \E p \in DOMAIN base[f.name] : n = base[f.name][p]
    BY <1>1 DEF Facts
  <2>2. Flat(base[f.name])
    BY <2>1, GivenFacts
  <2> QED BY <2>1, <2>2 DEF Flat
<1>2. CASE n \in HostNodes
  BY <1>2 DEF HostNodes, List, Record, Null
<1> QED BY <1>1, <1>2 DEF Nodes

(* Assembling the fields that were declared gives a tree without host      *)
(* values.                                                                 *)
LEMMA AssembledFacts ==
  ASSUME GivenInv
  PROVE  /\ Assembled(base) \in Trees
         /\ \A p \in DOMAIN Assembled(base) : ~ IsHost(Assembled(base)[p])
<1> DEFINE present   == {f \in plan.fields : f.name \in DOMAIN base}
           FieldAt(p) == CHOOSE f \in present : Starts(p, f.path)
           From(p, f) == SubSeq(p, Len(f.path) + 1, Len(p))
           Below(f)  == {f.path \o q : q \in DOMAIN base[f.name]}
           wrappers  == {<<>>} \cup UNION {Parents(f.path) : f \in present}
           D         == wrappers \cup UNION {Below(f) : f \in present}
           Node(p)   == IF p \in wrappers THEN Record ELSE base[FieldAt(p).name][From(p, FieldAt(p))]
<1>1. Assembled(base) = [p \in D |-> Node(p)]
  BY DEF Assembled
<1>2. /\ IsFiniteSet(present)
      /\ \A f \in present : f.path \in Paths /\ Flat(base[f.name])
      /\ \A f, g \in present : IsPrefix(f.path, g.path) => f = g
  <2>1. Planned(plan.fields, plan.slots) /\ \A f \in plan.fields : f.name \in DOMAIN base => Flat(base[f.name])
    BY GivenFacts
  <2>2. IsFiniteSet(plan.fields) /\ present \in SUBSET plan.fields
    BY <2>1 DEF Planned
  <2>3. IsFiniteSet(present)
    <3> HIDE DEF present
    <3> QED BY <2>2, FS_Subset
  <2> QED BY <2>1, <2>3 DEF Planned
<1> HIDE DEF present
<1>0. IsFiniteSet(present)
  BY <1>2
<1> USE DEF present
<1>3. ASSUME NEW f \in present, NEW q \in DOMAIN base[f.name]
      PROVE  /\ f.path \o q \in Paths /\ IsPrefix(f.path, f.path \o q) /\ From(f.path \o q, f) = q
             /\ base[f.name][q] \in Facts
  <2>1. q \in Paths /\ f.path \in Paths
    BY <1>2, <1>3 DEF Flat
  <2>2. base[f.name][q] \in Facts
    BY <1>3 DEF Facts
  <2> QED BY <2>1, <2>2, JoinFacts
<1>4. ASSUME NEW f \in present, NEW q \in DOMAIN base[f.name]
      PROVE  FieldAt(f.path \o q) = f
  <2> DEFINE p == f.path \o q
  <2>1. Starts(p, f.path) /\ p \in Paths
    BY <1>3 DEF Starts
  <2> HIDE DEF p, present
  <2>2. ASSUME NEW g \in present, Starts(p, g.path) PROVE g = f
    <3>1. IsPrefix(f.path, g.path) \/ IsPrefix(g.path, f.path)
      BY <1>2, <2>1, <2>2, PrefixesCompare DEF Starts
    <3> QED BY <1>2, <3>1
  <2>3. FieldAt(p) = f
    BY <2>1, <2>2
  <2> QED BY <2>3 DEF p
<1> HIDE DEF present, FieldAt, From
<1>5. IsFiniteSet(wrappers) /\ wrappers \subseteq Paths
  <2> DEFINE all == {Parents(f.path) : f \in present}
             g == [f \in present |-> Parents(f.path)]
  <2>1. g \in [present -> all] /\ all = {g[f] : f \in present}
    OBVIOUS
  <2> HIDE DEF g
  <2> HIDE DEF all
  <2>2. IsFiniteSet({g[f] : f \in present})
    BY <1>0, <2>1, ImageFinite
  <2>3. \A s \in all : IsFiniteSet(s) /\ s \subseteq Paths
    BY <1>2, ParentsFacts DEF all
  <2>4. IsFiniteSet(all)
    BY <2>1, <2>2
  <2>5. <<>> \in Paths
    BY DEF Paths
  <2>6. IsFiniteSet(UNION all)
    BY <2>3, <2>4, FS_UNION
  <2>7. IsFiniteSet({<<>>} \cup UNION all)
    BY <2>6, FS_Singleton, FS_Union
  <2> QED BY <2>3, <2>5, <2>7 DEF all
<1>6. IsFiniteSet(UNION {Below(f) : f \in present})
  <2>1. ASSUME NEW f \in present PROVE IsFiniteSet(Below(f))
    <3> DEFINE g == [q \in DOMAIN base[f.name] |-> f.path \o q]
    <3>1. g \in [DOMAIN base[f.name] -> Paths]
      BY <1>3
    <3>2. IsFiniteSet(DOMAIN base[f.name])
      BY <1>2 DEF Flat
    <3>3. Below(f) = {g[q] : q \in DOMAIN base[f.name]}
      OBVIOUS
    <3> HIDE DEF g, Below
    <3>4. IsFiniteSet({g[q] : q \in DOMAIN base[f.name]})
      BY <3>1, <3>2, ImageFinite
    <3> QED BY <3>3, <3>4
  <2> HIDE DEF Below
  <2> DEFINE all == {Below(f) : f \in present}
             g == [f \in present |-> Below(f)]
  <2>2. g \in [present -> all] /\ all = {g[f] : f \in present}
    OBVIOUS
  <2> HIDE DEF g
  <2> HIDE DEF all
  <2>3. IsFiniteSet({g[f] : f \in present})
    BY <1>0, <2>2, ImageFinite
  <2>4. IsFiniteSet(all) /\ \A s \in all : IsFiniteSet(s)
    BY <2>1, <2>2, <2>3 DEF all
  <2>5. IsFiniteSet(UNION all)
    BY <2>4, FS_UNION
  <2> QED BY <2>5 DEF all
<1>7. IsFiniteSet(D) /\ D \subseteq Paths
  <2>1. UNION {Below(f) : f \in present} \subseteq Paths
    <3>1. ASSUME NEW f \in present PROVE Below(f) \subseteq Paths
      BY <1>3
    <3> HIDE DEF Below
    <3> QED BY <3>1
  <2> HIDE DEF Below, wrappers
  <2> QED BY <1>5, <1>6, <2>1, FS_Union
<1>8. ASSUME NEW p \in D PROVE Node(p) \in Nodes /\ ~ IsHost(Node(p))
  <2>1. CASE p \in wrappers
    BY <2>1 DEF Nodes, HostNodes, IsHost, Record
  <2>2. CASE p \notin wrappers
    <3>1. PICK f \in present : p \in Below(f)
      BY <2>2
    <3>2. PICK q \in DOMAIN base[f.name] : p = f.path \o q
      BY <3>1
    <3>3. FieldAt(p) = f /\ From(p, f) = q
      BY <1>3, <1>4, <3>2
    <3>4. Node(p) = base[f.name][q]
      BY <2>2, <3>3
    <3>5. base[f.name][q].is \in {"fact", "record", "list"}
      BY <1>2, <3>2 DEF Flat
    <3> QED BY <1>3, <3>4, <3>5 DEF Nodes, IsHost
  <2> QED BY <2>1, <2>2
<1> HIDE DEF D, Node
<1>9. [p \in D |-> Node(p)] \in [D -> Nodes]
  BY <1>8
<1>10. Assembled(base) \in Trees
  BY <1>1, <1>7, <1>9 DEF Trees
<1>11. \A p \in DOMAIN Assembled(base) : ~ IsHost(Assembled(base)[p])
  BY <1>1, <1>8
<1> QED BY <1>10, <1>11

(* Replacing what is below a path keeps a tree: every node is a new one,   *)
(* one that was there, or a record on the way.                             *)
LEMMA ReplacedFacts ==
  ASSUME NEW N, Record \in N, NEW t, NEW at \in Paths, NEW nodes,
         IsFiniteSet(DOMAIN t), DOMAIN t \subseteq Paths,
         IsFiniteSet(DOMAIN nodes), DOMAIN nodes \subseteq Paths
  PROVE  /\ IsFiniteSet(DOMAIN Replaced(t, at, nodes)) /\ DOMAIN Replaced(t, at, nodes) \subseteq Paths
         /\ Replaced(t, at, nodes) = [p \in DOMAIN Replaced(t, at, nodes) |-> Replaced(t, at, nodes)[p]]
         /\ \A p \in DOMAIN Replaced(t, at, nodes) :
              \/ p \in DOMAIN nodes /\ Replaced(t, at, nodes)[p] = nodes[p]
              \/ p \in DOMAIN t /\ Replaced(t, at, nodes)[p] = t[p]
              \/ Replaced(t, at, nodes)[p] = Record
<1> DEFINE cut == Cut(t, at)
           parents == [p \in Parents(at) \ DOMAIN t |-> Record]
           under == Over(parents, cut)
           r == Over(nodes, under)
<1>1. DOMAIN cut \subseteq DOMAIN t /\ \A p \in DOMAIN cut : cut[p] = t[p]
  BY DEF Cut
<1>2. DOMAIN parents \subseteq Parents(at) /\ \A p \in DOMAIN parents : parents[p] = Record
  OBVIOUS
<1> HIDE DEF cut, parents
<1>3. /\ DOMAIN under = DOMAIN parents \cup DOMAIN cut
      /\ \A p \in DOMAIN under : under[p] = IF p \in DOMAIN parents THEN parents[p] ELSE cut[p]
  BY DEF Over
<1> HIDE DEF under
<1>4. /\ DOMAIN r = DOMAIN nodes \cup DOMAIN under
      /\ \A p \in DOMAIN r : r[p] = IF p \in DOMAIN nodes THEN nodes[p] ELSE under[p]
      /\ r = [p \in DOMAIN r |-> r[p]]
  BY DEF Over
<1> HIDE DEF r
<1>5. IsFiniteSet(Parents(at)) /\ Parents(at) \subseteq Paths
  BY ParentsFacts
<1>6. IsFiniteSet(DOMAIN parents) /\ IsFiniteSet(DOMAIN cut)
  BY <1>1, <1>2, <1>5, FS_Subset
<1>7. IsFiniteSet(DOMAIN r)
  <2>1. IsFiniteSet(DOMAIN parents \cup DOMAIN cut)
    BY <1>6, FS_Union
  <2>2. IsFiniteSet(DOMAIN nodes \cup (DOMAIN parents \cup DOMAIN cut))
    BY <2>1, FS_Union
  <2> QED BY <1>3, <1>4, <2>2
<1>8. DOMAIN r \subseteq Paths
  BY <1>1, <1>2, <1>3, <1>4, <1>5
<1>9. \A p \in DOMAIN r : \/ p \in DOMAIN nodes /\ r[p] = nodes[p]
                          \/ p \in DOMAIN t /\ r[p] = t[p]
                          \/ r[p] = Record
  BY <1>1, <1>2, <1>3, <1>4
<1>10. Replaced(t, at, nodes) = r
  BY DEF Replaced, r, under, parents, cut
<1> QED BY <1>4, <1>7, <1>8, <1>9, <1>10

(* The greatest index of a part of a sequence, at which FoldLeft goes on.  *)
LEMMA MaxFacts ==
  ASSUME NEW n \in Nat, NEW s \in SUBSET (1..n), s # {}
  PROVE  Max(s) \in s
<1>1. PICK m \in s : \A k \in s : m >= k
  <2>1. s \in SUBSET (0..n)
    OBVIOUS
  <2> QED BY <2>1, GreatestNatural
<1> QED BY <1>1 DEF Max

(* A loop over a finite set never leaves a set that its steps do not leave. *)
Staying(f, S, V, pick) ==
  /\ f[{}] \in V
  /\ \A s \in SUBSET S : s # {} => pick[s] \in s /\ (f[s \ {pick[s]}] \in V => f[s] \in V)

(* The loop itself, where every step stays in V, is always in V.           *)
LEMMA LoopStays ==
  ASSUME NEW S, IsFiniteSet(S), NEW V, NEW f, NEW pick, Staying(f, S, V, pick)
  PROVE  \A s \in SUBSET S : f[s] \in V
<1> DEFINE P == {s \in SUBSET S : f[s] \in V}
<1>1. P \in SUBSET (SUBSET S) /\ {} \in P
  BY DEF Staying
<1>2. ASSUME NEW s \in SUBSET S, s # {}, \A x \in s : s \ {x} \in P PROVE s \in P
  BY <1>2 DEF Staying
<1> HIDE DEF P
<1>3. P = SUBSET S
  BY <1>1, <1>2, PartInduction
<1> QED BY <1>3 DEF P

(* A call of a setter keeps the input a tree.                              *)
LEMMA TreeReplaced ==
  ASSUME GivenInv, NEW t \in Trees, NEW k \in DOMAIN placed
  PROVE  Replaced(t, placed[k].at, NodesPlaced(placed[k])) \in Trees
<1> DEFINE at    == placed[k].at
           nodes == NodesPlaced(placed[k])
           r     == Replaced(t, at, nodes)
<1>1. Tree(t, Nodes)
  BY TreesAreTrees
<1>2. at \in Paths /\ Tree(nodes, HostNodes)
  BY NodesPlacedFacts
<1>3. Record \in Nodes
  BY DEF Nodes, HostNodes
<1> HIDE DEF at, nodes
<1>4. /\ IsFiniteSet(DOMAIN r) /\ DOMAIN r \subseteq Paths
      /\ r = [p \in DOMAIN r |-> r[p]]
      /\ \A p \in DOMAIN r :
           \/ p \in DOMAIN nodes /\ r[p] = nodes[p]
           \/ p \in DOMAIN t /\ r[p] = t[p]
           \/ r[p] = Record
  <2>1. /\ IsFiniteSet(DOMAIN t) /\ DOMAIN t \subseteq Paths
        /\ IsFiniteSet(DOMAIN nodes) /\ DOMAIN nodes \subseteq Paths
    BY <1>1, <1>2 DEF Tree
  <2> QED BY <1>2, <1>3, <2>1, ReplacedFacts
<1> HIDE DEF r
<1>5. Tree(r, Nodes)
  BY <1>1, <1>2, <1>3, <1>4 DEF Tree, Nodes
<1>6. r \in Trees
  BY <1>5, TreesAreTrees
<1> QED BY <1>6 DEF r, at, nodes

(* How what an application means comes to be, call by call.                *)
MeantSteps(f) ==
  /\ Meant = f[DOMAIN placed] /\ f[{}] = Assembled(base)
  /\ \A s \in SUBSET (DOMAIN placed) :
       /\ f[s] \in Trees
       /\ s # {} => /\ Max(s) \in s
                    /\ f[s] = Replaced(f[s \ {Max(s)}], placed[Max(s)].at, NodesPlaced(placed[Max(s)]))

(* What an application means, after all its calls in their order, is a     *)
(* tree.                                                                   *)
LEMMA MeantLoop ==
  ASSUME GivenInv
  PROVE  \E f : MeantSteps(f)
<1> DEFINE S       == DOMAIN placed
           Does(t, k) == Replaced(t, placed[k].at, NodesPlaced(placed[k]))
           first   == Assembled(base)
           pick    == [s \in SUBSET S |-> Max(s)]
           step    == [k \in S |-> [t \in Trees |-> Does(t, k)]]
<1>1. first \in Trees
  BY AssembledFacts
<1>2. S = 1..Len(placed) /\ Len(placed) \in Nat
  BY DEF GivenInv
<1>3. IsFiniteSet(S)
  BY <1>2, UpToFinite
<1>4. ASSUME NEW s \in SUBSET S, s # {} PROVE pick[s] = Max(s) /\ Max(s) \in s
  <2> HIDE DEF S
  <2>1. s \in SUBSET (1..Len(placed))
    BY <1>2
  <2> QED BY <1>2, <1>4, <2>1, MaxFacts
<1>5. ASSUME NEW k \in S, NEW t \in Trees PROVE Does(t, k) \in Trees
  BY TreeReplaced
<1> HIDE DEF Does, first, S
<1>6. step \in [S -> [Trees -> Trees]]
  BY <1>5
<1>7. PICK g : Gathers(g, S, Trees, first, step, pick)
  <2> HIDE DEF pick, step
  <2> QED BY <1>1, <1>3, <1>4, <1>6, FiniteRecursion
<1> DEFINE Loop(f) == f = [s \in SUBSET S |-> IF s = {} THEN first
                             ELSE LET x == Max(s) IN Does(f[s \ {x}], x)]
           iter == CHOOSE f : Loop(f)
<1>8. Meant = iter[S]
  BY DEF Meant, FoldLeft, MapThenFoldSet, Does, first, S
<1>9. Loop(g)
  <2>1. g = [s \in SUBSET S |-> g[s]]
    BY <1>7 DEF Gathers
  <2>2. ASSUME NEW s \in SUBSET S
        PROVE  g[s] = IF s = {} THEN first ELSE LET x == Max(s) IN Does(g[s \ {x}], x)
    <3>1. CASE s = {}
      BY <1>7, <3>1 DEF Gathers
    <3>2. CASE s # {}
      <4>1. g[s] = step[Max(s)][g[s \ {Max(s)}]] /\ Max(s) \in S /\ g[s \ {Max(s)}] \in Trees
        BY <1>4, <1>7, <3>2 DEF Gathers
      <4> QED BY <3>2, <4>1
    <3> QED BY <3>1, <3>2
  <2> HIDE DEF step, pick
  <2> QED BY <2>1, <2>2
<1> HIDE DEF Loop
<1>10. Loop(iter)
  BY <1>9
<1> HIDE DEF iter
<1>11. iter[{}] \in Trees
  BY <1>1, <1>10 DEF Loop
<1>12. ASSUME NEW s \in SUBSET S, s # {}
       PROVE  pick[s] \in s /\ (iter[s \ {pick[s]}] \in Trees => iter[s] \in Trees)
  <2>1. iter[s] = Does(iter[s \ {Max(s)}], Max(s))
    BY <1>10, <1>12 DEF Loop
  <2> QED BY <1>4, <1>5, <1>12, <2>1
<1>13. \A s \in SUBSET S : iter[s] \in Trees
  <2> HIDE DEF pick
  <2>1. Staying(iter, S, Trees, pick)
    BY <1>11, <1>12 DEF Staying
  <2> QED BY <1>3, <2>1, LoopStays
<1>14. ASSUME NEW s \in SUBSET S, s # {}
       PROVE  Max(s) \in s /\ iter[s] = Does(iter[s \ {Max(s)}], Max(s))
  <2>1. iter[s] = Does(iter[s \ {Max(s)}], Max(s))
    BY <1>10, <1>14 DEF Loop
  <2> QED BY <1>4, <1>14, <2>1
<1>15. iter[{}] = first
  BY <1>10 DEF Loop
<1>16. MeantSteps(iter)
  BY <1>8, <1>13, <1>14, <1>15 DEF Does, first, S, MeantSteps
<1> QED BY <1>16

(* What an application means is a tree.                                    *)
LEMMA MeantFacts ==
  ASSUME GivenInv
  PROVE  Meant \in Trees
<1>1. PICK f : MeantSteps(f)
  BY MeantLoop
<1>2. DOMAIN placed \in SUBSET (DOMAIN placed)
  OBVIOUS
<1> QED BY <1>1, <1>2 DEF MeantSteps

-------------------------------------------------------------------------------
(* Orders.  In a finite set under a strict total order, an element of every *)
(* rank: the ranks are different numbers below the size of the set.        *)
LEMMA EveryRank ==
  ASSUME NEW S, IsFiniteSet(S), NEW R,
         \A p \in S : <<p, p>> \notin R,
         \A p, q \in S : p # q => <<p, q>> \in R \/ <<q, p>> \in R,
         \A p, q, r \in S : <<p, q>> \in R /\ <<q, r>> \in R => <<p, r>> \in R
  PROVE  /\ \A i \in 1..Cardinality(S) : \E p \in S : Cardinality({q \in S : <<q, p>> \in R}) = i - 1
         /\ \A p \in S : Cardinality({q \in S : <<q, p>> \in R}) \in 0..(Cardinality(S) - 1)
         /\ \A p, r \in S : Cardinality({q \in S : <<q, p>> \in R}) = Cardinality({q \in S : <<q, r>> \in R}) => p = r
<1> DEFINE Before(p) == {q \in S : <<q, p>> \in R}
           n    == Cardinality(S)
           rank == [p \in S |-> Cardinality(Before(p))]
<1>1. n \in Nat
  BY FS_CardinalityType
<1>2. ASSUME NEW p \in S
      PROVE  IsFiniteSet(Before(p)) /\ Cardinality(Before(p)) \in Nat /\ Cardinality(Before(p)) < n
  <2>1. Before(p) \in SUBSET S /\ p \notin Before(p)
    OBVIOUS
  <2> HIDE DEF Before
  <2>2. IsFiniteSet(Before(p)) /\ Cardinality(Before(p)) <= n /\ (n = Cardinality(Before(p)) => S = Before(p))
    BY <2>1, FS_Subset
  <2>3. Cardinality(Before(p)) \in Nat
    BY <2>2, FS_CardinalityType
  <2> HIDE DEF n
  <2> QED BY <1>1, <2>1, <2>2, <2>3
<1>3. ASSUME NEW p \in S, NEW q \in S, <<p, q>> \in R PROVE rank[p] < rank[q]
  <2>1. Before(p) \in SUBSET Before(q) /\ p \in Before(q) /\ p \notin Before(p)
    BY <1>3
  <2> HIDE DEF Before
  <2>2. Cardinality(Before(p)) <= Cardinality(Before(q))
        /\ (Cardinality(Before(q)) = Cardinality(Before(p)) => Before(q) = Before(p))
    BY <1>2, <2>1, FS_Subset
  <2> QED BY <1>2, <2>1, <2>2
<1>4. rank \in [S -> 0..(n - 1)]
  <2>1. \A p \in S : Cardinality(Before(p)) \in 0..(n - 1)
    <3> HIDE DEF n, Before
    <3> QED BY <1>1, <1>2
  <2> HIDE DEF n, Before
  <2> QED BY <2>1
<1> HIDE DEF n
<1>5. ASSUME NEW p \in S, NEW q \in S, rank[p] = rank[q] PROVE p = q
  <2>1. rank[p] \in Nat /\ rank[q] \in Nat
    BY <1>1, <1>4
  <2> HIDE DEF rank
  <2>2. SUFFICES ASSUME p # q PROVE FALSE
    OBVIOUS
  <2>3. <<p, q>> \in R \/ <<q, p>> \in R
    BY <2>2
  <2>4. rank[p] < rank[q] \/ rank[q] < rank[p]
    BY <1>3, <2>3
  <2> QED BY <1>5, <2>1, <2>4
<1> DEFINE T == 0..(n - 1)
<1>6. IsFiniteSet(T) /\ Cardinality(T) = n
  <2>1. 0 \in Int /\ n - 1 \in Int
    BY <1>1
  <2>2. IsFiniteSet(0..(n - 1)) /\ Cardinality(0..(n - 1)) = IF 0 > n - 1 THEN 0 ELSE n - 1 - 0 + 1
    BY <2>1, FS_Interval
  <2> QED BY <1>1, <2>2
<1> HIDE DEF rank
<1>7. rank \in Injection(S, T)
  BY <1>4, <1>5 DEF Injection, IsInjective
<1> HIDE DEF T
<1>8. rank \in Surjection(S, T)
  BY <1>6, <1>7, FS_Injection DEF n
<1>9. ASSUME NEW i \in 1..n PROVE \E p \in S : Cardinality(Before(p)) = i - 1
  <2>1. i - 1 \in T
    BY <1>1 DEF T
  <2>2. PICK p \in S : rank[p] = i - 1
    BY <1>8, <2>1 DEF Surjection
  <2> QED BY <2>2 DEF rank
<1>10. \A p \in S : Cardinality(Before(p)) \in 0..(n - 1)
  <2> HIDE DEF Before
  <2> QED BY <1>4 DEF rank
<1>11. \A p, r \in S : Cardinality(Before(p)) = Cardinality(Before(r)) => p = r
  <2> HIDE DEF Before
  <2> QED BY <1>5 DEF rank
<1> QED BY <1>9, <1>10, <1>11 DEF n

(* Two paths agree on their first n words when the words are the same.     *)
LEMMA SamePrefix ==
  ASSUME NEW p \in Paths, NEW q \in Paths, NEW n \in Nat, n <= Len(p), n <= Len(q)
  PROVE  SubSeq(p, 1, n) = SubSeq(q, 1, n) <=> \A i \in 1..n : p[i] = q[i]
<1>1. ASSUME NEW s \in Paths, n <= Len(s)
      PROVE  /\ SubSeq(s, 1, n) \in Seq(Words) /\ Len(SubSeq(s, 1, n)) = n
             /\ \A i \in 1..n : SubSeq(s, 1, n)[i] = s[i]
  <2>1. \A i \in 1..n : s[i] \in Words
    BY <1>1 DEF Paths
  <2>2. /\ SubSeq(s, 1, n) \in Seq(Words)
        /\ Len(SubSeq(s, 1, n)) = IF 1 <= n THEN n - 1 + 1 ELSE 0
        /\ \A i \in 1..(n - 1 + 1) : SubSeq(s, 1, n)[i] = s[1 + i - 1]
    BY <2>1, SubSeqProperties
  <2> QED BY <2>2
<1>2. ASSUME SubSeq(p, 1, n) = SubSeq(q, 1, n), NEW i \in 1..n PROVE p[i] = q[i]
  <2>1. SubSeq(p, 1, n)[i] = p[i] /\ SubSeq(q, 1, n)[i] = q[i]
    BY <1>1
  <2> QED BY <1>2, <2>1
<1>3. ASSUME \A i \in 1..n : p[i] = q[i] PROVE SubSeq(p, 1, n) = SubSeq(q, 1, n)
  <2> DEFINE a == SubSeq(p, 1, n)
             b == SubSeq(q, 1, n)
  <2>1. a \in Seq(Words) /\ b \in Seq(Words) /\ Len(a) = Len(b) /\ Len(a) = n
        /\ \A i \in 1..n : a[i] = b[i]
    BY <1>1, <1>3
  <2> HIDE DEF a, b
  <2>2. a = b
    BY <2>1, SeqEqual
  <2> QED BY <2>2 DEF a, b
<1> QED BY <1>2, <1>3

(* Where two paths of one slot part, both have an index.                   *)
LEMMA WherePathsPart ==
  ASSUME NEW slot \in Paths, NEW p \in Paths, NEW q \in Paths, Matches(p, slot), Matches(q, slot)
  PROVE  /\ \A i \in 1..Len(slot) : p[i] # q[i] =>
              /\ RankOf(p[i]) \in Nat /\ RankOf(q[i]) \in Nat /\ RankOf(p[i]) # RankOf(q[i])
         /\ Precedes(p, q) <=>
              \E i \in 1..Len(slot) : /\ \A j \in 1..(i - 1) : p[j] = q[j]
                                      /\ p[i] # q[i] /\ RankOf(p[i]) < RankOf(q[i])
<1>1. /\ Len(slot) \in Nat /\ Len(p) = Len(slot) /\ Len(q) = Len(slot)
      /\ DOMAIN slot = 1..Len(slot) /\ DOMAIN p = 1..Len(slot)
  BY DEF Paths, Matches
<1>2. ASSUME NEW i \in 1..Len(slot), p[i] # q[i]
      PROVE  RankOf(p[i]) \in Nat /\ RankOf(q[i]) \in Nat /\ RankOf(p[i]) # RankOf(q[i])
  <2>1. p[i] \in ToSet(Indices) /\ q[i] \in ToSet(Indices)
    BY <1>1, <1>2 DEF Matches
  <2>2. DOMAIN Indices = 1..Len(Indices) /\ Len(Indices) \in Nat
    BY IndicesAssumption DEF Paths
  <2>3. PICK a \in 1..Len(Indices) : p[i] = Indices[a]
    BY <2>1, <2>2 DEF ToSet
  <2>4. PICK b \in 1..Len(Indices) : q[i] = Indices[b]
    BY <2>1, <2>2 DEF ToSet
  <2>5. RankOf(p[i]) = a /\ RankOf(q[i]) = b
    BY <2>3, <2>4, RankFacts
  <2> QED BY <1>2, <2>2, <2>3, <2>4, <2>5
<1>3. ASSUME NEW i \in 1..Len(slot)
      PROVE  SubSeq(p, 1, i - 1) = SubSeq(q, 1, i - 1) <=> \A j \in 1..(i - 1) : p[j] = q[j]
  <2>1. i - 1 \in Nat /\ i - 1 <= Len(p) /\ i - 1 <= Len(q)
    BY <1>1
  <2> QED BY <2>1, SamePrefix
<1>4. Precedes(p, q) <=>
        \E i \in 1..Len(slot) : /\ \A j \in 1..(i - 1) : p[j] = q[j]
                                /\ p[i] # q[i] /\ RankOf(p[i]) < RankOf(q[i])
  BY <1>1, <1>3 DEF Precedes
<1> QED BY <1>2, <1>4

(* The order in which the places of a slot are visited is a strict total   *)
(* order.                                                                  *)
LEMMA PrecedesOrders ==
  ASSUME NEW slot \in Paths, NEW p \in Paths, NEW q \in Paths, NEW r \in Paths,
         Matches(p, slot), Matches(q, slot), Matches(r, slot)
  PROVE  /\ ~ Precedes(p, p)
         /\ p # q => Precedes(p, q) \/ Precedes(q, p)
         /\ Precedes(p, q) /\ Precedes(q, r) => Precedes(p, r)
<1>1. /\ Len(slot) \in Nat /\ Len(p) = Len(slot) /\ Len(q) = Len(slot)
  BY DEF Paths, Matches
<1>2. ~ Precedes(p, p)
  BY DEF Precedes
<1>3. ASSUME p # q PROVE Precedes(p, q) \/ Precedes(q, p)
  <2> DEFINE Apart == {i \in 1..Len(slot) : p[i] # q[i]}
  <2>1. Apart # {}
    BY <1>1, <1>3, SeqEqual DEF Paths
  <2>2. Apart \in SUBSET Nat
    OBVIOUS
  <2>3. PICK i \in Apart : \A j \in Apart : i <= j
    <3> HIDE DEF Apart
    <3> QED BY <2>1, <2>2, LeastNatural
  <2>4. i \in 1..Len(slot) /\ p[i] # q[i] /\ \A j \in 1..(i - 1) : p[j] = q[j]
    BY <1>1, <2>3
  <2>5. RankOf(p[i]) \in Nat /\ RankOf(q[i]) \in Nat /\ RankOf(p[i]) # RankOf(q[i])
    BY <2>4, WherePathsPart
  <2>6. CASE RankOf(p[i]) < RankOf(q[i])
    BY <2>4, <2>6, WherePathsPart
  <2>7. CASE RankOf(q[i]) < RankOf(p[i])
    <3>1. \A j \in 1..(i - 1) : q[j] = p[j]
      BY <2>4
    <3> QED BY <2>4, <2>7, <3>1, WherePathsPart
  <2> QED BY <2>5, <2>6, <2>7
<1>4. ASSUME Precedes(p, q), Precedes(q, r) PROVE Precedes(p, r)
  <2>1. PICK i \in 1..Len(slot) : /\ \A j \in 1..(i - 1) : p[j] = q[j]
                                  /\ p[i] # q[i] /\ RankOf(p[i]) < RankOf(q[i])
    BY <1>4, WherePathsPart
  <2>2. PICK k \in 1..Len(slot) : /\ \A j \in 1..(k - 1) : q[j] = r[j]
                                  /\ q[k] # r[k] /\ RankOf(q[k]) < RankOf(r[k])
    BY <1>4, WherePathsPart
  <2>3. /\ RankOf(p[i]) \in Nat /\ RankOf(q[i]) \in Nat
        /\ RankOf(q[k]) \in Nat /\ RankOf(r[k]) \in Nat
    BY <2>1, <2>2, WherePathsPart
  <2>4. \E m \in 1..Len(slot) : /\ \A j \in 1..(m - 1) : p[j] = r[j]
                                /\ p[m] # r[m] /\ RankOf(p[m]) < RankOf(r[m])
    <3>1. CASE i < k
      <4>1. \A j \in 1..(i - 1) : p[j] = r[j]
        BY <2>1, <2>2, <3>1
      <4>2. q[i] = r[i]
        BY <2>2, <3>1
      <4> QED BY <2>1, <4>1, <4>2
    <3>2. CASE k < i
      <4>1. \A j \in 1..(k - 1) : p[j] = r[j]
        BY <2>1, <2>2, <3>2
      <4>2. p[k] = q[k]
        BY <2>1, <3>2
      <4> QED BY <2>2, <4>1, <4>2
    <3>3. CASE k = i
      <4>1. \A j \in 1..(i - 1) : p[j] = r[j]
        BY <2>1, <2>2, <3>3
      <4>2. RankOf(p[i]) < RankOf(r[i])
        BY <2>1, <2>2, <2>3, <3>3
      <4>3. p[i] # r[i]
        BY <2>3, <3>3, <4>2
      <4> QED BY <4>1, <4>2, <4>3
    <3> QED BY <3>1, <3>2, <3>3
  <2> QED BY <2>4, WherePathsPart
<1> QED BY <1>2, <1>3, <1>4

(* A sequence comes to a value.                                            *)
ComesTo(seq, x) == \E k \in DOMAIN seq : seq[k] = x

(* The paths of a slot in order are just those paths, and all of them.     *)
LEMMA InOrderFacts ==
  ASSUME NEW slot \in Paths, NEW S \in SUBSET Paths, IsFiniteSet(S), \A p \in S : Matches(p, slot)
  PROVE  InOrder(S) \in Seq(S) /\ \A p \in S : ComesTo(InOrder(S), p)
<1> DEFINE R == {x \in S \X S : Precedes(x[1], x[2])}
<1>1. \A p, q \in S : <<p, q>> \in R <=> Precedes(p, q)
  OBVIOUS
<1> HIDE DEF R
<1>2. /\ \A p \in S : <<p, p>> \notin R
      /\ \A p, q \in S : p # q => <<p, q>> \in R \/ <<q, p>> \in R
      /\ \A p, q, r \in S : <<p, q>> \in R /\ <<q, r>> \in R => <<p, r>> \in R
  BY <1>1, PrecedesOrders
<1>3. /\ \A i \in 1..Cardinality(S) : \E p \in S : Cardinality({q \in S : <<q, p>> \in R}) = i - 1
      /\ \A p \in S : Cardinality({q \in S : <<q, p>> \in R}) \in 0..(Cardinality(S) - 1)
      /\ \A p, r \in S : Cardinality({q \in S : <<q, p>> \in R}) = Cardinality({q \in S : <<q, r>> \in R}) => p = r
  BY <1>2, EveryRank
<1>4. ASSUME NEW i \in 1..Cardinality(S)
      PROVE  (CHOOSE p \in S : Cardinality({q \in S : Precedes(q, p)}) = i - 1) \in S
  <2>1. PICK p \in S : Cardinality({q \in S : <<q, p>> \in R}) = i - 1
    BY <1>3
  <2>2. {q \in S : <<q, p>> \in R} = {q \in S : Precedes(q, p)}
    BY <1>1
  <2> QED BY <2>1, <2>2
<1>5. Cardinality(S) \in Nat
  BY FS_CardinalityType
<1>6. InOrder(S) \in [1..Cardinality(S) -> S]
  BY <1>4 DEF InOrder
<1>7. ASSUME NEW p \in S PROVE ComesTo(InOrder(S), p)
  <2> DEFINE Rank(x) == Cardinality({q \in S : Precedes(q, x)})
  <2>1. \A x : {q \in S : <<q, x>> \in R} = {q \in S : Precedes(q, x)} \/ x \notin S
    BY <1>1
  <2>2. Rank(p) \in 0..(Cardinality(S) - 1)
    <3>1. Cardinality({q \in S : <<q, p>> \in R}) \in 0..(Cardinality(S) - 1)
      BY <1>3
    <3>2. {q \in S : <<q, p>> \in R} = {q \in S : Precedes(q, p)}
      BY <2>1
    <3> QED BY <3>1, <3>2
  <2>3. ASSUME NEW x \in S, Rank(x) = Rank(p) PROVE x = p
    <3>1. {q \in S : <<q, p>> \in R} = {q \in S : Precedes(q, p)}
          /\ {q \in S : <<q, x>> \in R} = {q \in S : Precedes(q, x)}
      BY <2>1
    <3>2. Cardinality({q \in S : <<q, x>> \in R}) = Cardinality({q \in S : <<q, p>> \in R})
      BY <2>3, <3>1
    <3>3. \A y, z \in S : Cardinality({q \in S : <<q, y>> \in R}) = Cardinality({q \in S : <<q, z>> \in R}) => y = z
      BY <1>3
    <3> QED BY <3>2, <3>3
  <2> DEFINE i == Rank(p) + 1
  <2>4. i \in 1..Cardinality(S) /\ i - 1 = Rank(p)
    <3> HIDE DEF Rank
    <3> QED BY <1>5, <2>2
  <2>5. InOrder(S)[i] = CHOOSE x \in S : Rank(x) = i - 1
    <3> HIDE DEF i
    <3> QED BY <2>4 DEF InOrder
  <2> HIDE DEF Rank
  <2>6. (CHOOSE x \in S : Rank(x) = i - 1) = p
    <3>1. \E x \in S : Rank(x) = i - 1
      BY <2>4
    <3> DEFINE c == CHOOSE x \in S : Rank(x) = i - 1
    <3>2. c \in S /\ Rank(c) = i - 1
      BY <3>1
    <3> HIDE DEF c
    <3>3. c = p
      BY <2>3, <2>4, <3>2
    <3> QED BY <3>3 DEF c
  <2> HIDE DEF i
  <2>7. i \in DOMAIN InOrder(S)
    BY <1>6, <2>4
  <2> QED BY <2>5, <2>6, <2>7 DEF ComesTo
<1> QED BY <1>5, <1>6, <1>7

-------------------------------------------------------------------------------
(* Visits.  Two sequences, one after the other, come to what either does.  *)
LEMMA JoinComes ==
  ASSUME NEW X, NEW s \in Seq(X), NEW t \in Seq(X), NEW x, ComesTo(s, x) \/ ComesTo(t, x)
  PROVE  ComesTo(s \o t, x)
<1>1. /\ Len(s) \in Nat /\ Len(t) \in Nat /\ Len(s \o t) = Len(s) + Len(t) /\ s \o t \in Seq(X)
      /\ \A i \in 1..(Len(s) + Len(t)) : (s \o t)[i] = IF i <= Len(s) THEN s[i] ELSE t[i - Len(s)]
  BY ConcatProperties
<1>2. CASE ComesTo(s, x)
  <2>1. PICK k \in 1..Len(s) : s[k] = x
    BY <1>2 DEF ComesTo
  <2>2. k \in 1..(Len(s) + Len(t)) /\ (s \o t)[k] = x
    BY <1>1, <2>1
  <2> QED BY <1>1, <2>2 DEF ComesTo
<1>3. CASE ComesTo(t, x)
  <2>1. PICK k \in 1..Len(t) : t[k] = x
    BY <1>3 DEF ComesTo
  <2> DEFINE i == Len(s) + k
  <2>2. i \in 1..(Len(s) + Len(t)) /\ (s \o t)[i] = x
    BY <1>1, <2>1
  <2> HIDE DEF i
  <2> QED BY <1>1, <2>2 DEF ComesTo
<1> QED BY <1>2, <1>3

(* What a sequence of sequences comes to, it comes to laid end to end.     *)
LEMMA FlattenFacts ==
  ASSUME NEW X, NEW ss \in Seq(Seq(X))
  PROVE  /\ FlattenSeq(ss) \in Seq(X)
         /\ \A i \in DOMAIN ss, x \in X : ComesTo(ss[i], x) => ComesTo(FlattenSeq(ss), x)
<1> DEFINE n == Len(ss)
           Loop(f) == f = [i \in 1..n |-> IF i = 1 THEN ss[i] ELSE f[i - 1] \o ss[i]]
           flatten == CHOOSE f : Loop(f)
           step == [k \in Nat |-> [v \in Seq(X) |-> IF k + 2 <= n THEN v \o ss[k + 2] ELSE v]]
<1>1. n \in Nat /\ \A i \in 1..n : ss[i] \in Seq(X)
  OBVIOUS
<1>2. CASE n = 0
  <2>1. ss = <<>>
    BY <1>2
  <2> QED BY <1>2, <2>1 DEF FlattenSeq
<1>3. CASE n # 0
  <2>1. FlattenSeq(ss) = flatten[n]
    BY <1>3 DEF FlattenSeq
  <2>2. step \in [Nat -> [Seq(X) -> Seq(X)]]
    <3>1. ASSUME NEW k \in Nat, NEW v \in Seq(X)
          PROVE  (IF k + 2 <= n THEN v \o ss[k + 2] ELSE v) \in Seq(X)
      <4>1. CASE k + 2 <= n
        <5>1. k + 2 \in 1..n
          BY <1>1, <4>1
        <5>2. ss[k + 2] \in Seq(X)
          BY <1>1, <5>1
        <5>3. v \o ss[k + 2] \in Seq(X)
          BY <5>2, ConcatProperties
        <5> QED BY <4>1, <5>3
      <4>2. CASE ~ (k + 2 <= n)
        BY <4>2
      <4> QED BY <4>1, <4>2
    <3> QED BY <3>1
  <2> HIDE DEF n
  <2>3. ss[1] \in Seq(X)
    BY <1>1, <1>3
  <2> HIDE DEF step
  <2>4. PICK f : Iterates(f, Seq(X), ss[1], step)
    BY <2>2, <2>3, Recursion
  <2> DEFINE g == [i \in 1..n |-> f[i - 1]]
  <2>5. Loop(g)
    <3>1. ASSUME NEW i \in 1..n
          PROVE  g[i] = IF i = 1 THEN ss[i] ELSE g[i - 1] \o ss[i]
      <4>1. CASE i = 1
        BY <2>4, <4>1 DEF Iterates
      <4>2. CASE i # 1
        <5>1. i - 2 \in Nat /\ i - 1 \in 1..n /\ (i - 2) + 1 = i - 1 /\ (i - 2) + 2 = i /\ (i - 1) - 1 = i - 2
              /\ i <= n
          BY <1>1, <4>2
        <5>2. f[i - 1] = step[i - 2][f[i - 2]] /\ f[i - 2] \in Seq(X)
          BY <2>4, <5>1 DEF Iterates
        <5>3. step[i - 2][f[i - 2]] = f[i - 2] \o ss[i]
          BY <5>1, <5>2 DEF step
        <5>4. g[i] = f[i - 1] /\ g[i - 1] = f[i - 2]
          BY <5>1
        <5> QED BY <4>2, <5>2, <5>3, <5>4
      <4> QED BY <4>1, <4>2
    <3>2. g = [i \in 1..n |-> g[i]]
      OBVIOUS
    <3> HIDE DEF g
    <3> QED BY <3>1, <3>2
  <2> HIDE DEF Loop
  <2>6. Loop(flatten)
    BY <2>5
  <2> HIDE DEF flatten
  <2> DEFINE Holds(m) == /\ flatten[m] \in Seq(X)
                         /\ \A i \in 1..m, x \in X : ComesTo(ss[i], x) => ComesTo(flatten[m], x)
             P == {k \in Nat : k + 1 <= n => Holds(k + 1)}
  <2>7. 0 \in P
    <3>1. 1 \in 1..n /\ 1..1 = {1}
      BY <1>1, <1>3
    <3>2. flatten[1] = ss[1]
      BY <2>6, <3>1 DEF Loop
    <3> HIDE DEF Loop
    <3>3. \A i \in 1..1 : i = 1
      BY <3>1
    <3>4. Holds(1)
      BY <2>3, <3>2, <3>3
    <3> HIDE DEF Holds
    <3> QED BY <3>4
  <2>8. ASSUME NEW k \in P PROVE k + 1 \in P
    <3> DEFINE m == k + 1
    <3>1. SUFFICES ASSUME m + 1 <= n PROVE Holds(m + 1)
      BY <2>8
    <3>2. m \in Nat /\ m + 1 \in 1..n /\ m + 1 # 1 /\ (m + 1) - 1 = m /\ Holds(m)
      <4> HIDE DEF Holds
      <4> QED BY <1>1, <2>8, <3>1
    <3> HIDE DEF m
    <3>3. flatten[m + 1] = flatten[m] \o ss[m + 1]
      BY <2>6, <3>2 DEF Loop
    <3>4. ss[m + 1] \in Seq(X) /\ flatten[m] \in Seq(X)
      BY <1>1, <3>2
    <3>5. flatten[m + 1] \in Seq(X)
      BY <3>3, <3>4, ConcatProperties
    <3>6. ASSUME NEW i \in 1..(m + 1), NEW x \in X, ComesTo(ss[i], x) PROVE ComesTo(flatten[m + 1], x)
      <4>1. CASE i = m + 1
        <5>1. ComesTo(ss[m + 1], x)
          BY <3>6, <4>1
        <5> QED BY <3>3, <3>4, <5>1, JoinComes
      <4>2. CASE i # m + 1
        <5>1. i \in 1..m
          BY <3>2, <4>2
        <5>2. ComesTo(flatten[m], x)
          BY <3>2, <3>6, <5>1
        <5> QED BY <3>3, <3>4, <5>2, JoinComes
      <4> QED BY <4>1, <4>2
    <3> QED BY <3>5, <3>6
  <2>9. P \in SUBSET Nat
    OBVIOUS
  <2> HIDE DEF P
  <2>10. P = Nat
    BY <2>7, <2>8, <2>9, SetInduction
  <2>11. n - 1 \in P /\ (n - 1) + 1 = n
    BY <1>1, <1>3, <2>10
  <2>12. Holds(n)
    <3> HIDE DEF Holds
    <3> QED BY <1>1, <2>11 DEF P
  <2>13. DOMAIN ss = 1..n
    BY DEF n
  <2> QED BY <2>1, <2>12, <2>13
<1> QED BY <1>2, <1>3

(* A finite set has a sequence of its elements, and of all of them.        *)
LEMMA SequenceOfSet ==
  ASSUME NEW S, IsFiniteSet(S)
  PROVE  SetToSeq(S) \in Seq(S) /\ \A x \in S : ComesTo(SetToSeq(S), x)
<1>1. Cardinality(S) \in Nat /\ ExistsBijection(1..Cardinality(S), S)
  BY FS_CardinalityType
<1>2. \E f \in [1..Cardinality(S) -> S] : IsInjective(f)
  BY <1>1 DEF ExistsBijection, Bijection, Injection, IsInjective
<1>3. SetToSeq(S) \in [1..Cardinality(S) -> S] /\ IsInjective(SetToSeq(S))
  BY <1>2 DEF SetToSeq
<1> DEFINE n == Cardinality(S)
           T == 1..n
           s == SetToSeq(S)
<1>4. IsFiniteSet(T) /\ Cardinality(T) = n
  <2>1. 1 \in Int /\ n \in Int
    BY <1>1
  <2>2. IsFiniteSet(1..n) /\ Cardinality(1..n) = IF 1 > n THEN 0 ELSE n - 1 + 1
    BY <2>1, FS_Interval
  <2> HIDE DEF n
  <2> QED BY <1>1, <2>2 DEF n
<1> HIDE DEF s
<1>5. s \in Injection(T, S)
  BY <1>3 DEF Injection, IsInjective, s
<1> HIDE DEF T
<1>6. s \in Surjection(T, S)
  BY <1>4, <1>5, FS_Injection DEF n
<1>7. ASSUME NEW x \in S PROVE ComesTo(s, x)
  BY <1>6 DEF Surjection, ComesTo
<1> QED BY <1>1, <1>3, <1>7 DEF s

(* A path without its last word.                                           *)
LEMMA FrontFacts ==
  ASSUME NEW slot \in Paths, Len(slot) > 0
  PROVE  /\ Front(slot) \in Paths /\ Len(Front(slot)) = Len(slot) - 1
         /\ \A i \in 1..(Len(slot) - 1) : Front(slot)[i] = slot[i]
<1>1. Len(slot) \in Nat /\ \A i \in 1..(Len(slot) - 1) : slot[i] \in Words
  BY DEF Paths
<1>2. /\ SubSeq(slot, 1, Len(slot) - 1) \in Seq(Words)
      /\ Len(SubSeq(slot, 1, Len(slot) - 1)) = IF 1 <= Len(slot) - 1 THEN Len(slot) - 1 - 1 + 1 ELSE 0
  BY <1>1, SubSeqProperties
<1>3. (IF 1 <= Len(slot) - 1 THEN Len(slot) - 1 - 1 + 1 ELSE 0) = Len(slot) - 1
  <2>1. ASSUME NEW n \in Nat, n > 0 PROVE (IF 1 <= n - 1 THEN n - 1 - 1 + 1 ELSE 0) = n - 1
    <3>1. CASE n = 1
      BY <3>1
    <3>2. CASE n > 1
      BY <3>2
    <3> QED BY <2>1, <3>1, <3>2
  <2> QED BY <1>1, <2>1
<1>4. Front(slot) = SubSeq(slot, 1, Len(slot) - 1)
  BY DEF Front
<1>5. \A i \in 1..(Len(slot) - 1) : SubSeq(slot, 1, Len(slot) - 1)[i] = slot[i]
  BY <1>1 DEF Paths
<1> QED BY <1>2, <1>3, <1>4, <1>5 DEF Paths

(* A path two words shorter, which is the message of a part at it.         *)
LEMMA OwnMessage ==
  ASSUME NEW p \in Paths, Len(p) > 1
  PROVE  /\ Front(Front(p)) \in Paths /\ Len(Front(Front(p))) = Len(p) - 2
         /\ \A i \in 1..(Len(p) - 2) : Front(Front(p))[i] = p[i]
         /\ Starts(p, Front(Front(p)))
<1>1. Len(p) \in Nat
  BY DEF Paths
<1>2. /\ Front(p) \in Paths /\ Len(Front(p)) = Len(p) - 1
      /\ \A i \in 1..(Len(p) - 1) : Front(p)[i] = p[i]
  BY <1>1, FrontFacts
<1>3. /\ Front(Front(p)) \in Paths /\ Len(Front(Front(p))) = Len(p) - 1 - 1
      /\ \A i \in 1..(Len(p) - 1 - 1) : Front(Front(p))[i] = Front(p)[i]
  BY <1>1, <1>2, FrontFacts
<1>4. \A i \in 1..(Len(p) - 2) : i \in 1..(Len(p) - 1 - 1) /\ i \in 1..(Len(p) - 1)
  BY <1>1
<1>5. Len(Front(Front(p))) = Len(p) - 2 /\ \A i \in 1..(Len(p) - 2) : Front(Front(p))[i] = p[i]
  BY <1>1, <1>2, <1>3, <1>4
<1> DEFINE m == Front(Front(p))
<1>6. m \in Paths /\ Len(m) <= Len(p) /\ \A i \in 1..Len(m) : m[i] = p[i]
  BY <1>1, <1>3, <1>5
<1> HIDE DEF m
<1>7. IsPrefix(m, p)
  BY <1>6, PrefixFacts
<1> QED BY <1>3, <1>5, <1>7 DEF Starts, m

(* A place of a slot among those of a tree: its own, or that of one of its *)
(* messages, or of a part of a message that is there.                      *)
AtSlot(p, slot, places) ==
  IF InMessages(slot) THEN Matches(p, PlacesOf(slot)) \/ (Matches(p, slot) /\ Front(Front(p)) \in places)
                      ELSE Matches(p, slot)

(* The message of a part that is at a slot is where the slot's are.        *)
LEMMA MessageAtSlot ==
  ASSUME NEW slot \in Paths, InMessages(slot), NEW p \in Paths, Matches(p, slot)
  PROVE  Matches(Front(Front(p)), PlacesOf(slot)) /\ Starts(p, Front(Front(p)))
<1>1. Len(slot) \in Nat /\ Len(slot) > 1 /\ Len(p) = Len(slot)
  BY DEF InMessages, Matches, Paths
<1>2. /\ Front(Front(p)) \in Paths /\ Len(Front(Front(p))) = Len(p) - 2
      /\ \A i \in 1..(Len(p) - 2) : Front(Front(p))[i] = p[i]
      /\ Starts(p, Front(Front(p)))
  BY <1>1, OwnMessage
<1>3. /\ Front(Front(slot)) \in Paths /\ Len(Front(Front(slot))) = Len(slot) - 2
      /\ \A i \in 1..(Len(slot) - 2) : Front(Front(slot))[i] = slot[i]
  BY <1>1, OwnMessage
<1> DEFINE m == Front(Front(p))
           x == Front(Front(slot))
<1>4. Len(m) = Len(x) /\ DOMAIN x = 1..(Len(slot) - 2)
      /\ \A i \in 1..(Len(slot) - 2) : m[i] = p[i] /\ x[i] = slot[i] /\ i \in DOMAIN slot
  BY <1>1, <1>2, <1>3 DEF Paths
<1> HIDE DEF m, x
<1>5. Matches(m, x)
  BY <1>4 DEF Matches
<1> QED BY <1>2, <1>5 DEF PlacesOf, m, x

(* The visits of one slot are of places of the tree, and of every place at *)
(* the slot.                                                               *)
LEMMA VisitsOfFacts ==
  ASSUME NEW tree, IsFiniteSet(DOMAIN tree), DOMAIN tree \subseteq Paths, NEW slot \in Paths, NEW b \in BOOLEAN
  PROVE  /\ VisitsOf(tree, slot, b) \in Seq(DOMAIN tree)
         /\ \A p \in DOMAIN tree : AtSlot(p, slot, DOMAIN tree) => ComesTo(VisitsOf(tree, slot, b), p)
<1> DEFINE D == DOMAIN tree
<1>1. ASSUME NEW s \in Paths, NEW S \in SUBSET PathsOf(tree, s)
      PROVE  InOrder(S) \in Seq(D) /\ \A p \in S : ComesTo(InOrder(S), p)
  <2>1. S \in SUBSET D /\ S \in SUBSET Paths /\ \A p \in S : Matches(p, s)
    BY <1>1 DEF PathsOf
  <2>2. IsFiniteSet(S)
    BY <2>1, FS_Subset
  <2>3. InOrder(S) \in Seq(S) /\ \A p \in S : ComesTo(InOrder(S), p)
    BY <2>1, <2>2, InOrderFacts
  <2> HIDE DEF D
  <2> QED BY <2>1, <2>3
<1>2. CASE ~ InMessages(slot)
  <2>1. PathsOf(tree, slot) \in SUBSET PathsOf(tree, slot)
    OBVIOUS
  <2>2. VisitsOf(tree, slot, b) = InOrder(PathsOf(tree, slot))
    BY <1>2 DEF VisitsOf
  <2>3. InOrder(PathsOf(tree, slot)) \in Seq(D) /\ \A p \in PathsOf(tree, slot) : ComesTo(InOrder(PathsOf(tree, slot)), p)
    BY <1>1, <2>1
  <2>4. \A p \in D : AtSlot(p, slot, D) => p \in PathsOf(tree, slot)
    BY <1>2 DEF AtSlot, PathsOf
  <2> QED BY <2>2, <2>3, <2>4
<1>3. CASE InMessages(slot)
  <2> DEFINE messages == InOrder(PathsOf(tree, PlacesOf(slot)))
             PartsIn(m) == InOrder({p \in PathsOf(tree, slot) : Starts(p, m)})
             Visit(i) == IF b THEN <<messages[i]>> \o PartsIn(messages[i])
                                      ELSE PartsIn(messages[i]) \o <<messages[i]>>
  <2>1. PlacesOf(slot) \in Paths
    <3>1. Len(slot) \in Nat /\ Len(slot) > 1
      BY <1>3 DEF InMessages, Paths
    <3>2. Front(slot) \in Paths /\ Len(Front(slot)) > 0
      BY <3>1, FrontFacts
    <3>3. Front(Front(slot)) \in Paths
      BY <3>2, FrontFacts
    <3> QED BY <1>3, <3>3 DEF PlacesOf
  <2>2. messages \in Seq(D) /\ \A m \in PathsOf(tree, PlacesOf(slot)) : ComesTo(messages, m)
    BY <1>1, <2>1
  <2>3. \A m : PartsIn(m) \in Seq(D) /\ \A p \in PathsOf(tree, slot) : Starts(p, m) => ComesTo(PartsIn(m), p)
    <3>1. \A m : {p \in PathsOf(tree, slot) : Starts(p, m)} \in SUBSET PathsOf(tree, slot)
      OBVIOUS
    <3> QED BY <1>1, <3>1
  <2>4. VisitsOf(tree, slot, b) = FlattenSeq([i \in DOMAIN messages |-> Visit(i)])
    BY <1>3 DEF VisitsOf
  <2> HIDE DEF messages, PartsIn, D
  <2>5. Len(messages) \in Nat /\ DOMAIN messages = 1..Len(messages)
        /\ \A i \in DOMAIN messages : messages[i] \in D
    BY <2>2
  <2>6. ASSUME NEW i \in DOMAIN messages
        PROVE  /\ Visit(i) \in Seq(D) /\ ComesTo(Visit(i), messages[i])
               /\ \A p \in PathsOf(tree, slot) : Starts(p, messages[i]) => ComesTo(Visit(i), p)
    <3> DEFINE own  == <<messages[i]>>
               rest == PartsIn(messages[i])
    <3>1. own \in Seq(D) /\ rest \in Seq(D) /\ ComesTo(own, messages[i])
          /\ \A p \in PathsOf(tree, slot) : Starts(p, messages[i]) => ComesTo(rest, p)
      <4>1. rest \in Seq(D) /\ \A p \in PathsOf(tree, slot) : Starts(p, messages[i]) => ComesTo(rest, p)
        BY <2>3
      <4>2. 1 \in DOMAIN own /\ own[1] = messages[i] /\ own \in Seq(D)
        BY <2>5
      <4> HIDE DEF own
      <4>3. ComesTo(own, messages[i])
        BY <4>2 DEF ComesTo
      <4> QED BY <4>1, <4>2, <4>3
    <3>2. Visit(i) = own \o rest \/ Visit(i) = rest \o own
      OBVIOUS
    <3> HIDE DEF own, rest, Visit
    <3>3. own \o rest \in Seq(D) /\ rest \o own \in Seq(D)
      BY <3>1, ConcatProperties
    <3>4. \A x : ComesTo(own, x) \/ ComesTo(rest, x) => ComesTo(own \o rest, x) /\ ComesTo(rest \o own, x)
      BY <3>1, JoinComes
    <3> QED BY <3>1, <3>2, <3>3, <3>4
  <2> HIDE DEF Visit
  <2> DEFINE runs == [i \in DOMAIN messages |-> Visit(i)]
  <2>7. runs \in Seq(Seq(D)) /\ DOMAIN runs = DOMAIN messages /\ \A i \in DOMAIN messages : runs[i] = Visit(i)
    BY <2>5, <2>6
  <2> HIDE DEF runs
  <2>8. /\ FlattenSeq(runs) \in Seq(D)
        /\ \A i \in DOMAIN runs, x \in D : ComesTo(runs[i], x) => ComesTo(FlattenSeq(runs), x)
    BY <2>7, FlattenFacts
  <2>9. ASSUME NEW p \in D, AtSlot(p, slot, D) PROVE ComesTo(FlattenSeq(runs), p)
    <3>1. \/ Matches(p, PlacesOf(slot))
          \/ Matches(p, slot) /\ Front(Front(p)) \in D
      BY <1>3, <2>9 DEF AtSlot
    <3>2. CASE Matches(p, PlacesOf(slot))
      <4>1. p \in PathsOf(tree, PlacesOf(slot))
        BY <2>9, <3>2 DEF PathsOf, D
      <4>2. PICK i \in DOMAIN messages : messages[i] = p
        BY <2>2, <4>1 DEF ComesTo
      <4>3. ComesTo(Visit(i), p)
        BY <2>6, <4>2
      <4>4. i \in DOMAIN runs /\ ComesTo(runs[i], p)
        BY <2>7, <4>3
      <4> QED BY <2>8, <2>9, <4>4
    <3>3. CASE Matches(p, slot) /\ Front(Front(p)) \in D
      <4> DEFINE m == Front(Front(p))
      <4>1. Matches(m, PlacesOf(slot)) /\ Starts(p, m)
        BY <1>3, <2>9, <3>3, MessageAtSlot DEF D
      <4>2. m \in PathsOf(tree, PlacesOf(slot)) /\ p \in PathsOf(tree, slot)
        BY <2>9, <3>3, <4>1 DEF PathsOf, D
      <4>3. PICK i \in DOMAIN messages : messages[i] = m
        BY <2>2, <4>2 DEF ComesTo
      <4>4. ComesTo(Visit(i), p)
        BY <2>6, <4>1, <4>2, <4>3
      <4>5. i \in DOMAIN runs /\ ComesTo(runs[i], p)
        BY <2>7, <4>4
      <4> QED BY <2>8, <2>9, <4>5
    <3> QED BY <3>1, <3>2, <3>3
  <2> QED BY <2>4, <2>8, <2>9 DEF D, runs
<1> QED BY <1>2, <1>3

(* The visits of all slots are of places of the tree, and of every place   *)
(* at one of the slots.                                                    *)
LEMMA VisitsFacts ==
  ASSUME GivenInv, NEW tree \in Trees, NEW b \in BOOLEAN
  PROVE  /\ Visits(tree, b) \in Seq(DOMAIN tree)
         /\ \A p \in DOMAIN tree, s \in plan.slots :
              AtSlot(p, s.path, DOMAIN tree) => ComesTo(Visits(tree, b), p)
<1> DEFINE S == {s.path : s \in plan.slots}
           slots == SetToSeq(S)
           D == DOMAIN tree
<1>1. IsFiniteSet(D) /\ D \subseteq Paths
  BY TreesAreTrees DEF Tree
<1>2. IsFiniteSet(plan.slots) /\ \A s \in plan.slots : s.path \in Paths
  BY GivenFacts DEF Planned
<1>3. IsFiniteSet(S) /\ S \subseteq Paths
  <2> DEFINE f == [s \in plan.slots |-> s.path]
  <2>1. f \in [plan.slots -> Paths] /\ S = {f[s] : s \in plan.slots}
    BY <1>2
  <2> HIDE DEF f, S
  <2>2. IsFiniteSet({f[s] : s \in plan.slots})
    BY <1>2, <2>1, ImageFinite
  <2> QED BY <2>1, <2>2
<1>0. \A s \in plan.slots : s.path \in S
  OBVIOUS
<1> HIDE DEF S
<1>4. slots \in Seq(S) /\ \A x \in S : ComesTo(slots, x)
  BY <1>3, SequenceOfSet
<1> HIDE DEF slots
<1>5. Len(slots) \in Nat /\ DOMAIN slots = 1..Len(slots) /\ \A i \in DOMAIN slots : slots[i] \in Paths
  BY <1>3, <1>4
<1>6. ASSUME NEW i \in DOMAIN slots
      PROVE  /\ VisitsOf(tree, slots[i], b) \in Seq(D)
             /\ \A p \in D : AtSlot(p, slots[i], D) => ComesTo(VisitsOf(tree, slots[i], b), p)
  BY <1>1, <1>5, VisitsOfFacts
<1> DEFINE runs == [i \in DOMAIN slots |-> VisitsOf(tree, slots[i], b)]
<1>7. Visits(tree, b) = FlattenSeq(runs)
  BY DEF Visits, slots, S
<1> HIDE DEF D
<1>8. runs \in Seq(Seq(D)) /\ DOMAIN runs = DOMAIN slots /\ \A i \in DOMAIN slots : runs[i] = VisitsOf(tree, slots[i], b)
  BY <1>5, <1>6
<1> HIDE DEF runs
<1>9. /\ FlattenSeq(runs) \in Seq(D)
      /\ \A i \in DOMAIN runs, x \in D : ComesTo(runs[i], x) => ComesTo(FlattenSeq(runs), x)
  BY <1>8, FlattenFacts
<1>10. ASSUME NEW p \in D, NEW s \in plan.slots, AtSlot(p, s.path, D)
       PROVE  ComesTo(FlattenSeq(runs), p)
  <2>1. PICK i \in DOMAIN slots : slots[i] = s.path
    BY <1>0, <1>4 DEF ComesTo
  <2>2. ComesTo(VisitsOf(tree, slots[i], b), p)
    BY <1>6, <1>10, <2>1
  <2>3. i \in DOMAIN runs /\ ComesTo(runs[i], p)
    BY <1>8, <2>2
  <2> QED BY <1>9, <2>3
<1> QED BY <1>7, <1>9, <1>10 DEF D

-------------------------------------------------------------------------------
(* Projections under way.                                                  *)
Identities == [id : Nat \cup {host[o].id : o \in DOMAIN host},
               synthesized : {TRUE} \cup {host[o].flag : o \in DOMAIN host}]
Forms == UNION {GoForm(host[o]) \cup PythonForm(host[o]) \cup TsForm(host[o]) \cup RustForm(host[o]) : o \in DOMAIN host}
Written == {WrittenPart(i, f) : i \in Identities, f \in Forms}
             \cup {WrittenMessage(i, host[o]) : i \in Identities, o \in DOMAIN host}
Owners == DOMAIN host \cup Paths \cup (Nat \X Paths)
Bound  == [path : Paths, source : {host[o].body : o \in DOMAIN host}]

(* A projection under way over the places D.                               *)
AllRuns(D) == [ok : BOOLEAN, event : [D -> Nodes \cup Written], bindings : SUBSET Bound,
               ids : UNION {[T -> Nat] : T \in SUBSET Owners}, next : Nat]

(* The identities made up are different, below the next, and those that    *)
(* were known are kept.                                                    *)
IdsKept(ids_, next_, known, count) ==
  /\ next_ >= count
  /\ \A o \in DOMAIN ids_ : ids_[o] < next_
  /\ \A a, b \in DOMAIN ids_ : ids_[a] = ids_[b] => a = b
  /\ \A o \in DOMAIN known : o \in DOMAIN ids_ /\ ids_[o] = known[o]
  /\ \A o \in DOMAIN ids_ : o \in DOMAIN known \/ ids_[o] >= count

(* What is written for a host object is under its own identity.            *)
Rightly(value, ids_, owner) ==
  value \in Written /\ (value.id \in GivenIds \/ (owner \in DOMAIN ids_ /\ value.id = ids_[owner]))

(* A place of the event is as it was meant, or a host node rightly         *)
(* written for its owner.                                                  *)
EventKept(written, tree, ids_, owner) ==
  \A p \in DOMAIN tree :
    written[p] = tree[p] \/ (tree[p].is = "host" /\ Rightly(written[p], ids_, owner[p]))

(* The projections of a tree that go on from the identities known before.  *)
Runs(tree, owner, known, count) ==
  {run \in AllRuns(DOMAIN tree) :
     IdsKept(run.ids, run.next, known, count) /\ EventKept(run.event, tree, run.ids, owner)}

(* What is written is a content part or a message, never a host object.    *)
LEMMA WrittenFacts ==
  ASSUME NEW w \in Written
  PROVE  w.is \in {"part", "message"}
BY DEF Written, WrittenPart, WrittenMessage

(* The fields of a projection under way.                                   *)
LEMMA RunFields ==
  ASSUME NEW D, NEW run \in AllRuns(D)
  PROVE  /\ run.ok \in BOOLEAN /\ run.event \in [D -> Nodes \cup Written] /\ run.bindings \in SUBSET Bound
         /\ run.ids \in UNION {[T -> Nat] : T \in SUBSET Owners} /\ run.next \in Nat
         /\ DOMAIN run.ids \subseteq Owners /\ \A o \in DOMAIN run.ids : run.ids[o] \in Nat
         /\ run.ids \in [DOMAIN run.ids -> Nat]
<1>1. /\ run.ok \in BOOLEAN /\ run.event \in [D -> Nodes \cup Written] /\ run.bindings \in SUBSET Bound
      /\ run.ids \in UNION {[T -> Nat] : T \in SUBSET Owners} /\ run.next \in Nat
  BY DEF AllRuns
<1>2. PICK T \in SUBSET Owners : run.ids \in [T -> Nat]
  BY <1>1
<1> QED BY <1>1, <1>2

(* Failing changes nothing but the outcome.                                *)
LEMMA FailedFields ==
  ASSUME NEW D, NEW run \in AllRuns(D)
  PROVE  /\ Failed(run) \in AllRuns(D)
         /\ Failed(run).event = run.event /\ Failed(run).ids = run.ids /\ Failed(run).next = run.next
         /\ Failed(run).ok = FALSE
BY DEF AllRuns, Failed

(* Writing a value changes the event in one place.                         *)
LEMMA WriteFields ==
  ASSUME NEW D, NEW run \in AllRuns(D), NEW at \in D, NEW value \in Written
  PROVE  /\ Write(run, at, value) \in AllRuns(D)
         /\ Write(run, at, value).event = [run.event EXCEPT ![at] = value]
         /\ Write(run, at, value).ids = run.ids /\ Write(run, at, value).next = run.next
<1>1. [run.event EXCEPT ![at] = value] \in [D -> Nodes \cup Written]
  BY RunFields
<1>2. Write(run, at, value) = [run EXCEPT !.event = [run.event EXCEPT ![at] = value]]
  BY DEF Write, AllRuns
<1> QED BY <1>1, <1>2 DEF AllRuns

(* Binding a body changes the bindings alone.                              *)
LEMMA BindFields ==
  ASSUME NEW D \in SUBSET Paths, NEW run \in AllRuns(D), NEW at \in D, NEW o \in DOMAIN host
  PROVE  /\ Bind(run, at, host[o]) \in AllRuns(D)
         /\ Bind(run, at, host[o]).event = run.event
         /\ Bind(run, at, host[o]).ids = run.ids /\ Bind(run, at, host[o]).next = run.next
<1> DEFINE more == run.bindings \cup {[path |-> at, source |-> host[o].body]}
<1>1. more \in SUBSET Bound
  BY RunFields DEF Bound
<1>2. CASE Owned(host[o])
  <2>1. Bind(run, at, host[o]) = [run EXCEPT !.bindings = more]
    BY <1>2 DEF Bind
  <2> HIDE DEF more
  <2> QED BY <1>1, <2>1 DEF AllRuns
<1>3. CASE ~ Owned(host[o])
  BY <1>3 DEF Bind
<1> QED BY <1>2, <1>3

(* Making up an identity takes the next number for one new owner.          *)
LEMMA NamedFields ==
  ASSUME NEW D, NEW run \in AllRuns(D), NEW o \in Owners, o \notin DOMAIN run.ids
  PROVE  /\ Named(run, o) \in AllRuns(D)
         /\ Named(run, o).event = run.event /\ Named(run, o).ok = run.ok
         /\ DOMAIN Named(run, o).ids = DOMAIN run.ids \cup {o}
         /\ \A k \in DOMAIN Named(run, o).ids :
              Named(run, o).ids[k] = IF k = o THEN run.next ELSE run.ids[k]
         /\ Named(run, o).next = run.next + 1
<1> DEFINE more  == Put(run.ids, o, run.next)
           named == [run EXCEPT !.ids = more, !.next = run.next + 1]
<1>1. /\ DOMAIN more = DOMAIN run.ids \cup {o}
      /\ \A k \in DOMAIN more : more[k] = IF k = o THEN run.next ELSE run.ids[k]
      /\ more = [k \in DOMAIN more |-> more[k]]
  BY DEF Put
<1>2. more \in UNION {[T -> Nat] : T \in SUBSET Owners}
  <2>1. more \in [DOMAIN more -> Nat] /\ DOMAIN more \in SUBSET Owners
    <3> HIDE DEF more
    <3> QED BY <1>1, RunFields
  <2> HIDE DEF more
  <2> QED BY <2>1
<1>3. Named(run, o) = named
  BY DEF Named
<1> HIDE DEF more
<1>4. /\ named \in AllRuns(D) /\ named.event = run.event /\ named.ok = run.ok
      /\ named.ids = more /\ named.next = run.next + 1
  <2> DEFINE half == [run EXCEPT !.ids = more]
  <2>1. /\ half \in AllRuns(D) /\ half.event = run.event /\ half.ok = run.ok
        /\ half.ids = more /\ half.next = run.next
    BY <1>2 DEF AllRuns
  <2>2. named = [half EXCEPT !.next = run.next + 1]
    BY DEF AllRuns
  <2>3. run.next + 1 \in Nat
    BY RunFields
  <2> HIDE DEF half, named
  <2> QED BY <2>1, <2>2, <2>3 DEF AllRuns
<1> QED BY <1>1, <1>3, <1>4

(* A failing projection has kept the identities all the same.              *)
LEMMA FailedKeeps ==
  ASSUME NEW tree, NEW owner, NEW known, NEW count, NEW run \in Runs(tree, owner, known, count)
  PROVE  Failed(run) \in Runs(tree, owner, known, count)
BY FailedFields DEF Runs

(* Naming an owner, again or anew, keeps the identities different, and     *)
(* the owner has one.                                                      *)
LEMMA NamedKeeps ==
  ASSUME NEW tree, NEW owner, NEW known, NEW count \in Nat, NEW run \in Runs(tree, owner, known, count),
         NEW o \in Owners
  PROVE  /\ Named(run, o) \in Runs(tree, owner, known, count)
         /\ o \in DOMAIN Named(run, o).ids /\ Named(run, o).event = run.event
<1>0. run \in AllRuns(DOMAIN tree) /\ IdsKept(run.ids, run.next, known, count)
      /\ EventKept(run.event, tree, run.ids, owner)
  BY DEF Runs
<1>1. CASE o \in DOMAIN run.ids
  BY <1>1 DEF Named
<1>2. CASE o \notin DOMAIN run.ids
  <2> DEFINE named == Named(run, o)
  <2>1. /\ named \in AllRuns(DOMAIN tree)
        /\ named.event = run.event
        /\ DOMAIN named.ids = DOMAIN run.ids \cup {o}
        /\ \A k \in DOMAIN named.ids : named.ids[k] = IF k = o THEN run.next ELSE run.ids[k]
        /\ named.next = run.next + 1
    BY <1>0, <1>2, NamedFields
  <2> HIDE DEF named
  <2>2. run.next \in Nat /\ \A k \in DOMAIN run.ids : run.ids[k] \in Nat /\ run.ids[k] < run.next
    BY <1>0, RunFields DEF IdsKept
  <2>3. /\ named.next >= count
        /\ \A k \in DOMAIN named.ids : named.ids[k] < named.next
        /\ \A a, b \in DOMAIN named.ids : named.ids[a] = named.ids[b] => a = b
        /\ \A k \in DOMAIN known : k \in DOMAIN named.ids /\ named.ids[k] = known[k]
        /\ \A k \in DOMAIN named.ids : k \in DOMAIN known \/ named.ids[k] >= count
    <3>1. named.next >= count /\ \A k \in DOMAIN named.ids : named.ids[k] < named.next
      BY <1>0, <2>1, <2>2 DEF IdsKept
    <3>2. ASSUME NEW a \in DOMAIN named.ids, NEW b \in DOMAIN named.ids, named.ids[a] = named.ids[b] PROVE a = b
      BY <1>0, <2>1, <2>2, <3>2 DEF IdsKept
    <3>3. ASSUME NEW k \in DOMAIN known PROVE k \in DOMAIN named.ids /\ named.ids[k] = known[k]
      BY <1>0, <1>2, <2>1, <3>3 DEF IdsKept
    <3>4. ASSUME NEW k \in DOMAIN named.ids PROVE k \in DOMAIN known \/ named.ids[k] >= count
      BY <1>0, <2>1, <2>2 DEF IdsKept
    <3> QED BY <3>1, <3>2, <3>3, <3>4
  <2>4. EventKept(named.event, tree, named.ids, owner)
    <3>1. ASSUME NEW p \in DOMAIN tree, Rightly(run.event[p], run.ids, owner[p])
          PROVE  Rightly(run.event[p], named.ids, owner[p])
      BY <1>2, <2>1, <3>1 DEF Rightly
    <3> QED BY <1>0, <2>1, <3>1 DEF EventKept
  <2>5. IdsKept(named.ids, named.next, known, count)
    BY <2>3 DEF IdsKept
  <2> QED BY <2>1, <2>4, <2>5 DEF Runs, named
<1> QED BY <1>1, <1>2

(* What is written for a host node under its owner's identity keeps the    *)
(* event.                                                                  *)
LEMMA WriteKeeps ==
  ASSUME NEW tree, NEW owner, NEW known, NEW count, NEW run \in Runs(tree, owner, known, count),
         NEW at \in DOMAIN tree, run.event[at] = tree[at], tree[at].is = "host",
         NEW value, Rightly(value, run.ids, owner[at])
  PROVE  Write(run, at, value) \in Runs(tree, owner, known, count)
<1>1. run \in AllRuns(DOMAIN tree) /\ IdsKept(run.ids, run.next, known, count)
      /\ EventKept(run.event, tree, run.ids, owner)
  BY DEF Runs
<1> DEFINE w == Write(run, at, value)
<1>2. value \in Written
  BY DEF Rightly
<1>3. /\ w \in AllRuns(DOMAIN tree) /\ w.event = [run.event EXCEPT ![at] = value]
      /\ w.ids = run.ids /\ w.next = run.next
  BY <1>1, <1>2, WriteFields
<1> HIDE DEF w
<1>4. \A p \in DOMAIN tree : w.event[p] = IF p = at THEN value ELSE run.event[p]
  BY <1>1, <1>3, RunFields
<1>5. EventKept(w.event, tree, w.ids, owner)
  BY <1>1, <1>3, <1>4 DEF EventKept
<1> QED BY <1>1, <1>3, <1>5 DEF Runs, w

(* Binding a body keeps the event and the identities.                      *)
LEMMA BindKeeps ==
  ASSUME NEW tree, DOMAIN tree \subseteq Paths, NEW owner, NEW known, NEW count,
         NEW run \in Runs(tree, owner, known, count), NEW at \in DOMAIN tree, NEW o \in DOMAIN host
  PROVE  Bind(run, at, host[o]) \in Runs(tree, owner, known, count)
<1>1. run \in AllRuns(DOMAIN tree)
  BY DEF Runs
<1>2. /\ Bind(run, at, host[o]) \in AllRuns(DOMAIN tree)
      /\ Bind(run, at, host[o]).event = run.event
      /\ Bind(run, at, host[o]).ids = run.ids /\ Bind(run, at, host[o]).next = run.next
  BY <1>1, BindFields
<1> QED BY <1>2 DEF Runs

(* The identity of a host object that is not the empty string is one the   *)
(* application gave it or the one made up for its owner.                   *)
LEMMA IdentityFacts ==
  ASSUME GivenInv, NEW D, NEW run \in AllRuns(D), NEW owner, NEW o \in DOMAIN host,
         host[o].id # Empty, host[o].id = None => owner \in DOMAIN run.ids
  PROVE  /\ Identity(run, owner, host[o]) \in Identities
         /\ \/ Identity(run, owner, host[o]).id \in GivenIds
            \/ owner \in DOMAIN run.ids /\ Identity(run, owner, host[o]).id = run.ids[owner]
<1>1. host[o].id \in GivenIds \cup {None, Empty}
  BY GivenFacts DEF Hostly
<1>2. CASE host[o].id = None
  <2>1. Identity(run, owner, host[o]) = [id |-> run.ids[owner], synthesized |-> TRUE]
    BY <1>2 DEF Identity
  <2>2. run.ids[owner] \in Nat
    BY <1>2, RunFields
  <2> QED BY <1>2, <2>1, <2>2 DEF Identities
<1>3. CASE host[o].id # None
  <2>1. Identity(run, owner, host[o]) = [id |-> host[o].id, synthesized |-> host[o].flag]
    BY <1>3 DEF Identity
  <2>2. host[o].id \in GivenIds
    BY <1>1, <1>3
  <2>3. [id |-> host[o].id, synthesized |-> host[o].flag] \in Identities
    BY DEF Identities
  <2> QED BY <2>1, <2>2, <2>3
<1> QED BY <1>2, <1>3

(* A part or a message under an identity of its owner is rightly written.  *)
LEMMA RightlyWritten ==
  ASSUME NEW i \in Identities, NEW ids_, NEW owner,
         i.id \in GivenIds \/ (owner \in DOMAIN ids_ /\ i.id = ids_[owner])
  PROVE  /\ \A f \in Forms : Rightly(WrittenPart(i, f), ids_, owner)
         /\ \A o \in DOMAIN host : Rightly(WrittenMessage(i, host[o]), ids_, owner)
<1>1. ASSUME NEW f \in Forms PROVE Rightly(WrittenPart(i, f), ids_, owner)
  <2>1. WrittenPart(i, f) \in Written
    BY DEF Written
  <2>2. WrittenPart(i, f).id = i.id
    BY DEF WrittenPart
  <2> QED BY <2>1, <2>2 DEF Rightly
<1>2. ASSUME NEW o \in DOMAIN host PROVE Rightly(WrittenMessage(i, host[o]), ids_, owner)
  <2>1. WrittenMessage(i, host[o]) \in Written
    BY DEF Written
  <2>2. WrittenMessage(i, host[o]).id = i.id
    BY DEF WrittenMessage
  <2> QED BY <2>1, <2>2 DEF Rightly
<1> QED BY <1>1, <1>2

(* A host object is not written yet where a visit finds it, and what is    *)
(* written for it keeps the run.                                           *)
LEMMA VisitFacts ==
  ASSUME GivenInv, NEW tree \in Trees, NEW owner, \A p \in DOMAIN tree : tree[p].is = "host" => owner[p] \in Owners,
         NEW known, NEW count \in Nat, NEW run \in Runs(tree, owner, known, count),
         NEW at \in DOMAIN tree, IsHost(run.event[at]),
         NEW o, o = run.event[at].object,
         NEW named, named = IdentityOfItsOwn(run, owner[at], host[o]),
         NEW identity, identity = Identity(named, owner[at], host[o])
  PROVE  /\ o \in DOMAIN host /\ o = tree[at].object
         /\ named \in Runs(tree, owner, known, count)
         /\ host[o].id # Empty =>
              /\ \A f \in Forms : Write(named, at, WrittenPart(identity, f)) \in Runs(tree, owner, known, count)
              /\ Write(named, at, WrittenMessage(identity, host[o])) \in Runs(tree, owner, known, count)
<1>0. run \in AllRuns(DOMAIN tree) /\ EventKept(run.event, tree, run.ids, owner)
  BY DEF Runs
<1>1. run.event[at] = tree[at] /\ tree[at].is = "host"
  <2>1. run.event[at].is = "host"
    BY DEF IsHost
  <2>2. run.event[at] \notin Written
    BY <2>1, WrittenFacts
  <2> QED BY <1>0, <2>1, <2>2 DEF EventKept, Rightly
<1>2. o \in DOMAIN host /\ o = tree[at].object
  <2>1. Tree(tree, Nodes)
    BY TreesAreTrees
  <2>2. tree[at] \in Nodes
    BY <2>1 DEF Tree
  <2> QED BY <1>1, <2>2, NodeFacts
<1>3. /\ named \in Runs(tree, owner, known, count) /\ named.event = run.event
      /\ host[o].id = None => owner[at] \in DOMAIN named.ids
  <2>1. CASE host[o].id = None
    <3>1. named = Named(run, owner[at])
      BY <2>1 DEF IdentityOfItsOwn
    <3>2. owner[at] \in Owners
      BY <1>1
    <3> QED BY <3>1, <3>2, NamedKeeps
  <2>2. CASE host[o].id # None
    BY <2>2 DEF IdentityOfItsOwn
  <2> QED BY <2>1, <2>2
<1>4. ASSUME host[o].id # Empty
      PROVE  /\ \A f \in Forms : Write(named, at, WrittenPart(identity, f)) \in Runs(tree, owner, known, count)
             /\ Write(named, at, WrittenMessage(identity, host[o])) \in Runs(tree, owner, known, count)
  <2>1. named \in AllRuns(DOMAIN tree)
    BY <1>3 DEF Runs
  <2>2. /\ identity \in Identities
        /\ identity.id \in GivenIds \/ (owner[at] \in DOMAIN named.ids /\ identity.id = named.ids[owner[at]])
    BY <1>2, <1>3, <1>4, <2>1, IdentityFacts
  <2>3. named.event[at] = tree[at]
    BY <1>1, <1>3
  <2>4. /\ \A f \in Forms : Rightly(WrittenPart(identity, f), named.ids, owner[at])
        /\ Rightly(WrittenMessage(identity, host[o]), named.ids, owner[at])
    BY <1>2, <2>2, RightlyWritten
  <2> QED BY <1>1, <1>3, <2>3, <2>4, WriteKeeps
<1> QED BY <1>2, <1>3, <1>4

(* In Go and TypeScript an identity belongs to the object.                 *)
ObjectAt(tree) == [p \in {q \in DOMAIN tree : tree[q].is = "host"} |-> tree[p].object]
(* In Python to the place.                                                 *)
PlaceAt(tree) == [p \in DOMAIN tree |-> p]

(* Every host node of a tree has an owner.                                 *)
LEMMA OwnersFacts ==
  ASSUME GivenInv, NEW tree \in Trees
  PROVE  /\ DOMAIN tree \subseteq Paths
         /\ \A p \in DOMAIN tree : tree[p].is = "host" => ObjectAt(tree)[p] = tree[p].object
         /\ \A p \in DOMAIN tree : tree[p].is = "host" => ObjectAt(tree)[p] \in Owners
         /\ \A p \in DOMAIN tree : PlaceAt(tree)[p] = p /\ PlaceAt(tree)[p] \in Owners
<1>1. DOMAIN tree \subseteq Paths /\ \A p \in DOMAIN tree : tree[p] \in Nodes
  BY TreesAreTrees DEF Tree
<1>2. ASSUME NEW p \in DOMAIN tree, tree[p].is = "host"
      PROVE  ObjectAt(tree)[p] = tree[p].object /\ ObjectAt(tree)[p] \in Owners
  <2>1. tree[p].object \in DOMAIN host
    BY <1>1, <1>2, NodeFacts
  <2> QED BY <1>2, <2>1 DEF ObjectAt, Owners
<1>3. ASSUME NEW p \in DOMAIN tree
      PROVE  PlaceAt(tree)[p] = p /\ PlaceAt(tree)[p] \in Owners
  BY <1>1 DEF PlaceAt, Owners
<1> QED BY <1>1, <1>2, <1>3

(* The form that a language writes for an object is a form.                *)
LEMMA FormsFacts ==
  ASSUME NEW o \in DOMAIN host
  PROVE  /\ GoForm(host[o]) # {} => (CHOOSE f \in GoForm(host[o]) : TRUE) \in Forms
         /\ PythonForm(host[o]) # {} => (CHOOSE f \in PythonForm(host[o]) : TRUE) \in Forms
         /\ TsForm(host[o]) # {} => (CHOOSE f \in TsForm(host[o]) : TRUE) \in Forms
         /\ RustForm(host[o]) # {} => (CHOOSE f \in RustForm(host[o]) : TRUE) \in Forms
BY DEF Forms

(* One visit of the Go adapter keeps the projection (projectHostContent).  *)
LEMMA GoKeeps ==
  ASSUME GivenInv, NEW tree \in Trees,
         \A p \in DOMAIN tree : tree[p].is = "host" => host[tree[p].object].id # Empty,
         NEW known, NEW count \in Nat, NEW run \in Runs(tree, ObjectAt(tree), known, count),
         NEW at \in DOMAIN tree
  PROVE  GoVisit(run, at) \in Runs(tree, ObjectAt(tree), known, count)
<1> DEFINE V == Runs(tree, ObjectAt(tree), known, count)
           node  == run.event[at]
           thing == host[node.object]
           named == GoIdentity(run, node.object)
           identity == Identity(named, node.object, thing)
<1>1. Failed(run) \in V
  BY FailedKeeps
<1>2. CASE ~ IsHost(node)
  BY <1>1, <1>2 DEF GoVisit
<1>3. CASE IsHost(node)
  <2>1. run \in V
    OBVIOUS
  <2>0. run.event[at] = tree[at] /\ tree[at].is = "host"
    <3>1. node \notin Written
      BY <1>3, WrittenFacts DEF IsHost
    <3> QED BY <1>3, <3>1 DEF Runs, EventKept, Rightly, IsHost
  <2>2. node.object = ObjectAt(tree)[at]
    BY <2>0, OwnersFacts
  <2>3. named = IdentityOfItsOwn(run, ObjectAt(tree)[at], host[node.object])
    BY <2>2 DEF GoIdentity
  <2>4. identity = Identity(named, ObjectAt(tree)[at], host[node.object])
    BY <2>2
  <2>5. \A p \in DOMAIN tree : tree[p].is = "host" => ObjectAt(tree)[p] \in Owners
    BY OwnersFacts
  <2> DEFINE o == node.object
  <2> HIDE DEF named, identity
  <2>6. /\ o \in DOMAIN host /\ o = tree[at].object
        /\ named \in V
        /\ host[o].id # Empty =>
              /\ \A f \in Forms : Write(named, at, WrittenPart(identity, f)) \in V
              /\ Write(named, at, WrittenMessage(identity, host[o])) \in V
    BY <1>3, <2>3, <2>4, <2>5, VisitFacts
  <2>7. host[o].id # Empty
    BY <2>0, <2>6
  <2>8. Failed(named) \in V
    BY <2>6, FailedKeeps
  <2>9. GoForm(thing) # {} => (CHOOSE f \in GoForm(thing) : TRUE) \in Forms
    BY <2>6, FormsFacts
  <2>10. GoVisit(run, at) \in {Failed(run), Failed(named), Write(named, at, WrittenMessage(identity, thing))}
         \/ (GoForm(thing) # {} /\ GoVisit(run, at) = Write(named, at, WrittenPart(identity, CHOOSE f \in GoForm(thing) : TRUE)))
    BY DEF GoVisit, named, identity
  <2> HIDE DEF V, node
  <2>11. GoVisit(run, at) \in V
    BY <1>1, <2>6, <2>7, <2>8, <2>9, <2>10
  <2> QED BY <2>11 DEF V
<1> QED BY <1>2, <1>3

(* One visit of the Python adapter keeps the projection.                   *)
LEMMA PythonKeeps ==
  ASSUME GivenInv, NEW tree \in Trees,
         NEW known, NEW count \in Nat, NEW run \in Runs(tree, PlaceAt(tree), known, count),
         NEW at \in DOMAIN tree
  PROVE  PythonVisit(run, at) \in Runs(tree, PlaceAt(tree), known, count)
<1> DEFINE V == Runs(tree, PlaceAt(tree), known, count)
           node  == run.event[at]
           thing == host[node.object]
           named == IdentityOfItsOwn(run, at, thing)
           identity == Identity(named, at, thing)
           part == WrittenPart(identity, CHOOSE f \in PythonForm(thing) : TRUE)
<1>1. Failed(run) \in V
  BY FailedKeeps
<1>2. CASE ~ IsHost(node)
  BY <1>1, <1>2 DEF PythonVisit
<1>3. CASE IsHost(node)
  <2>1. run.event[at] = tree[at] /\ tree[at].is = "host"
    <3>1. node \notin Written
      BY <1>3, WrittenFacts DEF IsHost
    <3> QED BY <1>3, <3>1 DEF Runs, EventKept, Rightly, IsHost
  <2>2. PlaceAt(tree)[at] = at /\ DOMAIN tree \subseteq Paths
    BY <2>1, OwnersFacts
  <2>3. named = IdentityOfItsOwn(run, PlaceAt(tree)[at], host[node.object])
        /\ identity = Identity(named, PlaceAt(tree)[at], host[node.object])
    BY <2>2
  <2>4. \A p \in DOMAIN tree : tree[p].is = "host" => PlaceAt(tree)[p] \in Owners
    BY OwnersFacts
  <2> DEFINE o == node.object
  <2> HIDE DEF named, identity
  <2>5. /\ o \in DOMAIN host /\ named \in V
        /\ host[o].id # Empty =>
              /\ \A f \in Forms : Write(named, at, WrittenPart(identity, f)) \in V
              /\ Write(named, at, WrittenMessage(identity, host[o])) \in V
    BY <1>3, <2>3, <2>4, VisitFacts
  <2>6. Failed(named) \in V
    BY <2>5, FailedKeeps
  <2>7. PythonForm(thing) # {} => (CHOOSE f \in PythonForm(thing) : TRUE) \in Forms
    BY <2>5, FormsFacts
  <2>8. ASSUME thing.id # Empty, PythonForm(thing) # {} PROVE Bind(Write(named, at, part), at, thing) \in V
    <3>1. Write(named, at, part) \in V
      BY <2>5, <2>7, <2>8
    <3> HIDE DEF part
    <3> QED BY <2>2, <2>5, <3>1, BindKeeps
  <2>a. PythonForm(thing) # {} => thing.id # Empty
    BY Zenon DEF PythonForm
  <2>9. \/ PythonVisit(run, at) \in {Failed(run), Failed(named)}
        \/ thing.id # Empty /\ PythonVisit(run, at) = Write(named, at, WrittenMessage(identity, thing))
        \/ /\ PythonForm(thing) # {} /\ thing.id # Empty
           /\ PythonVisit(run, at) = Bind(Write(named, at, part), at, thing)
    BY <2>a DEF PythonVisit, named, identity
  <2> HIDE DEF V, node, part
  <2>10. PythonVisit(run, at) \in V
    BY <1>1, <2>5, <2>6, <2>8, <2>9
  <2> QED BY <2>10 DEF V
<1> QED BY <1>2, <1>3

(* One visit of the TypeScript adapter keeps the projection.               *)
LEMMA TsKeeps ==
  ASSUME GivenInv, NEW tree \in Trees,
         NEW known, NEW count \in Nat, NEW run \in Runs(tree, ObjectAt(tree), known, count),
         NEW at \in DOMAIN tree
  PROVE  TsVisit(run, at) \in Runs(tree, ObjectAt(tree), known, count)
<1> DEFINE V == Runs(tree, ObjectAt(tree), known, count)
           node  == run.event[at]
           thing == host[node.object]
           named == IdentityOfItsOwn(run, node.object, thing)
           identity == Identity(named, node.object, thing)
           part == WrittenPart(identity, CHOOSE f \in TsForm(thing) : TRUE)
<1>1. Failed(run) \in V
  BY FailedKeeps
<1>2. CASE ~ IsHost(node)
  BY <1>1, <1>2 DEF TsVisit
<1>3. CASE IsHost(node)
  <2>1. run.event[at] = tree[at] /\ tree[at].is = "host"
    <3>1. node \notin Written
      BY <1>3, WrittenFacts DEF IsHost
    <3> QED BY <1>3, <3>1 DEF Runs, EventKept, Rightly, IsHost
  <2>2. ObjectAt(tree)[at] = node.object /\ DOMAIN tree \subseteq Paths
    BY <2>1, OwnersFacts
  <2>3. named = IdentityOfItsOwn(run, ObjectAt(tree)[at], host[node.object])
        /\ identity = Identity(named, ObjectAt(tree)[at], host[node.object])
    BY <2>2
  <2>4. \A p \in DOMAIN tree : tree[p].is = "host" => ObjectAt(tree)[p] \in Owners
    BY OwnersFacts
  <2> DEFINE o == node.object
  <2> HIDE DEF named, identity
  <2>5. /\ o \in DOMAIN host /\ named \in V
        /\ host[o].id # Empty =>
              /\ \A f \in Forms : Write(named, at, WrittenPart(identity, f)) \in V
              /\ Write(named, at, WrittenMessage(identity, host[o])) \in V
    BY <1>3, <2>3, <2>4, VisitFacts
  <2>6. Failed(named) \in V
    BY <2>5, FailedKeeps
  <2>7. TsForm(thing) # {} => (CHOOSE f \in TsForm(thing) : TRUE) \in Forms
    BY <2>5, FormsFacts
  <2>8. ASSUME thing.id # Empty, TsForm(thing) # {} PROVE Bind(Write(named, at, part), at, thing) \in V
    <3>1. Write(named, at, part) \in V
      BY <2>5, <2>7, <2>8
    <3> HIDE DEF part
    <3> QED BY <2>2, <2>5, <3>1, BindKeeps
  <2>9. \/ TsVisit(run, at) \in {Failed(run), Failed(named)}
        \/ thing.id # Empty /\ TsVisit(run, at) = Write(named, at, WrittenMessage(identity, thing))
        \/ /\ TsForm(thing) # {} /\ thing.id # Empty
           /\ TsVisit(run, at) = Bind(Write(named, at, part), at, thing)
    BY DEF TsVisit, named, identity
  <2> HIDE DEF V, node, part
  <2>10. TsVisit(run, at) \in V
    BY <1>1, <2>5, <2>6, <2>8, <2>9
  <2> QED BY <2>10 DEF V
<1> QED BY <1>2, <1>3

-------------------------------------------------------------------------------
(* Whole projections.                                                      *)
Knowing(known, count) ==
  /\ count \in Nat /\ known \in [DOMAIN known -> Nat] /\ DOMAIN known \subseteq Owners
  /\ \A o \in DOMAIN known : known[o] < count
  /\ \A a, b \in DOMAIN known : known[a] = known[b] => a = b

(* A projection starts from the input as the application meant it and the  *)
(* identities known before.                                                *)
LEMMA ProjectionStarts ==
  ASSUME NEW tree \in Trees, NEW owner, NEW known, NEW count, Knowing(known, count)
  PROVE  Projection(tree, known, count) \in Runs(tree, owner, known, count)
<1> DEFINE run == Projection(tree, known, count)
<1>1. run.event = tree /\ run.ids = known /\ run.next = count
  BY DEF Projection
<1>2. run \in AllRuns(DOMAIN tree)
  <2>1. tree \in [DOMAIN tree -> Nodes \cup Written]
    BY TreesAreTrees DEF Tree
  <2>2. known \in UNION {[T -> Nat] : T \in SUBSET Owners}
    BY DEF Knowing
  <2>3. {} \in SUBSET Bound /\ count \in Nat
    BY DEF Knowing
  <2> QED BY <2>1, <2>2, <2>3 DEF Projection, AllRuns
<1>3. IdsKept(run.ids, run.next, known, count)
  BY <1>1 DEF IdsKept, Knowing
<1>4. EventKept(run.event, tree, run.ids, owner)
  BY <1>1 DEF EventKept
<1> QED BY <1>2, <1>3, <1>4 DEF Runs

(* Where the visits of a whole projection in Go end.                     *)
GoEnd(tree, known, count) ==
  FoldLeft(GoVisit, Projection(tree, known, count), Visits(tree, TRUE))

GoSteps(f, tree, known, count) ==
  /\ GoEnd(tree, known, count) = f[DOMAIN Visits(tree, TRUE)]
  /\ f[{}] = Projection(tree, known, count)
  /\ \A s \in SUBSET (DOMAIN Visits(tree, TRUE)) :
       /\ f[s] \in Runs(tree, ObjectAt(tree), known, count)
       /\ s # {} => Max(s) \in s /\ f[s] = GoVisit(f[s \ {Max(s)}], Visits(tree, TRUE)[Max(s)])

(* They go on visit by visit, and keep the projection.                     *)
LEMMA GoLoop ==
  ASSUME GivenInv, NEW tree \in Trees,
         \A p \in DOMAIN tree : tree[p].is = "host" => host[tree[p].object].id # Empty,
         NEW known, NEW count, Knowing(known, count)
  PROVE  \E f : GoSteps(f, tree, known, count)
<1> DEFINE V      == Runs(tree, ObjectAt(tree), known, count)
           first  == Projection(tree, known, count)
           visits == Visits(tree, TRUE)
           S      == DOMAIN visits
           pick   == [s \in SUBSET S |-> Max(s)]
           step   == [k \in S |-> [run \in V |-> GoVisit(run, visits[k])]]
<1>1. first \in V
  BY ProjectionStarts
<1>2. visits \in Seq(DOMAIN tree)
  BY VisitsFacts
<1>3. ASSUME NEW at \in DOMAIN tree, NEW run \in V PROVE GoVisit(run, at) \in V
  BY GoKeeps DEF Knowing
<1> HIDE DEF V, first, visits
<1>4. S = 1..Len(visits) /\ Len(visits) \in Nat /\ \A k \in S : visits[k] \in DOMAIN tree
  BY <1>2
<1>5. IsFiniteSet(S)
  BY <1>4, UpToFinite
<1> HIDE DEF S
<1>6. ASSUME NEW s \in SUBSET S, s # {} PROVE pick[s] = Max(s) /\ Max(s) \in s
  <2>1. s \in SUBSET (1..Len(visits))
    BY <1>4
  <2> QED BY <1>4, <1>6, <2>1, MaxFacts
<1>7. ASSUME NEW k \in S, NEW run \in V PROVE GoVisit(run, visits[k]) \in V
  BY <1>3, <1>4
<1>8. step \in [S -> [V -> V]]
  BY <1>7
<1>9. PICK g : Gathers(g, S, V, first, step, pick)
  <2> HIDE DEF pick, step
  <2> QED BY <1>1, <1>5, <1>6, <1>8, FiniteRecursion
<1> DEFINE Loop(f) == f = [s \in SUBSET S |-> IF s = {} THEN first
                             ELSE LET x == Max(s) IN GoVisit(f[s \ {x}], visits[x])]
           iter == CHOOSE f : Loop(f)
<1>10. GoEnd(tree, known, count) = iter[S]
  BY DEF GoEnd, FoldLeft, MapThenFoldSet, S, first, visits
<1>11. Loop(g)
  <2>1. g = [s \in SUBSET S |-> g[s]]
    BY <1>9 DEF Gathers
  <2>2. ASSUME NEW s \in SUBSET S
        PROVE  g[s] = IF s = {} THEN first ELSE LET x == Max(s) IN GoVisit(g[s \ {x}], visits[x])
    <3>1. CASE s = {}
      BY <1>9, <3>1 DEF Gathers
    <3>2. CASE s # {}
      <4>1. g[s] = step[Max(s)][g[s \ {Max(s)}]] /\ Max(s) \in S /\ g[s \ {Max(s)}] \in V
        BY <1>6, <1>9, <3>2 DEF Gathers
      <4> QED BY <3>2, <4>1
    <3> QED BY <3>1, <3>2
  <2> HIDE DEF step, pick
  <2> QED BY <2>1, <2>2
<1> HIDE DEF Loop
<1>12. Loop(iter)
  BY <1>11
<1> HIDE DEF iter
<1>13. iter[{}] \in V
  BY <1>1, <1>12 DEF Loop
<1>14. ASSUME NEW s \in SUBSET S, s # {}
       PROVE  pick[s] \in s /\ (iter[s \ {pick[s]}] \in V => iter[s] \in V)
  <2>1. iter[s] = GoVisit(iter[s \ {Max(s)}], visits[Max(s)])
    BY <1>12, <1>14 DEF Loop
  <2> QED BY <1>6, <1>7, <1>14, <2>1
<1>15. \A s \in SUBSET S : iter[s] \in V
  <2> HIDE DEF pick, step
  <2>1. Staying(iter, S, V, pick)
    BY <1>13, <1>14 DEF Staying
  <2> QED BY <1>5, <2>1, LoopStays
<1>16. ASSUME NEW s \in SUBSET S, s # {}
       PROVE  Max(s) \in s /\ iter[s] = GoVisit(iter[s \ {Max(s)}], visits[Max(s)])
  <2>1. iter[s] = GoVisit(iter[s \ {Max(s)}], visits[Max(s)])
    BY <1>12, <1>16 DEF Loop
  <2> QED BY <1>6, <1>16, <2>1
<1>17. iter[{}] = first
  BY <1>12 DEF Loop
<1>18. GoSteps(iter, tree, known, count)
  BY <1>10, <1>15, <1>16, <1>17 DEF V, first, visits, S, GoSteps
<1> QED BY <1>18

(* It ends where its visits have kept it.                                  *)
LEMMA GoVisitsKeep ==
  ASSUME GivenInv, NEW tree \in Trees,
         \A p \in DOMAIN tree : tree[p].is = "host" => host[tree[p].object].id # Empty,
         NEW known, NEW count, Knowing(known, count)
  PROVE  GoEnd(tree, known, count) \in Runs(tree, ObjectAt(tree), known, count)
<1>1. PICK f : GoSteps(f, tree, known, count)
  BY GoLoop
<1>2. DOMAIN Visits(tree, TRUE) \in SUBSET (DOMAIN Visits(tree, TRUE))
  OBVIOUS
<1> QED BY <1>1, <1>2 DEF GoSteps

(* Where the visits of a whole projection in Python end.                 *)
PythonEnd(tree, known, count) ==
  FoldLeft(PythonVisit, Projection(tree, known, count), Visits(tree, FALSE))

PythonSteps(f, tree, known, count) ==
  /\ PythonEnd(tree, known, count) = f[DOMAIN Visits(tree, FALSE)]
  /\ f[{}] = Projection(tree, known, count)
  /\ \A s \in SUBSET (DOMAIN Visits(tree, FALSE)) :
       /\ f[s] \in Runs(tree, PlaceAt(tree), known, count)
       /\ s # {} => Max(s) \in s /\ f[s] = PythonVisit(f[s \ {Max(s)}], Visits(tree, FALSE)[Max(s)])

(* They go on visit by visit, and keep the projection.                     *)
LEMMA PythonLoop ==
  ASSUME GivenInv, NEW tree \in Trees,
         NEW known, NEW count, Knowing(known, count)
  PROVE  \E f : PythonSteps(f, tree, known, count)
<1> DEFINE V      == Runs(tree, PlaceAt(tree), known, count)
           first  == Projection(tree, known, count)
           visits == Visits(tree, FALSE)
           S      == DOMAIN visits
           pick   == [s \in SUBSET S |-> Max(s)]
           step   == [k \in S |-> [run \in V |-> PythonVisit(run, visits[k])]]
<1>1. first \in V
  BY ProjectionStarts
<1>2. visits \in Seq(DOMAIN tree)
  BY VisitsFacts
<1>3. ASSUME NEW at \in DOMAIN tree, NEW run \in V PROVE PythonVisit(run, at) \in V
  BY PythonKeeps DEF Knowing
<1> HIDE DEF V, first, visits
<1>4. S = 1..Len(visits) /\ Len(visits) \in Nat /\ \A k \in S : visits[k] \in DOMAIN tree
  BY <1>2
<1>5. IsFiniteSet(S)
  BY <1>4, UpToFinite
<1> HIDE DEF S
<1>6. ASSUME NEW s \in SUBSET S, s # {} PROVE pick[s] = Max(s) /\ Max(s) \in s
  <2>1. s \in SUBSET (1..Len(visits))
    BY <1>4
  <2> QED BY <1>4, <1>6, <2>1, MaxFacts
<1>7. ASSUME NEW k \in S, NEW run \in V PROVE PythonVisit(run, visits[k]) \in V
  BY <1>3, <1>4
<1>8. step \in [S -> [V -> V]]
  BY <1>7
<1>9. PICK g : Gathers(g, S, V, first, step, pick)
  <2> HIDE DEF pick, step
  <2> QED BY <1>1, <1>5, <1>6, <1>8, FiniteRecursion
<1> DEFINE Loop(f) == f = [s \in SUBSET S |-> IF s = {} THEN first
                             ELSE LET x == Max(s) IN PythonVisit(f[s \ {x}], visits[x])]
           iter == CHOOSE f : Loop(f)
<1>10. PythonEnd(tree, known, count) = iter[S]
  BY DEF PythonEnd, FoldLeft, MapThenFoldSet, S, first, visits
<1>11. Loop(g)
  <2>1. g = [s \in SUBSET S |-> g[s]]
    BY <1>9 DEF Gathers
  <2>2. ASSUME NEW s \in SUBSET S
        PROVE  g[s] = IF s = {} THEN first ELSE LET x == Max(s) IN PythonVisit(g[s \ {x}], visits[x])
    <3>1. CASE s = {}
      BY <1>9, <3>1 DEF Gathers
    <3>2. CASE s # {}
      <4>1. g[s] = step[Max(s)][g[s \ {Max(s)}]] /\ Max(s) \in S /\ g[s \ {Max(s)}] \in V
        BY <1>6, <1>9, <3>2 DEF Gathers
      <4> QED BY <3>2, <4>1
    <3> QED BY <3>1, <3>2
  <2> HIDE DEF step, pick
  <2> QED BY <2>1, <2>2
<1> HIDE DEF Loop
<1>12. Loop(iter)
  BY <1>11
<1> HIDE DEF iter
<1>13. iter[{}] \in V
  BY <1>1, <1>12 DEF Loop
<1>14. ASSUME NEW s \in SUBSET S, s # {}
       PROVE  pick[s] \in s /\ (iter[s \ {pick[s]}] \in V => iter[s] \in V)
  <2>1. iter[s] = PythonVisit(iter[s \ {Max(s)}], visits[Max(s)])
    BY <1>12, <1>14 DEF Loop
  <2> QED BY <1>6, <1>7, <1>14, <2>1
<1>15. \A s \in SUBSET S : iter[s] \in V
  <2> HIDE DEF pick, step
  <2>1. Staying(iter, S, V, pick)
    BY <1>13, <1>14 DEF Staying
  <2> QED BY <1>5, <2>1, LoopStays
<1>16. ASSUME NEW s \in SUBSET S, s # {}
       PROVE  Max(s) \in s /\ iter[s] = PythonVisit(iter[s \ {Max(s)}], visits[Max(s)])
  <2>1. iter[s] = PythonVisit(iter[s \ {Max(s)}], visits[Max(s)])
    BY <1>12, <1>16 DEF Loop
  <2> QED BY <1>6, <1>16, <2>1
<1>17. iter[{}] = first
  BY <1>12 DEF Loop
<1>18. PythonSteps(iter, tree, known, count)
  BY <1>10, <1>15, <1>16, <1>17 DEF V, first, visits, S, PythonSteps
<1> QED BY <1>18

(* It ends where its visits have kept it.                                  *)
LEMMA PythonVisitsKeep ==
  ASSUME GivenInv, NEW tree \in Trees,
         NEW known, NEW count, Knowing(known, count)
  PROVE  PythonEnd(tree, known, count) \in Runs(tree, PlaceAt(tree), known, count)
<1>1. PICK f : PythonSteps(f, tree, known, count)
  BY PythonLoop
<1>2. DOMAIN Visits(tree, FALSE) \in SUBSET (DOMAIN Visits(tree, FALSE))
  OBVIOUS
<1> QED BY <1>1, <1>2 DEF PythonSteps

(* Where the visits of a whole projection in TypeScript end.             *)
TsEnd(tree, known, count) ==
  FoldLeft(TsVisit, Projection(tree, known, count), Visits(tree, TRUE))

TsSteps(f, tree, known, count) ==
  /\ TsEnd(tree, known, count) = f[DOMAIN Visits(tree, TRUE)]
  /\ f[{}] = Projection(tree, known, count)
  /\ \A s \in SUBSET (DOMAIN Visits(tree, TRUE)) :
       /\ f[s] \in Runs(tree, ObjectAt(tree), known, count)
       /\ s # {} => Max(s) \in s /\ f[s] = TsVisit(f[s \ {Max(s)}], Visits(tree, TRUE)[Max(s)])

(* They go on visit by visit, and keep the projection.                     *)
LEMMA TsLoop ==
  ASSUME GivenInv, NEW tree \in Trees,
         NEW known, NEW count, Knowing(known, count)
  PROVE  \E f : TsSteps(f, tree, known, count)
<1> DEFINE V      == Runs(tree, ObjectAt(tree), known, count)
           first  == Projection(tree, known, count)
           visits == Visits(tree, TRUE)
           S      == DOMAIN visits
           pick   == [s \in SUBSET S |-> Max(s)]
           step   == [k \in S |-> [run \in V |-> TsVisit(run, visits[k])]]
<1>1. first \in V
  BY ProjectionStarts
<1>2. visits \in Seq(DOMAIN tree)
  BY VisitsFacts
<1>3. ASSUME NEW at \in DOMAIN tree, NEW run \in V PROVE TsVisit(run, at) \in V
  BY TsKeeps DEF Knowing
<1> HIDE DEF V, first, visits
<1>4. S = 1..Len(visits) /\ Len(visits) \in Nat /\ \A k \in S : visits[k] \in DOMAIN tree
  BY <1>2
<1>5. IsFiniteSet(S)
  BY <1>4, UpToFinite
<1> HIDE DEF S
<1>6. ASSUME NEW s \in SUBSET S, s # {} PROVE pick[s] = Max(s) /\ Max(s) \in s
  <2>1. s \in SUBSET (1..Len(visits))
    BY <1>4
  <2> QED BY <1>4, <1>6, <2>1, MaxFacts
<1>7. ASSUME NEW k \in S, NEW run \in V PROVE TsVisit(run, visits[k]) \in V
  BY <1>3, <1>4
<1>8. step \in [S -> [V -> V]]
  BY <1>7
<1>9. PICK g : Gathers(g, S, V, first, step, pick)
  <2> HIDE DEF pick, step
  <2> QED BY <1>1, <1>5, <1>6, <1>8, FiniteRecursion
<1> DEFINE Loop(f) == f = [s \in SUBSET S |-> IF s = {} THEN first
                             ELSE LET x == Max(s) IN TsVisit(f[s \ {x}], visits[x])]
           iter == CHOOSE f : Loop(f)
<1>10. TsEnd(tree, known, count) = iter[S]
  BY DEF TsEnd, FoldLeft, MapThenFoldSet, S, first, visits
<1>11. Loop(g)
  <2>1. g = [s \in SUBSET S |-> g[s]]
    BY <1>9 DEF Gathers
  <2>2. ASSUME NEW s \in SUBSET S
        PROVE  g[s] = IF s = {} THEN first ELSE LET x == Max(s) IN TsVisit(g[s \ {x}], visits[x])
    <3>1. CASE s = {}
      BY <1>9, <3>1 DEF Gathers
    <3>2. CASE s # {}
      <4>1. g[s] = step[Max(s)][g[s \ {Max(s)}]] /\ Max(s) \in S /\ g[s \ {Max(s)}] \in V
        BY <1>6, <1>9, <3>2 DEF Gathers
      <4> QED BY <3>2, <4>1
    <3> QED BY <3>1, <3>2
  <2> HIDE DEF step, pick
  <2> QED BY <2>1, <2>2
<1> HIDE DEF Loop
<1>12. Loop(iter)
  BY <1>11
<1> HIDE DEF iter
<1>13. iter[{}] \in V
  BY <1>1, <1>12 DEF Loop
<1>14. ASSUME NEW s \in SUBSET S, s # {}
       PROVE  pick[s] \in s /\ (iter[s \ {pick[s]}] \in V => iter[s] \in V)
  <2>1. iter[s] = TsVisit(iter[s \ {Max(s)}], visits[Max(s)])
    BY <1>12, <1>14 DEF Loop
  <2> QED BY <1>6, <1>7, <1>14, <2>1
<1>15. \A s \in SUBSET S : iter[s] \in V
  <2> HIDE DEF pick, step
  <2>1. Staying(iter, S, V, pick)
    BY <1>13, <1>14 DEF Staying
  <2> QED BY <1>5, <2>1, LoopStays
<1>16. ASSUME NEW s \in SUBSET S, s # {}
       PROVE  Max(s) \in s /\ iter[s] = TsVisit(iter[s \ {Max(s)}], visits[Max(s)])
  <2>1. iter[s] = TsVisit(iter[s \ {Max(s)}], visits[Max(s)])
    BY <1>12, <1>16 DEF Loop
  <2> QED BY <1>6, <1>16, <2>1
<1>17. iter[{}] = first
  BY <1>12 DEF Loop
<1>18. TsSteps(iter, tree, known, count)
  BY <1>10, <1>15, <1>16, <1>17 DEF V, first, visits, S, TsSteps
<1> QED BY <1>18

(* It ends where its visits have kept it.                                  *)
LEMMA TsVisitsKeep ==
  ASSUME GivenInv, NEW tree \in Trees,
         NEW known, NEW count, Knowing(known, count)
  PROVE  TsEnd(tree, known, count) \in Runs(tree, ObjectAt(tree), known, count)
<1>1. PICK f : TsSteps(f, tree, known, count)
  BY TsLoop
<1>2. DOMAIN Visits(tree, TRUE) \in SUBSET (DOMAIN Visits(tree, TRUE))
  OBVIOUS
<1> QED BY <1>1, <1>2 DEF TsSteps

-------------------------------------------------------------------------------
(* Rust.                                                                   *)
LEMMA BuiltFacts ==
  ASSUME GivenInv, NEW k \in DOMAIN placed
  PROVE  /\ IsFiniteSet(Built(k)) /\ Built(k) \subseteq DOMAIN NodesPlaced(placed[k])
         /\ IsFiniteSet(DOMAIN NodesPlaced(placed[k])) /\ DOMAIN NodesPlaced(placed[k]) \subseteq Paths
         /\ \A p \in Built(k) : NodesPlaced(placed[k])[p].object \in DOMAIN host
<1> DEFINE nodes == NodesPlaced(placed[k])
<1>1. Tree(nodes, HostNodes)
  BY NodesPlacedFacts
<1>2. Built(k) = {p \in DOMAIN nodes : nodes[p].is = "host"}
  BY DEF Built, IsHost
<1> HIDE DEF nodes
<1>3. IsFiniteSet(DOMAIN nodes) /\ DOMAIN nodes \subseteq Paths
  BY <1>1 DEF Tree
<1>4. Built(k) \in SUBSET (DOMAIN nodes)
  BY <1>2
<1>5. IsFiniteSet(Built(k))
  BY <1>3, <1>4, FS_Subset
<1>6. ASSUME NEW p \in Built(k) PROVE nodes[p].object \in DOMAIN host
  <2>1. nodes[p] \in Nodes /\ nodes[p].is = "host"
    BY <1>1, <1>2 DEF Tree, Nodes
  <2> QED BY <2>1, NodeFacts
<1> QED BY <1>3, <1>4, <1>5, <1>6 DEF nodes

(* The host values that are built without an identity are finitely many    *)
(* owners.                                                                 *)
LEMMA RustOwnersFacts ==
  ASSUME GivenInv
  PROVE  /\ IsFiniteSet(RustOwners) /\ RustOwners \subseteq Owners
         /\ \A k \in DOMAIN placed : \A p \in Built(k) :
              host[NodesPlaced(placed[k])[p].object].id = None => <<k, p>> \in RustOwners
<1> DEFINE Of(k) == {<<k, p>> : p \in Built(k)}
           all   == {Of(k) : k \in DOMAIN placed}
<1>1. DOMAIN placed = 1..Len(placed) /\ Len(placed) \in Nat
  BY DEF GivenInv
<1>2. ASSUME NEW k \in DOMAIN placed PROVE IsFiniteSet(Of(k)) /\ Of(k) \subseteq Owners
  <2> DEFINE f == [p \in Built(k) |-> <<k, p>>]
  <2>2. IsFiniteSet(Built(k))
    BY BuiltFacts
  <2>3. Of(k) \subseteq Owners
    <3>1. Built(k) \subseteq Paths
      BY BuiltFacts
    <3> QED BY <1>1, <3>1 DEF Owners
  <2> HIDE DEF f, Of
  <2>4. DOMAIN f = Built(k) /\ \A o \in Of(k) : \E p \in Built(k) : f[p] = o
    BY DEF f, Of
  <2>5. IsFiniteSet(Of(k))
    BY <2>2, <2>4, OntoFinite
  <2> QED BY <2>3, <2>5
<1>3. IsFiniteSet(UNION all)
  <2> HIDE DEF Of
  <2> DEFINE f == [k \in DOMAIN placed |-> Of(k)]
  <2>2. IsFiniteSet(DOMAIN placed)
    BY <1>1, UpToFinite
  <2>3. \A s \in all : IsFiniteSet(s)
    BY <1>2
  <2> HIDE DEF f, all
  <2>4. DOMAIN f = DOMAIN placed /\ \A s \in all : \E k \in DOMAIN placed : f[k] = s
    BY DEF f, all
  <2>5. IsFiniteSet(all)
    BY <2>2, <2>4, OntoFinite
  <2> QED BY <2>3, <2>5, FS_UNION
<1>4. RustOwners = {o \in UNION all : host[NodesPlaced(placed[o[1]])[o[2]].object].id = None}
  BY DEF RustOwners
<1>5. UNION all \subseteq Owners
  BY <1>2
<1>6. ASSUME NEW k \in DOMAIN placed, NEW p \in Built(k), host[NodesPlaced(placed[k])[p].object].id = None
      PROVE  <<k, p>> \in RustOwners
  <2>1. <<k, p>> \in UNION all
    OBVIOUS
  <2>2. <<k, p>>[1] = k /\ <<k, p>>[2] = p
    OBVIOUS
  <2> HIDE DEF all
  <2> QED BY <1>4, <1>6, <2>1, <2>2
<1> HIDE DEF all
<1>7. RustOwners \in SUBSET (UNION all)
  BY <1>4
<1>8. IsFiniteSet(RustOwners)
  BY <1>3, <1>7, FS_Subset
<1> QED BY <1>5, <1>6, <1>7, <1>8

(* Each of those owners gets a number, and no two the same.                *)
LEMMA RustIdsFacts ==
  ASSUME GivenInv
  PROVE  /\ RustIds \in UNION {[T -> Nat] : T \in SUBSET Owners}
         /\ \A a, b \in DOMAIN RustIds : RustIds[a] = RustIds[b] => a = b
         /\ RustOwners \subseteq DOMAIN RustIds
<1> DEFINE none  == <<>>
           V     == Runs(none, none, none, 1)
           first == Projection(none, none, 1)
           S     == RustOwners
           pick  == [s \in SUBSET S |-> CHOOSE x \in s : TRUE]
           step  == [o \in S |-> [run \in V |-> Named(run, o)]]
<1>1. IsFiniteSet(S) /\ S \subseteq Owners
  BY RustOwnersFacts
<1>2. first \in V
  <2>1. none \in Trees
    <3>1. Tree(none, Nodes)
      BY FS_EmptySet DEF Tree
    <3> QED BY <3>1, TreesAreTrees
  <2>2. Knowing(none, 1)
    BY DEF Knowing
  <2> QED BY <2>1, <2>2, ProjectionStarts
<1>3. ASSUME NEW o \in S, NEW run \in V
      PROVE  /\ Named(run, o) \in V /\ o \in DOMAIN Named(run, o).ids
             /\ DOMAIN run.ids \subseteq DOMAIN Named(run, o).ids
  <2>1. run \in AllRuns(DOMAIN none)
    BY DEF Runs
  <2>2. o \in Owners
    BY <1>1
  <2>3. Named(run, o) \in V /\ o \in DOMAIN Named(run, o).ids
    BY <2>2, NamedKeeps
  <2>4. CASE o \in DOMAIN run.ids
    BY <2>3, <2>4 DEF Named
  <2>5. CASE o \notin DOMAIN run.ids
    <3>1. DOMAIN Named(run, o).ids = DOMAIN run.ids \cup {o}
      BY <2>1, <2>2, <2>5, NamedFields
    <3> QED BY <2>3, <3>1
  <2> QED BY <2>4, <2>5
<1>4. ASSUME NEW s \in SUBSET S, s # {} PROVE pick[s] \in s /\ pick[s] = CHOOSE x \in s : TRUE
  BY <1>4
<1> HIDE DEF V, first, S
<1>5. step \in [S -> [V -> V]]
  BY <1>3
<1>6. PICK g : Gathers(g, S, V, first, step, pick)
  <2> HIDE DEF pick, step
  <2> QED BY <1>1, <1>2, <1>4, <1>5, FiniteRecursion
<1> DEFINE Loop(f) == f = [s \in SUBSET S |-> IF s = {} THEN first
                             ELSE LET x == CHOOSE x \in s : TRUE IN Named(f[s \ {x}], x)]
           iter == CHOOSE f : Loop(f)
<1>7. RustIds = iter[S].ids
  BY DEF RustIds, FoldSet, MapThenFoldSet, first, S
<1>8. Loop(g)
  <2>1. g = [s \in SUBSET S |-> g[s]]
    BY <1>6 DEF Gathers
  <2>2. ASSUME NEW s \in SUBSET S
        PROVE  g[s] = IF s = {} THEN first ELSE LET x == CHOOSE x \in s : TRUE IN Named(g[s \ {x}], x)
    <3>1. CASE s = {}
      BY <1>6, <3>1 DEF Gathers
    <3>2. CASE s # {}
      <4>1. g[s] = step[pick[s]][g[s \ {pick[s]}]] /\ pick[s] \in S /\ g[s \ {pick[s]}] \in V
        BY <1>4, <1>6, <3>2 DEF Gathers
      <4>2. g[s] = Named(g[s \ {pick[s]}], pick[s])
        BY <4>1
      <4> HIDE DEF pick
      <4> QED BY <1>4, <3>2, <4>2
    <3> QED BY <3>1, <3>2
  <2> HIDE DEF step, pick
  <2> QED BY <2>1, <2>2
<1> HIDE DEF Loop
<1>9. Loop(iter)
  BY <1>8
<1> HIDE DEF iter
<1> DEFINE P == {s \in SUBSET S : iter[s] \in V /\ s \subseteq DOMAIN iter[s].ids}
<1>10. {} \in P /\ P \in SUBSET (SUBSET S)
  BY <1>2, <1>9 DEF Loop
<1>11. ASSUME NEW s \in SUBSET S, s # {}, \A x \in s : s \ {x} \in P PROVE s \in P
  <2>1. iter[s] = Named(iter[s \ {pick[s]}], pick[s])
    <3> HIDE DEF pick, P
    <3> QED BY <1>4, <1>9, <1>11 DEF Loop
  <2>2. pick[s] \in s /\ pick[s] \in S
    BY <1>4, <1>11
  <2> HIDE DEF pick
  <2>3. iter[s \ {pick[s]}] \in V /\ s \ {pick[s]} \subseteq DOMAIN iter[s \ {pick[s]}].ids
    BY <1>11, <2>2
  <2>4. iter[s] \in V /\ pick[s] \in DOMAIN iter[s].ids /\ s \ {pick[s]} \subseteq DOMAIN iter[s].ids
    BY <1>3, <2>1, <2>2, <2>3
  <2> QED BY <2>4
<1> HIDE DEF P
<1>12. P = SUBSET S
  BY <1>1, <1>10, <1>11, PartInduction
<1>13. iter[S] \in V /\ S \subseteq DOMAIN iter[S].ids
  BY <1>12 DEF P
<1>14. iter[S] \in AllRuns(DOMAIN none) /\ IdsKept(iter[S].ids, iter[S].next, none, 1)
  BY <1>13 DEF V, Runs
<1>15. iter[S].ids \in UNION {[T -> Nat] : T \in SUBSET Owners}
  BY <1>14, RunFields
<1>16. \A a, b \in DOMAIN iter[S].ids : iter[S].ids[a] = iter[S].ids[b] => a = b
  BY <1>14 DEF IdsKept
<1> QED BY <1>7, <1>13, <1>15, <1>16 DEF S

(* In Rust an identity belongs to the place of one host value.             *)
RustRightly(value, p) ==
  value \in Nodes \/ \E k \in DOMAIN placed : Rightly(value, RustIds, <<k, p>>)

(* Projections in Rust over the places T, and over any finite set of       *)
(* places.                                                                 *)
RustRunsOn(T) ==
  {run \in AllRuns(T) : run.ids = RustIds /\ \A p \in T : RustRightly(run.event[p], p)}

FinitePaths == {U \in SUBSET Paths : IsFiniteSet(U)}
RustRuns == UNION {RustRunsOn(T) : T \in FinitePaths}

(* Building one host value writes it under the identity of its place.      *)
LEMMA RustVisitKeeps ==
  ASSUME GivenInv, NEW k \in DOMAIN placed, NEW at \in Built(k),
         NEW run \in RustRunsOn(DOMAIN NodesPlaced(placed[k]))
  PROVE  RustVisit(run, k, at) \in RustRunsOn(DOMAIN NodesPlaced(placed[k]))
<1> DEFINE T == DOMAIN NodesPlaced(placed[k])
           o == NodesPlaced(placed[k])[at].object
           thing == host[o]
           identity == Identity(run, <<k, at>>, thing)
           form == CHOOSE f \in RustForm(thing) : TRUE
           V == RustRunsOn(T)
<1>1. o \in DOMAIN host /\ at \in T /\ T \subseteq Paths
  BY BuiltFacts
<1>2. run \in AllRuns(T) /\ run.ids = RustIds /\ \A p \in T : RustRightly(run.event[p], p)
  BY DEF RustRunsOn
<1>3. thing.id = None => <<k, at>> \in DOMAIN run.ids
  BY <1>2, RustOwnersFacts, RustIdsFacts
<1>4. RustForm(thing) # {} => form \in Forms
  BY <1>1, FormsFacts
<1>a. RustForm(thing) # {} => thing.id # Empty
  BY Zenon DEF RustForm
<1>5. RustVisit(run, k, at) \in
        {Failed(run)} \cup (IF thing.id # Empty THEN {Write(run, at, WrittenMessage(identity, thing))} ELSE {})
          \cup (IF thing.id # Empty /\ RustForm(thing) # {}
                  THEN {Bind(Write(run, at, WrittenPart(identity, form)), at, thing)} ELSE {})
  BY <1>a DEF RustVisit
<1> HIDE DEF T, o
<1>6. Failed(run) \in V
  BY <1>2, FailedFields DEF RustRunsOn
<1>7. ASSUME NEW value, Rightly(value, run.ids, <<k, at>>)
      PROVE  Write(run, at, value) \in V
  <2> DEFINE w == Write(run, at, value)
  <2>1. value \in Written
    BY <1>7 DEF Rightly
  <2>2. w \in AllRuns(T) /\ w.event = [run.event EXCEPT ![at] = value] /\ w.ids = run.ids
    BY <1>1, <1>2, <2>1, WriteFields
  <2> HIDE DEF w
  <2>3. \A p \in T : w.event[p] = IF p = at THEN value ELSE run.event[p]
    BY <1>1, <1>2, <2>2, RunFields
  <2>4. RustRightly(value, at)
    BY <1>2, <1>7 DEF RustRightly
  <2>5. \A p \in T : RustRightly(w.event[p], p)
    BY <1>2, <2>3, <2>4
  <2>6. w \in V
    BY <1>2, <2>2, <2>5 DEF RustRunsOn
  <2> QED BY <2>6 DEF w
<1>8. ASSUME thing.id # Empty
      PROVE  /\ Write(run, at, WrittenMessage(identity, thing)) \in V
             /\ RustForm(thing) # {} => Write(run, at, WrittenPart(identity, form)) \in V
  <2>1. /\ identity \in Identities
        /\ identity.id \in GivenIds \/ (<<k, at>> \in DOMAIN run.ids /\ identity.id = run.ids[<<k, at>>])
    BY <1>1, <1>2, <1>3, <1>8, IdentityFacts
  <2>2. /\ \A f \in Forms : Rightly(WrittenPart(identity, f), run.ids, <<k, at>>)
        /\ Rightly(WrittenMessage(identity, thing), run.ids, <<k, at>>)
    BY <1>1, <2>1, RightlyWritten
  <2> HIDE DEF V, identity, form
  <2> QED BY <1>4, <1>7, <2>2
<1>9. ASSUME NEW r \in V PROVE Bind(r, at, thing) \in V
  <2>1. r \in AllRuns(T) /\ r.ids = RustIds /\ \A p \in T : RustRightly(r.event[p], p)
    BY DEF RustRunsOn
  <2>2. Bind(r, at, thing) \in AllRuns(T) /\ Bind(r, at, thing).event = r.event /\ Bind(r, at, thing).ids = r.ids
    BY <1>1, <2>1, BindFields
  <2> QED BY <2>1, <2>2 DEF RustRunsOn
<1>10. RustVisit(run, k, at) \in V
  <2> HIDE DEF V, identity, form, thing
  <2> QED BY <1>5, <1>6, <1>8, <1>9
<1> QED BY <1>10 DEF T

(* Building all values of one call.                                        *)
RustBuilt(first, k) == FoldSet(LAMBDA at, r : RustVisit(r, k, at), first, Built(k))

BuildSteps(f, first, k) ==
  /\ RustBuilt(first, k) = f[Built(k)] /\ f[{}] = first
  /\ \A s \in SUBSET Built(k) :
       /\ f[s] \in RustRunsOn(DOMAIN NodesPlaced(placed[k]))
       /\ s # {} => /\ (CHOOSE x \in s : TRUE) \in s
                    /\ f[s] = RustVisit(f[s \ {CHOOSE x \in s : TRUE}], k, CHOOSE x \in s : TRUE)

(* Their visits, one by one, are of values that are rightly written.       *)
LEMMA RustBuildLoop ==
  ASSUME GivenInv, NEW k \in DOMAIN placed,
         NEW first \in RustRunsOn(DOMAIN NodesPlaced(placed[k]))
  PROVE  \E f : BuildSteps(f, first, k)
<1> DEFINE V     == RustRunsOn(DOMAIN NodesPlaced(placed[k]))
           S     == Built(k)
           pick  == [s \in SUBSET S |-> CHOOSE x \in s : TRUE]
           step  == [at \in S |-> [run \in V |-> RustVisit(run, k, at)]]
<1>1. IsFiniteSet(S)
  BY BuiltFacts
<1>2. first \in V
  OBVIOUS
<1>3. ASSUME NEW at \in S, NEW run \in V PROVE RustVisit(run, k, at) \in V
  BY RustVisitKeeps
<1>4. ASSUME NEW s \in SUBSET S, s # {} PROVE pick[s] \in s /\ pick[s] = CHOOSE x \in s : TRUE
  BY <1>4
<1> HIDE DEF V, S
<1>5. step \in [S -> [V -> V]]
  BY <1>3
<1>6. PICK g : Gathers(g, S, V, first, step, pick)
  <2> HIDE DEF pick, step
  <2> QED BY <1>1, <1>2, <1>4, <1>5, FiniteRecursion
<1> DEFINE Loop(f) == f = [s \in SUBSET S |-> IF s = {} THEN first
                             ELSE LET x == CHOOSE x \in s : TRUE IN RustVisit(f[s \ {x}], k, x)]
           iter == CHOOSE f : Loop(f)
<1>7. RustBuilt(first, k) = iter[S]
  BY DEF RustBuilt, FoldSet, MapThenFoldSet, S
<1>8. Loop(g)
  <2>1. g = [s \in SUBSET S |-> g[s]]
    BY <1>6 DEF Gathers
  <2>2. ASSUME NEW s \in SUBSET S
        PROVE  g[s] = IF s = {} THEN first ELSE LET x == CHOOSE x \in s : TRUE IN RustVisit(g[s \ {x}], k, x)
    <3>1. CASE s = {}
      BY <1>6, <3>1 DEF Gathers
    <3>2. CASE s # {}
      <4>1. g[s] = step[pick[s]][g[s \ {pick[s]}]] /\ pick[s] \in S /\ g[s \ {pick[s]}] \in V
        BY <1>4, <1>6, <3>2 DEF Gathers
      <4>2. g[s] = RustVisit(g[s \ {pick[s]}], k, pick[s])
        BY <4>1
      <4> HIDE DEF pick
      <4> QED BY <1>4, <3>2, <4>2
    <3> QED BY <3>1, <3>2
  <2> HIDE DEF step, pick
  <2> QED BY <2>1, <2>2
<1> HIDE DEF Loop
<1>9. Loop(iter)
  BY <1>8
<1> HIDE DEF iter
<1>10. iter[{}] \in V
  BY <1>2, <1>9 DEF Loop
<1>11. ASSUME NEW s \in SUBSET S, s # {}
       PROVE  pick[s] \in s /\ (iter[s \ {pick[s]}] \in V => iter[s] \in V)
  <2>1. pick[s] \in s /\ pick[s] \in S /\ pick[s] = CHOOSE x \in s : TRUE
    BY <1>4, <1>11
  <2> HIDE DEF pick
  <2>2. iter[s] = RustVisit(iter[s \ {pick[s]}], k, pick[s])
    BY <1>9, <1>11, <2>1 DEF Loop
  <2> QED BY <1>3, <2>1, <2>2
<1>12. \A s \in SUBSET S : iter[s] \in V
  <2> HIDE DEF pick, step
  <2>1. Staying(iter, S, V, pick)
    BY <1>10, <1>11 DEF Staying
  <2> QED BY <1>1, <2>1, LoopStays
<1>13. ASSUME NEW s \in SUBSET S, s # {}
       PROVE  /\ (CHOOSE x \in s : TRUE) \in s
              /\ iter[s] = RustVisit(iter[s \ {CHOOSE x \in s : TRUE}], k, CHOOSE x \in s : TRUE)
  <2>1. iter[s] = RustVisit(iter[s \ {CHOOSE x \in s : TRUE}], k, CHOOSE x \in s : TRUE)
    BY <1>9, <1>13 DEF Loop
  <2> QED BY <1>13, <2>1
<1>14. iter[{}] = first
  BY <1>9 DEF Loop
<1>15. BuildSteps(iter, first, k)
  BY <1>7, <1>12, <1>13, <1>14 DEF V, S, BuildSteps
<1> QED BY <1>15

(* Built, the values of one call are rightly written.                      *)
LEMMA RustBuilds ==
  ASSUME GivenInv, NEW k \in DOMAIN placed,
         NEW first \in RustRunsOn(DOMAIN NodesPlaced(placed[k]))
  PROVE  RustBuilt(first, k) \in RustRunsOn(DOMAIN NodesPlaced(placed[k]))
<1>1. PICK f : BuildSteps(f, first, k)
  BY RustBuildLoop
<1>2. Built(k) \in SUBSET Built(k)
  OBVIOUS
<1> QED BY <1>1, <1>2 DEF BuildSteps

(* Putting the values of one call into the event keeps it.                 *)
LEMMA RustReplaceKeeps ==
  ASSUME GivenInv, NEW k \in DOMAIN placed, NEW run \in RustRuns
  PROVE  RustReplace(run, k) \in RustRuns
<1> DEFINE call  == placed[k]
           nodes == NodesPlaced(call)
           N     == DOMAIN nodes
           first == [DropsBindings(run, call.at) EXCEPT !.event = nodes]
           built == RustBuilt(first, k)
           event_ == Replaced(run.event, call.at, built.event)
           done  == [built EXCEPT !.event = event_]
<1>1. PICK T \in FinitePaths : run \in RustRunsOn(T)
  BY DEF RustRuns
<1>2. /\ run \in AllRuns(T) /\ run.ids = RustIds /\ \A p \in T : RustRightly(run.event[p], p)
      /\ T \subseteq Paths /\ IsFiniteSet(T)
  BY <1>1 DEF RustRunsOn, FinitePaths
<1>3. call.at \in Paths /\ Tree(nodes, HostNodes)
  BY NodesPlacedFacts
<1>4. first \in RustRunsOn(N)
  <2> DEFINE dropped == DropsBindings(run, call.at)
  <2>1. dropped \in AllRuns(T) /\ dropped.ids = RustIds
    BY <1>2 DEF DropsBindings, AllRuns
  <2>2. nodes \in [N -> Nodes \cup Written] /\ \A p \in N : nodes[p] \in Nodes
    BY <1>3 DEF Tree, Nodes
  <2> HIDE DEF dropped, nodes
  <2>3. [dropped EXCEPT !.event = nodes] \in AllRuns(N)
        /\ [dropped EXCEPT !.event = nodes].ids = RustIds
        /\ [dropped EXCEPT !.event = nodes].event = nodes
    BY <2>1, <2>2 DEF AllRuns
  <2>4. \A p \in N : RustRightly(nodes[p], p)
    BY <2>2 DEF RustRightly
  <2> HIDE DEF N
  <2> QED BY <2>3, <2>4 DEF RustRunsOn, dropped
<1> HIDE DEF first
<1>5. built \in RustRunsOn(N)
  BY <1>4, RustBuilds
<1> HIDE DEF built
<1>6. built \in AllRuns(N) /\ built.ids = RustIds /\ \A p \in N : RustRightly(built.event[p], p)
  BY <1>5 DEF RustRunsOn
<1>7. N \subseteq Paths /\ IsFiniteSet(N)
  BY <1>3 DEF Tree
<1>8. DOMAIN run.event = T /\ DOMAIN built.event = N
      /\ run.event \in [T -> Nodes \cup Written] /\ built.event \in [N -> Nodes \cup Written]
  BY <1>2, <1>6, RunFields
<1>9. Record \in Nodes
  BY DEF Nodes, HostNodes
<1> HIDE DEF call, nodes, N
<1>10. /\ IsFiniteSet(DOMAIN event_) /\ DOMAIN event_ \subseteq Paths
       /\ event_ = [p \in DOMAIN event_ |-> event_[p]]
       /\ \A p \in DOMAIN event_ :
            \/ p \in DOMAIN built.event /\ event_[p] = built.event[p]
            \/ p \in DOMAIN run.event /\ event_[p] = run.event[p]
            \/ event_[p] = Record
  <2>1. /\ IsFiniteSet(DOMAIN run.event) /\ DOMAIN run.event \subseteq Paths
        /\ IsFiniteSet(DOMAIN built.event) /\ DOMAIN built.event \subseteq Paths
    BY <1>2, <1>7, <1>8
  <2> QED BY <1>3, <1>9, <2>1, ReplacedFacts
<1> HIDE DEF event_
<1>11. done \in RustRuns
  <2>1. event_ \in [DOMAIN event_ -> Nodes \cup Written]
    BY <1>8, <1>9, <1>10
  <2>2. \A p \in DOMAIN event_ : RustRightly(event_[p], p)
    BY <1>2, <1>6, <1>8, <1>9, <1>10 DEF RustRightly
  <2>3. done \in AllRuns(DOMAIN event_) /\ done.ids = RustIds /\ done.event = event_
    BY <1>6, <2>1 DEF AllRuns
  <2>4. DOMAIN event_ \in FinitePaths
    BY <1>10 DEF FinitePaths
  <2> HIDE DEF done
  <2> QED BY <2>2, <2>3, <2>4 DEF RustRuns, RustRunsOn
<1>12. Failed(run) \in RustRuns
  BY <1>1, <1>2, FailedFields DEF RustRunsOn, RustRuns
<1>13. RustReplace(run, k) \in {run, Failed(run), done}
  BY DEF RustReplace, RustBuilt, done, event_, built, first, nodes, call
<1> QED BY <1>11, <1>12, <1>13

(* The whole projection in Rust, host value by host value.                 *)
RustSteps(f) ==
  /\ RustProject = f[DOMAIN placed] /\ f[{}] = Projection(Assembled(base), RustIds, 1)
  /\ \A s \in SUBSET (DOMAIN placed) :
       /\ f[s] \in RustRuns
       /\ s # {} => Max(s) \in s /\ f[s] = RustReplace(f[s \ {Max(s)}], Max(s))

(* Its steps keep the projection.                                          *)
LEMMA RustLoop ==
  ASSUME GivenInv
  PROVE  \E f : RustSteps(f)
<1> DEFINE V      == RustRuns
           first  == Projection(Assembled(base), RustIds, 1)
           order  == [k \in DOMAIN placed |-> k]
           S      == DOMAIN order
           pick   == [s \in SUBSET S |-> Max(s)]
           step   == [k \in S |-> [run \in V |-> RustReplace(run, k)]]
<1>1. first \in V
  <2> DEFINE tree == Assembled(base)
  <2>1. tree \in Trees
    BY AssembledFacts
  <2> HIDE DEF tree
  <2>2. /\ DOMAIN tree \subseteq Paths /\ IsFiniteSet(DOMAIN tree)
        /\ tree \in [DOMAIN tree -> Nodes \cup Written] /\ \A p \in DOMAIN tree : tree[p] \in Nodes
    BY <2>1, TreesAreTrees DEF Tree
  <2>3. DOMAIN tree \in FinitePaths
    BY <2>2 DEF FinitePaths
  <2> DEFINE run == Projection(tree, RustIds, 1)
  <2>4. run.ids = RustIds /\ run.event = tree
    BY DEF Projection
  <2>5. run \in AllRuns(DOMAIN tree)
    <3>1. RustIds \in UNION {[T -> Nat] : T \in SUBSET Owners}
      BY RustIdsFacts
    <3>2. {} \in SUBSET Bound
      OBVIOUS
    <3> HIDE DEF RustIds
    <3> QED BY <2>2, <3>1, <3>2 DEF Projection, AllRuns
  <2>6. \A p \in DOMAIN tree : RustRightly(tree[p], p)
    BY <2>2 DEF RustRightly
  <2> HIDE DEF run
  <2>7. run \in V
    BY <2>3, <2>4, <2>5, <2>6 DEF RustRuns, RustRunsOn
  <2> QED BY <2>7 DEF run, tree
<1>2. S = 1..Len(placed) /\ Len(placed) \in Nat /\ \A k \in S : k \in DOMAIN placed /\ order[k] = k
  BY DEF GivenInv
<1> HIDE DEF V, first, order
<1>3. IsFiniteSet(S)
  BY <1>2, UpToFinite
<1> HIDE DEF S
<1>4. ASSUME NEW s \in SUBSET S, s # {} PROVE pick[s] = Max(s) /\ Max(s) \in s
  <2>1. s \in SUBSET (1..Len(placed))
    BY <1>2
  <2> QED BY <1>2, <1>4, <2>1, MaxFacts
<1>5. ASSUME NEW k \in S, NEW run \in V PROVE RustReplace(run, k) \in V
  BY <1>2, RustReplaceKeeps DEF V
<1>6. step \in [S -> [V -> V]]
  BY <1>5
<1>7. PICK g : Gathers(g, S, V, first, step, pick)
  <2> HIDE DEF pick, step
  <2> QED BY <1>1, <1>3, <1>4, <1>6, FiniteRecursion
<1> DEFINE Loop(f) == f = [s \in SUBSET S |-> IF s = {} THEN first
                             ELSE LET x == Max(s) IN RustReplace(f[s \ {x}], order[x])]
           iter == CHOOSE f : Loop(f)
<1>8. RustProject = iter[S]
  BY DEF RustProject, FoldLeft, MapThenFoldSet, S, first, order
<1>9. Loop(g)
  <2>1. g = [s \in SUBSET S |-> g[s]]
    BY <1>7 DEF Gathers
  <2>2. ASSUME NEW s \in SUBSET S
        PROVE  g[s] = IF s = {} THEN first ELSE LET x == Max(s) IN RustReplace(g[s \ {x}], order[x])
    <3>1. CASE s = {}
      BY <1>7, <3>1 DEF Gathers
    <3>2. CASE s # {}
      <4>1. g[s] = step[Max(s)][g[s \ {Max(s)}]] /\ Max(s) \in S /\ g[s \ {Max(s)}] \in V
        BY <1>4, <1>7, <3>2 DEF Gathers
      <4>2. g[s] = RustReplace(g[s \ {Max(s)}], order[Max(s)])
        BY <1>2, <4>1
      <4> QED BY <3>2, <4>2
    <3> QED BY <3>1, <3>2
  <2> HIDE DEF step, pick
  <2> QED BY <2>1, <2>2
<1> HIDE DEF Loop
<1>10. Loop(iter)
  BY <1>9
<1> HIDE DEF iter
<1>11. iter[{}] \in V
  BY <1>1, <1>10 DEF Loop
<1>12. ASSUME NEW s \in SUBSET S, s # {}
       PROVE  pick[s] \in s /\ (iter[s \ {pick[s]}] \in V => iter[s] \in V)
  <2>1. Max(s) \in S /\ pick[s] = Max(s) /\ pick[s] \in s /\ order[Max(s)] = Max(s)
    BY <1>2, <1>4, <1>12
  <2>2. iter[s] = RustReplace(iter[s \ {Max(s)}], order[Max(s)])
    BY <1>10, <1>12 DEF Loop
  <2> QED BY <1>5, <2>1, <2>2
<1>13. \A s \in SUBSET S : iter[s] \in V
  <2> HIDE DEF pick, step
  <2>1. Staying(iter, S, V, pick)
    BY <1>11, <1>12 DEF Staying
  <2> QED BY <1>3, <2>1, LoopStays
<1>14. ASSUME NEW s \in SUBSET S, s # {}
       PROVE  Max(s) \in s /\ iter[s] = RustReplace(iter[s \ {Max(s)}], Max(s))
  <2>1. Max(s) \in S /\ Max(s) \in s /\ order[Max(s)] = Max(s)
    BY <1>2, <1>4, <1>14
  <2>2. iter[s] = RustReplace(iter[s \ {Max(s)}], order[Max(s)])
    BY <1>10, <1>14 DEF Loop
  <2> QED BY <2>1, <2>2
<1>15. iter[{}] = first
  BY <1>10 DEF Loop
<1>16. S = DOMAIN placed
  BY DEF S, order
<1>17. RustSteps(iter)
  BY <1>8, <1>13, <1>14, <1>15, <1>16 DEF V, first, RustSteps
<1> QED BY <1>17

(* It ends with host values rightly written.                               *)
LEMMA RustProjectKeeps ==
  ASSUME GivenInv
  PROVE  RustProject \in RustRuns
<1>1. PICK f : RustSteps(f)
  BY RustLoop
<1>2. DOMAIN placed \in SUBSET (DOMAIN placed)
  OBVIOUS
<1> QED BY <1>1, <1>2 DEF RustSteps

-------------------------------------------------------------------------------
(* What a form carries of a part: everything but its identity, and but the *)
(* body that it owns, for which a reference comes later.                   *)
Carries(form, part) ==
  /\ form.kind = part.kind /\ form.text = part.text /\ form.media = Or(part.media, "plain")
  /\ IF Owned(part) THEN Or(part.sel, "body") = "body"
                    ELSE form.sel = Or(part.sel, "body") /\ form.body = part.body

(* What is written tells of an object what it says, once owned bodies have *)
(* their references.                                                       *)
Tells(written, thing) ==
  /\ SameIdentity(written, thing)
  /\ thing.is = "message" => written.is = "message" /\ written.role = thing.role
  /\ thing.is = "part" => written.is = "part" /\ Carries(written, thing)
                          /\ {"is", "kind", "text", "media", "sel", "body", "id", "synthesized"} \subseteq DOMAIN written

(* A part in which media type, selection and body are put in place.        *)
LEMMA FormFields ==
  ASSUME NEW part, {"kind", "text", "media", "sel", "body"} \subseteq DOMAIN part, NEW m, NEW s, NEW b,
         NEW form, form = [part EXCEPT !.media = m, !.sel = s, !.body = b]
  PROVE  form.kind = part.kind /\ form.text = part.text /\ form.media = m /\ form.sel = s /\ form.body = b
<1> DEFINE first == [part EXCEPT !.media = m]
           then_ == [first EXCEPT !.sel = s]
           last_ == [then_ EXCEPT !.body = b]
<1>1. /\ DOMAIN first = DOMAIN part /\ first.kind = part.kind /\ first.text = part.text
      /\ first.media = m
  OBVIOUS
<1>2. form = last_
  OBVIOUS
<1> HIDE DEF first
<1>3. /\ DOMAIN then_ = DOMAIN part /\ then_.kind = part.kind /\ then_.text = part.text
      /\ then_.media = m /\ then_.sel = s
  BY <1>1
<1> HIDE DEF then_
<1>4. /\ last_.kind = part.kind /\ last_.text = part.text /\ last_.media = m /\ last_.sel = s /\ last_.body = b
  BY <1>3
<1> QED BY <1>2, <1>4

(* A part of an application has the fields that a form replaces.           *)
LEMMA PartHasFields ==
  ASSUME GivenInv, NEW o \in DOMAIN host, host[o].is = "part"
  PROVE  {"kind", "text", "media", "sel", "body"} \subseteq DOMAIN host[o]
BY GivenFacts DEF Hostly

(* The form that Rust, Go and Python make of a part before they check it.  *)
FilledForm(part) ==
  [part EXCEPT !.media = Or(@, IF part.kind = "text" THEN "plain" ELSE None),
               !.sel = Or(@, "body"), !.body = IF Owned(part) THEN Pending ELSE @]

(* What that form has in the fields it sets.                               *)
LEMMA FilledFields ==
  ASSUME GivenInv, NEW o \in DOMAIN host, host[o].is = "part", NEW form, form = FilledForm(host[o])
  PROVE  /\ form.kind = host[o].kind /\ form.text = host[o].text
         /\ form.media = Or(host[o].media, IF host[o].kind = "text" THEN "plain" ELSE None)
         /\ form.sel = Or(host[o].sel, "body")
         /\ form.body = IF Owned(host[o]) THEN Pending ELSE host[o].body
<1> DEFINE part == host[o]
           m == Or(part.media, IF part.kind = "text" THEN "plain" ELSE None)
           s == Or(part.sel, "body")
           b == IF Owned(part) THEN Pending ELSE part.body
<1>1. {"kind", "text", "media", "sel", "body"} \subseteq DOMAIN part
  BY PartHasFields
<1>2. form = [part EXCEPT !.media = m, !.sel = s, !.body = b]
  BY Zenon DEF FilledForm
<1> HIDE DEF part, m, s, b
<1>3. form.kind = part.kind /\ form.text = part.text /\ form.media = m /\ form.sel = s /\ form.body = b
  BY <1>1, <1>2, FormFields
<1> QED BY <1>3 DEF part, m, s, b

(* Filled in and accepted as canonical, a part is carried.                 *)
LEMMA FilledCarries ==
  ASSUME GivenInv, NEW o \in DOMAIN host, host[o].is = "part",
         NEW form, form = FilledForm(host[o]), Canonical(form),
         Owned(host[o]) => host[o].kind = "attachment" \/ form.sel = "body"
  PROVE  Carries(form, host[o])
<1>1. /\ form.kind = host[o].kind /\ form.text = host[o].text
      /\ form.media = Or(host[o].media, IF host[o].kind = "text" THEN "plain" ELSE None)
      /\ form.sel = Or(host[o].sel, "body")
      /\ form.body = IF Owned(host[o]) THEN Pending ELSE host[o].body
  BY FilledFields
<1>2. form.media = Or(host[o].media, "plain")
  BY <1>1 DEF Canonical, Or
<1>3. ASSUME Owned(host[o]) PROVE form.sel = "body"
  BY <1>1, <1>3, NoneAssumption DEF Canonical
<1> QED BY <1>1, <1>2, <1>3 DEF Carries

(* The forms of the languages carry their parts.                           *)
LEMMA RustCarries ==
  ASSUME GivenInv, NEW o \in DOMAIN host, host[o].is = "part", RustForm(host[o]) # {}
  PROVE  Carries(CHOOSE f \in RustForm(host[o]) : TRUE, host[o])
<1> DEFINE form == CHOOSE f \in RustForm(host[o]) : TRUE
<1>1. form \in RustForm(host[o])
  OBVIOUS
<1>2. form = FilledForm(host[o]) /\ Canonical(form) /\ (Owned(host[o]) => host[o].kind = "attachment")
  BY <1>1, Zenon DEF RustForm, FilledForm
<1> HIDE DEF form
<1>3. Carries(form, host[o])
  BY <1>2, FilledCarries
<1> QED BY <1>3 DEF form

(* So does the form that Python makes.                                     *)
LEMMA PythonCarries ==
  ASSUME GivenInv, NEW o \in DOMAIN host, host[o].is = "part", PythonForm(host[o]) # {}
  PROVE  Carries(CHOOSE f \in PythonForm(host[o]) : TRUE, host[o])
<1> DEFINE form == CHOOSE f \in PythonForm(host[o]) : TRUE
<1>1. form \in PythonForm(host[o])
  OBVIOUS
<1>2. form = FilledForm(host[o]) /\ Canonical(form) /\ (Owned(host[o]) => host[o].kind = "attachment")
  BY <1>1, Zenon DEF PythonForm, FilledForm
<1> HIDE DEF form
<1>3. Carries(form, host[o])
  BY <1>2, FilledCarries
<1> QED BY <1>3 DEF form

(* So does the form that Go makes, or leaves as it is on the wire.         *)
LEMMA GoCarries ==
  ASSUME GivenInv, NEW o \in DOMAIN host, host[o].is = "part", GoForm(host[o]) # {}
  PROVE  Carries(CHOOSE f \in GoForm(host[o]) : TRUE, host[o])
<1> DEFINE form == CHOOSE f \in GoForm(host[o]) : TRUE
           part == host[o]
<1>1. form \in GoForm(part)
  OBVIOUS
<1> HIDE DEF form
<1>2. CASE Wire(part)
  <2>1. form = part
    BY <1>1, <1>2, Zenon DEF GoForm
  <2>2. Carries(part, part)
    BY <1>2 DEF Wire, Carries, Or
  <2> QED BY <2>1, <2>2 DEF form
<1>3. CASE ~ Wire(part)
  <2>1. form = FilledForm(part) /\ Canonical(form) /\ form.sel = "body"
    BY <1>1, <1>3, Zenon DEF GoForm, FilledForm
  <2>2. Carries(form, host[o])
    BY <2>1, FilledCarries
  <2> QED BY <2>2 DEF form
<1> QED BY <1>2, <1>3

(* So does the form that TypeScript makes, which sets no defaults where    *)
(* the part has fields of its own.                                         *)
LEMMA TsCarries ==
  ASSUME GivenInv, NEW o \in DOMAIN host, host[o].is = "part", TsForm(host[o]) # {},
         Owned(host[o]) => host[o].kind = "attachment"
  PROVE  Carries(CHOOSE f \in TsForm(host[o]) : TRUE, host[o])
<1> DEFINE form == CHOOSE f \in TsForm(host[o]) : TRUE
           part == host[o]
<1>1. form \in TsForm(part)
  OBVIOUS
<1>0. {"kind", "text", "media", "sel", "body"} \subseteq DOMAIN part
  BY PartHasFields
<1> HIDE DEF form
<1>2. CASE part.kind = "text" /\ part.text
  <2>1. /\ form = [part EXCEPT !.media = "plain", !.sel = "body"]
        /\ part.media \in {None, "plain"} /\ part.sel \in {None, "body"}
    BY <1>1, <1>2, Zenon DEF TsForm
  <2>2. ~ Owned(part)
    BY <1>2
  <2> HIDE DEF part
  <2>3. form.kind = part.kind /\ form.text = part.text /\ form.media = "plain" /\ form.sel = "body" /\ form.body = part.body
    <3> DEFINE first == [part EXCEPT !.media = "plain"]
               then_ == [first EXCEPT !.sel = "body"]
    <3>1. /\ DOMAIN first = DOMAIN part /\ first.kind = part.kind /\ first.text = part.text
          /\ first.media = "plain" /\ first.body = part.body
      BY <1>0
    <3>2. form = then_
      BY <2>1
    <3> HIDE DEF first
    <3> QED BY <1>0, <3>1, <3>2
  <2>4. Carries(form, part)
    BY <2>1, <2>2, <2>3 DEF Carries, Or
  <2> QED BY <2>4 DEF form, part
<1>3. CASE ~ (part.kind = "text" /\ part.text) /\ part.kind = "attachment" /\ Owned(part)
  <2>1. /\ form = [part EXCEPT !.sel = "metadata", !.body = None]
        /\ part.media # None /\ part.sel \in {None, "body"}
    BY <1>1, <1>3, Zenon DEF TsForm, TsMedia
  <2> HIDE DEF part
  <2>2. form.kind = part.kind /\ form.text = part.text /\ form.media = part.media
    <3> DEFINE first == [part EXCEPT !.sel = "metadata"]
               then_ == [first EXCEPT !.body = None]
    <3>1. /\ DOMAIN first = DOMAIN part /\ first.kind = part.kind /\ first.text = part.text
          /\ first.media = part.media
      BY <1>0
    <3>2. form = then_
      BY <2>1
    <3> HIDE DEF first
    <3> QED BY <1>0, <3>1, <3>2
  <2>3. Carries(form, part)
    BY <1>3, <2>1, <2>2 DEF Carries, Or
  <2> QED BY <2>3 DEF form, part
<1>4. CASE ~ (part.kind = "text" /\ part.text) /\ ~ (part.kind = "attachment" /\ Owned(part))
  <2>1. form = part /\ Canonical(part)
    BY <1>1, <1>4, Zenon DEF TsForm
  <2>2. ~ Owned(part)
    BY <1>4
  <2>3. Carries(part, part)
    BY <2>1, <2>2, NoneAssumption DEF Canonical, Carries, Or
  <2> QED BY <2>1, <2>3 DEF form
<1> QED BY <1>2, <1>3, <1>4

(* What is written under the identity of its owner tells of the object.    *)
LEMMA WrittenTells ==
  ASSUME GivenInv, NEW D, NEW run \in AllRuns(D), NEW owner, NEW o \in DOMAIN host,
         host[o].id = None => owner \in DOMAIN run.ids,
         NEW identity, identity = Identity(run, owner, host[o])
  PROVE  /\ host[o].is = "message" => Tells(WrittenMessage(identity, host[o]), host[o])
         /\ \A form : host[o].is = "part" /\ Carries(form, host[o]) => Tells(WrittenPart(identity, form), host[o])
<1>1. IF host[o].id # None THEN identity.id = host[o].id /\ identity.synthesized = host[o].flag
                           ELSE identity.id \notin GivenIds \cup {None, Empty} /\ identity.synthesized = TRUE
  <2>1. CASE host[o].id = None
    <3>1. identity.id = run.ids[owner] /\ identity.synthesized = TRUE
      BY <2>1 DEF Identity
    <3>2. run.ids[owner] \in Nat
      BY <2>1, RunFields
    <3>3. run.ids[owner] \notin GivenIds \cup {None, Empty}
      BY <3>2, FreshAssumption
    <3> QED BY <2>1, <3>1, <3>3
  <2>2. CASE host[o].id # None
    BY <2>2 DEF Identity
  <2> QED BY <2>1, <2>2
<1>2. ASSUME NEW w, w.id = identity.id, w.synthesized = identity.synthesized PROVE SameIdentity(w, host[o])
  BY <1>1, <1>2 DEF SameIdentity
<1>3. ASSUME host[o].is = "message" PROVE Tells(WrittenMessage(identity, host[o]), host[o])
  <2> DEFINE w == WrittenMessage(identity, host[o])
  <2>1. w.id = identity.id /\ w.synthesized = identity.synthesized /\ w.is = "message" /\ w.role = host[o].role
    BY DEF WrittenMessage
  <2>2. host[o].is # "part"
    BY <1>3
  <2> HIDE DEF w
  <2>3. Tells(w, host[o])
    BY <1>2, <2>1, <2>2 DEF Tells
  <2> QED BY <2>3 DEF w
<1>4. ASSUME NEW form, host[o].is = "part", Carries(form, host[o]) PROVE Tells(WrittenPart(identity, form), host[o])
  <2> DEFINE w == WrittenPart(identity, form)
  <2>1. /\ w.id = identity.id /\ w.synthesized = identity.synthesized /\ w.is = "part"
        /\ w.kind = form.kind /\ w.text = form.text /\ w.media = form.media /\ w.sel = form.sel /\ w.body = form.body
        /\ {"is", "kind", "text", "media", "sel", "body", "id", "synthesized"} \subseteq DOMAIN w
    BY DEF WrittenPart
  <2>2. host[o].is # "message"
    BY <1>4
  <2> HIDE DEF w
  <2>3. Carries(w, host[o])
    BY <1>4, <2>1 DEF Carries
  <2>4. Tells(w, host[o])
    BY <1>2, <2>1, <2>2, <2>3 DEF Tells
  <2> QED BY <2>4 DEF w
<1> QED BY <1>3, <1>4

(* The sources of the owned parts at some of the places of a tree.         *)
SourcesIn(tree, places) ==
  {[path |-> at, source |-> host[tree[at].object].body] :
     at \in {p \in places : IsHost(tree[p]) /\ host[tree[p].object].is = "part" /\ Owned(host[tree[p].object])}}

(* A visit that does not fail, of a projection that had not, writes what   *)
(* tells of the host object at a place, and binds the sources given.       *)
Visited(before, after, tree, at, sources) ==
  after.ok =>
    /\ before.ok /\ IsHost(tree[at])
    /\ DOMAIN after.event = DOMAIN before.event
    /\ \A p \in DOMAIN before.event : p # at => after.event[p] = before.event[p]
    /\ Tells(after.event[at], host[tree[at].object])
    /\ after.bindings = before.bindings \cup sources

(* Naming, writing and binding leave alone what they do not speak of.      *)
LEMMA NamedLeaves ==
  ASSUME NEW D, NEW run \in AllRuns(D), NEW o, NEW thing
  PROVE  LET named == IdentityOfItsOwn(run, o, thing)
         IN  named.ok = run.ok /\ named.event = run.event /\ named.bindings = run.bindings
<1> DEFINE named == Named(run, o)
           half  == [run EXCEPT !.ids = Put(@, o, run.next)]
           whole == [half EXCEPT !.next = run.next + 1]
<1>1. half.ok = run.ok /\ half.event = run.event /\ half.bindings = run.bindings /\ DOMAIN half = DOMAIN run
  BY DEF AllRuns
<1>2. [run EXCEPT !.ids = Put(@, o, run.next), !.next = @ + 1] = whole
  BY DEF AllRuns
<1> HIDE DEF half
<1>3. whole.ok = run.ok /\ whole.event = run.event /\ whole.bindings = run.bindings
  BY <1>1 DEF AllRuns
<1> HIDE DEF whole
<1>4. named.ok = run.ok /\ named.event = run.event /\ named.bindings = run.bindings
  BY <1>2, <1>3 DEF Named
<1> QED BY <1>4 DEF IdentityOfItsOwn

(* Writing a value sets one place of the event and leaves the rest.        *)
LEMMA WriteLeaves ==
  ASSUME NEW D, NEW run \in AllRuns(D), NEW at \in D, NEW value
  PROVE  LET w == Write(run, at, value)
         IN  /\ w.ok = run.ok /\ w.bindings = run.bindings /\ DOMAIN w = DOMAIN run
             /\ DOMAIN w.event = DOMAIN run.event /\ w.event[at] = value
             /\ \A p \in D : p # at => w.event[p] = run.event[p]
<1> DEFINE w == Write(run, at, value)
           written == [run.event EXCEPT ![at] = value]
<1>1. DOMAIN run.event = D
  BY RunFields
<1>2. w = [run EXCEPT !.event = written]
  BY DEF Write, AllRuns
<1>3. DOMAIN written = D /\ written[at] = value /\ \A p \in D : p # at => written[p] = run.event[p]
  BY <1>1
<1> HIDE DEF written
<1>4. w.ok = run.ok /\ w.bindings = run.bindings /\ DOMAIN w = DOMAIN run /\ w.event = written
  BY <1>2 DEF AllRuns
<1> QED BY <1>1, <1>3, <1>4

(* Binding adds the source of a part that owns its body.                   *)
LEMMA BindLeaves ==
  ASSUME NEW run, {"ok", "event", "bindings"} \subseteq DOMAIN run, NEW at, NEW part
  PROVE  LET b == Bind(run, at, part)
         IN  /\ b.ok = run.ok /\ b.event = run.event
             /\ b.bindings = run.bindings
                  \cup (IF Owned(part) THEN {[path |-> at, source |-> part.body]} ELSE {})
<1> DEFINE more == run.bindings \cup {[path |-> at, source |-> part.body]}
<1>1. CASE Owned(part)
  <2>1. Bind(run, at, part) = [run EXCEPT !.bindings = more]
    BY <1>1 DEF Bind
  <2> HIDE DEF more
  <2>2. [run EXCEPT !.bindings = more].ok = run.ok /\ [run EXCEPT !.bindings = more].event = run.event
        /\ [run EXCEPT !.bindings = more].bindings = more
    OBVIOUS
  <2> QED BY <1>1, <2>1, <2>2 DEF more
<1>2. CASE ~ Owned(part)
  BY <1>2 DEF Bind
<1> QED BY <1>1, <1>2

(* The sources at one place.                                               *)
LEMMA SourcesAtOne ==
  ASSUME NEW tree, NEW at, IsHost(tree[at]), NEW o, o = tree[at].object
  PROVE  /\ host[o].is = "part" =>
              SourcesIn(tree, {at}) = IF Owned(host[o]) THEN {[path |-> at, source |-> host[o].body]} ELSE {}
         /\ host[o].is # "part" => SourcesIn(tree, {at}) = {}
BY DEF SourcesIn

(* A visit of a host object that is named and written in what carries it.  *)
LEMMA VisitTells ==
  ASSUME GivenInv, NEW tree \in Trees, NEW owner, \A p \in DOMAIN tree : tree[p].is = "host" => owner[p] \in Owners,
         NEW known, NEW count \in Nat, NEW run \in Runs(tree, owner, known, count),
         NEW at \in DOMAIN tree, IsHost(run.event[at]),
         NEW o, o = run.event[at].object,
         NEW named, named = IdentityOfItsOwn(run, owner[at], host[o]),
         NEW identity, identity = Identity(named, owner[at], host[o])
  PROVE  /\ host[o].is = "message" =>
              /\ Visited(run, Write(named, at, WrittenMessage(identity, host[o])), tree, at, SourcesIn(tree, {at}))
              /\ Visited(run, Write(named, at, WrittenMessage(identity, host[o])), tree, at, {})
         /\ \A form : host[o].is = "part" /\ Carries(form, host[o]) =>
              /\ Visited(run, Bind(Write(named, at, WrittenPart(identity, form)), at, host[o]), tree, at, SourcesIn(tree, {at}))
              /\ Visited(run, Write(named, at, WrittenPart(identity, form)), tree, at, {})
<1>0. run \in AllRuns(DOMAIN tree) /\ EventKept(run.event, tree, run.ids, owner)
  BY DEF Runs
<1>1. o \in DOMAIN host /\ o = tree[at].object /\ named \in Runs(tree, owner, known, count)
  BY VisitFacts
<1>2. run.event[at] = tree[at] /\ IsHost(tree[at])
  <2>1. run.event[at].is = "host"
    BY DEF IsHost
  <2>2. run.event[at] \notin Written
    BY <2>1, WrittenFacts
  <2> QED BY <1>0, <2>1, <2>2 DEF EventKept, Rightly, IsHost
<1>3. named \in AllRuns(DOMAIN tree)
  BY <1>1 DEF Runs
<1>4. named.ok = run.ok /\ named.event = run.event /\ named.bindings = run.bindings
  BY <1>0, NamedLeaves
<1>5. host[o].id = None => owner[at] \in DOMAIN named.ids
  <2>1. ASSUME host[o].id = None PROVE owner[at] \in DOMAIN named.ids
    <3>1. named = Named(run, owner[at])
      BY <2>1 DEF IdentityOfItsOwn
    <3>2. owner[at] \in Owners
      BY <1>2 DEF IsHost
    <3> QED BY <3>1, <3>2, NamedKeeps
  <2> QED BY <2>1
<1>6. /\ host[o].is = "message" => Tells(WrittenMessage(identity, host[o]), host[o])
      /\ \A form : host[o].is = "part" /\ Carries(form, host[o]) => Tells(WrittenPart(identity, form), host[o])
  BY <1>1, <1>3, <1>5, WrittenTells
<1>7. ASSUME NEW value, Tells(value, host[o])
      PROVE  Visited(run, Write(named, at, value), tree, at, {})
  <2> DEFINE w == Write(named, at, value)
  <2>1. /\ w.ok = named.ok /\ w.bindings = named.bindings
        /\ DOMAIN w.event = DOMAIN named.event /\ w.event[at] = value
        /\ \A p \in DOMAIN tree : p # at => w.event[p] = named.event[p]
    BY <1>3, WriteLeaves
  <2>2. DOMAIN run.event = DOMAIN tree
    BY <1>0, RunFields
  <2> HIDE DEF w
  <2>3. Visited(run, w, tree, at, {})
    BY <1>1, <1>2, <1>4, <1>7, <2>1, <2>2 DEF Visited
  <2> QED BY <2>3 DEF w
<1>8. ASSUME NEW value, Tells(value, host[o]), host[o].is = "part"
      PROVE  Visited(run, Bind(Write(named, at, value), at, host[o]), tree, at, SourcesIn(tree, {at}))
  <2> DEFINE w == Write(named, at, value)
             b == Bind(w, at, host[o])
  <2>1. Visited(run, w, tree, at, {})
    BY <1>7, <1>8
  <2>2. DOMAIN w = DOMAIN named
    BY <1>3, WriteLeaves
  <2>3. {"ok", "event", "bindings"} \subseteq DOMAIN w
    BY <1>3, <2>2 DEF AllRuns
  <2> HIDE DEF w
  <2>4. b.ok = w.ok /\ b.event = w.event
        /\ b.bindings = w.bindings \cup (IF Owned(host[o]) THEN {[path |-> at, source |-> host[o].body]} ELSE {})
    BY <2>3, BindLeaves
  <2> HIDE DEF b
  <2>5. SourcesIn(tree, {at}) = IF Owned(host[o]) THEN {[path |-> at, source |-> host[o].body]} ELSE {}
    BY <1>1, <1>2, <1>8, SourcesAtOne
  <2>6. Visited(run, b, tree, at, SourcesIn(tree, {at}))
    BY <2>1, <2>4, <2>5 DEF Visited
  <2> QED BY <2>6 DEF b, w
<1>9. host[o].is = "message" => SourcesIn(tree, {at}) = {}
  <2>1. ASSUME host[o].is = "message" PROVE SourcesIn(tree, {at}) = {}
    <3>1. host[o].is # "part"
      BY <2>1
    <3> QED BY <1>1, <1>2, <3>1, SourcesAtOne
  <2> QED BY <2>1
<1> QED BY <1>6, <1>7, <1>8, <1>9

(* One visit of each adapter, where it does not fail.                      *)
LEMMA FailedVisit ==
  ASSUME NEW before, NEW D, NEW run \in AllRuns(D), NEW tree, NEW at, NEW sources
  PROVE  Visited(before, Failed(run), tree, at, sources)
BY FailedFields DEF Visited

(* A visit of the Go adapter writes what tells of the object. Its sources  *)
(* are bound at the end.                                                   *)
LEMMA GoTells ==
  ASSUME GivenInv, NEW tree \in Trees, NEW known, NEW count \in Nat,
         NEW run \in Runs(tree, ObjectAt(tree), known, count), NEW at \in DOMAIN tree
  PROVE  Visited(run, GoVisit(run, at), tree, at, {})
<1> DEFINE node  == run.event[at]
           thing == host[node.object]
           named == GoIdentity(run, node.object)
           identity == Identity(named, node.object, thing)
           form == CHOOSE f \in GoForm(thing) : TRUE
           V(after) == Visited(run, after, tree, at, {})
<1>0. run \in AllRuns(DOMAIN tree)
  BY DEF Runs
<1>1. V(Failed(run))
  BY <1>0, FailedVisit
<1>2. CASE ~ IsHost(node)
  BY <1>1, <1>2 DEF GoVisit
<1>3. CASE IsHost(node)
  <2>1. run.event[at] = tree[at] /\ tree[at].is = "host"
    <3>1. node \notin Written
      BY <1>3, WrittenFacts DEF IsHost
    <3> QED BY <1>3, <3>1 DEF Runs, EventKept, Rightly, IsHost
  <2>2. node.object = ObjectAt(tree)[at]
    BY <2>1, OwnersFacts
  <2>3. named = IdentityOfItsOwn(run, ObjectAt(tree)[at], thing) /\ identity = Identity(named, ObjectAt(tree)[at], thing)
    BY <2>2 DEF GoIdentity
  <2>4. \A p \in DOMAIN tree : tree[p].is = "host" => ObjectAt(tree)[p] \in Owners
    BY OwnersFacts
  <2> HIDE DEF named, identity
  <2>5. node.object \in DOMAIN host /\ named \in Runs(tree, ObjectAt(tree), known, count)
    BY <1>3, <2>3, <2>4, VisitFacts
  <2>6. V(Failed(named))
    <3>1. named \in AllRuns(DOMAIN tree)
      BY <2>5 DEF Runs
    <3> QED BY <3>1, FailedVisit
  <2>7. /\ thing.is = "message" => V(Write(named, at, WrittenMessage(identity, thing)))
        /\ \A f : thing.is = "part" /\ Carries(f, thing) => V(Write(named, at, WrittenPart(identity, f)))
    BY <1>3, <2>3, <2>4, VisitTells
  <2>8. thing.is = "part" /\ GoForm(thing) # {} => V(Write(named, at, WrittenPart(identity, form)))
    <3>1. thing.is = "part" /\ GoForm(thing) # {} => Carries(form, thing)
      BY <2>5, GoCarries
    <3> HIDE DEF V, form
    <3> QED BY <2>7, <3>1
  <2>9. thing.is \in {"part", "message"}
    BY <2>5, GivenFacts DEF Hostly
  <2>10. \/ GoVisit(run, at) \in {Failed(run), Failed(named)}
         \/ thing.is = "message" /\ GoVisit(run, at) = Write(named, at, WrittenMessage(identity, thing))
         \/ /\ thing.is = "part" /\ GoForm(thing) # {}
            /\ GoVisit(run, at) = Write(named, at, WrittenPart(identity, form))
    BY <2>9 DEF GoVisit, named, identity
  <2> HIDE DEF V, node, form
  <2>11. V(GoVisit(run, at))
    BY <1>1, <2>6, <2>7, <2>8, <2>10
  <2> QED BY <2>11 DEF V
<1> QED BY <1>2, <1>3

(* A visit of the Python adapter writes what tells of the object, and      *)
(* binds its source.                                                       *)
LEMMA PythonTells ==
  ASSUME GivenInv, NEW tree \in Trees, NEW known, NEW count \in Nat,
         NEW run \in Runs(tree, PlaceAt(tree), known, count), NEW at \in DOMAIN tree
  PROVE  Visited(run, PythonVisit(run, at), tree, at, SourcesIn(tree, {at}))
<1> DEFINE node  == run.event[at]
           thing == host[node.object]
           named == IdentityOfItsOwn(run, at, thing)
           identity == Identity(named, at, thing)
           form == CHOOSE f \in PythonForm(thing) : TRUE
           V(after) == Visited(run, after, tree, at, SourcesIn(tree, {at}))
<1>0. run \in AllRuns(DOMAIN tree)
  BY DEF Runs
<1>1. V(Failed(run))
  BY <1>0, FailedVisit
<1>2. CASE ~ IsHost(node)
  BY <1>1, <1>2 DEF PythonVisit
<1>3. CASE IsHost(node)
  <2>2. PlaceAt(tree)[at] = at
    BY OwnersFacts
  <2>3. named = IdentityOfItsOwn(run, PlaceAt(tree)[at], thing) /\ identity = Identity(named, PlaceAt(tree)[at], thing)
    BY <2>2
  <2>4. \A p \in DOMAIN tree : tree[p].is = "host" => PlaceAt(tree)[p] \in Owners
    BY OwnersFacts
  <2> HIDE DEF named, identity
  <2>5. node.object \in DOMAIN host /\ named \in Runs(tree, PlaceAt(tree), known, count)
    BY <1>3, <2>3, <2>4, VisitFacts
  <2>6. V(Failed(named))
    <3>1. named \in AllRuns(DOMAIN tree)
      BY <2>5 DEF Runs
    <3> QED BY <3>1, FailedVisit
  <2>7. /\ thing.is = "message" => V(Write(named, at, WrittenMessage(identity, thing)))
        /\ \A f : thing.is = "part" /\ Carries(f, thing) => V(Bind(Write(named, at, WrittenPart(identity, f)), at, thing))
    BY <1>3, <2>3, <2>4, VisitTells
  <2>8. thing.is = "part" /\ PythonForm(thing) # {} => V(Bind(Write(named, at, WrittenPart(identity, form)), at, thing))
    <3>1. thing.is = "part" /\ PythonForm(thing) # {} => Carries(form, thing)
      BY <2>5, PythonCarries
    <3> HIDE DEF V, form
    <3> QED BY <2>7, <3>1
  <2>9. thing.is \in {"part", "message"}
    BY <2>5, GivenFacts DEF Hostly
  <2>10. \/ PythonVisit(run, at) \in {Failed(run), Failed(named)}
         \/ thing.is = "message" /\ PythonVisit(run, at) = Write(named, at, WrittenMessage(identity, thing))
         \/ /\ thing.is = "part" /\ PythonForm(thing) # {}
            /\ PythonVisit(run, at) = Bind(Write(named, at, WrittenPart(identity, form)), at, thing)
    BY <2>9 DEF PythonVisit, named, identity
  <2> HIDE DEF V, node, form
  <2>11. V(PythonVisit(run, at))
    BY <1>1, <2>6, <2>7, <2>8, <2>10
  <2> QED BY <2>11 DEF V
<1> QED BY <1>2, <1>3

(* A visit of the TypeScript adapter does so too.                          *)
LEMMA TsTells ==
  ASSUME GivenInv, NEW tree \in Trees, NEW known, NEW count \in Nat,
         NEW run \in Runs(tree, ObjectAt(tree), known, count), NEW at \in DOMAIN tree
  PROVE  Visited(run, TsVisit(run, at), tree, at, SourcesIn(tree, {at}))
<1> DEFINE node  == run.event[at]
           thing == host[node.object]
           named == IdentityOfItsOwn(run, node.object, thing)
           identity == Identity(named, node.object, thing)
           form == CHOOSE f \in TsForm(thing) : TRUE
           V(after) == Visited(run, after, tree, at, SourcesIn(tree, {at}))
<1>0. run \in AllRuns(DOMAIN tree)
  BY DEF Runs
<1>1. V(Failed(run))
  BY <1>0, FailedVisit
<1>2. CASE ~ IsHost(node)
  BY <1>1, <1>2 DEF TsVisit
<1>3. CASE IsHost(node)
  <2>1. run.event[at] = tree[at] /\ tree[at].is = "host"
    <3>1. node \notin Written
      BY <1>3, WrittenFacts DEF IsHost
    <3> QED BY <1>3, <3>1 DEF Runs, EventKept, Rightly, IsHost
  <2>2. node.object = ObjectAt(tree)[at]
    BY <2>1, OwnersFacts
  <2>3. named = IdentityOfItsOwn(run, ObjectAt(tree)[at], thing) /\ identity = Identity(named, ObjectAt(tree)[at], thing)
    BY <2>2
  <2>4. \A p \in DOMAIN tree : tree[p].is = "host" => ObjectAt(tree)[p] \in Owners
    BY OwnersFacts
  <2> HIDE DEF named, identity
  <2>5. node.object \in DOMAIN host /\ named \in Runs(tree, ObjectAt(tree), known, count)
    BY <1>3, <2>3, <2>4, VisitFacts
  <2>6. V(Failed(named))
    <3>1. named \in AllRuns(DOMAIN tree)
      BY <2>5 DEF Runs
    <3> QED BY <3>1, FailedVisit
  <2>7. /\ thing.is = "message" => V(Write(named, at, WrittenMessage(identity, thing)))
        /\ \A f : thing.is = "part" /\ Carries(f, thing) => V(Bind(Write(named, at, WrittenPart(identity, f)), at, thing))
    BY <1>3, <2>3, <2>4, VisitTells
  <2>8. ASSUME thing.is = "part", TsForm(thing) # {}, Owned(thing) => thing.kind = "attachment"
        PROVE  V(Bind(Write(named, at, WrittenPart(identity, form)), at, thing))
    <3>1. Carries(form, thing)
      BY <2>5, <2>8, TsCarries
    <3> HIDE DEF V, form
    <3> QED BY <2>7, <2>8, <3>1
  <2>9. thing.is \in {"part", "message"}
    BY <2>5, GivenFacts DEF Hostly
  <2>10. \/ TsVisit(run, at) \in {Failed(run), Failed(named)}
         \/ thing.is = "message" /\ TsVisit(run, at) = Write(named, at, WrittenMessage(identity, thing))
         \/ /\ thing.is = "part" /\ TsForm(thing) # {} /\ (Owned(thing) => thing.kind = "attachment")
            /\ TsVisit(run, at) = Bind(Write(named, at, WrittenPart(identity, form)), at, thing)
    BY <2>9 DEF TsVisit, named, identity
  <2> HIDE DEF V, node, form
  <2>11. V(TsVisit(run, at))
    BY <1>1, <2>6, <2>7, <2>8, <2>10
  <2> QED BY <2>11 DEF V
<1> QED BY <1>2, <1>3

(* Building one value of a call in Rust writes what tells of it, and binds *)
(* its source.                                                             *)
LEMMA RustTells ==
  ASSUME GivenInv, NEW k \in DOMAIN placed, NEW at \in Built(k),
         NEW run \in RustRunsOn(DOMAIN NodesPlaced(placed[k]))
  PROVE  Visited(run, RustVisit(run, k, at), NodesPlaced(placed[k]), at, SourcesIn(NodesPlaced(placed[k]), {at}))
<1> DEFINE nodes == NodesPlaced(placed[k])
           o == nodes[at].object
           thing == host[o]
           identity == Identity(run, <<k, at>>, thing)
           form == CHOOSE f \in RustForm(thing) : TRUE
           V(after) == Visited(run, after, nodes, at, SourcesIn(nodes, {at}))
<1>1. o \in DOMAIN host /\ at \in DOMAIN nodes
  BY BuiltFacts
<1>2. IsHost(nodes[at])
  BY DEF Built
<1>3. run \in AllRuns(DOMAIN nodes) /\ run.ids = RustIds
  BY DEF RustRunsOn
<1>4. thing.id = None => <<k, at>> \in DOMAIN run.ids
  BY <1>3, RustOwnersFacts, RustIdsFacts
<1>5. \/ RustVisit(run, k, at) = Failed(run)
      \/ thing.is = "message" /\ RustVisit(run, k, at) = Write(run, at, WrittenMessage(identity, thing))
      \/ /\ thing.is # "message" /\ RustForm(thing) # {}
         /\ RustVisit(run, k, at) = Bind(Write(run, at, WrittenPart(identity, form)), at, thing)
  BY DEF RustVisit
<1> HIDE DEF nodes
<1>6. thing.is \in {"part", "message"}
  BY <1>1, GivenFacts DEF Hostly
<1>7. /\ thing.is = "message" => Tells(WrittenMessage(identity, thing), thing)
      /\ \A f : thing.is = "part" /\ Carries(f, thing) => Tells(WrittenPart(identity, f), thing)
  BY <1>1, <1>3, <1>4, WrittenTells
<1>8. thing.is = "part" /\ RustForm(thing) # {} => Carries(form, thing)
  BY <1>1, RustCarries
<1> HIDE DEF form, identity
<1>9. ASSUME NEW value, Tells(value, thing) PROVE Visited(run, Write(run, at, value), nodes, at, {})
  <2> DEFINE w == Write(run, at, value)
  <2>1. /\ w.ok = run.ok /\ w.bindings = run.bindings
        /\ DOMAIN w.event = DOMAIN run.event /\ w.event[at] = value
        /\ \A p \in DOMAIN nodes : p # at => w.event[p] = run.event[p]
    BY <1>1, <1>3, WriteLeaves
  <2>2. DOMAIN run.event = DOMAIN nodes
    BY <1>3, RunFields
  <2> HIDE DEF w
  <2>3. Visited(run, w, nodes, at, {})
    BY <1>2, <1>9, <2>1, <2>2 DEF Visited
  <2> QED BY <2>3 DEF w
<1>10. ASSUME NEW value, Tells(value, thing), thing.is = "part"
       PROVE  Visited(run, Bind(Write(run, at, value), at, thing), nodes, at, SourcesIn(nodes, {at}))
  <2> DEFINE w == Write(run, at, value)
             b == Bind(w, at, thing)
  <2>1. Visited(run, w, nodes, at, {})
    BY <1>9, <1>10
  <2>2. DOMAIN w = DOMAIN run
    BY <1>1, <1>3, WriteLeaves
  <2>3. {"ok", "event", "bindings"} \subseteq DOMAIN w
    BY <1>3, <2>2 DEF AllRuns
  <2> HIDE DEF w
  <2>4. b.ok = w.ok /\ b.event = w.event
        /\ b.bindings = w.bindings \cup (IF Owned(thing) THEN {[path |-> at, source |-> thing.body]} ELSE {})
    BY <2>3, BindLeaves
  <2> HIDE DEF b
  <2>5. SourcesIn(nodes, {at}) = IF Owned(thing) THEN {[path |-> at, source |-> thing.body]} ELSE {}
    BY <1>2, <1>10, SourcesAtOne
  <2>6. Visited(run, b, nodes, at, SourcesIn(nodes, {at}))
    BY <2>1, <2>4, <2>5 DEF Visited
  <2> QED BY <2>6 DEF b, w
<1>11. thing.is = "message" => SourcesIn(nodes, {at}) = {}
  <2>1. ASSUME thing.is = "message" PROVE SourcesIn(nodes, {at}) = {}
    <3>1. thing.is # "part"
      BY <2>1
    <3> QED BY <1>2, <3>1, SourcesAtOne
  <2> QED BY <2>1
<1>12. V(Failed(run))
  BY <1>3, FailedVisit
<1> HIDE DEF o, thing
<1>13. thing.is = "message" => V(Write(run, at, WrittenMessage(identity, thing)))
  BY <1>7, <1>9, <1>11
<1>14. thing.is = "part" /\ RustForm(thing) # {} => V(Bind(Write(run, at, WrittenPart(identity, form)), at, thing))
  BY <1>7, <1>8, <1>10
<1> HIDE DEF V
<1>15. V(RustVisit(run, k, at))
  BY <1>5, <1>6, <1>12, <1>13, <1>14
<1> QED BY <1>15 DEF V, nodes

(* What was written so far, at some of the places of a tree.               *)
Wrote(first, run, tree, places, sources) ==
  run.ok =>
    /\ DOMAIN run.event = DOMAIN tree
    /\ \A p \in places : IsHost(tree[p]) /\ Tells(run.event[p], host[tree[p].object])
    /\ \A p \in DOMAIN tree \ places : run.event[p] = tree[p]
    /\ run.bindings = first.bindings \cup sources

(* A loop whose every step is a visit.                                     *)
Visiting(f, S, pick, tree, at, binds) ==
  /\ DOMAIN f[{}].event = DOMAIN tree /\ \A p \in DOMAIN tree : f[{}].event[p] = tree[p]
  /\ \A k \in S : at[k] \in DOMAIN tree
  /\ \A s \in SUBSET S : s # {} =>
       /\ pick[s] \in s
       /\ Visited(f[s \ {pick[s]}], f[s], tree, at[pick[s]],
                  IF binds THEN SourcesIn(tree, {at[pick[s]]}) ELSE {})

(* The places of some of the visits.                                       *)
PlacesAt(at, S) == {at[k] : k \in S}

(* Visits one after the other have written all their places, and bound the *)
(* sources there, unless one has failed.                                   *)
LEMMA LoopWrites ==
  ASSUME NEW S, IsFiniteSet(S), NEW f, NEW pick, NEW tree, NEW at, NEW binds \in BOOLEAN,
         Visiting(f, S, pick, tree, at, binds)
  PROVE  Wrote(f[{}], f[S], tree, PlacesAt(at, S),
               IF binds THEN SourcesIn(tree, PlacesAt(at, S)) ELSE {})
<1> DEFINE Places(s)  == PlacesAt(at, s)
           Sources_(places) == IF binds THEN SourcesIn(tree, places) ELSE {}
           P == {s \in SUBSET S : Wrote(f[{}], f[s], tree, Places(s), Sources_(Places(s)))}
<1>1. {} \in P /\ P \in SUBSET (SUBSET S)
  <2>1. Places({}) = {} /\ Sources_({}) = {}
    BY DEF SourcesIn, PlacesAt
  <2> HIDE DEF Places, Sources_
  <2>2. Wrote(f[{}], f[{}], tree, Places({}), Sources_(Places({})))
    BY <2>1 DEF Wrote, Visiting
  <2> QED BY <2>2
<1>2. ASSUME NEW s \in SUBSET S, s # {}, \A x \in s : s \ {x} \in P PROVE s \in P
  <2> DEFINE x == pick[s]
             less == s \ {x}
  <2>1. /\ x \in s /\ x \in S /\ at[x] \in DOMAIN tree
        /\ Visited(f[less], f[s], tree, at[x], Sources_({at[x]}))
    BY <1>2 DEF Visiting
  <2>2. Wrote(f[{}], f[less], tree, Places(less), Sources_(Places(less)))
    BY <1>2, <2>1
  <2>3. Places(s) = Places(less) \cup {at[x]} /\ Places(less) \subseteq DOMAIN tree
    BY <2>1 DEF Visiting, PlacesAt
  <2>4. Sources_(Places(s)) = Sources_(Places(less)) \cup Sources_({at[x]})
    <3> DEFINE p1 == Places(less)
               p2 == {at[x]}
    <3>1. Places(s) = p1 \cup p2
      BY <2>3
    <3> HIDE DEF Places, p1, p2
    <3>2. SourcesIn(tree, p1 \cup p2) = SourcesIn(tree, p1) \cup SourcesIn(tree, p2)
      BY DEF SourcesIn
    <3> QED BY <3>1, <3>2 DEF p1, p2
  <2> HIDE DEF Places, Sources_, less, x
  <2>5. Wrote(f[{}], f[s], tree, Places(s), Sources_(Places(s)))
    <3>1. SUFFICES ASSUME f[s].ok
          PROVE  /\ DOMAIN f[s].event = DOMAIN tree
                 /\ \A p \in Places(s) : IsHost(tree[p]) /\ Tells(f[s].event[p], host[tree[p].object])
                 /\ \A p \in DOMAIN tree \ Places(s) : f[s].event[p] = tree[p]
                 /\ f[s].bindings = f[{}].bindings \cup Sources_(Places(s))
      BY DEF Wrote
    <3>2. /\ f[less].ok /\ IsHost(tree[at[x]])
          /\ DOMAIN f[s].event = DOMAIN f[less].event
          /\ \A p \in DOMAIN f[less].event : p # at[x] => f[s].event[p] = f[less].event[p]
          /\ Tells(f[s].event[at[x]], host[tree[at[x]].object])
          /\ f[s].bindings = f[less].bindings \cup Sources_({at[x]})
      BY <2>1, <3>1 DEF Visited
    <3>3. /\ DOMAIN f[less].event = DOMAIN tree
          /\ \A p \in Places(less) : IsHost(tree[p]) /\ Tells(f[less].event[p], host[tree[p].object])
          /\ \A p \in DOMAIN tree \ Places(less) : f[less].event[p] = tree[p]
          /\ f[less].bindings = f[{}].bindings \cup Sources_(Places(less))
      BY <2>2, <3>2 DEF Wrote
    <3>4. ASSUME NEW p \in Places(s) PROVE IsHost(tree[p]) /\ Tells(f[s].event[p], host[tree[p].object])
      <4>1. CASE p = at[x]
        BY <3>2, <4>1
      <4>2. CASE p # at[x]
        <5>1. p \in Places(less) /\ f[s].event[p] = f[less].event[p]
          BY <2>3, <3>2, <3>3, <4>2
        <5> QED BY <3>3, <5>1
      <4> QED BY <4>1, <4>2
    <3>5. ASSUME NEW p \in DOMAIN tree \ Places(s) PROVE f[s].event[p] = tree[p]
      BY <2>3, <3>2, <3>3
    <3>6. f[s].bindings = f[{}].bindings \cup Sources_(Places(s))
      BY <2>4, <3>2, <3>3
    <3> QED BY <3>2, <3>3, <3>4, <3>5, <3>6
  <2> QED BY <2>5
<1> HIDE DEF P
<1>3. P = SUBSET S
  BY <1>1, <1>2, PartInduction
<1> QED BY <1>3 DEF P

(* A projection has come to what a tree means.                             *)
Told(written, tree) ==
  /\ DOMAIN written = DOMAIN tree
  /\ \A p \in DOMAIN tree : IF IsHost(tree[p]) THEN Tells(written[p], host[tree[p].object])
                                               ELSE written[p] = tree[p]

(* It has written all of the tree, and bound every source in it.           *)
Complete(run, tree) == Told(run.event, tree) /\ run.bindings = GoSources(tree)

(* The visits come to every host object.                                   *)
Covers(visits, tree) ==
  \A p \in DOMAIN tree : IsHost(tree[p]) => \E k \in DOMAIN visits : visits[k] = p

(* Visits that come to every host object and do not fail have written all. *)
LEMMA CoveringTells ==
  ASSUME NEW tree, NEW visits, Covers(visits, tree), \A k \in DOMAIN visits : visits[k] \in DOMAIN tree,
         NEW first, NEW run, run.ok, NEW sources,
         Wrote(first, run, tree, PlacesAt(visits, DOMAIN visits), sources)
  PROVE  /\ Told(run.event, tree) /\ run.bindings = first.bindings \cup sources
         /\ SourcesIn(tree, PlacesAt(visits, DOMAIN visits)) = GoSources(tree)
<1> DEFINE places == PlacesAt(visits, DOMAIN visits)
<1>1. places \subseteq DOMAIN tree /\ \A p \in DOMAIN tree : IsHost(tree[p]) => p \in places
  BY DEF Covers, PlacesAt
<1>2. Wrote(first, run, tree, places, sources)
  OBVIOUS
<1> HIDE DEF places
<1>3. /\ DOMAIN run.event = DOMAIN tree
      /\ \A p \in places : IsHost(tree[p]) /\ Tells(run.event[p], host[tree[p].object])
      /\ \A p \in DOMAIN tree \ places : run.event[p] = tree[p]
      /\ run.bindings = first.bindings \cup sources
  BY <1>2 DEF Wrote
<1>4. Told(run.event, tree)
  BY <1>1, <1>3 DEF Told
<1>5. {p \in places : IsHost(tree[p]) /\ host[tree[p].object].is = "part" /\ Owned(host[tree[p].object])}
        = {p \in DOMAIN tree : IsHost(tree[p]) /\ host[tree[p].object].is = "part" /\ Owned(host[tree[p].object])}
  BY <1>1
<1>6. SourcesIn(tree, places) = GoSources(tree)
  BY <1>5 DEF SourcesIn, GoSources
<1> QED BY <1>3, <1>4, <1>6 DEF places

(* The visits of a tree are of its places, finitely many, one after the    *)
(* other.                                                                  *)
LEMMA VisitsInTurn ==
  ASSUME GivenInv, NEW tree \in Trees, NEW b \in BOOLEAN
  PROVE  /\ IsFiniteSet(DOMAIN Visits(tree, b)) /\ \A k \in DOMAIN Visits(tree, b) : Visits(tree, b)[k] \in DOMAIN tree
<1>1. Visits(tree, b) \in Seq(DOMAIN tree)
  BY VisitsFacts
<1> DEFINE visits == Visits(tree, b)
<1> HIDE DEF visits
<1>2. visits \in Seq(DOMAIN tree)
  BY <1>1 DEF visits
<1>3. DOMAIN visits = 1..Len(visits) /\ Len(visits) \in Nat /\ \A k \in DOMAIN visits : visits[k] \in DOMAIN tree
  BY <1>2
<1>4. IsFiniteSet(1..Len(visits))
  BY <1>3, UpToFinite
<1> QED BY <1>3, <1>4 DEF visits

(* A projection in Go that succeeds is complete: its visits come to every  *)
(* host object, and its sources are collected at the end.                  *)
LEMMA GoComplete ==
  ASSUME GivenInv, NEW tree \in Trees, Covers(Visits(tree, TRUE), tree),
         \A p \in DOMAIN tree : tree[p].is = "host" => host[tree[p].object].id # Empty,
         NEW known, NEW count, Knowing(known, count), GoProject(tree, known, count).ok
  PROVE  Complete(GoProject(tree, known, count), tree)
<1> DEFINE visits == Visits(tree, TRUE)
           S      == DOMAIN visits
           first  == Projection(tree, known, count)
           end    == GoEnd(tree, known, count)
           pick   == [s \in SUBSET S |-> Max(s)]
           V      == Runs(tree, ObjectAt(tree), known, count)
<1>0. PICK f : GoSteps(f, tree, known, count)
  BY GoLoop
<1>1. /\ end = f[S] /\ f[{}] = first
      /\ \A s \in SUBSET S :
           /\ f[s] \in V
           /\ s # {} => Max(s) \in s /\ f[s] = GoVisit(f[s \ {Max(s)}], visits[Max(s)])
  BY <1>0 DEF GoSteps
<1>2. IsFiniteSet(S) /\ \A k \in S : visits[k] \in DOMAIN tree
  BY VisitsInTurn
<1>3. first.event = tree /\ first.bindings = {}
  BY DEF Projection
<1>4. count \in Nat
  BY DEF Knowing
<1>5. GoProject(tree, known, count) = [end EXCEPT !.bindings = GoSources(tree)]
  BY DEF GoProject, GoEnd
<1> HIDE DEF visits, first, end
<1>6. ASSUME NEW s \in SUBSET S, s # {}
      PROVE  /\ pick[s] \in s
             /\ Visited(f[s \ {pick[s]}], f[s], tree, visits[pick[s]], {})
  <2>1. Max(s) \in s /\ f[s] = GoVisit(f[s \ {Max(s)}], visits[Max(s)]) /\ f[s \ {Max(s)}] \in V
    BY <1>1, <1>6
  <2>2. visits[Max(s)] \in DOMAIN tree
    BY <1>2, <2>1
  <2>3. Visited(f[s \ {Max(s)}], GoVisit(f[s \ {Max(s)}], visits[Max(s)]), tree, visits[Max(s)], {})
    BY <1>4, <2>1, <2>2, GoTells
  <2>4. pick[s] = Max(s)
    OBVIOUS
  <2> HIDE DEF pick
  <2> QED BY <2>1, <2>3, <2>4
<1> HIDE DEF pick
<1>7. Visiting(f, S, pick, tree, visits, FALSE)
  BY <1>1, <1>2, <1>3, <1>6 DEF Visiting
<1> HIDE DEF S
<1>8. Wrote(first, end, tree, PlacesAt(visits, S), {})
  <2> DEFINE binds == FALSE
  <2>1. binds \in BOOLEAN /\ Visiting(f, S, pick, tree, visits, binds)
    BY <1>7
  <2> HIDE DEF binds
  <2>2. Wrote(f[{}], f[S], tree, PlacesAt(visits, S), IF binds THEN SourcesIn(tree, PlacesAt(visits, S)) ELSE {})
    BY <1>2, <2>1, LoopWrites
  <2> QED BY <1>1, <2>2 DEF binds
<1>9. end \in AllRuns(DOMAIN tree)
  <2>1. end \in V
    BY <1>1
  <2> QED BY <2>1 DEF Runs
<1> DEFINE run == GoProject(tree, known, count)
<1>10. run.ok = end.ok /\ run.event = end.event /\ run.bindings = GoSources(tree)
  BY <1>5, <1>9 DEF AllRuns
<1> HIDE DEF run
<1>11. end.ok /\ Covers(visits, tree)
  BY <1>10 DEF run, visits
<1>12. Told(end.event, tree)
  BY <1>2, <1>8, <1>11, CoveringTells DEF S
<1>13. Complete(run, tree)
  BY <1>10, <1>12 DEF Complete
<1> QED BY <1>13 DEF run

(* A projection in Python that succeeds is complete.                       *)
LEMMA PythonComplete ==
  ASSUME GivenInv, NEW tree \in Trees, Covers(Visits(tree, FALSE), tree),
         NEW count, NEW none, none = <<>>, Knowing(none, count), PythonProject(tree, count).ok
  PROVE  Complete(PythonProject(tree, count), tree)
<1> DEFINE visits == Visits(tree, FALSE)
           S      == DOMAIN visits
           first  == Projection(tree, none, count)
           end    == PythonEnd(tree, none, count)
           pick   == [s \in SUBSET S |-> Max(s)]
           V      == Runs(tree, PlaceAt(tree), none, count)
<1>0. PICK f : PythonSteps(f, tree, none, count)
  BY PythonLoop
<1>1. /\ end = f[S] /\ f[{}] = first
      /\ \A s \in SUBSET S :
           /\ f[s] \in V
           /\ s # {} => Max(s) \in s /\ f[s] = PythonVisit(f[s \ {Max(s)}], visits[Max(s)])
  BY <1>0 DEF PythonSteps
<1>2. IsFiniteSet(S) /\ \A k \in S : visits[k] \in DOMAIN tree
  BY VisitsInTurn
<1>3. first.event = tree /\ first.bindings = {}
  BY DEF Projection
<1>4. count \in Nat
  BY DEF Knowing
<1>5. PythonProject(tree, count) = end
  BY DEF PythonProject, PythonEnd
<1> HIDE DEF visits, first, end
<1>6. ASSUME NEW s \in SUBSET S, s # {}
      PROVE  /\ pick[s] \in s
             /\ Visited(f[s \ {pick[s]}], f[s], tree, visits[pick[s]], SourcesIn(tree, {visits[pick[s]]}))
  <2>1. Max(s) \in s /\ f[s] = PythonVisit(f[s \ {Max(s)}], visits[Max(s)]) /\ f[s \ {Max(s)}] \in V
    BY <1>1, <1>6
  <2>2. visits[Max(s)] \in DOMAIN tree
    BY <1>2, <2>1
  <2>3. Visited(f[s \ {Max(s)}], PythonVisit(f[s \ {Max(s)}], visits[Max(s)]), tree, visits[Max(s)],
                SourcesIn(tree, {visits[Max(s)]}))
    BY <1>4, <2>1, <2>2, PythonTells
  <2>4. pick[s] = Max(s)
    OBVIOUS
  <2> HIDE DEF pick
  <2> QED BY <2>1, <2>3, <2>4
<1> HIDE DEF pick
<1>7. Visiting(f, S, pick, tree, visits, TRUE)
  BY <1>1, <1>2, <1>3, <1>6 DEF Visiting
<1> HIDE DEF S
<1>8. Wrote(first, end, tree, PlacesAt(visits, S), SourcesIn(tree, PlacesAt(visits, S)))
  <2> DEFINE binds == TRUE
  <2>1. binds \in BOOLEAN /\ Visiting(f, S, pick, tree, visits, binds)
    BY <1>7
  <2> HIDE DEF binds
  <2>2. Wrote(f[{}], f[S], tree, PlacesAt(visits, S), IF binds THEN SourcesIn(tree, PlacesAt(visits, S)) ELSE {})
    BY <1>2, <2>1, LoopWrites
  <2> QED BY <1>1, <2>2 DEF binds
<1>9. end.ok /\ Covers(visits, tree)
  BY <1>5 DEF visits
<1>10. Told(end.event, tree) /\ end.bindings = GoSources(tree)
  <2> DEFINE sources == SourcesIn(tree, PlacesAt(visits, DOMAIN visits))
  <2>1. Wrote(first, end, tree, PlacesAt(visits, DOMAIN visits), sources)
        /\ \A k \in DOMAIN visits : visits[k] \in DOMAIN tree
    BY <1>2, <1>8 DEF S
  <2>2. /\ Told(end.event, tree) /\ end.bindings = first.bindings \cup sources
        /\ sources = GoSources(tree)
    <3> HIDE DEF sources
    <3> USE DEF sources
    <3> QED BY <1>9, <2>1, CoveringTells
  <2> HIDE DEF sources
  <2> QED BY <1>3, <2>2
<1>11. Complete(end, tree)
  BY <1>10 DEF Complete
<1> QED BY <1>5, <1>11

(* A projection in TypeScript that succeeds is complete.                   *)
LEMMA TsComplete ==
  ASSUME GivenInv, NEW tree \in Trees, Covers(Visits(tree, TRUE), tree),
         NEW known, NEW count, Knowing(known, count), TsProject(tree, known, count).ok
  PROVE  Complete(TsProject(tree, known, count), tree)
<1> DEFINE visits == Visits(tree, TRUE)
           S      == DOMAIN visits
           first  == Projection(tree, known, count)
           end    == TsEnd(tree, known, count)
           pick   == [s \in SUBSET S |-> Max(s)]
           V      == Runs(tree, ObjectAt(tree), known, count)
<1>0. PICK f : TsSteps(f, tree, known, count)
  BY TsLoop
<1>1. /\ end = f[S] /\ f[{}] = first
      /\ \A s \in SUBSET S :
           /\ f[s] \in V
           /\ s # {} => Max(s) \in s /\ f[s] = TsVisit(f[s \ {Max(s)}], visits[Max(s)])
  BY <1>0 DEF TsSteps
<1>2. IsFiniteSet(S) /\ \A k \in S : visits[k] \in DOMAIN tree
  BY VisitsInTurn
<1>3. first.event = tree /\ first.bindings = {}
  BY DEF Projection
<1>4. count \in Nat
  BY DEF Knowing
<1>5. TsProject(tree, known, count) = end
  BY DEF TsProject, TsEnd
<1> HIDE DEF visits, first, end
<1>6. ASSUME NEW s \in SUBSET S, s # {}
      PROVE  /\ pick[s] \in s
             /\ Visited(f[s \ {pick[s]}], f[s], tree, visits[pick[s]], SourcesIn(tree, {visits[pick[s]]}))
  <2>1. Max(s) \in s /\ f[s] = TsVisit(f[s \ {Max(s)}], visits[Max(s)]) /\ f[s \ {Max(s)}] \in V
    BY <1>1, <1>6
  <2>2. visits[Max(s)] \in DOMAIN tree
    BY <1>2, <2>1
  <2>3. Visited(f[s \ {Max(s)}], TsVisit(f[s \ {Max(s)}], visits[Max(s)]), tree, visits[Max(s)],
                SourcesIn(tree, {visits[Max(s)]}))
    BY <1>4, <2>1, <2>2, TsTells
  <2>4. pick[s] = Max(s)
    OBVIOUS
  <2> HIDE DEF pick
  <2> QED BY <2>1, <2>3, <2>4
<1> HIDE DEF pick
<1>7. Visiting(f, S, pick, tree, visits, TRUE)
  BY <1>1, <1>2, <1>3, <1>6 DEF Visiting
<1> HIDE DEF S
<1>8. Wrote(first, end, tree, PlacesAt(visits, S), SourcesIn(tree, PlacesAt(visits, S)))
  <2> DEFINE binds == TRUE
  <2>1. binds \in BOOLEAN /\ Visiting(f, S, pick, tree, visits, binds)
    BY <1>7
  <2> HIDE DEF binds
  <2>2. Wrote(f[{}], f[S], tree, PlacesAt(visits, S), IF binds THEN SourcesIn(tree, PlacesAt(visits, S)) ELSE {})
    BY <1>2, <2>1, LoopWrites
  <2> QED BY <1>1, <2>2 DEF binds
<1>9. end.ok /\ Covers(visits, tree)
  BY <1>5 DEF visits
<1>10. Told(end.event, tree) /\ end.bindings = GoSources(tree)
  <2> DEFINE sources == SourcesIn(tree, PlacesAt(visits, DOMAIN visits))
  <2>1. Wrote(first, end, tree, PlacesAt(visits, DOMAIN visits), sources)
        /\ \A k \in DOMAIN visits : visits[k] \in DOMAIN tree
    BY <1>2, <1>8 DEF S
  <2>2. /\ Told(end.event, tree) /\ end.bindings = first.bindings \cup sources
        /\ sources = GoSources(tree)
    <3> HIDE DEF sources
    <3> USE DEF sources
    <3> QED BY <1>9, <2>1, CoveringTells
  <2> HIDE DEF sources
  <2> QED BY <1>3, <2>2
<1>11. Complete(end, tree)
  BY <1>10 DEF Complete
<1> QED BY <1>5, <1>11

(* Every host value of a tree is at a slot.                                *)
HostsAtSlots(tree) ==
  \A p \in DOMAIN tree : IsHost(tree[p]) => \E s \in plan.slots : AtSlot(p, s.path, DOMAIN tree)

(* What replaces is there as it is, what is not below its path stays, and  *)
(* a parent that was missing is a record.                                  *)
ReplacedBy(r, t, at, nodes) ==
  /\ DOMAIN r = DOMAIN nodes \cup (Parents(at) \ DOMAIN t) \cup {q \in DOMAIN t : ~ Starts(q, at)}
  /\ \A p \in DOMAIN nodes : r[p] = nodes[p]
  /\ \A p \in DOMAIN t \ DOMAIN nodes : ~ Starts(p, at) => r[p] = t[p]
  /\ \A p \in Parents(at) \ (DOMAIN t \cup DOMAIN nodes) : r[p] = Record

(* That is what replacing does, whatever is put in and whatever was there. *)
LEMMA ReplacedAt ==
  ASSUME NEW t, NEW at, NEW nodes
  PROVE  ReplacedBy(Replaced(t, at, nodes), t, at, nodes)
<1> DEFINE cut == Cut(t, at)
           parents == [p \in Parents(at) \ DOMAIN t |-> Record]
           under == Over(parents, cut)
           v == Over(nodes, under)
<1>1. DOMAIN cut = {q \in DOMAIN t : ~ Starts(q, at)} /\ \A p \in DOMAIN cut : cut[p] = t[p]
  BY DEF Cut
<1>2. DOMAIN parents = Parents(at) \ DOMAIN t /\ \A p \in DOMAIN parents : parents[p] = Record
  OBVIOUS
<1>5. Replaced(t, at, nodes) = v
  BY DEF Replaced
<1> HIDE DEF cut, parents
<1>3. /\ DOMAIN under = DOMAIN parents \cup DOMAIN cut
      /\ \A p \in DOMAIN under : under[p] = IF p \in DOMAIN parents THEN parents[p] ELSE cut[p]
  BY DEF Over
<1> HIDE DEF under
<1>4. /\ DOMAIN v = DOMAIN nodes \cup DOMAIN under
      /\ \A p \in DOMAIN v : v[p] = IF p \in DOMAIN nodes THEN nodes[p] ELSE under[p]
  BY DEF Over
<1> HIDE DEF v
<1>6. DOMAIN v = DOMAIN nodes \cup (Parents(at) \ DOMAIN t) \cup {q \in DOMAIN t : ~ Starts(q, at)}
  BY <1>1, <1>2, <1>3, <1>4
<1>7. \A p \in DOMAIN nodes : v[p] = nodes[p]
  BY <1>4
<1>8. ASSUME NEW p \in DOMAIN t \ DOMAIN nodes, ~ Starts(p, at) PROVE v[p] = t[p]
  BY <1>1, <1>2, <1>3, <1>4, <1>8
<1>9. ASSUME NEW p \in Parents(at) \ (DOMAIN t \cup DOMAIN nodes) PROVE v[p] = Record
  BY <1>2, <1>3, <1>4, <1>9
<1>10. ReplacedBy(v, t, at, nodes)
  BY <1>6, <1>7, <1>8, <1>9 DEF ReplacedBy
<1> QED BY <1>5, <1>10


(* A path starts with itself, and a longer path with what it starts with.  *)
LEMMA StartsFacts ==
  ASSUME NEW p \in Paths
  PROVE  /\ Starts(p, p)
         /\ \A q \in Paths, r \in Paths : Starts(p, q) /\ Starts(q, r) => Starts(p, r)
<1>1. Len(p) \in Nat
  BY DEF Paths
<1>2. Starts(p, p)
  BY <1>1, PrefixFacts DEF Starts
<1>3. ASSUME NEW q \in Paths, NEW r \in Paths, Starts(p, q), Starts(q, r) PROVE Starts(p, r)
  <2>1. Len(q) \in Nat /\ Len(r) \in Nat
    BY DEF Paths
  <2>2. Len(q) <= Len(p) /\ \A i \in 1..Len(q) : q[i] = p[i]
    BY <1>3, PrefixFacts DEF Starts
  <2>3. Len(r) <= Len(q) /\ \A i \in 1..Len(r) : r[i] = q[i]
    BY <1>3, PrefixFacts DEF Starts
  <2>4. Len(r) <= Len(p) /\ \A i \in 1..Len(r) : r[i] = p[i]
    BY <1>1, <2>1, <2>2, <2>3
  <2> QED BY <2>4, PrefixFacts DEF Starts
<1> QED BY <1>2, <1>3

(* A path with one more word starts with the path.                         *)
LEMMA AppendStarts ==
  ASSUME NEW at \in Paths, NEW x \in Words
  PROVE  /\ Append(at, x) \in Paths /\ Starts(Append(at, x), at)
         /\ Len(Append(at, x)) = Len(at) + 1 /\ Append(at, x)[Len(at) + 1] = x
         /\ \A i \in 1..Len(at) : Append(at, x)[i] = at[i]
<1> DEFINE p == Append(at, x)
<1>1. Len(at) \in Nat /\ p \in Paths /\ Len(p) = Len(at) + 1 /\ p[Len(at) + 1] = x
      /\ \A i \in 1..Len(at) : p[i] = at[i]
  BY DEF Paths
<1> HIDE DEF p
<1>2. IsPrefix(at, p)
  BY <1>1, PrefixFacts
<1> QED BY <1>1, <1>2 DEF Starts, p

(* The part of a message is at the slot of its parts, and is the message's *)
(* own.                                                                    *)
LEMMA PartAtSlot ==
  ASSUME GivenInv, NEW at \in Paths, NEW s \in plan.slots, InMessages(s.path), Matches(at, PlacesOf(s.path)),
         NEW i \in 1..Len(Indices)
  PROVE  LET p == Append(Append(at, "parts"), Indices[i])
         IN  p \in Paths /\ Starts(p, at) /\ Matches(p, s.path) /\ Front(Front(p)) = at
<1> DEFINE slot == s.path
           x    == Front(Front(slot))
           w    == Append(at, "parts")
           p    == Append(w, Indices[i])
           m    == Front(Front(p))
<1>1. slot \in Paths /\ Last(slot) = "*"
  BY GivenFacts DEF Planned
<1>2. Len(slot) \in Nat /\ Len(slot) > 1 /\ slot[Len(slot) - 1] = "parts" /\ slot[Len(slot)] = "*"
      /\ DOMAIN slot = 1..Len(slot)
  BY <1>1 DEF InMessages, Last, Paths
<1>3. Matches(at, x)
  BY DEF PlacesOf
<1> HIDE DEF slot
<1>4. /\ x \in Paths /\ Len(x) = Len(slot) - 2
      /\ \A j \in 1..(Len(slot) - 2) : x[j] = slot[j]
  BY <1>1, <1>2, OwnMessage
<1> HIDE DEF x
<1>5. /\ Len(at) = Len(slot) - 2 /\ Len(at) \in Nat
      /\ \A j \in 1..Len(at) : IF slot[j] = "*" THEN at[j] \in ToSet(Indices) ELSE at[j] = slot[j]
  <2>1. DOMAIN x = 1..Len(x) /\ Len(at) \in Nat
    BY <1>4 DEF Paths
  <2> QED BY <1>3, <1>4, <2>1 DEF Matches
<1>6. /\ w \in Paths /\ Starts(w, at) /\ Len(w) = Len(at) + 1 /\ w[Len(at) + 1] = "parts"
      /\ \A j \in 1..Len(at) : w[j] = at[j]
  BY IndicesAssumption, AppendStarts
<1>7. Indices[i] \in Words /\ Indices[i] \in ToSet(Indices)
  BY RankFacts DEF ToSet
<1> HIDE DEF w
<1>8. /\ p \in Paths /\ Starts(p, w) /\ Len(p) = Len(w) + 1 /\ p[Len(w) + 1] = Indices[i]
      /\ \A j \in 1..Len(w) : p[j] = w[j]
  BY <1>6, <1>7, AppendStarts
<1> HIDE DEF p
<1>9. Starts(p, at)
  BY <1>6, <1>8, StartsFacts
<1>10. Len(p) = Len(slot) /\ Len(p) = Len(at) + 2 /\ p[Len(at) + 2] = Indices[i] /\ p[Len(at) + 1] = "parts"
       /\ \A j \in 1..Len(at) : p[j] = at[j]
  BY <1>5, <1>6, <1>8
<1>11. Matches(p, slot)
  <2>1. ASSUME NEW j \in 1..Len(slot)
        PROVE  IF slot[j] = "*" THEN p[j] \in ToSet(Indices) ELSE p[j] = slot[j]
    <3>1. j \in 1..Len(at) \/ j = Len(slot) - 1 \/ j = Len(slot)
      BY <1>2, <1>5
    <3>2. CASE j \in 1..Len(at)
      BY <1>5, <1>10, <3>2
    <3>3. CASE j = Len(slot) - 1
      <4>1. p[j] = "parts" /\ slot[j] = "parts"
        BY <1>2, <1>5, <1>10, <3>3
      <4> QED BY <4>1
    <3>4. CASE j = Len(slot)
      <4>1. p[j] = Indices[i] /\ slot[j] = "*"
        BY <1>2, <1>5, <1>10, <3>4
      <4> QED BY <1>7, <4>1
    <3> QED BY <3>1, <3>2, <3>3, <3>4
  <2> QED BY <1>2, <1>10, <2>1 DEF Matches
<1>12. m = at
  <2>1. m \in Paths /\ Len(m) = Len(p) - 2 /\ \A j \in 1..(Len(p) - 2) : m[j] = p[j]
    BY <1>5, <1>8, <1>10, OwnMessage
  <2> HIDE DEF m
  <2>2. Len(m) = Len(at) /\ \A j \in 1..Len(m) : m[j] = at[j]
    BY <1>5, <1>10, <2>1
  <2>3. m \in Seq(Words) /\ at \in Seq(Words)
    BY <2>1 DEF Paths
  <2> QED BY <2>2, <2>3, SeqEqual
<1> QED BY <1>8, <1>9, <1>11, <1>12 DEF m, p, w, slot

(* The nodes of a value put at a slot start at its place, and are at the   *)
(* slot themselves.                                                        *)
NodesAtSlot(nodes, at, slot) ==
  \A p \in DOMAIN nodes : /\ p \in Paths /\ Starts(p, at)
                          /\ IsHost(nodes[p]) => AtSlot(p, slot, DOMAIN nodes)

(* The nodes of an object that a setter puts in place are at its slot.     *)
LEMMA NodesOfAtSlot ==
  ASSUME GivenInv, NEW at \in Paths, NEW o \in DOMAIN host \cup {Nil},
         NEW s \in plan.slots, Matches(at, PlacesOf(s.path)),
         o # Nil /\ host[o].is = "message" => InMessages(s.path)
  PROVE  NodesAtSlot(NodesOf(at, o), at, s.path)
<1> DEFINE parts  == PartsOf(o)
           within == Append(at, "parts")
           nodes  == NodesOf(at, o)
           D == {at} \cup (IF parts = None THEN {} ELSE {within} \cup Items(within, parts))
<1>1. /\ DOMAIN nodes = D
      /\ \A p \in D : nodes[p] = IF p = at THEN Hosted(o) ELSE IF p = within THEN List
                                 ELSE Hosted(parts[RankOf(Last(p))])
  BY DEF NodesOf
<1>2. within \in Paths /\ Starts(within, at)
  BY IndicesAssumption, AppendStarts
<1>3. Starts(at, at)
  BY StartsFacts
<1>4. AtSlot(at, s.path, D)
  BY DEF AtSlot, PlacesOf
<1>5. CASE parts = None
  <2>1. D = {at}
    BY <1>5
  <2> HIDE DEF nodes, D
  <2> QED BY <1>1, <1>3, <1>4, <2>1 DEF NodesAtSlot, nodes
<1>6. CASE parts # None
  <2>1. o # Nil /\ host[o].is = "message"
    BY <1>6 DEF PartsOf
  <2>2. InMessages(s.path)
    BY <2>1
  <2>3. Len(parts) \in 0..Len(Indices) /\ DOMAIN parts = 1..Len(parts) /\ Len(Indices) \in Nat
    BY <1>6, PartsFacts, IndicesAssumption DEF Paths
  <2>4. D = {at, within} \cup Items(within, parts)
    BY <1>6
  <2> HIDE DEF parts, nodes, D
  <2>5. ASSUME NEW p \in D
        PROVE  /\ p \in Paths /\ Starts(p, at)
               /\ IsHost(nodes[p]) => AtSlot(p, s.path, D)
    <3>1. CASE p = at
      BY <1>3, <1>4, <3>1
    <3>2. CASE p # at /\ p = within
      <4>1. nodes[p] = List
        BY <1>1, <3>2
      <4>2. ~ IsHost(nodes[p])
        BY <4>1 DEF List, IsHost
      <4> QED BY <1>2, <3>2, <4>2
    <3>3. CASE p \notin {at, within}
      <4>1. PICK i \in DOMAIN parts : p = Append(within, Indices[i])
        BY <2>4, <3>3 DEF Items
      <4>2. i \in 1..Len(Indices)
        BY <2>3
      <4>3. p \in Paths /\ Starts(p, at) /\ Matches(p, s.path) /\ Front(Front(p)) = at
        BY <2>2, <4>1, <4>2, PartAtSlot
      <4>4. at \in D
        BY <2>4
      <4>5. AtSlot(p, s.path, D)
        BY <2>2, <4>3, <4>4 DEF AtSlot
      <4> QED BY <4>3, <4>5
    <3> QED BY <3>1, <3>2, <3>3
  <2>6. NodesAtSlot(nodes, at, s.path)
    BY <1>1, <2>5 DEF NodesAtSlot
  <2> QED BY <2>6 DEF nodes
<1> QED BY <1>5, <1>6

(* Every call of a setter places its nodes at one of the slots.            *)
LEMMA PlacedAtSlot ==
  ASSUME GivenInv, NEW k \in DOMAIN placed
  PROVE  \E s \in plan.slots : NodesAtSlot(NodesPlaced(placed[k]), placed[k].at, s.path)
<1> DEFINE call == placed[k]
           nodes == NodesPlaced(call)
           item(i) == Append(call.at, Indices[i])
           Item(i) == NodesOf(item(i), call.put[i])
<1>1. Callable(call, host, plan.slots)
  BY GivenFacts
<1> HIDE DEF call
<1>2. /\ call.at \in Paths /\ call.many \in BOOLEAN /\ call.put \in Seq(DOMAIN host \cup {Nil})
      /\ Len(call.put) <= Len(Indices) /\ (~ call.many => call.put # <<>>)
  BY <1>1 DEF Callable, Listed
<1>3. Len(Indices) \in Nat /\ Len(call.put) \in Nat /\ DOMAIN call.put = 1..Len(call.put)
      /\ \A i \in DOMAIN call.put : call.put[i] \in DOMAIN host \cup {Nil}
  BY <1>2, IndicesAssumption DEF Paths
<1>4. PICK s \in plan.slots : \A i \in DOMAIN call.put :
        /\ Matches(IF call.many THEN item(i) ELSE call.at, PlacesOf(s.path))
        /\ call.put[i] # Nil /\ host[call.put[i]].is = "message" => InMessages(s.path)
  BY <1>1 DEF Callable
<1>5. CASE ~ call.many
  <2>1. 1 \in DOMAIN call.put
    BY <1>2, <1>3, <1>5
  <2>2. Matches(call.at, PlacesOf(s.path)) /\ (call.put[1] # Nil /\ host[call.put[1]].is = "message" => InMessages(s.path))
    BY <1>4, <1>5, <2>1
  <2>3. NodesAtSlot(NodesOf(call.at, call.put[1]), call.at, s.path)
    BY <1>2, <1>3, <2>1, <2>2, NodesOfAtSlot
  <2>4. nodes = NodesOf(call.at, call.put[1])
    BY <1>5 DEF NodesPlaced
  <2>5. NodesAtSlot(nodes, call.at, s.path)
    BY <2>3, <2>4
  <2> QED BY <2>5 DEF call
<1>6. CASE call.many
  <2>1. ASSUME NEW i \in DOMAIN call.put
        PROVE  /\ item(i) \in Paths /\ Starts(item(i), call.at)
               /\ RankOf(Indices[i]) = i /\ item(i)[Len(call.at) + 1] = Indices[i] /\ Len(item(i)) = Len(call.at) + 1
               /\ NodesAtSlot(Item(i), item(i), s.path)
    <3>1. i \in 1..Len(Indices)
      BY <1>2, <1>3, <2>1
    <3>2. Indices[i] \in Words /\ RankOf(Indices[i]) = i
      BY <3>1, RankFacts
    <3>3. item(i) \in Paths /\ Starts(item(i), call.at)
          /\ item(i)[Len(call.at) + 1] = Indices[i] /\ Len(item(i)) = Len(call.at) + 1
      BY <1>2, <3>2, AppendStarts
    <3>4. Matches(item(i), PlacesOf(s.path)) /\ (call.put[i] # Nil /\ host[call.put[i]].is = "message" => InMessages(s.path))
      BY <1>4, <1>6
    <3> HIDE DEF item
    <3>5. NodesAtSlot(Item(i), item(i), s.path)
      BY <1>3, <3>3, <3>4, NodesOfAtSlot
    <3> QED BY <3>2, <3>3, <3>5
  <2> DEFINE D == {call.at} \cup UNION {DOMAIN Item(i) : i \in DOMAIN call.put}
             ItemAt(p) == Item(RankOf(p[Len(call.at) + 1]))
  <2>3. DOMAIN nodes = D /\ \A p \in D : nodes[p] = IF p = call.at THEN List ELSE ItemAt(p)[p]
    BY <1>6 DEF NodesPlaced
  <2> HIDE DEF Item, nodes
  <2>4. ASSUME NEW p \in D
        PROVE  /\ p \in Paths /\ Starts(p, call.at)
               /\ IsHost(nodes[p]) => AtSlot(p, s.path, D)
    <3>1. CASE p = call.at
      <4>1. nodes[p] = List
        BY <2>3, <3>1
      <4>2. ~ IsHost(nodes[p])
        BY <4>1 DEF List, IsHost
      <4> QED BY <1>2, <3>1, <4>2, StartsFacts
    <3>2. CASE p # call.at
      <4>1. PICK i \in DOMAIN call.put : p \in DOMAIN Item(i)
        BY <3>2
      <4>2. p \in Paths /\ Starts(p, item(i)) /\ (IsHost(Item(i)[p]) => AtSlot(p, s.path, DOMAIN Item(i)))
        BY <2>1, <4>1 DEF NodesAtSlot
      <4> HIDE DEF item
      <4>3. Starts(p, call.at)
        BY <1>2, <2>1, <4>2, StartsFacts
      <4>4. p[Len(call.at) + 1] = Indices[i]
        <5>1. Len(item(i)) <= Len(p) /\ \A j \in 1..Len(item(i)) : item(i)[j] = p[j]
          BY <2>1, <4>2, PrefixFacts DEF Starts
        <5>2. Len(call.at) + 1 \in 1..Len(item(i))
          BY <1>2, <2>1 DEF Paths
        <5> QED BY <2>1, <5>1, <5>2
      <4>5. nodes[p] = Item(i)[p]
        BY <2>1, <2>3, <3>2, <4>4
      <4>6. DOMAIN Item(i) \subseteq D
        OBVIOUS
      <4>7. AtSlot(p, s.path, DOMAIN Item(i)) => AtSlot(p, s.path, D)
        BY <4>6 DEF AtSlot
      <4> QED BY <4>2, <4>3, <4>5, <4>7
    <3> QED BY <3>1, <3>2
  <2> HIDE DEF D
  <2>5. NodesAtSlot(nodes, call.at, s.path)
    BY <2>3, <2>4 DEF NodesAtSlot
  <2> QED BY <2>5 DEF call, nodes
<1> QED BY <1>2, <1>5, <1>6

(* Replacing what is at and below a place leaves host values at slots.     *)
LEMMA ReplacedAtSlots ==
  ASSUME NEW tree, DOMAIN tree \subseteq Paths, HostsAtSlots(tree), NEW at \in Paths, NEW nodes,
         NEW s \in plan.slots, s.path \in Paths, NodesAtSlot(nodes, at, s.path)
  PROVE  HostsAtSlots(Replaced(tree, at, nodes))
<1> DEFINE r == Replaced(tree, at, nodes)
<1>0. ReplacedBy(r, tree, at, nodes)
  BY ReplacedAt
<1> HIDE DEF r
<1>1. /\ DOMAIN r = DOMAIN nodes \cup (Parents(at) \ DOMAIN tree) \cup {q \in DOMAIN tree : ~ Starts(q, at)}
      /\ \A p \in DOMAIN nodes : r[p] = nodes[p]
      /\ \A p \in DOMAIN tree \ DOMAIN nodes : ~ Starts(p, at) => r[p] = tree[p]
      /\ \A p \in Parents(at) \ (DOMAIN tree \cup DOMAIN nodes) : r[p] = Record
  BY <1>0 DEF ReplacedBy
<1>2. ASSUME NEW p \in DOMAIN r, IsHost(r[p])
      PROVE  \E x \in plan.slots : AtSlot(p, x.path, DOMAIN r)
  <2>1. CASE p \in DOMAIN nodes
    <3>1. AtSlot(p, s.path, DOMAIN nodes)
      BY <1>1, <1>2, <2>1 DEF NodesAtSlot
    <3>2. AtSlot(p, s.path, DOMAIN r)
      BY <1>1, <3>1 DEF AtSlot
    <3> QED BY <3>2
  <2>2. CASE p \notin DOMAIN nodes /\ p \notin DOMAIN tree
    <3>1. r[p] = Record
      BY <1>1, <1>2, <2>2
    <3> QED BY <1>2, <3>1 DEF IsHost, Record
  <2>3. CASE p \notin DOMAIN nodes /\ p \in DOMAIN tree
    <3>1. ~ Starts(p, at) /\ r[p] = tree[p]
      BY <1>1, <1>2, <2>3
    <3>2. PICK x \in plan.slots : AtSlot(p, x.path, DOMAIN tree)
      BY <1>2, <2>3, <3>1 DEF HostsAtSlots
    <3>3. CASE InMessages(x.path) /\ Matches(p, x.path) /\ Front(Front(p)) \in DOMAIN tree
      <4> DEFINE m == Front(Front(p))
      <4>1. p \in Paths /\ m \in Paths
        BY <2>3, <3>3
      <4>2. Starts(p, m)
        <5>1. Len(p) > 1
          BY <3>3 DEF Matches, InMessages
        <5> QED BY <4>1, <5>1, OwnMessage
      <4> HIDE DEF m
      <4>3. ~ Starts(m, at)
        BY <3>1, <4>1, <4>2, StartsFacts
      <4>4. m \in DOMAIN r
        BY <1>1, <3>3, <4>3 DEF m
      <4> QED BY <3>3, <4>4 DEF AtSlot, m
    <3>4. CASE ~ (InMessages(x.path) /\ Matches(p, x.path) /\ Front(Front(p)) \in DOMAIN tree)
      BY <3>2, <3>4 DEF AtSlot
    <3> QED BY <3>3, <3>4
  <2> QED BY <2>1, <2>2, <2>3
<1>3. HostsAtSlots(r)
  BY <1>2 DEF HostsAtSlots
<1> QED BY <1>3 DEF r

(* What an application means has its host values at slots.                 *)
LEMMA MeantAtSlots ==
  ASSUME GivenInv
  PROVE  HostsAtSlots(Meant)
<1> DEFINE S == DOMAIN placed
           V == {t \in Trees : HostsAtSlots(t)}
           pick == [s \in SUBSET S |-> Max(s)]
<1>0. PICK f : MeantSteps(f)
  BY MeantLoop
<1>1. /\ Meant = f[S] /\ f[{}] = Assembled(base)
      /\ \A s \in SUBSET S :
           /\ f[s] \in Trees
           /\ s # {} => /\ Max(s) \in s
                        /\ f[s] = Replaced(f[s \ {Max(s)}], placed[Max(s)].at, NodesPlaced(placed[Max(s)]))
  BY <1>0 DEF MeantSteps
<1>2. IsFiniteSet(S)
  <2>1. Len(placed) \in Nat /\ S = 1..Len(placed)
    BY DEF GivenInv
  <2> QED BY <2>1, UpToFinite
<1>3. f[{}] \in V
  <2>1. HostsAtSlots(Assembled(base))
    BY AssembledFacts DEF HostsAtSlots
  <2> QED BY <1>1, <2>1, AssembledFacts
<1>4. ASSUME NEW s \in SUBSET S, s # {}
      PROVE  pick[s] \in s /\ (f[s \ {pick[s]}] \in V => f[s] \in V)
  <2> DEFINE k == Max(s)
             t == f[s \ {k}]
  <2>1. k \in s /\ k \in S /\ t \in Trees /\ f[s] \in Trees /\ pick[s] = k
        /\ f[s] = Replaced(t, placed[k].at, NodesPlaced(placed[k]))
    BY <1>1, <1>4
  <2> HIDE DEF pick, k, t
  <2>2. ASSUME HostsAtSlots(t) PROVE HostsAtSlots(f[s])
    <3>1. DOMAIN t \subseteq Paths
      BY <2>1, TreesAreTrees DEF Tree
    <3>2. placed[k].at \in Paths
      BY <2>1, NodesPlacedFacts
    <3>3. PICK x \in plan.slots : NodesAtSlot(NodesPlaced(placed[k]), placed[k].at, x.path)
      BY <2>1, PlacedAtSlot
    <3>4. x.path \in Paths
      BY GivenFacts DEF Planned
    <3>5. HostsAtSlots(Replaced(t, placed[k].at, NodesPlaced(placed[k])))
      BY <2>2, <3>1, <3>2, <3>3, <3>4, ReplacedAtSlots
    <3> QED BY <2>1, <3>5
  <2> QED BY <2>1, <2>2 DEF t
<1> HIDE DEF pick, S, V
<1>5. Staying(f, S, V, pick)
  BY <1>3, <1>4 DEF Staying
<1>6. f[S] \in V
  BY <1>2, <1>5, LoopStays
<1> QED BY <1>1, <1>6 DEF V, S

(* The visits of what an application means come to all its host values.    *)
LEMMA MeantCovered ==
  ASSUME GivenInv, NEW b \in BOOLEAN
  PROVE  Covers(Visits(Meant, b), Meant)
<1> DEFINE tree == Meant
<1>1. tree \in Trees /\ HostsAtSlots(tree)
  BY MeantFacts, MeantAtSlots
<1> HIDE DEF tree
<1>2. \A p \in DOMAIN tree, s \in plan.slots : AtSlot(p, s.path, DOMAIN tree) => ComesTo(Visits(tree, b), p)
  BY <1>1, VisitsFacts
<1>3. Covers(Visits(tree, b), tree)
  BY <1>1, <1>2 DEF HostsAtSlots, Covers, ComesTo
<1> QED BY <1>3 DEF tree

(* Building the values of one call, where it does not fail, has written    *)
(* them all and bound their sources.                                       *)
LEMMA RustBuiltTells ==
  ASSUME GivenInv, NEW k \in DOMAIN placed,
         NEW first \in RustRunsOn(DOMAIN NodesPlaced(placed[k])), first.event = NodesPlaced(placed[k]),
         RustBuilt(first, k).ok
  PROVE  /\ Told(RustBuilt(first, k).event, NodesPlaced(placed[k]))
         /\ RustBuilt(first, k).bindings = first.bindings \cup GoSources(NodesPlaced(placed[k]))
<1> DEFINE S     == Built(k)
           nodes == NodesPlaced(placed[k])
           end   == RustBuilt(first, k)
           at    == [p \in S |-> p]
           pick  == [s \in SUBSET S |-> CHOOSE x \in s : TRUE]
           V     == RustRunsOn(DOMAIN nodes)
<1>0. PICK f : BuildSteps(f, first, k)
  BY RustBuildLoop
<1>1. /\ end = f[S] /\ f[{}] = first
      /\ \A s \in SUBSET S :
           /\ f[s] \in V
           /\ s # {} => /\ (CHOOSE x \in s : TRUE) \in s
                        /\ f[s] = RustVisit(f[s \ {CHOOSE x \in s : TRUE}], k, CHOOSE x \in s : TRUE)
  BY <1>0 DEF BuildSteps
<1>2. IsFiniteSet(S) /\ S \subseteq DOMAIN nodes
  BY BuiltFacts
<1>3. \A p \in S : at[p] = p
  OBVIOUS
<1>4. PlacesAt(at, S) = S
  BY DEF PlacesAt
<1> HIDE DEF at, end
<1>5. ASSUME NEW s \in SUBSET S, s # {}
      PROVE  /\ pick[s] \in s
             /\ Visited(f[s \ {pick[s]}], f[s], nodes, at[pick[s]], SourcesIn(nodes, {at[pick[s]]}))
  <2> DEFINE x == CHOOSE x \in s : TRUE
  <2>1. x \in s /\ x \in S /\ f[s] = RustVisit(f[s \ {x}], k, x) /\ f[s \ {x}] \in V
    BY <1>1, <1>5
  <2>2. pick[s] = x
    OBVIOUS
  <2> HIDE DEF x, pick, S
  <2>3. Visited(f[s \ {x}], RustVisit(f[s \ {x}], k, x), nodes, x, SourcesIn(nodes, {x}))
    BY <2>1, RustTells DEF S
  <2>4. at[x] = x
    BY <1>3, <2>1
  <2> HIDE DEF nodes
  <2> QED BY <2>1, <2>2, <2>3, <2>4
<1> HIDE DEF pick
<1>6. Visiting(f, S, pick, nodes, at, TRUE)
  <2>1. f[{}].event = nodes /\ \A x \in S : at[x] \in DOMAIN nodes
    BY <1>1, <1>2, <1>3
  <2> HIDE DEF nodes, S
  <2> QED BY <1>5, <2>1 DEF Visiting
<1> HIDE DEF S, nodes
<1>7. Wrote(first, end, nodes, S, SourcesIn(nodes, S))
  <2> DEFINE binds == TRUE
  <2>1. binds \in BOOLEAN /\ Visiting(f, S, pick, nodes, at, binds)
    BY <1>6
  <2> HIDE DEF binds
  <2>2. Wrote(f[{}], f[S], nodes, PlacesAt(at, S), IF binds THEN SourcesIn(nodes, PlacesAt(at, S)) ELSE {})
    BY <1>2, <2>1, LoopWrites
  <2> QED BY <1>1, <1>4, <2>2 DEF binds
<1>8. /\ DOMAIN end.event = DOMAIN nodes
      /\ \A p \in S : IsHost(nodes[p]) /\ Tells(end.event[p], host[nodes[p].object])
      /\ \A p \in DOMAIN nodes \ S : end.event[p] = nodes[p]
      /\ end.bindings = first.bindings \cup SourcesIn(nodes, S)
  BY <1>7 DEF Wrote, end
<1>9. S = {p \in DOMAIN nodes : IsHost(nodes[p])}
  BY DEF S, nodes, Built
<1>10. Told(end.event, nodes)
  BY <1>8, <1>9 DEF Told
<1>11. SourcesIn(nodes, S) = GoSources(nodes)
  <2>1. {p \in S : IsHost(nodes[p]) /\ host[nodes[p].object].is = "part" /\ Owned(host[nodes[p].object])}
          = {p \in DOMAIN nodes : IsHost(nodes[p]) /\ host[nodes[p].object].is = "part" /\ Owned(host[nodes[p].object])}
    BY <1>9
  <2> QED BY <2>1 DEF SourcesIn, GoSources
<1> QED BY <1>8, <1>10, <1>11 DEF end, nodes

(* What was told of a tree and of what replaces is told of the replaced    *)
(* tree.                                                                   *)
LEMMA ToldReplaced ==
  ASSUME NEW t, NEW at, NEW nodes, NEW told, NEW built, Told(told, t), Told(built, nodes)
  PROVE  Told(Replaced(told, at, built), Replaced(t, at, nodes))
<1> DEFINE r == Replaced(t, at, nodes)
           w == Replaced(told, at, built)
<1>1. ReplacedBy(r, t, at, nodes) /\ ReplacedBy(w, told, at, built)
  BY ReplacedAt
<1> HIDE DEF r, w
<1>2. /\ DOMAIN told = DOMAIN t /\ DOMAIN built = DOMAIN nodes
      /\ \A p \in DOMAIN t : IF IsHost(t[p]) THEN Tells(told[p], host[t[p].object]) ELSE told[p] = t[p]
      /\ \A p \in DOMAIN nodes : IF IsHost(nodes[p]) THEN Tells(built[p], host[nodes[p].object]) ELSE built[p] = nodes[p]
  BY DEF Told
<1>3. DOMAIN w = DOMAIN r
  BY <1>1, <1>2 DEF ReplacedBy
<1>4. ASSUME NEW p \in DOMAIN r
      PROVE  IF IsHost(r[p]) THEN Tells(w[p], host[r[p].object]) ELSE w[p] = r[p]
  <2>1. CASE p \in DOMAIN nodes
    <3>1. r[p] = nodes[p] /\ w[p] = built[p]
      BY <1>1, <1>2, <2>1 DEF ReplacedBy
    <3> QED BY <1>2, <2>1, <3>1
  <2>2. CASE p \notin DOMAIN nodes /\ p \in DOMAIN t /\ ~ Starts(p, at)
    <3>1. r[p] = t[p] /\ w[p] = told[p]
      BY <1>1, <1>2, <2>2 DEF ReplacedBy
    <3> QED BY <1>2, <2>2, <3>1
  <2>3. CASE p \notin DOMAIN nodes /\ ~ (p \in DOMAIN t /\ ~ Starts(p, at))
    <3>1. p \in Parents(at) \ (DOMAIN t \cup DOMAIN nodes)
      BY <1>1, <2>3 DEF ReplacedBy
    <3>2. r[p] = Record /\ w[p] = Record
      BY <1>1, <1>2, <3>1 DEF ReplacedBy
    <3>3. ~ IsHost(Record)
      BY DEF IsHost, Record
    <3> QED BY <3>2, <3>3
  <2> QED BY <2>1, <2>2, <2>3
<1>5. Told(w, r)
  BY <1>3, <1>4 DEF Told
<1> QED BY <1>5 DEF r, w

(* The sources of a replaced tree: those of what replaces, and those that  *)
(* were not below.                                                         *)
LEMMA SourcesReplaced ==
  ASSUME NEW t, NEW at, NEW nodes, \A p \in DOMAIN nodes : Starts(p, at)
  PROVE  GoSources(Replaced(t, at, nodes))
           = {b \in GoSources(t) : ~ Starts(b.path, at)} \cup GoSources(nodes)
<1> DEFINE r == Replaced(t, at, nodes)
           At(tree, p) == [path |-> p, source |-> host[tree[p].object].body]
           Has(tree, p) == /\ p \in DOMAIN tree /\ IsHost(tree[p])
                           /\ host[tree[p].object].is = "part" /\ Owned(host[tree[p].object])
<1>1. ReplacedBy(r, t, at, nodes)
  BY ReplacedAt
<1>2. ASSUME NEW tree, NEW b PROVE b \in GoSources(tree) <=> \E p : Has(tree, p) /\ b = At(tree, p)
  BY DEF GoSources
<1> HIDE DEF r
<1>3. ASSUME NEW p PROVE Has(r, p) <=> Has(nodes, p) \/ (Has(t, p) /\ ~ Starts(p, at))
  <2>1. CASE p \in DOMAIN nodes
    <3>1. p \in DOMAIN r /\ r[p] = nodes[p] /\ Starts(p, at)
      BY <1>1, <2>1 DEF ReplacedBy
    <3> QED BY <2>1, <3>1
  <2>2. CASE p \notin DOMAIN nodes /\ p \in DOMAIN t /\ ~ Starts(p, at)
    <3>1. p \in DOMAIN r /\ r[p] = t[p]
      BY <1>1, <2>2 DEF ReplacedBy
    <3> QED BY <2>2, <3>1
  <2>3. CASE p \notin DOMAIN nodes /\ ~ (p \in DOMAIN t /\ ~ Starts(p, at))
    <3>1. p \in DOMAIN r => r[p] = Record
      BY <1>1, <2>3 DEF ReplacedBy
    <3>2. ~ Has(r, p)
      BY <3>1 DEF IsHost, Record
    <3> QED BY <2>3, <3>2
  <2> QED BY <2>1, <2>2, <2>3
<1>4. ASSUME NEW p, Has(r, p)
      PROVE  /\ Has(nodes, p) => At(r, p) = At(nodes, p)
             /\ ~ Has(nodes, p) => At(r, p) = At(t, p)
  <2>1. Has(nodes, p) => r[p] = nodes[p]
    BY <1>1 DEF ReplacedBy
  <2>2. ~ Has(nodes, p) => r[p] = t[p]
    <3>1. ASSUME ~ Has(nodes, p) PROVE r[p] = t[p]
      <4>1. Has(t, p) /\ ~ Starts(p, at)
        BY <1>3, <1>4, <3>1
      <4>2. p \notin DOMAIN nodes
        BY <4>1
      <4> QED BY <1>1, <4>1, <4>2 DEF ReplacedBy
    <3> QED BY <3>1
  <2> QED BY <2>1, <2>2
<1>5. \A p, tree : At(tree, p).path = p
  OBVIOUS
<1> HIDE DEF At, Has
<1>6. ASSUME NEW b
      PROVE  b \in GoSources(r) <=> (b \in GoSources(t) /\ ~ Starts(b.path, at)) \/ b \in GoSources(nodes)
  <2>1. ASSUME b \in GoSources(r) PROVE (b \in GoSources(t) /\ ~ Starts(b.path, at)) \/ b \in GoSources(nodes)
    <3>1. PICK p : Has(r, p) /\ b = At(r, p)
      BY <1>2, <2>1
    <3>2. CASE Has(nodes, p)
      <4>1. b = At(nodes, p)
        BY <1>4, <3>1, <3>2
      <4> QED BY <1>2, <3>2, <4>1
    <3>3. CASE ~ Has(nodes, p)
      <4>1. b = At(t, p) /\ Has(t, p) /\ ~ Starts(p, at)
        BY <1>3, <1>4, <3>1, <3>3
      <4>2. b \in GoSources(t)
        BY <1>2, <4>1
      <4> QED BY <1>5, <4>1, <4>2
    <3> QED BY <3>2, <3>3
  <2>2. ASSUME b \in GoSources(t), ~ Starts(b.path, at) PROVE b \in GoSources(r)
    <3>1. PICK p : Has(t, p) /\ b = At(t, p)
      BY <1>2, <2>2
    <3>2. ~ Starts(p, at)
      BY <1>5, <2>2, <3>1
    <3>3. Has(r, p)
      BY <1>3, <3>1, <3>2
    <3>4. ~ Has(nodes, p)
      BY <3>2 DEF Has
    <3>5. b = At(r, p)
      BY <1>4, <3>1, <3>3, <3>4
    <3> QED BY <1>2, <3>3, <3>5
  <2>3. ASSUME b \in GoSources(nodes) PROVE b \in GoSources(r)
    <3>1. PICK p : Has(nodes, p) /\ b = At(nodes, p)
      BY <1>2, <2>3
    <3>2. Has(r, p)
      BY <1>3, <3>1
    <3>3. b = At(r, p)
      BY <1>4, <3>1, <3>2
    <3> QED BY <1>2, <3>2, <3>3
  <2> QED BY <2>1, <2>2, <2>3
<1>7. GoSources(r) = {b \in GoSources(t) : ~ Starts(b.path, at)} \cup GoSources(nodes)
  BY <1>6
<1> QED BY <1>7 DEF r

(* Putting the values of one call into an event that is complete completes *)
(* what it has become: the sources below are dropped, and those of the     *)
(* values bound (DropsBindings).                                           *)
LEMMA RustReplaceCompletes ==
  ASSUME GivenInv, NEW k \in DOMAIN placed, NEW run \in RustRuns, NEW t, run.ok => Complete(run, t),
         RustReplace(run, k).ok
  PROVE  Complete(RustReplace(run, k), Replaced(t, placed[k].at, NodesPlaced(placed[k])))
<1> DEFINE call  == placed[k]
           nodes == NodesPlaced(call)
           dropped == DropsBindings(run, call.at)
           first == [dropped EXCEPT !.event = nodes]
           built == RustBuilt(first, k)
           event_ == Replaced(run.event, call.at, built.event)
           done  == [built EXCEPT !.event = event_]
<1>1. PICK T \in FinitePaths : run \in RustRunsOn(T)
  BY DEF RustRuns
<1>2. run \in AllRuns(T) /\ run.ids = RustIds
  BY <1>1 DEF RustRunsOn
<1>3. Tree(nodes, HostNodes)
  BY NodesPlacedFacts
<1>4. dropped \in AllRuns(T) /\ dropped.ids = RustIds /\ dropped.bindings = {b \in run.bindings : ~ Starts(b.path, call.at)}
  BY <1>2 DEF DropsBindings, AllRuns
<1>5. first \in RustRunsOn(DOMAIN nodes) /\ first.event = nodes /\ first.bindings = dropped.bindings
  <2>1. nodes \in [DOMAIN nodes -> Nodes \cup Written] /\ \A p \in DOMAIN nodes : nodes[p] \in Nodes
    BY <1>3 DEF Tree, Nodes
  <2> HIDE DEF dropped, nodes
  <2>2. first \in AllRuns(DOMAIN nodes) /\ first.ids = RustIds /\ first.event = nodes
        /\ first.bindings = dropped.bindings
    BY <1>4, <2>1 DEF AllRuns
  <2>3. \A p \in DOMAIN nodes : RustRightly(nodes[p], p)
    BY <2>1 DEF RustRightly
  <2> HIDE DEF first
  <2> QED BY <2>2, <2>3 DEF RustRunsOn
<1>6. RustReplace(run, k) = IF ~ run.ok THEN run
                            ELSE IF ~ Enterable(run.event, call.at) THEN Failed(run) ELSE done
  BY Zenon DEF RustReplace, RustBuilt
<1> HIDE DEF first, dropped
<1>7. built \in RustRunsOn(DOMAIN nodes)
  BY <1>5, RustBuilds
<1> HIDE DEF built
<1>8. built \in AllRuns(DOMAIN nodes)
  BY <1>7 DEF RustRunsOn
<1> HIDE DEF event_
<1>9. done.ok = built.ok /\ done.event = event_ /\ done.bindings = built.bindings
  BY <1>8 DEF AllRuns
<1> HIDE DEF done
<1>10. run.ok /\ RustReplace(run, k) = done /\ built.ok
  <2>1. Failed(run).ok = FALSE
    BY <1>2, FailedFields
  <2> QED BY <1>6, <1>9, <2>1
<1>11. Told(built.event, nodes) /\ built.bindings = first.bindings \cup GoSources(nodes)
  BY <1>5, <1>10, RustBuiltTells DEF built
<1>12. Told(run.event, t) /\ run.bindings = GoSources(t)
  BY <1>10 DEF Complete
<1>13. \A p \in DOMAIN nodes : Starts(p, call.at)
  BY PlacedAtSlot DEF NodesAtSlot
<1> HIDE DEF nodes, call
<1>14. Told(event_, Replaced(t, call.at, nodes))
  BY <1>11, <1>12, ToldReplaced DEF event_
<1>15. GoSources(Replaced(t, call.at, nodes)) = {b \in GoSources(t) : ~ Starts(b.path, call.at)} \cup GoSources(nodes)
  BY <1>13, SourcesReplaced
<1>16. done.bindings = GoSources(Replaced(t, call.at, nodes))
  BY <1>4, <1>5, <1>9, <1>11, <1>12, <1>15
<1>17. Complete(done, Replaced(t, call.at, nodes))
  BY <1>9, <1>14, <1>16 DEF Complete
<1> QED BY <1>10, <1>17 DEF call, nodes

(* A whole projection in Rust that does not fail is complete.              *)
LEMMA RustComplete ==
  ASSUME GivenInv, RustProject.ok
  PROVE  Complete(RustProject, Meant)
<1> DEFINE S == DOMAIN placed
<1>1. PICK f : RustSteps(f)
  BY RustLoop
<1>2. PICK g : MeantSteps(g)
  BY MeantLoop
<1>3. /\ RustProject = f[S] /\ f[{}] = Projection(Assembled(base), RustIds, 1)
      /\ \A s \in SUBSET S :
           /\ f[s] \in RustRuns
           /\ s # {} => Max(s) \in s /\ f[s] = RustReplace(f[s \ {Max(s)}], Max(s))
  BY <1>1 DEF RustSteps
<1>4. /\ Meant = g[S] /\ g[{}] = Assembled(base)
      /\ \A s \in SUBSET S : s # {} =>
           g[s] = Replaced(g[s \ {Max(s)}], placed[Max(s)].at, NodesPlaced(placed[Max(s)]))
  BY <1>2 DEF MeantSteps
<1>5. IsFiniteSet(S)
  <2>1. Len(placed) \in Nat /\ S = 1..Len(placed)
    BY DEF GivenInv
  <2> QED BY <2>1, UpToFinite
<1> DEFINE P == {s \in SUBSET S : f[s].ok => Complete(f[s], g[s])}
<1>6. P \in SUBSET (SUBSET S) /\ {} \in P
  <2> DEFINE start == Assembled(base)
  <2>1. \A p \in DOMAIN start : ~ IsHost(start[p])
    BY AssembledFacts
  <2>2. f[{}].event = start /\ f[{}].bindings = {} /\ g[{}] = start
    BY <1>3, <1>4 DEF Projection
  <2> HIDE DEF start
  <2>3. Told(start, start)
    BY <2>1 DEF Told
  <2>4. GoSources(start) = {}
    BY <2>1 DEF GoSources
  <2>5. Complete(f[{}], g[{}])
    BY <2>2, <2>3, <2>4 DEF Complete
  <2> QED BY <2>5
<1>7. ASSUME NEW s \in SUBSET S, s # {}, \A x \in s : s \ {x} \in P PROVE s \in P
  <2> DEFINE k == Max(s)
             less == s \ {k}
  <2>1. /\ k \in s /\ k \in S /\ less \in SUBSET S
        /\ f[s] = RustReplace(f[less], k) /\ f[less] \in RustRuns
        /\ g[s] = Replaced(g[less], placed[k].at, NodesPlaced(placed[k]))
    <3>1. k \in s /\ f[s] = RustReplace(f[less], k)
      BY <1>3, <1>7
    <3>2. g[s] = Replaced(g[less], placed[k].at, NodesPlaced(placed[k]))
      BY <1>4, <1>7
    <3>3. less \in SUBSET S
      OBVIOUS
    <3> QED BY <1>3, <3>1, <3>2, <3>3
  <2>2. f[less].ok => Complete(f[less], g[less])
    <3>1. less \in P
      BY <1>7, <2>1
    <3> QED BY <3>1
  <2> HIDE DEF k, less
  <2>3. ASSUME f[s].ok PROVE Complete(f[s], g[s])
    <3>1. RustReplace(f[less], k).ok
      BY <2>1, <2>3
    <3>2. Complete(RustReplace(f[less], k), Replaced(g[less], placed[k].at, NodesPlaced(placed[k])))
      BY <2>1, <2>2, <3>1, RustReplaceCompletes
    <3> QED BY <2>1, <3>2
  <2> QED BY <2>3
<1> HIDE DEF P, S
<1>8. P = SUBSET S
  BY <1>5, <1>6, <1>7, PartInduction
<1>9. S \in P
  BY <1>8
<1> QED BY <1>3, <1>4, <1>9 DEF P

-------------------------------------------------------------------------------
(* What ProjectionFaithful says of a projection that succeeds.             *)
Faithful(run, of) ==
  /\ \A b, c \in run.bindings : b.path = c.path => b = c
  /\ {b.path : b \in run.bindings} \subseteq DOMAIN run.event
  /\ DOMAIN run.event = DOMAIN of
  /\ \A p \in DOMAIN of :
       IF IsHost(of[p]) THEN Says(Resolved(run)[p], host[of[p].object]) ELSE run.event[p] = of[p]

(* A part with its reference in place says the rest as before.             *)
LEMMA ReferenceFields ==
  ASSUME NEW w, {"is", "kind", "text", "media", "sel", "body", "id", "synthesized"} \subseteq DOMAIN w, NEW body
  PROVE  LET v == [w EXCEPT !.sel = "body", !.body = body]
         IN  /\ v.is = w.is /\ v.kind = w.kind /\ v.text = w.text /\ v.media = w.media
             /\ v.id = w.id /\ v.synthesized = w.synthesized /\ v.sel = "body" /\ v.body = body
<1> DEFINE half == [w EXCEPT !.sel = "body"]
           v == [half EXCEPT !.body = body]
<1>1. /\ DOMAIN half = DOMAIN w /\ half.is = w.is /\ half.kind = w.kind /\ half.text = w.text
      /\ half.media = w.media /\ half.id = w.id /\ half.synthesized = w.synthesized /\ half.sel = "body"
  OBVIOUS
<1>2. [w EXCEPT !.sel = "body", !.body = body] = v
  OBVIOUS
<1> HIDE DEF half
<1>3. /\ v.is = w.is /\ v.kind = w.kind /\ v.text = w.text /\ v.media = w.media
      /\ v.id = w.id /\ v.synthesized = w.synthesized /\ v.sel = "body" /\ v.body = body
  BY <1>1
<1> QED BY <1>2, <1>3

(* A projection that is complete is faithful, once the runtime has put the *)
(* references where the sources are bound.                                 *)
LEMMA CompleteFaithful ==
  ASSUME GivenInv, NEW tree \in Trees, NEW run, Complete(run, tree)
  PROVE  Faithful(run, tree)
<1>1. Told(run.event, tree) /\ run.bindings = GoSources(tree)
  BY DEF Complete
<1>2. /\ DOMAIN run.event = DOMAIN tree
      /\ \A p \in DOMAIN tree : IF IsHost(tree[p]) THEN Tells(run.event[p], host[tree[p].object])
                                                   ELSE run.event[p] = tree[p]
  BY <1>1 DEF Told
<1>3. \A b \in run.bindings : /\ b.path \in DOMAIN tree /\ IsHost(tree[b.path])
                              /\ host[tree[b.path].object].is = "part" /\ Owned(host[tree[b.path].object])
                              /\ b.source = host[tree[b.path].object].body
                              /\ b = [path |-> b.path, source |-> host[tree[b.path].object].body]
  BY <1>1 DEF GoSources
<1>4. \A b, c \in run.bindings : b.path = c.path => b = c
  BY <1>3
<1>5. ASSUME NEW p \in DOMAIN tree, IsHost(tree[p])
      PROVE  Says(Resolved(run)[p], host[tree[p].object])
  <2> DEFINE thing == host[tree[p].object]
             w == run.event[p]
  <2>1. Tells(w, thing)
    BY <1>2, <1>5
  <2>2. thing.is \in {"part", "message"}
    <3>1. tree[p] \in Nodes
      BY TreesAreTrees DEF Tree
    <3>2. tree[p].object \in DOMAIN host
      BY <1>5, <3>1, NodeFacts DEF IsHost
    <3> QED BY <3>2, GivenFacts DEF Hostly
  <2>3. CASE \E b \in run.bindings : b.path = p
    <3> DEFINE c == CHOOSE b \in run.bindings : b.path = p
               v == [w EXCEPT !.sel = "body", !.body = c.source]
    <3>1. c \in run.bindings /\ c.path = p
      BY <2>3
    <3>2. Resolved(run)[p] = v
      BY <1>2, <1>5, <2>3 DEF Resolved
    <3> HIDE DEF c
    <3>3. thing.is = "part" /\ Owned(thing) /\ c.source = thing.body
      BY <1>3, <3>1
    <3>4. /\ SameIdentity(w, thing) /\ w.is = "part" /\ Carries(w, thing)
          /\ {"is", "kind", "text", "media", "sel", "body", "id", "synthesized"} \subseteq DOMAIN w
      BY <2>1, <3>3 DEF Tells
    <3> HIDE DEF w
    <3>5. /\ v.is = w.is /\ v.kind = w.kind /\ v.text = w.text /\ v.media = w.media
          /\ v.id = w.id /\ v.synthesized = w.synthesized /\ v.sel = "body" /\ v.body = c.source
      BY <3>4, ReferenceFields
    <3> HIDE DEF v, thing
    <3>6. SameIdentity(v, thing)
      BY <3>4, <3>5 DEF SameIdentity
    <3>7. v.sel = Or(thing.sel, "body") /\ v.media = Or(thing.media, "plain") /\ v.kind = thing.kind /\ v.text = thing.text
      BY <3>3, <3>4, <3>5 DEF Carries
    <3>8. Says(v, thing)
      BY <3>3, <3>4, <3>5, <3>6, <3>7 DEF Says
    <3> QED BY <3>2, <3>8 DEF thing
  <2>4. CASE ~ \E b \in run.bindings : b.path = p
    <3>1. Resolved(run)[p] = w
      BY <1>2, <1>5, <2>4 DEF Resolved
    <3>2. ~ (thing.is = "part" /\ Owned(thing))
      <4>1. SUFFICES ASSUME thing.is = "part" /\ Owned(thing) PROVE FALSE
        OBVIOUS
      <4>2. [path |-> p, source |-> thing.body] \in GoSources(tree)
        BY <1>5, <4>1 DEF GoSources
      <4> QED BY <1>1, <2>4, <4>2
    <3> HIDE DEF thing, w
    <3>3. Says(w, thing)
      BY <2>1, <2>2, <3>2 DEF Says, Tells, Carries
    <3> QED BY <3>1, <3>3 DEF thing
  <2> QED BY <2>3, <2>4
<1>6. {b.path : b \in run.bindings} \subseteq DOMAIN run.event
  BY <1>2, <1>3
<1> QED BY <1>2, <1>4, <1>5, <1>6 DEF Faithful

-------------------------------------------------------------------------------
(* What is sent.                                                           *)
LEMMA MadeUpFacts ==
  ASSUME GivenInv, NEW tree \in Trees, NEW owner, NEW known, NEW count,
         NEW run \in Runs(tree, owner, known, count), NEW p \in MadeUp(run.event)
  PROVE  /\ p \in DOMAIN tree /\ tree[p].is = "host"
         /\ owner[p] \in DOMAIN run.ids /\ run.event[p].id = run.ids[owner[p]]
<1>1. run \in AllRuns(DOMAIN tree) /\ EventKept(run.event, tree, run.ids, owner)
  BY DEF Runs
<1>2. p \in DOMAIN tree /\ run.event[p].is \in {"part", "message"} /\ run.event[p].id \notin GivenIds
  BY <1>1, RunFields DEF MadeUp
<1>3. tree[p] \in Nodes
  BY <1>2, TreesAreTrees DEF Tree
<1>4. run.event[p] # tree[p]
  BY <1>2, <1>3, NodeFacts
<1> QED BY <1>1, <1>2, <1>4 DEF EventKept, Rightly

(* Go and TypeScript: every identity sent is the one the object has.       *)
OfObjects(sent, known) == \A x \in sent : \E o \in DOMAIN known : x.owner = <<o>> /\ x.id = known[o]

(* After a projection the identities are known as before, and more of      *)
(* them.                                                                   *)
LEMMA KnowsMore ==
  ASSUME NEW tree, NEW owner, NEW known, NEW count, Knowing(known, count),
         NEW run \in Runs(tree, owner, known, count)
  PROVE  Knowing(run.ids, run.next)
<1>1. run \in AllRuns(DOMAIN tree) /\ IdsKept(run.ids, run.next, known, count)
  BY DEF Runs
<1>2. /\ run.next \in Nat /\ run.ids \in [DOMAIN run.ids -> Nat] /\ DOMAIN run.ids \subseteq Owners
  BY <1>1, RunFields
<1> QED BY <1>1, <1>2 DEF IdsKept, Knowing

(* What is sent after a projection: what was sent before and what the      *)
(* event carries.                                                          *)
Adds(more, sent, tree, run) ==
  \A x \in more : x \in sent \/ \E p \in MadeUp(run.event) :
                     x = [owner |-> <<tree[p].object>>, id |-> run.event[p].id]

(* What a projection sends is again under the identities objects have.     *)
LEMMA ObjectsIssued ==
  ASSUME GivenInv, NEW tree \in Trees, NEW known, NEW count, Knowing(known, count),
         NEW run \in Runs(tree, ObjectAt(tree), known, count),
         NEW sent, OfObjects(sent, known), NEW more, Adds(more, sent, tree, run)
  PROVE  OfObjects(more, run.ids)
<1>0. \A x \in more : x \in sent \/ \E p \in MadeUp(run.event) :
                          x = [owner |-> <<tree[p].object>>, id |-> run.event[p].id]
  BY DEF Adds
<1>1. \A o \in DOMAIN known : o \in DOMAIN run.ids /\ run.ids[o] = known[o]
  BY DEF Runs, IdsKept
<1>2. ASSUME NEW x \in more
      PROVE  \E o \in DOMAIN run.ids : x.owner = <<o>> /\ x.id = run.ids[o]
  <2>1. CASE x \in sent
    BY <1>1, <2>1 DEF OfObjects
  <2>2. CASE \E p \in MadeUp(run.event) : x = [owner |-> <<tree[p].object>>, id |-> run.event[p].id]
    <3>1. PICK p \in MadeUp(run.event) : x = [owner |-> <<tree[p].object>>, id |-> run.event[p].id]
      BY <2>2
    <3>2. /\ p \in DOMAIN tree /\ tree[p].is = "host"
          /\ ObjectAt(tree)[p] \in DOMAIN run.ids /\ run.event[p].id = run.ids[ObjectAt(tree)[p]]
      BY MadeUpFacts
    <3>3. ObjectAt(tree)[p] = tree[p].object
      BY <3>2, OwnersFacts
    <3>4. x.owner = <<tree[p].object>> /\ x.id = run.event[p].id
      BY <3>1
    <3> QED BY <3>2, <3>3, <3>4
  <2> QED BY <1>0, <1>2, <2>1, <2>2
<1> QED BY <1>2 DEF OfObjects

(* Python: the identities of earlier inputs are below the next one.        *)
OfPlaces(sent, round, count) ==
  \A x \in sent : /\ x.id \in Nat /\ x.id < count
                  /\ \E r \in Nat, p \in Paths : r < round /\ x.owner = <<r, p>>
(* The identities sent are one for each owner.                             *)
Once(sent) == \A a, b \in sent : a.owner = b.owner <=> a.id = b.id

(* In Python a further input is sent under identities not used before,     *)
(* one for each place.                                                     *)
LEMMA PlacesIssued ==
  ASSUME GivenInv, NEW tree \in Trees, NEW count \in Nat, NEW known, known = <<>>,
         NEW run \in Runs(tree, PlaceAt(tree), known, count),
         NEW round \in Nat, NEW sent, OfPlaces(sent, round, count), Once(sent),
         NEW more, \A x \in more : x \in sent \/ \E p \in MadeUp(run.event) :
                                     x = [owner |-> <<round, p>>, id |-> run.event[p].id]
  PROVE  OfPlaces(more, round + 1, run.next) /\ Once(more) /\ run.next \in Nat
<1>1. run \in AllRuns(DOMAIN tree) /\ IdsKept(run.ids, run.next, known, count)
  BY DEF Runs
<1>2. run.next \in Nat /\ run.next >= count
  BY <1>1, RunFields DEF IdsKept
<1>3. ASSUME NEW x, NEW p \in MadeUp(run.event), x = [owner |-> <<round, p>>, id |-> run.event[p].id]
      PROVE  /\ x.owner = <<round, p>> /\ x.id = run.ids[p] /\ p \in DOMAIN run.ids /\ p \in Paths
             /\ x.id \in Nat /\ x.id >= count /\ x.id < run.next
  <2>1. p \in DOMAIN tree /\ PlaceAt(tree)[p] \in DOMAIN run.ids /\ run.event[p].id = run.ids[PlaceAt(tree)[p]]
    BY MadeUpFacts
  <2>2. PlaceAt(tree)[p] = p /\ p \in Paths
    BY <2>1, OwnersFacts
  <2>3. run.ids[p] \in Nat /\ run.ids[p] < run.next /\ run.ids[p] >= count
    BY <1>1, <2>1, <2>2, RunFields DEF IdsKept
  <2>4. x.owner = <<round, p>> /\ x.id = run.event[p].id
    BY <1>3
  <2> QED BY <2>1, <2>2, <2>3, <2>4
<1>4. ASSUME NEW x \in more
      PROVE  /\ x.id \in Nat /\ x.id < run.next
             /\ \E r \in Nat, p \in Paths : r < round + 1 /\ x.owner = <<r, p>>
  <2>1. CASE x \in sent
    BY <1>2, <2>1 DEF OfPlaces
  <2>2. CASE x \notin sent
    <3>1. PICK p \in MadeUp(run.event) : x = [owner |-> <<round, p>>, id |-> run.event[p].id]
      BY <2>2
    <3>2. x.owner = <<round, p>> /\ p \in Paths /\ x.id \in Nat /\ x.id < run.next
      BY <1>3, <3>1
    <3> QED BY <3>2
  <2> QED BY <2>1, <2>2
<1>5. ASSUME NEW a \in more, NEW b \in more, a \in sent, b \notin sent
      PROVE  a.owner # b.owner /\ a.id # b.id
  <2>1. PICK p \in MadeUp(run.event) : b = [owner |-> <<round, p>>, id |-> run.event[p].id]
    BY <1>5
  <2>2. b.owner = <<round, p>> /\ b.id \in Nat /\ b.id >= count
    BY <1>3, <2>1
  <2>3. /\ a.id \in Nat /\ a.id < count
        /\ \E r \in Nat, q \in Paths : r < round /\ a.owner = <<r, q>>
    BY <1>5 DEF OfPlaces
  <2>4. a.id # b.id
    BY <2>2, <2>3
  <2>5. PICK r \in Nat, q \in Paths : r < round /\ a.owner = <<r, q>>
    BY <2>3
  <2>6. <<r, q>> # <<round, p>>
    BY <2>5
  <2> QED BY <2>2, <2>4, <2>5, <2>6
<1>6. ASSUME NEW a \in more, NEW b \in more, a \notin sent, b \notin sent
      PROVE  a.owner = b.owner <=> a.id = b.id
  <2>1. PICK p \in MadeUp(run.event) : a = [owner |-> <<round, p>>, id |-> run.event[p].id]
    BY <1>6
  <2>2. PICK q \in MadeUp(run.event) : b = [owner |-> <<round, q>>, id |-> run.event[q].id]
    BY <1>6
  <2>3. /\ a.owner = <<round, p>> /\ a.id = run.ids[p] /\ p \in DOMAIN run.ids
        /\ b.owner = <<round, q>> /\ b.id = run.ids[q] /\ q \in DOMAIN run.ids
    BY <1>3, <2>1, <2>2
  <2>4. run.ids[p] = run.ids[q] => p = q
    BY <1>1, <2>3 DEF IdsKept
  <2>5. <<round, p>> = <<round, q>> <=> p = q
    OBVIOUS
  <2> QED BY <2>3, <2>4, <2>5
<1>7. Once(more)
  <2>1. ASSUME NEW a \in more, NEW b \in more PROVE a.owner = b.owner <=> a.id = b.id
    <3>1. CASE a \in sent /\ b \in sent
      BY <3>1 DEF Once
    <3>2. CASE a \in sent /\ b \notin sent
      BY <1>5, <3>2
    <3>3. CASE a \notin sent /\ b \in sent
      BY <1>5, <3>3
    <3>4. CASE a \notin sent /\ b \notin sent
      BY <1>6, <3>4
    <3> QED BY <3>1, <3>2, <3>3, <3>4
  <2> QED BY <2>1 DEF Once
<1> QED BY <1>2, <1>4, <1>7 DEF OfPlaces

(* Rust: one input, whose identities were made up with its values.         *)
LEMMA RustIssued ==
  ASSUME GivenInv, NEW run \in RustRuns, NEW round,
         NEW more, \A x \in more : \E p \in MadeUp(run.event) :
                                     x = [owner |-> <<round, p>>, id |-> run.event[p].id]
  PROVE  Once(more)
<1>1. PICK T \in FinitePaths : run \in RustRunsOn(T)
  BY DEF RustRuns
<1>2. run \in AllRuns(T) /\ \A p \in T : RustRightly(run.event[p], p)
  BY <1>1 DEF RustRunsOn
<1>3. ASSUME NEW p \in MadeUp(run.event)
      PROVE  \E k \in DOMAIN placed : <<k, p>> \in DOMAIN RustIds /\ run.event[p].id = RustIds[<<k, p>>]
  <2>1. p \in T /\ run.event[p].is \in {"part", "message"} /\ run.event[p].id \notin GivenIds
    BY <1>2, RunFields DEF MadeUp
  <2>2. run.event[p] \notin Nodes
    BY <2>1, NodeFacts
  <2> QED BY <1>2, <2>1, <2>2 DEF RustRightly, Rightly
<1>4. ASSUME NEW a \in more, NEW b \in more PROVE a.owner = b.owner <=> a.id = b.id
  <2>1. PICK p \in MadeUp(run.event) : a = [owner |-> <<round, p>>, id |-> run.event[p].id]
    OBVIOUS
  <2>2. PICK q \in MadeUp(run.event) : b = [owner |-> <<round, q>>, id |-> run.event[q].id]
    OBVIOUS
  <2>3. PICK j \in DOMAIN placed : <<j, p>> \in DOMAIN RustIds /\ run.event[p].id = RustIds[<<j, p>>]
    BY <1>3
  <2>4. PICK k \in DOMAIN placed : <<k, q>> \in DOMAIN RustIds /\ run.event[q].id = RustIds[<<k, q>>]
    BY <1>3
  <2>5. a.owner = <<round, p>> /\ a.id = run.event[p].id /\ b.owner = <<round, q>> /\ b.id = run.event[q].id
    BY <2>1, <2>2
  <2>6. RustIds[<<j, p>>] = RustIds[<<k, q>>] => <<j, p>> = <<k, q>>
    BY <2>3, <2>4, RustIdsFacts
  <2>7. (<<j, p>> = <<k, q>> => p = q) /\ (<<round, p>> = <<round, q>> <=> p = q)
    OBVIOUS
  <2> QED BY <2>3, <2>4, <2>5, <2>6, <2>7
<1> QED BY <1>4 DEF Once

-------------------------------------------------------------------------------
(* The invariant: what a round sends is under identities that are known    *)
(* from then on, or below the next one, or the only ones.                  *)
IdsInv ==
  /\ GivenInv
  /\ sdk \in Languages \cup {None} /\ rounds \in Nat
  /\ sdk = None => issued = {} /\ ids = <<>> /\ next = 1 /\ rounds = 0
  /\ sdk \in {"go", "typescript"} => Knowing(ids, next) /\ OfObjects(issued, ids)
  /\ sdk = "python" => next \in Nat /\ OfPlaces(issued, rounds, next)
  /\ sdk = "rust" => rounds >= 1
  /\ Once(issued)

(* The invariant holds before the application has done anything.           *)
LEMMA InitIds ==
  ASSUME Init
  PROVE  IdsInv
<1>1. GivenInv
  BY DEF Init, GivenInv
<1>2. None \notin {"go", "typescript", "python", "rust"}
  BY NoneAssumption DEF Languages
<1>3. Once(issued)
  BY DEF Init, Once
<1> QED BY <1>1, <1>2, <1>3 DEF Init, IdsInv

(* What the application has given is of its type after a further call      *)
(* too.                                                                    *)
LEMMA GivenKept ==
  ASSUME GivenInv, UNCHANGED <<event, plan, base, host>>,
         placed' = placed \/ \E call \in Placements[event] : placed' = Append(placed, call)
  PROVE  GivenInv'
<1>1. placed' \in Seq(Placements[event])
  <2>1. placed \in Seq(Placements[event])
    BY DEF GivenInv
  <2>2. ASSUME NEW call \in Placements[event] PROVE Append(placed, call) \in Seq(Placements[event])
    BY <2>1, AppendProperties
  <2> QED BY <2>1, <2>2
<1> QED BY <1>1 DEF GivenInv

(* A call of a setter, before or between projections, keeps the            *)
(* invariant.                                                              *)
LEMMA PlaceKeeps ==
  ASSUME IdsInv, NEW call \in Placements[event], Place(call)
  PROVE  IdsInv'
<1>1. GivenInv'
  <2>1. UNCHANGED <<event, plan, base, host>> /\ placed' = Append(placed, call)
    BY DEF Place
  <2> QED BY <2>1, GivenKept DEF IdsInv
<1>2. UNCHANGED <<sdk, host, ids, next, issued, rounds>>
  BY DEF Place
<1>3. (sdk \in {"go", "typescript"} => Knowing(ids, next) /\ OfObjects(issued, ids))'
  BY <1>2 DEF IdsInv, Knowing, Owners, OfObjects
<1>4. (sdk = "python" => next \in Nat /\ OfPlaces(issued, rounds, next))' /\ Once(issued)'
  BY <1>2 DEF IdsInv, OfPlaces, Once
<1>5. /\ (sdk \in Languages \cup {None} /\ rounds \in Nat)'
      /\ (sdk = None => issued = {} /\ ids = <<>> /\ next = 1 /\ rounds = 0)'
      /\ (sdk = "rust" => rounds >= 1)'
  BY <1>2 DEF IdsInv
<1> QED BY <1>1, <1>3, <1>4, <1>5 DEF IdsInv

(* Between the projections of an input, an SDK knows the identities it has *)
(* made up.                                                                *)
LEMMA KnownBefore ==
  ASSUME IdsInv, NEW language \in Languages, Project(language)
  PROVE  /\ language \in {"go", "typescript"} => Knowing(ids, next) /\ OfObjects(issued, ids)
         /\ language = "python" => next \in Nat /\ OfPlaces(issued, rounds, next) /\ Once(issued)
<1>1. sdk \in {None, language}
  BY DEF Project
<1>2. sdk = None => issued = {} /\ ids = <<>> /\ next = 1 /\ rounds = 0
  BY DEF IdsInv
<1>3. ASSUME language \in {"go", "typescript"} PROVE Knowing(ids, next) /\ OfObjects(issued, ids)
  <2>1. CASE sdk = None
    BY <1>2, <2>1 DEF Knowing, OfObjects
  <2>2. CASE sdk = language
    BY <1>3, <2>2 DEF IdsInv
  <2> QED BY <1>1, <2>1, <2>2
<1>4. ASSUME language = "python" PROVE next \in Nat /\ OfPlaces(issued, rounds, next) /\ Once(issued)
  <2>1. CASE sdk = None
    BY <1>2, <2>1 DEF OfPlaces, Once
  <2>2. CASE sdk = language
    BY <1>4, <2>2 DEF IdsInv
  <2> QED BY <1>1, <2>1, <2>2
<1> QED BY <1>3, <1>4

(* Go's types leave an empty identity out of an input.                     *)
LEMMA GoNeverEmpty ==
  ASSUME GivenInv, NEW tree \in Trees, Expresses("go", tree)
  PROVE  \A p \in DOMAIN tree : tree[p].is = "host" => host[tree[p].object].id # Empty
<1>1. ASSUME NEW p \in DOMAIN tree, tree[p].is = "host" PROVE host[tree[p].object].id # Empty
  <2>1. tree[p].object \in ObjectsOf(tree)
    BY <1>1 DEF ObjectsOf, IsHost
  <2>2. Writable("go", host[tree[p].object])
    BY <2>1 DEF Expresses
  <2>3. tree[p].object \in DOMAIN host
    <3>1. tree[p] \in Nodes
      BY TreesAreTrees DEF Tree
    <3> QED BY <1>1, <3>1, NodeFacts
  <2>4. host[tree[p].object].is \in {"part", "message"}
    BY <2>3, GivenFacts DEF Hostly
  <2> QED BY <2>2, <2>4 DEF Writable
<1> QED BY <1>1

(* A projection keeps the invariant, whether it succeeds or fails.         *)
LEMMA ProjectKeeps ==
  ASSUME IdsInv, NEW language \in Languages, Project(language)
  PROVE  IdsInv'
<1> DEFINE meant == Meant
           run   == ProjectIn(language, meant, ids, next)
           Sent(p) == [owner |-> OwnerAt(language, meant, p), id |-> run.event[p].id]
<1>1. GivenInv /\ meant \in Trees
  BY MeantFacts DEF IdsInv
<1>2. GivenInv' /\ UNCHANGED host
  <2>1. UNCHANGED <<event, plan, base, host>> /\ placed' = placed
    BY DEF Project
  <2> QED BY <2>1, GivenKept DEF IdsInv
<1>3. /\ Expresses(language, meant) /\ ids' = run.ids /\ next' = run.next
      /\ sdk' = language /\ rounds' = rounds + 1 /\ sdk \in {None, language}
      /\ rounds < (IF language = "rust" THEN 1 ELSE MaxRounds)
      /\ issued' = issued \cup (IF ~ run.ok THEN {} ELSE {Sent(p) : p \in MadeUp(run.event)})
  BY DEF Project
<1>4. \A x \in issued' : x \in issued \/ \E p \in MadeUp(run.event) : x = Sent(p)
  <2> HIDE DEF run, Sent
  <2> QED BY <1>3
<1>5. rounds \in Nat /\ rounds' \in Nat /\ rounds' >= 1 /\ sdk' \in Languages /\ sdk' # None
  BY <1>3, NoneAssumption DEF IdsInv
<1>6. sdk = None => issued = {} /\ ids = <<>> /\ next = 1 /\ rounds = 0
  BY DEF IdsInv
<1>7. ASSUME language \in {"go", "typescript"}
      PROVE  Knowing(ids, next) /\ OfObjects(issued, ids)
  BY <1>7, KnownBefore
<1>8. ASSUME language \in {"go", "typescript"},
             NEW visited \in Runs(meant, ObjectAt(meant), ids, next),
             run.event = visited.event, run.ids = visited.ids, run.next = visited.next
      PROVE  IdsInv'
  <2>1. \A p : Sent(p) = [owner |-> <<meant[p].object>>, id |-> visited.event[p].id]
    BY <1>8 DEF OwnerAt
  <2> HIDE DEF Sent, run, meant
  <2>2. \A x \in issued' : x \in issued \/ \E p \in MadeUp(visited.event) :
          x = [owner |-> <<meant[p].object>>, id |-> visited.event[p].id]
    BY <1>4, <1>8, <2>1
  <2>3. OfObjects(issued', ids') /\ ids' = visited.ids /\ next' = visited.next
    <3>1. ids' = visited.ids /\ next' = visited.next
      BY <1>3, <1>8
    <3>2. Adds(issued', issued, meant, visited)
      BY <2>2 DEF Adds
    <3>3. Knowing(ids, next) /\ OfObjects(issued, ids)
      BY <1>7, <1>8
    <3>4. GivenInv /\ meant \in Trees /\ visited \in Runs(meant, ObjectAt(meant), ids, next)
      BY <1>1, <1>8
    <3>5. OfObjects(issued', visited.ids)
      BY <3>2, <3>3, <3>4, ObjectsIssued
    <3> QED BY <3>1, <3>5
  <2>4. Knowing(visited.ids, visited.next)
    BY <1>7, <1>8, KnowsMore
  <2>5. Owners' = Owners
    BY <1>2 DEF Owners
  <2>6. Knowing(ids, next)' /\ OfObjects(issued, ids)'
    BY <2>3, <2>4, <2>5 DEF Knowing, OfObjects
  <2>7. \A a, b \in issued' : a.owner = b.owner <=> a.id = b.id
    <3>1. ASSUME NEW a \in issued', NEW b \in issued' PROVE a.owner = b.owner <=> a.id = b.id
      <4>1. PICK o \in DOMAIN ids' : a.owner = <<o>> /\ a.id = ids'[o]
        BY <2>3 DEF OfObjects
      <4>2. PICK q \in DOMAIN ids' : b.owner = <<q>> /\ b.id = ids'[q]
        BY <2>3 DEF OfObjects
      <4>3. <<o>> = <<q>> <=> o = q
        OBVIOUS
      <4>4. ids'[o] = ids'[q] => o = q
        BY <2>3, <2>4 DEF Knowing
      <4> QED BY <4>1, <4>2, <4>3, <4>4
    <3> QED BY <3>1
  <2> QED BY <1>2, <1>3, <1>5, <1>8, <2>6, <2>7 DEF IdsInv, Once
<1>9. CASE language = "go"
  <2> DEFINE visited == GoEnd(meant, ids, next)
  <2>1. \A p \in DOMAIN meant : meant[p].is = "host" => host[meant[p].object].id # Empty
    BY <1>1, <1>3, <1>9, GoNeverEmpty
  <2>2. Knowing(ids, next)
    BY <1>7, <1>9
  <2> HIDE DEF meant
  <2>3. visited \in Runs(meant, ObjectAt(meant), ids, next)
    BY <1>1, <2>1, <2>2, GoVisitsKeep
  <2>4. run = [visited EXCEPT !.bindings = GoSources(meant)]
    BY <1>9 DEF ProjectIn, GoProject, GoEnd
  <2>5. run.event = visited.event /\ run.ids = visited.ids /\ run.next = visited.next
    <3>1. visited \in AllRuns(DOMAIN meant)
      BY <2>3 DEF Runs
    <3> HIDE DEF visited, run
    <3> QED BY <2>4, <3>1 DEF AllRuns
  <2> HIDE DEF visited, run
  <2> QED BY <1>8, <1>9, <2>3, <2>5
<1>10. CASE language = "typescript"
  <2> DEFINE visited == TsEnd(meant, ids, next)
  <2>1. Knowing(ids, next)
    BY <1>7, <1>10
  <2> HIDE DEF meant
  <2>2. visited \in Runs(meant, ObjectAt(meant), ids, next)
    BY <1>1, <2>1, TsVisitsKeep
  <2>3. run = visited
    BY <1>10 DEF ProjectIn, TsProject, TsEnd
  <2> HIDE DEF visited, run
  <2> QED BY <1>8, <1>10, <2>2, <2>3
<1>11. CASE language = "python"
  <2> DEFINE none == <<>>
             visited == PythonEnd(meant, none, next)
  <2>1. next \in Nat /\ OfPlaces(issued, rounds, next) /\ Once(issued)
    BY <1>11, KnownBefore
  <2>2. Knowing(none, next)
    BY <2>1 DEF Knowing
  <2> HIDE DEF meant
  <2>3. run = visited
    BY <1>11 DEF ProjectIn, PythonProject, PythonEnd
  <2>4. \A p : Sent(p) = [owner |-> <<rounds, p>>, id |-> visited.event[p].id]
    BY <1>11, <2>3 DEF OwnerAt
  <2> DEFINE known == none
  <2>5. known = <<>>
    OBVIOUS
  <2> HIDE DEF none, known
  <2>6. visited \in Runs(meant, PlaceAt(meant), known, next)
    BY <1>1, <2>2, PythonVisitsKeep DEF known
  <2> HIDE DEF visited, Sent, run
  <2>7. \A x \in issued' : x \in issued \/ \E p \in MadeUp(visited.event) :
          x = [owner |-> <<rounds, p>>, id |-> visited.event[p].id]
    BY <1>4, <2>3, <2>4
  <2>8. OfPlaces(issued', rounds + 1, visited.next) /\ Once(issued') /\ visited.next \in Nat
    BY <1>1, <1>5, <2>1, <2>5, <2>6, <2>7, PlacesIssued
  <2>9. (next \in Nat /\ OfPlaces(issued, rounds, next))' /\ Once(issued)'
    BY <1>3, <2>3, <2>8 DEF OfPlaces, Once
  <2> QED BY <1>2, <1>3, <1>5, <1>11, <2>9 DEF IdsInv
<1>12. CASE language = "rust"
  <2>1. issued = {}
    <3>1. sdk # "rust"
      <4>1. rounds < 1
        BY <1>3, <1>12
      <4> QED BY <1>5, <4>1 DEF IdsInv
    <3> QED BY <1>3, <1>6, <1>12, <3>1
  <2>2. RustProject \in RustRuns
    BY <1>1, RustProjectKeeps
  <2>3. run = RustProject
    BY <1>12 DEF ProjectIn
  <2>4. \A p : Sent(p) = [owner |-> <<rounds, p>>, id |-> RustProject.event[p].id]
    BY <1>12, <2>3 DEF OwnerAt
  <2> HIDE DEF Sent, run, meant
  <2>5. \A x \in issued' : \E p \in MadeUp(RustProject.event) :
          x = [owner |-> <<rounds, p>>, id |-> RustProject.event[p].id]
    BY <1>4, <2>1, <2>3, <2>4
  <2>6. Once(issued')
    BY <1>1, <2>2, <2>5, RustIssued
  <2>7. Once(issued)'
    BY <2>6 DEF Once
  <2> QED BY <1>2, <1>3, <1>5, <1>12, <2>7 DEF IdsInv
<1> QED BY <1>9, <1>10, <1>11, <1>12 DEF Languages

(* The invariant always holds.                                             *)
LEMMA IdsAlways == Spec => []IdsInv
<1>1. Init => IdsInv
  BY InitIds
<1>2. IdsInv /\ [Next]_vars => IdsInv'
  <2>1. SUFFICES ASSUME IdsInv, [Next]_vars PROVE IdsInv'
    OBVIOUS
  <2>2. ASSUME NEW call \in Placements[event], Place(call) PROVE IdsInv'
    BY <2>1, <2>2, PlaceKeeps
  <2>3. ASSUME NEW language \in Languages, Project(language) PROVE IdsInv'
    BY <2>1, <2>3, ProjectKeeps
  <2>4. CASE UNCHANGED vars
    <3>1. UNCHANGED <<sdk, event, plan, base, host, placed, ids, next, issued, rounds>>
      BY <2>4 DEF vars
    <3>2. GivenInv'
      BY <2>1, <3>1 DEF IdsInv, GivenInv
    <3>3. (sdk \in {"go", "typescript"} => Knowing(ids, next) /\ OfObjects(issued, ids))'
      BY <2>1, <3>1 DEF IdsInv, Knowing, Owners, OfObjects
    <3>4. (sdk = "python" => next \in Nat /\ OfPlaces(issued, rounds, next))' /\ Once(issued)'
      BY <2>1, <3>1 DEF IdsInv, OfPlaces, Once
    <3>5. /\ (sdk \in Languages \cup {None} /\ rounds \in Nat)'
          /\ (sdk = None => issued = {} /\ ids = <<>> /\ next = 1 /\ rounds = 0)'
          /\ (sdk = "rust" => rounds >= 1)'
      BY <2>1, <3>1 DEF IdsInv
    <3> QED BY <3>2, <3>3, <3>4, <3>5 DEF IdsInv
  <2> QED BY <2>1, <2>2, <2>3, <2>4 DEF Next
<1> QED BY <1>1, <1>2, PTL DEF Spec

(* However often an application projects an input, and whatever fails or   *)
(* changes in between, an object is sent under one made up identity, and   *)
(* no two objects under the same (hostObjectIds, synthesizeContentID,      *)
(* ContentItem's default identity).                                        *)
THEOREM AlwaysIdentitiesOnce == Spec => []IdentitiesOnce
<1>1. IdsInv => IdentitiesOnce
  BY DEF IdsInv, Once, IdentitiesOnce
<1> QED BY <1>1, IdsAlways, PTL

(* A projection that succeeds, in whatever language, is complete.          *)
LEMMA ProjectCompletes ==
  ASSUME IdsInv, NEW language \in Languages, Project(language), ProjectIn(language, Meant, ids, next).ok
  PROVE  Complete(ProjectIn(language, Meant, ids, next), Meant)
<1> DEFINE tree == Meant
           run  == ProjectIn(language, tree, ids, next)
<1>1. GivenInv /\ tree \in Trees /\ Covers(Visits(tree, TRUE), tree) /\ Covers(Visits(tree, FALSE), tree)
  BY MeantFacts, MeantCovered DEF IdsInv
<1>2. Expresses(language, tree)
  BY DEF Project
<1>3. CASE language = "rust"
  <2>1. run = RustProject
    BY <1>3 DEF ProjectIn
  <2> QED BY <1>1, <2>1, RustComplete
<1> HIDE DEF tree
<1>4. run.ok
  BY DEF tree
<1>5. CASE language = "go"
  <2>1. run = GoProject(tree, ids, next)
    BY <1>5 DEF ProjectIn
  <2>2. \A p \in DOMAIN tree : tree[p].is = "host" => host[tree[p].object].id # Empty
    BY <1>1, <1>2, <1>5, GoNeverEmpty
  <2>3. Knowing(ids, next)
    BY <1>5, KnownBefore
  <2> HIDE DEF run
  <2>4. Complete(run, tree)
    BY <1>1, <1>4, <2>1, <2>2, <2>3, GoComplete
  <2> QED BY <2>4 DEF run, tree
<1>6. CASE language = "python"
  <2> DEFINE none == <<>>
  <2>1. run = PythonProject(tree, next)
    BY <1>6 DEF ProjectIn
  <2>2. none = <<>> /\ Knowing(none, next)
    <3>1. next \in Nat
      BY <1>6, KnownBefore
    <3> QED BY <3>1 DEF Knowing
  <2> HIDE DEF run, none
  <2>3. Complete(run, tree)
    BY <1>1, <1>4, <2>1, <2>2, PythonComplete
  <2> QED BY <2>3 DEF run, tree
<1>7. CASE language = "typescript"
  <2>1. run = TsProject(tree, ids, next)
    BY <1>7 DEF ProjectIn
  <2>2. Knowing(ids, next)
    BY <1>7, KnownBefore
  <2> HIDE DEF run
  <2>3. Complete(run, tree)
    BY <1>1, <1>4, <2>1, <2>2, TsComplete
  <2> QED BY <2>3 DEF run, tree
<1> QED BY <1>3, <1>5, <1>6, <1>7 DEF Languages

(* A projection is faithful if it succeeds, and says nothing if it fails.  *)
LEMMA ProjectFaithful ==
  ASSUME IdsInv, NEW language \in Languages, Project(language)
  PROVE  ProjectionFaithful'
<1> DEFINE tree == Meant
           run  == ProjectIn(language, tree, ids, next)
<1>1. result' = [ok |-> run.ok, event |-> run.event, bindings |-> run.bindings, of |-> tree] /\ UNCHANGED host
  BY DEF Project
<1>2. GivenInv /\ tree \in Trees
  BY MeantFacts DEF IdsInv
<1>3. run.ok => Complete(run, tree)
  BY ProjectCompletes
<1> HIDE DEF tree, run
<1>4. SUFFICES ASSUME result'.ok
               PROVE  Faithful(result', result'.of)
  BY <1>1 DEF ProjectionFaithful, Faithful
<1>5. run.ok /\ result'.event = run.event /\ result'.bindings = run.bindings /\ result'.of = tree
  BY <1>1, <1>4
<1> DEFINE after == result'
<1>6. Complete(after, tree)
  BY <1>3, <1>5 DEF Complete
<1> HIDE DEF after
<1>7. Faithful(after, tree)
  BY <1>2, <1>6, CompleteFaithful
<1> QED BY <1>5, <1>7 DEF after

(* A projection that succeeds, once the runtime has put references in      *)
(* place, is the event that the application means: whatever its plan, its  *)
(* host objects and its calls, every source is bound where its attachment  *)
(* ended up, no replaced value leaves anything behind, identities are the  *)
(* application's or marked as made up, and what is outside the slots is    *)
(* as it was given (into_host_event, projectHostContent, projectHostEvent, *)
(* _project_host_content).                                                 *)
THEOREM AlwaysProjectionFaithful == Spec => []ProjectionFaithful
<1>1. Init => ProjectionFaithful
  BY DEF Init, ProjectionFaithful
<1>2. IdsInv /\ ProjectionFaithful /\ [Next]_vars => ProjectionFaithful'
  <2>1. SUFFICES ASSUME IdsInv, ProjectionFaithful, [Next]_vars PROVE ProjectionFaithful'
    OBVIOUS
  <2>2. ASSUME UNCHANGED <<result, host>> PROVE ProjectionFaithful'
    BY <2>1, <2>2 DEF ProjectionFaithful
  <2>3. ASSUME NEW call \in Placements[event], Place(call) PROVE ProjectionFaithful'
    BY <2>2, <2>3 DEF Place
  <2>4. ASSUME NEW language \in Languages, Project(language) PROVE ProjectionFaithful'
    BY <2>1, <2>4, ProjectFaithful
  <2>5. CASE UNCHANGED vars
    BY <2>2, <2>5 DEF vars
  <2> QED BY <2>1, <2>3, <2>4, <2>5 DEF Next
<1> QED BY <1>1, <1>2, IdsAlways, PTL DEF Spec

-------------------------------------------------------------------------------
(* What several SDKs accept becomes one event.                             *)

(* The record of a host object in an event, identities made up left out.   *)
Spoken(thing) ==
  LET id          == IF thing.id # None /\ thing.id \in GivenIds THEN thing.id ELSE None
      synthesized == IF thing.id = None THEN TRUE ELSE thing.flag
  IN  IF thing.is = "message"
        THEN [is |-> "message", role |-> thing.role, id |-> id, synthesized |-> synthesized]
        ELSE [is |-> "part", kind |-> thing.kind, text |-> thing.text, media |-> Or(thing.media, "plain"),
              sel |-> Or(thing.sel, "body"), body |-> thing.body, id |-> id, synthesized |-> synthesized]

(* Records of parts and of messages, with all of their fields.             *)
PartRecord(w) ==
  w = [is |-> "part", kind |-> w.kind, text |-> w.text, media |-> w.media,
       sel |-> w.sel, body |-> w.body, id |-> w.id, synthesized |-> w.synthesized]
MessageRecord(w) ==
  w = [is |-> "message", role |-> w.role, id |-> w.id, synthesized |-> w.synthesized]

(* What is written has these fields and no others, with a reference in     *)
(* place too.                                                              *)
LEMMA WrittenRecords ==
  ASSUME NEW w \in Written
  PROVE  /\ w.is = "part" => PartRecord(w)
         /\ w.is = "part" => (\A body : PartRecord([w EXCEPT !.sel = "body", !.body = body]))
         /\ w.is = "message" => MessageRecord(w)
<1> DEFINE parts    == {WrittenPart(i, f) : i \in Identities, f \in Forms}
           messages == {WrittenMessage(i, host[o]) : i \in Identities, o \in DOMAIN host}
           regular  == /\ w.is = "part" => PartRecord(w)
                       /\ w.is = "part" => (\A body : PartRecord([w EXCEPT !.sel = "body", !.body = body]))
                       /\ w.is = "message" => MessageRecord(w)
<1>1. ASSUME NEW i \in Identities, NEW f, w = WrittenPart(i, f)
      PROVE  PartRecord(w) /\ w.is = "part"
  BY <1>1 DEF WrittenPart, PartRecord
<1>2. ASSUME NEW i \in Identities, NEW o \in DOMAIN host, w = WrittenMessage(i, host[o])
      PROVE  MessageRecord(w) /\ w.is = "message"
  BY <1>2 DEF WrittenMessage, MessageRecord
<1>3. ASSUME PartRecord(w), NEW body PROVE PartRecord([w EXCEPT !.sel = "body", !.body = body])
  <2> DEFINE half == [w EXCEPT !.sel = "body"]
             v    == [half EXCEPT !.body = body]
  <2>1. w = [is |-> "part", kind |-> w.kind, text |-> w.text, media |-> w.media,
             sel |-> w.sel, body |-> w.body, id |-> w.id, synthesized |-> w.synthesized]
    BY <1>3 DEF PartRecord
  <2>2. half = [is |-> "part", kind |-> w.kind, text |-> w.text, media |-> w.media,
                sel |-> "body", body |-> w.body, id |-> w.id, synthesized |-> w.synthesized]
    BY <2>1
  <2> HIDE DEF half
  <2>3. v = [is |-> "part", kind |-> w.kind, text |-> w.text, media |-> w.media,
             sel |-> "body", body |-> body, id |-> w.id, synthesized |-> w.synthesized]
    BY <2>2
  <2>4. [w EXCEPT !.sel = "body", !.body = body] = v
    BY DEF half
  <2> HIDE DEF v
  <2>5. PartRecord(v)
    BY <2>3 DEF PartRecord
  <2> QED BY <2>4, <2>5
<1>4. ASSUME NEW i \in Identities, NEW f \in Forms, w = WrittenPart(i, f) PROVE regular
  <2>1. PartRecord(w) /\ w.is = "part"
    BY <1>1, <1>4
  <2>2. \A body : PartRecord([w EXCEPT !.sel = "body", !.body = body])
    BY <1>3, <2>1
  <2> QED BY <2>1, <2>2
<1>5. ASSUME NEW i \in Identities, NEW o \in DOMAIN host, w = WrittenMessage(i, host[o]) PROVE regular
  <2>1. MessageRecord(w) /\ w.is = "message"
    BY <1>2, <1>5
  <2> QED BY <2>1
<1> HIDE DEF regular
<1>6. w \in parts \/ w \in messages
  BY DEF Written
<1>7. ASSUME w \in parts PROVE regular
  BY <1>4, <1>7
<1>8. ASSUME w \in messages PROVE regular
  BY <1>5, <1>8
<1> HIDE DEF parts, messages
<1>9. regular
  BY <1>6, <1>7, <1>8
<1> QED BY <1>9 DEF regular

(* A record that says what an object says is that object's record, once    *)
(* identities made up are left out.                                        *)
LEMMA SaysSpoken ==
  ASSUME NEW thing, thing.is \in {"part", "message"}, thing.id \in GivenIds \cup {None, Empty},
         NEW w, w.is = "part" => PartRecord(w), w.is = "message" => MessageRecord(w), Says(w, thing),
         NEW v, v = IF w.id \notin GivenIds THEN [w EXCEPT !.id = None] ELSE w
  PROVE  v = Spoken(thing)
<1> DEFINE id == IF thing.id # None /\ thing.id \in GivenIds THEN thing.id ELSE None
           synthesized == IF thing.id = None THEN TRUE ELSE thing.flag
<1>1. w.is = thing.is /\ SameIdentity(w, thing)
  BY DEF Says
<1>2. w.synthesized = synthesized
  BY <1>1 DEF SameIdentity
<1>3. IF w.id \notin GivenIds THEN id = None ELSE w.id = id
  BY <1>1 DEF SameIdentity
<1> HIDE DEF id, synthesized
<1>4. CASE thing.is = "message"
  <2>1. w = [is |-> "message", role |-> thing.role, id |-> w.id, synthesized |-> synthesized]
    BY <1>1, <1>2, <1>4 DEF Says, MessageRecord
  <2>2. v = [is |-> "message", role |-> thing.role, id |-> id, synthesized |-> synthesized]
    BY <1>3, <2>1
  <2> QED BY <1>4, <2>2 DEF Spoken, id, synthesized
<1>5. CASE thing.is = "part"
  <2>1. w = [is |-> "part", kind |-> thing.kind, text |-> thing.text, media |-> Or(thing.media, "plain"),
             sel |-> Or(thing.sel, "body"), body |-> thing.body, id |-> w.id, synthesized |-> synthesized]
    <3>1. /\ w.kind = thing.kind /\ w.text = thing.text /\ w.body = thing.body
          /\ w.sel = Or(thing.sel, "body") /\ w.media = Or(thing.media, "plain")
      BY <1>5 DEF Says
    <3>2. PartRecord(w)
      BY <1>1, <1>5
    <3> QED BY <1>2, <3>1, <3>2 DEF PartRecord
  <2>2. v = [is |-> "part", kind |-> thing.kind, text |-> thing.text, media |-> Or(thing.media, "plain"),
             sel |-> Or(thing.sel, "body"), body |-> thing.body, id |-> id, synthesized |-> synthesized]
    BY <1>3, <2>1
  <2>3. thing.is # "message"
    BY <1>5
  <2> QED BY <2>2, <2>3 DEF Spoken, id, synthesized
<1> QED BY <1>4, <1>5

(* The event that a tree means.                                            *)
SpokenTree(tree) == [p \in DOMAIN tree |-> IF IsHost(tree[p]) THEN Spoken(host[tree[p].object]) ELSE tree[p]]

(* A complete projection comes to the event that its tree means.           *)
LEMMA CompleteSpoken ==
  ASSUME GivenInv, NEW tree \in Trees, NEW run, Complete(run, tree),
         run.event \in [DOMAIN tree -> Nodes \cup Written]
  PROVE  Anonymous(Resolved(run)) = SpokenTree(tree)
<1> DEFINE sent == Resolved(run)
<1>1. Faithful(run, tree)
  BY CompleteFaithful
<1>2. /\ Told(run.event, tree)
      /\ {b.path : b \in run.bindings} \subseteq DOMAIN tree
      /\ \A p \in DOMAIN tree : IsHost(tree[p]) => Says(sent[p], host[tree[p].object])
      /\ DOMAIN run.event = DOMAIN tree
      /\ \A b \in run.bindings : IsHost(tree[b.path])
  <2>1. \A b \in run.bindings : IsHost(tree[b.path])
    BY DEF Complete, GoSources
  <2> QED BY <1>1, <2>1 DEF Faithful, Complete
<1>3. DOMAIN sent = DOMAIN tree
  BY <1>2 DEF Resolved
<1>4. ASSUME NEW p \in DOMAIN tree
      PROVE  sent[p] = IF \E b \in run.bindings : b.path = p
                         THEN [run.event[p] EXCEPT !.sel = "body",
                                 !.body = (CHOOSE b \in run.bindings : b.path = p).source]
                         ELSE run.event[p]
  BY <1>2 DEF Resolved
<1> HIDE DEF sent
<1>5. ASSUME NEW p \in DOMAIN tree, ~ IsHost(tree[p])
      PROVE  sent[p] = tree[p] /\ tree[p].is \notin {"part", "message"}
  <2>1. sent[p] = run.event[p]
    BY <1>2, <1>4, <1>5
  <2>2. run.event[p] = tree[p]
    BY <1>2, <1>5 DEF Told
  <2>3. tree[p] \in Nodes
    BY TreesAreTrees DEF Tree
  <2> QED BY <2>1, <2>2, <2>3, NodeFacts
<1>6. ASSUME NEW p \in DOMAIN tree, IsHost(tree[p])
      PROVE  /\ sent[p].is \in {"part", "message"}
             /\ (IF sent[p].id \notin GivenIds THEN [sent[p] EXCEPT !.id = None] ELSE sent[p])
                  = Spoken(host[tree[p].object])
  <2> DEFINE thing == host[tree[p].object]
             w == run.event[p]
             r == sent[p]
             v == IF r.id \notin GivenIds THEN [r EXCEPT !.id = None] ELSE r
  <2>1. tree[p] \in Nodes
    BY TreesAreTrees DEF Tree
  <2>2. tree[p].object \in DOMAIN host
    BY <1>6, <2>1, NodeFacts DEF IsHost
  <2>3. thing.is \in {"part", "message"} /\ thing.id \in GivenIds \cup {None, Empty}
    BY <2>2, GivenFacts DEF Hostly
  <2>4. Says(r, thing) /\ r.is = thing.is
    BY <1>2, <1>6 DEF Says
  <2>5. w.is \in {"part", "message"} /\ (w.is = "part" => r.is = "part") /\ (w.is = "message" => thing.is = "message")
    <3>1. Tells(w, thing)
      BY <1>2, <1>6 DEF Told
    <3>2. w.is = thing.is
      BY <2>3, <3>1 DEF Tells
    <3> QED BY <2>3, <2>4, <3>2
  <2>6. w \in Written
    <3>1. w \in Nodes \cup Written
      OBVIOUS
    <3>2. w \notin Nodes
      BY <2>5, NodeFacts
    <3> QED BY <3>1, <3>2
  <2>7. (r.is = "part" => PartRecord(r)) /\ (r.is = "message" => MessageRecord(r))
    <3>1. CASE \E b \in run.bindings : b.path = p
      <4>1. r = [w EXCEPT !.sel = "body", !.body = (CHOOSE b \in run.bindings : b.path = p).source]
        BY <1>4, <3>1
      <4>2. thing.is = "part"
        <5>1. PICK b \in run.bindings : b.path = p
          BY <3>1
        <5> QED BY <5>1 DEF Complete, GoSources
      <4>3. w.is = "part" /\ r.is = "part"
        BY <2>4, <2>5, <4>2
      <4> HIDE DEF r, w
      <4> QED BY <2>6, <4>1, <4>3, WrittenRecords
    <3>2. CASE ~ \E b \in run.bindings : b.path = p
      <4>1. r = w
        BY <1>4, <3>2
      <4> QED BY <2>6, <4>1, WrittenRecords
    <3> QED BY <3>1, <3>2
  <2>8. v = IF r.id \notin GivenIds THEN [r EXCEPT !.id = None] ELSE r
    OBVIOUS
  <2> HIDE DEF thing, w, r, v
  <2>9. r.is = "part" => PartRecord(r)
    BY <2>7
  <2>10. r.is = "message" => MessageRecord(r)
    BY <2>7
  <2>11. v = Spoken(thing)
    BY <2>3, <2>4, <2>8, <2>9, <2>10, SaysSpoken
  <2> QED BY <2>3, <2>4, <2>11 DEF thing, r, v
<1>7. Anonymous(sent) = [p \in DOMAIN tree |->
                           IF p \in MadeUp(sent) THEN [sent[p] EXCEPT !.id = None] ELSE sent[p]]
  BY <1>3 DEF Anonymous
<1>8. \A p \in DOMAIN tree : p \in MadeUp(sent) <=> sent[p].is \in {"part", "message"} /\ sent[p].id \notin GivenIds
  BY <1>3 DEF MadeUp
<1>9. ASSUME NEW p \in DOMAIN tree
      PROVE  (IF p \in MadeUp(sent) THEN [sent[p] EXCEPT !.id = None] ELSE sent[p])
               = (IF IsHost(tree[p]) THEN Spoken(host[tree[p].object]) ELSE tree[p])
  <2>1. CASE IsHost(tree[p])
    BY <1>6, <1>8, <2>1
  <2>2. CASE ~ IsHost(tree[p])
    BY <1>5, <1>8, <2>2
  <2> QED BY <2>1, <2>2
<1>10. Anonymous(sent) = SpokenTree(tree)
  BY <1>7, <1>9 DEF SpokenTree
<1> QED BY <1>10 DEF sent

(* An SDK that accepts what the application means comes to this event.     *)
LEMMA OutcomeSpoken ==
  ASSUME GivenInv, NEW language \in Languages, Expresses(language, Meant), Outcome(language, Meant) # {}
  PROVE  Outcome(language, Meant) = {SpokenTree(Meant)}
<1> DEFINE tree == Meant
           none == <<>>
           run  == ProjectIn(language, tree, none, 1)
<1>1. tree \in Trees /\ Covers(Visits(tree, TRUE), tree) /\ Covers(Visits(tree, FALSE), tree)
  BY MeantFacts, MeantCovered
<1>2. run.ok /\ Outcome(language, tree) = {Anonymous(Resolved(run))}
  BY DEF Outcome
<1>3. Knowing(none, 1) /\ none = <<>>
  BY DEF Knowing
<1>4. ASSUME language = "rust"
      PROVE  Complete(run, tree) /\ run.event \in [DOMAIN tree -> Nodes \cup Written]
  <2>1. run = RustProject
    BY <1>4 DEF ProjectIn
  <2>2. Complete(run, tree)
    <3> HIDE DEF run
    <3> QED BY <1>2, <2>1, RustComplete DEF tree
  <2>3. run.event \in [DOMAIN tree -> Nodes \cup Written]
    <3>1. PICK T \in FinitePaths : run \in RustRunsOn(T)
      BY <2>1, RustProjectKeeps DEF RustRuns
    <3>2. run.event \in [T -> Nodes \cup Written]
      BY <3>1, RunFields DEF RustRunsOn
    <3>3. DOMAIN run.event = DOMAIN tree
      BY <2>2 DEF Complete, Told
    <3> HIDE DEF run, tree
    <3> QED BY <3>2, <3>3
  <2> QED BY <2>2, <2>3
<1> HIDE DEF tree, none
<1>5. ASSUME language = "go"
      PROVE  Complete(run, tree) /\ run.event \in [DOMAIN tree -> Nodes \cup Written]
  <2>1. run = GoProject(tree, none, 1) /\ run.ok
    BY <1>2, <1>5 DEF ProjectIn
  <2>2. \A p \in DOMAIN tree : tree[p].is = "host" => host[tree[p].object].id # Empty
    BY <1>1, <1>5, GoNeverEmpty DEF tree
  <2> HIDE DEF run
  <2>3. Complete(run, tree)
    BY <1>1, <1>3, <2>1, <2>2, GoComplete
  <2>4. run.event = GoEnd(tree, none, 1).event
    BY <2>1 DEF GoProject, GoEnd
  <2>5. GoEnd(tree, none, 1) \in AllRuns(DOMAIN tree)
    BY <1>1, <1>3, <2>2, GoVisitsKeep DEF Runs
  <2>6. run.event \in [DOMAIN tree -> Nodes \cup Written]
    BY <2>4, <2>5, RunFields
  <2> QED BY <2>3, <2>6
<1>6. ASSUME language = "python"
      PROVE  Complete(run, tree) /\ run.event \in [DOMAIN tree -> Nodes \cup Written]
  <2>1. run = PythonProject(tree, 1) /\ run.ok
    BY <1>2, <1>6 DEF ProjectIn
  <2> HIDE DEF run
  <2>2. Complete(run, tree)
    BY <1>1, <1>3, <2>1, PythonComplete
  <2>3. run = PythonEnd(tree, none, 1)
    BY <1>3, <2>1 DEF PythonProject, PythonEnd
  <2>4. run \in AllRuns(DOMAIN tree)
    BY <1>1, <1>3, <2>3, PythonVisitsKeep DEF Runs
  <2>5. run.event \in [DOMAIN tree -> Nodes \cup Written]
    BY <2>4, RunFields
  <2> QED BY <2>2, <2>5
<1>7. ASSUME language = "typescript"
      PROVE  Complete(run, tree) /\ run.event \in [DOMAIN tree -> Nodes \cup Written]
  <2>1. run = TsProject(tree, none, 1) /\ run.ok
    BY <1>2, <1>7 DEF ProjectIn
  <2> HIDE DEF run
  <2>2. Complete(run, tree)
    BY <1>1, <1>3, <2>1, TsComplete
  <2>3. run = TsEnd(tree, none, 1)
    BY <2>1 DEF TsProject, TsEnd
  <2>4. run \in AllRuns(DOMAIN tree)
    BY <1>1, <1>3, <2>3, TsVisitsKeep DEF Runs
  <2>5. run.event \in [DOMAIN tree -> Nodes \cup Written]
    BY <2>4, RunFields
  <2> QED BY <2>2, <2>5
<1>8. Complete(run, tree) /\ run.event \in [DOMAIN tree -> Nodes \cup Written]
  BY <1>4, <1>5, <1>6, <1>7 DEF Languages
<1> HIDE DEF run
<1>9. Anonymous(Resolved(run)) = SpokenTree(tree)
  BY <1>1, <1>8, CompleteSpoken
<1> QED BY <1>2, <1>9 DEF tree

(* What two SDKs can express and both accept becomes the same event in     *)
(* both, but for the identities made up; where LanguagesAgree allows for a *)
(* dispute too, so that SDKs only ever differ in what they refuse.         *)
AcceptedAlike ==
  \A x, y \in Languages :
    /\ Expresses(x, Meant) /\ Outcome(x, Meant) # {}
    /\ Expresses(y, Meant) /\ Outcome(y, Meant) # {}
    => Outcome(x, Meant) = Outcome(y, Meant)

(* Whatever the plan, the host values and the calls: no two SDKs send      *)
(* different events for one input (into_host_event, projectHostContent,    *)
(* projectHostEvent, _project_host_content).                               *)
THEOREM AlwaysAcceptedAlike == Spec => []AcceptedAlike
<1>1. IdsInv => AcceptedAlike
  <2>1. SUFFICES ASSUME IdsInv,
                        NEW x \in Languages, Expresses(x, Meant), Outcome(x, Meant) # {},
                        NEW y \in Languages, Expresses(y, Meant), Outcome(y, Meant) # {}
                 PROVE  Outcome(x, Meant) = Outcome(y, Meant)
    BY DEF AcceptedAlike
  <2>2. GivenInv
    BY <2>1 DEF IdsInv
  <2>3. Outcome(x, Meant) = {SpokenTree(Meant)}
    BY <2>1, <2>2, OutcomeSpoken
  <2>4. Outcome(y, Meant) = {SpokenTree(Meant)}
    BY <2>1, <2>2, OutcomeSpoken
  <2> QED BY <2>3, <2>4
<1> QED BY <1>1, IdsAlways, PTL

=================================================================================
