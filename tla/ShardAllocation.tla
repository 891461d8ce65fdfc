----------------------------- MODULE ShardAllocation -----------------------------
(***************************************************************************)
(* How continuous integration divides its work: the tests of a suite over  *)
(* unit shards (tools/run_unit_shard.py), and the groups of a matrix over  *)
(* the shards of an integration suite.  Test IDs are numbers in the order  *)
(* their names sort, durations are whole, shards count from zero.          *)
(***************************************************************************)
EXTENDS Integers, Sequences, FiniteSets, FiniteSetsExt, SequencesExt

CONSTANT NoTimings   \* no --duration-file

Missing == [status |-> "missing"]   \* no such file

Shards(n) == 0..(n - 1)

(* Without timings: sorted IDs, round robin.                               *)
Rank(ids, t) == Cardinality({u \in ids : u < t})

RoundRobin(ids, n) == [i \in Shards(n) |-> {t \in ids : Rank(ids, t) % n = i}]

-------------------------------------------------------------------------------
(* With timings: longest first, each to the shard with the least load, the *)
(* fewest tests, the lowest index.  A test without a timing takes one.     *)
Duration(timings, t) == IF t \in DOMAIN timings THEN timings[t] ELSE 1

Load(timings, shard) == MapThenSumSet(LAMBDA t : Duration(timings, t), shard)

Precedes(timings, s, t) ==
  \/ Duration(timings, s) > Duration(timings, t)
  \/ Duration(timings, s) = Duration(timings, t) /\ s < t

Place(ids, timings, t) == Cardinality({s \in ids : Precedes(timings, s, t)})

LongestFirst(ids, timings) ==
  [i \in 1..Cardinality(ids) |-> CHOOSE t \in ids : Place(ids, timings, t) = i - 1]

Before(timings, shards, i, j) ==
  LET li == Load(timings, shards[i])  lj == Load(timings, shards[j])
      ci == Cardinality(shards[i])    cj == Cardinality(shards[j])
  IN  li < lj \/ (li = lj /\ (ci < cj \/ (ci = cj /\ i <= j)))

\* mutant of Lightest: the load is not looked at, only the number of tests
Emptiest(timings, shards) ==
  CHOOSE i \in DOMAIN shards :
    \A j \in DOMAIN shards : Cardinality(shards[i]) <= Cardinality(shards[j])

Lightest(timings, shards) ==
  CHOOSE i \in DOMAIN shards : \A j \in DOMAIN shards : Before(timings, shards, i, j)

Greedy(ids, n, timings) ==
  FoldLeft(LAMBDA shards, t : [shards EXCEPT ![Lightest(timings, shards)] = @ \cup {t}],
           [i \in Shards(n) |-> {}], LongestFirst(ids, timings))

-------------------------------------------------------------------------------
Balanced(ids, n, timings) ==
  IF timings = NoTimings THEN RoundRobin(ids, n) ELSE Greedy(ids, n, timings)

(* Isolated tests have the first shard to themselves; {} when it raises.   *)
allocate(ids, n, timings, isolated) ==
  IF isolated = <<>> THEN {Balanced(ids, n, timings)}
  ELSE IF n < 2 \/ ~ IsInjective(isolated) \/ ~ ToSet(isolated) \subseteq ids THEN {}
  ELSE {[i \in Shards(n) |->
           IF i = 0 THEN ToSet(isolated)
           ELSE Balanced(ids \ ToSet(isolated), n - 1, timings)[i - 1]]}

\* mutant of Stride: the end of the grid is left out
StrideShort(grid, i, n) == {grid[k] : k \in {m \in 1..(Len(grid) - 1) : (m - 1) % n = i}}

(* partition_pairs and partition_groups: a stride through the grid.        *)
Stride(grid, i, n) == {grid[k] : k \in {m \in DOMAIN grid : (m - 1) % n = i}}

-------------------------------------------------------------------------------
Partitions(shards, ids) ==
  /\ UNION {shards[i] : i \in DOMAIN shards} = ids
  /\ \A i, j \in DOMAIN shards : i # j => shards[i] \cap shards[j] = {}

(* No shard is ahead of another by more than the shortest of its own tests *)
(* takes: it was the least loaded one when it got that test.               *)
Even(shards, timings) ==
  IF timings = NoTimings
    THEN \A i, j \in DOMAIN shards : Cardinality(shards[i]) <= Cardinality(shards[j]) + 1
    ELSE \A i, j \in DOMAIN shards :
           \A t \in shards[i] : Load(timings, shards[i]) - Duration(timings, t) <= Load(timings, shards[j])
===============================================================================
