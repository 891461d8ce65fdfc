------------------------------- MODULE MCCiReports -------------------------------
(* Bounded instances of CiReports for TLC: workflows of two or three jobs, *)
(* regular ones and ones whose jobs do not go together.                    *)
EXTENDS CiReports

Heavy == (1 :> 1) @@ (2 :> 4) @@ (3 :> 2)

MCCourses == {<<>>, <<"skipped">>, <<"failed", "skipped">>}
MCClassOf  == (1 :> "A") @@ (2 :> "A") @@ (3 :> "B") @@ (4 :> "C") @@ (5 :> "C")
MCModuleOf == (1 :> "M") @@ (2 :> "M") @@ (3 :> "M") @@ (4 :> "N") @@ (5 :> "N")

UnitJob(index, count, isolated, timings, inventory) ==
  [call |-> [index |-> index, count |-> count, isolated |-> isolated, timings |-> timings],
   inventory |-> inventory, broken |-> FALSE]

Regularly(jobs, count, isolated, timings, inventory) ==
  [j \in Shards(jobs) |-> UnitJob(j, count, isolated, timings, inventory)]

Plain == Regularly(2, 2, <<>>, NoTimings, 1..3)

MCUnitWorkflows ==
  {Regularly(2, 2, isolated, timings, 1..3) :
     isolated \in {<<>>, <<2>>, <<3, 1, 2>>}, timings \in {NoTimings, Heavy}}
  \cup {Regularly(2, 2, <<2, 2>>, NoTimings, 1..3), Regularly(2, 2, <<4>>, NoTimings, 1..3),
        Regularly(2, 2, <<>>, NoTimings, {}), Regularly(2, 2, <<>>, Heavy, 1..5),
        Regularly(2, 2, <<>>, Heavy, {2}), Regularly(3, 3, <<>>, Heavy, 1..3), Regularly(3, 2, <<>>, Heavy, 1..3),
        [Plain EXCEPT ![1].call.timings = 1 :> 5], [Plain EXCEPT ![1].call.isolated = <<1>>],
        [Plain EXCEPT ![1].call.count = 3], [Plain EXCEPT ![1].call.index = 0],
        [Plain EXCEPT ![1].inventory = 1..2], [Plain EXCEPT ![1].broken = TRUE]}

SuiteJob(index, count, grid, scenarios) ==
  [shard |-> [index |-> index, count |-> count, grid |-> grid, scenarios |-> scenarios], reused |-> FALSE]

Everywhere(id) == [id |-> id, applies |-> {"a", "b", "c"}]
Somewhere(id)  == [id |-> id, applies |-> {"a"}]

Scenarios == <<Everywhere("s"), Somewhere("t")>>

Pair == [j \in Shards(2) |-> SuiteJob(j, 2, <<"a", "b", "c">>, Scenarios)]

PairOf(scenarios) == [j \in Shards(2) |-> [Pair[j] EXCEPT !.shard.scenarios = scenarios]]

MCSuiteWorkflows ==
  {Pair, [j \in Shards(2) |-> [Pair[j] EXCEPT !.reused = TRUE]],
   [Pair EXCEPT ![1].shard.grid = <<"b", "c", "a">>], [Pair EXCEPT ![1].shard.scenarios = <<Everywhere("s")>>],
   [Pair EXCEPT ![1].shard.index = 0],
   PairOf(<<Somewhere("s"), Everywhere("s")>>), PairOf(<<Somewhere("s"), [id |-> "s", applies |-> {"b"}]>>)}

MCTimings ==
  {NoTimings, Heavy, 1 :> 5} \cup [{1, 2, 4} -> {0, 2}] \cup [{2, 3, 5} -> {3, 5}]

(* The jobs share nothing before the check: a job may as well wait until   *)
(* the ones before it have come to their end.                              *)
InOrder(j) ==
  IF kind = "unit" THEN \A i \in DOMAIN unit : i < j => UnitDone(i)
                   ELSE \A i \in DOMAIN runner : i < j => SuiteDone(i)

(* Bound: how many fixtures of one job fail or skip.                       *)
FewFixtures(j) == Cardinality(unit[j].fixtures) <= 1

MCNext ==
  \/ \E j \in DOMAIN unit : InOrder(j) /\ UnitMoves(j) /\ FewFixtures(j)'
  \/ \E j \in DOMAIN runner : InOrder(j) /\ SuiteMoves(j)
  \/ Verify

MCSpec ==
  /\ Init /\ [][MCNext]_vars
  /\ \A j \in Shards(Count) : WF_vars(j \in DOMAIN runner /\ InOrder(j) /\ RunnerMoves(j))
===============================================================================
