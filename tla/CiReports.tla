-------------------------------- MODULE CiReports --------------------------------
(***************************************************************************)
(* tools/check_ci_reports.py, the last step of the required SDK            *)
(* integration check: from the reports that the jobs left, and from        *)
(* nothing else, it decides whether all tests and all groups of a matrix   *)
(* ran, each once, and passed.  Jobs are independent processes that may be *)
(* killed, and that may have been started with arguments or from checkouts *)
(* that do not go together.                                                *)
(***************************************************************************)
EXTENDS UnitShards, SuiteRunner

CONSTANTS
  Count,           \* how many shards the check expects of its kind
  Timings,         \* what a job may be given as its --duration-file
  UnitWorkflows,   \* per job: its call, what its checkout holds
  SuiteWorkflows   \* per job: its arguments, what its checkout holds

ASSUME CountAssumption == Count \in Nat \ {0}

(* read_durations refuses a file with anything but nonnegative numbers.    *)
ASSUME TimingsAssumption ==
  \A timings \in Timings : timings = NoTimings \/ \A t \in DOMAIN timings : timings[t] \in Nat

(* The names under which TimedResult records an outcome.                   *)
ASSUME CoursesAssumption ==
  Courses \subseteq Seq({"error", "failed", "skipped", "expected_failure", "unexpected_success"})

(* Discovery is refused unless it yields finitely many different tests;    *)
(* the arguments are numbers and a list of tests.                          *)
ASSUME UnitAssumption ==
  \A workflow \in UnitWorkflows : \A j \in DOMAIN workflow :
    /\ workflow[j].inventory \subseteq Int /\ IsFiniteSet(workflow[j].inventory)
    /\ workflow[j].call \in [index : Int, count : Int, isolated : Seq(Int), timings : Timings]

(* A grid is a product of languages, transports and modes: none twice.     *)
ASSUME SuiteAssumption ==
  \A workflow \in SuiteWorkflows : \A j \in DOMAIN workflow :
    LET given == workflow[j].shard IN
    /\ DOMAIN given = {"index", "count", "grid", "scenarios"}
    /\ given.grid \in Seq(ToSet(given.grid)) /\ IsInjective(given.grid)

VARIABLES
  kind,      \* whose reports are looked at: "unit" or "suite"
  verdict    \* "none", "passed" or "failed"

vars == <<unitVars, suiteVars, kind, verdict>>

(* artifact_reports: one artifact per expected index and no other, each    *)
(* with a report that passed and that names its own place.                 *)
Artifacts(left) == {j \in DOMAIN left : left[j] # Missing}

artifact_reports(left) ==
  /\ Artifacts(left) = Shards(Count)
  /\ \A j \in Artifacts(left) :
       left[j].status = "passed" /\ left[j].index = j /\ left[j].count = Count

\* mutant of verify_partition: shares may overlap
PartitionOverlapping(inventory, assigned) ==
  /\ inventory[0] # {}
  /\ \A i \in DOMAIN inventory : inventory[i] = inventory[0] /\ assigned[i] \subseteq inventory[0]
  /\ UNION {assigned[i] : i \in DOMAIN assigned} = inventory[0]

\* mutant of verify_partition: no shard may be empty
PartitionNonempty(inventory, assigned) ==
  /\ inventory[0] # {}
  /\ \A i \in DOMAIN inventory :
       inventory[i] = inventory[0] /\ assigned[i] # {} /\ assigned[i] \subseteq inventory[0]
  /\ \A i, j \in DOMAIN assigned : i # j => assigned[i] \cap assigned[j] = {}
  /\ UNION {assigned[i] : i \in DOMAIN assigned} = inventory[0]

(* verify_partition: one inventory, shares that are disjoint and exhaust   *)
(* it.                                                                     *)
verify_partition(inventory, assigned) ==
  /\ inventory[0] # {}
  /\ \A i \in DOMAIN inventory : inventory[i] = inventory[0] /\ assigned[i] \subseteq inventory[0]
  /\ \A i, j \in DOMAIN assigned : i # j => assigned[i] \cap assigned[j] = {}
  /\ UNION {assigned[i] : i \in DOMAIN assigned} = inventory[0]

verify_units(left) ==
  /\ artifact_reports(left)
  /\ verify_partition([i \in Shards(Count) |-> left[i].inventory], [i \in Shards(Count) |-> left[i].assigned])
  /\ \A i \in Shards(Count) : left[i].isolated = left[0].isolated
  /\ left[0].isolated \subseteq left[0].inventory
  /\ left[0].isolated # {} => Count >= 2 /\ left[0].assigned = left[0].isolated
  /\ \A i \in Shards(Count) :
       /\ DOMAIN left[i].results = left[i].assigned
       /\ \A t \in DOMAIN left[i].results : left[i].results[t] \in {"passed", "skipped", "expected_failure"}
       /\ left[i].clean

\* mutant of verify_scenarios: no group may leave a scenario out
ScenariosEverywhere(coverage) ==
  \A i \in DOMAIN coverage : \A k \in DOMAIN coverage[i].inventory :
    coverage[i].inventory[k].excluded = <<>>

(* One inventory of scenarios, of the very groups; in each group no ID     *)
(* twice, and none both selected and excluded.                             *)
verify_scenarios(coverage) ==
  LET inventory == coverage[0].inventory
      groups    == [k \in DOMAIN inventory |-> inventory[k].group]
  IN  /\ inventory # <<>>
      /\ \A i \in DOMAIN coverage : coverage[i].inventory = inventory
      /\ IsInjective(groups) /\ ToSet(groups) = coverage[0].expected
      /\ \A k \in DOMAIN inventory :
           /\ IsInjective(inventory[k].selected) /\ IsInjective(inventory[k].excluded)
           /\ ToSet(inventory[k].selected) \cap ToSet(inventory[k].excluded) = {}

verify_integration(left) ==
  /\ artifact_reports(left)
  /\ \A i \in Shards(Count) :
       LET row == left[i].row IN
       /\ row.status = "passed" /\ left[i].sound
       /\ row.coverage.index = i /\ row.coverage.count = Count /\ row.coverage.complete
       /\ row.coverage.scenarios = left[0].row.coverage.scenarios
       /\ row.coverage.completed = row.coverage.assigned
  /\ verify_partition([i \in Shards(Count) |-> left[i].row.coverage.expected],
                      [i \in Shards(Count) |-> left[i].row.coverage.assigned])
  /\ verify_scenarios([i \in Shards(Count) |-> left[i].row.coverage])

Summaries == [j \in DOMAIN files |-> files[j].summary]

(* The check runs when all jobs have come to an end.                       *)
Verify ==
  /\ verdict = "none"
  /\ \/ /\ kind = "unit" /\ \A j \in DOMAIN unit : UnitDone(j)
        /\ verdict' = IF verify_units(reports) THEN "passed" ELSE "failed"
     \/ /\ kind = "suite" /\ \A j \in DOMAIN runner : SuiteDone(j)
        /\ verdict' = IF verify_integration(Summaries) THEN "passed" ELSE "failed"
  /\ UNCHANGED <<unitVars, suiteVars, kind>>

-------------------------------------------------------------------------------
(* Nothing runs yet; a reports directory may be that of an earlier run.    *)
UnitInit ==
  /\ kind = "unit"
  /\ \E workflow \in UnitWorkflows :
       /\ call = [j \in DOMAIN workflow |-> workflow[j].call]
       /\ unit = [j \in DOMAIN workflow |-> NotStarted(workflow[j].inventory, workflow[j].broken)]
       /\ reports = [j \in DOMAIN workflow |-> Missing]
  /\ shard = <<>> /\ runner = <<>> /\ suite = <<>> /\ files = <<>>

SuiteInit ==
  /\ kind = "suite"
  /\ \E workflow \in SuiteWorkflows :
       /\ shard = [j \in DOMAIN workflow |-> workflow[j].shard]
       /\ runner = [j \in DOMAIN workflow |-> [at |-> "starting", sound |-> FALSE, row |-> NoRow]]
       /\ suite = [j \in DOMAIN workflow |-> NotRunning]
       /\ files = [j \in DOMAIN workflow |->
                     IF workflow[j].reused
                       THEN [report |-> StaleReport(j), summary |-> StaleSummary(j)]
                       ELSE [report |-> Missing, summary |-> Missing]]
  /\ call = <<>> /\ unit = <<>> /\ reports = <<>>

Init == verdict = "none" /\ (UnitInit \/ SuiteInit)

UnitMoves(j)  == kind = "unit" /\ UnitStep(j) /\ UNCHANGED <<suiteVars, kind, verdict>>
SuiteMoves(j) == kind = "suite" /\ SuiteStep(j) /\ UNCHANGED <<unitVars, kind, verdict>>

Next ==
  \/ \E j \in DOMAIN unit : UnitMoves(j)
  \/ \E j \in DOMAIN runner : SuiteMoves(j)
  \/ Verify

Spec == Init /\ [][Next]_vars

(* A runner goes on and its timeout comes; the suite owes nothing.         *)
RunnerMoves(j) == kind = "suite" /\ RunnerStep(j) /\ UNCHANGED <<unitVars, kind, verdict>>

-------------------------------------------------------------------------------
(* Every test falls to exactly one shard, whatever was measured, isolated  *)
(* tests are alone in the first one, and the others are balanced.          *)
TestsDivided ==
  \A j \in DOMAIN unit : unit[j].at = "started" =>
    \A timings \in Timings, n \in 1..(Count + 1) :
      \A shards \in allocate(unit[j].inventory, n, timings, call[j].isolated) :
        LET others == IF call[j].isolated = <<>> THEN DOMAIN shards ELSE DOMAIN shards \ {0}
        IN  /\ Partitions(shards, unit[j].inventory)
            /\ call[j].isolated # <<>> => shards[0] = ToSet(call[j].isolated)
            /\ Even([i \in others |-> shards[i]], timings)

(* Every group of a matrix falls to exactly one shard, and no shard has    *)
(* two groups more than another.                                           *)
GroupsDivided ==
  \A j \in DOMAIN runner : runner[j].at = "starting" =>
    \A n \in 1..(Count + 1) :
      LET shares == [i \in Shards(n) |-> Stride(shard[j].grid, i, n)]
      IN  Partitions(shares, Grid(j)) /\ Even(shares, NoTimings)

(* The two ways in which continuous integration divides its work, for the  *)
(* expected number of shards and for any other that a job may be given.    *)
AllocationSound == TestsDivided /\ GroupsDivided

Ran(j, t) == t \in DOMAIN unit[j].courses
Passes(course) == \A i \in DOMAIN course : course[i] \notin Bad

(* When the check is green, every test that a shard discovered was the     *)
(* task of exactly one, which ran it or skipped its class or module; no    *)
(* part of any test failed, although a later outcome of a test hides an    *)
(* earlier one, and no fixture did, although no test shows it.  And every  *)
(* group of the matrix fell to exactly one suite, which ran to its end     *)
(* after a sound preparation.  Of a directory that holds the summary of an *)
(* earlier run and none of this one, only the division is known.           *)
UnitsRan ==
  /\ \A j \in Artifacts(reports) : \A f \in unit[j].fixtures : f[2] # "error"
  /\ \A t \in UNION {unit[j].inventory : j \in Artifacts(reports)} :
       /\ Cardinality({j \in Artifacts(reports) : t \in unit[j].assigned}) = 1
       /\ \A j \in Artifacts(reports) : t \in unit[j].assigned =>
            IF Ran(j, t) THEN Passes(unit[j].courses[t]) ELSE Skipped(unit[j], t)

SuitesRan ==
  \A j \in Artifacts(Summaries) :
    /\ files[j].summary.fresh =>
         runner[j].sound /\ suite[j].state = "exited" /\ suite[j].code = 0 /\ Reported(j)
    /\ \A g \in Grid(j) : Cardinality({i \in Artifacts(Summaries) : g \in Assigned(i)}) = 1

GreenIsTrue ==
  verdict = "passed" => (kind = "unit" => UnitsRan) /\ (kind = "suite" => SuitesRan)

DistinctIds(j) ==
  \A a, b \in DOMAIN shard[j].scenarios :
    shard[j].scenarios[a].id = shard[j].scenarios[b].id => a = b

(* When all shards were started as the check expects, from the same        *)
(* checkout whose scenarios have IDs of their own, ran to their end and    *)
(* nothing failed, the check is green: however the work was divided, empty *)
(* shards included.                                                        *)
Regular ==
  IF kind = "unit"
    THEN /\ DOMAIN unit = Shards(Count)
         /\ \A j \in DOMAIN unit :
              /\ unit[j].at = "ended" /\ call[j] = [call[0] EXCEPT !.index = j] /\ call[j].count = Count
              /\ unit[j].inventory = unit[0].inventory /\ Allocated(j) # {}
              /\ Successful(unit[j])
    ELSE /\ DOMAIN runner = Shards(Count)
         /\ \A j \in DOMAIN runner :
              /\ runner[j].at = "ended" /\ runner[j].sound /\ suite[j].state = "exited" /\ suite[j].code = 0
              /\ shard[j] = [shard[0] EXCEPT !.index = j] /\ shard[j].count = Count
              /\ Grid(j) # {} /\ runner[j].row.status # "timeout"
              /\ DistinctIds(j)

TrueIsGreen == verdict # "none" /\ Regular => verdict = "passed"

(* A runner that got going ends, and of a suite that outstayed its timeout *)
(* or was terminated with it no process of the group is left, unless       *)
(* somebody ended the runner in a way it cannot pass on.                   *)
LeavesNothing(j) ==
  /\ (j \in DOMAIN runner /\ runner[j].at = "ready") ~> (j \in DOMAIN runner /\ SuiteDone(j))
  /\ (j \in DOMAIN runner /\ runner[j].at \in {"expired", "terminated"})
       ~> (j \in DOMAIN runner /\ (runner[j].at = "aborted" \/ suite[j].alive = {}))

RunnersLeaveNothing == \A j \in Shards(Count) : LeavesNothing(j)
===============================================================================
