------------------------------- MODULE UnitShards -------------------------------
(***************************************************************************)
(* The unit-test shards of continuous integration: processes of            *)
(* tools/run_unit_shard.py that discover the tests of their own checkout,  *)
(* run the share that is theirs and leave a report.  A test may report     *)
(* several outcomes, the set-up of a class or a module may stop its tests, *)
(* a tear-down may fail, and the process deadline or a test may end the    *)
(* process at any time.                                                    *)
(***************************************************************************)
EXTENDS ShardAllocation

CONSTANTS
  Courses,   \* what a test reports: sequences of the result's add calls
  ClassOf,   \* the class of each test
  ModuleOf   \* the module of each test

VARIABLES
  call,      \* per job: its arguments
  unit,      \* per job: where it is and what its tests did
  reports    \* per job: its report

unitVars == <<call, unit, reports>>

(* What discovery yields in a checkout: test IDs, or a failed import.      *)
NotStarted(inventory, broken) ==
  [at |-> "started", inventory |-> inventory, broken |-> broken,
   assigned |-> {}, waiting |-> {}, courses |-> <<>>, fixtures |-> {}]

(* A report is clean when its lists of errors, failures and unexpected     *)
(* successes are there and empty.                                          *)
Report(j, status) ==
  [status |-> status, index |-> call[j].index, count |-> call[j].count,
   isolated |-> ToSet(call[j].isolated), inventory |-> {}, assigned |-> {},
   results |-> <<>>, clean |-> FALSE]

Writes(j, report) == reports' = [reports EXCEPT ![j] = report]

-------------------------------------------------------------------------------
(* Wrong arguments, a failed import, nothing to run or an allocation that  *)
(* raises: no test runs.                                                   *)
Discovered(j) ==
  IF call[j].index \notin Shards(call[j].count) \/ unit[j].broken THEN {} ELSE unit[j].inventory

Allocated(j) ==
  IF Discovered(j) = {} THEN {}
  ELSE allocate(Discovered(j), call[j].count, call[j].timings, call[j].isolated)

Refuse(j) ==
  /\ unit[j].at = "started" /\ Allocated(j) = {}
  /\ unit' = [unit EXCEPT ![j].at = "ended"]
  /\ Writes(j, [Report(j, "error") EXCEPT !.inventory = Discovered(j)])
  /\ UNCHANGED call

(* The inventory is written before the first test runs.                    *)
Begin(j) ==
  /\ unit[j].at = "started"
  /\ \E shards \in Allocated(j) :
       LET assigned == shards[call[j].index]
       IN  /\ unit' = [unit EXCEPT ![j].at = "running", ![j].assigned = assigned, ![j].waiting = assigned]
           /\ Writes(j, [Report(j, "running") EXCEPT !.inventory = unit[j].inventory, !.assigned = assigned])
  /\ UNCHANGED call

-------------------------------------------------------------------------------
(* Tests run in discovery order.                                           *)
Turn(j) == Min(unit[j].waiting)
Runs(j) == unit[j].at = "running" /\ unit[j].waiting # {}

Noted(courses, t, course) ==
  [u \in DOMAIN courses \cup {t} |-> IF u = t THEN course ELSE courses[u]]

RunTest(j) ==
  /\ Runs(j)
  /\ \E course \in Courses :
       unit' = [unit EXCEPT ![j].courses = Noted(@, Turn(j), course), ![j].waiting = @ \ {Turn(j)}]
  /\ UNCHANGED <<call, reports>>

(* Fixtures are known by the names of unittest's stand-ins for them.       *)
SetUps(t)       == {<<"setUpModule", ModuleOf[t]>>, <<"setUpClass", ClassOf[t]>>}
Under(j, setUp) == {u \in unit[j].assigned : setUp \in SetUps(u)}

(* The set-up of a module or a class fails or skips before its first test: *)
(* unittest reports a stand-in, and none of the tests under it starts.     *)
FixtureStops(j) ==
  /\ Runs(j)
  /\ \E setUp \in SetUps(Turn(j)), outcome \in {"error", "skipped"} :
       /\ Under(j, setUp) \subseteq unit[j].waiting
       /\ unit' = [unit EXCEPT ![j].fixtures = @ \cup {<<setUp, outcome>>}, ![j].waiting = @ \ Under(j, setUp)]
  /\ UNCHANGED <<call, reports>>

(* The tear-down of a class or a module fails after its last test.  There  *)
(* is none where the set-up of the same, or of its module, did not succeed.*)
Stopped(j, setUp) == \E outcome \in {"error", "skipped"} : <<setUp, outcome>> \in unit[j].fixtures
Behind(j, setUp)  == Under(j, setUp) \cap unit[j].waiting = {} /\ ~ Stopped(j, setUp)
Fails(j, fixture) == unit' = [unit EXCEPT ![j].fixtures = @ \cup {<<fixture, "error">>}]

TearDownFails(j) ==
  /\ unit[j].at = "running" /\ unit[j].waiting # unit[j].assigned
  /\ LET last   == Max(unit[j].assigned \ unit[j].waiting)
         class  == <<"setUpClass", ClassOf[last]>>
         module == <<"setUpModule", ModuleOf[last]>>
     IN  \/ Behind(j, class) /\ ~ Stopped(j, module) /\ Fails(j, <<"tearDownClass", ClassOf[last]>>)
         \/ Behind(j, module) /\ Fails(j, <<"tearDownModule", ModuleOf[last]>>)
  /\ UNCHANGED <<call, reports>>

Bad == {"error", "failed", "unexpected_success"}

(* TimedResult.records: each outcome replaces the one before.              *)
Status(course) == IF course = <<>> THEN "passed" ELSE Last(course)

(* propagate_fixture_skips: a skipped set-up is the outcome of its tests.  *)
Skipped(u, t) == \E setUp \in SetUps(t) : <<setUp, "skipped">> \in u.fixtures

Row(u, t) ==
  IF t \in DOMAIN u.courses THEN Status(u.courses[t])
  ELSE IF Skipped(u, t) THEN "skipped"
  ELSE "not_run"

\* mutant of Clean: only what has a row among the results is looked at
CleanRows(u) ==
  \A t \in DOMAIN u.courses : \A i \in DOMAIN u.courses[t] : u.courses[t][i] \notin Bad

(* The lists of errors, failures and unexpected successes are empty.       *)
Clean(u) ==
  /\ \A t \in DOMAIN u.courses : \A i \in DOMAIN u.courses[t] : u.courses[t][i] \notin Bad
  /\ \A f \in u.fixtures : f[2] # "error"

(* wasSuccessful, and nothing was left out.                                *)
Successful(u) == Clean(u) /\ \A t \in u.assigned : Row(u, t) # "not_run"

Finish(j) ==
  /\ unit[j].at = "running" /\ unit[j].waiting = {}
  /\ unit' = [unit EXCEPT ![j].at = "ended"]
  /\ Writes(j, [Report(j, IF Successful(unit[j]) THEN "passed" ELSE "failed") EXCEPT
                  !.inventory = unit[j].inventory, !.assigned = unit[j].assigned,
                  !.results = [t \in unit[j].assigned |-> Row(unit[j], t)], !.clean = Clean(unit[j])])
  /\ UNCHANGED call

(* The deadline, or a test that takes the process with it.                 *)
KillUnit(j) ==
  /\ unit[j].at \in {"started", "running"}
  /\ unit' = [unit EXCEPT ![j].at = "killed"]
  /\ UNCHANGED <<call, reports>>

UnitStep(j) ==
  \/ Refuse(j) \/ Begin(j) \/ RunTest(j) \/ FixtureStops(j) \/ TearDownFails(j) \/ Finish(j) \/ KillUnit(j)

UnitDone(j) == unit[j].at \in {"ended", "killed"}
===============================================================================
