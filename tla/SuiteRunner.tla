------------------------------- MODULE SuiteRunner -------------------------------
(***************************************************************************)
(* tools/run_sdk_integration.py for one sharded suite: it starts the suite *)
(* in a session of its own, waits for it with a timeout, passes a SIGTERM  *)
(* on to it, and states in summary.json what its report covers.  The suite *)
(* is a matrix that works on the groups of its shard and writes its report *)
(* last.  A reports directory may hold files of an earlier run.            *)
(***************************************************************************)
EXTENDS ShardAllocation

VARIABLES
  shard,       \* per job: its arguments, and its checkout's scenarios and grid;
               \*   a scenario has an ID and applies to some of the groups
  runner,      \* per job: where the runner is and the row of the suite
  suite,       \* per job: the suite's process and what is alive of its group
  files        \* per job: the reports directory

suiteVars == <<shard, runner, suite, files>>

NoRow      == [status |-> "none", coverage |-> Missing]
NotRunning == [state |-> "none", code |-> 0, alive |-> {}]

Grid(j)      == ToSet(shard[j].grid)
Assigned(j)  == Stride(shard[j].grid, shard[j].index, shard[j].count)

(* transport_scenarios: the IDs of the scenarios of a group, and of those  *)
(* that it leaves out, each at its place in the file.                      *)
Ids(scenarios, places) == [k \in places |-> scenarios[k].id]

Selected(scenarios, g) == Ids(scenarios, {k \in DOMAIN scenarios : g \in scenarios[k].applies})
Excluded(scenarios, g) == Ids(scenarios, {k \in DOMAIN scenarios : g \notin scenarios[k].applies})

(* The report of a matrix, with coverage_inventory's view of it.           *)
Inventory(j) ==
  [k \in DOMAIN shard[j].grid |->
     LET g == shard[j].grid[k]
     IN  [group |-> g, selected |-> Selected(shard[j].scenarios, g), excluded |-> Excluded(shard[j].scenarios, g)]]

Coverage(j, completed) ==
  [index |-> shard[j].index, count |-> shard[j].count, scenarios |-> shard[j].scenarios,
   expected |-> Grid(j), assigned |-> Assigned(j), completed |-> completed,
   inventory |-> Inventory(j), complete |-> completed = Assigned(j), fresh |-> TRUE]

(* What an earlier run of the same shard may have left.                    *)
StaleReport(j)  == [Coverage(j, Assigned(j)) EXCEPT !.fresh = FALSE]
StaleSummary(j) ==
  [status |-> "passed", index |-> shard[j].index, count |-> shard[j].count, sound |-> TRUE,
   row |-> [status |-> "passed", coverage |-> StaleReport(j)], fresh |-> FALSE]

At(j, point)         == runner' = [runner EXCEPT ![j].at = point]
Leave(j, point, row) == runner' = [runner EXCEPT ![j].at = point, ![j].row = row]

-------------------------------------------------------------------------------
(* The suite's report is removed before anything can fail; the binaries of *)
(* the adapters are there or not, their manifests are valid or not: only   *)
(* when both hold is the preparation sound.                                *)
Prepare(j) ==
  /\ runner[j].at = "starting"
  /\ files' = [files EXCEPT ![j].report = Missing]
  /\ \E built, manifests \in BOOLEAN :
       runner' = [runner EXCEPT ![j].at = IF built THEN "ready" ELSE "summing",
                                ![j].sound = built /\ manifests]
  /\ UNCHANGED <<shard, suite>>

(* Popen returns, or raises OSError.                                       *)
Launch(j) ==
  /\ runner[j].at = "ready"
  /\ \/ /\ At(j, "launched")
        /\ suite' = [suite EXCEPT ![j] = [state |-> "running", code |-> 0, alive |-> {"suite", "helper"}]]
     \/ /\ Leave(j, "reading", [NoRow EXCEPT !.status = "failed"])
        /\ UNCHANGED suite
  /\ UNCHANGED <<shard, files>>

InstallHandler(j) ==
  /\ runner[j].at = "launched"
  /\ At(j, "waiting")
  /\ UNCHANGED <<shard, suite, files>>

(* process.wait returns the exit code.                                     *)
Collect(j) ==
  /\ runner[j].at = "waiting" /\ suite[j].state = "exited"
  /\ Leave(j, "reading", [NoRow EXCEPT !.status = IF suite[j].code = 0 THEN "passed" ELSE "failed"])
  /\ UNCHANGED <<shard, suite, files>>

(* TimeoutExpired is raised; the suite may still end by itself before the  *)
(* signal.                                                                 *)
Expire(j) ==
  /\ runner[j].at = "waiting" /\ suite[j].state = "running"
  /\ At(j, "expired")
  /\ UNCHANGED <<shard, suite, files>>

Killed(process) ==
  [state |-> IF process.state = "running" THEN "killed" ELSE process.state,
   code  |-> process.code, alive |-> {}]

\* mutant of KillGroup: only the suite's own process is killed
KillSuite(j) ==
  /\ runner[j].at = "expired"
  /\ suite' = [suite EXCEPT ![j] = [Killed(@) EXCEPT !.alive = suite[j].alive \ {"suite"}]]
  /\ Leave(j, "reading", [NoRow EXCEPT !.status = "timeout"])
  /\ UNCHANGED <<shard, files>>

(* killpg and wait: whoever is left of the group is gone.                  *)
KillGroup(j) ==
  /\ runner[j].at = "expired"
  /\ suite' = [suite EXCEPT ![j] = Killed(@)]
  /\ Leave(j, "reading", [NoRow EXCEPT !.status = "timeout"])
  /\ UNCHANGED <<shard, files>>

(* The row takes over the report's coverage, if it is that of this shard.  *)
Covered(j, report) ==
  report.index = shard[j].index /\ report.count = shard[j].count /\ report.complete

ReadCoverage(j) ==
  /\ runner[j].at = "reading"
  /\ LET report == files[j].report IN
       Leave(j, "summing",
         [status   |-> IF report # Missing /\ Covered(j, report) THEN runner[j].row.status ELSE "failed",
          coverage |-> report])
  /\ UNCHANGED <<shard, suite, files>>

Summarize(j) ==
  /\ runner[j].at = "summing"
  /\ At(j, "ended")
  /\ files' = [files EXCEPT ![j].summary =
                 [status |-> IF runner[j].sound /\ runner[j].row.status = "passed" THEN "passed" ELSE "failed",
                  index |-> shard[j].index, count |-> shard[j].count, sound |-> runner[j].sound,
                  row |-> runner[j].row, fresh |-> TRUE]]
  /\ UNCHANGED <<shard, suite>>

(* SIGTERM while the handler is installed.                                 *)
Guarding(j) == runner[j].at \in {"waiting", "expired"}

Terminate(j) ==
  /\ Guarding(j)
  /\ suite' = [suite EXCEPT ![j] = Killed(@)]
  /\ At(j, "terminated")
  /\ UNCHANGED <<shard, files>>

(* SIGTERM at any other time, SIGINT and SIGKILL end the runner alone.     *)
Abort(j) ==
  /\ runner[j].at \notin {"ended", "terminated", "aborted"}
  /\ At(j, "aborted")
  /\ UNCHANGED <<shard, suite, files>>

RunnerStep(j) ==
  \/ Prepare(j) \/ Launch(j) \/ InstallHandler(j) \/ Collect(j) \/ Expire(j)
  \/ KillGroup(j) \/ ReadCoverage(j) \/ Summarize(j)

-------------------------------------------------------------------------------
(* The suite's own process: all of its groups passed or some did not, the  *)
(* report, the exit.  It may hang, or end before its report.               *)
Reported(j) == files[j].report # Missing /\ files[j].report.fresh

SuiteReports(j) ==
  /\ suite[j].state = "running" /\ ~ Reported(j)
  /\ \E completed \in {Assigned(j), {}} : files' = [files EXCEPT ![j].report = Coverage(j, completed)]
  /\ UNCHANGED <<shard, runner, suite>>

SuiteExits(j) ==
  /\ suite[j].state = "running"
  /\ \E code \in 0..1 :
       /\ code = 0 => Reported(j) /\ files[j].report.complete
       /\ suite' = [suite EXCEPT ![j] = [state |-> "exited", code |-> code, alive |-> @.alive \ {"suite"}]]
  /\ UNCHANGED <<shard, runner, files>>

HelperExits(j) ==
  /\ "helper" \in suite[j].alive
  /\ suite' = [suite EXCEPT ![j].alive = @ \ {"helper"}]
  /\ UNCHANGED <<shard, runner, files>>

SuiteStep(j) ==
  RunnerStep(j) \/ Terminate(j) \/ Abort(j) \/ SuiteReports(j) \/ SuiteExits(j) \/ HelperExits(j)

SuiteDone(j) == runner[j].at \in {"ended", "terminated", "aborted"}
===============================================================================
