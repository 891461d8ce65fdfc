# Verification of the Agent Hooks Protocol repository

TLA+ models of the stateful parts of this repository, the TLC runs that check
them on small instances, and TLAPS proofs of their main properties for every
value of the constants. Source paths below are relative to the repository.

- [The system](#the-system): components, state, operations, interactions
- [Modules](#modules): which module models what
- [Runs](#runs): what is checked, the bounds, the fairness
- [Proofs](#proofs): what is proved, from what, and how
- [Findings](#findings)
- [Not modelled](#not-modelled) and the [plan](#plan)

To repeat a run or a proof, in this directory:

    tlc -config TaskLineage.cfg MCTaskLineage.tla
    tlapm LineageProofs.tla

## The system

The repository holds the protocol's normative text, schemas and fixtures, the
tooling that checks and releases them, a generator of SDK types and validators
in four languages, and an interoperability harness that runs SDK adapters
against one another. Few of its processes are long-lived; what is hard is the
order of messages, threads and file operations, and what is left when one of
several steps fails.

| Component | State it keeps | Operations | Correct when |
|---|---|---|---|
| Lineage checker `interop/task_lineage.py` | `events`, `parents` of one connection | `accept`, `accept_wire` | edges stay acyclic, outcomes agree with proposals, identities never change, in any order of arrival |
| Content receiver `interop/content_upload.py` | `contents`, `receipts`, `events`, `trace` under `lock`; one thread per connection | `do_POST` (upload, event), `reply` | bytes and receipts agree, events only reference what their scope uploaded, replies are true, every request ends |
| Content sender `interop/content_upload.py` | the references confirmed so far in one call | `deliver`, `upload`, `post` | an event is published with exactly the attached bytes or not at all |
| Snapshot freezing `tools/freeze_snapshot.py` | draft, staging directory, dated directories | `freeze_snapshot` | what is installed of a version comes from one validated staging, and is never replaced |
| Release gate `tools/check_conformance.py` | working tree, merged branch, release tags | `run_all_checks` | a released snapshot never changes |
| Conformance checker `tools/check_conformance.py` | none across calls | `run_checks`, `SubsetValidator`, manifests | the validator follows the schema semantics |
| SDK installation `tools/install_generated_sdk.py` | artifacts in an SDK checkout, the workflow pin | copy, pin | an SDK is of one generation |
| Integration runner `tools/run_sdk_integration.py` | child process group, report directory | `run_command`, summary | no process of a suite is left behind, the summary says what the suite did, no stale report passes |
| Shards and CI reports `tools/run_unit_shard.py`, `check_ci_reports.py` | shard assignments and their reports | `allocate`, `main`, `verify_units`, `verify_integration` | the check is green exactly if every test and every group was run once and passed |
| Matrix and relay `interop/matrix.py`, `lifecycle_matrix.py`, `auth.py` | adapter processes, readiness files, receipts | start, wait, stop, clean up | no race of readiness and exit, complete clean-up |
| Observation chains `interop/observation_chain.py`, `observation_wire.py` | receipts of one execution | expected state, verification | every legal order accepted, observation before settlement refused |
| Adapter builds `interop/adapter_builds.py` | cache of builds under a lock | `build` | built once, a failed build is not cached |
| Schema model and compiler `tools/sdk-codegen/src/{model,compiler}.rs` | the lowered schema graph | `lower` | lowered types accept what the schema accepts |
| API planning `tools/sdk-codegen/src/{ergonomics,capability_ergonomics}.rs` | plans derived from the graph | catalogue of events and grants, fields and content slots of host inputs | the plan is exactly what the schemas allow |
| Generated validators and models `tools/sdk-codegen/src/langs/{rust,go,python,typescript}.rs` | compiled schema, check caches in the generated SDK | check, union dispatch, hydration, encoding | four languages give the verdict of the schema, models keep the value, in the same alternative |
| Generated capabilities `langs/*/{capabilities,grants}.rs` | a builder or a record of one event | grant, render | only what was asked is granted, and conforms |
| Generated subscriptions `langs/*/{subscriptions,facade}.rs` | a builder or a record | compose, check | a subscription that is set up is the one that was asked for |
| Generated host inputs `langs/*/{ergonomics,facade}.rs` | identities of host objects across projections | project, bind | the event is the one meant, each source is bound where its attachment is |
| Naming `naming.rs`, layout of facades | name tables | emission | names do not collide |

How they interact. A producer publishes events over connections whose
subscriptions are filtered; every receiving connection checks what arrives with
a lineage checker of its own, the producer checks its full history with
`require_known_parents`. A sender that attaches bytes first uploads each
attachment to the content receiver, replaces the local reference by the one the
receiver confirmed, and then posts the event to an endpoint that may be another
server; the receiver resolves the references while other threads upload.
Maintainers edit the draft, freeze it into a dated snapshot, merge that through
CI, which runs `check_conformance.py --all`, and then tag it; every later merge
is compared with the newest tag. The generator reads the schemas of one
snapshot and writes the SDKs that the integration runner and the matrices
execute, as jobs that share nothing; `check_ci_reports.py` reads what the jobs
left behind and nothing else, and is the check that a merge requires.

The hard behaviours are listed with their lines in `PROJECT.json` ("hazards"):
out-of-order and repeated messages in the lineage checker; threads, replies
written under a lock and time-outs in the content protocol; edits and
interruptions between the steps of a freeze; a baseline that is one tag only;
conditions that lowering drops; validation, hydration, capabilities,
subscriptions and projections of host inputs written four times; objects that
others write to between their construction and their use; signals and time-outs
around child processes; jobs that are killed, started with the wrong arguments
or from the wrong checkout, and stale reports.

## Modules

### Lineage: `LineageRules`, `TaskLineage`, `EventHistory`, `LineageSubscribers`

`LineageRules` holds the checks of `TaskLineage.accept`, one operator each, over
a *tracker*, the pair of dictionaries `self.events` and `self.parents` as total
functions (`NoEvent` and `None` for absent keys). A canonical message is
abstracted to what the checks read: method, source, id, parent, type, subject
(task id or workspace kind), task operation, and whether it reports a change.
Schema validation, JSON decoding and messages of other methods never reach the
state; they decide which messages the checks see.

`TaskLineage` is one object fed any sequence of messages. `Accept` is the whole
of `accept`: all checks, then both assignments; a refused message is a
stuttering step, as the code raises before it stores anything. The loop that
looks for a cycle is stated as the closure `Ancestry`, so that it can be proved
about; `CursorMeetsSeen` is the loop as written, and `WalkFindsAncestry` that
both agree on every reachable history, which a run checks and a proof shows for
any number of events.

`EventHistory` is the abstract specification: a history that keeps a message
exactly when the message is admissible and the history *with* it is consistent
as a whole, with no walk and no incremental check. `TaskLineage` implements it.

`LineageSubscribers` composes one producer (full history, `require_known_parents`)
with subscribers that receive any subset of its events, in any order, any number
of times, as interceptions or as observations. The producer states events again,
too: `accept` refuses a known identity with another type, parent or task, and
takes it otherwise. What it does not compare, the operation of a task and the kind
of a workspace, is assumed to be as it was (`SaysTheSame`); a producer that changed
its mind about those would contradict subscribers that heard it the first time.

### Content: `ContentReceiver`, `ContentDelivery`, `ContentPublication`

`ContentReceiver` is the `ThreadingHTTPServer`: one thread per connection, with
program points for reading the request (`Read`, and every early refusal), taking
the lock (`Acquire`), the critical section (`Store`, `RejectUpload`,
`RecordEvent`, `MissingContent`, `RejectEvent`), the replies that are written
while the lock is held (`ReplyLocked`), the end of the `with` block on a normal
or an exceptional exit (`Release`) and replies written after it (`Answer`). A
reply is two writes, status and headers, then the body (`reply`, `:165`): the
second may raise when the client already has the status (`CutOff`). The handler's
`except` then writes a second reply behind it, which the client does not take for
its own: it reads what came first (`Arrives`).
A request is a record of what the code distinguishes: path, credential, header
syntax as one Boolean, acceptability of its payload as another, announced size
and digest, body, references.

`ContentDelivery` composes it with any number of calls of `deliver`, each with
its upload and event credentials, its bound and an upload endpoint that may be
another server, next to strangers that post what they like. `deliver`'s loop,
`upload`'s checks of the confirmation, and `post`, which raises for its timeout
or for an endpoint or a response that it refuses (`Raise`), are the actions. `ContentPublication` is what this should amount to: an event
is published at most once, in one step, with exactly the attached bytes, and
success is reported only afterwards. `PublishesWhatWasAttached` is the
refinement.

What is assumed there: SHA-256 has no collisions, `uuid4` never yields a value
twice (on this or on another server), octets altered on the way to the receiver
keep their announced length (otherwise `rfile.read` ends short, which is the
`whole` case), and the references of an event message arrive as sent.

### Releases: `FreezeSnapshot`, `ReleasedSnapshots`

`FreezeSnapshot` is `freeze_snapshot`, one action per step: the check of the
draft, the check of the destinations, one copy per root, retargeting and
validation of the staging, one move per root, the return. Between any two steps
the draft may be edited and the run may end (`Abandon`: an exception, an
interrupt, a crash); between runs maintainers may remove installed roots, one at
a time. A root's content is a revision; retargeting keeps the revision and
either passes or fails (`Publishable`). One run at a time works in a checkout,
and nobody else touches the dated directories while it does.

`ReleasedSnapshots` is the merge gate `run_all_checks` against any change of the
dated directories, any merge that passes and any release tag on the merged
branch, on right and on wrong commits. It follows the code: the greatest
reachable tag is the only baseline, compared with every snapshot its commit
holds. Files of one root are one revision; a changed file is another revision.
The gate is taken to run on the very tree that becomes the head of the branch.

### Generated SDKs: `JsonSchema`, `SchemaLowering`, `SchemaRuntime`, `SdkModels`, `RustModels`, `GoModels`, `PythonModels`, `TypeScriptTypes`, `SdkRelay`, `ExactNumbers`

`JsonSchema` is the reference: `SubsetValidator.validate` of
`check_conformance.py`, over JSON values and schemas as records whose fields are
the keywords they carry. A string's pattern, format and length are one keyword,
the set of strings that have them.

`SchemaLowering` is `Compiler::lower` of `compiler.rs` with all its early
returns: boolean schemas, type arrays, compositions beside an object, `$ref`
with siblings, literals, enums, unions with inferred and explicit
discriminators, objects with presence constraints and forbidden combinations. A
failing `ensure!` is the shape `Refused`; that every schema of the instance
compiles is the assumption `DefsCompile`. `Sorted` orders the arms of a union by
kind, as the code does, and keeps the order within a kind.

`SchemaRuntime` is the validator that each generated SDK carries, from the
templates in `langs/{rust,go,python,typescript}.rs`. The four differ in how a
tagged union finds its arm — Rust, Python and TypeScript take the first arm with
the tag and compare optional strings, Go tries every arm with the tag and
compares strings with `""` for none — and TypeScript closes unions of effects.
`Check` takes the language as a parameter, and everything else is shared.
Diagnostics are a set, without their messages and their order.

What a program then holds are models. `RustModels`, `GoModels` and
`PythonModels` are the representation that each generator picks for a shape
(which members of compositions become fields, what stays raw JSON) and its
hydration; `SdkModels` is what they share, with the encoders. Hydration yields
the empty set when it fails. Rust takes the first alternative of an untagged
union that can be decoded, Go tries the descriptors of the arms again, Python
the classes in the order of their names, which are abstracted: all classes that
accept are kept. `TypeScriptTypes` is the type the parser asserts of a value
that it leaves as it is. Names, layout and accessors of the generated code are
left out, and so are its caches: Python's cache of checks (`python.rs:928`) and
Rust's cache of descriptors are keyed by what they are computed from.

`SdkRelay` hands one value to the validators and models of the four languages in
any order. `Structure` is what the compiler is meant to keep of a schema, so
that `StructureEnforced` can say that nothing of it gets lost. `MCSdkRelay`
holds the unions and compositions of `schema/draft`, cut down to the members
that tell their arms apart.

`ExactNumbers` is what the validators make of a number, which in JSON has no
width: Go normalises the digits with an unbounded scale, Rust the same with an
`i64`, Python takes an int or a Decimal, TypeScript a double or a bigint. A
number is its sign, its digits before and after the point, and its exponent, in a
base that is a constant; a double is a number of so many digits and places in
that base, and the limits of `i64`, Decimal, safe integers and JavaScript strings
are small constants in the order they really have. `NumbersExact` compares each
SDK's verdict on integers, bounds and literals with that on the number itself:
the only differences are refusals beyond those limits, and fractions that
TypeScript rounds. Everywhere else in the models numbers are integers.

### Declarations: `ShapeProjection`, `CapabilityCatalogue`, `HostCapabilities`, `Subscriptions`

`ShapeProjection` is how the generator reads members, vocabularies and
discriminators off lowered shapes; `CapabilityCatalogue` derives from them what
each event supports. `CatalogueExact` compares the catalogue with the schemas
themselves: an effect is in it if and only if the event's effect schema accepts
it.

`HostCapabilities` declares what interceptors of one event may do. In Rust that
is a state machine, one action per builder method, of which generics expose the
ones that apply; Go and Python take a record; TypeScript takes a record, freezes
a copy, and must check it when it renders it, since other code may write to what
it was given (`Spoil`). The wire form of each is an operator, so that
the languages can be compared. Two differences of the generators leave no trace
in the declarations that can be compared: Rust and Python write the operations
that a target has, Go and TypeScript always both, and in the schemas every target
has both (`Compiled`). One grant is left out because Rust's `Stop` cannot express
it, so that there is nothing to compare: a maximum of continuations on a grant
that only stops, which the types of Go, Python and TypeScript allow
(`go/capabilities.rs:40`, `python/grants.rs:298`, `typescript/capabilities.rs:87`).

Every event's entry of the catalogue is one the compiler lets through:
`CatalogueAssumption` is the list of what `capability_ergonomics.rs` ensures
(`:165-262`), with the two operations that each modify effect of
`effect.schema.json` has and `capabilities.schema.json` requires. `NoneAssumption`
and `BadAssumption` say that absence and a value of a wrong type are no values of
the types they stand beside.

`Subscriptions` is the composition of a subscription, in any order in Rust,
replacing parts, and at once in the others. Durations are counted in half
milliseconds, so that one can be no whole number of them. Rust keeps an invalid
duration as 0, which setup refuses, and drops repeated selectors; the others
refuse repeats; Go keeps durations as they are and leaves them to canonical
validation unless the checking constructor is used; Python and TypeScript refuse
at once. Only Rust's types refuse to intercept a family that has nothing to
intercept. `SubscriptionAssumption` says that durations are integers, that
absence is no value, and that some event can be intercepted, without which
nothing could be subscribed to in Rust but observation.

### Host inputs: `HostInputPlan`, `HostInputs`

`HostInputPlan` is the planning: the flat fields of an event's input and the
slots below them at which an application may put content of its own. The
reference, `PlanExact`, says from the schema where a value of the event can hold
content.

`HostInputs` is what the generated code of each language does with it: fields
and host objects in, the event and the bindings of its sources out, identities
made up where the application gave none. Rust makes an identity when a part or
message is built, TypeScript keeps them in a weak map per object, Go stores them
in the host object when it first encodes it, Python makes them in the copies of
a constructed input. The application may add host values between projections
(`Place`), at slots that contain one another too, project again (`Project`), and
pass the same object at several slots. The upload of the sources is the
runtime's: `Resolved` is the event it completes.
`IdentitiesOnce` follows identities across projections.

The four differ where an input is refused, and `LanguagesAgree` compares them on
what they can express: a missing identity that is marked as not synthesized is
refused by Go, TypeScript and Python and has no form in Rust; an empty identity
is refused by Rust, TypeScript and Python and means a missing one in Go; of
media types Rust and Python follow the pattern of the schema, which lets
`application/json ;` pass as no JSON, TypeScript and Go trim first and refuse
it, and Go does not look at the media type of a complete wire part (`Disputed`).
Media types are classes; the rules on category, gap, size and digest are left out.

### Continuous integration: `ShardAllocation`, `UnitShards`, `SuiteRunner`, `CiReports`

`ShardAllocation` is the division of work: `allocate` of `run_unit_shard.py`
with and without timings and with isolated tests, and the stride of
`partition_pairs` in `matrix.py`. Test IDs are numbers in the order their names
sort, durations are whole numbers, where the code adds floats: two sums that
differ by rounding alone pick another shard, never a test twice or not at all.

`UnitShards` are the jobs of the unit tests: discovery, which fails or differs
between checkouts, the outcomes that a test can report one after the other,
set-ups of classes and modules that fail or skip before the first test under them
(`FixtureStops`), tear-downs that fail after the last (`TearDownFails`), the
report, and an end at any point. Fixtures have no row among the results: a skipped
set-up becomes the outcome of the tests under it, and what failed is seen in the
lists of errors only.
`SuiteRunner` is `run_sdk_integration.py` for one sharded suite: `run_command`
with the preparation (adapters that are built or not, manifests that are valid or
not), the start of the suite in its own session, the handler for SIGTERM that is
installed after it, the wait, the time-out with `killpg`, and the summary,
together with a suite that reports, hangs, ends early or leaves helpers in its
group. Its report has the inventory of scenarios: for each group the IDs that
apply to it and those left out. `CiReports` composes either kind of job with
`verify_units` and `verify_integration`, which see only the files. `Verify` comes
once, when all jobs have ended, as in a workflow whose check needs them; a job
that was killed has ended and may have left nothing.

What the constants are assumed to be is what the code refuses otherwise: a file
of timings without nonnegative numbers (`read_durations`,
`run_unit_shard.py:69`), arguments that are no integers (`:147`), a discovery with
duplicates (`:187`), outcomes that `TimedResult` has no name for. The grid of a
suite is a product of languages, transports and modes (`matrix.py:296-303`,
`lifecycle_matrix.py:493-504`), in which no pair comes twice.

## Runs

| Run | Instance | Distinct states | Shows |
|---|---|---|---|
| `task_lineage` | 1 source, 3 ids, 2 tasks, 2 operations, all types the checker owns and one it does not | 2791 (symmetry) | a history stays acyclic and pair-consistent; the loop finds cycles; verdicts are exact; refinement of `EventHistory` |
| `lineage_subscribers` | 1 producer that also states events again, 2 subscribers, 3 ids, 1 task, 2 operations | 119210 (symmetry) | a chain of ancestors is complete and final; no false alarm; subscribers agree with the producer |
| `content_delivery` | 1 delivery of up to 2 attachments, 1 stranger with every kind of refused request, foreign endpoint, differing scopes, oversized body | 129904 | store, events and replies under interleaving; refinement of `ContentPublication`; the call and every request end |
| `freeze_snapshot` | 2 versions, 3 roots, 2 revisions, drafts that conform, do not, or conform but cannot be retargeted | 479232 | one validated staging per version, complete when created, never overwritten |
| `released_snapshots` | 3 versions, 2 roots, 2 revisions, tags in date order | 23656 (symmetry) | released snapshots never change; a later tag holds all that an earlier one shipped |
| `out_of_order_release` | the same with tags in any order | violation | a finding below |
| `sdk_relay` | 28 schemas of the draft, 12 of them with values, 1246 in all; 4 languages in any order; 1872 numbers | 21808 | no valid value refused, all structure enforced, excluded tags too, the languages agree; models are lossless, in the same alternative, of the asserted type; numbers are judged exactly |
| `unknown_tags` | the values of the MCP connection union | violation | a finding below |
| `rust_union_arms` | the values of wire messages | violation | a finding below |
| `capabilities` | 4 events of different kinds; every record, every sequence of builder calls; subscriptions of up to 2 selectors, 5 durations, 2 policies, 2 contents | 136371 | the catalogue is exact, declarations conform, agree and grant what was asked; subscriptions are those asked for |
| `host_inputs` | 5 events, 2 parts and 1 message of every shape that matters, up to 2 of them placed, 2 projections, 4 languages | 22485 | slots are exact, projections faithful, identities made up once, the languages agree |
| `ci_reports` | 19 workflows of 2 or 3 unit jobs over up to 5 tests, 7 workflows of 2 suite jobs over 3 groups, regular and not; any job killed anywhere | 787451 | green exactly if everything ran once and passed; work divided soundly; runners leave nothing |

Why the bounds are enough. A lineage verdict relates a message to its parent, to
one child and to a chain of ancestors; three identities are the least with a
cycle that is neither a self-loop nor a pair, with a late parent of a recorded
child, and with a chain across a gap. Several sources, several deliveries at a
time and producers that hold back children (`require_known_parents`) beside
other sources are covered by the proofs, which hold for all constants. Three connections are the least with an upload, an event that needs it and
a third thread that holds the lock or interferes between them; three references
let both uploads and a foreign one exist. Two attachments are the least with an
order and with a failure between them. Three roots are the least with a first, a
middle and a last move, two versions show that runs of different versions do not
mix. Three versions are the least with an earlier, a later and an untagged
release; `MaxChanges` = 2 bounds how many roots one merge changes, which is a
whole snapshot of the instance.

The values of `sdk_relay` give every member that a branch of a schema looks at a
right value, a wrong one, and absence, in all combinations; tags also get an
unknown and an empty string. The validators look at one member at a time, so a
second object of the same kind shows nothing new.

Its numbers are parsed beside the values (`MCInit`), as nothing else depends on
them: up to two digits on each side of the point and exponents from beyond the
lower limits to beyond the upper ones, in base 3, which has a digit that is
neither the first nor the last and no ties when a double is rounded. Bounds and
literals are integers, as in the schemas: one negative, zero, one with zeros at
its end, one that is not safe.

The events of `capabilities` differ in what the catalogue distinguishes: an
action that can be stopped but not continued, a turn that can be continued, one
with elicitation, one that is only observed. A declaration and a subscription
share nothing, so subscriptions are explored beside one event before its
declaration begins. The events of `host_inputs` are the five forms a slot can
have: a part, a list of parts, messages with parts, messages of a wrapped member
with a narrowed role, and parts before and after a change. Two placements are
the least in which one value replaces or contains another, two projections the
least for an identity to be kept; shapes that differ in more than their place
are tried at one event only, since every slot calls the same code.

A workflow of two jobs is the least in which work is divided; three tests give
every test of a balanced shard and an isolated one, five a shard with two
classes and two modules. At most one fixture of a job fails or skips
(`FewFixtures`): any failure counts, and a test lies under two set-ups only. The irregular workflows change one argument or one checkout of a job
at a time. In `MCCiReports` job *j* moves only when the jobs before it have come
to an end (`InOrder`): jobs share nothing before the check, so this leaves out no
outcome, only the order in which files appear, and `Verify` waits for all of them.

Symmetry is used only in runs of safety properties, over identities that no
definition tells apart. Deadlock is not checked where the system really may
stop: every run of the content modules has finitely many connections, which end.

Fairness. Each handler thread of the receiver (`WF` on its steps) and each call
of `deliver` (`WF` on its steps) keeps running, as operating-system threads do.
Weak fairness of `Acquire` is enough without a fair lock because the
connections are finitely many and each leaves the lock for good; the model does
not claim freedom from starvation under endless load. `Raise` belongs to the
sender's fair steps because `post` passes a timeout to `urlopen`. Nothing is
assumed of strangers and of other servers. The integration runner goes on and
its time-out comes (`WF` on `RunnerMoves`); nothing is assumed of the suite,
which may hang. Unit jobs, builders and host inputs state no liveness: a test
may hang until the job's deadline, which is a kill. The freezing and release modules,
whose steps are a person's, assume no fairness and state no liveness.

## Proofs

Each proof module has an inductive invariant, one lemma per action, and a
theorem that closes the induction; the properties follow from it. All hold for
every value of the constants that satisfies the named `ASSUME`s of the modules,
which TLC evaluates on the instances.

- `LineageProofs`. First the producer. `HistoryInv`: types, consistency of the whole
  history (acyclic, pairs agree, parents known where required), and no edge
  without an event. The core is that the incremental checks are exact: adding an
  edge makes a cycle only if the parent's ancestry reaches the message (`Ancestry`
  against the closed-set definition of acyclicity), and adding an event breaks a
  pair only with its own parent or its own children. From this: type correctness,
  `Acyclic`, `PairConsistent`, `ProducerComplete`, `IdentityStable`,
  `VerdictExact`, and the refinement of `EventHistory`. Then the loop of
  `accept` (`task_lineage.py:87`) against the closure (`WalkFindsAncestry`): over
  finitely many identities (`FiniteAssumption`) an acyclic history never brings
  the cursor back to where it was, so it runs out within as many steps as there
  are identities (`CursorIsShort`), having met exactly the ancestors. Last the
  subscribers: a tracker is a part of the producer's (`PartOfProducer`), and a part
  of an acyclic, pair-consistent history raises no alarm about an event the
  history contains. From this: `NoFalseAlarm`, `SubscriberView`.
- `ContentDeliveryProofs`. First the receiver. `ReceiverInv`: who holds the lock,
  what the checks before it established, stored bytes have issued references and
  their own receipts, every upload and event is in the trace, an event is recorded
  once by a handler that is past the lock. From this: types, `StoreIntegrity`,
  `EventsFollowUploads`, `NothingLost`, and with an invariant of pending replies
  `RepliesAreTrue`. Then the deliveries: every receipt in flight and every reference
  held by a sender names bytes nobody else can attach to it, an event's connection
  carries the complete list, and success is seen only for a recorded event. From
  this: types, `ReferencesNameOwnBytes`, and the refinement
  `PublishesWhatWasAttached`.
- `FreezeSnapshotProofs`. `FreezeInv`: a run that moves has a validated staging
  and has installed exactly the roots before `next`, because its version had no
  root when the staging was opened. From this: types, `OneValidatedStaging`,
  `CreatedIsComplete`, `NeverOverwritten`.
- `CiGateProofs`, first about `CiReports`. `CiInv`: a report of a unit job is true of its tests
  (`UnitTruth`), a suite that exits with 0 has left the complete report of this
  run (`ReportTruth`), the runner's row and a fresh summary say passed only of
  such a suite (`RowTruth`, `SummaryTruth`), and a verdict was reached when all
  jobs had ended, which no step undoes (`GateInv`). A passed `verify_partition`
  puts every element in one share, whatever `allocate` did, so `GreenIsTrue`
  needs nothing of the division of work. The converse does. `TrueIsGreen` rests on
  `FateInv`, which says of every job of a regular workflow what it holds until
  it ends and what its files say from then on, and on the allocation: each pass
  over the tests hands out one to one shard (`GreedySound`, with
  `LightestFacts` for the choice and `LoadFacts` for the sums), round robin has
  for every rank one shard of its remainder (`RoundRobinSound`), and so has the
  stride of a grid (`StridePartitions`). `AllocationSound`, that shards are a
  partition, that isolated tests are by themselves, and that the others are even
  (by number, or no shard ahead of another by more than its shortest test),
  holds of every `allocate` for any tests, timings and number of shards, and of the
  groups of any grid (`StrideEven`: no shard has two groups more than another).
  The check of the scenarios passes on the inventories of one grid and of one list
  of scenarios whose IDs are their own (`ScenariosVerified`).
  Then about `ReleasedSnapshots`: why one tag is enough of a baseline. The commit of
  the newest tag holds every release as it was tagged (`Chain`), which each merge
  and each tag preserves — the latter only if tags follow the order of dates,
  the hypothesis `InOrder` of `ReleasedNeverChange` and `TagsAlwaysCoherent`: of two
  tags, the later agrees with the earlier about what was released by then.
- `CapabilitiesProofs`. `HostInv`: the Rust builder is what the record asks for,
  family by family, except for the order of its two lists, which hold the
  record's members once each; whatever was written to the TypeScript object,
  what it has for lists are lists. It is inductive because each builder method
  adds what its record adds and touches no other family. The four wire forms are
  then written out field by field, each a lemma for what it contains and one for
  what the schema asks of it. From this: `GrantsAreExact`, `DeclarationsConform`,
  `LanguagesAgree`. `SubscriptionInv` says of the subscription builder that it
  holds what was named last of each part; with the offers of the four languages
  written out for whole durations it gives `SubscriptionsExact`, for any
  events, durations and number of selectors. A subscription and a declaration
  share no variable: `SubscriptionSpec` and `Spec` are the two halves of
  what `MCCapabilities` runs.
- `HostInputsProofs`. `IdsInv`: what the application gives is of its type
  (`GivenInv`); in Go and TypeScript the identities known are different, below
  the next, and every one that was sent is that of its object; in Python those
  sent are below the next and one for each round and place; in Rust there is one
  round. A projection keeps it because what the application means is a tree
  whose nodes are flat fields and host objects (`MeantFacts`), the visits reach
  places of that tree only (`VisitsFacts`, from the order of the places of a slot,
  `PrecedesOrders`), and each visit, successful or not, keeps the identities
  different and those known before, and writes a host object under its owner's
  (`GoKeeps`, `PythonKeeps`, `TsKeeps`, `RustVisitKeeps`); the last is what a
  projection that fails half way, or meets an object a second time, could break.
  From this: `IdentitiesOnce`.
  `ProjectionFaithful` needs what all visits of one projection have done
  together. A visit that does not fail writes what tells of the host object at
  its place, touches no other, and binds the source it owns (`GoTells`,
  `PythonTells`, `TsTells`, `RustTells`, from what the form of a part carries over
  in each language); `LoopWrites` adds the visits up; and the visits come to
  every host object of the tree, wherever setters put it, before or after
  a value that contains it (`MeantCovered`), for what they put in place is at a
  slot or in a message at one, and remains so when a later call replaces what is
  above it or beside it. So a projection that succeeds is complete
  (`GoComplete`, `PythonComplete`, `TsComplete`). Rust puts values into the event
  call by call instead: there completeness is kept by each replacement, which
  drops the sources below its path (`RustComplete`, with `DropsBindings`). A complete
  projection is faithful (`CompleteFaithful`).
  `AcceptedAlike` compares two SDKs: what a complete projection comes to is a
  function of the tree and the host values alone, once identities made up are
  left out (`SpokenTree`, `CompleteSpoken`), since what is written has no fields but
  those `Says` speaks of (`WrittenRecords`). So all SDKs that accept an input
  send one event, and can differ in what they refuse only.
  The assumptions are that indices are different words of a path
  (`IndicesAssumption`); that fields lie beside each other, host values are as
  their types have them, and a setter exists for a slot of the plan, or for
  the messages of a slot of parts (`InputsAssumption`; the planner and the types
  of the four languages see to it); that None, Pending and the words for selections are
  different from one another (`NoneAssumption`); and that the application gives no
  identity that an SDK also makes up (`FreshAssumption`). The code does not enforce the last:
  an application that chooses `host-content-7` itself can meet a synthesized one.
- `ExactNumbersProofs`. `NumbersExact`, one SDK at a time. What digits spell is a
  fold; from its recurrence (`NaturalOfNone`, `NaturalOfMore`) follow what
  concatenated, cut and trimmed digits spell and how two sequences of one length
  compare. The normal form that Go and Rust share has the token's units
  (`Normalised`), is unique (`NormalUnique`), tells integers by the sign of its
  scale (`IntegersTold`: a number whose last digit is not zero is no multiple of
  the base, `NoMultiple`), and its comparison by the place of the first digit and
  then digit by digit is comparison of the numbers (`NumbersCompared`). Rust's
  refusals are those of a scale without an `i64`. In TypeScript the digits that
  are spelled out are the number (`ValueSpelled`), only fractions have none
  (`FractionsHaveNoDigits`), and a double holds every integer below its precision
  and rounds the others to an integer that is not safe, which is refused
  (`DoublesTell`). It uses no more of rounding than that the result is a multiple
  of the unit of the last place, the number itself if that is one, and not below a
  multiple that the number reaches (`Rounding`), so it does not matter which way
  ties go.
  The assumptions are that the base is 2 or more and digits are below it; that a
  token has at most `Places` places after the point (`TokensAssumption`), which
  holds for some `Places` of any finite set of tokens; that strings end before
  safe integers, and these before `i64` (`LimitsAssumption`); and that the bounds
  in schemas have scales that Rust holds (`BoundsAssumption`).
- `Induction`. What the proofs above need of recursion: least and greatest
  numbers of a set, induction over finite sets and over the initial parts of a
  sequence, and that a recursive definition over the numbers (`Recursion`) or
  over the finite subsets of a set (`FiniteRecursion`) has a function, from which
  its equations follow. They are stated of sets and functions, never of
  operators, since the prover cannot instantiate an operator; a fold or a
  recursive function is put in that form where it is used.

The type invariants are parts of the inductive invariants and proved, not run.

Only model-checked:

- The liveness properties `EveryRequestEnds`, `DeliveryEnds` and
  `RunnersLeaveNothing`: liveness under fairness is beyond the prover.
- `CatalogueExact`, `PlansExact` and all of `sdk_relay` but `NumbersExact`: lowering,
  validation, hydration and planning are recursive operators over schemas, which
  the prover does not take.
- `LanguagesAgree` of `HostInputs`, of which `AlwaysAcceptedAlike` proves one half:
  SDKs that accept an input send the same event. The other half, that they refuse
  the same inputs, is not out of reach, but not proved: it needs that the places
  of slots and setters do not overlap and that the nulls of an event are visited,
  which the plans of the runs satisfy and no assumption states.

## Findings

`unknown_tags`: in Go an arm without a literal has the tag `""`
(`langs/go.rs:1629-1652`), so a value with the empty tag is checked against the
fallback arm of `mcp.connection` and `{"transport": ""}` is refused as a
malformed known variant. The generator's README says that other tags are
preserved as unknown variants, which the other three SDKs do. `sdk_relay` shows
that this and the effect unions, closed in TypeScript alone on purpose, are the
only disagreements of the four validators on its values.

`rust_union_arms`: a union without a discriminator is `serde(untagged)` in Rust,
which takes the first alternative that can be decoded, and a value that is
parsed from its root is hydrated in a scope that skips the descriptors of nested
values (`langs/rust.rs:1072`, `:1795`). A capabilities response read as a wire
message is exposed as an intercept response, whose members are optional and
whose `not` only the descriptor knows; Go and Python expose a capabilities
response. The generator's README says that codecs select known variants exactly.
The model still holds the value and writes it back (`ModelsLossless`).

`out_of_order_release`: `check_conformance.py` compares the tree with the tag of
the greatest date only. A snapshot tagged after a release of a later date is in
no baseline: until a tag of a still later date exists, a merge that modifies or
deletes it passes, although `docs/RELEASES.md` says the check rejects this for
every already released snapshot and nothing in the release process orders the
tags. `released_snapshots` and `ReleasedNeverChange` show that the order is the
only thing missing.

Differences between text and code that need no run, since one line shows them:
`interop/CI.md` says that the runner kills its active suite process group on
termination; a SIGTERM between `Popen` and the installation of the handler
(`run_sdk_integration.py:109-126`), SIGINT and SIGKILL leave the suite alive
(`Abort` in `SuiteRunner`, which `RunnersLeaveNothing` therefore excepts). The
comment at `run_sdk_integration.py:131` includes adapter descendants in the
clean-up, but the matrices start adapters in sessions of their own
(`matrix.py:243`, `lifecycle_matrix.py:448`), which `killpg` does not reach. The
runner removes the suites' reports of an earlier run, not their `summary.json`,
which outlives a runner that is killed; `GreenIsTrue` speaks of summaries of this
run, and the jobs of the workflow start with empty directories. The generator's
README restricts integers to ±9,007,199,254,740,991 (`tools/sdk-codegen/README.md:40`,
`:536`), but all four validators accept any integer, which tests of Rust and
Python assert (`langs/rust.rs:2430`, `langs/python.rs:1387-1395`), and TypeScript
accepts a fraction that it rounds to an integer, 1.00000000000000000001 or 1e-400,
where one must be mathematically integral (`langs/typescript.rs:318`,
`RoundedFraction` in `ExactNumbers`). The generator's README lists `instructions` and `summary` as places of content parts
(`tools/sdk-codegen/README.md:363`), but the schema has text parts there and the
plan no slot; it calls `ItemsHost` (`:708`) what the code generates as
`ItemsInput`.

## Not modelled

- The text of protocol documents, schemas and fixtures, the lint rules on them
  (links, hashes, wording) and the generators of test scenarios: data and pure
  functions of files.
- `selected_item` and `category` of `content_upload.py`: selection of one item.
- What the `retarget_*` functions write into each document: only whether the
  copy passes afterwards.
- Of the generator: reading and hashing of documents, identifier naming (a
  collision is a compile error), the layout and the text of what is emitted,
  convenience constructors and accessors that neither check nor change anything,
  duplicate members of JSON texts, the caches named above.
- Processes of the matrices: start, readiness, relay, stop and clean-up of the
  adapters (`matrix.py`, `lifecycle_matrix.py`), the receipt rules of
  `observation_chain.py`, and the build cache `adapter_builds.py`. Their hazards
  are listed in `PROJECT.json` with this note.
- Of the integration runner: building the adapters, suites without shards, the
  choice of suites by group.
- `install_generated_sdk.py`, one command that copies files and pins a revision.
- Workflow files, beyond the two gates they run, and the vendored MCP schema.

## Plan

In the order of what matters most.

1. *Done.* Lineage, content, releases, with their proofs.
2. *Done.* Generator: lowering, validation, hydration in four languages.
3. *Done.* Generated declarations, subscriptions and host inputs, against the
   schemas they are derived from.
4. *Done.* CI: division of work, shards, the integration runner and the report
   check, with the proofs that green is true and true is green.
5. *Done.* Proofs about declarations and subscriptions.
6. *Done.* Proofs about host inputs (`IdentitiesOnce`, `ProjectionFaithful`) and
   numbers (`NumbersExact`). Of `LanguagesAgree` the refusals are left.
7. `MatrixServer` (`matrix.py`, `lifecycle_matrix.py`): readiness, exit,
   clean-up. Liveness: every started process is gone in the end.
8. `ObservationChain`: composition of permissions and the receipt-order rules
   against the executions they must tell apart.
9. `InstallSdk`, `AdapterBuilds`.
