----------------------------- MODULE FreezeSnapshot -----------------------------
(***************************************************************************)
(* tools/freeze_snapshot.py: a dated snapshot is copied from the mutable   *)
(* draft into a staging directory, one root at a time, retargeted, checked *)
(* as a whole, and moved into the repository, one root at a time.  Editors *)
(* keep working on the draft, and a run may end between any two steps.  An *)
(* edit and a copy take one root whole: a mixture of files within a root   *)
(* is judged by the same check as a mixture of roots.                      *)
(***************************************************************************)
EXTENDS Naturals, Sequences

CONSTANTS
  SNAPSHOT_ROOTS,   \* the roots, in the order they are copied and moved
  Versions,         \* publication dates; any other argument is refused
  Revisions,        \* contents of one root of the draft
  Conforming,       \* the drafts run_checks accepts
  Publishable,      \* the copies that retarget and then pass run_checks
  Absent            \* no such directory

Roots     == {SNAPSHOT_ROOTS[i] : i \in 1..Len(SNAPSHOT_ROOTS)}
Snapshots == [Roots -> Revisions]

ASSUME RootsAssumption ==
  /\ Len(SNAPSHOT_ROOTS) \in Nat \ {0}
  /\ \A i, j \in 1..Len(SNAPSHOT_ROOTS) :
       SNAPSHOT_ROOTS[i] = SNAPSHOT_ROOTS[j] => i = j
ASSUME ChecksAssumption == Conforming \subseteq Snapshots /\ Publishable \subseteq Snapshots
ASSUME AbsentAssumption == Absent \notin Revisions

VARIABLES
  draft,       \* the draft's content under each root
  tree,        \* the installed roots of each version
  freeze,      \* the running call: step, version, next root, staging directory
  validated,   \* the stagings that passed the check before installation
  created      \* versions whose call returned without error

freezeVars == <<draft, tree, freeze, validated, created>>

Idle == [at |-> "idle", version |-> Absent, next |-> 1, staged |-> [r \in Roots |-> Absent]]

FreezeTypeOK ==
  /\ draft \in Snapshots
  /\ tree \in [Versions -> [Roots -> Revisions \cup {Absent}]]
  /\ freeze \in [at : {"idle", "checked", "copying", "moving"},
                 version : Versions \cup {Absent},
                 next : 1..(Len(SNAPSHOT_ROOTS) + 1),
                 staged : [Roots -> Revisions \cup {Absent}]]
  /\ freeze.at # "idle" => freeze.version \in Versions
  /\ validated \in [Versions -> SUBSET Publishable]
  /\ created \subseteq Versions

FreezeInit ==
  /\ draft \in Snapshots
  /\ tree = [v \in Versions |-> [r \in Roots |-> Absent]]
  /\ freeze = Idle
  /\ validated = [v \in Versions |-> {}]
  /\ created = {}

-----------------------------------------------------------------------------
EditDraft(root, revision) ==
  /\ draft' = [draft EXCEPT ![root] = revision]
  /\ UNCHANGED <<tree, freeze, validated, created>>

(* The draft must conform before anything else happens.                    *)
CheckDraft(v) ==
  /\ freeze.at = "idle"
  /\ draft \in Conforming
  /\ freeze' = [Idle EXCEPT !.at = "checked", !.version = v]
  /\ UNCHANGED <<draft, tree, validated, created>>

Existing(v) == {r \in Roots : tree[v][r] # Absent}

\* mutant of OpenStaging: only a complete snapshot stops a second run
OpenStagingUnlessComplete ==
  /\ freeze.at = "checked"
  /\ Existing(freeze.version) # Roots
  /\ freeze' = [freeze EXCEPT !.at = "copying"]
  /\ UNCHANGED <<draft, tree, validated, created>>

(* Any destination that exists makes the run raise.                        *)
OpenStaging ==
  /\ freeze.at = "checked"
  /\ Existing(freeze.version) = {}
  /\ freeze' = [freeze EXCEPT !.at = "copying"]
  /\ UNCHANGED <<draft, tree, validated, created>>

Copied == freeze.next > Len(SNAPSHOT_ROOTS)
Root   == SNAPSHOT_ROOTS[freeze.next]

CopyRoot ==
  /\ freeze.at = "copying" /\ ~ Copied
  /\ freeze' = [freeze EXCEPT !.staged[Root] = draft[Root], !.next = @ + 1]
  /\ UNCHANGED <<draft, tree, validated, created>>

\* mutant of ValidateStaging: the draft is checked once more instead
ValidateDraft ==
  /\ freeze.at = "copying" /\ Copied
  /\ draft \in Publishable
  /\ validated' = [validated EXCEPT ![freeze.version] = @ \cup {draft}]
  /\ freeze' = [freeze EXCEPT !.at = "moving", !.next = 1]
  /\ UNCHANGED <<draft, tree, created>>

(* What was copied is retargeted and checked as the snapshot it will be.   *)
ValidateStaging ==
  /\ freeze.at = "copying" /\ Copied
  /\ freeze.staged \in Publishable
  /\ validated' = [validated EXCEPT ![freeze.version] = @ \cup {freeze.staged}]
  /\ freeze' = [freeze EXCEPT !.at = "moving", !.next = 1]
  /\ UNCHANGED <<draft, tree, created>>

MoveRoot ==
  /\ freeze.at = "moving" /\ ~ Copied
  /\ tree' = [tree EXCEPT ![freeze.version][Root] = freeze.staged[Root]]
  /\ freeze' = [freeze EXCEPT !.next = @ + 1]
  /\ UNCHANGED <<draft, validated, created>>

\* mutant of Return: a run that was cut off reports the version it worked on
ReturnEarly ==
  /\ freeze.at = "moving"
  /\ created' = created \cup {freeze.version}
  /\ freeze' = Idle
  /\ UNCHANGED <<draft, tree, validated>>

(* The last move was made: the staging directory goes, main returns 0.     *)
Return ==
  /\ freeze.at = "moving" /\ Copied
  /\ created' = created \cup {freeze.version}
  /\ freeze' = Idle
  /\ UNCHANGED <<draft, tree, validated>>

(* A refusal, an I/O error, an interrupt or a crash: the staging directory *)
(* is lost, the roots already moved stay.                                  *)
Abandon ==
  /\ freeze.at # "idle"
  /\ freeze' = Idle
  /\ UNCHANGED <<draft, tree, validated, created>>

(* A maintainer removes an installed root, one at a time, between runs.    *)
Remove(v, root) ==
  /\ freeze.at = "idle"
  /\ tree[v][root] # Absent
  /\ tree' = [tree EXCEPT ![v][root] = Absent]
  /\ created' = created \ {v}
  /\ UNCHANGED <<draft, freeze, validated>>

FreezeStep == OpenStaging \/ CopyRoot \/ ValidateStaging \/ MoveRoot \/ Return \/ Abandon

FreezeNext ==
  \/ \E root \in Roots, revision \in Revisions : EditDraft(root, revision)
  \/ \E v \in Versions : CheckDraft(v)
  \/ FreezeStep
  \/ \E v \in Versions, root \in Roots : Remove(v, root)

FreezeSpec == FreezeInit /\ [][FreezeNext]_freezeVars

-----------------------------------------------------------------------------
(* Whatever was edited, interrupted, removed and run again: the installed  *)
(* roots of a version are parts of one staging that passed the check as a  *)
(* whole, never of two.                                                    *)
OneValidatedStaging ==
  \A v \in Versions :
    Existing(v) # {} =>
      \E staging \in validated[v] :
        \A r \in Existing(v) : tree[v][r] = staging[r]

(* A run that returns without error has installed all of a validated       *)
(* staging, although it may be the successor of runs that were cut off.    *)
CreatedIsComplete == \A v \in created : tree[v] \in validated[v]

(* No run replaces or removes what an earlier run installed: its check     *)
(* for destinations is far from its moves.                                 *)
NeverOverwritten ==
  [][FreezeStep =>
       \A v \in Versions : \A r \in Existing(v) : tree'[v][r] = tree[v][r]]_freezeVars
=============================================================================
