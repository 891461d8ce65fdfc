-------------------------- MODULE FreezeSnapshotProofs --------------------------
(***************************************************************************)
(* What freezing promises, for any versions, roots and contents, whatever  *)
(* is edited, interrupted, removed and run again.                          *)
(***************************************************************************)
EXTENDS FreezeSnapshot, TLAPS

Moved == {SNAPSHOT_ROOTS[i] : i \in 1..(freeze.next - 1)}

(* The strengthening: a run that moves has a validated staging, has moved  *)
(* exactly the roots before `next`, and found no root of its version when  *)
(* it opened the staging directory.                                        *)
RunInv ==
  /\ freeze.at = "copying" => Existing(freeze.version) = {}
  /\ freeze.at = "moving" =>
       /\ freeze.staged \in validated[freeze.version]
       /\ Existing(freeze.version) = Moved
       /\ \A r \in Moved : tree[freeze.version][r] = freeze.staged[r]

FreezeInv == FreezeTypeOK /\ RunInv /\ OneValidatedStaging /\ CreatedIsComplete

LEMMA RootFacts ==
  /\ \A i \in 1..Len(SNAPSHOT_ROOTS) : SNAPSHOT_ROOTS[i] \in Roots
  /\ \A s \in Publishable : s \in Snapshots
BY ChecksAssumption DEF Roots

FreezeStates == [at : {"idle", "checked", "copying", "moving"},
                 version : Versions \cup {Absent},
                 next : 1..(Len(SNAPSHOT_ROOTS) + 1),
                 staged : [Roots -> Revisions \cup {Absent}]]

LEMMA IdleTyped == Idle \in FreezeStates
BY RootsAssumption DEF Idle, FreezeStates

LEMMA FreezeStart == FreezeInit => FreezeInv
<1>1. SUFFICES ASSUME FreezeInit PROVE FreezeInv
  OBVIOUS
<1>2. \A v \in Versions : Existing(v) = {}
  BY <1>1 DEF FreezeInit, Existing
<1>3. FreezeTypeOK
  BY <1>1, RootsAssumption DEF FreezeInit, FreezeTypeOK, Idle
<1> QED BY <1>1, <1>2, <1>3
  DEF FreezeInv, RunInv, OneValidatedStaging, CreatedIsComplete, FreezeInit, Idle

(* Steps that leave the installed trees, the validated stagings and the    *)
(* reports alone, and start no move.                                       *)
LEMMA QuietFreezeStep ==
  ASSUME FreezeInv, UNCHANGED <<tree, validated, created>>, FreezeTypeOK', RunInv'
  PROVE  FreezeInv'
BY DEF FreezeInv, OneValidatedStaging, CreatedIsComplete, Existing

LEMMA EditStep ==
  ASSUME FreezeInv, NEW root \in Roots, NEW revision \in Revisions,
         EditDraft(root, revision)
  PROVE  FreezeInv'
<1>1. UNCHANGED <<tree, freeze, validated, created>> /\ draft' \in Snapshots
  BY DEF EditDraft, FreezeInv, FreezeTypeOK, Snapshots
<1>2. FreezeTypeOK'
  BY <1>1 DEF FreezeInv, FreezeTypeOK
<1>3. RunInv'
  BY <1>1 DEF FreezeInv, RunInv, Existing, Moved
<1> QED BY <1>1, <1>2, <1>3, QuietFreezeStep

LEMMA CheckStep ==
  ASSUME FreezeInv, NEW v \in Versions, CheckDraft(v)
  PROVE  FreezeInv'
<1>1. /\ UNCHANGED <<draft, tree, validated, created>>
      /\ freeze' = [Idle EXCEPT !.at = "checked", !.version = v]
  BY DEF CheckDraft
<1>2. FreezeTypeOK'
  <2>1. /\ freeze'.at = "checked" /\ freeze'.version = v
        /\ freeze' \in FreezeStates
    BY <1>1, IdleTyped DEF FreezeStates, Idle
  <2> QED BY <1>1, <2>1 DEF FreezeInv, FreezeTypeOK, FreezeStates
<1>3. RunInv'
  BY <1>1 DEF RunInv, Idle
<1> QED BY <1>1, <1>2, <1>3, QuietFreezeStep

LEMMA OpenStep == ASSUME FreezeInv, OpenStaging PROVE FreezeInv'
<1>1. /\ UNCHANGED <<draft, tree, validated, created>>
      /\ freeze' = [freeze EXCEPT !.at = "copying"]
      /\ Existing(freeze.version) = {}
  BY DEF OpenStaging
<1>2. freeze'.at = "copying" /\ freeze'.version = freeze.version
  BY <1>1 DEF FreezeInv, FreezeTypeOK
<1>3. FreezeTypeOK'
  BY <1>1 DEF FreezeInv, FreezeTypeOK, OpenStaging
<1>4. RunInv'
  BY <1>1, <1>2 DEF RunInv, Existing
<1> QED BY <1>1, <1>3, <1>4, QuietFreezeStep

LEMMA CopyStep == ASSUME FreezeInv, CopyRoot PROVE FreezeInv'
<1>1. /\ UNCHANGED <<draft, tree, validated, created>>
      /\ freeze.at = "copying" /\ freeze.next \in 1..Len(SNAPSHOT_ROOTS)
      /\ freeze' = [freeze EXCEPT !.staged[Root] = draft[Root], !.next = @ + 1]
  BY RootsAssumption DEF CopyRoot, Copied, FreezeInv, FreezeTypeOK
<1>2. Root \in Roots
  BY <1>1, RootFacts DEF Root
<1>3. freeze'.at = "copying" /\ freeze'.version = freeze.version
  BY <1>1 DEF FreezeInv, FreezeTypeOK
<1>4. freeze' \in [at : {"idle", "checked", "copying", "moving"},
                   version : Versions \cup {Absent},
                   next : 1..(Len(SNAPSHOT_ROOTS) + 1),
                   staged : [Roots -> Revisions \cup {Absent}]]
  <2>1. draft[Root] \in Revisions
    BY <1>2 DEF FreezeInv, FreezeTypeOK, Snapshots
  <2>2. freeze.next + 1 \in 1..(Len(SNAPSHOT_ROOTS) + 1)
    BY <1>1, RootsAssumption
  <2> QED BY <1>1, <2>1, <2>2 DEF FreezeInv, FreezeTypeOK
<1>5. FreezeTypeOK'
  BY <1>1, <1>3, <1>4 DEF FreezeInv, FreezeTypeOK
<1>6. RunInv'
  BY <1>1, <1>3 DEF FreezeInv, RunInv, Existing
<1> QED BY <1>1, <1>5, <1>6, QuietFreezeStep

LEMMA ValidateStep == ASSUME FreezeInv, ValidateStaging PROVE FreezeInv'
<1> DEFINE v == freeze.version
<1>1. /\ UNCHANGED <<draft, tree, created>>
      /\ freeze.at = "copying" /\ freeze.staged \in Publishable
      /\ validated' = [validated EXCEPT ![v] = @ \cup {freeze.staged}]
      /\ freeze' = [freeze EXCEPT !.at = "moving", !.next = 1]
  BY DEF ValidateStaging
<1>2. v \in Versions /\ Existing(v) = {}
  BY <1>1 DEF FreezeInv, FreezeTypeOK, RunInv
<1>3. /\ freeze'.at = "moving" /\ freeze'.version = v /\ freeze'.next = 1
      /\ freeze'.staged = freeze.staged
  BY <1>1 DEF FreezeInv, FreezeTypeOK
<1>4. /\ validated' \in [Versions -> SUBSET Publishable]
      /\ freeze.staged \in validated'[v]
      /\ \A u \in Versions : validated[u] \subseteq validated'[u]
  BY <1>1, <1>2 DEF FreezeInv, FreezeTypeOK
<1>5. FreezeTypeOK'
  <2>1. 1 \in 1..(Len(SNAPSHOT_ROOTS) + 1)
    BY RootsAssumption
  <2>2. freeze' \in FreezeStates
    BY <1>1, <2>1 DEF FreezeInv, FreezeTypeOK, FreezeStates
  <2> QED BY <1>1, <1>2, <1>3, <1>4, <2>2 DEF FreezeInv, FreezeTypeOK, FreezeStates
<1>6. Moved' = {}
  BY <1>3 DEF Moved
<1>7. RunInv'
  BY <1>1, <1>2, <1>3, <1>4, <1>6 DEF RunInv, Existing
<1>8. OneValidatedStaging'
  BY <1>1, <1>4 DEF FreezeInv, OneValidatedStaging, Existing
<1>9. CreatedIsComplete'
  BY <1>1, <1>4 DEF FreezeInv, FreezeTypeOK, CreatedIsComplete
<1> QED BY <1>5, <1>7, <1>8, <1>9 DEF FreezeInv

(* A move installs one more root of the validated staging, where there was *)
(* none.                                                                   *)
LEMMA MoveFacts ==
  ASSUME FreezeInv, MoveRoot
  PROVE  /\ freeze.version \in Versions /\ Root \in Roots
         /\ tree[freeze.version][Root] = Absent
         /\ freeze.staged \in Snapshots
         /\ Moved' = Moved \cup {Root}
         /\ tree' \in [Versions -> [Roots -> Revisions \cup {Absent}]]
         /\ tree'[freeze.version][Root] = freeze.staged[Root]
         /\ \A r \in Roots : r # Root => tree'[freeze.version][r] = tree[freeze.version][r]
         /\ \A u \in Versions : u # freeze.version => tree'[u] = tree[u]
<1> DEFINE v == freeze.version
<1>1. /\ freeze.at = "moving" /\ freeze.next \in 1..Len(SNAPSHOT_ROOTS)
      /\ tree' = [tree EXCEPT ![v][Root] = freeze.staged[Root]]
      /\ freeze' = [freeze EXCEPT !.next = @ + 1]
  BY RootsAssumption DEF MoveRoot, Copied, FreezeInv, FreezeTypeOK
<1>2. v \in Versions /\ Root \in Roots
  BY <1>1, RootFacts DEF FreezeInv, FreezeTypeOK, Root
<1>3. freeze.staged \in Snapshots
  BY <1>1, <1>2, RootFacts DEF FreezeInv, FreezeTypeOK, RunInv
<1>4. Root \notin Moved
  BY <1>1, RootsAssumption DEF Moved, Root
<1>5. tree[v][Root] = Absent
  BY <1>1, <1>2, <1>4 DEF FreezeInv, RunInv, Existing
<1>6. Moved' = Moved \cup {Root}
  <2>1. freeze'.next = freeze.next + 1
    BY <1>1 DEF FreezeInv, FreezeTypeOK
  <2>2. 1..(freeze'.next - 1) = 1..(freeze.next - 1) \cup {freeze.next}
    BY <1>1, <2>1, RootsAssumption
  <2> QED BY <2>2 DEF Moved, Root
<1>7. /\ tree' \in [Versions -> [Roots -> Revisions \cup {Absent}]]
      /\ tree'[v][Root] = freeze.staged[Root]
      /\ \A r \in Roots : r # Root => tree'[v][r] = tree[v][r]
      /\ \A u \in Versions : u # v => tree'[u] = tree[u]
  BY <1>1, <1>2, <1>3 DEF FreezeInv, FreezeTypeOK, Snapshots
<1> QED BY <1>2, <1>3, <1>5, <1>6, <1>7

LEMMA MoveStep == ASSUME FreezeInv, MoveRoot PROVE FreezeInv'
<1> DEFINE v == freeze.version
<1>1. /\ freeze.at = "moving" /\ UNCHANGED <<draft, validated, created>>
      /\ freeze.next \in 1..Len(SNAPSHOT_ROOTS)
      /\ freeze' = [freeze EXCEPT !.next = @ + 1]
  BY RootsAssumption DEF MoveRoot, Copied, FreezeInv, FreezeTypeOK
<1>2. /\ freeze'.at = "moving" /\ freeze'.version = v /\ freeze'.staged = freeze.staged
      /\ freeze'.next = freeze.next + 1
  BY <1>1 DEF FreezeInv, FreezeTypeOK
<1>3. FreezeTypeOK'
  <2>1. freeze.next + 1 \in 1..(Len(SNAPSHOT_ROOTS) + 1)
    BY <1>1, RootsAssumption
  <2> QED BY <1>1, <1>2, <2>1, MoveFacts DEF FreezeInv, FreezeTypeOK
<1>4. /\ Existing(v) = Moved /\ freeze.staged \in validated[v]
      /\ \A r \in Moved : tree[v][r] = freeze.staged[r]
  BY <1>1 DEF FreezeInv, RunInv
<1>5. freeze.staged[Root] # Absent
  BY MoveFacts, AbsentAssumption DEF Snapshots
<1>6. Existing(v)' = Moved' /\ \A r \in Moved' : tree'[v][r] = freeze.staged[r]
  <2>1. Existing(v)' = {r \in Roots : tree'[v][r] # Absent}
    BY <1>2 DEF Existing
  <2>2. \A r \in Moved : r \in Roots
    BY <1>4 DEF Existing
  <2> QED BY <1>4, <1>5, <2>1, <2>2, MoveFacts DEF Existing
<1>7. RunInv'
  BY <1>1, <1>2, <1>4, <1>6 DEF RunInv
<1>8. OneValidatedStaging'
  <2>1. SUFFICES ASSUME NEW u \in Versions, {r \in Roots : tree'[u][r] # Absent} # {}
                 PROVE  \E staging \in validated[u] :
                          \A r \in {s \in Roots : tree'[u][s] # Absent} :
                            tree'[u][r] = staging[r]
    BY <1>1 DEF OneValidatedStaging, Existing
  <2>2. CASE u = v
    BY <1>2, <1>4, <1>6, <2>2 DEF Existing
  <2>3. CASE u # v
    BY <2>1, <2>3, MoveFacts DEF FreezeInv, OneValidatedStaging, Existing
  <2> QED BY <2>2, <2>3
<1>9. CreatedIsComplete'
  <2>1. v \notin created
    <3>1. SUFFICES ASSUME v \in created PROVE FALSE
      OBVIOUS
    <3>2. tree[v] \in Snapshots
      BY <3>1, RootFacts, MoveFacts DEF FreezeInv, FreezeTypeOK, CreatedIsComplete
    <3> QED BY <3>2, MoveFacts, AbsentAssumption DEF Snapshots
  <2> QED BY <1>1, <2>1, MoveFacts DEF FreezeInv, FreezeTypeOK, CreatedIsComplete
<1> QED BY <1>3, <1>7, <1>8, <1>9 DEF FreezeInv

LEMMA ReturnStep == ASSUME FreezeInv, Return PROVE FreezeInv'
<1> DEFINE v == freeze.version
<1>1. /\ freeze.at = "moving" /\ UNCHANGED <<draft, tree, validated>>
      /\ created' = created \cup {v} /\ freeze' = Idle
      /\ freeze.next = Len(SNAPSHOT_ROOTS) + 1
  BY RootsAssumption DEF Return, Copied, FreezeInv, FreezeTypeOK
<1>2. v \in Versions
  BY <1>1 DEF FreezeInv, FreezeTypeOK
<1>3. FreezeTypeOK'
  BY <1>1, <1>2, RootsAssumption DEF FreezeInv, FreezeTypeOK, Idle
<1>4. RunInv'
  BY <1>1 DEF RunInv, Idle
<1>5. Moved = Roots
  BY <1>1, RootsAssumption DEF Moved, Roots
<1>6. tree[v] = freeze.staged /\ freeze.staged \in validated[v]
  <2>1. /\ freeze.staged \in validated[v]
        /\ \A r \in Roots : tree[v][r] = freeze.staged[r]
    BY <1>1, <1>5 DEF FreezeInv, RunInv
  <2> QED BY <1>2, <2>1 DEF FreezeInv, FreezeTypeOK
<1>7. OneValidatedStaging'
  BY <1>1 DEF FreezeInv, OneValidatedStaging, Existing
<1>8. CreatedIsComplete'
  BY <1>1, <1>6 DEF FreezeInv, CreatedIsComplete
<1> QED BY <1>3, <1>4, <1>7, <1>8 DEF FreezeInv

LEMMA AbandonStep == ASSUME FreezeInv, Abandon PROVE FreezeInv'
<1>1. UNCHANGED <<draft, tree, validated, created>> /\ freeze' = Idle
  BY DEF Abandon
<1>2. FreezeTypeOK'
  BY <1>1, RootsAssumption DEF FreezeInv, FreezeTypeOK, Idle
<1>3. RunInv'
  BY <1>1 DEF RunInv, Idle
<1> QED BY <1>1, <1>2, <1>3, QuietFreezeStep

LEMMA RemoveStep ==
  ASSUME FreezeInv, NEW v \in Versions, NEW root \in Roots, Remove(v, root)
  PROVE  FreezeInv'
<1>1. /\ freeze.at = "idle" /\ UNCHANGED <<draft, freeze, validated>>
      /\ tree' = [tree EXCEPT ![v][root] = Absent]
      /\ created' = created \ {v}
  BY DEF Remove
<1>2. /\ tree' \in [Versions -> [Roots -> Revisions \cup {Absent}]]
      /\ \A r \in Roots : tree'[v][r] # Absent => tree'[v][r] = tree[v][r]
      /\ \A u \in Versions : u # v => tree'[u] = tree[u]
  BY <1>1 DEF FreezeInv, FreezeTypeOK
<1>3. FreezeTypeOK'
  BY <1>1, <1>2 DEF FreezeInv, FreezeTypeOK
<1>4. RunInv'
  BY <1>1 DEF RunInv
<1>5. OneValidatedStaging'
  <2>1. \A u \in Versions : \A r \in Roots :
          tree'[u][r] # Absent => tree'[u][r] = tree[u][r]
    BY <1>2
  <2> QED BY <1>1, <2>1 DEF FreezeInv, OneValidatedStaging, Existing
<1>6. CreatedIsComplete'
  BY <1>1, <1>2 DEF FreezeInv, FreezeTypeOK, CreatedIsComplete
<1> QED BY <1>3, <1>4, <1>5, <1>6 DEF FreezeInv

THEOREM FreezeInvariant == FreezeSpec => []FreezeInv
<1>1. FreezeInv /\ [FreezeNext]_freezeVars => FreezeInv'
  <2>1. SUFFICES ASSUME FreezeInv, [FreezeNext]_freezeVars PROVE FreezeInv'
    OBVIOUS
  <2>2. CASE UNCHANGED freezeVars
    <3>1. UNCHANGED <<draft, tree, freeze, validated, created>>
      BY <2>2 DEF freezeVars
    <3>2. FreezeTypeOK'
      BY <2>1, <3>1 DEF FreezeInv, FreezeTypeOK
    <3>3. RunInv'
      BY <2>1, <3>1 DEF FreezeInv, RunInv, Existing, Moved
    <3> QED BY <2>1, <3>1, <3>2, <3>3, QuietFreezeStep
  <2> QED BY <2>1, <2>2, EditStep, CheckStep, OpenStep, CopyStep, ValidateStep, MoveStep,
             ReturnStep, AbandonStep, RemoveStep DEF FreezeNext, FreezeStep
<1> QED BY <1>1, FreezeStart, PTL DEF FreezeSpec

(* Types of the draft, the installed trees and the running call.           *)
THEOREM FreezeTypeCorrect == FreezeSpec => []FreezeTypeOK
<1>1. FreezeInv => FreezeTypeOK
  BY DEF FreezeInv
<1> QED BY <1>1, FreezeInvariant, PTL

(* The installed roots of a version come from one validated staging.       *)
THEOREM AlwaysOneValidatedStaging == FreezeSpec => []OneValidatedStaging
<1>1. FreezeInv => OneValidatedStaging
  BY DEF FreezeInv
<1> QED BY <1>1, FreezeInvariant, PTL

(* A run that returns without error has installed a whole validated staging. *)
THEOREM CreatedAlwaysComplete == FreezeSpec => []CreatedIsComplete
<1>1. FreezeInv => CreatedIsComplete
  BY DEF FreezeInv
<1> QED BY <1>1, FreezeInvariant, PTL

(* No step of a run changes a root that is installed.                      *)
THEOREM FreezeNeverOverwrites == FreezeSpec => NeverOverwritten
<1>1. FreezeInv /\ [FreezeNext]_freezeVars =>
        [FreezeStep =>
           \A v \in Versions : \A r \in Existing(v) : tree'[v][r] = tree[v][r]]_freezeVars
  <2>1. SUFFICES ASSUME FreezeInv, FreezeStep, NEW v \in Versions, NEW r \in Existing(v)
                 PROVE  tree'[v][r] = tree[v][r]
    OBVIOUS
  <2>2. CASE MoveRoot
    BY <2>1, <2>2, MoveFacts DEF Existing
  <2>3. CASE UNCHANGED tree
    BY <2>3
  <2> QED BY <2>1, <2>2, <2>3
        DEF FreezeStep, OpenStaging, CopyRoot, ValidateStaging, Return, Abandon
<1> QED BY <1>1, FreezeInvariant, PTL DEF FreezeSpec, NeverOverwritten
================================================================================
