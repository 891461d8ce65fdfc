--------------------------- MODULE ReleasedSnapshots ---------------------------
(***************************************************************************)
(* The immutability of released snapshots: run_all_checks of               *)
(* tools/check_conformance.py as the gate of every merge, against any      *)
(* change of the dated snapshots in a working tree and any release tag set *)
(* on the merged branch.  Versions are the publication dates as numbers.   *)
(* The check of the draft, which the gate also makes, can only refuse more *)
(* merges and is left out; so are tags that are not reachable from HEAD,   *)
(* which the code does not read.  A pull request is checked as merged with *)
(* the head of the branch, which is taken not to move before the merge.    *)
(***************************************************************************)
EXTENDS Naturals, FiniteSets

CONSTANTS
  SNAPSHOT_ROOTS,
  Versions,
  Revisions,       \* contents of one root of a snapshot
  Conforming,      \* the complete snapshots run_checks accepts
  Absent,          \* no such directory
  Untagged,
  InOrder,         \* releases are tagged in the order of their dates
  MaxChanges       \* bound on the roots one merge changes

Trees     == [Versions -> [SNAPSHOT_ROOTS -> Revisions \cup {Absent}]]
Snapshots == [SNAPSHOT_ROOTS -> Revisions]

ASSUME VersionsAssumption   == Versions \subseteq Nat
ASSUME ConformingAssumption == Conforming \subseteq Snapshots
ASSUME MarkersAssumption    == Absent \notin Revisions /\ Untagged \notin Trees
ASSUME OrderAssumption      == InOrder \in BOOLEAN
ASSUME RootsAssumption      == SNAPSHOT_ROOTS # {} /\ MaxChanges \in Nat

VARIABLES
  work,   \* the dated snapshots of the tree that is proposed
  head,   \* those of the merged branch
  tags    \* the tree each release tag points to

releaseVars == <<work, head, tags>>

ReleaseTypeOK ==
  /\ work \in Trees
  /\ head \in Trees
  /\ tags \in [Versions -> Trees \cup {Untagged}]

NoSnapshots == [v \in Versions |-> [r \in SNAPSHOT_ROOTS |-> Absent]]

ReleaseInit ==
  /\ work = NoSnapshots
  /\ head = NoSnapshots
  /\ tags = [v \in Versions |-> Untagged]

-----------------------------------------------------------------------------
Tagged == {v \in Versions : tags[v] # Untagged}

(* The tags sort as their dates do; the last is the baseline.              *)
newest_reachable_release_tag(v) == v \in Tagged /\ \A u \in Tagged : u <= v

Present(tree, v)  == {r \in SNAPSHOT_ROOTS : tree[v][r] # Absent}
Complete(tree, v) == Present(tree, v) = SNAPSHOT_ROOTS

\* mutant of released_snapshot_entries: only versions with a tag are listed
EntriesOfReleases(tree) == {v \in Tagged : Present(tree, v) # {}}

(* versions and version_roots of the tagged commit.                        *)
released_snapshot_entries(tree) == {v \in Versions : Present(tree, v) # {}}

\* mutant of check_immutable_release: only the newest release is compared
OnlyNewestCompared(tree, tag) ==
  /\ Complete(tags[tag], tag)
  /\ tree[tag] = tags[tag][tag]

(* The tagged commit holds the snapshot the tag names, and every dated     *)
(* snapshot it holds is in the tree file by file, with nothing added.      *)
check_immutable_release(tree, tag) ==
  /\ Complete(tags[tag], tag)
  /\ \A v \in released_snapshot_entries(tags[tag]) : tree[v] = tags[tag][v]

(* A dated directory under any root makes its version a snapshot.          *)
discover_frozen_snapshots(tree) == {v \in Versions : Present(tree, v) # {}}

run_checks(tree, v) == tree[v] \in Conforming

run_all_checks(tree) ==
  /\ \A v \in Tagged : newest_reachable_release_tag(v) => check_immutable_release(tree, v)
  /\ \A v \in discover_frozen_snapshots(tree) : run_checks(tree, v)

-----------------------------------------------------------------------------
Changed(tree) ==
  {p \in Versions \X SNAPSHOT_ROOTS : tree[p[1]][p[2]] # head[p[1]][p[2]]}

(* Anyone proposes any change: a freeze or a part of one, an edit, a       *)
(* deletion, an addition.                                                  *)
Change(v, r, content) ==
  /\ work' = [work EXCEPT ![v][r] = content]
  /\ Cardinality(Changed(work')) <= MaxChanges
  /\ UNCHANGED <<head, tags>>

(* CI runs the gate on the proposed tree.                                  *)
Merge ==
  /\ run_all_checks(work)
  /\ head' = work
  /\ UNCHANGED <<work, tags>>

(* A release tag is set on the merged branch, on the right commit or not;  *)
(* it is never moved.                                                      *)
Tag(v) ==
  /\ v \notin Tagged
  /\ InOrder => \A u \in Tagged : u < v
  /\ tags' = [tags EXCEPT ![v] = head]
  /\ UNCHANGED <<work, head>>

ReleaseNext ==
  \/ \E v \in Versions, r \in SNAPSHOT_ROOTS, content \in Revisions \cup {Absent} :
       Change(v, r, content)
  \/ Merge
  \/ \E v \in Versions : Tag(v)

ReleaseSpec == ReleaseInit /\ [][ReleaseNext]_releaseVars

-----------------------------------------------------------------------------
(* A version is released when its tag points to a commit that holds it.    *)
Released == {v \in Tagged : Present(tags[v], v) # {}}

(* Once released, a snapshot is on the merged branch exactly as it was     *)
(* tagged: modification, deletion and addition are all rejected, although  *)
(* only the newest tag is read.                                            *)
ReleasedUnchanged == \A v \in Released : head[v] = tags[v][v]

(* The tagged commits agree on every dated snapshot two of them hold, and  *)
(* a later one drops none, the snapshots that have no tag of their own     *)
(* included: the newest tag, the only baseline that is read, carries all   *)
(* that any earlier release has shipped.                                   *)
TagsCoherent ==
  \A t, u \in Tagged : t < u =>
    \A v \in released_snapshot_entries(tags[t]) : tags[u][v] = tags[t][v]
=============================================================================
