-------------------------- MODULE MCReleasedSnapshots --------------------------
(* Bounded instances of ReleasedSnapshots for TLC: complete snapshots      *)
(* conform when their schema and their fixtures are of one revision.       *)
EXTENDS ReleasedSnapshots, TLC

MCRoots      == {"schema", "fixtures"}
MCConforming == {[r \in MCRoots |-> revision] : revision \in Revisions}

Symmetry == Permutations(Revisions)
================================================================================
