--------------------------- MODULE MCFreezeSnapshot ---------------------------
(* A bounded instance of FreezeSnapshot for TLC: two versions, and drafts  *)
(* of which a mixture of two edits does not conform.                       *)
EXTENDS FreezeSnapshot

MCRoots == <<"spec", "schema", "fixtures">>

RootSet == {"spec", "schema", "fixtures"}

Draft(spec, schema, fixtures) ==
  [r \in RootSet |-> CASE r = "spec" -> spec [] r = "schema" -> schema
                       [] r = "fixtures" -> fixtures]

(* Prose of either edit goes with both, fixtures only with their schema.   *)
MCConforming == {Draft(p, s, s) : p, s \in Revisions}

(* One conforming draft lacks a marker that retargeting requires.          *)
MCPublishable == MCConforming \ {Draft("new", "old", "old")}
===============================================================================
