------------------------ MODULE MCTestcaseAuthoring ------------------------
(***************************************************************************)
(* TestcaseAuthoring with the edits of its model-checking runs.            *)
(***************************************************************************)
EXTENDS TestcaseAuthoring, TLC

INSTANCE TestcaseEdits

Symmetry == Permutations(Session) \cup Permutations(Content)
=============================================================================
