---------------------------- MODULE MCTestcaseList ----------------------------
(***************************************************************************)
(* The two instances of TestcaseAuthoring in which an edit is an edit of a *)
(* list, at once, for one run: every edit, where one that deletes has the  *)
(* problem for itself, and, with more versions, the edits that keep every  *)
(* testcase.  `part` says which of them a behaviour is of.                 *)
(***************************************************************************)
EXTENDS MCTestcaseAuthoring

VARIABLE part

Alone == INSTANCE TestcaseAuthoring WITH MaxVersion <- 3

Keeping == INSTANCE TestcaseAuthoring WITH
    Operation <- KeepingEdits, Uploaded <- ThreeTestcases

PartsInit ==
    \/ part = "alone" /\ Alone!Init
    \/ part = "keeping" /\ Keeping!Init

PartsNext ==
    /\ \/ /\ part = "alone"
          /\ Alone!Next
          /\ DeletionsAreAlone'
       \/ part = "keeping" /\ Keeping!Next
    /\ UNCHANGED part

PartsSpec == PartsInit /\ [][PartsNext]_<<vars, part>>

=============================================================================
