---------------------------- MODULE TestcaseEdits ----------------------------
(***************************************************************************)
(* The edits of testcases that the model-checking runs ask for.            *)
(***************************************************************************)
EXTENDS Naturals, Sequences, FiniteSets

CONSTANT Content

Edit(kinds, ats, tos, lists) ==
    [kind : kinds, at : ats, to : tos, contents : lists]

Orders == {1, 2, 3}
One == {<<c>> : c \in Content}
Two == {<<c, d>> : c, d \in Content}

Create == Edit({"create"}, {0}, {0}, One)
Set == Edit({"set"}, Orders, {0}, One)
Delete == Edit({"delete"}, Orders, {0}, {<<>>})
Move == {op \in Edit({"move"}, Orders, Orders, {<<>>}) : op.at # op.to}
DeleteAll == Edit({"delete_all"}, {0}, {0}, {<<>>})
Replace == Edit({"replace"}, {0}, {0}, {<<>>} \cup One \cup Two)
Other == Edit({"edit"}, {0}, {0}, {<<>>})

AllEdits == Create \cup Set \cup Delete \cup Move \cup DeleteAll \cup Replace \cup Other

(* Edits that keep every testcase.                                         *)
KeepingEdits ==
    Create \cup {op \in Set : op.at = 1} \cup Move \cup Other

CreateAndDelete == Create \cup {op \in Delete : op.at = 1}

NewProblem == {<<>>}
ThreeTestcases == {l \in [1 .. 3 -> Content] : Cardinality({l[k] : k \in 1 .. 3}) = 3}
NewOrTwo == NewProblem \cup Two

NewOrThree == NewProblem \cup ThreeTestcases
=============================================================================
