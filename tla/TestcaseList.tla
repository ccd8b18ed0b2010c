---------------------------- MODULE TestcaseList ----------------------------
(***************************************************************************)
(* What editing the testcases of a problem promises: an administrator      *)
(* edits a list, each edit takes effect at once, and the list it results   *)
(* in is published as the next version of the problem.  TestcaseAuthoring  *)
(* is the system that should implement this.                               *)
(***************************************************************************)
EXTENDS Naturals, SequencesExt

CONSTANTS
    Content,    \* inputs and outputs of a testcase
    Uploaded,   \* the lists a problem may begin with
    Replacement \* the lists that may be put in place of all testcases

VARIABLES
    list,       \* the testcases, in their order
    versions    \* the lists published so far; the last one is current

listVars == <<list, versions>>

-----------------------------------------------------------------------------

Init ==
    /\ list \in Uploaded
    /\ versions = IF list = <<>> THEN << <<>> >> ELSE << <<>>, list >>

Edit(new) ==
    /\ list' = new
    /\ versions' = Append(versions, new)

Create(c) == Edit(Append(list, c))

Set(k, c) == k \in DOMAIN list /\ Edit([list EXCEPT ![k] = c])

Delete(k) == k \in DOMAIN list /\ Edit(RemoveAt(list, k))

Move(k, l) ==
    /\ {k, l} \subseteq DOMAIN list
    /\ k # l
    /\ Edit(InsertAt(RemoveAt(list, k), l, list[k]))

(* A new list, the empty one included, for a list that is not both empty   *)
(* before and after.                                                       *)
Replace(new) == (list # <<>> \/ new # <<>>) /\ Edit(new)

(* The title, limits, statement or samples change; the testcases do not.   *)
EditOther == Edit(list)

(* The edits that keep every testcase.                                     *)
Keep ==
    \/ \E c \in Content : Create(c)
    \/ \E k \in DOMAIN list, c \in Content : Set(k, c)
    \/ \E k, l \in DOMAIN list : Move(k, l)
    \/ EditOther

Next ==
    \/ Keep
    \/ \E k \in DOMAIN list : Delete(k)
    \/ \E new \in Replacement : Replace(new)

Spec == Init /\ [][Next]_listVars
=============================================================================
