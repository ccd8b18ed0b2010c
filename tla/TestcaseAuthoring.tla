-------------------------- MODULE TestcaseAuthoring --------------------------
(***************************************************************************)
(* The testcases of one problem, edited by administrators whose requests   *)
(* run at the same time, and the immutable versions that every edit        *)
(* publishes for the judges.                                               *)
(*                                                                         *)
(* Each edit is one transaction at READ COMMITTED, so that what is atomic  *)
(* is a statement, and not even that: an UPDATE or DELETE picks its rows   *)
(* from what was committed when it began, waits for rows that another      *)
(* transaction has written, and looks at those again when it gets them.    *)
(* Begin, Execute and Write are these steps.  A statement takes all its    *)
(* rows at once here; holding some while it waits for others adds only     *)
(* deadlocks, and a deadlock is a rollback.                                *)
(***************************************************************************)
EXTENDS Naturals, FiniteSets, Sequences

CONSTANTS
    Session,        \* connections that run edits
    Row,            \* numbers for testcase_id
    Content,        \* testcase_input and testcase_output
    Operation,      \* the edits of this run
    Uploaded,       \* the lists of contents a problem may begin with
    Null,           \* none, and a row that is deleted
    MaxVersion      \* bound: versions published

VARIABLES
    testcases,      \* problem_testcases: the committed rows by testcase_id
    testcase_count, \* problem_statements.testcase_count
    version,        \* problems.version
    published,      \* problem_version_manifests and _testcases by version
    tx              \* the open transaction of each session, or Null

vars == <<testcases, testcase_count, version, published, tx>>

-----------------------------------------------------------------------------

Kind == {"create", "set", "delete", "move", "delete_all", "replace", "edit"}

(* A request: the testcase at order `at`, moved to `to`, and the contents  *)
(* it brings (one for create and set, a list for replace).                 *)
Request == [kind : Kind, at : Nat, to : Nat, contents : Seq(Content)]

(* A row; the schema has CHECK(testcase_order > 0).                        *)
Testcase == [order : Nat \ {0}, content : Content]

Inserts(n) ==
    [i \in 1 .. 2 * n |-> IF i % 2 = 1 THEN "increase_count" ELSE "insert"]

Publication == <<"increase_version", "read_manifest", "publish", "commit">>

Clear == <<"count_rows", "delete_all", "clear_count">>

(* The statements of an edit that matter here, in order.                   *)
Edits(op) ==
    CASE op.kind = "create"     -> Inserts(1)
      [] op.kind = "set"        -> <<"set">>
      [] op.kind = "delete"     -> <<"delete", "shift", "decrease_count">>
      [] op.kind = "move"       -> <<"get_testcase", "move">>
      [] op.kind = "delete_all" -> Clear
      [] op.kind = "replace"    -> Clear \o Inserts(Len(op.contents))
      [] op.kind = "edit"       -> <<>>

Statements(op) == Edits(op) \o Publication

RowStatement == {"set", "delete", "shift", "move", "delete_all"}

Statement ==
    RowStatement \cup {"increase_count", "insert", "decrease_count",
        "get_testcase", "count_rows", "clear_count"}
        \cup {"increase_version", "read_manifest", "publish", "commit"}

(* A testcase is named by an order above 0, and moved to another one       *)
(* (problem_dto::is_valid; move_testcase only reads when they are equal).  *)
ASSUME OperationAssumption ==
    /\ Operation \subseteq Request
    /\ \A op \in Operation :
        /\ op.kind \in {"set", "delete", "move"} => op.at > 0
        /\ op.kind = "move" => op.to > 0 /\ op.to # op.at
        /\ op.kind \in {"create", "set"} => Len(op.contents) = 1

ASSUME UploadedAssumption ==
    /\ Uploaded \subseteq Seq(Content)
    /\ \A list \in Uploaded : DOMAIN list \subseteq Row

ASSUME NullAssumption == Null \notin Nat \cup Testcase

ASSUME BoundAssumption == MaxVersion \in Nat

(* An open transaction has the statements it still has to run, the rows    *)
(* its present statement found when it began, what it has written and not  *)
(* committed (and thereby locked), the manifest and the copy of the rows.  *)
TypeOK ==
    /\ DOMAIN testcases \subseteq Row
    /\ \A r \in DOMAIN testcases : testcases[r] \in Testcase
    /\ testcase_count \in Nat
    /\ DOMAIN published = 1 .. version
    /\ \A v \in 1 .. version :
        /\ published[v].testcase_count \in Nat
        /\ \A row \in published[v].testcases : row \in Testcase
    /\ \A s \in Session : tx[s] # Null =>
        /\ tx[s].op \in Operation
        /\ tx[s].todo \in Seq(Statement) \ {<<>>}
        /\ tx[s].targets # Null => tx[s].targets \subseteq Row
        /\ DOMAIN tx[s].writes \subseteq Row
        /\ \A r \in DOMAIN tx[s].writes : tx[s].writes[r] \in Testcase \cup {Null}
        /\ tx[s].copy # Null => \A row \in tx[s].copy : row \in Testcase
        /\ \A n \in {tx[s].testcase_count, tx[s].version, tx[s].manifest} :
            n # Null => n \in Nat

-----------------------------------------------------------------------------
(* READ COMMITTED.                                                         *)

(* What a statement of s sees: committed rows and its own writes.          *)
View(s) ==
    LET writes == tx[s].writes
        deleted == {r \in DOMAIN writes : writes[r] = Null}
    IN  [r \in (DOMAIN testcases \cup DOMAIN writes) \ deleted |->
            IF r \in DOMAIN writes THEN writes[r] ELSE testcases[r]]

Others(s) == {u \in Session \ {s} : tx[u] # Null}

RowIsFree(s, r) == \A u \in Others(s) : r \notin DOMAIN tx[u].writes
CountIsFree(s) == \A u \in Others(s) : tx[u].testcase_count = Null
VersionIsFree(s) == \A u \in Others(s) : tx[u].version = Null

LatestCount(s) ==
    IF tx[s].testcase_count = Null THEN testcase_count ELSE tx[s].testcase_count

(* s is about to run statement st.                                         *)
Runs(s, st) == tx[s] # Null /\ Head(tx[s].todo) = st

RollBack(s) ==
    /\ tx' = [tx EXCEPT ![s] = Null]
    /\ UNCHANGED <<testcases, testcase_count, version, published>>

(* The present statement of s is done; it leaves the transaction as t.     *)
Done(s, t) ==
    /\ tx' = [tx EXCEPT ![s] = [t EXCEPT !.todo = Tail(@), !.targets = Null]]
    /\ UNCHANGED <<testcases, testcase_count, version, published>>

(* A new problem has version 1 and no testcases.  A list that is there     *)
(* already was uploaded in one edit, as version 2.                         *)
Init ==
    \E list \in Uploaded :
        LET row(k) == [order |-> k, content |-> list[k]]
            new == [testcase_count |-> 0, testcases |-> {}]
            snapshot == [testcase_count |-> Len(list),
                         testcases |-> {row(k) : k \in DOMAIN list}]
        IN  /\ testcases = [k \in DOMAIN list |-> row(k)]
            /\ testcase_count = Len(list)
            /\ published = IF list = <<>> THEN <<new>> ELSE <<new, snapshot>>
            /\ version = Len(published)
            /\ tx = [s \in Session |-> Null]

Begin(s, op) ==
    /\ tx[s] = Null
    /\ tx' = [tx EXCEPT ![s] =
                [op |-> op, todo |-> Statements(op), targets |-> Null,
                 writes |-> [r \in {} |-> Null], testcase_count |-> Null,
                 version |-> Null, manifest |-> Null, copy |-> Null]]
    /\ UNCHANGED <<testcases, testcase_count, version, published>>

(* Any transaction may end without effect: a lost connection, a deadlock.  *)
Fail(s) == tx[s] # Null /\ RollBack(s)

-----------------------------------------------------------------------------
(* Statements on problem_testcases.                                        *)

Lowest(op) == IF op.at < op.to THEN op.at ELSE op.to
Highest(op) == IF op.at < op.to THEN op.to ELSE op.at

(* The WHERE clause of statement st.                                       *)
Matches(op, st, row) ==
    CASE st \in {"set", "delete"} -> row.order = op.at
      [] st = "shift"             -> row.order > op.at
      [] st = "move"              -> row.order \in Lowest(op) .. Highest(op)
      [] st = "delete_all"        -> TRUE

(* Mutant of Moved: the two testcases change places.                       *)
MovedByExchange(op, k) ==
    CASE k = op.at -> op.to [] k = op.to -> op.at [] OTHER -> k

(* Where move_testcase puts the testcase at order k.                       *)
Moved(op, k) ==
    CASE k = op.at   -> op.to
      [] op.at < k   -> k - 1
      [] OTHER       -> k + 1

(* The SET clause of statement st.                                         *)
Written(op, st, row) ==
    CASE st = "set"                      -> [row EXCEPT !.content = op.contents[1]]
      [] st \in {"delete", "delete_all"} -> Null
      [] st = "shift"                    -> [row EXCEPT !.order = @ - 1]
      [] st = "move"                     -> [row EXCEPT !.order = Moved(op, @)]

(* Mutant of Refuses: move_testcase does not compare affected_rows.        *)
RefusesNoMove(op, st, affected) == st \in {"set", "delete"} /\ affected = {}

(* What the code makes of affected_rows: not_found, conflict.              *)
Refuses(op, st, affected) ==
    \/ st \in {"set", "delete"} /\ affected = {}
    \/ st = "move" /\ Cardinality(affected) # Highest(op) - Lowest(op) + 1

(* The statement begins: the rows it finds in its snapshot.                *)
Execute(s) ==
    /\ tx[s] # Null
    /\ Head(tx[s].todo) \in RowStatement
    /\ tx[s].targets = Null
    /\ tx' = [tx EXCEPT ![s].targets =
                {r \in DOMAIN View(s) :
                    Matches(tx[s].op, Head(tx[s].todo), View(s)[r])}]
    /\ UNCHANGED <<testcases, testcase_count, version, published>>

(* It has its rows, and those that still match are written.                *)
Recheck(s, st) ==
    {r \in tx[s].targets \cap DOMAIN View(s) : Matches(tx[s].op, st, View(s)[r])}

Write(s) ==
    /\ tx[s] # Null
    /\ tx[s].targets # Null
    /\ \A r \in tx[s].targets : RowIsFree(s, r)
    /\ LET t == tx[s]
           st == Head(t.todo)
           affected == Recheck(s, st)
           written ==
                [r \in affected \cup DOMAIN t.writes |->
                    IF r \in affected THEN Written(t.op, st, View(s)[r])
                                      ELSE t.writes[r]]
       IN  IF Refuses(t.op, st, affected)
           THEN RollBack(s)
           ELSE Done(s, [t EXCEPT !.writes = written])

(* get_testcase of a move: no lock.                                        *)
GetTestcase(s) ==
    /\ Runs(s, "get_testcase")
    /\ IF \E r \in DOMAIN View(s) : View(s)[r].order = tx[s].op.at
       THEN Done(s, tx[s])
       ELSE RollBack(s)

(* get_testcase_count counts the rows.  Nothing to delete: replace goes on *)
(* to its inserts, and an edit that would change nothing ends.             *)
CountRows(s) ==
    /\ Runs(s, "count_rows")
    /\ LET t == tx[s]
       IN  IF DOMAIN View(s) # {}
           THEN Done(s, t)
           ELSE IF t.op.contents = <<>>
           THEN RollBack(s)
           ELSE Done(s, [t EXCEPT !.todo = SubSeq(@, 3, Len(@))])

(* A testcase_id that nothing remembers.                                   *)
FreshRows ==
    Row \ (DOMAIN testcases \cup
           UNION {DOMAIN tx[s].writes \cup
                  (IF tx[s].targets = Null THEN {} ELSE tx[s].targets) :
                      s \in {u \in Session : tx[u] # Null}})

(* Which of the contents the present insert brings.                        *)
InsertedContent(t) ==
    LET left == Cardinality({i \in DOMAIN t.todo : t.todo[i] = "insert"})
    IN  t.op.contents[Len(t.op.contents) - left + 1]

(* The order another transaction may be about to take or to leave.         *)
OrderIsFree(s, k) ==
    \A u \in Others(s) : \A r \in DOMAIN tx[u].writes :
        /\ r \in DOMAIN testcases => testcases[r].order # k
        /\ tx[u].writes[r] # Null => tx[u].writes[r].order # k

(* create_testcase at the order increase_testcase_count returned; (problem *)
(* and) order are UNIQUE.                                                  *)
Insert(s) ==
    /\ Runs(s, "insert")
    /\ OrderIsFree(s, tx[s].testcase_count)
    /\ FreshRows # {}
    /\ LET t == tx[s]
           id == CHOOSE r \in FreshRows : TRUE
           row == [order |-> t.testcase_count, content |-> InsertedContent(t)]
       IN  IF \E r \in DOMAIN View(s) : View(s)[r].order = row.order
           THEN RollBack(s)
           ELSE Done(s, [t EXCEPT !.writes =
                            [r \in {id} \cup DOMAIN t.writes |->
                                IF r = id THEN row ELSE t.writes[r]]])

-----------------------------------------------------------------------------
(* Statements on problem_statements and problems.                          *)

SetCount(s, n) == Done(s, [tx[s] EXCEPT !.testcase_count = n])

IncreaseCount(s) ==
    /\ Runs(s, "increase_count")
    /\ CountIsFree(s)
    /\ SetCount(s, LatestCount(s) + 1)

DecreaseCount(s) ==
    /\ Runs(s, "decrease_count")
    /\ CountIsFree(s)
    /\ IF LatestCount(s) > 0 THEN SetCount(s, LatestCount(s) - 1) ELSE RollBack(s)

ClearCount(s) ==
    /\ Runs(s, "clear_count")
    /\ CountIsFree(s)
    /\ SetCount(s, 0)

(* Mutant of TakesVersion: the version is read before the UPDATE.          *)
TakesVersionUnlocked(s) == Runs(s, "increase_version")

(* increase_version waits for the row of the problem: from here to the     *)
(* commit no other edit can commit.                                        *)
TakesVersion(s) == Runs(s, "increase_version") /\ VersionIsFree(s)

IncreaseVersion(s) ==
    /\ TakesVersion(s)
    /\ version < MaxVersion
    /\ Done(s, [tx[s] EXCEPT !.version = version + 1])

(* load_current_snapshot_manifest, another statement than the one that     *)
(* copies the rows.                                                        *)
ReadManifest(s) ==
    /\ Runs(s, "read_manifest")
    /\ Done(s, [tx[s] EXCEPT !.manifest = Cardinality(DOMAIN View(s))])

OrdersAreUnique(rows) ==
    \A q, r \in DOMAIN rows : q # r => rows[q].order # rows[r].order

(* publish_current_snapshot copies the rows into the new version.          *)
Publish(s) ==
    /\ Runs(s, "publish")
    /\ Done(s, [tx[s] EXCEPT !.copy = {View(s)[r] : r \in DOMAIN View(s)}])

(* delete and move have deferred the check that orders are unique to here. *)
Commit(s) ==
    /\ Runs(s, "commit")
    /\ \A r \in DOMAIN tx[s].writes :
        tx[s].writes[r] # Null => OrderIsFree(s, tx[s].writes[r].order)
    /\ IF ~OrdersAreUnique(View(s))
       THEN RollBack(s)
       ELSE LET t == tx[s]
                snapshot == [testcase_count |-> t.manifest, testcases |-> t.copy]
            IN  /\ testcases' = View(s)
                /\ testcase_count' = LatestCount(s)
                /\ version' = t.version
                /\ published' =
                    [v \in DOMAIN published \cup {t.version} |->
                        IF v = t.version THEN snapshot ELSE published[v]]
                /\ tx' = [tx EXCEPT ![s] = Null]

-----------------------------------------------------------------------------

Next ==
    \E s \in Session :
        \/ \E op \in Operation : Begin(s, op)
        \/ Fail(s)
        \/ Execute(s)
        \/ Write(s)
        \/ GetTestcase(s)
        \/ CountRows(s)
        \/ Insert(s)
        \/ IncreaseCount(s)
        \/ DecreaseCount(s)
        \/ ClearCount(s)
        \/ IncreaseVersion(s)
        \/ ReadManifest(s)
        \/ Publish(s)
        \/ Commit(s)

Spec == Init /\ [][Next]_vars

(* Edits that keep every testcase.                                         *)
KeepsTestcases(op) == op.kind \in {"create", "set", "move", "edit"}

(* Edits that leave no testcase as it was, and the list they leave.        *)
ReplacesAll(op) == op.kind \in {"delete_all", "replace"}

WrittenAnew(op) == IF op.kind = "replace" THEN op.contents ELSE <<>>

(* Which edits may meet: as long as one that deletes testcases runs, no    *)
(* other does.  Nothing in the code sees to this.                          *)
DeletionsAreAlone ==
    \A s, u \in Session : s # u /\ tx[s] # Null /\ tx[u] # Null =>
        KeepsTestcases(tx[s].op) /\ KeepsTestcases(tx[u].op)

-----------------------------------------------------------------------------
(* Properties.                                                             *)

(* load_published_snapshot_manifest refuses a version whose testcase_count *)
(* is not its number of testcases, and its submissions could not be        *)
(* judged: the two statements that write them see the same rows.           *)
ManifestsAreConsistent ==
    \A v \in DOMAIN published :
        published[v].testcase_count = Cardinality(published[v].testcases)

(* Submissions keep the version they were made for, and judges cache it:   *)
(* whoever edits at the same time, a published version never changes.      *)
PublishedVersionsNeverChange ==
    [][\A v \in DOMAIN published :
        v \in DOMAIN published' /\ published'[v] = published[v]]_vars

(* What administrators see is what the current version is judged by: no    *)
(* edit commits that the version it published does not show.               *)
CurrentVersionIsCurrent ==
    published[version].testcases = {testcases[r] : r \in DOMAIN testcases}

(* A version is what its administrator saw commit, and counts its own      *)
(* testcases, whoever edits at the same time (increase_version).           *)
VersionsAreTrue == ManifestsAreConsistent /\ CurrentVersionIsCurrent

OrdersFrom1(rows) == {row.order : row \in rows} = 1 .. Cardinality(rows)

(* A judge takes the testcases of a version only in the orders 1, 2, ...   *)
(* (testcase_snapshot_acquirer: "problem snapshot manifest testcase order  *)
(* must be contiguous").                                                   *)
PublishedOrdersAreContiguous ==
    \A v \in DOMAIN published : OrdersFrom1(published[v].testcases)

(* The next testcase is put at testcase_count + 1: that is the end of the  *)
(* list only if testcase_count is its length.                              *)
CountIsLength == testcase_count = Cardinality(DOMAIN testcases)

(* Every version has the orders 1, 2, ..., and the next testcase is put    *)
(* behind the last one: testcase_count is the length of the list           *)
(* (move_testcase, delete_testcase and delete_all_testcases).              *)
ListIsSound == TypeOK /\ PublishedOrdersAreContiguous /\ CountIsLength

ListOf(rows) ==
    [k \in 1 .. Cardinality(rows) |-> (CHOOSE row \in rows : row.order = k).content]

List ==
    INSTANCE TestcaseList WITH
        list <- ListOf({testcases[r] : r \in DOMAIN testcases}),
        versions <- [v \in DOMAIN published |-> ListOf(published[v].testcases)],
        Replacement <- {WrittenAnew(op) : op \in {o \in Operation : ReplacesAll(o)}}

(* Edits are atomic edits of a list: every commit is one edit of the list  *)
(* that was there before, published as the next version.                   *)
ImplementsTestcaseList == List!Spec
=============================================================================
