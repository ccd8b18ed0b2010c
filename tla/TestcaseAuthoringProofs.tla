----------------------- MODULE TestcaseAuthoringProofs -----------------------
(***************************************************************************)
(* Proofs about TestcaseAuthoring: whatever administrators edit at the     *)
(* same time, a published version shows exactly the testcases its edit     *)
(* committed, counts them right, and never changes again; and as long as   *)
(* an edit that deletes testcases meets no other, every edit is one edit   *)
(* of a list.                                                              *)
(***************************************************************************)
EXTENDS TestcaseAuthoring, FiniteSetTheorems, SequenceTheorems, TLAPS

(* What is left of a transaction is the end of its list of statements.     *)
IsEndOf(q, list) ==
    /\ q \in Seq(Statement)
    /\ Len(q) \in 1 .. Len(list)
    /\ \A i \in 1 .. Len(q) : q[i] = list[Len(list) - Len(q) + i]

Remains(t) == IsEndOf(t.todo, Statements(t.op))

HasItsFields(t) ==
    t = [op |-> t.op, todo |-> t.todo, targets |-> t.targets, writes |-> t.writes,
         testcase_count |-> t.testcase_count, version |-> t.version,
         manifest |-> t.manifest, copy |-> t.copy]

TransactionsAreWellFormed ==
    /\ tx = [s \in Session |-> tx[s]]
    /\ \A s \in Session : tx[s] # Null =>
        /\ HasItsFields(tx[s])
        /\ tx[s].op \in Operation
        /\ Remains(tx[s])
        /\ tx[s].targets # Null => Head(tx[s].todo) \in RowStatement

(* From increase_version to its end.                                       *)
HoldsVersion(s) == tx[s] # Null /\ Len(tx[s].todo) <= 3

(* The next version belongs to one transaction.                            *)
VersionIsLocked ==
    /\ \A s \in Session : tx[s] # Null =>
        /\ HoldsVersion(s) => tx[s].version = version + 1
        /\ ~HoldsVersion(s) => tx[s].version = Null
    /\ \A s, u \in Session : HoldsVersion(s) /\ HoldsVersion(u) => s = u

Rows(s) == {View(s)[r] : r \in DOMAIN View(s)}

(* What read_manifest and publish saw is what is there at the commit.      *)
SnapshotIsCurrent ==
    \A s \in Session : tx[s] # Null =>
        /\ Len(tx[s].todo) <= 2 => tx[s].manifest = Cardinality(DOMAIN View(s))
        /\ Len(tx[s].todo) <= 1 => tx[s].copy = Rows(s)

RowsAreFinite ==
    /\ IsFiniteSet(DOMAIN testcases)
    /\ \A s \in Session : tx[s] # Null => IsFiniteSet(DOMAIN tx[s].writes)

VersionsAreNumbered == version \in Nat \ {0} /\ DOMAIN published = 1 .. version

IInv ==
    /\ TransactionsAreWellFormed
    /\ VersionIsLocked
    /\ SnapshotIsCurrent
    /\ RowsAreFinite
    /\ VersionsAreNumbered
    /\ VersionsAreTrue

-----------------------------------------------------------------------------
(* The statements of an edit.                                              *)

EditStatement ==
    RowStatement \cup {"increase_count", "insert", "decrease_count",
        "get_testcase", "count_rows", "clear_count"}

LEMMA InsertsType ==
    ASSUME NEW n \in Nat
    PROVE  /\ Inserts(n) \in Seq(EditStatement)
           /\ Len(Inserts(n)) = 2 * n
           /\ \A i \in 1 .. 2 * n :
                Inserts(n)[i] = IF i % 2 = 1 THEN "increase_count" ELSE "insert"
           /\ \A i \in 1 .. Len(Inserts(n)) : Inserts(n)[i] \in {"increase_count", "insert"}
BY DEF Inserts, EditStatement

LEMMA ClearType ==
    /\ Clear \in Seq(EditStatement)
    /\ Len(Clear) = 3
    /\ Clear[1] = "count_rows" /\ Clear[2] = "delete_all" /\ Clear[3] = "clear_count"
BY DEF Clear, EditStatement, RowStatement

LEMMA EditsType ==
    ASSUME NEW op \in Request
    PROVE  /\ Edits(op) \in Seq(EditStatement)
           /\ \A i \in 1 .. Len(Edits(op)) :
                Edits(op)[i] = "count_rows" => i + 2 <= Len(Edits(op))
<1>0. Len(op.contents) \in Nat
    BY DEF Request
<1>1. CASE op.kind = "create"
    <2>1. Edits(op) = Inserts(1)
        BY <1>1 DEF Edits
    <2>. QED
        BY <2>1, InsertsType
<1>2. CASE op.kind = "set"
    <2>1. Edits(op) = <<"set">>
        BY <1>2 DEF Edits
    <2>. QED
        BY <2>1 DEF EditStatement, RowStatement
<1>3. CASE op.kind = "delete"
    <2>1. Edits(op) = <<"delete", "shift", "decrease_count">>
        BY <1>3 DEF Edits
    <2>. QED
        BY <2>1 DEF EditStatement, RowStatement
<1>4. CASE op.kind = "move"
    <2>1. Edits(op) = <<"get_testcase", "move">>
        BY <1>4 DEF Edits
    <2>. QED
        BY <2>1 DEF EditStatement, RowStatement
<1>5. CASE op.kind = "delete_all"
    <2>1. Edits(op) = Clear
        BY <1>5 DEF Edits
    <2>. QED
        BY <2>1, ClearType
<1>6. CASE op.kind = "replace"
    <2>. DEFINE inserts == Inserts(Len(op.contents))
    <2>1. Edits(op) = Clear \o inserts
        BY <1>6 DEF Edits
    <2>2. /\ inserts \in Seq(EditStatement) /\ Len(inserts) \in Nat
          /\ \A i \in 1 .. Len(inserts) : inserts[i] # "count_rows"
        <3>1. inserts \in Seq(EditStatement)
            BY <1>0, InsertsType
        <3>2. \A i \in 1 .. Len(inserts) : inserts[i] \in {"increase_count", "insert"}
            BY <1>0, InsertsType
        <3>. QED
            BY <3>1, <3>2, LenProperties
    <2>. HIDE DEF inserts
    <2>3. /\ Clear \o inserts \in Seq(EditStatement)
          /\ Len(Clear \o inserts) = 3 + Len(inserts)
          /\ \A i \in 1 .. 3 + Len(inserts) :
                (Clear \o inserts)[i] = IF i <= 3 THEN Clear[i] ELSE inserts[i - 3]
        <3>1. /\ Clear \o inserts \in Seq(EditStatement)
              /\ Len(Clear \o inserts) = Len(Clear) + Len(inserts)
              /\ \A i \in 1 .. Len(Clear) + Len(inserts) :
                    (Clear \o inserts)[i] =
                        IF i <= Len(Clear) THEN Clear[i] ELSE inserts[i - Len(Clear)]
            BY <2>2, ClearType, ConcatProperties
        <3>. QED
            BY <3>1, ClearType
    <2>. QED
        BY <2>1, <2>2, <2>3, ClearType
<1>7. CASE op.kind = "edit"
    <2>1. Edits(op) = <<>>
        BY <1>7 DEF Edits
    <2>. QED
        BY <2>1 DEF EditStatement, RowStatement
<1>. QED
    BY <1>1, <1>2, <1>3, <1>4, <1>5, <1>6, <1>7 DEF Request, Kind

LEMMA PublicationType ==
    /\ Publication \in Seq(Statement)
    /\ Len(Publication) = 4
    /\ Publication[1] = "increase_version" /\ Publication[2] = "read_manifest"
    /\ Publication[3] = "publish" /\ Publication[4] = "commit"
BY DEF Publication, Statement

LEMMA StatementsType ==
    ASSUME NEW op \in Request, NEW n, n = Len(Statements(op))
    PROVE  /\ Statements(op) \in Seq(Statement)
           /\ n = Len(Edits(op)) + 4
           /\ \A i \in 1 .. n - 4 :
                Statements(op)[i] = Edits(op)[i] /\ Statements(op)[i] \in EditStatement
           /\ Statements(op)[n - 3] = "increase_version"
           /\ Statements(op)[n - 2] = "read_manifest"
           /\ Statements(op)[n - 1] = "publish"
           /\ Statements(op)[n] = "commit"
           /\ \A i \in 1 .. n : Statements(op)[i] = "count_rows" => i + 6 <= n
<1>1. Edits(op) \in Seq(Statement) /\ Len(Edits(op)) \in Nat
    BY EditsType DEF EditStatement, Statement
<1>2. /\ Statements(op) \in Seq(Statement)
      /\ n = Len(Edits(op)) + 4
      /\ \A i \in 1 .. Len(Edits(op)) + 4 :
            Statements(op)[i] =
                IF i <= Len(Edits(op)) THEN Edits(op)[i] ELSE Publication[i - Len(Edits(op))]
    <2>. DEFINE edits == Edits(op)
    <2>1. /\ edits \o Publication \in Seq(Statement)
          /\ Len(edits \o Publication) = Len(edits) + Len(Publication)
          /\ \A i \in 1 .. Len(edits) + Len(Publication) :
                (edits \o Publication)[i] =
                    IF i <= Len(edits) THEN edits[i] ELSE Publication[i - Len(edits)]
        <3>. HIDE DEF edits
        <3>. QED
            BY <1>1, PublicationType, ConcatProperties DEF edits
    <2>. QED
        BY <2>1, PublicationType DEF Statements
<1>3. \A i \in 1 .. n - 4 : Statements(op)[i] = Edits(op)[i] /\ Statements(op)[i] \in EditStatement
    BY <1>1, <1>2, EditsType
<1>4. /\ Statements(op)[n - 3] = "increase_version"
      /\ Statements(op)[n - 2] = "read_manifest"
      /\ Statements(op)[n - 1] = "publish"
      /\ Statements(op)[n] = "commit"
    <2>1. \A i \in 1 .. 4 : Statements(op)[n - 4 + i] = Publication[i]
        BY <1>1, <1>2
    <2>2. \A i \in 1 .. 4 : Statements(op)[Len(Edits(op)) + i] = Publication[i]
        BY <1>1, <1>2, <2>1
    <2>. QED
        BY <1>1, <1>2, <2>2, PublicationType
<1>5. \A i \in 1 .. n : i \in 1 .. n - 4 \/ i = n - 3 \/ i = n - 2 \/ i = n - 1 \/ i = n
    BY <1>1, <1>2
<1>6. \A i \in 1 .. n : Statements(op)[i] = "count_rows" => i + 6 <= n
    <2>. SUFFICES ASSUME NEW i \in 1 .. n, Statements(op)[i] = "count_rows"
                  PROVE  i + 6 <= n
        OBVIOUS
    <2>1. i \in 1 .. Len(Edits(op)) /\ Edits(op)[i] = "count_rows"
        BY <1>1, <1>2, <1>3, <1>4, <1>5
    <2>2. i + 2 <= Len(Edits(op))
        BY <2>1, EditsType
    <2>. QED
        BY <1>1, <1>2, <2>2
<1>. QED
    BY <1>2, <1>3, <1>4, <1>6

(* Which edits have which statements, and the testcase of the b-th insert. *)
FirstInsert(op) == IF op.kind = "create" THEN 0 ELSE 3

IsInOrder(op, list, j) ==
    /\ list[j] \in {"delete", "shift"} => op.kind = "delete"
    /\ list[j] = "move" => op.kind = "move"
    /\ list[j] = "set" => op.kind = "set"
    /\ list[j] = "count_rows" => list[j + 2] = "clear_count"
    /\ list[j] = "insert" =>
        /\ j > 1 /\ list[j - 1] = "increase_count"
        /\ op.kind \in {"create", "replace"}
        /\ \E b \in 1 .. Len(op.contents) : j = FirstInsert(op) + 2 * b

LEMMA EvenNumbers ==
    ASSUME NEW m \in Nat, NEW i \in 1 .. 2 * m, i % 2 # 1
    PROVE  \E b \in 1 .. m : i = 2 * b
<1>1. i = 2 * (i \div 2)
    OBVIOUS
<1>2. i \div 2 \in 1 .. m
    BY <1>1
<1>. QED
    BY <1>1, <1>2

LEMMA EditsAreInOrder ==
    ASSUME NEW op \in Operation, NEW j \in 1 .. Len(Edits(op))
    PROVE  IsInOrder(op, Edits(op), j)
<1>0. op \in Request /\ Len(op.contents) \in Nat
    BY OperationAssumption DEF Request
<1>1. CASE op.kind = "create"
    <2>1. Edits(op) = Inserts(1) /\ Len(op.contents) = 1
        BY <1>1, OperationAssumption DEF Edits
    <2>2. j \in 1 .. 2 /\ Inserts(1)[1] = "increase_count" /\ Inserts(1)[2] = "insert"
        BY <2>1 DEF Inserts
    <2>3. FirstInsert(op) = 0 /\ 1 \in 1 .. Len(op.contents) /\ 2 = 0 + 2 * 1
        BY <1>1, <2>1 DEF FirstInsert
    <2>4. CASE j = 1
        BY <2>1, <2>2, <2>4 DEF IsInOrder
    <2>5. CASE j = 2
        <3>1. \E b \in 1 .. Len(op.contents) : j = FirstInsert(op) + 2 * b
            BY <2>3, <2>5
        <3>. QED
            BY <1>1, <2>1, <2>2, <2>5, <3>1 DEF IsInOrder
    <2>. QED
        BY <2>2, <2>4, <2>5
<1>2. CASE op.kind = "set"
    <2>1. Edits(op) = <<"set">>
        BY <1>2 DEF Edits
    <2>. QED
        BY <1>2, <2>1 DEF IsInOrder
<1>3. CASE op.kind = "delete"
    <2>1. Edits(op) = <<"delete", "shift", "decrease_count">>
        BY <1>3 DEF Edits
    <2>. QED
        BY <1>3, <2>1 DEF IsInOrder
<1>4. CASE op.kind = "move"
    <2>1. Edits(op) = <<"get_testcase", "move">>
        BY <1>4 DEF Edits
    <2>. QED
        BY <1>4, <2>1 DEF IsInOrder
<1>5. CASE op.kind = "delete_all"
    <2>1. Edits(op) = Clear
        BY <1>5 DEF Edits
    <2>. QED
        BY <2>1, ClearType DEF IsInOrder
<1>6. CASE op.kind = "replace"
    <2>. DEFINE m == Len(op.contents)
                inserts == Inserts(m)
    <2>1. Edits(op) = Clear \o inserts
        BY <1>6 DEF Edits
    <2>2. /\ inserts \in Seq(EditStatement) /\ Len(inserts) = 2 * m
          /\ \A i \in 1 .. 2 * m :
                inserts[i] = IF i % 2 = 1 THEN "increase_count" ELSE "insert"
        BY <1>0, InsertsType
    <2>. HIDE DEF inserts, m
    <2>3. m \in Nat
        BY <1>0 DEF m
    <2>4. /\ Len(Clear \o inserts) = Len(Clear) + Len(inserts)
          /\ \A i \in 1 .. Len(Clear) + Len(inserts) :
                (Clear \o inserts)[i] =
                    IF i <= Len(Clear) THEN Clear[i] ELSE inserts[i - Len(Clear)]
        BY <2>2, ClearType, ConcatProperties
    <2>5. PICK list : list = Edits(op)
        OBVIOUS
    <2>6. /\ j \in 1 .. 3 + 2 * m
          /\ list[1] = "count_rows" /\ list[2] = "delete_all" /\ list[3] = "clear_count"
          /\ \A i \in 4 .. 3 + 2 * m :
                list[i] = IF (i - 3) % 2 = 1 THEN "increase_count" ELSE "insert"
        BY <2>1, <2>2, <2>3, <2>4, <2>5, ClearType
    <2>7. CASE j \in 1 .. 3
        BY <2>5, <2>6, <2>7 DEF IsInOrder
    <2>8. CASE j \in 4 .. 3 + 2 * m /\ (j - 3) % 2 = 1
        BY <2>3, <2>5, <2>6, <2>8 DEF IsInOrder
    <2>9. CASE j \in 4 .. 3 + 2 * m /\ (j - 3) % 2 # 1
        <3>1. PICK i \in 1 .. 2 * m : j = 3 + i /\ i % 2 # 1
            BY <2>3, <2>9
        <3>2. PICK b \in 1 .. m : i = 2 * b
            BY <2>3, <3>1, EvenNumbers
        <3>3. j = 3 + 2 * b
            BY <3>1, <3>2
        <3>4. j - 1 \in 4 .. 3 + 2 * m /\ (j - 1 - 3) % 2 = 1
            BY <2>3, <3>2, <3>3
        <3>. QED
            BY <1>6, <2>5, <2>6, <2>9, <3>3, <3>4 DEF IsInOrder, FirstInsert, m
    <2>. QED
        BY <2>3, <2>6, <2>7, <2>8, <2>9
<1>7. CASE op.kind = "edit"
    <2>1. Edits(op) = <<>>
        BY <1>7 DEF Edits
    <2>. QED
        BY <2>1
<1>. QED
    BY <1>0, <1>1, <1>2, <1>3, <1>4, <1>5, <1>6, <1>7 DEF Request, Kind

LEMMA StatementsAreInOrder ==
    ASSUME NEW op \in Operation, NEW j \in 1 .. Len(Statements(op))
    PROVE  IsInOrder(op, Statements(op), j)
<1>1. PICK n : n = Len(Statements(op))
    OBVIOUS
<1>2. PICK e : e = Edits(op)
    OBVIOUS
<1>3. PICK S : S = Statements(op)
    OBVIOUS
<1>4. Len(e) \in Nat /\ \A i \in 1 .. Len(e) : e[i] = "count_rows" => i + 2 <= Len(e)
    BY <1>2, OperationAssumption, EditsType, LenProperties
<1>5. /\ n = Len(e) + 4
      /\ \A i \in 1 .. n - 4 : S[i] = e[i]
      /\ S[n - 3] = "increase_version" /\ S[n - 2] = "read_manifest"
      /\ S[n - 1] = "publish" /\ S[n] = "commit"
    BY <1>1, <1>2, <1>3, OperationAssumption, StatementsType
<1>6. CASE j \in 1 .. Len(e)
    <2>1. IsInOrder(op, e, j)
        BY <1>2, <1>6, EditsAreInOrder
    <2>2. S[j] = e[j] /\ (j > 1 => S[j - 1] = e[j - 1])
          /\ (j + 2 <= Len(e) => S[j + 2] = e[j + 2])
        BY <1>4, <1>5, <1>6
    <2>. QED
        BY <1>3, <1>4, <1>6, <2>1, <2>2 DEF IsInOrder
<1>7. CASE j \notin 1 .. Len(e)
    <2>1. S[j] \in {"increase_version", "read_manifest", "publish", "commit"}
        BY <1>1, <1>4, <1>5, <1>7
    <2>. QED
        BY <1>3, <2>1 DEF IsInOrder
<1>. QED
    BY <1>6, <1>7

(* Where a transaction is tells how many statements it has left.           *)
LEMMA PositionOfStatement ==
    ASSUME NEW t, t.op \in Operation, Remains(t)
    PROVE  /\ t.todo # <<>>
           /\ Len(t.todo) \in Nat /\ Len(t.todo) >= 1
           /\ Head(t.todo) \in EditStatement => Len(t.todo) >= 5
           /\ Head(t.todo) = "count_rows" => Len(t.todo) >= 7
           /\ Head(t.todo) = "increase_version" => Len(t.todo) = 4
           /\ Head(t.todo) = "read_manifest" => Len(t.todo) = 3
           /\ Head(t.todo) = "publish" => Len(t.todo) = 2
           /\ Head(t.todo) = "commit" => Len(t.todo) = 1
<1>1. t.op \in Request
    BY OperationAssumption
<1>2. PICK S : S = Statements(t.op)
    OBVIOUS
<1>3. PICK n : n = Len(S)
    OBVIOUS
<1>4. PICK k : k = Len(t.todo)
    OBVIOUS
<1>5. /\ S \in Seq(Statement) /\ n \in Nat /\ k \in 1 .. n
      /\ t.todo \in Seq(Statement)
      /\ \A i \in 1 .. k : t.todo[i] = S[n - k + i]
    BY <1>1, <1>2, <1>3, <1>4, StatementsType, LenProperties DEF Remains, IsEndOf
<1>6. t.todo # <<>> /\ Head(t.todo) = S[n - k + 1]
    <2>1. k >= 1 /\ t.todo[1] = S[n - k + 1]
        BY <1>5
    <2>2. t.todo # <<>>
        BY <1>4, <1>5, EmptySeq
    <2>3. Head(t.todo) = t.todo[1]
        BY <1>5, <2>2
    <2>. QED
        BY <2>1, <2>2, <2>3
<1>7. /\ \A i \in 1 .. n - 4 : S[i] \in EditStatement
      /\ S[n - 3] = "increase_version" /\ S[n - 2] = "read_manifest"
      /\ S[n - 1] = "publish" /\ S[n] = "commit"
      /\ \A i \in 1 .. n : S[i] = "count_rows" => i + 6 <= n
    BY <1>1, <1>2, <1>3, StatementsType
<1>8. {"increase_version", "read_manifest", "publish", "commit"} \cap EditStatement = {}
    BY DEF EditStatement, RowStatement
<1>9. k >= 5 \/ k = 4 \/ k = 3 \/ k = 2 \/ k = 1
    BY <1>5
<1>10. k >= 5 => Head(t.todo) \in EditStatement
    BY <1>5, <1>6, <1>7
<1>11. /\ k = 4 => Head(t.todo) = "increase_version"
       /\ k = 3 => Head(t.todo) = "read_manifest"
       /\ k = 2 => Head(t.todo) = "publish"
       /\ k = 1 => Head(t.todo) = "commit"
    BY <1>5, <1>6, <1>7
<1>12. Head(t.todo) = "count_rows" => k >= 7
    BY <1>5, <1>6, <1>7
<1>. QED
    BY <1>4, <1>5, <1>6, <1>8, <1>9, <1>10, <1>11, <1>12

LEMMA TailIsEnd ==
    ASSUME NEW list \in Seq(Statement), NEW q, IsEndOf(q, list), Len(q) > 1
    PROVE  IsEndOf(Tail(q), list) /\ Len(Tail(q)) = Len(q) - 1
<1>1. Len(list) \in Nat /\ q \in Seq(Statement) /\ Len(q) \in Nat /\ q # <<>>
    BY EmptySeq, LenProperties DEF IsEndOf
<1>2. /\ Tail(q) \in Seq(Statement) /\ Len(Tail(q)) = Len(q) - 1
      /\ \A i \in 1 .. Len(Tail(q)) : Tail(q)[i] = q[i + 1]
    BY <1>1, HeadTailProperties
<1>3. ASSUME NEW i \in 1 .. Len(Tail(q))
      PROVE  Tail(q)[i] = list[Len(list) - Len(Tail(q)) + i]
    <2>1. i + 1 \in 1 .. Len(q)
        BY <1>1, <1>2
    <2>2. q[i + 1] = list[Len(list) - Len(q) + (i + 1)]
        BY <2>1 DEF IsEndOf
    <2>3. Len(list) - Len(q) + (i + 1) = Len(list) - Len(Tail(q)) + i
        BY <1>1, <1>2
    <2>. QED
        BY <1>2, <2>2, <2>3
<1>. QED
    BY <1>1, <1>2, <1>3 DEF IsEndOf

(* A replacement of no testcases leaves out two statements.                *)
LEMMA SkippedIsEnd ==
    ASSUME NEW list \in Seq(Statement), NEW q, IsEndOf(q, list),
           NEW p \in Seq(Statement), Len(p) = Len(q) - 2, Len(p) >= 1,
           \A i \in 1 .. Len(p) : p[i] = q[i + 2]
    PROVE  IsEndOf(p, list)
<1>1. /\ Len(list) \in Nat /\ Len(q) \in Nat /\ Len(q) <= Len(list)
      /\ Len(p) \in Nat /\ Len(p) <= Len(list)
    BY LenProperties DEF IsEndOf
<1>2. ASSUME NEW i \in 1 .. Len(p)
      PROVE  p[i] = list[Len(list) - Len(p) + i]
    <2>1. i + 2 \in 1 .. Len(q) /\ i \in Nat
        BY <1>1
    <2>2. q[i + 2] = list[Len(list) - Len(q) + (i + 2)]
        BY <2>1 DEF IsEndOf
    <2>3. Len(list) - Len(q) + (i + 2) = Len(list) - Len(p) + i
        BY <1>1, <2>1
    <2>. QED
        BY <2>2, <2>3
<1>. QED
    BY <1>1, <1>2 DEF IsEndOf

LEMMA SkipProperties ==
    ASSUME NEW q \in Seq(Statement), Len(q) >= 7,
           NEW p, p = SubSeq(q, 3, Len(q))
    PROVE  /\ p \in Seq(Statement) /\ Len(p) = Len(q) - 2
           /\ \A i \in 1 .. Len(p) : p[i] = q[i + 2]
<1>1. Len(q) \in Nat /\ \A i \in 3 .. Len(q) : q[i] \in Statement
    BY LenProperties
<1>2. p \in Seq(Statement) /\ Len(p) = Len(q) - 2
    BY <1>1, SubSeqProperties
<1>. QED
    BY <1>1, <1>2

LEMMA ListIsEnd ==
    ASSUME NEW list \in Seq(Statement), Len(list) >= 1
    PROVE  IsEndOf(list, list)
BY LenProperties DEF IsEndOf

-----------------------------------------------------------------------------
(* The steps of one session.                                               *)

LEMMA ViewIsKept ==
    ASSUME NEW s \in Session, testcases' = testcases, tx[s]'.writes = tx[s].writes
    PROVE  View(s)' = View(s)
BY DEF View

LEMMA ViewIsFinite ==
    ASSUME IInv, NEW s \in Session, tx[s] # Null
    PROVE  IsFiniteSet(DOMAIN View(s))
<1>. DEFINE both == DOMAIN testcases \cup DOMAIN tx[s].writes
<1>1. IsFiniteSet(both)
    BY FS_Union DEF IInv, RowsAreFinite
<1>2. DOMAIN View(s) \subseteq both
    BY DEF View
<1>. QED
    BY <1>1, <1>2, FS_Subset

(* What a session leaves behind, all else unchanged.                       *)
LEMMA SessionStep ==
    ASSUME IInv, NEW s \in Session, NEW t,
           tx' = [tx EXCEPT ![s] = t],
           UNCHANGED <<testcases, version, published>>,
           t # Null =>
            /\ HasItsFields(t) /\ t.op \in Operation /\ Remains(t)
            /\ IsFiniteSet(DOMAIN t.writes)
            /\ t.targets # Null => Head(t.todo) \in RowStatement
            /\ Len(t.todo) > 3 => t.version = Null
            /\ Len(t.todo) <= 3 =>
                /\ t.version = version + 1
                /\ \A u \in Session \ {s} : ~HoldsVersion(u)
            /\ Len(t.todo) <= 2 => t.manifest = Cardinality(DOMAIN View(s)')
            /\ Len(t.todo) <= 1 => t.copy = Rows(s)'
    PROVE  IInv'
<1>1. /\ tx' = [u \in Session |-> tx'[u]]
      /\ tx'[s] = t
      /\ \A u \in Session \ {s} : tx'[u] = tx[u]
    BY DEF IInv, TransactionsAreWellFormed
<1>2. \A u \in Session \ {s} : tx[u] # Null => View(u)' = View(u) /\ Rows(u)' = Rows(u)
    BY <1>1, ViewIsKept DEF Rows
<1>3. TransactionsAreWellFormed'
    BY <1>1 DEF IInv, TransactionsAreWellFormed
<1>4. t # Null => Len(t.todo) \in Nat
    BY PositionOfStatement
<1>5. VersionIsLocked'
    BY <1>1, <1>4 DEF IInv, VersionIsLocked, HoldsVersion
<1>6. SnapshotIsCurrent'
    <2>. SUFFICES ASSUME NEW u \in Session, tx'[u] # Null
                  PROVE  /\ Len(tx'[u].todo) <= 2 => tx'[u].manifest = Cardinality(DOMAIN View(u)')
                         /\ Len(tx'[u].todo) <= 1 => tx'[u].copy = Rows(u)'
        BY DEF SnapshotIsCurrent
    <2>1. CASE u = s
        BY <1>1, <2>1
    <2>2. CASE u # s
        BY <1>1, <1>2, <2>2 DEF IInv, SnapshotIsCurrent
    <2>. QED
        BY <2>1, <2>2
<1>7. RowsAreFinite'
    BY <1>1 DEF IInv, RowsAreFinite
<1>8. VersionsAreNumbered' /\ VersionsAreTrue'
    BY DEF IInv, VersionsAreNumbered, VersionsAreTrue, ManifestsAreConsistent, CurrentVersionIsCurrent
<1>. QED
    BY <1>3, <1>5, <1>6, <1>7, <1>8 DEF IInv

LEMMA RollBackStep ==
    ASSUME IInv, NEW s \in Session, RollBack(s)
    PROVE  IInv'
BY SessionStep DEF RollBack

(* A statement before increase_version is done.                            *)
LEMMA EditStep ==
    ASSUME IInv, NEW s \in Session, tx[s] # Null, NEW t, Done(s, t),
           HasItsFields(t), t.op = tx[s].op, Remains(t), Len(t.todo) >= 5,
           t.version = Null, IsFiniteSet(DOMAIN t.writes)
    PROVE  IInv'
<1>0. PICK q : q = [t EXCEPT !.todo = Tail(@), !.targets = Null]
    OBVIOUS
<1>1. /\ HasItsFields(q) /\ q.op = t.op /\ q.todo = Tail(t.todo) /\ q.targets = Null
      /\ q.writes = t.writes /\ q.version = Null
    BY <1>0 DEF HasItsFields
<1>2. t.op \in Operation
    BY DEF IInv, TransactionsAreWellFormed
<1>3. Remains(q) /\ Len(q.todo) = Len(t.todo) - 1 /\ Len(t.todo) \in Nat
    <2>1. Statements(t.op) \in Seq(Statement) /\ IsEndOf(t.todo, Statements(t.op))
        BY <1>2, OperationAssumption, StatementsType DEF Remains
    <2>2. Len(t.todo) \in Nat
        BY <1>2, PositionOfStatement
    <2>. QED
        BY <1>1, <2>1, <2>2, TailIsEnd DEF Remains
<1>4. tx' = [tx EXCEPT ![s] = q] /\ UNCHANGED <<testcases, version, published>>
    BY <1>0 DEF Done
<1>5. Len(q.todo) > 3 /\ ~(Len(q.todo) <= 3) /\ ~(Len(q.todo) <= 2) /\ ~(Len(q.todo) <= 1)
    BY <1>3
<1>. QED
    BY <1>1, <1>2, <1>3, <1>4, <1>5, SessionStep, Zenon

-----------------------------------------------------------------------------

(* Rows with orders of their own are as many as their identifiers.         *)
LEMMA UniqueOrdersCount ==
    ASSUME NEW rows, rows = [r \in DOMAIN rows |-> rows[r]],
           IsFiniteSet(DOMAIN rows), OrdersAreUnique(rows)
    PROVE  Cardinality({rows[r] : r \in DOMAIN rows}) = Cardinality(DOMAIN rows)
<1>. DEFINE image == {rows[r] : r \in DOMAIN rows}
<1>1. rows \in [DOMAIN rows -> image]
    OBVIOUS
<1>2. \A q, r \in DOMAIN rows : rows[q] = rows[r] => q = r
    BY DEF OrdersAreUnique
<1>3. \A row \in image : \E r \in DOMAIN rows : rows[r] = row
    OBVIOUS
<1>. HIDE DEF image
<1>4. rows \in Injection(DOMAIN rows, image) /\ rows \in Surjection(DOMAIN rows, image)
    BY <1>1, <1>2, <1>3, Zenon DEF Injection, Surjection, IsInjective
<1>5. Cardinality(image) = Cardinality(DOMAIN rows)
    BY <1>4, FS_Surjection
<1>. QED
    BY <1>5 DEF image

LEMMA InitInvariant == Init => IInv
<1>. SUFFICES ASSUME Init PROVE IInv
    OBVIOUS
<1>. DEFINE rows == {testcases[k] : k \in DOMAIN testcases}
            new == [testcase_count |-> 0, testcases |-> {}]
<1>1. PICK list \in Uploaded :
        /\ testcases = [k \in DOMAIN list |-> [order |-> k, content |-> list[k]]]
        /\ published =
            IF list = <<>>
            THEN <<new>>
            ELSE <<new, [testcase_count |-> Len(list),
                         testcases |-> {[order |-> k, content |-> list[k]] : k \in DOMAIN list}]>>
        /\ version = Len(published)
        /\ tx = [s \in Session |-> Null]
    BY DEF Init
<1>2. PICK n \in Nat : n = Len(list) /\ DOMAIN list = 1 .. n
    BY UploadedAssumption, LenProperties
<1>3. /\ testcases = [k \in 1 .. n |-> [order |-> k, content |-> list[k]]]
      /\ rows = {[order |-> k, content |-> list[k]] : k \in DOMAIN list}
    BY <1>1, <1>2
<1>4. IsFiniteSet(1 .. n) /\ Cardinality(1 .. n) = n
    BY FS_Interval
<1>5. IsFiniteSet(DOMAIN testcases) /\ Cardinality(DOMAIN testcases) = n
    BY <1>3, <1>4
<1>6. OrdersAreUnique(testcases) /\ testcases = [k \in DOMAIN testcases |-> testcases[k]]
    BY <1>3 DEF OrdersAreUnique
<1>7. Cardinality(rows) = n
    BY <1>5, <1>6, UniqueOrdersCount
<1>8. Cardinality({}) = 0
    BY FS_EmptySet
<1>9. VersionsAreNumbered /\ VersionsAreTrue
    <2>1. CASE list = <<>>
        <3>1. version = 1 /\ DOMAIN published = 1 .. 1 /\ published[1] = new
            BY <1>1, <2>1
        <3>2. n = 0
            BY <1>2, <2>1, EmptySeq
        <3>3. rows = {}
            BY <1>3, <3>2
        <3>. QED
            BY <1>8, <3>1, <3>3
            DEF VersionsAreNumbered, VersionsAreTrue, ManifestsAreConsistent, CurrentVersionIsCurrent
    <2>2. CASE list # <<>>
        <3>. HIDE DEF rows
        <3>1. published = <<new, [testcase_count |-> n, testcases |-> rows]>>
            BY <1>1, <1>2, <1>3, <2>2
        <3>2. version = 2
            BY <1>1, <3>1
        <3>3. /\ DOMAIN published = 1 .. 2
              /\ published[1] = new
              /\ published[2] = [testcase_count |-> n, testcases |-> rows]
            BY <3>1
        <3>4. published[1].testcases = {} /\ published[1].testcase_count = 0
            BY <3>3
        <3>5. published[2].testcases = rows /\ published[2].testcase_count = n
            BY <3>3
        <3>. QED
            BY <1>7, <1>8, <3>2, <3>3, <3>4, <3>5
            DEF VersionsAreNumbered, VersionsAreTrue, ManifestsAreConsistent,
                CurrentVersionIsCurrent, rows
    <2>. QED
        BY <2>1, <2>2
<1>. QED
    BY <1>1, <1>5, <1>9
    DEF IInv, TransactionsAreWellFormed, VersionIsLocked, HoldsVersion, SnapshotIsCurrent,
        RowsAreFinite

LEMMA EditTransaction ==
    ASSUME IInv, NEW s \in Session, tx[s] # Null, NEW t, t = tx[s]
    PROVE  /\ HasItsFields(t) /\ t.op \in Operation /\ Remains(t)
           /\ t.targets # Null => Head(t.todo) \in RowStatement
           /\ IsFiniteSet(DOMAIN t.writes)
           /\ Len(t.todo) >= 5 => t.version = Null
BY PositionOfStatement
DEF IInv, TransactionsAreWellFormed, RowsAreFinite, VersionIsLocked, HoldsVersion

LEMMA BeginStep ==
    ASSUME IInv, NEW s \in Session, NEW op \in Operation, Begin(s, op)
    PROVE  IInv'
<1>1. PICK t : t = [op |-> op, todo |-> Statements(op), targets |-> Null,
                    writes |-> [r \in {} |-> Null], testcase_count |-> Null,
                    version |-> Null, manifest |-> Null, copy |-> Null]
    OBVIOUS
<1>2. tx' = [tx EXCEPT ![s] = t] /\ UNCHANGED <<testcases, version, published>>
    BY <1>1 DEF Begin
<1>3. /\ HasItsFields(t) /\ t.op = op /\ t.todo = Statements(op)
      /\ t.targets = Null /\ t.version = Null /\ DOMAIN t.writes = {}
    BY <1>1 DEF HasItsFields
<1>4. Statements(op) \in Seq(Statement) /\ Len(Statements(op)) \in Nat /\ Len(Statements(op)) >= 4
    BY OperationAssumption, StatementsType, EditsType, LenProperties
<1>5. Remains(t) /\ ~(Len(t.todo) <= 3) /\ ~(Len(t.todo) <= 2) /\ ~(Len(t.todo) <= 1)
    BY <1>3, <1>4, ListIsEnd DEF Remains
<1>6. IsFiniteSet(DOMAIN t.writes)
    BY <1>3, FS_EmptySet
<1>. QED
    BY <1>2, <1>3, <1>5, <1>6, SessionStep, Zenon

LEMMA ExecuteStep ==
    ASSUME IInv, NEW s \in Session, Execute(s)
    PROVE  IInv'
<1>1. PICK t : t = tx[s]
    OBVIOUS
<1>2. PICK targets : tx' = [tx EXCEPT ![s].targets = targets]
    BY DEF Execute
<1>3. PICK q : q = [t EXCEPT !.targets = targets]
    OBVIOUS
<1>4. /\ t # Null /\ Head(t.todo) \in RowStatement
      /\ tx' = [tx EXCEPT ![s] = q]
      /\ UNCHANGED <<testcases, version, published>>
    BY <1>1, <1>2, <1>3 DEF Execute
<1>5. /\ HasItsFields(t) /\ t.op \in Operation /\ Remains(t)
      /\ IsFiniteSet(DOMAIN t.writes)
      /\ Len(t.todo) >= 5 => t.version = Null
    BY <1>1, <1>4, EditTransaction
<1>6. Len(t.todo) \in Nat /\ Len(t.todo) >= 5
    BY <1>4, <1>5, PositionOfStatement DEF EditStatement
<1>7. /\ HasItsFields(q) /\ q.op = t.op /\ q.todo = t.todo
      /\ q.writes = t.writes /\ q.version = t.version
    BY <1>3, <1>5 DEF HasItsFields
<1>8. Remains(q) /\ ~(Len(q.todo) <= 3) /\ ~(Len(q.todo) <= 2) /\ ~(Len(q.todo) <= 1)
    BY <1>5, <1>6, <1>7 DEF Remains
<1>9. q.version = Null /\ q.op \in Operation /\ IsFiniteSet(DOMAIN q.writes)
      /\ Head(q.todo) \in RowStatement
    BY <1>4, <1>5, <1>6, <1>7
<1>. QED
    BY <1>4, <1>7, <1>8, <1>9, SessionStep, Zenon

LEMMA WriteStep ==
    ASSUME IInv, NEW s \in Session, Write(s)
    PROVE  IInv'
<1>1. PICK t : t = tx[s]
    OBVIOUS
<1>2. t # Null /\ t.targets # Null
    BY <1>1 DEF Write
<1>3. /\ HasItsFields(t) /\ t.op \in Operation /\ Remains(t)
      /\ Head(t.todo) \in RowStatement
      /\ IsFiniteSet(DOMAIN t.writes)
      /\ Len(t.todo) >= 5 => t.version = Null
    BY <1>1, <1>2, EditTransaction
<1>4. Len(t.todo) >= 5
    BY <1>3, PositionOfStatement DEF EditStatement
<1>5. CASE RollBack(s)
    BY <1>5, RollBackStep
<1>6. CASE ~RollBack(s)
    <2>. DEFINE affected == Recheck(s, Head(t.todo))
                written == [r \in affected \cup DOMAIN t.writes |->
                                IF r \in affected THEN Written(t.op, Head(t.todo), View(s)[r])
                                                  ELSE t.writes[r]]
    <2>1. Done(s, [t EXCEPT !.writes = written])
        BY <1>1, <1>6 DEF Write
    <2>2. IsFiniteSet(affected \cup DOMAIN t.writes)
        <3>1. affected \subseteq DOMAIN View(s)
            BY DEF Recheck
        <3>2. IsFiniteSet(affected)
            BY <1>1, <1>2, <3>1, ViewIsFinite, FS_Subset
        <3>. QED
            BY <1>3, <3>2, FS_Union
    <2>3. IsFiniteSet(DOMAIN written)
        BY <2>2
    <2>. HIDE DEF written, affected
    <2>4. PICK q : q = [t EXCEPT !.writes = written]
        OBVIOUS
    <2>5. /\ HasItsFields(q) /\ q.op = t.op /\ q.todo = t.todo
          /\ q.writes = written /\ q.version = t.version
        BY <1>3, <2>4 DEF HasItsFields
    <2>6. Remains(q)
        BY <1>3, <2>5 DEF Remains
    <2>. QED
        BY <1>1, <1>2, <1>3, <1>4, <2>1, <2>3, <2>4, <2>5, <2>6, EditStep
<1>. QED
    BY <1>5, <1>6

(* A statement that writes no rows and is not of the publication.          *)
LEMMA CountStep ==
    ASSUME IInv, NEW s \in Session, tx[s] # Null, NEW n,
           Head(tx[s].todo) \in EditStatement,
           Done(s, [tx[s] EXCEPT !.testcase_count = n])
    PROVE  IInv'
<1>1. PICK t : t = tx[s]
    OBVIOUS
<1>2. /\ HasItsFields(t) /\ t.op \in Operation /\ Remains(t)
      /\ IsFiniteSet(DOMAIN t.writes)
      /\ Len(t.todo) >= 5 => t.version = Null
    BY <1>1, EditTransaction
<1>3. Len(t.todo) >= 5
    BY <1>1, <1>2, PositionOfStatement
<1>4. PICK q : q = [t EXCEPT !.testcase_count = n]
    OBVIOUS
<1>5. /\ HasItsFields(q) /\ q.op = t.op /\ q.todo = t.todo
      /\ q.writes = t.writes /\ q.version = t.version
    BY <1>2, <1>4 DEF HasItsFields
<1>6. Remains(q)
    BY <1>2, <1>5 DEF Remains
<1>. QED
    BY <1>1, <1>2, <1>3, <1>4, <1>5, <1>6, EditStep

LEMMA NothingStep ==
    ASSUME IInv, NEW s \in Session, tx[s] # Null,
           Head(tx[s].todo) \in EditStatement, Done(s, tx[s])
    PROVE  IInv'
BY EditTransaction, PositionOfStatement, EditStep

LEMMA CountRowsStep ==
    ASSUME IInv, NEW s \in Session, CountRows(s)
    PROVE  IInv'
<1>1. PICK t : t = tx[s]
    OBVIOUS
<1>2. t # Null /\ Head(t.todo) = "count_rows"
    BY <1>1 DEF CountRows, Runs
<1>3. /\ HasItsFields(t) /\ t.op \in Operation /\ Remains(t)
      /\ IsFiniteSet(DOMAIN t.writes)
      /\ Len(t.todo) >= 5 => t.version = Null
    BY <1>1, <1>2, EditTransaction
<1>4. Len(t.todo) \in Nat /\ Len(t.todo) >= 7
    BY <1>2, <1>3, PositionOfStatement
<1>5. CASE RollBack(s)
    BY <1>5, RollBackStep
<1>6. CASE Done(s, t)
    BY <1>1, <1>2, <1>6, NothingStep DEF EditStatement
<1>7. CASE Done(s, [t EXCEPT !.todo = SubSeq(@, 3, Len(@))])
    <2>1. PICK q : q = [t EXCEPT !.todo = SubSeq(@, 3, Len(@))]
        OBVIOUS
    <2>2. /\ HasItsFields(q) /\ q.op = t.op /\ q.todo = SubSeq(t.todo, 3, Len(t.todo))
          /\ q.writes = t.writes /\ q.version = t.version
        BY <1>3, <2>1 DEF HasItsFields
    <2>3. /\ t.todo \in Seq(Statement) /\ Statements(t.op) \in Seq(Statement)
          /\ IsEndOf(t.todo, Statements(t.op))
        BY <1>3, OperationAssumption, StatementsType DEF Remains, IsEndOf
    <2>4. /\ q.todo \in Seq(Statement) /\ Len(q.todo) = Len(t.todo) - 2
          /\ \A i \in 1 .. Len(q.todo) : q.todo[i] = t.todo[i + 2]
        BY <1>4, <2>2, <2>3, SkipProperties
    <2>5. Len(q.todo) >= 5 /\ Len(q.todo) >= 1
        BY <1>4, <2>4
    <2>6. IsEndOf(q.todo, Statements(t.op))
        BY <2>3, <2>4, <2>5, SkippedIsEnd
    <2>7. Remains(q)
        BY <2>2, <2>6 DEF Remains
    <2>8. q.version = Null /\ IsFiniteSet(DOMAIN q.writes)
        BY <1>3, <1>4, <2>2
    <2>9. Done(s, q)
        BY <1>7, <2>1
    <2>. QED
        BY <1>1, <1>2, <2>2, <2>5, <2>7, <2>8, <2>9, EditStep
<1>. QED
    BY <1>1, <1>5, <1>6, <1>7 DEF CountRows

LEMMA InsertStep ==
    ASSUME IInv, NEW s \in Session, Insert(s)
    PROVE  IInv'
<1>1. PICK t : t = tx[s]
    OBVIOUS
<1>2. t # Null /\ Head(t.todo) \in EditStatement
    BY <1>1 DEF Insert, Runs, EditStatement
<1>3. /\ HasItsFields(t) /\ t.op \in Operation /\ Remains(t)
      /\ IsFiniteSet(DOMAIN t.writes)
      /\ Len(t.todo) >= 5 => t.version = Null
    BY <1>1, <1>2, EditTransaction
<1>4. Len(t.todo) >= 5
    BY <1>2, <1>3, PositionOfStatement
<1>5. CASE RollBack(s)
    BY <1>5, RollBackStep
<1>6. CASE ~RollBack(s)
    <2>. DEFINE id == CHOOSE r \in FreshRows : TRUE
                row == [order |-> t.testcase_count, content |-> InsertedContent(t)]
                written == [r \in {id} \cup DOMAIN t.writes |-> IF r = id THEN row ELSE t.writes[r]]
    <2>1. Done(s, [t EXCEPT !.writes = written])
        BY <1>1, <1>6 DEF Insert
    <2>2. IsFiniteSet(DOMAIN t.writes \cup {id})
        BY <1>3, FS_AddElement
    <2>3. DOMAIN written = DOMAIN t.writes \cup {id}
        OBVIOUS
    <2>. HIDE DEF written
    <2>4. PICK q : q = [t EXCEPT !.writes = written]
        OBVIOUS
    <2>5. /\ HasItsFields(q) /\ q.op = t.op /\ q.todo = t.todo
          /\ q.writes = written /\ q.version = t.version
        BY <1>3, <2>4 DEF HasItsFields
    <2>6. Remains(q) /\ IsFiniteSet(DOMAIN q.writes)
        BY <1>3, <2>2, <2>3, <2>5 DEF Remains
    <2>7. Done(s, q)
        BY <2>1, <2>4
    <2>. QED
        BY <1>1, <1>2, <1>3, <1>4, <2>5, <2>6, <2>7, EditStep
<1>. QED
    BY <1>5, <1>6

-----------------------------------------------------------------------------
(* The publication.                                                        *)

LEMMA SmallNumbers ==
    /\ \A k \in 2 .. 4 : k > 1
    /\ 4 \in 2 .. 4 /\ 3 \in 2 .. 4 /\ 2 \in 2 .. 4
    /\ 3 <= 3 /\ 2 <= 3 /\ 1 <= 3 /\ 2 <= 2 /\ 1 <= 2 /\ 1 <= 1
    /\ 4 - 1 = 3 /\ 3 - 1 = 2 /\ 2 - 1 = 1
OBVIOUS

(* A statement of the publication is done, with t for the transaction.     *)
LEMMA PublicationStep ==
    ASSUME IInv, NEW s \in Session, tx[s] # Null, NEW t, Done(s, t),
           HasItsFields(t), t.op = tx[s].op, t.todo = tx[s].todo,
           t.writes = tx[s].writes,
           NEW k \in 2 .. 4, Len(tx[s].todo) = k
    PROVE  \E q :
            /\ HasItsFields(q) /\ q.op \in Operation /\ Remains(q)
            /\ Len(q.todo) = k - 1
            /\ q.targets = Null /\ IsFiniteSet(DOMAIN q.writes)
            /\ q.version = t.version /\ q.manifest = t.manifest /\ q.copy = t.copy
            /\ tx' = [tx EXCEPT ![s] = q]
            /\ UNCHANGED <<testcases, version, published>>
            /\ View(s)' = View(s) /\ Rows(s)' = Rows(s)
<1>0. PICK q : q = [t EXCEPT !.todo = Tail(@), !.targets = Null]
    OBVIOUS
<1>1. /\ HasItsFields(q) /\ q.op = t.op /\ q.todo = Tail(t.todo) /\ q.targets = Null
      /\ q.writes = t.writes /\ q.version = t.version
      /\ q.manifest = t.manifest /\ q.copy = t.copy
    BY <1>0 DEF HasItsFields
<1>2. t.op \in Operation /\ Remains(t) /\ IsFiniteSet(DOMAIN t.writes)
    BY EditTransaction DEF Remains
<1>3. Statements(t.op) \in Seq(Statement) /\ IsEndOf(t.todo, Statements(t.op))
    BY <1>2, OperationAssumption, StatementsType DEF Remains
<1>4. Remains(q) /\ Len(q.todo) = k - 1
    <2>1. Len(t.todo) = k /\ Len(t.todo) > 1
        BY SmallNumbers, Zenon
    <2>. QED
        BY <1>1, <1>3, <2>1, TailIsEnd DEF Remains
<1>5. tx' = [tx EXCEPT ![s] = q] /\ UNCHANGED <<testcases, version, published>>
    BY <1>0 DEF Done
<1>6. tx'[s] = q
    BY <1>5 DEF IInv, TransactionsAreWellFormed
<1>7. View(s)' = View(s) /\ Rows(s)' = Rows(s)
    BY <1>1, <1>5, <1>6, ViewIsKept DEF Rows
<1>. QED
    BY <1>1, <1>2, <1>4, <1>5, <1>7

LEMMA IncreaseVersionStep ==
    ASSUME IInv, NEW s \in Session, IncreaseVersion(s)
    PROVE  IInv'
<1>1. /\ tx[s] # Null /\ Head(tx[s].todo) = "increase_version" /\ VersionIsFree(s)
      /\ Done(s, [tx[s] EXCEPT !.version = version + 1])
    BY DEF IncreaseVersion, TakesVersion, Runs
<1>2. /\ HasItsFields(tx[s]) /\ tx[s].op \in Operation /\ Remains(tx[s])
    BY <1>1, EditTransaction
<1>3. Len(tx[s].todo) = 4
    BY <1>1, <1>2, PositionOfStatement
<1>4. PICK t : t = [tx[s] EXCEPT !.version = version + 1]
    OBVIOUS
<1>5. /\ HasItsFields(t) /\ t.op = tx[s].op /\ t.todo = tx[s].todo
      /\ t.writes = tx[s].writes /\ t.version = version + 1
    BY <1>2, <1>4 DEF HasItsFields
<1>6. Done(s, t)
    BY <1>1, <1>4, Zenon
<1>7. PICK q :
        /\ HasItsFields(q) /\ q.op \in Operation /\ Remains(q)
        /\ Len(q.todo) = 4 - 1
        /\ q.targets = Null /\ IsFiniteSet(DOMAIN q.writes)
        /\ q.version = version + 1
        /\ tx' = [tx EXCEPT ![s] = q]
        /\ UNCHANGED <<testcases, version, published>>
    BY <1>1, <1>3, <1>5, <1>6, SmallNumbers, PublicationStep
<1>8. \A u \in Session \ {s} : ~HoldsVersion(u)
    <2>1. version + 1 # Null
        BY NullAssumption DEF IInv, VersionsAreNumbered
    <2>. QED
        BY <1>1, <2>1 DEF VersionIsFree, Others, IInv, VersionIsLocked, HoldsVersion
<1>9. ~(Len(q.todo) > 3) /\ ~(Len(q.todo) <= 2) /\ ~(Len(q.todo) <= 1)
    BY <1>7
<1>. QED
    BY <1>7, <1>8, <1>9, SessionStep, Zenon

(* Who has taken the version keeps it to itself until it ends.             *)
LEMMA VersionIsMine ==
    ASSUME IInv, NEW s \in Session, tx[s] # Null, Len(tx[s].todo) <= 3
    PROVE  tx[s].version = version + 1 /\ \A u \in Session \ {s} : ~HoldsVersion(u)
BY DEF IInv, VersionIsLocked, HoldsVersion

LEMMA ReadManifestStep ==
    ASSUME IInv, NEW s \in Session, ReadManifest(s)
    PROVE  IInv'
<1>1. /\ tx[s] # Null /\ Head(tx[s].todo) = "read_manifest"
      /\ Done(s, [tx[s] EXCEPT !.manifest = Cardinality(DOMAIN View(s))])
    BY DEF ReadManifest, Runs
<1>2. /\ HasItsFields(tx[s]) /\ tx[s].op \in Operation /\ Remains(tx[s])
    BY <1>1, EditTransaction
<1>3. Len(tx[s].todo) = 3 /\ Len(tx[s].todo) <= 3
    BY <1>1, <1>2, PositionOfStatement, SmallNumbers, Zenon
<1>4. tx[s].version = version + 1 /\ \A u \in Session \ {s} : ~HoldsVersion(u)
    BY <1>1, <1>3, VersionIsMine
<1>5. PICK t : t = [tx[s] EXCEPT !.manifest = Cardinality(DOMAIN View(s))]
    OBVIOUS
<1>6. /\ HasItsFields(t) /\ t.op = tx[s].op /\ t.todo = tx[s].todo
      /\ t.writes = tx[s].writes /\ t.version = tx[s].version
      /\ t.manifest = Cardinality(DOMAIN View(s))
    BY <1>2, <1>5 DEF HasItsFields
<1>7. Done(s, t)
    BY <1>1, <1>5, Zenon
<1>8. PICK q :
        /\ HasItsFields(q) /\ q.op \in Operation /\ Remains(q)
        /\ Len(q.todo) = 3 - 1
        /\ q.targets = Null /\ IsFiniteSet(DOMAIN q.writes)
        /\ q.version = t.version /\ q.manifest = t.manifest
        /\ tx' = [tx EXCEPT ![s] = q]
        /\ UNCHANGED <<testcases, version, published>>
        /\ View(s)' = View(s)
    BY <1>1, <1>3, <1>6, <1>7, SmallNumbers, PublicationStep
<1>9. ~(Len(q.todo) > 3) /\ ~(Len(q.todo) <= 1)
    BY <1>8
<1>10. q.version = version + 1 /\ q.manifest = Cardinality(DOMAIN View(s)')
    BY <1>4, <1>6, <1>8
<1>. QED
    BY <1>4, <1>8, <1>9, <1>10, SessionStep, Zenon

LEMMA PublishStep ==
    ASSUME IInv, NEW s \in Session, Publish(s)
    PROVE  IInv'
<1>1. /\ tx[s] # Null /\ Head(tx[s].todo) = "publish"
      /\ Done(s, [tx[s] EXCEPT !.copy = Rows(s)])
    BY DEF Publish, Runs, Rows
<1>2. /\ HasItsFields(tx[s]) /\ tx[s].op \in Operation /\ Remains(tx[s])
    BY <1>1, EditTransaction
<1>3. Len(tx[s].todo) = 2 /\ Len(tx[s].todo) <= 3 /\ Len(tx[s].todo) <= 2
    BY <1>1, <1>2, PositionOfStatement, SmallNumbers, Zenon
<1>4. tx[s].version = version + 1 /\ \A u \in Session \ {s} : ~HoldsVersion(u)
    BY <1>1, <1>3, VersionIsMine
<1>5. tx[s].manifest = Cardinality(DOMAIN View(s))
    BY <1>1, <1>3 DEF IInv, SnapshotIsCurrent
<1>6. PICK t : t = [tx[s] EXCEPT !.copy = Rows(s)]
    OBVIOUS
<1>7. /\ HasItsFields(t) /\ t.op = tx[s].op /\ t.todo = tx[s].todo
      /\ t.writes = tx[s].writes /\ t.version = tx[s].version
      /\ t.manifest = tx[s].manifest /\ t.copy = Rows(s)
    BY <1>2, <1>6 DEF HasItsFields
<1>8. Done(s, t)
    BY <1>1, <1>6, Zenon
<1>9. PICK q :
        /\ HasItsFields(q) /\ q.op \in Operation /\ Remains(q)
        /\ Len(q.todo) = 2 - 1
        /\ q.targets = Null /\ IsFiniteSet(DOMAIN q.writes)
        /\ q.version = t.version /\ q.manifest = t.manifest /\ q.copy = t.copy
        /\ tx' = [tx EXCEPT ![s] = q]
        /\ UNCHANGED <<testcases, version, published>>
        /\ View(s)' = View(s) /\ Rows(s)' = Rows(s)
    BY <1>1, <1>3, <1>7, <1>8, SmallNumbers, PublicationStep
<1>10. ~(Len(q.todo) > 3)
    BY <1>9
<1>11. /\ q.version = version + 1
       /\ q.manifest = Cardinality(DOMAIN View(s)') /\ q.copy = Rows(s)'
    BY <1>4, <1>5, <1>7, <1>9
<1>. QED
    BY <1>4, <1>9, <1>10, <1>11, SessionStep, Zenon

(* The commit, when orders are unique.                                     *)
LEMMA CommitEffect ==
    ASSUME IInv, NEW s \in Session, Commit(s), ~RollBack(s)
    PROVE  /\ tx[s] # Null /\ Len(tx[s].todo) = 1
           /\ testcases' = View(s)
           /\ OrdersAreUnique(View(s)) /\ IsFiniteSet(DOMAIN View(s))
           /\ version' = version + 1
           /\ published' =
                [v \in DOMAIN published \cup {version + 1} |->
                    IF v = version + 1
                    THEN [testcase_count |-> Cardinality(DOMAIN View(s)), testcases |-> Rows(s)]
                    ELSE published[v]]
           /\ tx' = [tx EXCEPT ![s] = Null]
           /\ \A u \in Session \ {s} : ~HoldsVersion(u)
<1>1. tx[s] # Null /\ Head(tx[s].todo) = "commit" /\ OrdersAreUnique(View(s))
    BY DEF Commit, Runs
<1>2. tx[s].op \in Operation /\ Remains(tx[s])
    BY <1>1, EditTransaction
<1>3. /\ Len(tx[s].todo) = 1 /\ Len(tx[s].todo) <= 1
      /\ Len(tx[s].todo) <= 2 /\ Len(tx[s].todo) <= 3
    BY <1>1, <1>2, PositionOfStatement, SmallNumbers, Zenon
<1>4. tx[s].version = version + 1 /\ \A u \in Session \ {s} : ~HoldsVersion(u)
    BY <1>1, <1>3, VersionIsMine
<1>5. tx[s].manifest = Cardinality(DOMAIN View(s)) /\ tx[s].copy = Rows(s)
    BY <1>1, <1>3 DEF IInv, SnapshotIsCurrent
<1>6. IsFiniteSet(DOMAIN View(s))
    BY <1>1, ViewIsFinite
<1>. QED
    BY <1>1, <1>3, <1>4, <1>5, <1>6 DEF Commit

LEMMA CommitStep ==
    ASSUME IInv, NEW s \in Session, Commit(s)
    PROVE  IInv'
<1>1. CASE RollBack(s)
    BY <1>1, RollBackStep
<1>2. CASE ~RollBack(s)
    <2>. DEFINE view == View(s)
                rows == Rows(s)
                count == Cardinality(DOMAIN View(s))
    <2>1. /\ testcases' = view
          /\ OrdersAreUnique(view) /\ IsFiniteSet(DOMAIN view)
          /\ version' = version + 1
          /\ published' = [v \in DOMAIN published \cup {version + 1} |->
                            IF v = version + 1
                            THEN [testcase_count |-> count, testcases |-> rows]
                            ELSE published[v]]
          /\ tx' = [tx EXCEPT ![s] = Null]
          /\ \A u \in Session \ {s} : ~HoldsVersion(u)
        BY <1>2, CommitEffect
    <2>2. view = [r \in DOMAIN view |-> view[r]] /\ rows = {view[r] : r \in DOMAIN view}
        BY DEF View, Rows
    <2>3. Cardinality(rows) = count
        BY <2>1, <2>2, UniqueOrdersCount
    <2>. HIDE DEF view, rows, count
    <2>4. /\ version \in Nat \ {0} /\ DOMAIN published = 1 .. version
          /\ published[version].testcases = {testcases[r] : r \in DOMAIN testcases}
          /\ \A v \in 1 .. version :
                published[v].testcase_count = Cardinality(published[v].testcases)
        BY DEF IInv, VersionsAreNumbered, VersionsAreTrue, ManifestsAreConsistent,
               CurrentVersionIsCurrent
    <2>5. /\ DOMAIN published' = 1 .. version'
          /\ version' \in Nat \ {0}
          /\ published'[version'] = [testcase_count |-> count, testcases |-> rows]
          /\ \A v \in 1 .. version : published'[v] = published[v]
          /\ \A v \in 1 .. version' : v = version' \/ v \in 1 .. version
        BY <2>1, <2>4
    <2>6. VersionsAreNumbered'
        BY <2>5 DEF VersionsAreNumbered
    <2>7. CurrentVersionIsCurrent'
        BY <2>1, <2>2, <2>5 DEF CurrentVersionIsCurrent
    <2>8. ManifestsAreConsistent'
        <3>. SUFFICES ASSUME NEW v \in 1 .. version'
                      PROVE  published'[v].testcase_count = Cardinality(published'[v].testcases)
            BY <2>5 DEF ManifestsAreConsistent
        <3>1. CASE v = version'
            BY <2>3, <2>5, <3>1
        <3>2. CASE v \in 1 .. version
            BY <2>4, <2>5, <3>2
        <3>. QED
            BY <2>5, <3>1, <3>2
    <2>9. /\ tx' = [u \in Session |-> tx'[u]]
          /\ \A u \in Session : tx'[u] # Null => u # s /\ tx'[u] = tx[u]
        BY <2>1 DEF IInv, TransactionsAreWellFormed
    <2>10. TransactionsAreWellFormed'
        BY <2>9 DEF IInv, TransactionsAreWellFormed
    <2>11. \A u \in Session : ~HoldsVersion(u)'
        BY <2>1, <2>9 DEF HoldsVersion
    <2>12. VersionIsLocked'
        BY <2>1, <2>9, <2>11 DEF IInv, VersionIsLocked
    <2>13. SnapshotIsCurrent'
        <3>1. \A u \in Session : tx'[u] # Null => Len(tx'[u].todo) \in Nat
            BY <2>10, PositionOfStatement DEF TransactionsAreWellFormed
        <3>2. \A u \in Session : tx'[u] # Null => ~(Len(tx'[u].todo) <= 3)
            BY <2>11 DEF HoldsVersion
        <3>3. \A u \in Session : tx'[u] # Null =>
                ~(Len(tx'[u].todo) <= 2) /\ ~(Len(tx'[u].todo) <= 1)
            BY <3>1, <3>2
        <3>. QED
            BY <3>3, Zenon DEF SnapshotIsCurrent
    <2>14. RowsAreFinite'
        BY <2>1, <2>9 DEF IInv, RowsAreFinite
    <2>. QED
        BY <2>6, <2>7, <2>8, <2>10, <2>12, <2>13, <2>14 DEF IInv, VersionsAreTrue
<1>. QED
    BY <1>1, <1>2

LEMMA NextInvariant ==
    ASSUME IInv, [Next]_vars
    PROVE  IInv'
<1>1. CASE UNCHANGED vars
    <2>. USE <1>1 DEF vars, IInv
    <2>1. TransactionsAreWellFormed' /\ RowsAreFinite'
        BY DEF TransactionsAreWellFormed, RowsAreFinite
    <2>2. VersionIsLocked'
        BY DEF VersionIsLocked, HoldsVersion
    <2>3. \A s \in Session : Rows(s)' = Rows(s) /\ View(s)' = View(s)
        BY DEF Rows, View
    <2>4. SnapshotIsCurrent'
        BY <2>3 DEF SnapshotIsCurrent
    <2>5. VersionsAreNumbered' /\ VersionsAreTrue'
        BY DEF VersionsAreNumbered, VersionsAreTrue, ManifestsAreConsistent,
               CurrentVersionIsCurrent
    <2>. QED
        BY <2>1, <2>2, <2>4, <2>5
<1>2. ASSUME NEW s \in Session, NEW op \in Operation, Begin(s, op)
      PROVE  IInv'
    BY <1>2, BeginStep
<1>3. ASSUME NEW s \in Session, Fail(s) \/ Execute(s) \/ Write(s) \/ CountRows(s) \/ Insert(s)
      PROVE  IInv'
    BY <1>3, RollBackStep, ExecuteStep, WriteStep, CountRowsStep, InsertStep DEF Fail
<1>4. ASSUME NEW s \in Session, GetTestcase(s)
      PROVE  IInv'
    BY <1>4, NothingStep, RollBackStep DEF GetTestcase, Runs, EditStatement
<1>5. ASSUME NEW s \in Session, IncreaseCount(s) \/ DecreaseCount(s) \/ ClearCount(s)
      PROVE  IInv'
    <2>1. /\ tx[s] # Null /\ Head(tx[s].todo) \in EditStatement
          /\ RollBack(s) \/ \E n : SetCount(s, n)
        BY <1>5 DEF IncreaseCount, DecreaseCount, ClearCount, Runs, EditStatement
    <2>. QED
        BY <2>1, RollBackStep, CountStep DEF SetCount
<1>6. ASSUME NEW s \in Session, IncreaseVersion(s) \/ ReadManifest(s) \/ Publish(s) \/ Commit(s)
      PROVE  IInv'
    BY <1>6, IncreaseVersionStep, ReadManifestStep, PublishStep, CommitStep
<1>. QED
    BY <1>1, <1>2, <1>3, <1>4, <1>5, <1>6 DEF Next

LEMMA SpecInvariant == Spec => []IInv
BY InitInvariant, NextInvariant, PTL DEF Spec

-----------------------------------------------------------------------------

(* A version is what its administrator saw commit, and counts its own      *)
(* testcases, whoever edits at the same time (increase_version,            *)
(* publish_current_snapshot).                                              *)
THEOREM VersionsShowTheirTestcases == Spec => []VersionsAreTrue
<1>1. IInv => VersionsAreTrue
    BY DEF IInv
<1>. QED
    BY <1>1, SpecInvariant, PTL

(* A published version is never written again: the judges may keep what    *)
(* they have fetched of it (increase_version under the lock of the row).   *)
THEOREM VersionsAreImmutable == Spec => PublishedVersionsNeverChange
<1>. DEFINE Kept == \A v \in DOMAIN published : v \in DOMAIN published' /\ published'[v] = published[v]
<1>1. ASSUME IInv, [Next]_vars
      PROVE  [Kept]_vars
    <2>1. CASE UNCHANGED published
        BY <2>1
    <2>2. ASSUME NEW s \in Session, Commit(s), ~RollBack(s)
          PROVE  Kept
        <3>1. /\ DOMAIN published = 1 .. version /\ version \in Nat
              /\ published' = [v \in DOMAIN published \cup {version + 1} |->
                                IF v = version + 1
                                THEN [testcase_count |-> Cardinality(DOMAIN View(s)),
                                      testcases |-> Rows(s)]
                                ELSE published[v]]
            BY <1>1, <2>2, CommitEffect DEF IInv, VersionsAreNumbered
        <3>. QED
            BY <3>1
    <2>3. CASE ~UNCHANGED published
        <3>1. PICK s \in Session : Commit(s) /\ ~RollBack(s)
            BY <1>1, <2>3
            DEF Next, vars, Begin, Fail, Execute, Write, GetTestcase, CountRows, Insert,
                IncreaseCount, DecreaseCount, ClearCount, SetCount, IncreaseVersion, ReadManifest,
                Publish, RollBack, Done
        <3>. QED
            BY <2>2, <3>1
    <2>. QED
        BY <2>1, <2>3
<1>. QED
    BY <1>1, SpecInvariant, PTL DEF Spec, PublishedVersionsNeverChange

-----------------------------------------------------------------------------
(* Types.  An order is above 0 because the statements that lower one find  *)
(* it above that of a testcase there was, and an insert has been given its *)
(* order by the statement before it.                                       *)

HoldsTypedData(t) ==
    /\ DOMAIN t.writes \subseteq Row
    /\ \A r \in DOMAIN t.writes : t.writes[r] \in Testcase \cup {Null}
    /\ t.copy # Null => \A row \in t.copy : row \in Testcase
    /\ t.testcase_count # Null => t.testcase_count \in Nat
    /\ t.version # Null => t.version \in Nat
    /\ t.manifest # Null => t.manifest \in Nat

Typed(t) ==
    /\ HoldsTypedData(t)
    /\ t.targets # Null => t.targets \subseteq Row
    /\ Head(t.todo) = "insert" => t.testcase_count \in Nat \ {0}

TypeInvariant ==
    /\ DOMAIN testcases \subseteq Row
    /\ \A r \in DOMAIN testcases : testcases[r] \in Testcase
    /\ testcase_count \in Nat
    /\ \A v \in 1 .. version :
        /\ published[v].testcase_count \in Nat
        /\ \A row \in published[v].testcases : row \in Testcase
    /\ \A s \in Session : tx[s] # Null => Typed(tx[s])

LEMMA ViewType ==
    ASSUME TypeInvariant, NEW s \in Session, tx[s] # Null
    PROVE  /\ DOMAIN View(s) \subseteq Row
           /\ \A r \in DOMAIN View(s) : View(s)[r] \in Testcase
BY DEF TypeInvariant, Typed, HoldsTypedData, View

(* The statement a transaction is at, and the one that comes next.         *)
LEMMA StatementInOrder ==
    ASSUME NEW t, t.op \in Operation, Remains(t)
    PROVE  /\ Head(t.todo) \in {"delete", "shift"} => t.op.kind = "delete"
           /\ Head(t.todo) = "move" => t.op.kind = "move"
           /\ Head(t.todo) = "set" => t.op.kind = "set"
           /\ Len(t.todo) > 1 /\ Head(Tail(t.todo)) = "insert" => Head(t.todo) = "increase_count"
           /\ Head(t.todo) = "count_rows" => Head(Tail(SubSeq(t.todo, 3, Len(t.todo)))) # "insert"
           /\ Len(t.todo) = Len(Statements(t.op)) => Head(t.todo) # "insert"
<1>1. PICK S : S = Statements(t.op)
    OBVIOUS
<1>2. PICK n : n = Len(S)
    OBVIOUS
<1>3. PICK k : k = Len(t.todo)
    OBVIOUS
<1>4. /\ S \in Seq(Statement) /\ n \in Nat /\ k \in 1 .. n
      /\ t.todo \in Seq(Statement)
      /\ \A i \in 1 .. k : t.todo[i] = S[n - k + i]
    BY <1>1, <1>2, <1>3, OperationAssumption, StatementsType, LenProperties DEF Remains, IsEndOf
<1>5. PICK j : j = n - k + 1
    OBVIOUS
<1>6. j \in 1 .. n
    BY <1>4, <1>5
<1>7. Head(t.todo) = S[j]
    <2>1. k >= 1 /\ t.todo[1] = S[j]
        BY <1>4, <1>5
    <2>2. t.todo # <<>>
        BY <1>3, <1>4, EmptySeq
    <2>3. Head(t.todo) = t.todo[1]
        BY <1>4, <2>2
    <2>. QED
        BY <2>1, <2>2, <2>3
<1>8. \A i \in 1 .. n : IsInOrder(t.op, S, i)
    BY <1>1, <1>2, StatementsAreInOrder
<1>9. k > 1 /\ Head(Tail(t.todo)) = "insert" => S[j] = "increase_count"
    <2>. SUFFICES ASSUME k > 1, Head(Tail(t.todo)) = "insert"
                  PROVE  S[j] = "increase_count"
        OBVIOUS
    <2>1. t.todo[2] = "insert"
        BY <1>3, <1>4
    <2>2. S[j + 1] = "insert" /\ j + 1 \in 1 .. n /\ (j + 1) - 1 = j
        BY <1>4, <1>5, <2>1
    <2>. QED
        BY <1>8, <2>2 DEF IsInOrder
<1>10. S[j] = "count_rows" => Head(Tail(SubSeq(t.todo, 3, Len(t.todo)))) # "insert"
    <2>. SUFFICES ASSUME S[j] = "count_rows",
                         Head(Tail(SubSeq(t.todo, 3, Len(t.todo)))) = "insert"
                  PROVE  FALSE
        OBVIOUS
    <2>1. k >= 7
        BY <1>3, <1>7, PositionOfStatement
    <2>2. PICK p : p = SubSeq(t.todo, 3, Len(t.todo))
        OBVIOUS
    <2>3. /\ p \in Seq(Statement) /\ Len(p) = k - 2
          /\ \A i \in 1 .. Len(p) : p[i] = t.todo[i + 2]
        BY <1>3, <1>4, <2>1, <2>2, SkipProperties
    <2>4. Head(Tail(p)) = p[2]
        <3>1. Len(p) \in Nat /\ Len(p) >= 5 /\ p # <<>>
            BY <1>4, <2>1, <2>3, EmptySeq
        <3>2. /\ Tail(p) \in Seq(Statement) /\ Len(Tail(p)) = Len(p) - 1
              /\ \A i \in 1 .. Len(Tail(p)) : Tail(p)[i] = p[i + 1]
            BY <2>3, <3>1, HeadTailProperties
        <3>4. Len(Tail(p)) >= 1 /\ Tail(p)[1] = p[2]
            BY <3>1, <3>2
        <3>3. Tail(p) # <<>>
            BY <3>2, <3>4, EmptySeq
        <3>. QED
            BY <3>2, <3>3, <3>4
    <2>5. p[2] = t.todo[4] /\ t.todo[4] = S[j + 3]
        BY <1>4, <1>5, <2>1, <2>3
    <2>9. S[j + 3] = "insert"
        BY <2>2, <2>4, <2>5, Zenon
    <2>10. n \in Nat /\ k \in 1 .. n
        BY <1>4
    <2>11. j + 3 \in 1 .. n /\ (j + 3) - 1 = j + 2
        BY <1>5, <2>1, <2>10
    <2>6. S[j + 3] = "insert" /\ j + 3 \in 1 .. n /\ (j + 3) - 1 = j + 2
        BY <2>9, <2>11
    <2>7. S[j + 2] = "increase_count"
        BY <1>8, <2>6 DEF IsInOrder
    <2>8. S[j + 2] = "clear_count"
        BY <1>6, <1>8 DEF IsInOrder
    <2>. QED
        BY <2>7, <2>8
<1>11. k = n => S[j] # "insert"
    BY <1>4, <1>5, <1>6, <1>8 DEF IsInOrder
<1>12. /\ S[j] \in {"delete", "shift"} => t.op.kind = "delete"
       /\ S[j] = "move" => t.op.kind = "move"
       /\ S[j] = "set" => t.op.kind = "set"
    BY <1>6, <1>8 DEF IsInOrder
<1>. QED
    BY <1>1, <1>2, <1>3, <1>7, <1>9, <1>10, <1>11, <1>12

LEMMA HalfOfDouble == \A b \in Nat : (2 * b) \div 2 = b
OBVIOUS

(* An insert finds the content that is for it.                             *)
LEMMA InsertedContentType ==
    ASSUME NEW t, t.op \in Operation, Remains(t), Head(t.todo) = "insert"
    PROVE  /\ InsertedContent(t) \in Content
           /\ \E i \in 1 .. Len(t.op.contents) : InsertedContent(t) = t.op.contents[i]
<1>1. PICK S : S = Statements(t.op)
    OBVIOUS
<1>2. PICK n : n = Len(S)
    OBVIOUS
<1>3. PICK k : k = Len(t.todo)
    OBVIOUS
<1>4. PICK m : m = Len(t.op.contents)
    OBVIOUS
<1>5. /\ S \in Seq(Statement) /\ n \in Nat /\ k \in 1 .. n
      /\ t.todo \in Seq(Statement) /\ DOMAIN t.todo = 1 .. k
      /\ \A i \in 1 .. k : t.todo[i] = S[n - k + i]
    <2>1. /\ S \in Seq(Statement) /\ n \in Nat /\ k \in 1 .. n
          /\ t.todo \in Seq(Statement)
          /\ \A i \in 1 .. k : t.todo[i] = S[n - k + i]
        BY <1>1, <1>2, <1>3, OperationAssumption, StatementsType, LenProperties
        DEF Remains, IsEndOf
    <2>2. DOMAIN t.todo = 1 .. k
        BY <1>3, <2>1, LenProperties
    <2>. QED
        BY <2>1, <2>2
<1>6. m \in Nat /\ t.op.contents \in Seq(Content)
    <2>1. t.op.contents \in Seq(Content)
        BY OperationAssumption DEF Request
    <2>. QED
        BY <1>4, <2>1, LenProperties
<1>7. PICK first \in Nat : first = FirstInsert(t.op)
    BY DEF FirstInsert
<1>. DEFINE left == {i \in DOMAIN t.todo : t.todo[i] = "insert"}
            place == [i \in left |-> (n - k + i - first) \div 2]
<1>8. ASSUME NEW i \in left
      PROVE  place[i] \in 1 .. m /\ i = 2 * place[i] + first - (n - k) /\ i \in Nat
    <2>1. n - k + i \in 1 .. n /\ S[n - k + i] = "insert" /\ i \in Nat
        BY <1>5
    <2>2. IsInOrder(t.op, S, n - k + i)
        BY <1>1, <1>2, <2>1, StatementsAreInOrder
    <2>3. PICK b \in 1 .. m : n - k + i = first + 2 * b
        BY <1>4, <1>7, <2>1, <2>2 DEF IsInOrder
    <2>7. n \in Nat /\ k \in Nat /\ m \in Nat /\ b \in Nat
        BY <1>5, <1>6
    <2>4. n - k + i - first = 2 * b /\ i = 2 * b + first - (n - k)
        BY <2>1, <2>3, <2>7
    <2>5. (2 * b) \div 2 = b
        BY <2>7, HalfOfDouble
    <2>6. place[i] = b
        BY <2>4, <2>5
    <2>. HIDE DEF place
    <2>. QED
        BY <2>1, <2>4, <2>6, Zenon
<1>9. left \subseteq 1 .. k /\ 1 \in left
    <2>1. t.todo # <<>>
        BY <1>3, <1>5, EmptySeq
    <2>2. t.todo[1] = "insert"
        BY <1>5, <2>1
    <2>. QED
        BY <1>5, <2>2
<1>10. IsFiniteSet(left)
    BY <1>5, <1>9, FS_Interval, FS_Subset
<1>11. IsFiniteSet(1 .. m) /\ Cardinality(1 .. m) = m
    BY <1>6, FS_Interval
<1>12. place \in Injection(left, 1 .. m)
    <2>1. place \in [left -> 1 .. m]
        BY <1>8
    <2>2. ASSUME NEW h \in left, NEW i \in left, place[h] = place[i]
          PROVE  h = i
        <3>. HIDE DEF left, place
        <3>. QED
            BY <1>8, <2>2
    <2>. QED
        BY <2>1, <2>2 DEF Injection, IsInjective
<1>13. Cardinality(left) <= m
    BY <1>11, <1>12, FS_Injection
<1>14. Cardinality(left) \in Nat /\ Cardinality(left) # 0
    BY <1>9, <1>10, FS_CardinalityType, FS_EmptySet
<1>15. m - Cardinality(left) + 1 \in 1 .. m
    BY <1>6, <1>13, <1>14
<1>. HIDE DEF left
<1>16. InsertedContent(t) = t.op.contents[m - Cardinality(left) + 1]
    BY <1>4 DEF InsertedContent, left
<1>. QED
    BY <1>4, <1>6, <1>15, <1>16, ElementOfSeq

LEMMA WrittenType ==
    ASSUME NEW op \in Operation, NEW st \in RowStatement, NEW row \in Testcase,
           Matches(op, st, row),
           st = "shift" => op.kind = "delete",
           st = "move" => op.kind = "move",
           st = "set" => op.kind = "set"
    PROVE  Written(op, st, row) \in Testcase \cup {Null}
<1>1. /\ op.at \in Nat /\ op.to \in Nat /\ op.contents \in Seq(Content)
      /\ op.kind \in {"set", "delete", "move"} => op.at > 0
      /\ op.kind = "move" => op.to > 0
      /\ op.kind = "set" => Len(op.contents) = 1
    BY OperationAssumption DEF Request
<1>2. row.order \in Nat \ {0} /\ row.content \in Content
    BY DEF Testcase
<1>3. CASE st = "set"
    <2>1. op.contents[1] \in Content
        BY <1>1, <1>3
    <2>. QED
        BY <1>3, <2>1 DEF Written, Testcase
<1>4. CASE st \in {"delete", "delete_all"}
    BY <1>4 DEF Written
<1>5. CASE st = "shift"
    <2>1. row.order - 1 \in Nat \ {0}
        BY <1>1, <1>2, <1>5 DEF Matches
    <2>. QED
        BY <1>5, <2>1 DEF Written, Testcase
<1>6. CASE st = "move"
    <2>1. Moved(op, row.order) \in Nat \ {0}
        BY <1>1, <1>2, <1>6 DEF Moved
    <2>. QED
        BY <1>6, <2>1 DEF Written, Testcase
<1>. QED
    BY <1>3, <1>4, <1>5, <1>6 DEF RowStatement

(* What a session leaves behind has its types.                             *)
LEMMA TypeStep ==
    ASSUME IInv, TypeInvariant, NEW s \in Session, NEW t,
           tx' = [tx EXCEPT ![s] = t],
           UNCHANGED <<testcases, testcase_count, version, published>>,
           t # Null => Typed(t)
    PROVE  TypeInvariant'
<1>1. tx'[s] = t /\ \A u \in Session \ {s} : tx'[u] = tx[u]
    BY DEF IInv, TransactionsAreWellFormed
<1>2. \A u \in Session : tx'[u] # Null => Typed(tx'[u])
    BY <1>1 DEF TypeInvariant
<1>. QED
    BY <1>2 DEF TypeInvariant

LEMMA RollBackType ==
    ASSUME IInv, TypeInvariant, NEW s \in Session, RollBack(s)
    PROVE  TypeInvariant'
BY TypeStep DEF RollBack

(* A statement is done, with t for the transaction.                        *)
LEMMA DoneType ==
    ASSUME IInv, TypeInvariant, NEW s \in Session, NEW t, Done(s, t),
           HasItsFields(t), HoldsTypedData(t),
           Head(Tail(t.todo)) = "insert" => t.testcase_count \in Nat \ {0}
    PROVE  TypeInvariant'
<1>1. PICK q : q = [t EXCEPT !.todo = Tail(@), !.targets = Null]
    OBVIOUS
<1>2. /\ q.todo = Tail(t.todo) /\ q.targets = Null /\ q.writes = t.writes
      /\ q.testcase_count = t.testcase_count /\ q.version = t.version
      /\ q.manifest = t.manifest /\ q.copy = t.copy
    BY <1>1 DEF HasItsFields
<1>3. Typed(q)
    BY <1>2 DEF Typed, HoldsTypedData
<1>4. /\ tx' = [tx EXCEPT ![s] = q]
      /\ UNCHANGED <<testcases, testcase_count, version, published>>
    BY <1>1 DEF Done
<1>. QED
    BY <1>3, <1>4, TypeStep

(* Only increase_count comes before an insert.                             *)
LEMMA NoInsertNext ==
    ASSUME IInv, NEW s \in Session, tx[s] # Null,
           Head(tx[s].todo) \notin {"increase_count", "commit"}
    PROVE  Head(Tail(tx[s].todo)) # "insert"
<1>1. PICK t : t = tx[s]
    OBVIOUS
<1>2. t.op \in Operation /\ Remains(t)
    BY <1>1, EditTransaction
<1>3. Head(t.todo) \in Statement
    BY <1>2, PositionOfStatement, HeadTailProperties DEF Remains, IsEndOf
<1>4. Len(t.todo) > 1
    <2>1. CASE Head(t.todo) \in EditStatement
        BY <1>2, <2>1, PositionOfStatement
    <2>2. CASE Head(t.todo) = "increase_version"
        <3>1. Len(t.todo) = 4
            BY <1>2, <2>2, PositionOfStatement, Zenon
        <3>. QED
            BY <3>1
    <2>3. CASE Head(t.todo) = "read_manifest"
        <3>1. Len(t.todo) = 3
            BY <1>2, <2>3, PositionOfStatement, Zenon
        <3>. QED
            BY <3>1
    <2>4. CASE Head(t.todo) = "publish"
        <3>1. Len(t.todo) = 2
            BY <1>2, <2>4, PositionOfStatement, Zenon
        <3>. QED
            BY <3>1
    <2>. QED
        BY <1>1, <1>3, <2>1, <2>2, <2>3, <2>4 DEF Statement, EditStatement
<1>. QED
    BY <1>1, <1>2, <1>4, StatementInOrder

(* A transaction that is open has its types.                               *)
LEMMA OpenTransaction ==
    ASSUME IInv, TypeInvariant, NEW s \in Session, tx[s] # Null, NEW t, t = tx[s]
    PROVE  /\ HasItsFields(t) /\ HoldsTypedData(t)
           /\ t.op \in Operation /\ Remains(t)
BY EditTransaction DEF TypeInvariant, Typed

LEMMA NothingType ==
    ASSUME IInv, TypeInvariant, NEW s \in Session, tx[s] # Null,
           Head(tx[s].todo) \notin {"increase_count", "commit"}, Done(s, tx[s])
    PROVE  TypeInvariant'
BY OpenTransaction, NoInsertNext, DoneType

(* The data of a statement that writes one field of the transaction.       *)
LEMMA CountType ==
    ASSUME IInv, TypeInvariant, NEW s \in Session, tx[s] # Null, NEW n \in Nat,
           SetCount(s, n),
           Head(tx[s].todo) # "commit",
           Head(tx[s].todo) = "increase_count" => n # 0
    PROVE  TypeInvariant'
<1>1. PICK t : t = [tx[s] EXCEPT !.testcase_count = n]
    OBVIOUS
<1>2. HasItsFields(tx[s]) /\ HoldsTypedData(tx[s])
    BY OpenTransaction
<1>3. HasItsFields(t) /\ t.todo = tx[s].todo /\ t.testcase_count = n
    BY <1>1, <1>2 DEF HasItsFields
<1>4. HoldsTypedData(t)
    BY <1>1, <1>2 DEF HasItsFields, HoldsTypedData
<1>5. Head(Tail(t.todo)) = "insert" => n # 0
    BY <1>3, NoInsertNext
<1>. QED
    BY <1>1, <1>3, <1>4, <1>5, DoneType DEF SetCount

LEMMA LatestCountType ==
    ASSUME IInv, TypeInvariant, NEW s \in Session, tx[s] # Null
    PROVE  LatestCount(s) \in Nat
BY DEF TypeInvariant, Typed, HoldsTypedData, LatestCount

LEMMA BeginType ==
    ASSUME IInv, TypeInvariant, NEW s \in Session, NEW op \in Operation, Begin(s, op)
    PROVE  TypeInvariant'
<1>1. PICK t : t = [op |-> op, todo |-> Statements(op), targets |-> Null,
                    writes |-> [r \in {} |-> Null], testcase_count |-> Null,
                    version |-> Null, manifest |-> Null, copy |-> Null]
    OBVIOUS
<1>2. /\ tx' = [tx EXCEPT ![s] = t]
      /\ UNCHANGED <<testcases, testcase_count, version, published>>
    BY <1>1 DEF Begin
<1>3. Statements(op) \in Seq(Statement) /\ Len(Statements(op)) \in Nat /\ Len(Statements(op)) >= 4
    <2>1. op \in Request
        BY OperationAssumption
    <2>2. Len(Edits(op)) \in Nat
        BY <2>1, EditsType, LenProperties
    <2>. QED
        BY <2>1, <2>2, StatementsType, LenProperties
<1>4. t.op = op /\ t.todo = Statements(op) /\ Remains(t)
    BY <1>1, <1>3, ListIsEnd DEF Remains
<1>5. Head(t.todo) # "insert"
    BY <1>4, StatementInOrder
<1>6. HoldsTypedData(t) /\ t.targets = Null
    BY <1>1 DEF HoldsTypedData
<1>7. Typed(t)
    BY <1>5, <1>6 DEF Typed
<1>. QED
    BY <1>2, <1>7, TypeStep

LEMMA ExecuteType ==
    ASSUME IInv, TypeInvariant, NEW s \in Session, Execute(s)
    PROVE  TypeInvariant'
<1>1. PICK targets : /\ tx' = [tx EXCEPT ![s].targets = targets]
                     /\ targets \subseteq DOMAIN View(s)
    BY DEF Execute
<1>2. /\ tx[s] # Null /\ Head(tx[s].todo) \in RowStatement
      /\ UNCHANGED <<testcases, testcase_count, version, published>>
    BY DEF Execute
<1>3. PICK q : q = [tx[s] EXCEPT !.targets = targets]
    OBVIOUS
<1>4. HasItsFields(tx[s]) /\ HoldsTypedData(tx[s])
    BY <1>2, OpenTransaction
<1>5. /\ q.todo = tx[s].todo /\ q.targets = targets /\ q.writes = tx[s].writes
      /\ q.testcase_count = tx[s].testcase_count /\ q.version = tx[s].version
      /\ q.manifest = tx[s].manifest /\ q.copy = tx[s].copy
    BY <1>3, <1>4 DEF HasItsFields
<1>6. HoldsTypedData(q) /\ Head(q.todo) # "insert"
    BY <1>2, <1>4, <1>5 DEF HoldsTypedData, RowStatement
<1>7. targets \subseteq Row
    BY <1>1, <1>2, ViewType
<1>8. Typed(q)
    BY <1>5, <1>6, <1>7 DEF Typed
<1>9. tx' = [tx EXCEPT ![s] = q]
    BY <1>1, <1>3
<1>. QED
    BY <1>2, <1>8, <1>9, TypeStep

(* Rows written by a statement.                                            *)
LEMMA WritesType ==
    ASSUME IInv, TypeInvariant, NEW s \in Session, tx[s] # Null, NEW writes,
           Head(tx[s].todo) \notin {"increase_count", "commit"},
           DOMAIN writes \subseteq Row,
           \A r \in DOMAIN writes : writes[r] \in Testcase \cup {Null},
           Done(s, [tx[s] EXCEPT !.writes = writes])
    PROVE  TypeInvariant'
<1>1. PICK t : t = [tx[s] EXCEPT !.writes = writes]
    OBVIOUS
<1>2. HasItsFields(tx[s]) /\ HoldsTypedData(tx[s])
    BY OpenTransaction
<1>3. /\ HasItsFields(t) /\ t.todo = tx[s].todo /\ t.writes = writes
      /\ t.testcase_count = tx[s].testcase_count /\ t.version = tx[s].version
      /\ t.manifest = tx[s].manifest /\ t.copy = tx[s].copy
    BY <1>1, <1>2 DEF HasItsFields
<1>4. HoldsTypedData(t)
    BY <1>2, <1>3 DEF HoldsTypedData
<1>5. Head(Tail(t.todo)) # "insert"
    BY <1>3, NoInsertNext
<1>6. Done(s, t)
    BY <1>1, Zenon
<1>. QED
    BY <1>3, <1>4, <1>5, <1>6, DoneType

LEMMA WriteType ==
    ASSUME IInv, TypeInvariant, NEW s \in Session, Write(s)
    PROVE  TypeInvariant'
<1>1. PICK t : t = tx[s]
    OBVIOUS
<1>2. PICK st : st = Head(t.todo)
    OBVIOUS
<1>3. /\ t # Null /\ t.op \in Operation /\ Remains(t)
      /\ HoldsTypedData(t) /\ st \in RowStatement
    BY <1>1, <1>2, EditTransaction, OpenTransaction DEF Write
<1>4. CASE RollBack(s)
    BY <1>4, RollBackType
<1>5. CASE ~RollBack(s)
    <2>. DEFINE affected == Recheck(s, st)
                written == [r \in affected \cup DOMAIN t.writes |->
                                IF r \in affected THEN Written(t.op, st, View(s)[r])
                                                  ELSE t.writes[r]]
    <2>1. Done(s, [t EXCEPT !.writes = written])
        BY <1>1, <1>2, <1>5 DEF Write
    <2>2. /\ affected \subseteq DOMAIN View(s)
          /\ \A r \in affected : Matches(t.op, st, View(s)[r])
        BY <1>1 DEF Recheck
    <2>3. /\ affected \subseteq Row
          /\ \A r \in affected : View(s)[r] \in Testcase
        BY <1>1, <1>3, <2>2, ViewType
    <2>4. /\ st = "shift" => t.op.kind = "delete"
          /\ st = "move" => t.op.kind = "move"
          /\ st = "set" => t.op.kind = "set"
        BY <1>2, <1>3, StatementInOrder
    <2>. HIDE DEF affected
    <2>5. \A r \in affected : Written(t.op, st, View(s)[r]) \in Testcase \cup {Null}
        BY <1>3, <2>2, <2>3, <2>4, WrittenType
    <2>6. /\ DOMAIN written \subseteq Row
          /\ \A r \in DOMAIN written : written[r] \in Testcase \cup {Null}
        BY <1>3, <2>3, <2>5 DEF HoldsTypedData
    <2>7. st \notin {"increase_count", "commit"}
        BY <1>3 DEF RowStatement
    <2>. HIDE DEF written
    <2>. QED
        BY <1>1, <1>2, <1>3, <2>1, <2>6, <2>7, WritesType
<1>. QED
    BY <1>4, <1>5

LEMMA CountRowsType ==
    ASSUME IInv, TypeInvariant, NEW s \in Session, CountRows(s)
    PROVE  TypeInvariant'
<1>1. PICK t : t = tx[s]
    OBVIOUS
<1>2. t # Null /\ Head(t.todo) = "count_rows"
    BY <1>1 DEF CountRows, Runs
<1>3. HasItsFields(t) /\ HoldsTypedData(t) /\ t.op \in Operation /\ Remains(t)
    BY <1>1, <1>2, OpenTransaction
<1>4. CASE RollBack(s)
    BY <1>4, RollBackType
<1>5. CASE Done(s, t)
    BY <1>1, <1>2, <1>5, NothingType
<1>6. CASE Done(s, [t EXCEPT !.todo = SubSeq(@, 3, Len(@))])
    <2>1. PICK q : q = [t EXCEPT !.todo = SubSeq(@, 3, Len(@))]
        OBVIOUS
    <2>2. /\ HasItsFields(q) /\ q.todo = SubSeq(t.todo, 3, Len(t.todo))
          /\ q.writes = t.writes /\ q.testcase_count = t.testcase_count
          /\ q.version = t.version /\ q.manifest = t.manifest /\ q.copy = t.copy
        BY <1>3, <2>1 DEF HasItsFields
    <2>3. HoldsTypedData(q)
        BY <1>3, <2>2 DEF HoldsTypedData
    <2>4. Head(Tail(q.todo)) # "insert"
        BY <1>2, <1>3, <2>2, StatementInOrder
    <2>5. Done(s, q)
        BY <1>6, <2>1
    <2>. QED
        BY <2>2, <2>3, <2>4, <2>5, DoneType
<1>. QED
    BY <1>1, <1>4, <1>5, <1>6 DEF CountRows

LEMMA InsertType ==
    ASSUME IInv, TypeInvariant, NEW s \in Session, Insert(s)
    PROVE  TypeInvariant'
<1>1. PICK t : t = tx[s]
    OBVIOUS
<1>2. t # Null /\ Head(t.todo) = "insert" /\ FreshRows # {}
    BY <1>1 DEF Insert, Runs
<1>3. HoldsTypedData(t) /\ t.op \in Operation /\ Remains(t)
    BY <1>1, <1>2, OpenTransaction
<1>4. CASE RollBack(s)
    BY <1>4, RollBackType
<1>5. CASE ~RollBack(s)
    <2>. DEFINE id == CHOOSE r \in FreshRows : TRUE
                row == [order |-> t.testcase_count, content |-> InsertedContent(t)]
                written == [r \in {id} \cup DOMAIN t.writes |-> IF r = id THEN row ELSE t.writes[r]]
    <2>1. Done(s, [t EXCEPT !.writes = written])
        BY <1>1, <1>5 DEF Insert
    <2>2. id \in FreshRows
        BY <1>2
    <2>3. id \in Row
        BY <2>2 DEF FreshRows
    <2>4. InsertedContent(t) \in Content
        BY <1>2, <1>3, InsertedContentType
    <2>5. t.testcase_count \in Nat \ {0}
        BY <1>1, <1>2 DEF TypeInvariant, Typed
    <2>6. row \in Testcase
        BY <2>4, <2>5 DEF Testcase
    <2>. HIDE DEF id, row
    <2>7. /\ DOMAIN written \subseteq Row
          /\ \A r \in DOMAIN written : written[r] \in Testcase \cup {Null}
        BY <1>3, <2>3, <2>6 DEF HoldsTypedData
    <2>. HIDE DEF written
    <2>. QED
        BY <1>1, <1>2, <2>1, <2>7, WritesType
<1>. QED
    BY <1>4, <1>5

(* What the publication notes in its transaction.                          *)
LEMMA NoteType ==
    ASSUME IInv, TypeInvariant, NEW s \in Session, tx[s] # Null,
           Head(tx[s].todo) \notin {"increase_count", "commit"},
           NEW t, Done(s, t),
           \/ t = [tx[s] EXCEPT !.version = version + 1]
           \/ t = [tx[s] EXCEPT !.manifest = Cardinality(DOMAIN View(s))]
           \/ t = [tx[s] EXCEPT !.copy = Rows(s)]
    PROVE  TypeInvariant'
<1>1. HasItsFields(tx[s]) /\ HoldsTypedData(tx[s])
    BY OpenTransaction
<1>2. HasItsFields(t) /\ t.todo = tx[s].todo
    BY <1>1 DEF HasItsFields
<1>3. version + 1 \in Nat
    BY DEF IInv, VersionsAreNumbered
<1>4. Cardinality(DOMAIN View(s)) \in Nat
    BY ViewIsFinite, FS_CardinalityType
<1>5. \A row \in Rows(s) : row \in Testcase
    BY ViewType DEF Rows
<1>6. HoldsTypedData(t)
    BY <1>1, <1>3, <1>4, <1>5 DEF HasItsFields, HoldsTypedData
<1>. QED
    BY <1>2, <1>6, NoInsertNext, DoneType

LEMMA PublishingType ==
    ASSUME IInv, TypeInvariant, NEW s \in Session,
           IncreaseVersion(s) \/ ReadManifest(s) \/ Publish(s)
    PROVE  TypeInvariant'
<1>1. tx[s] # Null /\ Head(tx[s].todo) \notin {"increase_count", "commit"}
    BY DEF IncreaseVersion, TakesVersion, ReadManifest, Publish, Runs
<1>2. CASE IncreaseVersion(s)
    BY <1>1, <1>2, NoteType DEF IncreaseVersion
<1>3. CASE ReadManifest(s)
    BY <1>1, <1>3, NoteType DEF ReadManifest
<1>4. CASE Publish(s)
    BY <1>1, <1>4, NoteType DEF Publish, Rows
<1>. QED
    BY <1>2, <1>3, <1>4

LEMMA CommitType ==
    ASSUME IInv, TypeInvariant, NEW s \in Session, Commit(s)
    PROVE  TypeInvariant'
<1>1. CASE RollBack(s)
    BY <1>1, RollBackType
<1>2. CASE ~RollBack(s)
    <2>. DEFINE view == View(s)
                rows == Rows(s)
                count == Cardinality(DOMAIN View(s))
    <2>1. /\ tx[s] # Null
          /\ testcases' = view
          /\ version' = version + 1
          /\ published' = [v \in DOMAIN published \cup {version + 1} |->
                IF v = version + 1 THEN [testcase_count |-> count, testcases |-> rows]
                                   ELSE published[v]]
          /\ tx' = [tx EXCEPT ![s] = Null]
        BY <1>2, CommitEffect
    <2>2. testcase_count' = LatestCount(s)
        BY <1>2 DEF Commit
    <2>3. LatestCount(s) \in Nat
        BY <2>1, LatestCountType
    <2>4. DOMAIN view \subseteq Row /\ \A r \in DOMAIN view : view[r] \in Testcase
        BY <2>1, ViewType
    <2>5. \A row \in rows : row \in Testcase
        BY <2>4 DEF Rows
    <2>6. count \in Nat
        BY <2>1, ViewIsFinite, FS_CardinalityType
    <2>. HIDE DEF view, rows, count
    <2>7. version \in Nat /\ DOMAIN published = 1 .. version
        BY DEF IInv, VersionsAreNumbered
    <2>8. ASSUME NEW v \in 1 .. version'
          PROVE  /\ published'[v].testcase_count \in Nat
                 /\ \A row \in published'[v].testcases : row \in Testcase
        <3>1. CASE v = version + 1
            <4>1. published'[v] = [testcase_count |-> count, testcases |-> rows]
                BY <2>1, <3>1
            <4>. QED
                BY <2>5, <2>6, <4>1
        <3>2. CASE v # version + 1
            <4>1. v \in 1 .. version
                BY <2>1, <2>7, <3>2
            <4>2. published'[v] = published[v]
                BY <2>1, <2>7, <3>2, <4>1
            <4>. QED
                BY <4>1, <4>2 DEF TypeInvariant
        <3>. QED
            BY <3>1, <3>2
    <2>9. \A u \in Session : tx'[u] # Null => Typed(tx'[u])
        BY <2>1 DEF IInv, TransactionsAreWellFormed, TypeInvariant
    <2>. QED
        BY <2>1, <2>2, <2>3, <2>4, <2>8, <2>9 DEF TypeInvariant
<1>. QED
    BY <1>1, <1>2

LEMMA InitType == Init => TypeInvariant
<1>. SUFFICES ASSUME Init PROVE TypeInvariant
    OBVIOUS
<1>1. PICK list \in Uploaded :
        /\ testcases = [k \in DOMAIN list |-> [order |-> k, content |-> list[k]]]
        /\ testcase_count = Len(list)
        /\ published =
            IF list = <<>>
            THEN <<[testcase_count |-> 0, testcases |-> {}]>>
            ELSE <<[testcase_count |-> 0, testcases |-> {}],
                   [testcase_count |-> Len(list),
                    testcases |-> {[order |-> k, content |-> list[k]] : k \in DOMAIN list}]>>
        /\ version = Len(published)
        /\ tx = [s \in Session |-> Null]
    BY DEF Init
<1>2. PICK n \in Nat : n = Len(list) /\ DOMAIN list = 1 .. n
    BY UploadedAssumption, LenProperties
<1>3. \A k \in 1 .. n : list[k] \in Content /\ k \in Nat \ {0} /\ k \in Row
    BY <1>2, UploadedAssumption, ElementOfSeq
<1>. DEFINE rows == {[order |-> k, content |-> list[k]] : k \in DOMAIN list}
            new == [testcase_count |-> 0, testcases |-> {}]
            snapshot == [testcase_count |-> n, testcases |-> rows]
<1>4. \A row \in rows : row \in Testcase
    BY <1>2, <1>3 DEF Testcase
<1>5. DOMAIN testcases \subseteq Row /\ \A r \in DOMAIN testcases : testcases[r] \in Testcase
    BY <1>1, <1>2, <1>3 DEF Testcase
<1>6. published = <<new>> \/ published = <<new, snapshot>>
    BY <1>1, <1>2
<1>. HIDE DEF rows
<1>7. \A v \in 1 .. version : published[v] = new \/ published[v] = snapshot
    BY <1>1, <1>6
<1>8. \A v \in 1 .. version :
        /\ published[v].testcase_count \in Nat
        /\ \A row \in published[v].testcases : row \in Testcase
    BY <1>4, <1>7
<1>. QED
    BY <1>1, <1>2, <1>5, <1>8 DEF TypeInvariant

LEMMA NextType ==
    ASSUME IInv, TypeInvariant, [Next]_vars
    PROVE  TypeInvariant'
<1>1. CASE UNCHANGED vars
    BY <1>1 DEF vars, TypeInvariant
<1>2. ASSUME NEW s \in Session, NEW op \in Operation, Begin(s, op)
      PROVE  TypeInvariant'
    BY <1>2, BeginType
<1>3. ASSUME NEW s \in Session, Fail(s) \/ Execute(s) \/ Write(s) \/ CountRows(s) \/ Insert(s)
      PROVE  TypeInvariant'
    BY <1>3, RollBackType, ExecuteType, WriteType, CountRowsType, InsertType DEF Fail
<1>4. ASSUME NEW s \in Session, GetTestcase(s)
      PROVE  TypeInvariant'
    BY <1>4, NothingType, RollBackType DEF GetTestcase, Runs
<1>5. ASSUME NEW s \in Session, IncreaseCount(s) \/ DecreaseCount(s) \/ ClearCount(s)
      PROVE  TypeInvariant'
    <2>1. tx[s] # Null /\ Head(tx[s].todo) # "commit"
        BY <1>5 DEF IncreaseCount, DecreaseCount, ClearCount, Runs
    <2>2. LatestCount(s) \in Nat
        BY <2>1, LatestCountType
    <2>3. CASE RollBack(s)
        BY <2>3, RollBackType
    <2>4. ASSUME ~RollBack(s)
          PROVE  \E n \in Nat : SetCount(s, n) /\ (Head(tx[s].todo) = "increase_count" => n # 0)
        <3>1. CASE IncreaseCount(s)
            <4>1. LatestCount(s) + 1 \in Nat /\ LatestCount(s) + 1 # 0
                BY <2>2
            <4>. QED
                BY <3>1, <4>1 DEF IncreaseCount
        <3>2. CASE DecreaseCount(s)
            <4>1. LatestCount(s) > 0 => LatestCount(s) - 1 \in Nat
                BY <2>2
            <4>. QED
                BY <2>4, <3>2, <4>1 DEF DecreaseCount, Runs
        <3>3. CASE ClearCount(s)
            BY <3>3 DEF ClearCount, Runs
        <3>. QED
            BY <1>5, <3>1, <3>2, <3>3
    <2>. QED
        BY <2>1, <2>3, <2>4, CountType
<1>6. ASSUME NEW s \in Session, IncreaseVersion(s) \/ ReadManifest(s) \/ Publish(s) \/ Commit(s)
      PROVE  TypeInvariant'
    BY <1>6, PublishingType, CommitType
<1>. QED
    BY <1>1, <1>2, <1>3, <1>4, <1>5, <1>6 DEF Next

(* The rows, the versions and every open transaction have their types: no  *)
(* statement gives a testcase an order below 1 (the schema's CHECK), and   *)
(* none inserts a testcase without a content or an order.                  *)
THEOREM TypeCorrectness == Spec => []TypeOK
<1>1. Init => IInv /\ TypeInvariant
    BY InitInvariant, InitType
<1>2. IInv /\ TypeInvariant /\ [Next]_vars => (IInv /\ TypeInvariant)'
    BY NextInvariant, NextType
<1>3. IInv /\ TypeInvariant => TypeOK
    <2>. SUFFICES ASSUME IInv, TypeInvariant PROVE TypeOK
        OBVIOUS
    <2>1. \A s \in Session : tx[s] # Null =>
            tx[s].op \in Operation /\ tx[s].todo \in Seq(Statement) \ {<<>>}
        <3>. SUFFICES ASSUME NEW s \in Session, tx[s] # Null
                     PROVE  tx[s].op \in Operation /\ tx[s].todo \in Seq(Statement) \ {<<>>}
            OBVIOUS
        <3>1. tx[s].op \in Operation /\ Remains(tx[s])
            BY DEF IInv, TransactionsAreWellFormed
        <3>2. tx[s].todo # <<>>
            BY <3>1, PositionOfStatement
        <3>. QED
            BY <3>1, <3>2 DEF Remains, IsEndOf
    <2>2. /\ DOMAIN testcases \subseteq Row /\ testcase_count \in Nat
          /\ \A r \in DOMAIN testcases : testcases[r] \in Testcase
          /\ DOMAIN published = 1 .. version
          /\ \A v \in 1 .. version :
                /\ published[v].testcase_count \in Nat
                /\ \A row \in published[v].testcases : row \in Testcase
        BY DEF IInv, VersionsAreNumbered, TypeInvariant
    <2>3. \A s \in Session : tx[s] # Null =>
            /\ tx[s].targets # Null => tx[s].targets \subseteq Row
            /\ DOMAIN tx[s].writes \subseteq Row
            /\ \A r \in DOMAIN tx[s].writes : tx[s].writes[r] \in Testcase \cup {Null}
            /\ tx[s].copy # Null => \A row \in tx[s].copy : row \in Testcase
            /\ \A n \in {tx[s].testcase_count, tx[s].version, tx[s].manifest} :
                n # Null => n \in Nat
        BY DEF TypeInvariant, Typed, HoldsTypedData
    <2>. QED
        BY <2>1, <2>2, <2>3, Zenon DEF TypeOK
<1>. QED
    BY <1>1, <1>2, <1>3, PTL DEF Spec

-----------------------------------------------------------------------------
(* Edits of which those that delete testcases run alone, and those that    *)
(* keep every testcase run at the same time: whatever they are, the        *)
(* testcases stay a list, in the orders 1, 2, ..., and each commit is one  *)
(* edit of it.  Two at the same time never write the same row, and while   *)
(* one has increased the count no other has.                               *)

EditsKeepTestcases == \A op \in Operation : KeepsTestcases(op)

(* How many statements it has before it publishes.                         *)
EditLength(op) ==
    IF op.kind \in {"create", "move"} THEN 2 ELSE IF op.kind = "set" THEN 1 ELSE 0

LEMMA KeepingEditsType ==
    ASSUME NEW op \in Operation, KeepsTestcases(op)
    PROVE  /\ Len(Edits(op)) = EditLength(op)
           /\ op.kind = "create" => Edits(op)[1] = "increase_count" /\ Edits(op)[2] = "insert"
           /\ op.kind = "move" => Edits(op)[1] = "get_testcase" /\ Edits(op)[2] = "move"
           /\ op.kind = "set" => Edits(op)[1] = "set"
<1>1. CASE op.kind = "create"
    <2>1. Edits(op) = Inserts(1)
        BY <1>1 DEF Edits
    <2>. QED
        BY <1>1, <2>1 DEF Inserts, EditLength
<1>2. CASE op.kind = "set"
    <2>1. Edits(op) = <<"set">>
        BY <1>2 DEF Edits
    <2>. QED
        BY <1>2, <2>1 DEF EditLength
<1>3. CASE op.kind = "move"
    <2>1. Edits(op) = <<"get_testcase", "move">>
        BY <1>3 DEF Edits
    <2>. QED
        BY <1>3, <2>1 DEF EditLength
<1>4. CASE op.kind = "edit"
    <2>1. Edits(op) = <<>>
        BY <1>4 DEF Edits
    <2>. QED
        BY <1>4, <2>1 DEF EditLength
<1>. QED
    BY <1>1, <1>2, <1>3, <1>4 DEF KeepsTestcases

(* How many testcases a replacement leaves.                                *)
NewLength(op) == Len(WrittenAnew(op))

LEMMA NewLengthType ==
    ASSUME NEW op \in Operation
    PROVE  NewLength(op) \in Nat
<1>1. op.contents \in Seq(Content)
    BY OperationAssumption DEF Request
<1>. QED
    BY <1>1, LenProperties DEF NewLength, WrittenAnew

LEMMA OddAndEven ==
    ASSUME NEW i \in Nat
    PROVE  (2 * i + 1) % 2 = 1 /\ (2 * i + 2) % 2 # 1
OBVIOUS

(* The statements of the edits that delete testcases.                      *)
LEMMA DeletingEditsType ==
    ASSUME NEW op \in Operation, NEW E, E = Edits(op), NEW n \in Nat, NewLength(op) = n
    PROVE  /\ op.kind = "delete" =>
                Len(E) = 3 /\ E[1] = "delete" /\ E[2] = "shift" /\ E[3] = "decrease_count"
           /\ ReplacesAll(op) =>
                /\ Len(E) = 3 + 2 * n
                /\ E[1] = "count_rows" /\ E[2] = "delete_all" /\ E[3] = "clear_count"
                /\ \A i \in 0 .. n - 1 :
                    E[4 + 2 * i] = "increase_count" /\ E[5 + 2 * i] = "insert"
<1>1. ASSUME op.kind = "delete"
      PROVE  Len(E) = 3 /\ E[1] = "delete" /\ E[2] = "shift" /\ E[3] = "decrease_count"
    <2>1. E = <<"delete", "shift", "decrease_count">>
        BY <1>1 DEF Edits
    <2>. QED
        BY <2>1
<1>2. ASSUME op.kind = "delete_all"
      PROVE  /\ n \in Nat /\ Len(E) = 3 + 2 * n
             /\ E[1] = "count_rows" /\ E[2] = "delete_all" /\ E[3] = "clear_count"
             /\ \A i \in 0 .. n - 1 :
                    E[4 + 2 * i] = "increase_count" /\ E[5 + 2 * i] = "insert"
    <2>1. E = Clear
        BY <1>2 DEF Edits
    <2>2. n = 0
        BY <1>2 DEF NewLength, WrittenAnew
    <2>. QED
        BY <2>1, <2>2, ClearType
<1>3. ASSUME op.kind = "replace"
      PROVE  /\ n \in Nat /\ Len(E) = 3 + 2 * n
             /\ E[1] = "count_rows" /\ E[2] = "delete_all" /\ E[3] = "clear_count"
             /\ \A i \in 0 .. n - 1 :
                    E[4 + 2 * i] = "increase_count" /\ E[5 + 2 * i] = "insert"
    <2>1. n = Len(op.contents) /\ n \in Nat
        BY <1>3, OperationAssumption DEF NewLength, WrittenAnew, Request
    <2>2. PICK inserts : inserts = Inserts(n)
        OBVIOUS
    <2>3. E = Clear \o inserts
        BY <1>3, <2>1, <2>2 DEF Edits
    <2>4. /\ inserts \in Seq(EditStatement) /\ Len(inserts) = 2 * n
          /\ \A i \in 1 .. 2 * n :
                inserts[i] = IF i % 2 = 1 THEN "increase_count" ELSE "insert"
        BY <2>1, <2>2, InsertsType
    <2>5. /\ Len(Clear \o inserts) = 3 + 2 * n
          /\ \A i \in 1 .. 3 + 2 * n :
                (Clear \o inserts)[i] = IF i <= 3 THEN Clear[i] ELSE inserts[i - 3]
        <3>1. /\ Len(Clear \o inserts) = Len(Clear) + Len(inserts)
              /\ \A i \in 1 .. Len(Clear) + Len(inserts) :
                    (Clear \o inserts)[i] =
                        IF i <= Len(Clear) THEN Clear[i] ELSE inserts[i - Len(Clear)]
            <4>1. Clear \in Seq(EditStatement) /\ inserts \in Seq(EditStatement)
                BY <2>4, ClearType
            <4>. QED
                BY <4>1, ConcatProperties
        <3>2. Len(Clear) = 3 /\ Len(inserts) = 2 * n
            BY <2>4, ClearType
        <3>. QED
            BY <3>1, <3>2, Zenon
    <2>6. ASSUME NEW i \in 0 .. n - 1
          PROVE  E[4 + 2 * i] = "increase_count" /\ E[5 + 2 * i] = "insert"
        <3>1. /\ 4 + 2 * i \in 1 .. 3 + 2 * n /\ 5 + 2 * i \in 1 .. 3 + 2 * n
              /\ ~(4 + 2 * i <= 3) /\ ~(5 + 2 * i <= 3)
              /\ 4 + 2 * i - 3 = 2 * i + 1 /\ 5 + 2 * i - 3 = 2 * i + 2
              /\ 2 * i + 1 \in 1 .. 2 * n /\ 2 * i + 2 \in 1 .. 2 * n /\ i \in Nat
            BY <2>1
        <3>2. E[4 + 2 * i] = inserts[2 * i + 1] /\ E[5 + 2 * i] = inserts[2 * i + 2]
            BY <2>3, <2>5, <3>1
        <3>3. (2 * i + 1) % 2 = 1 /\ (2 * i + 2) % 2 # 1
            BY <3>1, OddAndEven
        <3>. QED
            BY <2>4, <3>1, <3>2, <3>3
    <2>7. E[1] = "count_rows" /\ E[2] = "delete_all" /\ E[3] = "clear_count"
        BY <2>1, <2>3, <2>5, ClearType
    <2>. QED
        BY <2>1, <2>3, <2>5, <2>6, <2>7
<1>. QED
    BY <1>1, <1>2, <1>3, Zenon DEF ReplacesAll

(* The next statement, counted from the end.                               *)
LEMMA NextStatement ==
    ASSUME NEW t, t.op \in Operation, Remains(t), NEW k \in Nat, Len(t.todo) = k,
           NEW e \in Nat, Len(Edits(t.op)) = e
    PROVE  /\ k \in 1 .. e + 4
           /\ \A j \in 1 .. k : t.todo[j] = Statements(t.op)[e + 4 - k + j]
           /\ k > 4 => Head(t.todo) = Edits(t.op)[e + 5 - k]
           /\ k = 4 => Head(t.todo) = "increase_version"
           /\ k = 3 => Head(t.todo) = "read_manifest"
           /\ k = 2 => Head(t.todo) = "publish"
           /\ k = 1 => Head(t.todo) = "commit"
<1>1. t.op \in Request
    BY OperationAssumption
<1>2. PICK S : S = Statements(t.op)
    OBVIOUS
<1>9. PICK n : n = Len(S)
    OBVIOUS
<1>10. n = Len(Edits(t.op)) + 4
    BY <1>1, <1>2, <1>9, StatementsType
<1>8. n \in Nat /\ n = e + 4
    BY <1>10
<1>3. /\ k \in 1 .. n
      /\ S \in Seq(Statement) /\ t.todo \in Seq(Statement)
      /\ \A i \in 1 .. k : t.todo[i] = S[n - k + i]
    <2>1. S \in Seq(Statement)
        BY <1>1, <1>2, <1>9, StatementsType
    <2>. QED
        BY <1>2, <1>9, <2>1 DEF Remains, IsEndOf
<1>4. Head(t.todo) = S[n - k + 1]
    <2>1. k >= 1 /\ t.todo[1] = S[n - k + 1]
        BY <1>3
    <2>2. t.todo # <<>>
        BY <1>3, EmptySeq
    <2>3. Head(t.todo) = t.todo[1]
        BY <1>3, <2>2
    <2>. QED
        BY <2>1, <2>3
<1>5. /\ \A i \in 1 .. n - 4 : S[i] = Edits(t.op)[i]
      /\ S[n - 3] = "increase_version" /\ S[n - 2] = "read_manifest"
      /\ S[n - 1] = "publish" /\ S[n] = "commit"
    <2>1. \A i \in 1 .. n - 4 : S[i] = Edits(t.op)[i]
        BY <1>1, <1>2, <1>9, StatementsType
    <2>2. /\ S[n - 3] = "increase_version" /\ S[n - 2] = "read_manifest"
          /\ S[n - 1] = "publish" /\ S[n] = "commit"
        BY <1>1, <1>2, <1>9, StatementsType
    <2>. QED
        BY <2>1, <2>2
<1>6. ASSUME k > 4 PROVE Head(t.todo) = Edits(t.op)[e + 5 - k]
    <2>1. n - k + 1 \in 1 .. n - 4 /\ n - k + 1 = e + 5 - k
        BY <1>3, <1>6, <1>8
    <2>. QED
        BY <1>4, <1>5, <2>1
<1>7. /\ k = 4 => Head(t.todo) = "increase_version"
      /\ k = 3 => Head(t.todo) = "read_manifest"
      /\ k = 2 => Head(t.todo) = "publish"
      /\ k = 1 => Head(t.todo) = "commit"
    <2>1. /\ k = 4 => n - k + 1 = n - 3
          /\ k = 3 => n - k + 1 = n - 2
          /\ k = 2 => n - k + 1 = n - 1
          /\ k = 1 => n - k + 1 = n
        BY <1>8
    <2>. QED
        BY <1>4, <1>5, <2>1
<1>11. k \in 1 .. e + 4
    BY <1>3, <1>8
<1>12. \A j \in 1 .. k : t.todo[j] = S[e + 4 - k + j]
    BY <1>3, <1>8
<1>13. k > 4 => Head(t.todo) = Edits(t.op)[e + 5 - k]
    BY <1>6
<1>. QED
    BY <1>2, <1>7, <1>11, <1>12, <1>13, Zenon

InPublication(st) == st \in {"increase_version", "read_manifest", "publish", "commit"}

LEMMA OneOrTwoOfPair ==
    ASSUME NEW n \in Nat, NEW k \in 5 .. 4 + 2 * n
    PROVE  \E i \in 1 .. n : k = 4 + 2 * i \/ k = 3 + 2 * i
<1>1. PICK i \in Nat : i = (k - 3) \div 2
    OBVIOUS
<1>2. k - 3 = 2 * i \/ k - 3 = 2 * i + 1
    BY <1>1
<1>. QED
    BY <1>2

(* Where an edit that deletes testcases is.                                *)
LEMMA PublicationPosition ==
    ASSUME NEW t, t.op \in Operation, Remains(t), NEW k \in Nat, Len(t.todo) = k,
           NEW e \in Nat, Len(Edits(t.op)) = e
    PROVE  /\ k \in 1 .. e + 4
           /\ k > 4 => Head(t.todo) = Edits(t.op)[e + 5 - k]
           /\ k <= 4 => InPublication(Head(t.todo))
<1>1. /\ k \in 1 .. e + 4
      /\ k > 4 => Head(t.todo) = Edits(t.op)[e + 5 - k]
      /\ k = 4 => Head(t.todo) = "increase_version"
      /\ k = 3 => Head(t.todo) = "read_manifest"
      /\ k = 2 => Head(t.todo) = "publish"
      /\ k = 1 => Head(t.todo) = "commit"
    BY NextStatement
<1>2. k <= 4 => k = 1 \/ k = 2 \/ k = 3 \/ k = 4
    BY <1>1
<1>. QED
    BY <1>1, <1>2 DEF InPublication

LEMMA DeletingPosition ==
    ASSUME NEW t, t.op \in Operation, Remains(t), t.op.kind = "delete",
           NEW k \in Nat, Len(t.todo) = k
    PROVE  \/ k = 7 /\ Head(t.todo) = "delete"
           \/ k = 6 /\ Head(t.todo) = "shift"
           \/ k = 5 /\ Head(t.todo) = "decrease_count"
           \/ k \in 1 .. 4 /\ InPublication(Head(t.todo))
<1>1. PICK E : E = Edits(t.op)
    OBVIOUS
<1>9. PICK e \in Nat : e = Len(E)
    BY <1>1, OperationAssumption, EditsType, LenProperties
<1>2. /\ k \in 1 .. e + 4
      /\ k > 4 => Head(t.todo) = E[e + 5 - k]
      /\ k <= 4 => InPublication(Head(t.todo))
    BY <1>1, <1>9, PublicationPosition
<1>3. k \in Nat /\ k >= 1
    BY <1>2
<1>4. Len(E) = 3 /\ E[1] = "delete" /\ E[2] = "shift" /\ E[3] = "decrease_count"
    <2>1. PICK m \in Nat : m = NewLength(t.op)
        BY NewLengthType
    <2>. QED
        BY <1>1, <2>1, DeletingEditsType
<1>5. CASE k > 4
    <2>1. k = 7 \/ k = 6 \/ k = 5
        BY <1>2, <1>4, <1>5, <1>9
    <2>. QED
        BY <1>2, <1>4, <1>5, <1>9, <2>1
<1>6. CASE k <= 4
    BY <1>2, <1>3, <1>6
<1>. QED
    BY <1>5, <1>6

LEMMA ReplacingPosition ==
    ASSUME NEW t, t.op \in Operation, Remains(t), ReplacesAll(t.op),
           NEW k \in Nat, Len(t.todo) = k, NEW n \in Nat, NewLength(t.op) = n
    PROVE  \/ k = 7 + 2 * n /\ Head(t.todo) = "count_rows"
           \/ k = 6 + 2 * n /\ Head(t.todo) = "delete_all"
           \/ k = 5 + 2 * n /\ Head(t.todo) = "clear_count"
           \/ \E i \in 1 .. n : k = 4 + 2 * i /\ Head(t.todo) = "increase_count"
           \/ \E i \in 1 .. n : k = 3 + 2 * i /\ Head(t.todo) = "insert"
           \/ k \in 1 .. 4 /\ InPublication(Head(t.todo))
<1>1. PICK E : E = Edits(t.op)
    OBVIOUS
<1>9. PICK e \in Nat : e = Len(E)
    BY <1>1, OperationAssumption, EditsType, LenProperties
<1>2. /\ k \in 1 .. e + 4
      /\ k > 4 => Head(t.todo) = E[e + 5 - k]
      /\ k <= 4 => InPublication(Head(t.todo))
    BY <1>1, <1>9, PublicationPosition
<1>3. k \in Nat /\ k >= 1
    BY <1>2
<1>4. CASE k <= 4
    BY <1>2, <1>3, <1>4
<1>6. CASE k > 4
    <2>1. /\ e = 3 + 2 * n
          /\ E[1] = "count_rows" /\ E[2] = "delete_all" /\ E[3] = "clear_count"
          /\ \A i \in 0 .. n - 1 : E[4 + 2 * i] = "increase_count" /\ E[5 + 2 * i] = "insert"
        BY <1>1, <1>9, DeletingEditsType
    <2>2. Head(t.todo) = E[8 + 2 * n - k]
        <3>1. e + 5 - k = 8 + 2 * n - k
            BY <1>3, <2>1
        <3>. QED
            BY <1>2, <1>6, <3>1
    <2>3. CASE k > 4 + 2 * n
        <3>1. k = 7 + 2 * n \/ k = 6 + 2 * n \/ k = 5 + 2 * n
            BY <1>2, <2>1, <2>3
        <3>. QED
            BY <2>1, <2>2, <3>1
    <2>4. CASE k <= 4 + 2 * n
        <3>1. PICK i \in 1 .. n : k = 4 + 2 * i \/ k = 3 + 2 * i
            <4>1. k \in 5 .. 4 + 2 * n
                BY <1>6, <2>4
            <4>. QED
                BY <4>1, OneOrTwoOfPair
        <3>2. PICK b \in 0 .. n - 1 : b = n - i
            BY <2>1
        <3>3. CASE k = 4 + 2 * i
            <4>1. 8 + 2 * n - k = 4 + 2 * b
                BY <2>1, <3>2, <3>3
            <4>. QED
                BY <2>1, <2>2, <3>3, <4>1
        <3>4. CASE k = 3 + 2 * i
            <4>1. 8 + 2 * n - k = 5 + 2 * b
                BY <2>1, <3>2, <3>4
            <4>. QED
                BY <2>1, <2>2, <3>4, <4>1
        <3>. QED
            BY <3>1, <3>3, <3>4
    <2>. QED
        BY <1>3, <2>1, <2>3, <2>4
<1>. QED
    BY <1>4, <1>6

LEMMA KeepingPosition ==
    ASSUME NEW t, t.op \in Operation, KeepsTestcases(t.op), Remains(t)
    PROVE  \E k \in 1 .. 6 :
           /\ k = Len(t.todo)
           /\ k >= 5 =>
                Head(t.todo) \in {"increase_count", "insert", "get_testcase", "move", "set"}
           /\ Head(t.todo) = "increase_count" => t.op.kind = "create" /\ k = 6
           /\ Head(t.todo) = "insert" => t.op.kind = "create" /\ k = 5
           /\ Head(t.todo) = "get_testcase" => t.op.kind = "move" /\ k = 6
           /\ Head(t.todo) = "move" => t.op.kind = "move" /\ k = 5
           /\ Head(t.todo) = "set" => t.op.kind = "set" /\ k = 5
<1>1. t.op \in Request
    BY OperationAssumption
<1>2. PICK S : S = Statements(t.op)
    OBVIOUS
<1>3. PICK n : n = Len(S)
    OBVIOUS
<1>12. PICK k : k = Len(t.todo)
    OBVIOUS
<1>4. /\ S \in Seq(Statement) /\ n \in Nat /\ k \in 1 .. n
      /\ t.todo \in Seq(Statement)
      /\ \A i \in 1 .. k : t.todo[i] = S[n - k + i]
    BY <1>1, <1>2, <1>3, <1>12, StatementsType, LenProperties DEF Remains, IsEndOf
<1>5. t.todo # <<>> /\ Head(t.todo) = S[n - k + 1]
    <2>1. k >= 1 /\ t.todo[1] = S[n - k + 1]
        BY <1>4
    <2>2. t.todo # <<>>
        BY <1>4, <1>12, EmptySeq
    <2>3. Head(t.todo) = t.todo[1]
        BY <1>4, <2>2
    <2>. QED
        BY <2>1, <2>2, <2>3
<1>11. PICK m \in 0 .. 2 : m = EditLength(t.op)
    BY DEF EditLength
<1>6. n = m + 4
    <2>1. n = Len(Edits(t.op)) + 4
        BY <1>1, <1>2, <1>3, StatementsType
    <2>2. Len(Edits(t.op)) = m
        BY <1>11, KeepingEditsType
    <2>. QED
        BY <2>1, <2>2
<1>7. \A i \in 1 .. n - 4 : S[i] = Edits(t.op)[i]
    BY <1>1, <1>2, <1>3, StatementsType
<1>8. k <= 4 => Head(t.todo) \in {"increase_version", "read_manifest", "publish", "commit"}
    <2>1. /\ S[n - 3] = "increase_version" /\ S[n - 2] = "read_manifest"
          /\ S[n - 1] = "publish" /\ S[n] = "commit"
        BY <1>1, <1>2, <1>3, StatementsType
    <2>2. k \in 1 .. n
        BY <1>4
    <2>3. k <= 4 => k = 4 \/ k = 3 \/ k = 2 \/ k = 1
        BY <1>4, <1>6, <2>2
    <2>. QED
        BY <1>5, <1>6, <2>1, <2>3
<1>9. k >= 5 => \/ t.op.kind = "create" /\ k = 6 /\ Head(t.todo) = "increase_count"
                \/ t.op.kind = "create" /\ k = 5 /\ Head(t.todo) = "insert"
                \/ t.op.kind = "move" /\ k = 6 /\ Head(t.todo) = "get_testcase"
                \/ t.op.kind = "move" /\ k = 5 /\ Head(t.todo) = "move"
                \/ t.op.kind = "set" /\ k = 5 /\ Head(t.todo) = "set"
    <2>. SUFFICES ASSUME k >= 5 PROVE
            \/ t.op.kind = "create" /\ k = 6 /\ Head(t.todo) = "increase_count"
            \/ t.op.kind = "create" /\ k = 5 /\ Head(t.todo) = "insert"
            \/ t.op.kind = "move" /\ k = 6 /\ Head(t.todo) = "get_testcase"
            \/ t.op.kind = "move" /\ k = 5 /\ Head(t.todo) = "move"
            \/ t.op.kind = "set" /\ k = 5 /\ Head(t.todo) = "set"
        OBVIOUS
    <2>1. n - k + 1 \in 1 .. n - 4 /\ k <= n
        BY <1>4, <1>6
    <2>2. Head(t.todo) = Edits(t.op)[n - k + 1]
        BY <1>5, <1>7, <2>1
    <2>3. CASE t.op.kind \in {"create", "move"}
        <3>1. n = 6 /\ (k = 5 \/ k = 6)
            BY <1>4, <1>6, <1>11, <2>1, <2>3 DEF EditLength
        <3>2. /\ k = 6 => Head(t.todo) = Edits(t.op)[1]
              /\ k = 5 => Head(t.todo) = Edits(t.op)[2]
            BY <2>2, <3>1
        <3>. QED
            BY <2>3, <3>1, <3>2, KeepingEditsType
    <2>4. CASE t.op.kind = "set"
        <3>1. n = 5 /\ k = 5
            BY <1>4, <1>6, <1>11, <2>1, <2>4 DEF EditLength
        <3>2. Head(t.todo) = Edits(t.op)[1]
            BY <2>2, <3>1
        <3>. QED
            BY <2>4, <3>1, <3>2, KeepingEditsType
    <2>5. CASE t.op.kind = "edit"
        BY <1>4, <1>6, <1>11, <2>1, <2>5 DEF EditLength
    <2>. QED
        BY <2>3, <2>4, <2>5 DEF KeepsTestcases
<1>10. (k <= 4 \/ k >= 5) /\ k \in 1 .. 6
    BY <1>4, <1>6, <1>11
<1>. QED
    BY <1>8, <1>9, <1>10, <1>12, Zenon

-----------------------------------------------------------------------------
(* What the open transaction t has written, by the edit it runs.           *)

Inserted(t) ==
    \E r \in Row \ DOMAIN testcases :
        /\ DOMAIN t.writes = {r}
        /\ t.writes[r] = [order |-> testcase_count + 1, content |-> t.op.contents[1]]

Replaced(t) ==
    \E r \in DOMAIN testcases :
        /\ DOMAIN t.writes = {r}
        /\ testcases[r].order = t.op.at
        /\ t.writes[r] = [testcases[r] EXCEPT !.content = t.op.contents[1]]

Between(op) == Lowest(op) .. Highest(op)

HasMoved(t) ==
    /\ DOMAIN t.writes \subseteq DOMAIN testcases
    /\ {testcases[r].order : r \in DOMAIN t.writes} = Between(t.op)
    /\ \A r \in DOMAIN t.writes :
        t.writes[r] = [testcases[r] EXCEPT !.order = Moved(t.op, @)]

(* With k statements left.                                                 *)
KeepsRowsAt(t, k) ==
    /\ t.op.kind = "create" /\ k <= 5 => t.testcase_count = testcase_count + 1
    /\ t.op.kind # "create" \/ k > 5 => t.testcase_count = Null
    /\ t.op.kind = "edit" \/ k > 4 => DOMAIN t.writes = {}
    /\ k <= 4 =>
        /\ t.op.kind = "create" => Inserted(t)
        /\ t.op.kind = "set" => Replaced(t)
        /\ t.op.kind = "move" => HasMoved(t)

KeepsRows(t) == KeepsRowsAt(t, Len(t.todo))

(* The edits that delete testcases.                                        *)

HasDeleted(t) ==
    \E r \in DOMAIN testcases :
        /\ DOMAIN t.writes = {r}
        /\ testcases[r].order = t.op.at
        /\ t.writes[r] = Null

Behind(op) == {r \in DOMAIN testcases : testcases[r].order > op.at}

HasShifted(t) ==
    \E r \in DOMAIN testcases :
        /\ DOMAIN t.writes = {r} \cup Behind(t.op)
        /\ testcases[r].order = t.op.at
        /\ t.writes[r] = Null
        /\ \A q \in Behind(t.op) : t.writes[q] = [testcases[q] EXCEPT !.order = @ - 1]

(* With k statements left of "delete", "shift", "decrease_count", ....     *)
DeletesRowAt(t, k) ==
    /\ k > 6 => DOMAIN t.writes = {}
    /\ k = 6 => HasDeleted(t)
    /\ k <= 5 => HasShifted(t)
    /\ k > 4 => t.testcase_count = Null
    /\ k <= 4 => t.testcase_count = testcase_count - 1

HasCleared(t) == \A r \in DOMAIN testcases : r \in DOMAIN t.writes /\ t.writes[r] = Null

(* The testcases of a replacement, from the first to the j-th.             *)
HasWritten(t, j) ==
    {t.writes[r] : r \in DOMAIN t.writes \ DOMAIN testcases} =
        {[order |-> i, content |-> t.op.contents[i]] : i \in 1 .. j}

CountIn(t) == IF t.testcase_count = Null THEN testcase_count ELSE t.testcase_count

(* With k statements left of "count_rows", "delete_all", "clear_count" and *)
(* two for each of the n new testcases, "increase_count" and "insert".     *)
ReplacesRowsAt(t, k, n) ==
    /\ k > 5 + 2 * n => DOMAIN t.writes = {}
    /\ k > 4 + 2 * n => t.testcase_count = Null
    /\ k = 5 + 2 * n => DOMAIN t.writes = DOMAIN testcases
    /\ k <= 5 + 2 * n => HasCleared(t)
    /\ k <= 4 => HasWritten(t, n) /\ CountIn(t) = n
    /\ \A i \in 1 .. n :
        /\ k = 4 + 2 * i => HasWritten(t, n - i) /\ CountIn(t) = n - i
        /\ k = 3 + 2 * i => HasWritten(t, n - i) /\ CountIn(t) = n - i + 1

DeletesRowsAt(t, k) ==
    /\ t.op.kind = "delete" => DeletesRowAt(t, k)
    /\ ReplacesAll(t.op) => ReplacesRowsAt(t, k, NewLength(t.op))

(* "shift" and "delete_all" have found all the rows there are for them.    *)
FindsAll(t, k) ==
    t.targets # Null =>
        /\ t.op.kind = "delete" /\ k = 6 => t.targets = Behind(t.op)
        /\ ReplacesAll(t.op) /\ k = 6 + 2 * NewLength(t.op) => t.targets = DOMAIN testcases

DeletesRows(t) == DeletesRowsAt(t, Len(t.todo)) /\ FindsAll(t, Len(t.todo))

WritesItsEdit(t) == IF KeepsTestcases(t.op) THEN KeepsRows(t) ELSE DeletesRows(t)

(* Two at the same time delete nothing, and hold no row in common, nor     *)
(* both the count.                                                         *)
AreApart(t, v) ==
    /\ KeepsTestcases(t.op) /\ KeepsTestcases(v.op)
    /\ DOMAIN t.writes \cap DOMAIN v.writes = {}
    /\ t.testcase_count = Null \/ v.testcase_count = Null

OrdersOf(rows) == {rows[r].order : r \in DOMAIN rows}

ListInvariant ==
    /\ testcase_count = Cardinality(DOMAIN testcases)
    /\ OrdersAreUnique(testcases)
    /\ OrdersOf(testcases) = 1 .. testcase_count
    /\ PublishedOrdersAreContiguous
    /\ \A s \in Session : tx[s] # Null => WritesItsEdit(tx[s])
    /\ \A s, u \in Session :
        s # u /\ tx[s] # Null /\ tx[u] # Null => AreApart(tx[s], tx[u])

KInv == IInv /\ TypeInvariant /\ ListInvariant

-----------------------------------------------------------------------------

(* What it has written does not depend on versions and other transactions. *)
LEMMA EditIsKept ==
    ASSUME NEW o, WritesItsEdit(o), UNCHANGED <<testcases, testcase_count>>
    PROVE  WritesItsEdit(o)'
<1>1. KeepsRows(o) => KeepsRows(o)'
    BY DEF KeepsRows, KeepsRowsAt, Inserted, Replaced, HasMoved
<1>2. DeletesRows(o) => DeletesRows(o)'
    BY DEF DeletesRows, DeletesRowsAt, FindsAll, DeletesRowAt, HasDeleted, HasShifted, Behind,
           ReplacesRowsAt, HasCleared, HasWritten, CountIn
<1>. QED
    BY <1>1, <1>2 DEF WritesItsEdit

LEMMA KeepStep ==
    ASSUME KInv, NEW s \in Session, NEW t,
           tx' = [tx EXCEPT ![s] = t],
           UNCHANGED <<testcases, testcase_count, version, published>>,
           t # Null =>
            /\ WritesItsEdit(t)
            /\ \A u \in Session \ {s} : tx[u] # Null => AreApart(t, tx[u])
    PROVE  ListInvariant'
<1>1. tx'[s] = t /\ \A u \in Session \ {s} : tx'[u] = tx[u]
    BY DEF KInv, IInv, TransactionsAreWellFormed
<1>2. \A u \in Session : tx'[u] # Null => WritesItsEdit(tx[u])'
    <2>. SUFFICES ASSUME NEW u \in Session, tx'[u] # Null
                  PROVE  WritesItsEdit(tx[u])'
        OBVIOUS
    <2>1. PICK o : o = tx'[u]
        OBVIOUS
    <2>2. WritesItsEdit(o)
        BY <1>1, <2>1 DEF KInv, ListInvariant
    <2>3. WritesItsEdit(o)'
        BY <2>2, EditIsKept
    <2>. QED
        BY <2>1, <2>3 DEF WritesItsEdit
<1>3. \A u, v \in Session :
        u # v /\ tx'[u] # Null /\ tx'[v] # Null => AreApart(tx[u], tx[v])'
    <2>. SUFFICES ASSUME NEW u \in Session, NEW v \in Session,
                         u # v, tx'[u] # Null, tx'[v] # Null
                  PROVE  AreApart(tx[u], tx[v])'
        OBVIOUS
    <2>4. SUFFICES AreApart(tx'[u], tx'[v])
        BY DEF AreApart
    <2>1. CASE u = s
        BY <1>1, <2>1
    <2>2. CASE v = s
        <3>1. AreApart(t, tx[u])
            BY <1>1, <2>2
        <3>2. AreApart(tx[u], t)
            BY <3>1 DEF AreApart
        <3>. QED
            BY <1>1, <2>2, <3>2
    <2>3. CASE u # s /\ v # s
        BY <1>1, <2>3 DEF KInv, ListInvariant
    <2>. QED
        BY <2>1, <2>2, <2>3
<1>4. /\ PublishedOrdersAreContiguous' /\ OrdersAreUnique(testcases)'
      /\ OrdersOf(testcases)' = (1 .. testcase_count)'
    BY DEF KInv, ListInvariant, PublishedOrdersAreContiguous, OrdersAreUnique, OrdersOf
<1>5. (testcase_count = Cardinality(DOMAIN testcases))'
    BY DEF KInv, ListInvariant
<1>. QED
    BY <1>2, <1>3, <1>4, <1>5 DEF ListInvariant

LEMMA RollBackKeeps ==
    ASSUME KInv, NEW s \in Session, RollBack(s)
    PROVE  ListInvariant'
BY KeepStep DEF RollBack

(* What is known of a transaction that is open.                            *)
LEMMA KeepingTransaction ==
    ASSUME KInv, NEW s \in Session, KeepsTestcases(tx[s].op), tx[s] # Null, NEW t, t = tx[s]
    PROVE  /\ HasItsFields(t) /\ HoldsTypedData(t) /\ t.op \in Operation /\ Remains(t)
           /\ KeepsTestcases(t.op) /\ KeepsRows(t)
           /\ \A u \in Session \ {s} : tx[u] # Null => AreApart(t, tx[u])
BY OpenTransaction DEF KInv, ListInvariant, WritesItsEdit

LEMMA DeletingTransaction ==
    ASSUME KInv, NEW s \in Session, ~KeepsTestcases(tx[s].op), tx[s] # Null, NEW t, t = tx[s]
    PROVE  /\ HasItsFields(t) /\ HoldsTypedData(t) /\ t.op \in Operation /\ Remains(t)
           /\ DeletesRows(t)
           /\ t.op.kind = "delete" \/ ReplacesAll(t.op)
           /\ \A u \in Session \ {s} : tx[u] = Null
<1>1. /\ HasItsFields(t) /\ HoldsTypedData(t) /\ t.op \in Operation /\ Remains(t)
      /\ DeletesRows(t)
    BY OpenTransaction DEF KInv, ListInvariant, WritesItsEdit
<1>2. t.op.kind = "delete" \/ ReplacesAll(t.op)
    <2>1. t.op.kind \in Kind
        BY <1>1, OperationAssumption DEF Request
    <2>. QED
        BY <2>1 DEF Kind, KeepsTestcases, ReplacesAll
<1>3. \A u \in Session \ {s} : tx[u] # Null => AreApart(tx[s], tx[u])
    BY DEF KInv, ListInvariant
<1>. QED
    BY <1>1, <1>2, <1>3 DEF AreApart

LEMMA NewTestcases ==
    ASSUME NEW op \in Operation, ReplacesAll(op), NEW n, n = NewLength(op)
    PROVE  /\ n \in Nat
           /\ WrittenAnew(op) \in Seq(Content) /\ Len(WrittenAnew(op)) = n
           /\ \A i \in 1 .. n :
                /\ op.kind = "replace"
                /\ op.contents[i] \in Content
                /\ op.contents[i] = WrittenAnew(op)[i]
<1>1. CASE op.kind = "replace"
    <2>1. WrittenAnew(op) = op.contents /\ op.contents \in Seq(Content)
        BY <1>1, OperationAssumption DEF Request, WrittenAnew
    <2>. QED
        BY <1>1, <2>1, ElementOfSeq DEF NewLength
<1>2. CASE op.kind # "replace"
    BY <1>2 DEF WrittenAnew, NewLength
<1>. QED
    BY <1>1, <1>2

(* A statement is done that leaves rows and count as they are.             *)
LEMMA NothingKeeps ==
    ASSUME KInv, NEW s \in Session, KeepsTestcases(tx[s].op), tx[s] # Null,
           NEW t, Done(s, t), HasItsFields(t),
           t.op = tx[s].op, t.todo = tx[s].todo,
           t.writes = tx[s].writes, t.testcase_count = tx[s].testcase_count,
           Head(t.todo) \notin {"increase_count", "insert", "move", "set", "commit"}
    PROVE  ListInvariant'
<1>1. PICK o : o = tx[s]
    OBVIOUS
<1>2. /\ t.op \in Operation /\ KeepsTestcases(t.op) /\ Remains(t) /\ KeepsRows(t)
      /\ \A u \in Session \ {s} : tx[u] # Null => AreApart(t, tx[u])
    <2>1. /\ o.op \in Operation /\ KeepsTestcases(o.op) /\ Remains(o) /\ KeepsRows(o)
          /\ \A u \in Session \ {s} : tx[u] # Null => AreApart(o, tx[u])
        BY <1>1, KeepingTransaction
    <2>2. t.op = o.op /\ t.todo = o.todo /\ t.writes = o.writes /\ t.testcase_count = o.testcase_count
        BY <1>1
    <2>3. Remains(t) /\ (\A u \in Session \ {s} : tx[u] # Null => AreApart(t, tx[u]))
        BY <2>1, <2>2 DEF Remains, AreApart
    <2>4. KeepsRows(t)
        BY <2>1, <2>2 DEF KeepsRows, KeepsRowsAt, Inserted, Replaced, HasMoved
    <2>. QED
        BY <2>1, <2>2, <2>3, <2>4
<1>3. PICK k \in 1 .. 6 :
        /\ k = Len(t.todo)
        /\ k >= 5 =>
                Head(t.todo) \in {"increase_count", "insert", "get_testcase", "move", "set"}
        /\ Head(t.todo) = "get_testcase" => t.op.kind = "move" /\ k = 6
    BY <1>2, KeepingPosition
<1>4. k \in Nat /\ k # 1
    <2>1. Head(t.todo) # "commit" /\ k \in Nat
        BY <1>3 DEF EditLength
    <2>2. Len(t.todo) = 1 => Head(t.todo) = "commit"
        <3>1. Len(t.todo) = 1 => Head(t.todo) = Statements(t.op)[Len(Statements(t.op))]
            <4>. SUFFICES ASSUME Len(t.todo) = 1
                          PROVE  Head(t.todo) = Statements(t.op)[Len(Statements(t.op))]
                OBVIOUS
            <4>1. PICK n : n = Len(Statements(t.op))
                OBVIOUS
            <4>2. n \in Nat
                BY <1>2, <4>1, OperationAssumption, StatementsType, LenProperties
            <4>3. t.todo \in Seq(Statement) /\ t.todo[1] = Statements(t.op)[n - 1 + 1]
                BY <1>2, <4>1, <4>2 DEF Remains, IsEndOf
            <4>. QED
                BY <4>1, <4>2, <4>3
        <3>. QED
            BY <1>2, <3>1, OperationAssumption, StatementsType
    <2>. QED
        BY <1>3, <2>1, <2>2
<1>5. PICK q : q = [t EXCEPT !.todo = Tail(@), !.targets = Null]
    OBVIOUS
<1>6. /\ q.op = t.op /\ q.todo = Tail(t.todo) /\ q.writes = t.writes
      /\ q.testcase_count = t.testcase_count
    BY <1>5 DEF HasItsFields
<1>7. Len(q.todo) = k - 1
    <2>1. Len(t.todo) > 1
        <3>1. k > 1
            BY <1>4
        <3>2. Len(t.todo) = k
            BY <1>3, Zenon
        <3>. QED
            BY <3>1, <3>2, Zenon
    <2>2. Statements(t.op) \in Seq(Statement) /\ IsEndOf(t.todo, Statements(t.op))
        BY <1>2, OperationAssumption, StatementsType DEF Remains
    <2>. QED
        BY <1>3, <1>6, <2>1, <2>2, TailIsEnd
<1>8. KeepsRows(q)
    <2>1. KeepsRowsAt(t, k)
        BY <1>2, <1>3 DEF KeepsRows
    <2>2. k <= 4 \/ (t.op.kind = "move" /\ k = 6)
        BY <1>3
    <2>3. KeepsRowsAt(q, k - 1)
        BY <1>4, <1>6, <2>1, <2>2 DEF KeepsRowsAt, Inserted, Replaced, HasMoved
    <2>. QED
        BY <1>7, <2>3 DEF KeepsRows
<1>9. \A u \in Session \ {s} : tx[u] # Null => AreApart(q, tx[u])
    BY <1>2, <1>6 DEF AreApart
<1>10. tx' = [tx EXCEPT ![s] = q]
    BY <1>5 DEF Done
<1>11. WritesItsEdit(q)
    BY <1>6, <1>8 DEF WritesItsEdit
<1>. QED
    BY <1>9, <1>10, <1>11, KeepStep DEF Done

LEMMA BeginKeeps ==
    ASSUME KInv, DeletionsAreAlone', NEW s \in Session, NEW op \in Operation, Begin(s, op)
    PROVE  ListInvariant'
<1>1. PICK t : t = [op |-> op, todo |-> Statements(op), targets |-> Null,
                    writes |-> [r \in {} |-> Null], testcase_count |-> Null,
                    version |-> Null, manifest |-> Null, copy |-> Null]
    OBVIOUS
<1>2. tx' = [tx EXCEPT ![s] = t]
    BY <1>1 DEF Begin
<1>3. /\ t.op = op /\ t.todo = Statements(op) /\ DOMAIN t.writes = {}
      /\ t.testcase_count = Null /\ t.targets = Null
    BY <1>1
<1>4. op \in Request
    BY OperationAssumption
<1>5. PICK k : k = Len(t.todo)
    OBVIOUS
<1>6. k = Len(Edits(op)) + 4
    BY <1>3, <1>4, <1>5, StatementsType
<1>7. ASSUME KeepsTestcases(op) PROVE WritesItsEdit(t)
    <2>1. PICK m \in 0 .. 2 : m = EditLength(op)
        BY DEF EditLength
    <2>2. k = m + 4
        BY <1>6, <1>7, <2>1, KeepingEditsType
    <2>3. /\ op.kind = "create" \/ op.kind = "move" => m = 2
          /\ op.kind = "set" => m = 1
        BY <2>1 DEF EditLength
    <2>4. KeepsRowsAt(t, k)
        BY <1>3, <1>7, <2>2, <2>3 DEF KeepsRowsAt, KeepsTestcases
    <2>. QED
        BY <1>3, <1>5, <1>7, <2>4 DEF KeepsRows, WritesItsEdit
<1>8. ASSUME ~KeepsTestcases(op) PROVE WritesItsEdit(t)
    <2>8. PICK E : E = Edits(op)
        OBVIOUS
    <2>9. PICK m \in Nat : m = NewLength(op)
        BY NewLengthType
    <2>6. E = Edits(op) /\ m = NewLength(op)
        BY <2>8, <2>9
    <2>7. /\ op.kind = "delete" => Len(E) = 3
          /\ ReplacesAll(op) => Len(E) = 3 + 2 * m
        BY <2>6, DeletingEditsType
    <2>1. op.kind = "delete" => k = 7
        <3>. SUFFICES ASSUME op.kind = "delete" PROVE k = 7
            OBVIOUS
        <3>1. k = Len(E) + 4
            BY <1>6, <2>6, Zenon
        <3>2. Len(E) = 3
            BY <2>7
        <3>. QED
            BY <3>1, <3>2
    <2>2. ReplacesAll(op) => k = 7 + 2 * m
        <3>. SUFFICES ASSUME ReplacesAll(op) PROVE k = 7 + 2 * m
            OBVIOUS
        <3>1. k = Len(E) + 4
            BY <1>6, <2>6, Zenon
        <3>2. Len(E) = 3 + 2 * m
            BY <2>7
        <3>3. k = (3 + 2 * m) + 4
            BY <3>1, <3>2, Zenon
        <3>4. 2 * m \in Nat
            OBVIOUS
        <3>. QED
            BY <3>3, <3>4
    <2>3. op.kind = "delete" => DeletesRowAt(t, k)
        BY <1>3, <2>1 DEF DeletesRowAt
    <2>4. ReplacesAll(op) => ReplacesRowsAt(t, k, m)
        <3>. SUFFICES ASSUME ReplacesAll(op) PROVE ReplacesRowsAt(t, k, m)
            OBVIOUS
        <3>1. PICK n \in Nat : n = m /\ k = 7 + 2 * n
            BY <2>2
        <3>2. \A i \in 1 .. n : k # 4 + 2 * i /\ k # 3 + 2 * i
            BY <3>1
        <3>3. k > 5 + 2 * n /\ k # 5 + 2 * n /\ ~(k <= 5 + 2 * n) /\ ~(k <= 4)
            BY <3>1
        <3>. QED
            BY <1>3, <3>1, <3>2, <3>3 DEF ReplacesRowsAt
    <2>5. FindsAll(t, k)
        BY <1>3 DEF FindsAll
    <2>. QED
        BY <1>3, <1>5, <1>8, <2>3, <2>4, <2>5, <2>6 DEF DeletesRows, DeletesRowsAt, WritesItsEdit
<1>9. t # Null => \A u \in Session \ {s} : tx[u] # Null => AreApart(t, tx[u])
    <2>. SUFFICES ASSUME t # Null, NEW u \in Session \ {s}, tx[u] # Null
                  PROVE  AreApart(t, tx[u])
        OBVIOUS
    <2>1. tx'[s] = t /\ tx'[u] = tx[u]
        BY <1>2 DEF KInv, IInv, TransactionsAreWellFormed
    <2>2. KeepsTestcases(t.op) /\ KeepsTestcases(tx[u].op)
        BY <2>1 DEF DeletionsAreAlone
    <2>. QED
        BY <1>3, <2>2 DEF AreApart
<1>. QED
    BY <1>2, <1>7, <1>8, <1>9, <1>3, KeepStep DEF Begin

LEMMA ExecuteKeeps ==
    ASSUME KInv, NEW s \in Session, KeepsTestcases(tx[s].op), Execute(s)
    PROVE  ListInvariant'
<1>1. PICK targets : tx' = [tx EXCEPT ![s].targets = targets]
    BY DEF Execute
<1>2. tx[s] # Null
    BY DEF Execute
<1>3. PICK q : q = [tx[s] EXCEPT !.targets = targets]
    OBVIOUS
<1>4. /\ HasItsFields(tx[s]) /\ KeepsRows(tx[s])
      /\ \A u \in Session \ {s} : tx[u] # Null => AreApart(tx[s], tx[u])
    BY <1>2, KeepingTransaction
<1>5. /\ q.op = tx[s].op /\ q.todo = tx[s].todo /\ q.writes = tx[s].writes
      /\ q.testcase_count = tx[s].testcase_count
    BY <1>3, <1>4 DEF HasItsFields
<1>6. KeepsRows(q)
    BY <1>4, <1>5 DEF KeepsRows, KeepsRowsAt, Inserted, Replaced, HasMoved
<1>7. \A u \in Session \ {s} : tx[u] # Null => AreApart(q, tx[u])
    BY <1>4, <1>5 DEF AreApart
<1>8. tx' = [tx EXCEPT ![s] = q]
    BY <1>1, <1>3
<1>9. WritesItsEdit(q)
    BY <1>5, <1>6 DEF WritesItsEdit
<1>. QED
    BY <1>7, <1>8, <1>9, KeepStep DEF Execute

(* A statement before the publication is done, with t for the transaction. *)
LEMMA EditKeeps ==
    ASSUME KInv, NEW s \in Session, KeepsTestcases(tx[s].op), tx[s] # Null,
           NEW t, Done(s, t), HasItsFields(t),
           t.op = tx[s].op, t.todo = tx[s].todo,
           NEW k \in 2 .. 6, Len(t.todo) = k,
           KeepsRowsAt(t, k - 1),
           \A u \in Session \ {s} : tx[u] # Null => AreApart(t, tx[u])
    PROVE  ListInvariant'
<1>1. PICK q : q = [t EXCEPT !.todo = Tail(@), !.targets = Null]
    OBVIOUS
<1>2. /\ q.op = t.op /\ q.todo = Tail(t.todo) /\ q.writes = t.writes
      /\ q.testcase_count = t.testcase_count
    BY <1>1 DEF HasItsFields
<1>3. Len(q.todo) = k - 1
    <2>1. k > 1
        OBVIOUS
    <2>2. Len(t.todo) > 1
        BY <2>1, Zenon
    <2>3. t.op \in Operation /\ Remains(t)
        <3>1. tx[s].op \in Operation /\ Remains(tx[s])
            BY KeepingTransaction
        <3>. QED
            BY <3>1 DEF Remains
    <2>4. Statements(t.op) \in Seq(Statement) /\ IsEndOf(t.todo, Statements(t.op))
        BY <2>3, OperationAssumption, StatementsType DEF Remains
    <2>5. Len(Tail(t.todo)) = Len(t.todo) - 1
        BY <2>2, <2>4, TailIsEnd
    <2>. QED
        BY <1>2, <2>5
<1>4. KeepsRows(q)
    <2>1. KeepsRowsAt(q, k - 1)
        BY <1>2 DEF KeepsRowsAt, Inserted, Replaced, HasMoved
    <2>. QED
        BY <1>3, <2>1 DEF KeepsRows
<1>5. \A u \in Session \ {s} : tx[u] # Null => AreApart(q, tx[u])
    BY <1>2 DEF AreApart
<1>6. tx' = [tx EXCEPT ![s] = q]
    BY <1>1 DEF Done
<1>7. WritesItsEdit(q)
    BY <1>2, <1>4 DEF WritesItsEdit
<1>. QED
    BY <1>5, <1>6, <1>7, KeepStep DEF Done

LEMMA IncreaseCountKeeps ==
    ASSUME KInv, NEW s \in Session, KeepsTestcases(tx[s].op), IncreaseCount(s)
    PROVE  ListInvariant'
<1>1. PICK o : o = tx[s]
    OBVIOUS
<1>2. o # Null /\ Head(o.todo) = "increase_count" /\ CountIsFree(s)
    BY <1>1 DEF IncreaseCount, Runs
<1>3. /\ HasItsFields(o) /\ o.op \in Operation /\ Remains(o)
      /\ KeepsTestcases(o.op) /\ KeepsRows(o)
      /\ \A u \in Session \ {s} : tx[u] # Null => AreApart(o, tx[u])
    BY <1>1, <1>2, KeepingTransaction
<1>4. o.op.kind = "create" /\ Len(o.todo) = 6
    BY <1>2, <1>3, KeepingPosition
<1>5. o.testcase_count = Null /\ DOMAIN o.writes = {}
    BY <1>3, <1>4 DEF KeepsRows, KeepsRowsAt
<1>6. PICK t : t = [o EXCEPT !.testcase_count = testcase_count + 1]
    OBVIOUS
<1>7. Done(s, t)
    BY <1>1, <1>5, <1>6 DEF IncreaseCount, SetCount, LatestCount
<1>8. /\ HasItsFields(t) /\ t.op = o.op /\ t.todo = o.todo /\ t.writes = o.writes
      /\ t.testcase_count = testcase_count + 1
    BY <1>3, <1>6 DEF HasItsFields
<1>9. KeepsRowsAt(t, 6 - 1)
    BY <1>4, <1>5, <1>8 DEF KeepsRowsAt
<1>10. \A u \in Session \ {s} : tx[u] # Null => AreApart(t, tx[u])
    BY <1>2, <1>3, <1>8 DEF AreApart, CountIsFree, Others
<1>11. Len(t.todo) = 6 /\ 6 \in 2 .. 6
    BY <1>4, <1>8
<1>. QED
    BY <1>1, <1>2, <1>7, <1>8, <1>9, <1>10, <1>11, EditKeeps

LEMMA InsertKeeps ==
    ASSUME KInv, NEW s \in Session, KeepsTestcases(tx[s].op), Insert(s)
    PROVE  ListInvariant'
<1>1. PICK o : o = tx[s]
    OBVIOUS
<1>2. o # Null /\ Head(o.todo) = "insert" /\ FreshRows # {}
    BY <1>1 DEF Insert, Runs
<1>3. /\ HasItsFields(o) /\ o.op \in Operation /\ Remains(o)
      /\ KeepsTestcases(o.op) /\ KeepsRows(o)
      /\ \A u \in Session \ {s} : tx[u] # Null => AreApart(o, tx[u])
    BY <1>1, <1>2, KeepingTransaction
<1>4. o.op.kind = "create" /\ Len(o.todo) = 5
    BY <1>2, <1>3, KeepingPosition
<1>5. o.testcase_count = testcase_count + 1 /\ DOMAIN o.writes = {}
    BY <1>3, <1>4 DEF KeepsRows, KeepsRowsAt
<1>6. CASE RollBack(s)
    BY <1>6, RollBackKeeps
<1>7. CASE ~RollBack(s)
    <2>. DEFINE id == CHOOSE r \in FreshRows : TRUE
                row == [order |-> o.testcase_count, content |-> InsertedContent(o)]
                written == [r \in {id} \cup DOMAIN o.writes |-> IF r = id THEN row ELSE o.writes[r]]
    <2>1. Done(s, [o EXCEPT !.writes = written])
        BY <1>1, <1>7 DEF Insert
    <2>2. id \in FreshRows
        BY <1>2
    <2>3. InsertedContent(o) = o.op.contents[1]
        BY <1>2, <1>3, <1>4, InsertedContentType, OperationAssumption
    <2>. HIDE DEF id
    <2>4. /\ DOMAIN written = {id}
          /\ written[id] = [order |-> testcase_count + 1, content |-> o.op.contents[1]]
        BY <1>5, <2>3
    <2>5. /\ id \in Row \ DOMAIN testcases
          /\ \A u \in Session : tx[u] # Null => id \notin DOMAIN tx[u].writes
        BY <2>2 DEF FreshRows
    <2>. HIDE DEF written
    <2>6. PICK t : t = [o EXCEPT !.writes = written]
        OBVIOUS
    <2>7. /\ HasItsFields(t) /\ t.op = o.op /\ t.todo = o.todo /\ t.writes = written
          /\ t.testcase_count = o.testcase_count
        BY <1>3, <2>6 DEF HasItsFields
    <2>8. Inserted(t)
        BY <2>4, <2>5, <2>7 DEF Inserted
    <2>9. KeepsRowsAt(t, 5 - 1)
        BY <1>4, <1>5, <2>7, <2>8 DEF KeepsRowsAt
    <2>10. \A u \in Session \ {s} : tx[u] # Null => AreApart(t, tx[u])
        BY <1>3, <2>4, <2>5, <2>7 DEF AreApart
    <2>11. Len(t.todo) = 5 /\ 5 \in 2 .. 6
        BY <1>4, <2>7
    <2>12. Done(s, t)
        BY <2>1, <2>6
    <2>. QED
        BY <1>1, <1>2, <2>7, <2>9, <2>10, <2>11, <2>12, EditKeeps
<1>. QED
    BY <1>6, <1>7

(* Rows with orders of their own, as many as there are orders in an        *)
(* interval, have all its orders.                                          *)
LEMMA AllOrdersTaken ==
    ASSUME NEW rows, OrdersAreUnique(rows), NEW A \in SUBSET DOMAIN rows, IsFiniteSet(A),
           NEW m \in Nat, NEW n \in Nat, m <= n,
           \A r \in A : rows[r].order \in m .. n,
           Cardinality(A) = n - m + 1
    PROVE  {rows[r].order : r \in A} = m .. n
<1>. DEFINE image == {rows[r].order : r \in A}
            order == [r \in A |-> rows[r].order]
<1>1. IsFiniteSet(m .. n) /\ Cardinality(m .. n) = n - m + 1
    BY FS_Interval
<1>2. image \subseteq m .. n
    OBVIOUS
<1>3. order \in Injection(A, image) /\ order \in Surjection(A, image)
    <2>1. order \in [A -> image] /\ \A i \in image : \E r \in A : order[r] = i
        OBVIOUS
    <2>2. \A q, r \in A : order[q] = order[r] => q = r
        BY DEF OrdersAreUnique
    <2>. HIDE DEF order, image
    <2>. QED
        BY <2>1, <2>2, Zenon DEF Injection, Surjection, IsInjective
<1>. HIDE DEF image, order
<1>4. Cardinality(image) = Cardinality(A)
    BY <1>3, FS_Surjection
<1>5. image = m .. n
    BY <1>1, <1>2, <1>4, FS_Subset
<1>. QED
    BY <1>5 DEF image

(* A transaction that has written nothing sees the committed rows.         *)
LEMMA ViewOfNothing ==
    ASSUME NEW s \in Session, DOMAIN tx[s].writes = {}
    PROVE  /\ DOMAIN View(s) = DOMAIN testcases
           /\ \A r \in DOMAIN testcases : View(s)[r] = testcases[r]
BY DEF View

LEMMA WriteKeeps ==
    ASSUME KInv, NEW s \in Session, KeepsTestcases(tx[s].op), Write(s)
    PROVE  ListInvariant'
<1>1. PICK o : o = tx[s]
    OBVIOUS
<1>2. o # Null /\ o.targets # Null /\ \A r \in o.targets : RowIsFree(s, r)
    BY <1>1 DEF Write
<1>3. /\ HasItsFields(o) /\ o.op \in Operation /\ Remains(o)
      /\ KeepsTestcases(o.op) /\ KeepsRows(o)
      /\ \A u \in Session \ {s} : tx[u] # Null => AreApart(o, tx[u])
      /\ Head(o.todo) \in RowStatement
    BY <1>1, <1>2, KeepingTransaction, EditTransaction DEF KInv
<1>4. PICK st : st = Head(o.todo)
    OBVIOUS
<1>5. o.op.kind = st /\ st \in {"set", "move"} /\ Len(o.todo) = 5
    <2>1. PICK k \in 1 .. 6 :
            /\ k = Len(o.todo)
            /\ k >= 5 => st \in {"increase_count", "insert", "get_testcase", "move", "set"}
            /\ st = "move" => o.op.kind = "move" /\ k = 5
            /\ st = "set" => o.op.kind = "set" /\ k = 5
        BY <1>3, <1>4, KeepingPosition
    <2>2. k >= 5
        BY <1>3, <1>4, <2>1, PositionOfStatement DEF RowStatement, EditStatement
    <2>. QED
        BY <1>3, <1>4, <2>1, <2>2 DEF RowStatement
<1>6. o.testcase_count = Null /\ DOMAIN o.writes = {}
    BY <1>3, <1>5 DEF KeepsRows, KeepsRowsAt
<1>7. /\ DOMAIN View(s) = DOMAIN testcases
      /\ \A r \in DOMAIN testcases : View(s)[r] = testcases[r]
    BY <1>1, <1>6, ViewOfNothing
<1>8. CASE RollBack(s)
    BY <1>8, RollBackKeeps
<1>9. CASE ~RollBack(s)
    <2>. DEFINE affected == Recheck(s, st)
                written == [r \in affected \cup DOMAIN o.writes |->
                                IF r \in affected THEN Written(o.op, st, View(s)[r])
                                                  ELSE o.writes[r]]
    <2>1. Done(s, [o EXCEPT !.writes = written]) /\ ~Refuses(o.op, st, affected)
        BY <1>1, <1>4, <1>9 DEF Write
    <2>2. /\ affected = {r \in o.targets \cap DOMAIN testcases : Matches(o.op, st, testcases[r])}
          /\ affected \subseteq DOMAIN testcases
        BY <1>1, <1>7 DEF Recheck
    <2>. HIDE DEF affected
    <2>3. /\ DOMAIN written = affected
          /\ \A r \in affected : written[r] = Written(o.op, st, testcases[r])
        BY <1>6, <1>7, <2>2
    <2>4. \A u \in Session \ {s} : tx[u] # Null => affected \cap DOMAIN tx[u].writes = {}
        BY <1>2, <2>2 DEF RowIsFree, Others
    <2>. HIDE DEF written
    <2>5. PICK t : t = [o EXCEPT !.writes = written]
        OBVIOUS
    <2>6. /\ HasItsFields(t) /\ t.op = o.op /\ t.todo = o.todo /\ t.writes = written
          /\ t.testcase_count = Null
        BY <1>3, <1>6, <2>5 DEF HasItsFields
    <2>7. OrdersAreUnique(testcases)
        BY DEF KInv, ListInvariant
    <2>8. ASSUME st = "set" PROVE KeepsRowsAt(t, 5 - 1)
        <3>1. affected # {}
            BY <2>1, <2>8 DEF Refuses
        <3>2. \A r \in affected :
                testcases[r].order = o.op.at /\ r \in DOMAIN testcases
            BY <2>2, <2>8 DEF Matches
        <3>3. PICK r \in affected : affected = {r}
            BY <2>7, <3>1, <3>2 DEF OrdersAreUnique
        <3>4. written[r] = [testcases[r] EXCEPT !.content = o.op.contents[1]]
            BY <2>3, <2>8 DEF Written
        <3>5. Replaced(t)
            BY <2>3, <2>6, <3>2, <3>3, <3>4 DEF Replaced
        <3>. QED
            BY <1>5, <2>6, <2>8, <3>5 DEF KeepsRowsAt
    <2>9. ASSUME st = "move" PROVE KeepsRowsAt(t, 5 - 1)
        <3>1. Cardinality(affected) = Highest(o.op) - Lowest(o.op) + 1
            BY <2>1, <2>9 DEF Refuses
        <3>2. \A r \in affected : testcases[r].order \in Lowest(o.op) .. Highest(o.op)
            BY <2>2, <2>9 DEF Matches
        <3>3. Lowest(o.op) \in Nat /\ Highest(o.op) \in Nat /\ Lowest(o.op) <= Highest(o.op)
            BY <1>3, OperationAssumption DEF Request, Lowest, Highest
        <3>4. IsFiniteSet(affected)
            BY <2>2, FS_Subset DEF KInv, IInv, RowsAreFinite
        <3>5. {testcases[r].order : r \in affected} = Between(o.op)
            BY <2>2, <2>7, <3>1, <3>2, <3>3, <3>4, AllOrdersTaken DEF Between
        <3>6. \A r \in affected : written[r] = [testcases[r] EXCEPT !.order = Moved(o.op, @)]
            BY <2>3, <2>9 DEF Written
        <3>7. HasMoved(t)
            BY <2>2, <2>3, <2>6, <3>5, <3>6 DEF HasMoved
        <3>. QED
            BY <1>5, <2>6, <2>9, <3>7 DEF KeepsRowsAt
    <2>10. KeepsRowsAt(t, 5 - 1)
        BY <1>5, <2>8, <2>9
    <2>11. \A u \in Session \ {s} : tx[u] # Null => AreApart(t, tx[u])
        BY <1>3, <2>3, <2>4, <2>6 DEF AreApart
    <2>12. Len(t.todo) = 5 /\ 5 \in 2 .. 6
        BY <1>5, <2>6
    <2>13. Done(s, t)
        BY <2>1, <2>5
    <2>. QED
        BY <1>1, <1>2, <2>6, <2>10, <2>11, <2>12, <2>13, EditKeeps
<1>. QED
    BY <1>8, <1>9

-----------------------------------------------------------------------------
(* The statements of an edit that deletes testcases.                       *)

LEMMA DeletesOne ==
    ASSUME NEW t, t.op.kind = "delete", NEW k
    PROVE  DeletesRowsAt(t, k) <=> DeletesRowAt(t, k)
BY DEF DeletesRowsAt, ReplacesAll

LEMMA DeletesEvery ==
    ASSUME NEW t, ReplacesAll(t.op), NEW n, n = NewLength(t.op), NEW k
    PROVE  DeletesRowsAt(t, k) <=> ReplacesRowsAt(t, k, n)
BY DEF DeletesRowsAt, ReplacesAll

LEMMA RowsOfTransaction ==
    ASSUME NEW t, NEW k, DeletesRowsAt(t, k),
           NEW q, q.op = t.op, q.writes = t.writes, q.testcase_count = t.testcase_count
    PROVE  DeletesRowsAt(q, k)
BY DEF DeletesRowsAt, DeletesRowAt, HasDeleted, HasShifted, ReplacesRowsAt,
       HasCleared, HasWritten, CountIn

(* A statement is done, with t for the transaction.                        *)
LEMMA DeleteStep ==
    ASSUME KInv, NEW s \in Session, ~KeepsTestcases(tx[s].op), tx[s] # Null,
           NEW t, Done(s, t), HasItsFields(t), t.op = tx[s].op, Remains(t),
           NEW k \in Nat, Len(t.todo) = k, k > 1, DeletesRowsAt(t, k - 1)
    PROVE  ListInvariant'
<1>1. PICK q : q = [t EXCEPT !.todo = Tail(@), !.targets = Null]
    OBVIOUS
<1>2. /\ q.op = t.op /\ q.todo = Tail(t.todo) /\ q.writes = t.writes
      /\ q.testcase_count = t.testcase_count /\ q.targets = Null
    BY <1>1 DEF HasItsFields
<1>3. Len(q.todo) = k - 1
    <2>1. t.op \in Operation
        BY DeletingTransaction
    <2>2. Statements(t.op) \in Seq(Statement) /\ IsEndOf(t.todo, Statements(t.op))
        BY <2>1, OperationAssumption, StatementsType DEF Remains
    <2>3. Len(Tail(t.todo)) = Len(t.todo) - 1
        BY <2>2, TailIsEnd
    <2>. QED
        BY <1>2, <2>3
<1>4. DeletesRowsAt(q, k - 1)
    BY <1>2, RowsOfTransaction
<1>5. WritesItsEdit(q)
    BY <1>2, <1>3, <1>4 DEF WritesItsEdit, DeletesRows, FindsAll
<1>6. \A u \in Session \ {s} : tx[u] = Null
    BY DeletingTransaction
<1>7. tx' = [tx EXCEPT ![s] = q]
    BY <1>1 DEF Done
<1>. QED
    BY <1>5, <1>6, <1>7, KeepStep DEF Done

(* With one testcase deleted, those behind it are still there.             *)
LEMMA ViewOfDeleted ==
    ASSUME NEW s \in Session, NEW t, t = tx[s], t.op.at \in Nat, HasDeleted(t)
    PROVE  /\ Behind(t.op) = {r \in DOMAIN View(s) : View(s)[r].order > t.op.at}
           /\ \A r \in Behind(t.op) : r \in DOMAIN View(s) /\ View(s)[r] = testcases[r]
<1>1. PICK r \in DOMAIN testcases :
        DOMAIN t.writes = {r} /\ testcases[r].order = t.op.at /\ t.writes[r] = Null
    BY DEF HasDeleted
<1>2. /\ DOMAIN View(s) = DOMAIN testcases \ {r}
      /\ \A q \in DOMAIN View(s) : View(s)[q] = testcases[q]
    BY <1>1 DEF View
<1>3. r \notin Behind(t.op)
    BY <1>1 DEF Behind
<1>. QED
    BY <1>2, <1>3 DEF Behind

LEMMA ExecuteDeletes ==
    ASSUME KInv, NEW s \in Session, ~KeepsTestcases(tx[s].op), Execute(s)
    PROVE  ListInvariant'
<1>1. PICK o : o = tx[s]
    OBVIOUS
<1>2. o # Null
    BY <1>1 DEF Execute
<1>3. /\ HasItsFields(o) /\ o.op \in Operation /\ Remains(o) /\ DeletesRows(o)
      /\ o.op.kind = "delete" \/ ReplacesAll(o.op)
      /\ \A u \in Session \ {s} : tx[u] = Null
    BY <1>1, <1>2, DeletingTransaction
<1>4. PICK targets :
        targets = {r \in DOMAIN View(s) : Matches(o.op, Head(o.todo), View(s)[r])}
    OBVIOUS
<1>5. PICK q : q = [o EXCEPT !.targets = targets]
    OBVIOUS
<1>6. tx' = [tx EXCEPT ![s] = q]
    BY <1>1, <1>4, <1>5 DEF Execute
<1>7. /\ q.op = o.op /\ q.todo = o.todo /\ q.writes = o.writes
      /\ q.testcase_count = o.testcase_count /\ q.targets = targets
    BY <1>3, <1>5 DEF HasItsFields
<1>8. PICK k \in Nat : k = Len(o.todo)
    BY <1>3, PositionOfStatement
<1>9. PICK n \in Nat : n = NewLength(o.op)
    BY <1>3, NewLengthType
<1>10. DeletesRowsAt(o, k)
    BY <1>3, <1>8 DEF DeletesRows
<1>11. ASSUME o.op.kind = "delete", k = 6 PROVE targets = Behind(o.op)
    <2>1. Head(o.todo) = "shift"
        <3>1. \/ k = 7 /\ Head(o.todo) = "delete"
              \/ k = 6 /\ Head(o.todo) = "shift"
              \/ k = 5 /\ Head(o.todo) = "decrease_count"
              \/ k \in 1 .. 4 /\ InPublication(Head(o.todo))
            BY <1>3, <1>8, <1>11, DeletingPosition
        <3>. QED
            BY <1>11, <3>1
    <2>2. o.op.at \in Nat
        BY <1>3, OperationAssumption DEF Request
    <2>3. HasDeleted(o)
        BY <1>10, <1>11, DeletesOne DEF DeletesRowAt
    <2>4. Behind(o.op) = {r \in DOMAIN View(s) : View(s)[r].order > o.op.at}
        BY <1>1, <2>2, <2>3, ViewOfDeleted
    <2>. QED
        BY <1>4, <2>1, <2>4 DEF Matches
<1>12. ASSUME ReplacesAll(o.op), k = 6 + 2 * n PROVE targets = DOMAIN testcases
    <2>1. Head(o.todo) = "delete_all"
        <3>1. k # 7 + 2 * n /\ k # 5 + 2 * n /\ k \notin 1 .. 4
              /\ \A i \in 1 .. n : k # 4 + 2 * i /\ k # 3 + 2 * i
            BY <1>12
        <3>. QED
            BY <1>3, <1>8, <1>9, <1>12, <3>1, ReplacingPosition
    <2>2. DOMAIN o.writes = {}
        <3>1. ReplacesRowsAt(o, k, n) /\ k > 5 + 2 * n
            BY <1>9, <1>10, <1>12, DeletesEvery
        <3>. QED
            BY <3>1 DEF ReplacesRowsAt
    <2>3. DOMAIN View(s) = DOMAIN testcases
        BY <1>1, <2>2, ViewOfNothing
    <2>. QED
        BY <1>4, <2>1, <2>3 DEF Matches
<1>13. FindsAll(q, k)
    BY <1>7, <1>9, <1>11, <1>12 DEF FindsAll
<1>14. DeletesRowsAt(q, k)
    BY <1>7, <1>10, RowsOfTransaction
<1>15. WritesItsEdit(q)
    BY <1>1, <1>7, <1>8, <1>13, <1>14 DEF WritesItsEdit, DeletesRows
<1>. QED
    BY <1>3, <1>6, <1>15, KeepStep DEF Execute

LEMMA WriteDeletes ==
    ASSUME KInv, NEW s \in Session, ~KeepsTestcases(tx[s].op), Write(s)
    PROVE  ListInvariant'
<1>1. PICK o : o = tx[s]
    OBVIOUS
<1>2. o # Null /\ o.targets # Null
    BY <1>1 DEF Write
<1>3. /\ HasItsFields(o) /\ o.op \in Operation /\ Remains(o)
      /\ DeletesRows(o)
      /\ o.op.kind = "delete" \/ ReplacesAll(o.op)
      /\ Head(o.todo) \in RowStatement
    BY <1>1, <1>2, DeletingTransaction, EditTransaction DEF KInv
<1>4. PICK st : st = Head(o.todo)
    OBVIOUS
<1>5. PICK k \in Nat : k = Len(o.todo)
    BY <1>3, PositionOfStatement
<1>6. PICK n \in Nat : n = NewLength(o.op)
    BY <1>3, NewLengthType
<1>7. /\ o.op.kind = "delete" => (k = 7 /\ st = "delete") \/ (k = 6 /\ st = "shift")
      /\ ReplacesAll(o.op) => k = 6 + 2 * n /\ st = "delete_all"
    <2>1. st \in RowStatement /\ ~InPublication(st)
        BY <1>3, <1>4 DEF InPublication, RowStatement
    <2>2. o.op.kind = "delete" =>
            \/ k = 7 /\ st = "delete"
            \/ k = 6 /\ st = "shift"
            \/ k = 5 /\ st = "decrease_count"
            \/ k \in 1 .. 4 /\ InPublication(st)
        BY <1>3, <1>4, <1>5, DeletingPosition
    <2>3. ReplacesAll(o.op) =>
            \/ k = 7 + 2 * n /\ st = "count_rows"
            \/ k = 6 + 2 * n /\ st = "delete_all"
            \/ k = 5 + 2 * n /\ st = "clear_count"
            \/ \E i \in 1 .. n : k = 4 + 2 * i /\ st = "increase_count"
            \/ \E i \in 1 .. n : k = 3 + 2 * i /\ st = "insert"
            \/ k \in 1 .. 4 /\ InPublication(st)
        BY <1>3, <1>4, <1>5, <1>6, ReplacingPosition
    <2>. QED
        BY <1>4, <2>1, <2>2, <2>3 DEF RowStatement
<1>8. DeletesRowsAt(o, k) /\ FindsAll(o, k)
    BY <1>3, <1>5 DEF DeletesRows
<1>9. CASE RollBack(s)
    BY <1>9, RollBackKeeps
<1>10. CASE ~RollBack(s)
    <2>. DEFINE affected == Recheck(s, st)
                written == [r \in affected \cup DOMAIN o.writes |->
                                IF r \in affected THEN Written(o.op, st, View(s)[r])
                                                  ELSE o.writes[r]]
    <2>1. Done(s, [o EXCEPT !.writes = written]) /\ ~Refuses(o.op, st, affected)
        BY <1>1, <1>4, <1>10 DEF Write
    <2>2. affected = {r \in o.targets \cap DOMAIN View(s) : Matches(o.op, st, View(s)[r])}
        BY <1>1 DEF Recheck
    <2>. HIDE DEF affected
    <2>3. /\ DOMAIN written = affected \cup DOMAIN o.writes
          /\ \A r \in affected : written[r] = Written(o.op, st, View(s)[r])
          /\ \A r \in DOMAIN o.writes \ affected : written[r] = o.writes[r]
        OBVIOUS
    <2>. HIDE DEF written
    <2>4. PICK t : t = [o EXCEPT !.writes = written]
        OBVIOUS
    <2>5. /\ HasItsFields(t) /\ t.op = o.op /\ t.todo = o.todo /\ t.writes = written
          /\ t.testcase_count = o.testcase_count
        BY <1>3, <2>4 DEF HasItsFields
    <2>6. ASSUME o.op.kind = "delete", k = 7, st = "delete"
          PROVE  DeletesRowsAt(t, k - 1)
        <3>1. DOMAIN o.writes = {} /\ o.testcase_count = Null
            BY <1>8, <2>6, DeletesOne DEF DeletesRowAt
        <3>2. /\ DOMAIN View(s) = DOMAIN testcases
              /\ \A r \in DOMAIN testcases : View(s)[r] = testcases[r]
            BY <1>1, <3>1, ViewOfNothing
        <3>3. affected # {}
            BY <2>1, <2>6 DEF Refuses
        <3>4. \A r \in affected : r \in DOMAIN testcases /\ testcases[r].order = o.op.at
            BY <2>2, <2>6, <3>2 DEF Matches
        <3>5. OrdersAreUnique(testcases)
            BY DEF KInv, ListInvariant
        <3>6. PICK r \in affected : affected = {r}
            BY <3>3, <3>4, <3>5 DEF OrdersAreUnique
        <3>7. written[r] = Null /\ DOMAIN written = {r}
            BY <2>3, <2>6, <3>1, <3>6 DEF Written
        <3>8. HasDeleted(t)
            BY <2>5, <3>4, <3>6, <3>7 DEF HasDeleted
        <3>9. k - 1 = 6
            BY <2>6
        <3>10. DeletesRowAt(t, 6)
            BY <2>5, <3>1, <3>8 DEF DeletesRowAt
        <3>. QED
            BY <2>5, <2>6, <3>9, <3>10, DeletesOne
    <2>7. ASSUME o.op.kind = "delete", k = 6, st = "shift"
          PROVE  DeletesRowsAt(t, k - 1)
        <3>1. HasDeleted(o) /\ o.testcase_count = Null
            BY <1>8, <2>7, DeletesOne DEF DeletesRowAt
        <3>2. o.targets = Behind(o.op)
            BY <1>2, <1>8, <2>7 DEF FindsAll
        <3>3. o.op.at \in Nat
            BY <1>3, OperationAssumption DEF Request
        <3>4. /\ Behind(o.op) = {r \in DOMAIN View(s) : View(s)[r].order > o.op.at}
              /\ \A r \in Behind(o.op) : r \in DOMAIN View(s) /\ View(s)[r] = testcases[r]
            BY <1>1, <3>1, <3>3, ViewOfDeleted
        <3>5. affected = Behind(o.op)
            BY <2>2, <2>7, <3>2, <3>4 DEF Matches
        <3>6. PICK r \in DOMAIN testcases :
                DOMAIN o.writes = {r} /\ testcases[r].order = o.op.at /\ o.writes[r] = Null
            BY <3>1 DEF HasDeleted
        <3>7. r \notin Behind(o.op)
            BY <3>3, <3>6 DEF Behind
        <3>8. \A q \in Behind(o.op) : written[q] = [testcases[q] EXCEPT !.order = @ - 1]
            BY <2>3, <2>7, <3>4, <3>5 DEF Written
        <3>9. DOMAIN written = {r} \cup Behind(o.op) /\ written[r] = Null
            BY <2>3, <3>5, <3>6, <3>7
        <3>10. HasShifted(t)
            BY <2>5, <3>6, <3>8, <3>9 DEF HasShifted
        <3>11. k - 1 = 5
            BY <2>7
        <3>12. DeletesRowAt(t, 5)
            BY <2>5, <3>1, <3>10 DEF DeletesRowAt
        <3>. QED
            BY <2>5, <2>7, <3>11, <3>12, DeletesOne
    <2>8. ASSUME ReplacesAll(o.op), k = 6 + 2 * n, st = "delete_all"
          PROVE  DeletesRowsAt(t, k - 1)
        <3>1. ReplacesRowsAt(o, k, n) /\ k > 5 + 2 * n /\ k > 4 + 2 * n
            BY <1>6, <1>8, <2>8, DeletesEvery
        <3>2. DOMAIN o.writes = {} /\ o.testcase_count = Null
            BY <3>1 DEF ReplacesRowsAt
        <3>3. DOMAIN View(s) = DOMAIN testcases
            BY <1>1, <3>2, ViewOfNothing
        <3>4. o.targets = DOMAIN testcases
            BY <1>2, <1>6, <1>8, <2>8 DEF FindsAll
        <3>5. affected = DOMAIN testcases
            BY <2>2, <2>8, <3>3, <3>4 DEF Matches
        <3>6. DOMAIN written = DOMAIN testcases /\ \A r \in DOMAIN testcases : written[r] = Null
            BY <2>3, <2>8, <3>2, <3>5 DEF Written
        <3>7. HasCleared(t)
            BY <2>5, <3>6 DEF HasCleared
        <3>8. k - 1 = 5 + 2 * n
            BY <2>8
        <3>9. /\ ~(5 + 2 * n > 5 + 2 * n) /\ ~(5 + 2 * n <= 4)
              /\ \A i \in 1 .. n : 5 + 2 * n # 4 + 2 * i /\ 5 + 2 * n # 3 + 2 * i
            OBVIOUS
        <3>10. ReplacesRowsAt(t, 5 + 2 * n, n)
            BY <2>5, <3>2, <3>6, <3>7, <3>9 DEF ReplacesRowsAt
        <3>. QED
            BY <1>6, <2>5, <2>8, <3>8, <3>10, DeletesEvery
    <2>9. DeletesRowsAt(t, k - 1) /\ k > 1
        BY <1>3, <1>7, <2>6, <2>7, <2>8
    <2>10. Done(s, t) /\ Remains(t) /\ Len(t.todo) = k
        BY <1>3, <1>5, <2>1, <2>4, <2>5 DEF Remains
    <2>. QED
        BY <1>1, <1>2, <2>5, <2>9, <2>10, DeleteStep
<1>. QED
    BY <1>9, <1>10

(* Where the statements are that write no row they find.                   *)
LEMMA DeletingStatement ==
    ASSUME NEW t, t.op \in Operation, Remains(t), t.op.kind = "delete" \/ ReplacesAll(t.op),
           NEW k \in Nat, Len(t.todo) = k, NEW n \in Nat, NewLength(t.op) = n
    PROVE  /\ Head(t.todo) = "count_rows" => ReplacesAll(t.op) /\ k = 7 + 2 * n
           /\ Head(t.todo) = "clear_count" => ReplacesAll(t.op) /\ k = 5 + 2 * n
           /\ Head(t.todo) = "decrease_count" => t.op.kind = "delete" /\ k = 5
           /\ Head(t.todo) = "increase_count" =>
                ReplacesAll(t.op) /\ \E i \in 1 .. n : k = 4 + 2 * i
           /\ Head(t.todo) = "insert" => ReplacesAll(t.op) /\ \E i \in 1 .. n : k = 3 + 2 * i
           /\ Head(t.todo) # "get_testcase"
<1>0. PICK st : st = Head(t.todo)
    OBVIOUS
<1>1. t.op.kind = "delete" =>
        \/ k = 7 /\ st = "delete"
        \/ k = 6 /\ st = "shift"
        \/ k = 5 /\ st = "decrease_count"
        \/ k \in 1 .. 4 /\ InPublication(st)
    BY <1>0, DeletingPosition
<1>2. ReplacesAll(t.op) =>
        \/ k = 7 + 2 * n /\ st = "count_rows"
        \/ k = 6 + 2 * n /\ st = "delete_all"
        \/ k = 5 + 2 * n /\ st = "clear_count"
        \/ \E i \in 1 .. n : k = 4 + 2 * i /\ st = "increase_count"
        \/ \E i \in 1 .. n : k = 3 + 2 * i /\ st = "insert"
        \/ k \in 1 .. 4 /\ InPublication(st)
    BY <1>0, ReplacingPosition
<1>3. ~InPublication("count_rows") /\ ~InPublication("clear_count")
      /\ ~InPublication("decrease_count") /\ ~InPublication("increase_count")
      /\ ~InPublication("insert") /\ ~InPublication("get_testcase")
    BY DEF InPublication
<1>. QED
    BY <1>0, <1>1, <1>2, <1>3

(* All rows are deleted and none is written yet.                           *)
LEMMA FirstOfReplacement ==
    ASSUME NEW t, ReplacesAll(t.op), NEW n \in Nat, n = NewLength(t.op),
           HasCleared(t), DOMAIN t.writes \subseteq DOMAIN testcases, CountIn(t) = 0
    PROVE  DeletesRowsAt(t, 4 + 2 * n)
<1>1. HasWritten(t, 0)
    BY DEF HasWritten
<1>2. /\ ~(4 + 2 * n > 5 + 2 * n) /\ ~(4 + 2 * n > 4 + 2 * n) /\ 4 + 2 * n # 5 + 2 * n
      /\ 4 + 2 * n <= 4 => n = 0
      /\ \A i \in 1 .. n : 4 + 2 * n # 3 + 2 * i
      /\ \A i \in 1 .. n : 4 + 2 * n = 4 + 2 * i => n - i = 0
    OBVIOUS
<1>3. ReplacesRowsAt(t, 4 + 2 * n, n)
    BY <1>1, <1>2 DEF ReplacesRowsAt
<1>. QED
    BY <1>3, DeletesEvery

LEMMA CountRowsDeletes ==
    ASSUME KInv, NEW s \in Session, ~KeepsTestcases(tx[s].op), CountRows(s)
    PROVE  ListInvariant'
<1>1. PICK o : o = tx[s]
    OBVIOUS
<1>2. o # Null /\ Head(o.todo) = "count_rows"
    BY <1>1 DEF CountRows, Runs
<1>3. /\ HasItsFields(o) /\ o.op \in Operation /\ Remains(o)
      /\ DeletesRows(o)
      /\ o.op.kind = "delete" \/ ReplacesAll(o.op)
    BY <1>1, <1>2, DeletingTransaction
<1>4. PICK k \in Nat : k = Len(o.todo)
    BY <1>3, PositionOfStatement
<1>5. PICK n \in Nat : n = NewLength(o.op)
    BY <1>3, NewLengthType
<1>6. ReplacesAll(o.op) /\ k = 7 + 2 * n
    BY <1>2, <1>3, <1>4, <1>5, DeletingStatement
<1>7. DOMAIN o.writes = {} /\ o.testcase_count = Null
    <2>1. ReplacesRowsAt(o, k, n)
        BY <1>3, <1>4, <1>5, <1>6, DeletesEvery DEF DeletesRows
    <2>2. k > 5 + 2 * n /\ k > 4 + 2 * n
        BY <1>6
    <2>. QED
        BY <2>1, <2>2 DEF ReplacesRowsAt
<1>8. CASE RollBack(s)
    BY <1>8, RollBackKeeps
<1>9. CASE ~RollBack(s) /\ DOMAIN View(s) # {}
    <2>1. Done(s, o)
        BY <1>1, <1>9 DEF CountRows
    <2>2. k - 1 = 6 + 2 * n /\ k > 1
        BY <1>6
    <2>3. /\ 6 + 2 * n # 5 + 2 * n /\ ~(6 + 2 * n <= 5 + 2 * n) /\ ~(6 + 2 * n <= 4)
          /\ \A i \in 1 .. n : 6 + 2 * n # 4 + 2 * i /\ 6 + 2 * n # 3 + 2 * i
        OBVIOUS
    <2>4. ReplacesRowsAt(o, 6 + 2 * n, n)
        BY <1>7, <2>3 DEF ReplacesRowsAt
    <2>5. DeletesRowsAt(o, k - 1)
        BY <1>5, <1>6, <2>2, <2>4, DeletesEvery
    <2>. QED
        BY <1>1, <1>2, <1>3, <1>4, <2>1, <2>2, <2>5, DeleteStep
<1>10. CASE ~RollBack(s) /\ DOMAIN View(s) = {}
    <2>1. PICK t : t = [o EXCEPT !.todo = SubSeq(@, 3, Len(@))]
        OBVIOUS
    <2>2. Done(s, t)
        BY <1>1, <1>10, <2>1 DEF CountRows
    <2>3. /\ HasItsFields(t) /\ t.op = o.op /\ t.todo = SubSeq(o.todo, 3, Len(o.todo))
          /\ t.writes = o.writes /\ t.testcase_count = o.testcase_count
        BY <1>3, <2>1 DEF HasItsFields
    <2>4. /\ o.todo \in Seq(Statement) /\ Len(o.todo) >= 7
          /\ Statements(o.op) \in Seq(Statement) /\ IsEndOf(o.todo, Statements(o.op))
        <3>1. Len(o.todo) >= 7
            BY <1>4, <1>6
        <3>2. Statements(o.op) \in Seq(Statement)
            BY <1>3, OperationAssumption, StatementsType
        <3>. QED
            BY <1>3, <3>1, <3>2 DEF Remains, IsEndOf
    <2>5. /\ t.todo \in Seq(Statement) /\ Len(t.todo) = Len(o.todo) - 2
          /\ \A i \in 1 .. Len(t.todo) : t.todo[i] = o.todo[i + 2]
        BY <2>3, <2>4, SkipProperties
    <2>6. Len(t.todo) = 5 + 2 * n /\ 5 + 2 * n \in Nat /\ 5 + 2 * n > 1
          /\ 5 + 2 * n - 1 = 4 + 2 * n /\ Len(t.todo) >= 1
        <3>1. Len(t.todo) = k - 2
            BY <1>4, <2>5
        <3>2. k - 2 = 5 + 2 * n /\ k - 2 >= 1
            BY <1>6
        <3>3. Len(t.todo) = 5 + 2 * n /\ Len(t.todo) >= 1
            BY <3>1, <3>2, Zenon
        <3>. QED
            BY <3>3
    <2>7. Remains(t)
        <3>1. IsEndOf(t.todo, Statements(o.op))
            BY <2>4, <2>5, <2>6, SkippedIsEnd
        <3>. QED
            BY <2>3, <3>1 DEF Remains
    <2>8. DOMAIN testcases = {}
        BY <1>1, <1>7, <1>10, ViewOfNothing
    <2>9. testcase_count = 0
        BY <2>8, FS_EmptySet DEF KInv, ListInvariant
    <2>10. DeletesRowsAt(t, 4 + 2 * n)
        BY <1>5, <1>6, <1>7, <2>3, <2>8, <2>9, FirstOfReplacement DEF HasCleared, CountIn
    <2>. QED
        BY <1>1, <1>2, <2>2, <2>3, <2>6, <2>7, <2>10, DeleteStep
<1>. QED
    BY <1>8, <1>9, <1>10

(* A statement sets the count to c.                                        *)
LEMMA CountDeletes ==
    ASSUME KInv, NEW s \in Session, ~KeepsTestcases(tx[s].op), tx[s] # Null,
           NEW c \in Nat, SetCount(s, c),
           NEW k \in Nat, Len(tx[s].todo) = k, k > 1,
           \A t : /\ t.op = tx[s].op /\ t.writes = tx[s].writes /\ t.testcase_count = c
                  => DeletesRowsAt(t, k - 1)
    PROVE  ListInvariant'
<1>1. PICK o : o = tx[s]
    OBVIOUS
<1>2. PICK t : t = [o EXCEPT !.testcase_count = c]
    OBVIOUS
<1>3. HasItsFields(o) /\ Remains(o)
    BY <1>1, DeletingTransaction
<1>4. /\ HasItsFields(t) /\ t.op = o.op /\ t.todo = o.todo /\ t.writes = o.writes
      /\ t.testcase_count = c
    BY <1>2, <1>3 DEF HasItsFields
<1>5. Remains(t) /\ Len(t.todo) = k
    BY <1>1, <1>3, <1>4 DEF Remains
<1>6. DeletesRowsAt(t, k - 1)
    BY <1>1, <1>4
<1>7. Done(s, t)
    BY <1>1, <1>2 DEF SetCount
<1>. QED
    BY <1>1, <1>4, <1>5, <1>6, <1>7, DeleteStep

LEMMA ClearCountDeletes ==
    ASSUME KInv, NEW s \in Session, ~KeepsTestcases(tx[s].op), ClearCount(s)
    PROVE  ListInvariant'
<1>1. PICK o : o = tx[s]
    OBVIOUS
<1>2. o # Null /\ Head(o.todo) = "clear_count" /\ SetCount(s, 0)
    BY <1>1 DEF ClearCount, Runs
<1>3. /\ o.op \in Operation /\ Remains(o) /\ DeletesRows(o)
      /\ o.op.kind = "delete" \/ ReplacesAll(o.op)
    BY <1>1, <1>2, DeletingTransaction
<1>4. PICK k \in Nat : k = Len(o.todo)
    BY <1>3, PositionOfStatement
<1>5. PICK n \in Nat : n = NewLength(o.op)
    BY <1>3, NewLengthType
<1>6. ReplacesAll(o.op) /\ k = 5 + 2 * n
    BY <1>2, <1>3, <1>4, <1>5, DeletingStatement
<1>7. HasCleared(o) /\ DOMAIN o.writes = DOMAIN testcases
    <2>1. ReplacesRowsAt(o, k, n)
        BY <1>3, <1>4, <1>5, <1>6, DeletesEvery DEF DeletesRows
    <2>2. k <= 5 + 2 * n
        BY <1>6
    <2>. QED
        BY <1>6, <2>1, <2>2 DEF ReplacesRowsAt
<1>8. k - 1 = 4 + 2 * n /\ k > 1
    BY <1>6
<1>9. ASSUME NEW t, t.op = o.op, t.writes = o.writes, t.testcase_count = 0
      PROVE  DeletesRowsAt(t, k - 1)
    <2>1. CountIn(t) = 0
        BY <1>9, NullAssumption DEF CountIn
    <2>2. HasCleared(t)
        BY <1>7, <1>9 DEF HasCleared
    <2>. QED
        BY <1>5, <1>6, <1>7, <1>8, <1>9, <2>1, <2>2, FirstOfReplacement
<1>. QED
    BY <1>1, <1>2, <1>4, <1>8, <1>9, CountDeletes

LEMMA DecreaseCountDeletes ==
    ASSUME KInv, NEW s \in Session, ~KeepsTestcases(tx[s].op), DecreaseCount(s)
    PROVE  ListInvariant'
<1>1. PICK o : o = tx[s]
    OBVIOUS
<1>2. o # Null /\ Head(o.todo) = "decrease_count"
    BY <1>1 DEF DecreaseCount, Runs
<1>3. /\ o.op \in Operation /\ Remains(o) /\ DeletesRows(o)
      /\ o.op.kind = "delete" \/ ReplacesAll(o.op)
    BY <1>1, <1>2, DeletingTransaction
<1>4. PICK k \in Nat : k = Len(o.todo)
    BY <1>3, PositionOfStatement
<1>5. PICK n \in Nat : n = NewLength(o.op)
    BY <1>3, NewLengthType
<1>6. o.op.kind = "delete" /\ k = 5
    BY <1>2, <1>3, <1>4, <1>5, DeletingStatement
<1>7. HasShifted(o) /\ o.testcase_count = Null
    <2>1. DeletesRowAt(o, k)
        BY <1>3, <1>4, <1>6, DeletesOne DEF DeletesRows
    <2>. QED
        BY <1>6, <2>1 DEF DeletesRowAt
<1>8. CASE RollBack(s)
    BY <1>8, RollBackKeeps
<1>9. CASE ~RollBack(s)
    <2>1. PICK c : c = testcase_count - 1
        OBVIOUS
    <2>2. SetCount(s, c) /\ c \in Nat
        BY <1>1, <1>7, <1>9, <2>1 DEF DecreaseCount, LatestCount, KInv, TypeInvariant
    <2>3. ASSUME NEW t, t.op = o.op, t.writes = o.writes, t.testcase_count = c
          PROVE  DeletesRowsAt(t, k - 1)
        <3>1. HasShifted(t)
            BY <1>7, <2>3 DEF HasShifted
        <3>2. DeletesRowAt(t, 4)
            BY <2>1, <2>3, <3>1 DEF DeletesRowAt
        <3>3. k - 1 = 4
            BY <1>6
        <3>. QED
            BY <1>6, <2>3, <3>2, <3>3, DeletesOne
    <2>4. k > 1
        BY <1>6
    <2>. QED
        BY <1>1, <1>2, <1>4, <2>2, <2>3, <2>4, CountDeletes
<1>. QED
    BY <1>8, <1>9

LEMMA IncreaseCountDeletes ==
    ASSUME KInv, NEW s \in Session, ~KeepsTestcases(tx[s].op), IncreaseCount(s)
    PROVE  ListInvariant'
<1>1. PICK o : o = tx[s]
    OBVIOUS
<1>2. o # Null /\ Head(o.todo) = "increase_count"
    BY <1>1 DEF IncreaseCount, Runs
<1>3. /\ o.op \in Operation /\ Remains(o) /\ DeletesRows(o)
      /\ o.op.kind = "delete" \/ ReplacesAll(o.op)
    BY <1>1, <1>2, DeletingTransaction
<1>4. PICK k \in Nat : k = Len(o.todo)
    BY <1>3, PositionOfStatement
<1>5. PICK n \in Nat : n = NewLength(o.op)
    BY <1>3, NewLengthType
<1>6. ReplacesAll(o.op) /\ \E i \in 1 .. n : k = 4 + 2 * i
    BY <1>2, <1>3, <1>4, <1>5, DeletingStatement
<1>7. PICK i \in 1 .. n : k = 4 + 2 * i
    BY <1>6
<1>8. HasCleared(o) /\ HasWritten(o, n - i) /\ CountIn(o) = n - i
    <2>1. ReplacesRowsAt(o, k, n)
        BY <1>3, <1>4, <1>5, <1>6, DeletesEvery DEF DeletesRows
    <2>2. k <= 5 + 2 * n
        BY <1>7
    <2>. QED
        BY <1>7, <2>1, <2>2 DEF ReplacesRowsAt
<1>9. PICK c \in Nat : c = n - i + 1
    BY <1>7
<1>10. SetCount(s, c)
    BY <1>1, <1>8, <1>9 DEF IncreaseCount, LatestCount, CountIn
<1>11. k - 1 = 3 + 2 * i /\ k > 1
    BY <1>7
<1>12. ASSUME NEW t, t.op = o.op, t.writes = o.writes, t.testcase_count = c
       PROVE  DeletesRowsAt(t, k - 1)
    <2>1. CountIn(t) = n - i + 1
        BY <1>9, <1>12, NullAssumption DEF CountIn
    <2>2. HasCleared(t) /\ HasWritten(t, n - i)
        BY <1>8, <1>12 DEF HasCleared, HasWritten
    <2>3. /\ ~(3 + 2 * i > 5 + 2 * n) /\ ~(3 + 2 * i > 4 + 2 * n) /\ 3 + 2 * i # 5 + 2 * n
          /\ ~(3 + 2 * i <= 4)
          /\ \A j \in 1 .. n : 3 + 2 * i # 4 + 2 * j
          /\ \A j \in 1 .. n : 3 + 2 * i = 3 + 2 * j => j = i
        BY <1>7
    <2>4. ReplacesRowsAt(t, 3 + 2 * i, n)
        BY <2>1, <2>2, <2>3 DEF ReplacesRowsAt
    <2>. QED
        BY <1>5, <1>6, <1>11, <1>12, <2>4, DeletesEvery
<1>. QED
    BY <1>1, <1>2, <1>4, <1>10, <1>11, <1>12, CountDeletes

LEMMA FirstNumbersCount ==
    ASSUME NEW n \in Nat
    PROVE  IsFiniteSet(1 .. n) /\ Cardinality(1 .. n) = n
BY FS_Interval

LEMMA OddOrEven ==
    ASSUME NEW i \in Nat, NEW j \in 1 .. 2 * i - 1
    PROVE  (\E b \in 1 .. i : j = 2 * b - 1) \/ (\E b \in 1 .. i - 1 : j = 2 * b)
<1>1. PICK b \in Nat : b = (j + 1) \div 2
    OBVIOUS
<1>2. j = 2 * b - 1 \/ j = 2 * b
    BY <1>1
<1>. QED
    BY <1>2

(* With i testcases left, an insert brings the one that comes next.        *)
LEMMA ContentInserted ==
    ASSUME NEW t, t.op \in Operation, Remains(t), ReplacesAll(t.op),
           NEW n \in Nat, NewLength(t.op) = n, NEW i \in 1 .. n, Len(t.todo) = 3 + 2 * i
    PROVE  InsertedContent(t) = t.op.contents[n - i + 1]
<1>. DEFINE left == {j \in DOMAIN t.todo : t.todo[j] = "insert"}
<1>1. PICK E : E = Edits(t.op)
    OBVIOUS
<1>2. PICK S : S = Statements(t.op)
    OBVIOUS
<1>3. /\ Len(E) = 3 + 2 * n
      /\ \A m \in 0 .. n - 1 : E[4 + 2 * m] = "increase_count" /\ E[5 + 2 * m] = "insert"
    BY <1>1, DeletingEditsType
<1>4. PICK k \in Nat : k = 3 + 2 * i
    OBVIOUS
<1>5. PICK e \in Nat : e = 3 + 2 * n
    OBVIOUS
<1>6. \A j \in 1 .. k : t.todo[j] = S[e + 4 - k + j]
    BY <1>1, <1>2, <1>3, <1>4, <1>5, NextStatement
<1>7. \A j \in 1 .. k : t.todo[j] = S[4 + 2 * n - 2 * i + j]
    BY <1>4, <1>5, <1>6
<1>8. DOMAIN t.todo = 1 .. k
    BY <1>4 DEF Remains, IsEndOf
<1>9. /\ \A j \in 1 .. 3 + 2 * n : S[j] = E[j]
      /\ S[4 + 2 * n] = "increase_version" /\ S[5 + 2 * n] = "read_manifest"
      /\ S[6 + 2 * n] = "publish" /\ S[7 + 2 * n] = "commit"
    <2>1. PICK m : m = Len(S)
        OBVIOUS
    <2>2. t.op \in Request
        BY OperationAssumption
    <2>3. m = Len(E) + 4
        BY <1>1, <1>2, <2>1, <2>2, StatementsType
    <2>4. m = 7 + 2 * n
        BY <1>3, <2>3
    <2>5. /\ \A j \in 1 .. m - 4 : S[j] = E[j]
          /\ S[m - 3] = "increase_version" /\ S[m - 2] = "read_manifest"
          /\ S[m - 1] = "publish" /\ S[m] = "commit"
        <3>1. m = Len(Statements(t.op))
            BY <1>2, <2>1
        <3>2. \A j \in 1 .. m - 4 : Statements(t.op)[j] = Edits(t.op)[j]
            <4>1. \A j \in 1 .. m - 4 :
                    /\ Statements(t.op)[j] = Edits(t.op)[j]
                    /\ Statements(t.op)[j] \in EditStatement
                BY <2>2, <3>1, StatementsType, Zenon
            <4>. QED
                BY <4>1, Zenon
        <3>3. /\ Statements(t.op)[m - 3] = "increase_version"
              /\ Statements(t.op)[m - 2] = "read_manifest"
              /\ Statements(t.op)[m - 1] = "publish" /\ Statements(t.op)[m] = "commit"
            BY <2>2, <3>1, StatementsType
        <3>. QED
            BY <1>1, <1>2, <3>2, <3>3, Zenon
    <2>6. m - 4 = 3 + 2 * n /\ m - 3 = 4 + 2 * n /\ m - 2 = 5 + 2 * n /\ m - 1 = 6 + 2 * n
        BY <2>4
    <2>. QED
        BY <2>4, <2>5, <2>6
<1>10. ASSUME NEW b \in 1 .. i
       PROVE  2 * b - 1 \in left
    <2>1. PICK m \in 0 .. n - 1 : m = n - i + b - 1
        OBVIOUS
    <2>2. 2 * b - 1 \in 1 .. k /\ 4 + 2 * n - 2 * i + (2 * b - 1) = 5 + 2 * m
          /\ 5 + 2 * m \in 1 .. 3 + 2 * n
        BY <1>4, <2>1
    <2>3. t.todo[2 * b - 1] = "insert"
        <3>1. PICK x : x = 5 + 2 * m
            OBVIOUS
        <3>2. t.todo[2 * b - 1] = S[x]
            BY <1>7, <2>2, <3>1, Zenon
        <3>3. S[x] = E[x] /\ E[x] = "insert"
            BY <1>3, <1>9, <2>2, <3>1, Zenon
        <3>. QED
            BY <3>2, <3>3
    <2>. QED
        BY <1>8, <2>2, <2>3
<1>11. ASSUME NEW j \in left
       PROVE  \E b \in 1 .. i : j = 2 * b - 1
    <2>1. j \in 1 .. k /\ t.todo[j] = "insert"
        BY <1>8
    <2>2. CASE j >= 2 * i
        <3>1. j = 2 * i \/ j = 2 * i + 1 \/ j = 2 * i + 2 \/ j = 2 * i + 3
            BY <1>4, <2>1, <2>2
        <3>2. \/ 4 + 2 * n - 2 * i + j = 4 + 2 * n
              \/ 4 + 2 * n - 2 * i + j = 5 + 2 * n
              \/ 4 + 2 * n - 2 * i + j = 6 + 2 * n
              \/ 4 + 2 * n - 2 * i + j = 7 + 2 * n
            BY <3>1
        <3>3. t.todo[j] \in {"increase_version", "read_manifest", "publish", "commit"}
            BY <1>7, <1>9, <2>1, <3>2
        <3>. QED
            BY <2>1, <3>3
    <2>3. CASE j < 2 * i
        <3>1. j \in 1 .. 2 * i - 1 /\ i \in Nat
            BY <2>1, <2>3
        <3>2. ASSUME NEW b \in 1 .. i - 1, j = 2 * b
              PROVE  FALSE
            <4>1. PICK m \in 0 .. n - 1 : m = n - i + b
                OBVIOUS
            <4>2. 4 + 2 * n - 2 * i + j = 4 + 2 * m /\ 4 + 2 * m \in 1 .. 3 + 2 * n
                BY <3>2, <4>1
            <4>3. t.todo[j] = "increase_count"
                <5>1. PICK x : x = 4 + 2 * m
                    OBVIOUS
                <5>2. t.todo[j] = S[x]
                    BY <1>7, <2>1, <4>2, <5>1, Zenon
                <5>3. S[x] = E[x] /\ E[x] = "increase_count"
                    BY <1>3, <1>9, <4>1, <4>2, <5>1, Zenon
                <5>. QED
                    BY <5>2, <5>3
            <4>. QED
                BY <2>1, <4>3
        <3>. QED
            BY <3>1, <3>2, OddOrEven
    <2>. QED
        BY <2>1, <2>2, <2>3
<1>. HIDE DEF left
<1>12. Cardinality(left) = i
    <2>1. PICK place : place = [b \in 1 .. i |-> 2 * b - 1]
        OBVIOUS
    <2>2. place \in Injection(1 .. i, left) /\ place \in Surjection(1 .. i, left)
        <3>1. place \in [1 .. i -> left]
            BY <1>10, <2>1
        <3>2. \A j \in left : \E b \in 1 .. i : place[b] = j
            BY <1>11, <2>1
        <3>3. \A a, b \in 1 .. i : place[a] = place[b] => a = b
            BY <2>1
        <3>. QED
            BY <3>1, <3>2, <3>3, Zenon DEF Injection, Surjection, IsInjective
    <2>3. IsFiniteSet(1 .. i) /\ Cardinality(1 .. i) = i
        <3>1. i \in Nat
            OBVIOUS
        <3>. QED
            BY <3>1, FirstNumbersCount, Zenon
    <2>. QED
        BY <2>2, <2>3, FS_Surjection
<1>13. Len(t.op.contents) = n
    <2>1. t.op.kind = "replace"
        BY NewTestcases
    <2>. QED
        BY <2>1 DEF NewLength, WrittenAnew
<1>. QED
    BY <1>12, <1>13 DEF InsertedContent, left

(* One more testcase of a replacement is written.                          *)
LEMMA OneMoreWritten ==
    ASSUME NEW o, NEW t, t.op = o.op, NEW j \in Nat, HasWritten(o, j),
           NEW id, id \notin DOMAIN testcases, id \notin DOMAIN o.writes,
           DOMAIN t.writes = {id} \cup DOMAIN o.writes,
           t.writes[id] = [order |-> j + 1, content |-> o.op.contents[j + 1]],
           \A r \in DOMAIN o.writes : t.writes[r] = o.writes[r]
    PROVE  HasWritten(t, j + 1)
<1>. DEFINE new(i) == [order |-> i, content |-> o.op.contents[i]]
<1>1. {o.writes[r] : r \in DOMAIN o.writes \ DOMAIN testcases} = {new(i) : i \in 1 .. j}
    BY DEF HasWritten
<1>2. {t.writes[r] : r \in DOMAIN t.writes \ DOMAIN testcases} =
        {o.writes[r] : r \in DOMAIN o.writes \ DOMAIN testcases} \cup {t.writes[id]}
    OBVIOUS
<1>3. 1 .. j + 1 = (1 .. j) \cup {j + 1}
    OBVIOUS
<1>4. {new(i) : i \in 1 .. j + 1} = {new(i) : i \in 1 .. j} \cup {new(j + 1)}
    BY <1>3
<1>5. {t.writes[r] : r \in DOMAIN t.writes \ DOMAIN testcases} = {new(i) : i \in 1 .. j + 1}
    BY <1>1, <1>2, <1>4
<1>. QED
    BY <1>5 DEF HasWritten

LEMMA InsertDeletes ==
    ASSUME KInv, NEW s \in Session, ~KeepsTestcases(tx[s].op), Insert(s)
    PROVE  ListInvariant'
<1>1. PICK o : o = tx[s]
    OBVIOUS
<1>2. o # Null /\ Head(o.todo) = "insert" /\ FreshRows # {}
    BY <1>1 DEF Insert, Runs
<1>3. /\ HasItsFields(o) /\ o.op \in Operation /\ Remains(o) /\ DeletesRows(o)
      /\ o.op.kind = "delete" \/ ReplacesAll(o.op)
    BY <1>1, <1>2, DeletingTransaction
<1>4. PICK k \in Nat : k = Len(o.todo)
    BY <1>3, PositionOfStatement
<1>5. PICK n \in Nat : n = NewLength(o.op)
    BY <1>3, NewLengthType
<1>6. ReplacesAll(o.op) /\ \E i \in 1 .. n : k = 3 + 2 * i
    BY <1>2, <1>3, <1>4, <1>5, DeletingStatement
<1>7. PICK i \in 1 .. n : k = 3 + 2 * i
    BY <1>6
<1>8. HasCleared(o) /\ HasWritten(o, n - i) /\ CountIn(o) = n - i + 1
    <2>1. ReplacesRowsAt(o, k, n)
        BY <1>3, <1>4, <1>5, <1>6, DeletesEvery DEF DeletesRows
    <2>2. k <= 5 + 2 * n
        BY <1>7
    <2>. QED
        BY <1>7, <2>1, <2>2 DEF ReplacesRowsAt
<1>9. o.testcase_count = n - i + 1
    <2>1. o.testcase_count \in Nat
        BY <1>1, <1>2 DEF KInv, TypeInvariant, Typed
    <2>2. o.testcase_count # Null
        BY <2>1, NullAssumption
    <2>. QED
        BY <1>8, <2>2 DEF CountIn
<1>10. CASE RollBack(s)
    BY <1>10, RollBackKeeps
<1>11. CASE ~RollBack(s)
    <2>. DEFINE id == CHOOSE r \in FreshRows : TRUE
                row == [order |-> o.testcase_count, content |-> InsertedContent(o)]
                written == [r \in {id} \cup DOMAIN o.writes |-> IF r = id THEN row ELSE o.writes[r]]
    <2>1. Done(s, [o EXCEPT !.writes = written])
        BY <1>1, <1>11 DEF Insert
    <2>2. id \in FreshRows
        BY <1>2
    <2>3. InsertedContent(o) = o.op.contents[n - i + 1]
        BY <1>3, <1>4, <1>5, <1>6, <1>7, ContentInserted
    <2>. HIDE DEF id
    <2>4. id \notin DOMAIN testcases /\ id \notin DOMAIN o.writes
        BY <1>1, <1>2, <2>2 DEF FreshRows
    <2>5. /\ DOMAIN written = {id} \cup DOMAIN o.writes
          /\ written[id] = [order |-> n - i + 1, content |-> o.op.contents[n - i + 1]]
          /\ \A r \in DOMAIN o.writes : written[r] = o.writes[r]
        BY <1>9, <2>3, <2>4
    <2>. HIDE DEF written
    <2>6. PICK t : t = [o EXCEPT !.writes = written]
        OBVIOUS
    <2>7. /\ HasItsFields(t) /\ t.op = o.op /\ t.todo = o.todo /\ t.writes = written
          /\ t.testcase_count = o.testcase_count
        BY <1>3, <2>6 DEF HasItsFields
    <2>8. HasWritten(t, n - i + 1)
        <3>1. PICK j \in Nat : j = n - i
            OBVIOUS
        <3>2. HasWritten(o, j)
            BY <1>8, <3>1
        <3>3. t.writes[id] = [order |-> j + 1, content |-> o.op.contents[j + 1]]
            BY <2>5, <2>7, <3>1
        <3>4. HasWritten(t, j + 1)
            BY <2>4, <2>5, <2>7, <3>2, <3>3, OneMoreWritten
        <3>. QED
            BY <3>1, <3>4
    <2>9. HasCleared(t)
        BY <1>8, <2>5, <2>7 DEF HasCleared
    <2>10. CountIn(t) = n - i + 1
        BY <1>8, <2>7 DEF CountIn
    <2>11. /\ ~(2 + 2 * i > 5 + 2 * n) /\ ~(2 + 2 * i > 4 + 2 * n) /\ 2 + 2 * i # 5 + 2 * n
           /\ 2 + 2 * i <= 4 => n - i + 1 = n
           /\ \A j \in 1 .. n : 2 + 2 * i = 4 + 2 * j => n - j = n - i + 1
           /\ \A j \in 1 .. n : 2 + 2 * i # 3 + 2 * j
        BY <1>7
    <2>12. ReplacesRowsAt(t, 2 + 2 * i, n)
        BY <2>8, <2>9, <2>10, <2>11 DEF ReplacesRowsAt
    <2>13. k - 1 = 2 + 2 * i /\ k > 1
        BY <1>7
    <2>14. DeletesRowsAt(t, k - 1)
        BY <1>5, <1>6, <2>7, <2>12, <2>13, DeletesEvery
    <2>15. Remains(t) /\ Len(t.todo) = k
        BY <1>3, <1>4, <2>7 DEF Remains
    <2>16. Done(s, t)
        BY <2>1, <2>6
    <2>. QED
        BY <1>1, <1>2, <2>7, <2>13, <2>14, <2>15, <2>16, DeleteStep
<1>. QED
    BY <1>10, <1>11

(* A statement of the publication is done.                                 *)
LEMMA NothingDeletes ==
    ASSUME KInv, NEW s \in Session, ~KeepsTestcases(tx[s].op), tx[s] # Null,
           NEW t, Done(s, t), HasItsFields(t),
           t.op = tx[s].op, t.todo = tx[s].todo,
           t.writes = tx[s].writes, t.testcase_count = tx[s].testcase_count,
           Head(t.todo) \in {"increase_version", "read_manifest", "publish"}
    PROVE  ListInvariant'
<1>1. PICK o : o = tx[s]
    OBVIOUS
<1>2. /\ o.op \in Operation /\ Remains(o) /\ DeletesRows(o)
      /\ o.op.kind = "delete" \/ ReplacesAll(o.op)
    BY <1>1, DeletingTransaction
<1>3. t.op \in Operation /\ Remains(t)
    BY <1>1, <1>2 DEF Remains
<1>8. PICK j \in 1 .. 3 : Len(t.todo) = j + 1
    BY <1>3, PositionOfStatement
<1>4. PICK k \in Nat : k = j + 1
    OBVIOUS
<1>9. k \in Nat /\ k > 1 /\ Len(t.todo) = k /\ j = k - 1
    BY <1>4, <1>8
<1>5. DeletesRowsAt(t, k)
    <2>1. DeletesRowsAt(o, k)
        BY <1>1, <1>2, <1>9 DEF DeletesRows
    <2>. QED
        BY <1>1, <2>1, RowsOfTransaction
<1>6. CASE t.op.kind = "delete"
    <2>1. DeletesRowAt(t, k)
        BY <1>5, <1>6, DeletesOne
    <2>2. k <= 5 /\ k <= 4 /\ ~(j > 6) /\ j # 6 /\ ~(j > 4)
        BY <1>4
    <2>3. DeletesRowAt(t, j)
        BY <2>1, <2>2 DEF DeletesRowAt
    <2>4. DeletesRowsAt(t, k - 1)
        BY <1>6, <1>9, <2>3, DeletesOne
    <2>. QED
        BY <1>3, <1>9, <2>4, DeleteStep
<1>7. CASE ReplacesAll(t.op)
    <2>1. PICK n \in Nat : n = NewLength(t.op)
        BY <1>3, NewLengthType
    <2>2. ReplacesRowsAt(t, k, n)
        BY <1>5, <1>7, <2>1, DeletesEvery
    <2>4. /\ k <= 5 + 2 * n /\ k <= 4 /\ j <= 4
          /\ ~(j > 5 + 2 * n) /\ ~(j > 4 + 2 * n) /\ j # 5 + 2 * n
          /\ \A i \in 1 .. n : j # 4 + 2 * i /\ j # 3 + 2 * i
        BY <1>4, <2>1
    <2>5. ReplacesRowsAt(t, j, n)
        BY <2>2, <2>4 DEF ReplacesRowsAt
    <2>6. DeletesRowsAt(t, k - 1)
        BY <1>7, <1>9, <2>1, <2>5, DeletesEvery
    <2>. QED
        BY <1>3, <1>9, <2>6, DeleteStep
<1>. QED
    BY <1>1, <1>2, <1>6, <1>7

-----------------------------------------------------------------------------
(* What a commit leaves behind.                                            *)

(* A move permutes the orders between the two it names.                    *)
LEMMA MovedIsPermutation ==
    ASSUME NEW op \in Operation, op.kind = "move"
    PROVE  /\ Between(op) \subseteq Nat \ {0}
           /\ \A k \in Between(op) : Moved(op, k) \in Between(op)
           /\ \A j \in Between(op) : \E k \in Between(op) : Moved(op, k) = j
<1>1. op.at \in Nat \ {0} /\ op.to \in Nat \ {0} /\ op.at # op.to
    BY OperationAssumption DEF Request
<1>2. PICK a \in Nat \ {0}, b \in Nat \ {0} : a = op.at /\ b = op.to
    BY <1>1
<1>3. CASE a < b
    <2>1. Between(op) = a .. b
        BY <1>2, <1>3 DEF Between, Lowest, Highest
    <2>2. \A k \in a .. b : Moved(op, k) = IF k = a THEN b ELSE k - 1
        BY <1>2 DEF Moved
    <2>3. ASSUME NEW j \in a .. b
          PROVE  \E k \in a .. b : Moved(op, k) = j
        <3>1. CASE j = b
            BY <1>3, <2>2, <3>1
        <3>2. CASE j # b
            <4>1. j + 1 \in a .. b /\ Moved(op, j + 1) = j
                BY <2>2, <3>2
            <4>. QED
                BY <4>1
        <3>. QED
            BY <3>1, <3>2
    <2>4. \A k \in a .. b : Moved(op, k) \in a .. b
        BY <1>3, <2>2
    <2>5. a .. b \subseteq Nat \ {0}
        OBVIOUS
    <2>. QED
        BY <2>1, <2>3, <2>4, <2>5, Zenon
<1>4. CASE b < a
    <2>1. Between(op) = b .. a
        BY <1>2, <1>4 DEF Between, Lowest, Highest
    <2>2. \A k \in b .. a : Moved(op, k) = IF k = a THEN b ELSE k + 1
        BY <1>2 DEF Moved
    <2>3. ASSUME NEW j \in b .. a
          PROVE  \E k \in b .. a : Moved(op, k) = j
        <3>1. CASE j = b
            BY <1>4, <2>2, <3>1
        <3>2. CASE j # b
            <4>1. j - 1 \in b .. a /\ Moved(op, j - 1) = j
                BY <2>2, <3>2
            <4>. QED
                BY <4>1
        <3>. QED
            BY <3>1, <3>2
    <2>4. \A k \in b .. a : Moved(op, k) \in b .. a
        BY <1>4, <2>2
    <2>5. b .. a \subseteq Nat \ {0}
        OBVIOUS
    <2>. QED
        BY <2>1, <2>3, <2>4, <2>5, Zenon
<1>. QED
    BY <1>1, <1>2, <1>3, <1>4

(* The rows that t commits are testcases.                                  *)
LEMMA CommittedView ==
    ASSUME KInv, NEW s \in Session, KeepsTestcases(tx[s].op), tx[s] # Null, Len(tx[s].todo) = 1,
           NEW t, t = tx[s]
    PROVE  /\ \A r \in DOMAIN t.writes : t.writes[r] \in Testcase
           /\ DOMAIN View(s) = DOMAIN testcases \cup DOMAIN t.writes
           /\ \A r \in DOMAIN t.writes : View(s)[r] = t.writes[r]
           /\ \A r \in DOMAIN testcases : r \notin DOMAIN t.writes => View(s)[r] = testcases[r]
<1>1. t.op \in Operation /\ KeepsTestcases(t.op) /\ KeepsRowsAt(t, 1)
    BY KeepingTransaction DEF KeepsRows
<1>2. /\ t.op.kind = "create" => Inserted(t)
      /\ t.op.kind = "set" => Replaced(t)
      /\ t.op.kind = "move" => HasMoved(t)
      /\ t.op.kind = "edit" => DOMAIN t.writes = {}
    BY <1>1 DEF KeepsRowsAt
<1>3. /\ testcase_count \in Nat
      /\ \A r \in DOMAIN testcases :
            /\ testcases[r] = [order |-> testcases[r].order, content |-> testcases[r].content]
            /\ testcases[r].order \in Nat \ {0} /\ testcases[r].content \in Content
    BY DEF KInv, TypeInvariant, Testcase
<1>4. t.op.kind \in {"create", "set"} => t.op.contents[1] \in Content
    <2>1. t.op.contents \in Seq(Content)
        BY <1>1, OperationAssumption DEF Request
    <2>2. t.op.kind \in {"create", "set"} => Len(t.op.contents) = 1
        BY <1>1, OperationAssumption
    <2>. QED
        BY <2>1, <2>2, ElementOfSeq
<1>5. ASSUME NEW r \in DOMAIN t.writes
      PROVE  t.writes[r] \in Testcase
    <2>1. CASE t.op.kind = "create"
        <3>1. t.writes[r] = [order |-> testcase_count + 1, content |-> t.op.contents[1]]
            BY <1>2, <2>1 DEF Inserted
        <3>. QED
            BY <1>3, <1>4, <2>1, <3>1 DEF Testcase
    <2>2. CASE t.op.kind = "set"
        <3>1. /\ r \in DOMAIN testcases
              /\ t.writes[r] = [testcases[r] EXCEPT !.content = t.op.contents[1]]
            BY <1>2, <2>2 DEF Replaced
        <3>. QED
            BY <1>3, <1>4, <2>2, <3>1 DEF Testcase
    <2>3. CASE t.op.kind = "move"
        <3>1. /\ r \in DOMAIN testcases
              /\ testcases[r].order \in Between(t.op)
              /\ t.writes[r] = [testcases[r] EXCEPT !.order = Moved(t.op, @)]
            BY <1>2, <2>3 DEF HasMoved
        <3>2. Moved(t.op, testcases[r].order) \in Nat \ {0}
            BY <1>1, <2>3, <3>1, MovedIsPermutation
        <3>. QED
            BY <1>3, <3>1, <3>2 DEF Testcase
    <2>4. CASE t.op.kind = "edit"
        BY <1>2, <2>4
    <2>. QED
        BY <1>1, <2>1, <2>2, <2>3, <2>4 DEF KeepsTestcases
<1>6. \A r \in DOMAIN t.writes : t.writes[r] # Null
    BY <1>5, NullAssumption
<1>. QED
    BY <1>5, <1>6 DEF View

LEMMA CommittedCreate ==
    ASSUME KInv, NEW s \in Session, KeepsTestcases(tx[s].op), tx[s] # Null, Len(tx[s].todo) = 1,
           NEW t, t = tx[s], t.op.kind = "create"
    PROVE  /\ t.testcase_count = testcase_count + 1
           /\ \E r \in Row \ DOMAIN testcases :
                /\ DOMAIN t.writes = {r}
                /\ DOMAIN View(s) = DOMAIN testcases \cup {r}
                /\ View(s)[r] = [order |-> testcase_count + 1, content |-> t.op.contents[1]]
                /\ \A q \in DOMAIN testcases : View(s)[q] = testcases[q]
<1>1. KeepsRowsAt(t, 1)
    BY KeepingTransaction DEF KeepsRows
<1>2. Inserted(t) /\ t.testcase_count = testcase_count + 1
    BY <1>1 DEF KeepsRowsAt
<1>3. /\ DOMAIN View(s) = DOMAIN testcases \cup DOMAIN t.writes
      /\ \A q \in DOMAIN t.writes : View(s)[q] = t.writes[q]
      /\ \A q \in DOMAIN testcases : q \notin DOMAIN t.writes => View(s)[q] = testcases[q]
    BY CommittedView
<1>. QED
    BY <1>2, <1>3 DEF Inserted

LEMMA CommittedSet ==
    ASSUME KInv, NEW s \in Session, KeepsTestcases(tx[s].op), tx[s] # Null, Len(tx[s].todo) = 1,
           NEW t, t = tx[s], t.op.kind = "set"
    PROVE  \E r \in DOMAIN testcases :
            /\ testcases[r].order = t.op.at
            /\ DOMAIN t.writes = {r}
            /\ DOMAIN View(s) = DOMAIN testcases
            /\ View(s)[r].order = t.op.at
            /\ View(s)[r].content = t.op.contents[1]
            /\ \A q \in DOMAIN testcases \ {r} : View(s)[q] = testcases[q]
<1>1. KeepsRowsAt(t, 1)
    BY KeepingTransaction DEF KeepsRows
<1>2. PICK r \in DOMAIN testcases :
        /\ DOMAIN t.writes = {r}
        /\ testcases[r].order = t.op.at
        /\ t.writes[r] = [testcases[r] EXCEPT !.content = t.op.contents[1]]
    BY <1>1 DEF KeepsRowsAt, Replaced
<1>3. /\ DOMAIN View(s) = DOMAIN testcases \cup DOMAIN t.writes
      /\ \A q \in DOMAIN t.writes : View(s)[q] = t.writes[q]
      /\ \A q \in DOMAIN testcases : q \notin DOMAIN t.writes => View(s)[q] = testcases[q]
    BY CommittedView
<1>4. testcases[r] = [order |-> testcases[r].order, content |-> testcases[r].content]
    BY DEF KInv, TypeInvariant, Testcase
<1>5. View(s)[r] = [order |-> testcases[r].order, content |-> t.op.contents[1]]
    BY <1>2, <1>3, <1>4
<1>. QED
    BY <1>2, <1>3, <1>5

LEMMA CommittedMove ==
    ASSUME KInv, NEW s \in Session, KeepsTestcases(tx[s].op), tx[s] # Null, Len(tx[s].todo) = 1,
           NEW t, t = tx[s], t.op.kind = "move"
    PROVE  /\ DOMAIN View(s) = DOMAIN testcases
           /\ DOMAIN t.writes \subseteq DOMAIN testcases
           /\ Between(t.op) \subseteq 1 .. testcase_count
           /\ \A r \in DOMAIN testcases :
                /\ View(s)[r].content = testcases[r].content
                /\ View(s)[r].order =
                    IF testcases[r].order \in Between(t.op)
                    THEN Moved(t.op, testcases[r].order)
                    ELSE testcases[r].order
<1>1. KeepsRowsAt(t, 1)
    BY KeepingTransaction DEF KeepsRows
<1>2. HasMoved(t)
    BY <1>1 DEF KeepsRowsAt
<1>3. /\ DOMAIN View(s) = DOMAIN testcases \cup DOMAIN t.writes
      /\ \A q \in DOMAIN t.writes : View(s)[q] = t.writes[q]
      /\ \A q \in DOMAIN testcases : q \notin DOMAIN t.writes => View(s)[q] = testcases[q]
    BY CommittedView
<1>4. \A r \in DOMAIN testcases :
        testcases[r] = [order |-> testcases[r].order, content |-> testcases[r].content]
    BY DEF KInv, TypeInvariant, Testcase
<1>5. OrdersAreUnique(testcases) /\ OrdersOf(testcases) = 1 .. testcase_count
    BY DEF KInv, ListInvariant
<1>6. \A r \in DOMAIN testcases : r \in DOMAIN t.writes <=> testcases[r].order \in Between(t.op)
    BY <1>2, <1>5 DEF HasMoved, OrdersAreUnique
<1>7. Between(t.op) \subseteq 1 .. testcase_count
    BY <1>2, <1>5 DEF HasMoved, OrdersOf
<1>8. ASSUME NEW r \in DOMAIN testcases, r \in DOMAIN t.writes
      PROVE  View(s)[r] = [order |-> Moved(t.op, testcases[r].order),
                           content |-> testcases[r].content]
    BY <1>2, <1>3, <1>4, <1>8 DEF HasMoved
<1>9. \A r \in DOMAIN testcases : r \notin DOMAIN t.writes => View(s)[r] = testcases[r]
    BY <1>3
<1>10. DOMAIN t.writes \subseteq DOMAIN testcases
    BY <1>2 DEF HasMoved
<1>11. \A r \in DOMAIN testcases :
        /\ View(s)[r].content = testcases[r].content
        /\ View(s)[r].order =
            IF r \in DOMAIN t.writes THEN Moved(t.op, testcases[r].order) ELSE testcases[r].order
    <2>. SUFFICES ASSUME NEW r \in DOMAIN testcases
                  PROVE  /\ View(s)[r].content = testcases[r].content
                         /\ View(s)[r].order =
                                IF r \in DOMAIN t.writes
                                THEN Moved(t.op, testcases[r].order)
                                ELSE testcases[r].order
        OBVIOUS
    <2>1. CASE r \in DOMAIN t.writes
        <3>1. View(s)[r] = [order |-> Moved(t.op, testcases[r].order),
                            content |-> testcases[r].content]
            BY <1>8, <2>1, Zenon
        <3>. QED
            BY <2>1, <3>1
    <2>2. CASE r \notin DOMAIN t.writes
        BY <1>9, <2>2
    <2>. QED
        BY <2>1, <2>2
<1>. QED
    BY <1>3, <1>6, <1>7, <1>10, <1>11

LEMMA CommittedEdit ==
    ASSUME KInv, NEW s \in Session, KeepsTestcases(tx[s].op), tx[s] # Null, Len(tx[s].todo) = 1,
           NEW t, t = tx[s], t.op.kind = "edit"
    PROVE  /\ DOMAIN View(s) = DOMAIN testcases /\ DOMAIN t.writes = {}
           /\ \A r \in DOMAIN testcases : View(s)[r] = testcases[r]
<1>1. KeepsRowsAt(t, 1)
    BY KeepingTransaction DEF KeepsRows
<1>2. DOMAIN t.writes = {}
    BY <1>1 DEF KeepsRowsAt
<1>. QED
    BY <1>2, ViewOfNothing

LEMMA CommittedDelete ==
    ASSUME KInv, NEW s \in Session, tx[s] # Null, Len(tx[s].todo) = 1,
           NEW t, t = tx[s], t.op.kind = "delete"
    PROVE  /\ t.testcase_count = testcase_count - 1
           /\ \E r \in DOMAIN testcases :
                /\ testcases[r].order = t.op.at
                /\ DOMAIN View(s) = DOMAIN testcases \ {r}
                /\ \A q \in DOMAIN View(s) :
                    /\ View(s)[q].content = testcases[q].content
                    /\ View(s)[q].order =
                        IF testcases[q].order > t.op.at
                        THEN testcases[q].order - 1
                        ELSE testcases[q].order
<1>1. ~KeepsTestcases(t.op)
    BY DEF KeepsTestcases
<1>2. t.op \in Operation /\ DeletesRowsAt(t, 1)
    BY <1>1, DeletingTransaction DEF DeletesRows
<1>3. HasShifted(t) /\ t.testcase_count = testcase_count - 1
    BY <1>2 DEF DeletesRowsAt, DeletesRowAt
<1>4. PICK r \in DOMAIN testcases :
        /\ DOMAIN t.writes = {r} \cup Behind(t.op)
        /\ testcases[r].order = t.op.at
        /\ t.writes[r] = Null
        /\ \A q \in Behind(t.op) : t.writes[q] = [testcases[q] EXCEPT !.order = @ - 1]
    BY <1>3 DEF HasShifted
<1>5. t.op.at \in Nat \ {0}
    BY <1>2, OperationAssumption DEF Request
<1>6. ASSUME NEW q \in Behind(t.op)
      PROVE  /\ t.writes[q] = [order |-> testcases[q].order - 1, content |-> testcases[q].content]
             /\ t.writes[q] # Null
    <2>1. /\ q \in DOMAIN testcases /\ testcases[q].order > t.op.at
          /\ testcases[q] = [order |-> testcases[q].order, content |-> testcases[q].content]
          /\ testcases[q].order \in Nat /\ testcases[q].content \in Content
        BY DEF Behind, KInv, TypeInvariant, Testcase
    <2>2. t.writes[q] = [order |-> testcases[q].order - 1, content |-> testcases[q].content]
        BY <1>4, <2>1
    <2>3. testcases[q].order - 1 \in Nat \ {0}
        BY <1>5, <2>1
    <2>4. t.writes[q] \in Testcase
        BY <2>1, <2>2, <2>3 DEF Testcase
    <2>. QED
        BY <2>2, <2>4, NullAssumption
<1>7. r \notin Behind(t.op)
    BY <1>4, <1>5 DEF Behind
<1>8. /\ DOMAIN View(s) = DOMAIN testcases \ {r}
      /\ \A q \in DOMAIN View(s) :
            View(s)[q] = IF q \in Behind(t.op) THEN t.writes[q] ELSE testcases[q]
    <2>1. {q \in DOMAIN t.writes : t.writes[q] = Null} = {r}
        BY <1>4, <1>6
    <2>2. (DOMAIN testcases \cup DOMAIN t.writes) \ {r} = DOMAIN testcases \ {r}
        BY <1>4 DEF Behind
    <2>. QED
        BY <1>4, <2>1, <2>2 DEF View
<1>9. ASSUME NEW q \in DOMAIN View(s)
      PROVE  /\ View(s)[q].content = testcases[q].content
             /\ View(s)[q].order =
                    IF testcases[q].order > t.op.at
                    THEN testcases[q].order - 1
                    ELSE testcases[q].order
    <2>1. q \in Behind(t.op) <=> testcases[q].order > t.op.at
        BY <1>8 DEF Behind
    <2>2. CASE q \in Behind(t.op)
        <3>1. View(s)[q] =
                [order |-> testcases[q].order - 1, content |-> testcases[q].content]
            BY <1>6, <1>8, <2>2
        <3>. QED
            BY <2>1, <2>2, <3>1
    <2>3. CASE q \notin Behind(t.op)
        BY <1>8, <2>1, <2>3
    <2>. QED
        BY <2>2, <2>3
<1>. QED
    BY <1>3, <1>4, <1>8, <1>9

LEMMA CommittedReplace ==
    ASSUME KInv, NEW s \in Session, tx[s] # Null, Len(tx[s].todo) = 1,
           NEW t, t = tx[s], ReplacesAll(t.op), NEW n, n = NewLength(t.op)
    PROVE  /\ n \in Nat /\ LatestCount(s) = n
           /\ OrdersOf(View(s)) = 1 .. n
           /\ \A q \in DOMAIN View(s) :
                View(s)[q].content = WrittenAnew(t.op)[View(s)[q].order]
<1>1. ~KeepsTestcases(t.op)
    BY DEF KeepsTestcases, ReplacesAll
<1>2. t.op \in Operation /\ DeletesRowsAt(t, 1)
    BY <1>1, DeletingTransaction DEF DeletesRows
<1>3. /\ n \in Nat
      /\ \A i \in 1 .. n :
            t.op.contents[i] \in Content /\ t.op.contents[i] = WrittenAnew(t.op)[i]
    BY <1>2, NewTestcases
<1>4. HasCleared(t) /\ HasWritten(t, n) /\ CountIn(t) = n
    BY <1>2, <1>3 DEF DeletesRowsAt, ReplacesRowsAt
<1>5. ASSUME NEW r \in DOMAIN t.writes \ DOMAIN testcases
      PROVE  \E i \in 1 .. n : t.writes[r] = [order |-> i, content |-> t.op.contents[i]]
    BY <1>4 DEF HasWritten
<1>6. \A r \in DOMAIN t.writes \ DOMAIN testcases : t.writes[r] # Null
    <2>. SUFFICES ASSUME NEW r \in DOMAIN t.writes \ DOMAIN testcases
                  PROVE  t.writes[r] \in Testcase
        BY NullAssumption
    <2>1. PICK i \in 1 .. n : t.writes[r] = [order |-> i, content |-> t.op.contents[i]]
        BY <1>5
    <2>2. i \in Nat \ {0} /\ t.op.contents[i] \in Content
        BY <1>3, <2>1
    <2>. QED
        BY <2>1, <2>2 DEF Testcase
<1>7. /\ DOMAIN View(s) = DOMAIN t.writes \ DOMAIN testcases
      /\ \A r \in DOMAIN View(s) : View(s)[r] = t.writes[r]
    <2>1. {r \in DOMAIN t.writes : t.writes[r] = Null} = DOMAIN testcases
        BY <1>4, <1>6 DEF HasCleared
    <2>. QED
        BY <2>1 DEF View
<1>8. OrdersOf(View(s)) = 1 .. n
    <2>1. ASSUME NEW r \in DOMAIN View(s) PROVE View(s)[r].order \in 1 .. n
        <3>1. PICK i \in 1 .. n : View(s)[r] = [order |-> i, content |-> t.op.contents[i]]
            BY <1>5, <1>7
        <3>. QED
            BY <3>1
    <2>2. ASSUME NEW i \in 1 .. n PROVE \E r \in DOMAIN View(s) : View(s)[r].order = i
        <3>1. PICK r \in DOMAIN t.writes \ DOMAIN testcases :
                t.writes[r] = [order |-> i, content |-> t.op.contents[i]]
            BY <1>4 DEF HasWritten
        <3>. QED
            BY <1>7, <3>1
    <2>. QED
        BY <2>1, <2>2 DEF OrdersOf
<1>9. ASSUME NEW q \in DOMAIN View(s)
      PROVE  View(s)[q].content = WrittenAnew(t.op)[View(s)[q].order]
    <2>1. PICK i \in 1 .. n : View(s)[q] = [order |-> i, content |-> t.op.contents[i]]
        BY <1>5, <1>7
    <2>. QED
        BY <1>3, <2>1
<1>10. LatestCount(s) = n
    BY <1>4 DEF LatestCount, CountIn
<1>. QED
    BY <1>3, <1>8, <1>9, <1>10

LEMMA KeptOrders ==
    ASSUME KInv, NEW s \in Session, KeepsTestcases(tx[s].op), tx[s] # Null, Len(tx[s].todo) = 1
    PROVE  /\ LatestCount(s) \in Nat
           /\ Cardinality(DOMAIN View(s)) = LatestCount(s)
           /\ OrdersOf(View(s)) = 1 .. LatestCount(s)
<1>1. PICK t : t = tx[s]
    OBVIOUS
<1>2. /\ testcase_count \in Nat /\ testcase_count = Cardinality(DOMAIN testcases)
      /\ OrdersOf(testcases) = 1 .. testcase_count
      /\ IsFiniteSet(DOMAIN testcases)
    BY DEF KInv, ListInvariant, TypeInvariant, IInv, RowsAreFinite
<1>3. /\ t.op \in Operation /\ KeepsTestcases(t.op)
      /\ t.op.kind # "create" => t.testcase_count = Null
    BY <1>1, KeepingTransaction DEF KeepsRows, KeepsRowsAt
<1>4. CASE t.op.kind = "create"
    <2>1. PICK r \in Row \ DOMAIN testcases :
            /\ t.testcase_count = testcase_count + 1
            /\ DOMAIN View(s) = DOMAIN testcases \cup {r}
            /\ View(s)[r] = [order |-> testcase_count + 1, content |-> t.op.contents[1]]
            /\ \A q \in DOMAIN testcases : View(s)[q] = testcases[q]
        BY <1>1, <1>4, CommittedCreate, Zenon
    <2>2. LatestCount(s) = testcase_count + 1
        BY <1>1, <1>2, <2>1, NullAssumption DEF LatestCount
    <2>3. Cardinality(DOMAIN View(s)) = testcase_count + 1
        BY <1>2, <2>1, FS_AddElement
    <2>4. OrdersOf(View(s)) = OrdersOf(testcases) \cup {testcase_count + 1}
        BY <2>1 DEF OrdersOf
    <2>5. (1 .. testcase_count) \cup {testcase_count + 1} = 1 .. testcase_count + 1
        BY <1>2
    <2>. QED
        BY <1>2, <2>2, <2>3, <2>4, <2>5
<1>5. CASE t.op.kind # "create"
    <2>1. LatestCount(s) = testcase_count
        BY <1>1, <1>3, <1>5 DEF LatestCount
    <2>2. CASE t.op.kind = "set"
        <3>1. /\ DOMAIN View(s) = DOMAIN testcases
              /\ \A r \in DOMAIN testcases : View(s)[r].order = testcases[r].order
            BY <1>1, <2>2, CommittedSet
        <3>2. OrdersOf(View(s)) = OrdersOf(testcases)
            BY <3>1 DEF OrdersOf
        <3>. QED
            BY <1>2, <2>1, <3>1, <3>2
    <2>3. CASE t.op.kind = "edit"
        <3>1. /\ DOMAIN View(s) = DOMAIN testcases
              /\ \A r \in DOMAIN testcases : View(s)[r] = testcases[r]
            BY <1>1, <2>3, CommittedEdit
        <3>2. OrdersOf(View(s)) = OrdersOf(testcases)
            BY <3>1 DEF OrdersOf
        <3>. QED
            BY <1>2, <2>1, <3>1, <3>2
    <2>4. CASE t.op.kind = "move"
        <3>1. /\ DOMAIN View(s) = DOMAIN testcases
              /\ Between(t.op) \subseteq 1 .. testcase_count
              /\ \A r \in DOMAIN testcases :
                    View(s)[r].order =
                        IF testcases[r].order \in Between(t.op)
                        THEN Moved(t.op, testcases[r].order)
                        ELSE testcases[r].order
            BY <1>1, <2>4, CommittedMove
        <3>2. /\ \A k \in Between(t.op) : Moved(t.op, k) \in Between(t.op)
              /\ \A j \in Between(t.op) : \E k \in Between(t.op) : Moved(t.op, k) = j
            BY <1>3, <2>4, MovedIsPermutation
        <3>3. ASSUME NEW r \in DOMAIN View(s)
              PROVE  View(s)[r].order \in 1 .. testcase_count
            <4>1. testcases[r].order \in 1 .. testcase_count
                BY <1>2, <3>1 DEF OrdersOf
            <4>. QED
                BY <3>1, <3>2, <4>1
        <3>4. ASSUME NEW j \in 1 .. testcase_count
              PROVE  \E r \in DOMAIN View(s) : View(s)[r].order = j
            <4>1. PICK k \in 1 .. testcase_count :
                    j = IF k \in Between(t.op) THEN Moved(t.op, k) ELSE k
                BY <3>1, <3>2
            <4>2. PICK r \in DOMAIN testcases : testcases[r].order = k
                BY <1>2 DEF OrdersOf
            <4>. QED
                BY <3>1, <4>1, <4>2
        <3>5. OrdersOf(View(s)) = 1 .. testcase_count
            BY <3>3, <3>4 DEF OrdersOf
        <3>. QED
            BY <1>2, <2>1, <3>1, <3>5
    <2>. QED
        BY <1>3, <1>5, <2>2, <2>3, <2>4 DEF KeepsTestcases
<1>. QED
    BY <1>4, <1>5

(* As many rows as orders.                                                 *)
LEMMA OrdersCount ==
    ASSUME NEW rows, IsFiniteSet(DOMAIN rows), OrdersAreUnique(rows),
           NEW n \in Nat, OrdersOf(rows) = 1 .. n
    PROVE  Cardinality(DOMAIN rows) = n
<1>1. PICK order : order = [r \in DOMAIN rows |-> rows[r].order]
    OBVIOUS
<1>2. order \in Injection(DOMAIN rows, 1 .. n) /\ order \in Surjection(DOMAIN rows, 1 .. n)
    <2>1. order \in [DOMAIN rows -> 1 .. n]
        BY <1>1 DEF OrdersOf
    <2>2. \A i \in 1 .. n : \E r \in DOMAIN rows : order[r] = i
        BY <1>1 DEF OrdersOf
    <2>3. \A q, r \in DOMAIN rows : order[q] = order[r] => q = r
        BY <1>1 DEF OrdersAreUnique
    <2>. QED
        BY <2>1, <2>2, <2>3, Zenon DEF Injection, Surjection, IsInjective
<1>3. Cardinality(1 .. n) = Cardinality(DOMAIN rows)
    BY <1>2, FS_Surjection
<1>. QED
    BY <1>3, FS_Interval

(* The committed rows have the orders 1, 2, ... up to their count.         *)
LEMMA CommittedOrders ==
    ASSUME KInv, NEW s \in Session, tx[s] # Null, Len(tx[s].todo) = 1,
           OrdersAreUnique(View(s))
    PROVE  /\ LatestCount(s) \in Nat
           /\ Cardinality(DOMAIN View(s)) = LatestCount(s)
           /\ OrdersOf(View(s)) = 1 .. LatestCount(s)
<1>1. CASE KeepsTestcases(tx[s].op)
    BY <1>1, KeptOrders
<1>2. CASE ~KeepsTestcases(tx[s].op)
    <2>1. PICK t : t = tx[s]
        OBVIOUS
    <2>2. t.op.kind = "delete" \/ ReplacesAll(t.op)
        BY <1>2, <2>1, DeletingTransaction
    <2>3. PICK view, n : view = View(s) /\ n = LatestCount(s)
        OBVIOUS
    <2>4. IsFiniteSet(DOMAIN view)
        BY <2>3, ViewIsFinite DEF KInv
    <2>5. n \in Nat /\ OrdersOf(view) = 1 .. n
        <3>1. CASE t.op.kind = "delete"
            <4>1. PICK m \in Nat : m = testcase_count
                BY DEF KInv, TypeInvariant
            <4>2. OrdersAreUnique(testcases) /\ OrdersOf(testcases) = 1 .. m
                BY <4>1 DEF KInv, ListInvariant
            <4>3. PICK r \in DOMAIN testcases :
                    /\ testcases[r].order = t.op.at
                    /\ DOMAIN view = DOMAIN testcases \ {r}
                    /\ \A q \in DOMAIN view :
                        view[q].order =
                            IF testcases[q].order > t.op.at
                            THEN testcases[q].order - 1
                            ELSE testcases[q].order
                BY <2>1, <2>3, <3>1, CommittedDelete
            <4>4. t.testcase_count = m - 1
                BY <2>1, <3>1, <4>1, CommittedDelete
            <4>5. PICK k \in 1 .. m : k = t.op.at
                BY <4>2, <4>3 DEF OrdersOf
            <4>6. m - 1 \in Nat
                BY <4>5
            <4>7. n = m - 1
                BY <2>1, <2>3, <4>4, <4>6, NullAssumption DEF LatestCount
            <4>8. ASSUME NEW q \in DOMAIN view PROVE view[q].order \in 1 .. m - 1
                <5>1. testcases[q].order \in 1 .. m /\ testcases[q].order # k
                    BY <4>2, <4>3, <4>5 DEF OrdersOf, OrdersAreUnique
                <5>. QED
                    BY <4>3, <4>5, <5>1
            <4>9. ASSUME NEW i \in 1 .. m - 1 PROVE \E q \in DOMAIN view : view[q].order = i
                <5>1. PICK j \in 1 .. m : j = IF i < k THEN i ELSE i + 1
                    OBVIOUS
                <5>2. PICK q \in DOMAIN testcases : testcases[q].order = j
                    BY <4>2 DEF OrdersOf
                <5>3. j # k /\ i = IF j > k THEN j - 1 ELSE j
                    BY <5>1
                <5>4. q # r
                    BY <4>3, <4>5, <5>2, <5>3
                <5>. QED
                    BY <4>3, <4>5, <5>2, <5>3, <5>4
            <4>. QED
                BY <4>6, <4>7, <4>8, <4>9 DEF OrdersOf
        <3>2. CASE ReplacesAll(t.op)
            BY <2>1, <2>3, <3>2, CommittedReplace
        <3>. QED
            BY <2>2, <3>1, <3>2
    <2>. QED
        BY <2>3, <2>4, <2>5, OrdersCount
<1>. QED
    BY <1>1, <1>2

LEMMA CommitKeeps ==
    ASSUME KInv, NEW s \in Session, Commit(s)
    PROVE  ListInvariant'
<1>1. CASE RollBack(s)
    BY <1>1, RollBackKeeps
<1>2. CASE ~RollBack(s)
    <2>1. PICK view : view = View(s)
        OBVIOUS
    <2>2. PICK t : t = tx[s]
        OBVIOUS
    <2>3. PICK n : n = LatestCount(s)
        OBVIOUS
    <2>4. /\ t # Null /\ Len(t.todo) = 1
          /\ testcases' = view
          /\ OrdersAreUnique(view) /\ IsFiniteSet(DOMAIN view)
          /\ version' = version + 1
          /\ published' =
                [v \in DOMAIN published \cup {version + 1} |->
                    IF v = version + 1
                    THEN [testcase_count |-> Cardinality(DOMAIN view), testcases |-> Rows(s)]
                    ELSE published[v]]
          /\ tx' = [tx EXCEPT ![s] = Null]
        BY <1>2, <2>1, <2>2, CommitEffect DEF KInv
    <2>13. tx[s] # Null /\ Len(tx[s].todo) = 1
        BY <2>2, <2>4
    <2>5. testcase_count' = n
        BY <1>2, <2>3 DEF Commit
    <2>6. n \in Nat /\ Cardinality(DOMAIN view) = n /\ OrdersOf(view) = 1 .. n
        BY <2>1, <2>2, <2>3, <2>4, CommittedOrders
    <2>7. view = [r \in DOMAIN view |-> view[r]] /\ Rows(s) = {view[r] : r \in DOMAIN view}
        BY <2>1 DEF View, Rows
    <2>8. OrdersFrom1(Rows(s))
        <3>1. Cardinality(Rows(s)) = n
            BY <2>4, <2>6, <2>7, UniqueOrdersCount
        <3>2. {row.order : row \in Rows(s)} = OrdersOf(view)
            BY <2>7 DEF OrdersOf
        <3>. QED
            BY <2>6, <3>1, <3>2 DEF OrdersFrom1
    <2>9. PublishedOrdersAreContiguous'
        <3>1. \A v \in DOMAIN published' :
                \/ published'[v].testcases = Rows(s)
                \/ v \in DOMAIN published /\ published'[v] = published[v]
            <4>. SUFFICES ASSUME NEW v \in DOMAIN published'
                          PROVE  \/ published'[v].testcases = Rows(s)
                                 \/ v \in DOMAIN published /\ published'[v] = published[v]
                OBVIOUS
            <4>1. v \in DOMAIN published \cup {version + 1}
                BY <2>4
            <4>2. CASE v = version + 1
                <5>1. published'[v] =
                        [testcase_count |-> Cardinality(DOMAIN view), testcases |-> Rows(s)]
                    BY <2>4, <4>1, <4>2
                <5>. QED
                    BY <5>1
            <4>3. CASE v # version + 1
                BY <2>4, <4>1, <4>3
            <4>. QED
                BY <4>2, <4>3
        <3>. QED
            BY <2>8, <3>1 DEF KInv, ListInvariant, PublishedOrdersAreContiguous, OrdersFrom1
    <2>10. \A u \in Session : tx'[u] # Null => u # s /\ tx'[u] = tx[u]
        BY <2>4 DEF KInv, IInv, TransactionsAreWellFormed
    <2>11. \A u, v \in Session :
            u # v /\ tx'[u] # Null /\ tx'[v] # Null => AreApart(tx[u], tx[v])'
        <3>. SUFFICES ASSUME NEW u \in Session, NEW v \in Session,
                             u # v, tx'[u] # Null, tx'[v] # Null
                      PROVE  AreApart(tx'[u], tx'[v])
            BY DEF AreApart
        <3>. QED
            BY <2>10 DEF KInv, ListInvariant
    <2>12. \A u \in Session : tx'[u] # Null => WritesItsEdit(tx[u])'
        <3>. SUFFICES ASSUME NEW u \in Session, tx'[u] # Null
                      PROVE  WritesItsEdit(tx[u])'
            OBVIOUS
        <3>1. PICK o : o = tx[u] /\ o = tx'[u] /\ o # Null /\ u # s
            BY <2>10
        <3>5. AreApart(t, o)
            BY <2>2, <2>4, <3>1 DEF KInv, ListInvariant
        <3>6. KeepsTestcases(t.op) /\ KeepsTestcases(o.op) /\ KeepsTestcases(tx[s].op)
            BY <2>2, <3>5 DEF AreApart
        <3>2. PICK k \in 1 .. 6 : k = Len(o.todo)
            BY <3>1, <3>6, KeepingTransaction, KeepingPosition
        <3>3. /\ KeepsRowsAt(o, k) /\ AreApart(t, o) /\ KeepsTestcases(t.op) /\ t.op \in Operation
            <4>1. KeepsRows(o)
                BY <3>1, <3>6, KeepingTransaction
            <4>2. t.op \in Operation
                BY <2>2, <2>4, <3>6, KeepingTransaction
            <4>. QED
                BY <3>2, <3>5, <3>6, <4>1, <4>2 DEF KeepsRows
        <3>4. KeepsRowsAt(o, k)'
            <4>1. CASE t.op.kind = "create"
                <5>1. PICK r \in Row \ DOMAIN testcases :
                        /\ t.testcase_count = testcase_count + 1
                        /\ DOMAIN t.writes = {r}
                        /\ DOMAIN view = DOMAIN testcases \cup {r}
                        /\ \A q \in DOMAIN testcases : view[q] = testcases[q]
                    BY <2>1, <2>2, <2>4, <3>6, <4>1, CommittedCreate, Zenon
                <5>2. testcase_count \in Nat
                    BY DEF KInv, TypeInvariant
                <5>3. t.testcase_count # Null
                    BY <5>1, <5>2, NullAssumption
                <5>4. o.testcase_count = Null
                    BY <3>3, <5>3 DEF AreApart
                <5>5. o.op.kind # "create" \/ k > 5
                    BY <3>3, <5>2, <5>4, NullAssumption DEF KeepsRowsAt
                <5>6. k <= 4 => o.op.kind # "create"
                    BY <5>5
                <5>7. Replaced(o) => Replaced(o)'
                    BY <2>4, <5>1 DEF Replaced
                <5>8. HasMoved(o) => HasMoved(o)'
                    BY <2>4, <5>1 DEF HasMoved
                <5>. QED
                    BY <3>3, <5>4, <5>5, <5>6, <5>7, <5>8 DEF KeepsRowsAt
            <4>2. CASE t.op.kind # "create"
                <5>1. /\ DOMAIN view = DOMAIN testcases
                      /\ \A q \in DOMAIN testcases : q \notin DOMAIN t.writes => view[q] = testcases[q]
                    <6>1. /\ DOMAIN View(s) = DOMAIN testcases \cup DOMAIN t.writes
                          /\ \A q \in DOMAIN testcases :
                                q \notin DOMAIN t.writes => View(s)[q] = testcases[q]
                        BY <2>2, <2>13, <3>6, CommittedView
                    <6>2. DOMAIN t.writes \subseteq DOMAIN testcases
                        <7>1. CASE t.op.kind = "set"
                            BY <2>2, <2>13, <3>6, <7>1, CommittedSet
                        <7>2. CASE t.op.kind = "move"
                            BY <2>2, <2>13, <3>6, <7>2, CommittedMove
                        <7>3. CASE t.op.kind = "edit"
                            BY <2>2, <2>13, <3>6, <7>3, CommittedEdit
                        <7>. QED
                            BY <3>3, <4>2, <7>1, <7>2, <7>3 DEF KeepsTestcases
                    <6>. QED
                        BY <2>1, <6>1, <6>2
                <5>2. testcase_count' = testcase_count
                    <6>1. t.testcase_count = Null
                        BY <2>2, <2>4, <3>6, <4>2, KeepingTransaction DEF KeepsRows, KeepsRowsAt
                    <6>. QED
                        BY <2>2, <2>3, <2>5, <6>1 DEF LatestCount
                <5>3. DOMAIN t.writes \cap DOMAIN o.writes = {}
                    BY <3>3 DEF AreApart
                <5>4. Replaced(o) => Replaced(o)'
                    BY <2>4, <5>1, <5>3 DEF Replaced
                <5>5. HasMoved(o) => HasMoved(o)'
                    BY <2>4, <5>1, <5>3 DEF HasMoved
                <5>6. Inserted(o) => Inserted(o)'
                    BY <2>4, <5>1, <5>2 DEF Inserted
                <5>. QED
                    BY <3>3, <5>2, <5>4, <5>5, <5>6 DEF KeepsRowsAt
            <4>. QED
                BY <4>1, <4>2
        <3>. QED
            BY <3>1, <3>2, <3>4, <3>6
            DEF WritesItsEdit, KeepsRows, KeepsRowsAt, Inserted, Replaced, HasMoved
    <2>. QED
        BY <2>4, <2>5, <2>6, <2>9, <2>11, <2>12 DEF ListInvariant
<1>. QED
    BY <1>1, <1>2

LEMMA NextKeeps ==
    ASSUME KInv, DeletionsAreAlone', [Next]_vars
    PROVE  ListInvariant'
<1>1. CASE UNCHANGED vars
    <2>1. UNCHANGED <<testcases, testcase_count, published, tx>>
        BY <1>1 DEF vars
    <2>2. \A s \in Session : tx'[s] # Null => WritesItsEdit(tx[s])'
        <3>. SUFFICES ASSUME NEW s \in Session, tx'[s] # Null
                      PROVE  WritesItsEdit(tx[s])'
            OBVIOUS
        <3>1. PICK o : o = tx'[s]
            OBVIOUS
        <3>2. WritesItsEdit(o)
            BY <2>1, <3>1 DEF KInv, ListInvariant
        <3>3. WritesItsEdit(o)'
            BY <2>1, <3>2, EditIsKept
        <3>. QED
            BY <3>1, <3>3 DEF WritesItsEdit
    <2>3. \A s, u \in Session : AreApart(tx[s], tx[u]) => AreApart(tx[s], tx[u])'
        BY <2>1 DEF AreApart
    <2>4. PublishedOrdersAreContiguous' /\ OrdersAreUnique(testcases)'
          /\ OrdersOf(testcases)' = (1 .. testcase_count)'
          /\ (testcase_count = Cardinality(DOMAIN testcases))'
        BY <2>1
        DEF KInv, ListInvariant, PublishedOrdersAreContiguous, OrdersAreUnique, OrdersOf
    <2>. QED
        BY <2>1, <2>2, <2>3, <2>4 DEF KInv, ListInvariant
<1>2. ASSUME NEW s \in Session, NEW op \in Operation, Begin(s, op)
      PROVE  ListInvariant'
    BY <1>2, BeginKeeps
<1>3. ASSUME NEW s \in Session,
             Fail(s) \/ Execute(s) \/ Write(s) \/ Insert(s) \/ IncreaseCount(s) \/ Commit(s)
      PROVE  ListInvariant'
    <2>1. CASE KeepsTestcases(tx[s].op)
        BY <1>3, <2>1, RollBackKeeps, ExecuteKeeps, WriteKeeps, InsertKeeps,
           IncreaseCountKeeps, CommitKeeps
        DEF Fail
    <2>2. CASE ~KeepsTestcases(tx[s].op)
        BY <1>3, <2>2, RollBackKeeps, ExecuteDeletes, WriteDeletes, InsertDeletes,
           IncreaseCountDeletes, CommitKeeps
        DEF Fail
    <2>. QED
        BY <2>1, <2>2
<1>4. ASSUME NEW s \in Session, CountRows(s) \/ DecreaseCount(s) \/ ClearCount(s)
      PROVE  ListInvariant'
    <2>6. CASE KeepsTestcases(tx[s].op)
        <3>1. /\ tx[s] # Null
              /\ Head(tx[s].todo) \in {"count_rows", "decrease_count", "clear_count"}
            BY <1>4 DEF CountRows, DecreaseCount, ClearCount, Runs
        <3>2. PICK t : t = tx[s]
            OBVIOUS
        <3>3. t.op \in Operation /\ KeepsTestcases(t.op) /\ Remains(t)
            BY <2>6, <3>1, <3>2, KeepingTransaction
        <3>4. PICK k \in 1 .. 6 :
                /\ k = Len(t.todo)
                /\ k >= 5 =>
                    Head(t.todo) \in {"increase_count", "insert", "get_testcase", "move", "set"}
            BY <3>3, KeepingPosition
        <3>5. k >= 5
            BY <3>1, <3>2, <3>3, <3>4, PositionOfStatement DEF EditStatement
        <3>. QED
            BY <3>1, <3>2, <3>4, <3>5
    <2>7. CASE ~KeepsTestcases(tx[s].op)
        BY <1>4, <2>7, CountRowsDeletes, DecreaseCountDeletes, ClearCountDeletes
    <2>. QED
        BY <2>6, <2>7
<1>5. ASSUME NEW s \in Session, NEW t, tx[s] # Null, Done(s, t), HasItsFields(t),
             t.op = tx[s].op, t.todo = tx[s].todo,
             t.writes = tx[s].writes, t.testcase_count = tx[s].testcase_count,
             Head(t.todo) \in {"get_testcase", "increase_version", "read_manifest", "publish"}
      PROVE  ListInvariant'
    <2>1. CASE KeepsTestcases(tx[s].op)
        BY <1>5, <2>1, NothingKeeps
    <2>2. CASE ~KeepsTestcases(tx[s].op)
        <3>1. PICK o : o = tx[s]
            OBVIOUS
        <3>2. /\ o.op \in Operation /\ Remains(o)
              /\ o.op.kind = "delete" \/ ReplacesAll(o.op)
            BY <1>5, <2>2, <3>1, DeletingTransaction
        <3>3. PICK k \in Nat : k = Len(o.todo)
            BY <3>2, PositionOfStatement
        <3>4. PICK n \in Nat : n = NewLength(o.op)
            BY <3>2, NewLengthType
        <3>5. Head(o.todo) # "get_testcase"
            BY <3>2, <3>3, <3>4, DeletingStatement
        <3>6. Head(t.todo) \in {"increase_version", "read_manifest", "publish"}
            BY <1>5, <3>1, <3>5
        <3>. QED
            BY <1>5, <2>2, <3>6, NothingDeletes
    <2>. QED
        BY <2>1, <2>2
<1>6. ASSUME NEW s \in Session,
             GetTestcase(s) \/ IncreaseVersion(s) \/ ReadManifest(s) \/ Publish(s)
      PROVE  ListInvariant'
    <2>1. tx[s] # Null
        BY <1>6 DEF GetTestcase, IncreaseVersion, TakesVersion, ReadManifest, Publish, Runs
    <2>2. HasItsFields(tx[s])
        BY <2>1, EditTransaction DEF KInv
    <2>3. CASE GetTestcase(s)
        BY <1>5, <2>1, <2>2, <2>3, RollBackKeeps DEF GetTestcase, Runs
    <2>4. CASE IncreaseVersion(s)
        <3>1. PICK t : t = [tx[s] EXCEPT !.version = version + 1]
            OBVIOUS
        <3>2. /\ HasItsFields(t) /\ t.op = tx[s].op /\ t.todo = tx[s].todo
              /\ t.writes = tx[s].writes /\ t.testcase_count = tx[s].testcase_count
            BY <2>2, <3>1 DEF HasItsFields
        <3>3. Done(s, t) /\ Head(t.todo) = "increase_version"
            BY <2>4, <3>1, <3>2 DEF IncreaseVersion, TakesVersion, Runs
        <3>. QED
            BY <1>5, <2>1, <3>2, <3>3
    <2>5. CASE ReadManifest(s)
        <3>1. PICK t : t = [tx[s] EXCEPT !.manifest = Cardinality(DOMAIN View(s))]
            OBVIOUS
        <3>2. /\ HasItsFields(t) /\ t.op = tx[s].op /\ t.todo = tx[s].todo
              /\ t.writes = tx[s].writes /\ t.testcase_count = tx[s].testcase_count
            BY <2>2, <3>1 DEF HasItsFields
        <3>3. Done(s, t) /\ Head(t.todo) = "read_manifest"
            BY <2>5, <3>1, <3>2 DEF ReadManifest, Runs
        <3>. QED
            BY <1>5, <2>1, <3>2, <3>3
    <2>6. CASE Publish(s)
        <3>1. PICK t : t = [tx[s] EXCEPT !.copy = Rows(s)]
            OBVIOUS
        <3>2. /\ HasItsFields(t) /\ t.op = tx[s].op /\ t.todo = tx[s].todo
              /\ t.writes = tx[s].writes /\ t.testcase_count = tx[s].testcase_count
            BY <2>2, <3>1 DEF HasItsFields
        <3>3. Done(s, t) /\ Head(t.todo) = "publish"
            BY <2>6, <3>1, <3>2 DEF Publish, Runs, Rows
        <3>. QED
            BY <1>5, <2>1, <3>2, <3>3
    <2>. QED
        BY <1>6, <2>3, <2>4, <2>5, <2>6
<1>. QED
    BY <1>1, <1>2, <1>3, <1>4, <1>6 DEF Next

LEMMA InitKeeps == Init => ListInvariant
<1>. SUFFICES ASSUME Init PROVE ListInvariant
    OBVIOUS
<1>. DEFINE new == [testcase_count |-> 0, testcases |-> {}]
<1>1. PICK list \in Uploaded :
        /\ testcases = [k \in DOMAIN list |-> [order |-> k, content |-> list[k]]]
        /\ testcase_count = Len(list)
        /\ published =
            IF list = <<>>
            THEN <<new>>
            ELSE <<new, [testcase_count |-> Len(list),
                         testcases |-> {[order |-> k, content |-> list[k]] : k \in DOMAIN list}]>>
        /\ tx = [s \in Session |-> Null]
    BY DEF Init
<1>2. PICK n \in Nat : n = Len(list) /\ DOMAIN list = 1 .. n
    BY UploadedAssumption, LenProperties
<1>3. /\ DOMAIN testcases = 1 .. n
      /\ \A k \in 1 .. n : testcases[k] = [order |-> k, content |-> list[k]]
      /\ testcases = [k \in DOMAIN testcases |-> testcases[k]]
    BY <1>1, <1>2
<1>4. IsFiniteSet(1 .. n) /\ Cardinality(1 .. n) = n
    BY FS_Interval
<1>5. OrdersAreUnique(testcases) /\ OrdersOf(testcases) = 1 .. n
    BY <1>3 DEF OrdersAreUnique, OrdersOf
<1>. DEFINE rows == {[order |-> k, content |-> list[k]] : k \in DOMAIN list}
<1>6. OrdersFrom1(rows)
    <2>1. rows = {testcases[k] : k \in DOMAIN testcases}
        BY <1>2, <1>3
    <2>2. Cardinality(rows) = n
        BY <1>3, <1>4, <1>5, <2>1, UniqueOrdersCount
    <2>3. {row.order : row \in rows} = OrdersOf(testcases)
        BY <2>1 DEF OrdersOf
    <2>. HIDE DEF rows
    <2>. QED
        BY <1>5, <2>2, <2>3 DEF OrdersFrom1
<1>7. OrdersFrom1({})
    BY FS_EmptySet DEF OrdersFrom1
<1>. HIDE DEF rows
<1>8. published = <<new>> \/ published = <<new, [testcase_count |-> n, testcases |-> rows]>>
    BY <1>1, <1>2 DEF rows
<1>9. PublishedOrdersAreContiguous
    <2>1. \A v \in DOMAIN published : published[v].testcases \in {{}, rows}
        BY <1>8
    <2>. QED
        BY <1>6, <1>7, <2>1 DEF PublishedOrdersAreContiguous
<1>. QED
    BY <1>1, <1>2, <1>3, <1>4, <1>5, <1>9 DEF ListInvariant

LEMMA SpecKeeps == Spec /\ []DeletionsAreAlone => []KInv
<1>1. Init => KInv
    BY InitInvariant, InitType, InitKeeps DEF KInv
<1>2. KInv /\ DeletionsAreAlone' /\ [Next]_vars => KInv'
    BY NextInvariant, NextType, NextKeeps DEF KInv
<1>. QED
    BY <1>1, <1>2, PTL DEF Spec

(* As long as an edit that deletes testcases meets no other, whatever else *)
(* is edited at the same time: every version has the orders 1, 2, ..., and *)
(* the next testcase is put behind the last one (increase_testcase_count,  *)
(* move_testcase, delete_testcase, delete_all_testcases).                  *)
THEOREM DeletingAloneKeepsListsSound == Spec /\ []DeletionsAreAlone => []ListIsSound
<1>1. KInv /\ TypeOK => ListIsSound
    BY DEF KInv, ListInvariant, ListIsSound, CountIsLength
<1>. QED
    BY <1>1, SpecKeeps, TypeCorrectness, PTL

(* Edits that keep every testcase may all meet.                            *)
LEMMA KeepingIsAlone ==
    ASSUME EditsKeepTestcases
    PROVE  Spec => []DeletionsAreAlone
<1>1. IInv => DeletionsAreAlone
    BY DEF IInv, TransactionsAreWellFormed, DeletionsAreAlone, EditsKeepTestcases
<1>. QED
    BY <1>1, SpecInvariant, PTL

(* Whoever edits at the same time, as long as no edit deletes testcases:   *)
(* every version has the orders 1, 2, ..., and the next testcase is put    *)
(* behind the last one (increase_testcase_count, move_testcase).           *)
THEOREM KeepingEditsKeepListsSound ==
    ASSUME EditsKeepTestcases
    PROVE  Spec => []ListIsSound
BY KeepingIsAlone, DeletingAloneKeepsListsSound, PTL

-----------------------------------------------------------------------------
(* The list those rows are.                                                *)

(* The list of rows with the orders 1 .. n.                                *)
LEMMA ListOfRows ==
    ASSUME NEW rows, IsFiniteSet(DOMAIN rows), OrdersAreUnique(rows),
           NEW n \in Nat, Cardinality(DOMAIN rows) = n, OrdersOf(rows) = 1 .. n,
           \A r \in DOMAIN rows : rows[r].content \in Content,
           NEW list, list = ListOf({rows[r] : r \in DOMAIN rows})
    PROVE  /\ list \in Seq(Content) /\ Len(list) = n /\ DOMAIN list = 1 .. n
           /\ \A r \in DOMAIN rows : list[rows[r].order] = rows[r].content
<1>. DEFINE image == {rows[r] : r \in DOMAIN rows}
<1>1. Cardinality(image) = n
    <2>1. PICK f : f = [r \in DOMAIN rows |-> rows[r]]
        OBVIOUS
    <2>2. /\ DOMAIN f = DOMAIN rows /\ f = [r \in DOMAIN f |-> f[r]]
          /\ \A r \in DOMAIN rows : f[r] = rows[r]
        BY <2>1
    <2>3. OrdersAreUnique(f) /\ image = {f[r] : r \in DOMAIN f}
        BY <2>2 DEF OrdersAreUnique
    <2>. HIDE DEF image
    <2>. QED
        BY <2>2, <2>3, UniqueOrdersCount
<1>2. list = [k \in 1 .. n |-> (CHOOSE row \in image : row.order = k).content]
    BY <1>1 DEF ListOf
<1>3. ASSUME NEW r \in DOMAIN rows
      PROVE  (CHOOSE row \in image : row.order = rows[r].order) = rows[r]
    <2>1. \A row \in image : row.order = rows[r].order => row = rows[r]
        BY DEF OrdersAreUnique
    <2>2. rows[r] \in image
        OBVIOUS
    <2>. HIDE DEF image
    <2>. QED
        BY <2>1, <2>2
<1>4. ASSUME NEW k \in 1 .. n
      PROVE  \E r \in DOMAIN rows : rows[r].order = k /\ list[k] = rows[r].content
    <2>1. PICK r \in DOMAIN rows : rows[r].order = k
        BY DEF OrdersOf
    <2>2. (CHOOSE row \in image : row.order = k) = rows[r]
        BY <1>3, <2>1
    <2>. HIDE DEF image
    <2>3. list[k] = rows[r].content
        BY <1>2, <2>2
    <2>. QED
        BY <2>1, <2>3
<1>5. ASSUME NEW r \in DOMAIN rows
      PROVE  list[rows[r].order] = rows[r].content
    <2>1. rows[r].order \in 1 .. n
        BY DEF OrdersOf
    <2>2. (CHOOSE row \in image : row.order = rows[r].order) = rows[r]
        BY <1>3
    <2>. HIDE DEF image
    <2>. QED
        BY <1>2, <2>1, <2>2
<1>. HIDE DEF image
<1>6. list \in [1 .. n -> Content]
    <2>1. \A k \in 1 .. n : list[k] \in Content
        BY <1>4
    <2>2. DOMAIN list = 1 .. n /\ list = [k \in 1 .. n |-> list[k]]
        BY <1>2
    <2>. QED
        BY <2>1, <2>2
<1>. QED
    BY <1>5, <1>6

(* Whatever sequence shows the same contents at the same orders is it.     *)
LEMMA ListIs ==
    ASSUME NEW rows, IsFiniteSet(DOMAIN rows), OrdersAreUnique(rows),
           NEW n \in Nat, Cardinality(DOMAIN rows) = n, OrdersOf(rows) = 1 .. n,
           \A r \in DOMAIN rows : rows[r].content \in Content,
           NEW other \in Seq(Content), Len(other) = n,
           \A r \in DOMAIN rows : other[rows[r].order] = rows[r].content
    PROVE  ListOf({rows[r] : r \in DOMAIN rows}) = other
<1>1. PICK list : list = ListOf({rows[r] : r \in DOMAIN rows})
    OBVIOUS
<1>2. /\ list \in Seq(Content) /\ Len(list) = n
      /\ \A r \in DOMAIN rows : list[rows[r].order] = rows[r].content
    BY <1>1, ListOfRows
<1>3. ASSUME NEW k \in 1 .. n
      PROVE  list[k] = other[k]
    <2>1. PICK r \in DOMAIN rows : rows[r].order = k
        BY DEF OrdersOf
    <2>. QED
        BY <1>2, <2>1
<1>4. list = other
    BY <1>2, <1>3, SeqEqual
<1>. QED
    BY <1>1, <1>4

LEMMA JoinedLists ==
    ASSUME NEW S, NEW p \in Seq(S), NEW q \in Seq(S), NEW m, NEW n,
           m = Len(p), n = Len(q), NEW both, both = p \o q
    PROVE  /\ both \in Seq(S) /\ Len(both) = m + n
           /\ \A i \in 1 .. m + n : both[i] = IF i <= m THEN p[i] ELSE q[i - m]
BY ConcatProperties

(* The element at k is taken out.                                          *)
LEMMA RemovedFromList ==
    ASSUME NEW list \in Seq(Content), NEW k \in 1 .. Len(list),
           NEW rest, rest = List!RemoveAt(list, k)
    PROVE  /\ rest \in Seq(Content) /\ Len(rest) = Len(list) - 1
           /\ \A i \in 1 .. Len(list) - 1 :
                rest[i] = IF i < k THEN list[i] ELSE list[i + 1]
<1>. DEFINE before == SubSeq(list, 1, k - 1)
            after == SubSeq(list, k + 1, Len(list))
<1>1. PICK n \in Nat : n = Len(list)
    BY LenProperties
<1>2. k \in 1 .. n /\ \A i \in 1 .. n : list[i] \in Content
    BY <1>1, ElementOfSeq
<1>3. /\ before \in Seq(Content) /\ Len(before) = k - 1
      /\ \A i \in 1 .. k - 1 : before[i] = list[i]
    <2>1. k - 1 \in Int /\ \A i \in 1 .. k - 1 : list[i] \in Content
        BY <1>2
    <2>. QED
        BY <1>2, <2>1, SubSeqProperties
<1>4. /\ after \in Seq(Content) /\ Len(after) = n - k
      /\ \A i \in 1 .. n - k : after[i] = list[k + i]
    <2>1. k + 1 \in Int /\ n \in Int /\ \A i \in k + 1 .. n : list[i] \in Content
        BY <1>2
    <2>2. /\ after \in Seq(Content)
          /\ Len(after) = IF k + 1 <= n THEN n - (k + 1) + 1 ELSE 0
          /\ \A i \in 1 .. n - (k + 1) + 1 : after[i] = list[(k + 1) + i - 1]
        BY <1>1, <2>1, SubSeqProperties
    <2>. HIDE DEF after
    <2>3. /\ (IF k + 1 <= n THEN n - (k + 1) + 1 ELSE 0) = n - k
          /\ n - (k + 1) + 1 = n - k
          /\ \A i \in 1 .. n - k : (k + 1) + i - 1 = k + i
        BY <1>2
    <2>. QED
        BY <2>2, <2>3
<1>5. rest = before \o after
    BY DEF List!RemoveAt
<1>. HIDE DEF before, after
<1>6. k - 1 \in Nat /\ n - k \in Nat /\ (k - 1) + (n - k) = n - 1
    BY <1>2
<1>7. /\ rest \in Seq(Content) /\ Len(rest) = (k - 1) + (n - k)
      /\ \A i \in 1 .. (k - 1) + (n - k) :
            rest[i] = IF i <= k - 1 THEN before[i] ELSE after[i - (k - 1)]
    <2>1. k - 1 = Len(before) /\ n - k = Len(after)
        BY <1>3, <1>4
    <2>2. before \in Seq(Content) /\ after \in Seq(Content)
        BY <1>3, <1>4
    <2>. QED
        BY <1>5, <2>1, <2>2, JoinedLists
<1>8. /\ rest \in Seq(Content) /\ Len(rest) = n - 1
      /\ \A i \in 1 .. n - 1 :
            rest[i] = IF i <= k - 1 THEN before[i] ELSE after[i - (k - 1)]
    BY <1>6, <1>7, Zenon
<1>9. ASSUME NEW i \in 1 .. n - 1
      PROVE  rest[i] = IF i < k THEN list[i] ELSE list[i + 1]
    <2>1. CASE i < k
        <3>1. i \in 1 .. k - 1 /\ i <= k - 1
            BY <1>2, <2>1
        <3>. QED
            BY <1>3, <1>8, <2>1, <3>1
    <2>2. CASE ~(i < k)
        <3>1. i - (k - 1) \in 1 .. n - k /\ ~(i <= k - 1) /\ k + (i - (k - 1)) = i + 1
            BY <1>2, <2>2
        <3>. QED
            BY <1>4, <1>8, <2>2, <3>1
    <2>. QED
        BY <2>1, <2>2
<1>10. /\ rest \in Seq(Content) /\ Len(rest) = n - 1
       /\ \A i \in 1 .. n - 1 : rest[i] = IF i < k THEN list[i] ELSE list[i + 1]
    BY <1>8, <1>9
<1>. QED
    BY <1>1, <1>10, Zenon

(* c is put at l.                                                          *)
LEMMA InsertedInList ==
    ASSUME NEW rest \in Seq(Content), NEW l \in 1 .. Len(rest) + 1, NEW c \in Content
    PROVE  /\ List!InsertAt(rest, l, c) \in Seq(Content)
           /\ Len(List!InsertAt(rest, l, c)) = Len(rest) + 1
           /\ \A i \in 1 .. Len(rest) + 1 :
                List!InsertAt(rest, l, c)[i] =
                    IF i < l THEN rest[i] ELSE IF i = l THEN c ELSE rest[i - 1]
<1>13. PICK longer : longer = List!InsertAt(rest, l, c)
    OBVIOUS
<1>. DEFINE before == SubSeq(rest, 1, l - 1)
            after == SubSeq(rest, l, Len(rest))
<1>1. PICK n \in Nat : n = Len(rest)
    BY LenProperties
<1>2. l \in 1 .. n + 1 /\ \A i \in 1 .. n : rest[i] \in Content
    BY <1>1, ElementOfSeq
<1>3. /\ before \in Seq(Content) /\ Len(before) = l - 1
      /\ \A i \in 1 .. l - 1 : before[i] = rest[i]
    <2>1. l - 1 \in Int /\ \A i \in 1 .. l - 1 : rest[i] \in Content
        BY <1>2
    <2>. QED
        BY <1>2, <2>1, SubSeqProperties
<1>4. /\ after \in Seq(Content) /\ Len(after) = n - l + 1
      /\ \A i \in 1 .. n - l + 1 : after[i] = rest[l + i - 1]
    <2>1. l \in Int /\ n \in Int /\ \A i \in l .. n : rest[i] \in Content
        BY <1>2
    <2>2. /\ after \in Seq(Content)
          /\ Len(after) = IF l <= n THEN n - l + 1 ELSE 0
          /\ \A i \in 1 .. n - l + 1 : after[i] = rest[l + i - 1]
        BY <1>1, <2>1, SubSeqProperties
    <2>. HIDE DEF after
    <2>3. (IF l <= n THEN n - l + 1 ELSE 0) = n - l + 1
        BY <1>2
    <2>. QED
        BY <2>2, <2>3
<1>5. longer = before \o <<c>> \o after
    BY <1>13 DEF List!InsertAt
<1>. HIDE DEF before, after
<1>6. PICK first : first = before \o <<c>>
    OBVIOUS
<1>7. /\ first \in Seq(Content) /\ Len(first) = l
      /\ \A i \in 1 .. l : first[i] = IF i = l THEN c ELSE before[i]
    <2>1. <<c>> \in Seq(Content) /\ Len(<<c>>) = 1 /\ <<c>>[1] = c
        OBVIOUS
    <2>2. PICK one : one = <<c>>
        OBVIOUS
    <2>3. /\ first \in Seq(Content) /\ Len(first) = Len(before) + Len(one)
          /\ \A i \in 1 .. Len(before) + Len(one) :
                first[i] = IF i <= Len(before) THEN before[i] ELSE one[i - Len(before)]
        BY <1>3, <1>6, <2>1, <2>2, ConcatProperties
    <2>4. Len(first) = l /\ \A i \in 1 .. l :
            first[i] = IF i <= l - 1 THEN before[i] ELSE one[i - (l - 1)]
        BY <1>2, <1>3, <2>1, <2>2, <2>3
    <2>5. \A i \in 1 .. l : i <= l - 1 \/ (i = l /\ i - (l - 1) = 1)
        BY <1>2
    <2>. QED
        BY <1>2, <2>1, <2>2, <2>3, <2>4, <2>5
<1>8. l \in Nat /\ n - l + 1 \in Nat /\ l + (n - l + 1) = n + 1
    BY <1>2
<1>9. /\ longer \in Seq(Content) /\ Len(longer) = l + (n - l + 1)
      /\ \A i \in 1 .. l + (n - l + 1) :
            longer[i] = IF i <= l THEN first[i] ELSE after[i - l]
    <2>1. Len(first) = l /\ Len(after) = n - l + 1
        BY <1>4, <1>7
    <2>2. first \in Seq(Content) /\ after \in Seq(Content)
        BY <1>4, <1>7
    <2>3. longer = first \o after
        BY <1>5, <1>6
    <2>4. /\ longer \in Seq(Content) /\ Len(longer) = Len(first) + Len(after)
          /\ \A i \in 1 .. Len(first) + Len(after) :
                longer[i] = IF i <= Len(first) THEN first[i] ELSE after[i - Len(first)]
        <3>1. PICK p : p = first \o after
            OBVIOUS
        <3>2. /\ p \in Seq(Content) /\ Len(p) = Len(first) + Len(after)
              /\ \A i \in 1 .. Len(first) + Len(after) :
                    p[i] = IF i <= Len(first) THEN first[i] ELSE after[i - Len(first)]
            BY <2>2, <3>1, ConcatProperties
        <3>. QED
            BY <2>3, <3>1, <3>2, Zenon
    <2>. QED
        BY <2>1, <2>4, Zenon
<1>10. /\ longer \in Seq(Content) /\ Len(longer) = n + 1
       /\ \A i \in 1 .. n + 1 : longer[i] = IF i <= l THEN first[i] ELSE after[i - l]
    BY <1>8, <1>9, Zenon
<1>11. ASSUME NEW i \in 1 .. n + 1
       PROVE  longer[i] = IF i < l THEN rest[i] ELSE IF i = l THEN c ELSE rest[i - 1]
    <2>1. CASE i < l
        <3>1. i \in 1 .. l - 1 /\ i \in 1 .. l /\ i <= l /\ i # l
            BY <1>2, <2>1
        <3>. QED
            BY <1>3, <1>7, <1>10, <2>1, <3>1
    <2>2. CASE i = l
        BY <1>2, <1>7, <1>10, <2>2
    <2>3. CASE i > l
        <3>1. i - l \in 1 .. n - l + 1 /\ ~(i <= l) /\ ~(i < l) /\ i # l /\ l + (i - l) - 1 = i - 1
            BY <1>2, <2>3
        <3>. QED
            BY <1>4, <1>10, <3>1
    <2>. QED
        BY <1>2, <2>1, <2>2, <2>3
<1>12. /\ longer \in Seq(Content) /\ Len(longer) = n + 1
       /\ \A i \in 1 .. n + 1 :
            longer[i] = IF i < l THEN rest[i] ELSE IF i = l THEN c ELSE rest[i - 1]
    BY <1>10, <1>11
<1>. QED
    BY <1>1, <1>12, <1>13, Zenon

(* The list when the element at k has moved to l, and where its elements   *)
(* are then.                                                               *)
MovedTo(list, k, l) == List!InsertAt(List!RemoveAt(list, k), l, list[k])

LEMMA MovedInList ==
    ASSUME NEW list \in Seq(Content), NEW k \in 1 .. Len(list), NEW l \in 1 .. Len(list), k # l
    PROVE  /\ MovedTo(list, k, l) \in Seq(Content) /\ Len(MovedTo(list, k, l)) = Len(list)
           /\ MovedTo(list, k, l)[l] = list[k]
           /\ \A i \in 1 .. Len(list) :
                /\ k < i /\ i <= l => MovedTo(list, k, l)[i - 1] = list[i]
                /\ l <= i /\ i < k => MovedTo(list, k, l)[i + 1] = list[i]
                /\ i < k /\ i < l => MovedTo(list, k, l)[i] = list[i]
                /\ i > k /\ i > l => MovedTo(list, k, l)[i] = list[i]
<1>12. PICK moved : moved = MovedTo(list, k, l)
    OBVIOUS
<1>1. PICK rest : rest = List!RemoveAt(list, k)
    OBVIOUS
<1>2. PICK n \in Nat : n = Len(list)
    BY LenProperties
<1>3. k \in 1 .. n /\ l \in 1 .. n /\ list[k] \in Content
    BY <1>2, ElementOfSeq
<1>4. /\ rest \in Seq(Content) /\ Len(rest) = n - 1
      /\ \A i \in 1 .. n - 1 : rest[i] = IF i < k THEN list[i] ELSE list[i + 1]
    BY <1>1, <1>2, RemovedFromList
<1>5. l \in 1 .. Len(rest) + 1 /\ Len(rest) + 1 = n
    BY <1>3, <1>4
<1>11. PICK c \in Content : c = list[k]
    BY <1>3
<1>6. moved = List!InsertAt(rest, l, c)
    BY <1>1, <1>11, <1>12 DEF MovedTo
<1>7. /\ moved \in Seq(Content) /\ Len(moved) = Len(rest) + 1
      /\ \A i \in 1 .. Len(rest) + 1 :
            moved[i] = IF i < l THEN rest[i] ELSE IF i = l THEN c ELSE rest[i - 1]
    <2>1. rest \in Seq(Content) /\ l \in 1 .. Len(rest) + 1
        BY <1>4, <1>5
    <2>2. /\ List!InsertAt(rest, l, c) \in Seq(Content)
          /\ Len(List!InsertAt(rest, l, c)) = Len(rest) + 1
          /\ \A i \in 1 .. Len(rest) + 1 :
                List!InsertAt(rest, l, c)[i] =
                    IF i < l THEN rest[i] ELSE IF i = l THEN c ELSE rest[i - 1]
        BY <2>1, InsertedInList
    <2>. QED
        BY <1>6, <2>2, Zenon
<1>8. /\ Len(moved) = n
      /\ \A i \in 1 .. n :
            moved[i] = IF i < l THEN rest[i] ELSE IF i = l THEN c ELSE rest[i - 1]
    BY <1>5, <1>7, Zenon
<1>9. moved[l] = list[k]
    BY <1>3, <1>8, <1>11
<1>10. ASSUME NEW i \in 1 .. n
       PROVE  /\ k < i /\ i <= l => moved[i - 1] = list[i]
              /\ l <= i /\ i < k => moved[i + 1] = list[i]
              /\ i < k /\ i < l => moved[i] = list[i]
              /\ i > k /\ i > l => moved[i] = list[i]
    <2>1. CASE k < i /\ i <= l
        <3>1. PICK j \in 1 .. n - 1 : j = i - 1 /\ j < l /\ ~(j < k) /\ j + 1 = i
            BY <1>3, <2>1
        <3>2. moved[j] = rest[j] /\ rest[j] = list[i]
            BY <1>4, <1>8, <3>1
        <3>. QED
            BY <2>1, <3>1, <3>2
    <2>2. CASE l <= i /\ i < k
        <3>1. PICK j \in 1 .. n : j = i + 1 /\ ~(j < l) /\ j # l /\ j - 1 = i /\ i \in 1 .. n - 1
            BY <1>3, <2>2
        <3>2. moved[j] = rest[i] /\ rest[i] = list[i]
            BY <1>4, <1>8, <2>2, <3>1
        <3>. QED
            BY <2>2, <3>1, <3>2
    <2>3. CASE i < k /\ i < l
        <3>1. i \in 1 .. n - 1
            BY <1>3, <2>3
        <3>2. moved[i] = rest[i] /\ rest[i] = list[i]
            BY <1>4, <1>8, <2>3, <3>1
        <3>. QED
            BY <2>3, <3>2
    <2>4. CASE i > k /\ i > l
        <3>1. PICK j \in 1 .. n - 1 : j = i - 1 /\ ~(i < l) /\ i # l /\ ~(j < k) /\ j + 1 = i
            BY <1>3, <2>4
        <3>2. moved[i] = rest[j] /\ rest[j] = list[i]
            BY <1>4, <1>8, <3>1
        <3>. QED
            BY <2>4, <3>2
    <2>. QED
        BY <1>3, <2>1, <2>2, <2>3, <2>4
<1>. QED
    BY <1>2, <1>7, <1>8, <1>9, <1>10, <1>12, Zenon

(* What List is about.                                                     *)
TheList == ListOf({testcases[r] : r \in DOMAIN testcases})

TheVersions == [v \in DOMAIN published |-> ListOf(published[v].testcases)]

(* What the edits of this run may put in place of all testcases.           *)
NewLists == {WrittenAnew(op) : op \in {o \in Operation : ReplacesAll(o)}}

IsEditOf(list, new) ==
    \/ \E c \in Content : new = Append(list, c)
    \/ \E k \in DOMAIN list, c \in Content : new = [list EXCEPT ![k] = c]
    \/ \E k, l \in DOMAIN list : k # l /\ new = MovedTo(list, k, l)
    \/ \E k \in DOMAIN list : new = List!RemoveAt(list, k)
    \/ new \in NewLists
    \/ new = list

(* A transaction that keeps every testcase commits an edit of the list.    *)
LEMMA CommittedKeepingEdit ==
    ASSUME KInv, NEW s \in Session, KeepsTestcases(tx[s].op), tx[s] # Null, Len(tx[s].todo) = 1,
           OrdersAreUnique(View(s))
    PROVE  IsEditOf(TheList, ListOf(Rows(s)))
<1>16. PICK list : list = TheList
    OBVIOUS
<1>17. PICK new : new = ListOf(Rows(s))
    OBVIOUS
<1>1. PICK t : t = tx[s]
    OBVIOUS
<1>2. PICK view : view = View(s)
    OBVIOUS
<1>3. PICK n : n = LatestCount(s)
    OBVIOUS
<1>4. PICK m : m = testcase_count
    OBVIOUS
<1>5. /\ m \in Nat /\ Cardinality(DOMAIN testcases) = m
      /\ OrdersAreUnique(testcases) /\ OrdersOf(testcases) = 1 .. m
      /\ IsFiniteSet(DOMAIN testcases) /\ IsFiniteSet(DOMAIN view)
      /\ \A r \in DOMAIN testcases : testcases[r].content \in Content
    BY <1>2, <1>4, ViewIsFinite DEF KInv, ListInvariant, TypeInvariant, IInv, RowsAreFinite, Testcase
<1>6. /\ n \in Nat /\ Cardinality(DOMAIN view) = n /\ OrdersOf(view) = 1 .. n
      /\ \A r \in DOMAIN view : view[r].content \in Content
    BY <1>2, <1>3, CommittedOrders, ViewType DEF KInv, Testcase
<1>7. /\ list \in Seq(Content) /\ Len(list) = m /\ DOMAIN list = 1 .. m
      /\ \A r \in DOMAIN testcases : list[testcases[r].order] = testcases[r].content
    <2>1. list = ListOf({testcases[r] : r \in DOMAIN testcases})
        BY <1>16 DEF TheList
    <2>. QED
        BY <1>5, <2>1, ListOfRows
<1>8. ASSUME NEW other \in Seq(Content), Len(other) = n,
             \A r \in DOMAIN view : other[view[r].order] = view[r].content
      PROVE  new = other
    BY <1>2, <1>5, <1>6, <1>8, <1>17, ListIs DEF Rows
<1>9. /\ t.op \in Operation /\ KeepsTestcases(t.op)
      /\ n = IF t.op.kind = "create" THEN m + 1 ELSE m
    <2>1. KeepsRowsAt(t, 1) /\ t.op \in Operation /\ KeepsTestcases(t.op)
        BY <1>1, KeepingTransaction DEF KeepsRows
    <2>2. /\ t.op.kind = "create" => t.testcase_count = m + 1
          /\ t.op.kind # "create" => t.testcase_count = Null
        BY <1>4, <2>1 DEF KeepsRowsAt
    <2>. QED
        BY <1>1, <1>3, <1>4, <1>5, <2>1, <2>2, NullAssumption DEF LatestCount
<1>10. \A r \in DOMAIN testcases : testcases[r].order \in 1 .. m
    BY <1>5 DEF OrdersOf
<1>11. t.op.kind \in {"create", "set"} => t.op.contents[1] \in Content
    <2>1. t.op.contents \in Seq(Content)
        BY <1>9, OperationAssumption DEF Request
    <2>2. t.op.kind \in {"create", "set"} => Len(t.op.contents) = 1
        BY <1>9, OperationAssumption
    <2>. QED
        BY <2>1, <2>2, ElementOfSeq
<1>12. ASSUME t.op.kind = "create"
       PROVE  IsEditOf(list, new)
    <2>1. PICK r \in Row \ DOMAIN testcases :
            /\ DOMAIN view = DOMAIN testcases \cup {r}
            /\ view[r] = [order |-> m + 1, content |-> t.op.contents[1]]
            /\ \A q \in DOMAIN testcases : view[q] = testcases[q]
        BY <1>1, <1>2, <1>4, <1>12, CommittedCreate, Zenon
    <2>2. PICK c \in Content : c = t.op.contents[1]
        BY <1>11, <1>12
    <2>3. PICK other : other = Append(list, c)
        OBVIOUS
    <2>4. /\ other \in Seq(Content) /\ Len(other) = m + 1
          /\ \A i \in 1 .. m : other[i] = list[i]
          /\ other[m + 1] = c
        <3>1. /\ Append(list, c) \in Seq(Content) /\ Len(Append(list, c)) = m + 1
              /\ \A i \in 1 .. m : Append(list, c)[i] = list[i]
              /\ Append(list, c)[m + 1] = c
            BY <1>7, AppendProperties
        <3>. QED
            BY <2>3, <3>1, Zenon
    <2>5. \A q \in DOMAIN view : other[view[q].order] = view[q].content
        BY <1>7, <1>10, <2>1, <2>2, <2>4
    <2>6. new = other
        BY <1>8, <1>9, <1>12, <2>4, <2>5
    <2>. QED
        BY <2>3, <2>6 DEF IsEditOf
<1>13. ASSUME t.op.kind = "set"
       PROVE  IsEditOf(list, new)
    <2>1. PICK r \in DOMAIN testcases :
            /\ testcases[r].order = t.op.at
            /\ DOMAIN view = DOMAIN testcases
            /\ view[r].order = t.op.at
            /\ view[r].content = t.op.contents[1]
            /\ \A q \in DOMAIN testcases \ {r} : view[q] = testcases[q]
        BY <1>1, <1>2, <1>13, CommittedSet
    <2>2. PICK c \in Content : c = t.op.contents[1]
        BY <1>11, <1>13
    <2>3. PICK k \in 1 .. m : k = t.op.at
        BY <1>10, <2>1
    <2>4. PICK other : other = [list EXCEPT ![k] = c]
        OBVIOUS
    <2>5. /\ other \in Seq(Content) /\ Len(other) = m
          /\ \A i \in 1 .. m : other[i] = IF i = k THEN c ELSE list[i]
        <3>1. /\ [list EXCEPT ![k] = c] \in Seq(Content) /\ Len([list EXCEPT ![k] = c]) = m
              /\ \A i \in 1 .. m : [list EXCEPT ![k] = c][i] = IF i = k THEN c ELSE list[i]
            BY <1>7, ExceptSeq
        <3>. QED
            BY <2>4, <3>1, Zenon
    <2>6. \A q \in DOMAIN view : q # r => view[q].order # k
        BY <1>2, <2>1, <2>3 DEF OrdersAreUnique
    <2>7. \A q \in DOMAIN view : other[view[q].order] = view[q].content
        BY <1>7, <1>10, <2>1, <2>2, <2>3, <2>5, <2>6
    <2>8. new = other
        BY <1>8, <1>9, <1>13, <2>5, <2>7
    <2>. QED
        BY <1>7, <2>4, <2>8 DEF IsEditOf
<1>14. ASSUME t.op.kind = "edit"
       PROVE  IsEditOf(list, new)
    <2>1. /\ DOMAIN view = DOMAIN testcases
          /\ \A q \in DOMAIN testcases : view[q] = testcases[q]
        BY <1>1, <1>2, <1>14, CommittedEdit, Zenon
    <2>2. \A q \in DOMAIN view : list[view[q].order] = view[q].content
        BY <1>7, <2>1
    <2>. QED
        BY <1>7, <1>8, <1>9, <1>14, <2>2 DEF IsEditOf
<1>15. ASSUME t.op.kind = "move"
       PROVE  IsEditOf(list, new)
    <2>1. /\ DOMAIN view = DOMAIN testcases
          /\ Between(t.op) \subseteq 1 .. m
          /\ \A q \in DOMAIN testcases :
                /\ view[q].content = testcases[q].content
                /\ view[q].order =
                    IF testcases[q].order \in Between(t.op)
                    THEN Moved(t.op, testcases[q].order)
                    ELSE testcases[q].order
        BY <1>1, <1>2, <1>4, <1>15, CommittedMove, Zenon
    <2>2. t.op.at \in Nat /\ t.op.to \in Nat /\ t.op.at # t.op.to
        BY <1>9, <1>15, OperationAssumption DEF Request
    <2>3. PICK k \in Nat, l \in Nat : k = t.op.at /\ l = t.op.to /\ k # l
        BY <2>2
    <2>4. /\ \A i \in Nat : i \in Between(t.op) <=> (k <= i /\ i <= l) \/ (l <= i /\ i <= k)
          /\ \A i \in Nat : Moved(t.op, i) = IF i = k THEN l ELSE IF k < i THEN i - 1 ELSE i + 1
        BY <2>3 DEF Between, Lowest, Highest, Moved
    <2>5. k \in 1 .. m /\ l \in 1 .. m
        BY <2>1, <2>3, <2>4
    <2>6. PICK other : other = MovedTo(list, k, l)
        OBVIOUS
    <2>7. /\ other \in Seq(Content) /\ Len(other) = m
          /\ other[l] = list[k]
          /\ \A i \in 1 .. m :
                /\ k < i /\ i <= l => other[i - 1] = list[i]
                /\ l <= i /\ i < k => other[i + 1] = list[i]
                /\ i < k /\ i < l => other[i] = list[i]
                /\ i > k /\ i > l => other[i] = list[i]
        <3>1. /\ MovedTo(list, k, l) \in Seq(Content) /\ Len(MovedTo(list, k, l)) = Len(list)
              /\ MovedTo(list, k, l)[l] = list[k]
              /\ \A i \in 1 .. Len(list) :
                    /\ k < i /\ i <= l => MovedTo(list, k, l)[i - 1] = list[i]
                    /\ l <= i /\ i < k => MovedTo(list, k, l)[i + 1] = list[i]
                    /\ i < k /\ i < l => MovedTo(list, k, l)[i] = list[i]
                    /\ i > k /\ i > l => MovedTo(list, k, l)[i] = list[i]
            <4>1. list \in Seq(Content) /\ k \in 1 .. Len(list) /\ l \in 1 .. Len(list) /\ k # l
                BY <1>7, <2>3, <2>5
            <4>. QED
                BY <4>1, MovedInList
        <3>. QED
            BY <1>7, <2>6, <3>1, Zenon
    <2>8. ASSUME NEW q \in DOMAIN view
          PROVE  other[view[q].order] = view[q].content
        <3>1. PICK i \in 1 .. m : i = testcases[q].order
            BY <1>10, <2>1
        <3>2. view[q].content = list[i]
            BY <1>7, <2>1, <3>1
        <3>3. view[q].order =
                IF (k <= i /\ i <= l) \/ (l <= i /\ i <= k)
                THEN (IF i = k THEN l ELSE IF k < i THEN i - 1 ELSE i + 1)
                ELSE i
            BY <2>1, <2>4, <3>1
        <3>. QED
            BY <2>3, <2>5, <2>7, <3>2, <3>3
    <2>9. new = other
        BY <1>8, <1>9, <1>15, <2>7, <2>8
    <2>. QED
        BY <1>7, <2>3, <2>5, <2>6, <2>9 DEF IsEditOf
<1>18. IsEditOf(list, new)
    BY <1>9, <1>12, <1>13, <1>14, <1>15 DEF KeepsTestcases
<1>. QED
    BY <1>16, <1>17, <1>18

(* A transaction that deletes one commits the list without it.             *)
LEMMA CommittedDeletion ==
    ASSUME KInv, NEW s \in Session, tx[s] # Null, Len(tx[s].todo) = 1,
           tx[s].op.kind = "delete", OrdersAreUnique(View(s))
    PROVE  IsEditOf(TheList, ListOf(Rows(s)))
<1>1. PICK list : list = TheList
    OBVIOUS
<1>2. PICK new : new = ListOf(Rows(s))
    OBVIOUS
<1>3. PICK t : t = tx[s]
    OBVIOUS
<1>4. PICK view : view = View(s)
    OBVIOUS
<1>5. PICK m \in Nat : m = testcase_count
    BY DEF KInv, TypeInvariant
<1>6. /\ Cardinality(DOMAIN testcases) = m
      /\ OrdersAreUnique(testcases) /\ OrdersOf(testcases) = 1 .. m
      /\ IsFiniteSet(DOMAIN testcases) /\ IsFiniteSet(DOMAIN view)
      /\ \A r \in DOMAIN testcases : testcases[r].content \in Content
    BY <1>4, <1>5, ViewIsFinite DEF KInv, ListInvariant, TypeInvariant, IInv, RowsAreFinite, Testcase
<1>7. /\ list \in Seq(Content) /\ Len(list) = m /\ DOMAIN list = 1 .. m
      /\ \A r \in DOMAIN testcases : list[testcases[r].order] = testcases[r].content
    <2>1. list = ListOf({testcases[r] : r \in DOMAIN testcases})
        BY <1>1 DEF TheList
    <2>. QED
        BY <1>5, <1>6, <2>1, ListOfRows
<1>8. PICK r \in DOMAIN testcases :
        /\ t.testcase_count = m - 1
        /\ testcases[r].order = t.op.at
        /\ DOMAIN view = DOMAIN testcases \ {r}
        /\ \A q \in DOMAIN view :
            /\ view[q].content = testcases[q].content
            /\ view[q].order =
                IF testcases[q].order > t.op.at
                THEN testcases[q].order - 1
                ELSE testcases[q].order
    BY <1>3, <1>4, <1>5, CommittedDelete
<1>9. PICK k \in 1 .. m : k = t.op.at
    BY <1>6, <1>8 DEF OrdersOf
<1>10. PICK n \in Nat : n = m - 1
    BY <1>5, <1>9
<1>11. LatestCount(s) = n
    BY <1>3, <1>8, <1>10, NullAssumption DEF LatestCount
<1>12. /\ Cardinality(DOMAIN view) = n /\ OrdersOf(view) = 1 .. n
       /\ \A q \in DOMAIN view : view[q].content \in Content
    BY <1>4, <1>11, CommittedOrders, ViewType DEF KInv, Testcase
<1>13. PICK other : other = List!RemoveAt(list, k)
    OBVIOUS
<1>14. /\ other \in Seq(Content) /\ Len(other) = n
       /\ \A i \in 1 .. n : other[i] = IF i < k THEN list[i] ELSE list[i + 1]
    BY <1>7, <1>9, <1>10, <1>13, RemovedFromList
<1>15. ASSUME NEW q \in DOMAIN view
       PROVE  other[view[q].order] = view[q].content
    <2>1. q \in DOMAIN testcases /\ q # r /\ view[q].content = testcases[q].content
        BY <1>8
    <2>2. PICK i \in 1 .. m : i = testcases[q].order /\ i # k
        <3>1. testcases[q].order \in 1 .. m
            BY <1>6, <2>1 DEF OrdersOf
        <3>2. testcases[q].order # testcases[r].order
            BY <1>6, <2>1 DEF OrdersAreUnique
        <3>. QED
            BY <1>8, <1>9, <3>1, <3>2, Zenon
    <2>3. view[q].content = list[i]
        BY <1>7, <2>1, <2>2
    <2>4. view[q].order = IF i > k THEN i - 1 ELSE i
        BY <1>8, <1>9, <2>2
    <2>5. CASE i > k
        <3>1. PICK j \in 1 .. n : j = i - 1 /\ ~(j < k) /\ j + 1 = i
            BY <1>5, <1>9, <1>10, <2>2, <2>5
        <3>2. other[j] = list[i]
            BY <1>14, <3>1
        <3>. QED
            BY <2>3, <2>4, <2>5, <3>1, <3>2
    <2>6. CASE i < k
        <3>1. i \in 1 .. n
            BY <1>5, <1>9, <1>10, <2>2, <2>6
        <3>2. other[i] = list[i]
            BY <1>14, <2>6, <3>1
        <3>. QED
            BY <2>3, <2>4, <2>6, <3>2
    <2>. QED
        BY <1>9, <2>2, <2>5, <2>6
<1>16. new = other
    BY <1>2, <1>4, <1>6, <1>10, <1>12, <1>14, <1>15, ListIs DEF Rows
<1>. QED
    BY <1>1, <1>2, <1>7, <1>9, <1>13, <1>16 DEF IsEditOf

(* A transaction that replaces them all commits what it has brought.       *)
LEMMA CommittedReplacement ==
    ASSUME KInv, NEW s \in Session, tx[s] # Null, Len(tx[s].todo) = 1,
           ReplacesAll(tx[s].op), OrdersAreUnique(View(s))
    PROVE  IsEditOf(TheList, ListOf(Rows(s)))
<1>1. PICK t : t = tx[s]
    OBVIOUS
<1>2. PICK view : view = View(s)
    OBVIOUS
<1>3. PICK new : new = WrittenAnew(t.op)
    OBVIOUS
<1>4. t.op \in Operation
    BY <1>1 DEF KInv, IInv, TransactionsAreWellFormed
<1>5. PICK n \in Nat : n = NewLength(t.op)
    BY <1>4, NewLengthType
<1>6. new \in Seq(Content) /\ Len(new) = n
    BY <1>1, <1>3, <1>4, <1>5, NewTestcases
<1>7. /\ LatestCount(s) = n
      /\ \A q \in DOMAIN view : view[q].content = new[view[q].order]
    BY <1>1, <1>2, <1>3, <1>5, CommittedReplace
<1>8. /\ Cardinality(DOMAIN view) = n /\ OrdersOf(view) = 1 .. n
      /\ \A q \in DOMAIN view : view[q].content \in Content
    BY <1>2, <1>7, CommittedOrders, ViewType DEF KInv, Testcase
<1>9. IsFiniteSet(DOMAIN view)
    BY <1>2, ViewIsFinite DEF KInv
<1>10. ListOf(Rows(s)) = new
    BY <1>2, <1>6, <1>7, <1>8, <1>9, ListIs DEF Rows
<1>11. new \in NewLists
    BY <1>1, <1>3, <1>4 DEF NewLists
<1>. QED
    BY <1>10, <1>11 DEF IsEditOf

LEMMA CommittedList ==
    ASSUME KInv, NEW s \in Session, tx[s] # Null, Len(tx[s].todo) = 1,
           OrdersAreUnique(View(s))
    PROVE  IsEditOf(TheList, ListOf(Rows(s)))
<1>1. CASE KeepsTestcases(tx[s].op)
    BY <1>1, CommittedKeepingEdit
<1>2. CASE ~KeepsTestcases(tx[s].op)
    <2>1. tx[s].op.kind = "delete" \/ ReplacesAll(tx[s].op)
        BY <1>2, DeletingTransaction
    <2>. QED
        BY <2>1, CommittedDeletion, CommittedReplacement
<1>. QED
    BY <1>1, <1>2

LEMMA EmptyList == ListOf({}) = <<>>
<1>1. Cardinality({}) = 0
    BY FS_EmptySet
<1>2. DOMAIN ListOf({}) = 1 .. 0 /\ ListOf({}) \in [1 .. 0 -> {}]
    BY <1>1 DEF ListOf
<1>. QED
    BY <1>2

LEMMA ShortTuples ==
    ASSUME NEW p, NEW q
    PROVE  /\ [v \in 1 .. 1 |-> p] = <<p>>
           /\ [v \in 1 .. 2 |-> IF v = 1 THEN p ELSE q] = <<p, q>>
OBVIOUS

LEMMA InitIsList == Init => List!Init
<1>. SUFFICES ASSUME Init PROVE List!Init
    OBVIOUS
<1>. DEFINE new == [testcase_count |-> 0, testcases |-> {}]
<1>1. PICK uploaded \in Uploaded :
        /\ testcases = [k \in DOMAIN uploaded |-> [order |-> k, content |-> uploaded[k]]]
        /\ published =
            IF uploaded = <<>>
            THEN <<new>>
            ELSE <<new, [testcase_count |-> Len(uploaded),
                         testcases |-> {[order |-> k, content |-> uploaded[k]] :
                                            k \in DOMAIN uploaded}]>>
    BY DEF Init
<1>2. PICK n \in Nat : n = Len(uploaded) /\ DOMAIN uploaded = 1 .. n
    BY UploadedAssumption, LenProperties
<1>3. /\ uploaded \in Seq(Content)
      /\ \A k \in 1 .. n : uploaded[k] \in Content
    BY <1>2, UploadedAssumption, ElementOfSeq
<1>4. /\ DOMAIN testcases = 1 .. n
      /\ \A k \in 1 .. n : testcases[k] = [order |-> k, content |-> uploaded[k]]
    BY <1>1, <1>2
<1>5. IsFiniteSet(1 .. n) /\ Cardinality(1 .. n) = n
    BY FS_Interval
<1>6. OrdersAreUnique(testcases) /\ OrdersOf(testcases) = 1 .. n
    BY <1>4 DEF OrdersAreUnique, OrdersOf
<1>7. PICK rows : rows = {testcases[r] : r \in DOMAIN testcases}
    OBVIOUS
<1>8. ListOf(rows) = uploaded
    <2>1. \A r \in DOMAIN testcases :
            /\ testcases[r].content \in Content
            /\ uploaded[testcases[r].order] = testcases[r].content
        BY <1>3, <1>4
    <2>. QED
        BY <1>2, <1>3, <1>4, <1>5, <1>6, <1>7, <2>1, ListIs
<1>9. published = IF uploaded = <<>> THEN <<new>>
                  ELSE <<new, [testcase_count |-> n, testcases |-> rows]>>
    <2>1. rows = {[order |-> k, content |-> uploaded[k]] : k \in DOMAIN uploaded}
        BY <1>2, <1>4, <1>7
    <2>. QED
        BY <1>1, <1>2, <2>1, Zenon
<1>10. TheVersions = IF uploaded = <<>> THEN << <<>> >> ELSE << <<>>, uploaded >>
    <2>1. CASE uploaded = <<>>
        <3>1. DOMAIN published = 1 .. 1 /\ published[1].testcases = {}
            BY <1>9, <2>1
        <3>2. TheVersions = [v \in 1 .. 1 |-> <<>>]
            <4>1. TheVersions = [v \in 1 .. 1 |-> ListOf(published[v].testcases)]
                BY <3>1 DEF TheVersions
            <4>2. \A v \in 1 .. 1 : ListOf(published[v].testcases) = <<>>
                <5>1. \A v \in 1 .. 1 : v = 1
                    OBVIOUS
                <5>. QED
                    BY <3>1, <5>1, EmptyList, Zenon
            <4>. QED
                BY <4>1, <4>2, Zenon
        <3>. QED
            BY <2>1, <3>2, ShortTuples, Zenon
    <2>2. CASE uploaded # <<>>
        <3>1. /\ DOMAIN published = 1 .. 2 /\ published[1].testcases = {}
              /\ published[2].testcases = rows
            BY <1>9, <2>2
        <3>2. TheVersions = [v \in 1 .. 2 |-> IF v = 1 THEN <<>> ELSE uploaded]
            <4>1. TheVersions = [v \in 1 .. 2 |-> ListOf(published[v].testcases)]
                BY <3>1 DEF TheVersions
            <4>2. \A v \in 1 .. 2 :
                    ListOf(published[v].testcases) = IF v = 1 THEN <<>> ELSE uploaded
                <5>1. \A v \in 1 .. 2 : v = 1 \/ (v = 2 /\ v # 1)
                    OBVIOUS
                <5>. QED
                    BY <1>8, <3>1, <5>1, EmptyList, Zenon
            <4>. QED
                BY <4>1, <4>2, Zenon
        <3>. QED
            BY <2>2, <3>2, ShortTuples, Zenon
    <2>. QED
        BY <2>1, <2>2
<1>11. TheList = uploaded
    BY <1>7, <1>8 DEF TheList
<1>. QED
    BY <1>10, <1>11 DEF List!Init, TheList, TheVersions

LEMMA CommitIsEdit ==
    ASSUME KInv, NEW s \in Session, Commit(s), ~RollBack(s)
    PROVE  List!Next
<1>1. PICK list : list = TheList
    OBVIOUS
<1>2. PICK new : new = ListOf(Rows(s))
    OBVIOUS
<1>3. PICK n : n = version
    OBVIOUS
<1>4. /\ tx[s] # Null /\ Len(tx[s].todo) = 1 /\ testcases' = View(s) /\ OrdersAreUnique(View(s))
      /\ n \in Nat /\ DOMAIN published = 1 .. n
      /\ published' =
            [v \in DOMAIN published \cup {n + 1} |->
                IF v = n + 1
                THEN [testcase_count |-> Cardinality(DOMAIN View(s)), testcases |-> Rows(s)]
                ELSE published[v]]
    BY <1>3, CommitEffect DEF KInv, IInv, VersionsAreNumbered
<1>5. TheList' = new
    BY <1>2, <1>4 DEF TheList, Rows
<1>6. TheVersions' = Append(TheVersions, new)
    <2>1. PICK old : old = TheVersions
        OBVIOUS
    <2>2. PICK later : later = TheVersions'
        OBVIOUS
    <2>3. DOMAIN published' = 1 .. n + 1
        BY <1>4
    <2>4. /\ later = [v \in 1 .. n + 1 |-> ListOf(published'[v].testcases)]
          /\ old = [v \in 1 .. n |-> ListOf(published[v].testcases)]
        BY <1>4, <2>1, <2>2, <2>3 DEF TheVersions
    <2>5. published'[n + 1].testcases = Rows(s) /\ \A v \in 1 .. n : published'[v] = published[v]
        BY <1>4
    <2>6. later[n + 1] = new /\ \A v \in 1 .. n : later[v] = old[v]
        BY <1>2, <1>4, <2>4, <2>5
    <2>7. PICK S : S = {later[v] : v \in 1 .. n + 1}
        OBVIOUS
    <2>8. old \in Seq(S) /\ later \in Seq(S) /\ Len(old) = n /\ Len(later) = n + 1 /\ new \in S
        <3>1. new \in S /\ \A v \in 1 .. n : old[v] \in S
            BY <1>4, <2>6, <2>7
        <3>2. old \in [1 .. n -> S]
            BY <2>4, <3>1
        <3>3. later \in [1 .. n + 1 -> S]
            BY <2>4, <2>7
        <3>. QED
            BY <1>4, <3>1, <3>2, <3>3
    <2>9. PICK longer : longer = Append(old, new)
        OBVIOUS
    <2>10. /\ longer \in Seq(S) /\ Len(longer) = n + 1
           /\ \A v \in 1 .. n : longer[v] = old[v]
           /\ longer[n + 1] = new
        BY <2>8, <2>9, AppendProperties
    <2>11. \A v \in 1 .. n + 1 : longer[v] = later[v]
        BY <1>4, <2>6, <2>10
    <2>12. longer = later
        BY <2>8, <2>10, <2>11, SeqEqual
    <2>. QED
        BY <2>1, <2>2, <2>9, <2>12
<1>7. IsEditOf(list, new)
    BY <1>1, <1>2, <1>4, CommittedList
<1>8. List!Edit(new)
    BY <1>5, <1>6 DEF List!Edit, TheList, TheVersions
<1>9. CASE \E c \in Content : new = Append(list, c)
    BY <1>1, <1>8, <1>9 DEF List!Next, List!Keep, List!Create, TheList
<1>10. CASE \E k \in DOMAIN list, c \in Content : new = [list EXCEPT ![k] = c]
    BY <1>1, <1>8, <1>10 DEF List!Next, List!Keep, List!Set, TheList
<1>11. CASE \E k, l \in DOMAIN list : k # l /\ new = MovedTo(list, k, l)
    BY <1>1, <1>8, <1>11 DEF List!Next, List!Keep, List!Move, TheList, MovedTo
<1>12. CASE new = list
    BY <1>1, <1>8, <1>12 DEF List!Next, List!Keep, List!EditOther, TheList
<1>13. CASE \E k \in DOMAIN list : new = List!RemoveAt(list, k)
    BY <1>1, <1>8, <1>13 DEF List!Next, List!Delete, TheList
<1>14. CASE new \in NewLists /\ new # list
    BY <1>1, <1>8, <1>14 DEF List!Next, List!Replace, TheList, NewLists
<1>. QED
    BY <1>7, <1>9, <1>10, <1>11, <1>12, <1>13, <1>14 DEF IsEditOf

(* As long as an edit that deletes testcases meets no other, whatever else *)
(* is edited at the same time: edits are atomic edits of a list.           *)
THEOREM DeletingAloneIsEditingAList == Spec /\ []DeletionsAreAlone => ImplementsTestcaseList
<1>1. ASSUME KInv, [Next]_vars
      PROVE  [List!Next]_List!listVars
    <2>1. CASE UNCHANGED <<testcases, published>>
        BY <2>1 DEF List!listVars
    <2>2. CASE ~UNCHANGED <<testcases, published>>
        <3>1. PICK s \in Session :
                \/ Commit(s)
                \/ UNCHANGED <<testcases, testcase_count, version, published>>
            BY <1>1, <2>2, Zenon
            DEF Next, vars, Begin, Fail, Execute, Write, GetTestcase, CountRows, Insert,
                IncreaseCount, DecreaseCount, ClearCount, SetCount, IncreaseVersion, ReadManifest,
                Publish, RollBack, Done
        <3>2. Commit(s) /\ ~RollBack(s)
            BY <2>2, <3>1 DEF RollBack
        <3>. QED
            BY <1>1, <3>2, CommitIsEdit
    <2>. QED
        BY <2>1, <2>2
<1>. QED
    BY <1>1, InitIsList, SpecKeeps, PTL DEF Spec, ImplementsTestcaseList, List!Spec

(* As long as no edit deletes testcases, edits are atomic edits of a list. *)
THEOREM KeepingEditsAreEditsOfAList ==
    ASSUME EditsKeepTestcases
    PROVE  Spec => ImplementsTestcaseList
BY KeepingIsAlone, DeletingAloneIsEditingAList, PTL
=============================================================================
