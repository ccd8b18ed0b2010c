-------------------------- MODULE TransactionProofs --------------------------
(***************************************************************************)
(* Proofs about the transactions of the repositories: the edits of a       *)
(* problem (ProblemContent), the loop that tries a transaction again       *)
(* (TransactionRetry), and the order in which rows are locked              *)
(* (CounterLocks).                                                         *)
(***************************************************************************)
EXTENDS Transactions, FiniteSetTheorems, SequenceTheorems, WellFoundedInduction, TLAPS

(***************************************************************************)
(* Proofs about ProblemContent: whatever edits of a problem run at the     *)
(* same time, the sample count is the number of samples, the current       *)
(* version has the current limits and no published version changes, for    *)
(* any number of transactions.                                             *)
(***************************************************************************)

(* The last statements of a delete, once the sample is gone, and those of  *)
(* any edit that has its version.                                          *)
Deleted == {"decrease", "version", "publish", "commit"}
Versioned == {"publish", "commit"}

Steps(kind) ==
    CASE kind = "create" -> {"take_order", "insert", "get_version", "commit"}
      [] kind = "delete" -> {"list", "find", "remove"} \cup Deleted
      [] OTHER -> {kind, "version"} \cup Versioned

Edits == {"create", "delete", "set", "limits", "title", "statement"}

Names == {"take_order", "insert", "get_version", "list", "find", "remove", "decrease", "set",
          "limits", "title", "statement", "version", "publish", "commit"}

Rows == {Statement, Problem, LimitsRow} \cup {Sample(order) : order \in Int}

Transaction ==
    [kind : Edits, at : Names, holds : SUBSET Rows,
     order : Int, count : Int, limits : Limits, version : Int, manifest : Limits \cup {None}]

(* Which locks a transaction has, told by how far it is.                   *)
HasItsLocks(x) ==
    /\ Statement \in x.holds <=>
           \/ x.kind = "create" /\ x.at # "take_order"
           \/ x.kind = "delete" /\ x.at \in {"version", "publish", "commit"}
           \/ x.kind = "statement" /\ x.at # "statement"
    /\ Problem \in x.holds <=>
           \/ x.kind # "create" /\ x.at \in Versioned
           \/ x.kind = "title" /\ x.at = "version"
    /\ LimitsRow \in x.holds <=> x.kind = "limits" /\ x.at # "limits"
    /\ x.kind = "create" /\ x.at \in {"get_version", "commit"} => Sample(x.order) \in x.holds
    /\ x.kind = "delete" /\ x.at \in Deleted => Sample(x.order) \in x.holds

(* What it knows of the rows it has locked is still so.                    *)
KnowsTheSamples(x) ==
    /\ x.kind = "create" /\ x.at # "take_order" =>
           x.count = count + 1 /\ x.order = count + 1 /\ x.order \in Orders
    /\ x.kind = "delete" /\ Statement \in x.holds => x.count = count - 1
    /\ x.kind = "statement" /\ Statement \in x.holds => x.count = count
    /\ x.kind = "create" /\ x.at \in {"get_version", "commit"} => x.order \notin samples
    /\ x.kind = "delete" /\ x.at \in Deleted => x.order \in samples

Sees(x) == IF LimitsRow \in x.holds THEN x.limits ELSE limits

KnowsTheVersion(x) ==
    /\ x.kind # "create" /\ x.at \in Versioned =>
           x.version = version + 1 /\ x.version <= MaxVersion
    /\ x.kind # "create" /\ x.at = "commit" => x.manifest = Sees(x)
    /\ x.kind = "create" => x.manifest = None

Good(x) ==
    /\ x \in Transaction
    /\ x.at \in Steps(x.kind)
    /\ HasItsLocks(x)
    /\ KnowsTheSamples(x)
    /\ KnowsTheVersion(x)

TransactionsAreGood == \A t \in Transactions : tx[t] # None => Good(tx[t])

LocksAreExclusive ==
    \A t, u \in Transactions :
        t # u /\ tx[t] # None /\ tx[u] # None => tx[t].holds \cap tx[u].holds = {}

CommittedIsRight ==
    /\ samples \in SUBSET Orders /\ IsFiniteSet(samples) /\ count = Cardinality(samples)
    /\ limits \in Limits
    /\ version \in 1 .. MaxVersion
    /\ published \in [1 .. MaxVersion -> Limits \cup {None}]
    /\ published[version] = limits
    /\ \A v \in 1 .. MaxVersion : v > version => published[v] = None

IInv ==
    /\ CommittedIsRight
    /\ DOMAIN tx = Transactions /\ tx = [t \in Transactions |-> tx[t]]
    /\ TransactionsAreGood
    /\ LocksAreExclusive

LEMMA RowsDiffer ==
    /\ {Statement, Problem, LimitsRow} \subseteq Rows /\ \A order \in Int : Sample(order) \in Rows
    /\ Statement # Problem /\ Statement # LimitsRow /\ Problem # LimitsRow
    /\ \A order : Sample(order) \notin {Statement, Problem, LimitsRow}
    /\ \A order, other : Sample(order) = Sample(other) => order = other
BY DEF Statement, Problem, LimitsRow, Sample, Rows

LEMMA InitInvariant == Init => IInv
<1>. SUFFICES ASSUME Init PROVE IInv
    OBVIOUS
<1>1. IsFiniteSet({}) /\ Cardinality({}) = 0
    BY FS_EmptySet
<1>. QED
    BY <1>1, ProblemContentAssumption DEF Init, IInv, CommittedIsRight, TransactionsAreGood, LocksAreExclusive

(* A step that commits nothing changes one transaction.                    *)
LEMMA QuietStep ==
    ASSUME IInv, NEW t \in Transactions, NEW x,
           tx' = [tx EXCEPT ![t] = x],
           UNCHANGED <<samples, count, limits, version, published>>,
           x # None => Good(x) /\ \A u \in Transactions \ {t} :
                                       tx[u] # None => x.holds \cap tx[u].holds = {}
    PROVE  IInv'
<1>1. CommittedIsRight'
    BY DEF IInv, CommittedIsRight
<1>2. \A y : Good(y) => Good(y)'
    BY DEF Good, KnowsTheSamples, KnowsTheVersion, Sees
<1>3. TransactionsAreGood'
    BY <1>2 DEF IInv, TransactionsAreGood
<1>4. LocksAreExclusive'
    BY DEF IInv, LocksAreExclusive
<1>. QED
    BY <1>1, <1>3, <1>4 DEF IInv

(* A statement that takes a free row, or none.                             *)
LEMMA ExecutedStep ==
    ASSUME IInv, NEW t \in Transactions, tx[t] # None, NEW x, NEW row,
           IsFree(t, row), x.holds \subseteq tx[t].holds \cup {row},
           tx' = [tx EXCEPT ![t] = x],
           UNCHANGED <<samples, count, limits, version, published>>,
           Good(x)
    PROVE  IInv'
<1>1. \A u \in Transactions \ {t} : tx[u] # None => x.holds \cap tx[u].holds = {}
    BY DEF IInv, LocksAreExclusive, IsFree
<1>. QED
    BY <1>1, QuietStep

LEMMA RollBackStep ==
    ASSUME IInv, NEW t \in Transactions, RollsBack(t)
    PROVE  IInv'
BY QuietStep DEF RollsBack

LEMMA BeginStep ==
    ASSUME IInv, NEW t \in Transactions, Begin(t)
    PROVE  IInv'
<1>1. PICK kind \in Kinds, order \in Orders, value \in Limits :
          tx' = [tx EXCEPT ![t] =
               [kind |-> kind, at |-> First(kind), holds |-> {}, order |-> order,
                count |-> 0, limits |-> value, version |-> 0, manifest |-> None]]
    BY DEF Begin
<1>. DEFINE x == [kind |-> kind, at |-> First(kind), holds |-> {}, order |-> order,
                  count |-> 0, limits |-> value, version |-> 0, manifest |-> None]
<1>2. kind \in Edits /\ First(kind) \in Steps(kind) /\ order \in Int /\ First(kind) \in Names
    BY ProblemContentAssumption DEF Edits, First, Steps, Orders, Names
<1>3. x \in Transaction
    BY <1>2 DEF Transaction
<1>4. Good(x)
    BY <1>2, <1>3
    DEF Good, Edits, First, Steps, HasItsLocks, KnowsTheSamples, KnowsTheVersion, Deleted, Versioned
<1>. QED
    BY <1>1, <1>4, QuietStep DEF Begin

(* The shapes the statements leave a transaction in.                       *)
LEMMA Typing ==
    ASSUME NEW x \in Transaction, NEW s \in Names
    PROVE  /\ [x EXCEPT !.at = s] \in Transaction
           /\ \A row \in Rows : [x EXCEPT !.holds = @ \cup {row}, !.at = s] \in Transaction
           /\ \A row \in Rows, c \in Int :
                  /\ [x EXCEPT !.holds = @ \cup {row}, !.count = c, !.at = s] \in Transaction
                  /\ [x EXCEPT !.holds = @ \cup {row}, !.version = c, !.at = s] \in Transaction
           /\ \A row \in Rows, c, o \in Int :
                  [x EXCEPT !.holds = @ \cup {row}, !.count = c, !.order = o, !.at = s] \in Transaction
           /\ \A c \in Int : /\ [x EXCEPT !.order = c, !.at = s] \in Transaction
                              /\ [x EXCEPT !.version = c, !.at = s] \in Transaction
           /\ \A m \in Limits : [x EXCEPT !.manifest = m, !.at = s] \in Transaction
BY DEF Transaction

(* What is known of an open transaction at one of its statements.          *)
LEMMA OpenTransaction ==
    ASSUME IInv, NEW t \in Transactions, NEW statement, At(t, statement)
    PROVE  tx[t] # None /\ Good(tx[t]) /\ tx[t].at = statement
BY DEF IInv, TransactionsAreGood, At

LEMMA TakeOrderStep ==
    ASSUME IInv, NEW t \in Transactions, TakeOrder(t)
    PROVE  IInv'
<1>. DEFINE x == [tx[t] EXCEPT !.holds = @ \cup {Statement}, !.count = count + 1,
                               !.order = count + 1, !.at = "insert"]
<1>1. Good(tx[t]) /\ tx[t].at = "take_order" /\ tx[t] # None /\ count \in Nat
    BY OpenTransaction, FS_CardinalityType DEF TakeOrder, IInv, CommittedIsRight
<1>7. count + 1 \in Orders
    BY <1>1, ProblemContentAssumption DEF TakeOrder, Orders
<1>2. tx[t].kind = "create"
    BY <1>1 DEF Good, Transaction, Steps, Edits, Deleted, Versioned
<1>3. x \in Transaction
    <2>1. tx[t] \in Transaction /\ Statement \in Rows /\ "insert" \in Names
        BY <1>1, RowsDiffer DEF Good, Names
    <2>2. count + 1 \in Int
        BY <1>1
    <2>. QED
        BY <2>1, <2>2, Typing
<1>4. Good(x)
    BY <1>1, <1>2, <1>3, <1>7, RowsDiffer
    DEF Good, Transaction, Steps, HasItsLocks, KnowsTheSamples, KnowsTheVersion, Deleted, Versioned
<1>5. tx' = [tx EXCEPT ![t] = x]
    BY <1>1 DEF TakeOrder, Executed, After, Good, Transaction
<1>6. x.holds \subseteq tx[t].holds \cup {Statement}
    BY <1>1 DEF Good, Transaction
<1>. HIDE DEF x
<1>. QED
    BY <1>1, <1>4, <1>5, <1>6, ExecutedStep DEF TakeOrder, Executed

(* A statement that takes no lock.                                         *)
LEMMA KeptLocksStep ==
    ASSUME IInv, NEW t \in Transactions, tx[t] # None, NEW x,
           x.holds = tx[t].holds,
           tx' = [tx EXCEPT ![t] = x],
           UNCHANGED <<samples, count, limits, version, published>>,
           Good(x)
    PROVE  IInv'
<1>1. \A u \in Transactions \ {t} : tx[u] # None => x.holds \cap tx[u].holds = {}
    BY DEF IInv, LocksAreExclusive
<1>. QED
    BY <1>1, QuietStep

LEMMA InsertStep ==
    ASSUME IInv, NEW t \in Transactions, Insert(t)
    PROVE  IInv'
<1>. DEFINE x == [tx[t] EXCEPT !.holds = @ \cup {Sample(tx[t].order)}, !.at = "get_version"]
<1>1. Good(tx[t]) /\ tx[t].at = "insert" /\ tx[t] # None
    BY OpenTransaction DEF Insert
<1>2. tx[t].kind = "create"
    BY <1>1 DEF Good, Transaction, Steps, Edits, Deleted, Versioned
<1>r. CASE ~ (tx[t].order \notin samples)
    BY <1>r, RollBackStep DEF Insert
<1>a. SUFFICES ASSUME tx[t].order \notin samples PROVE IInv'
    BY <1>r
<1>3. x \in Transaction
    <2>1. tx[t] \in Transaction /\ "get_version" \in Names /\ Sample(tx[t].order) \in Rows
        BY <1>1, RowsDiffer DEF Good, Transaction, Names
    <2>. QED
        BY <2>1, Typing
<1>4. Good(x)
    BY <1>1, <1>2, <1>3, RowsDiffer, <1>a
    DEF Good, Transaction, Steps, HasItsLocks, KnowsTheSamples, KnowsTheVersion, Deleted, Versioned
<1>5. tx' = [tx EXCEPT ![t] = x]
    BY <1>1, <1>a DEF Insert, Executed, After, Good, Transaction
<1>6. x.holds \subseteq tx[t].holds \cup {Sample(tx[t].order)}
    BY <1>1 DEF Good, Transaction
<1>. HIDE DEF x
<1>. QED
    BY <1>1, <1>4, <1>5, <1>6, <1>a, ExecutedStep DEF Insert, Executed

LEMMA GetVersionStep ==
    ASSUME IInv, NEW t \in Transactions, GetVersion(t)
    PROVE  IInv'
<1>. DEFINE x == [tx[t] EXCEPT !.version = version, !.at = "commit"]
<1>1. Good(tx[t]) /\ tx[t].at = "get_version" /\ tx[t] # None /\ version \in Int
    BY OpenTransaction DEF GetVersion, IInv, CommittedIsRight
<1>2. tx[t].kind = "create"
    BY <1>1 DEF Good, Transaction, Steps, Edits, Deleted, Versioned
<1>3. x \in Transaction
    <2>1. tx[t] \in Transaction /\ "commit" \in Names
        BY <1>1 DEF Good, Transaction, Names
    <2>. QED
        BY <1>1, <2>1, Typing
<1>4. Good(x)
    BY <1>1, <1>2, <1>3, RowsDiffer
    DEF Good, Transaction, Steps, HasItsLocks, KnowsTheSamples, KnowsTheVersion, Deleted, Versioned
<1>5. tx' = [tx EXCEPT ![t] = x]
    BY <1>1 DEF GetVersion, Executed, After, Good, Transaction
<1>6. x.holds = tx[t].holds
    BY <1>1 DEF Good, Transaction
<1>. HIDE DEF x
<1>. QED
    BY <1>1, <1>4, <1>5, <1>6, KeptLocksStep DEF GetVersion, Executed

LEMMA RemoveStep ==
    ASSUME IInv, NEW t \in Transactions, Remove(t)
    PROVE  IInv'
<1>. DEFINE x == [tx[t] EXCEPT !.holds = @ \cup {Sample(tx[t].order)}, !.at = "decrease"]
<1>1. Good(tx[t]) /\ tx[t].at = "remove" /\ tx[t] # None
    BY OpenTransaction DEF Remove
<1>2. tx[t].kind = "delete"
    BY <1>1 DEF Good, Transaction, Steps, Edits, Deleted, Versioned
<1>r. CASE ~ (tx[t].order \in samples)
    BY <1>r, RollBackStep DEF Remove
<1>a. SUFFICES ASSUME tx[t].order \in samples PROVE IInv'
    BY <1>r
<1>3. x \in Transaction
    <2>1. tx[t] \in Transaction /\ "decrease" \in Names /\ Sample(tx[t].order) \in Rows
        BY <1>1, RowsDiffer DEF Good, Transaction, Names
    <2>. QED
        BY <2>1, Typing
<1>4. Good(x)
    BY <1>1, <1>2, <1>3, RowsDiffer, <1>a
    DEF Good, Transaction, Steps, HasItsLocks, KnowsTheSamples, KnowsTheVersion, Deleted, Versioned
<1>5. tx' = [tx EXCEPT ![t] = x]
    BY <1>1, <1>a DEF Remove, Executed, After, Good, Transaction
<1>6. x.holds \subseteq tx[t].holds \cup {Sample(tx[t].order)}
    BY <1>1 DEF Good, Transaction
<1>. HIDE DEF x
<1>. QED
    BY <1>1, <1>4, <1>5, <1>6, <1>a, ExecutedStep DEF Remove, Executed

LEMMA DecreaseStep ==
    ASSUME IInv, NEW t \in Transactions, Decrease(t)
    PROVE  IInv'
<1>. DEFINE x == [tx[t] EXCEPT !.holds = @ \cup {Statement}, !.count = count - 1, !.at = "version"]
<1>1. Good(tx[t]) /\ tx[t].at = "decrease" /\ tx[t] # None /\ count \in Int
    BY OpenTransaction, FS_CardinalityType DEF Decrease, IInv, CommittedIsRight
<1>2. tx[t].kind = "delete"
    BY <1>1 DEF Good, Transaction, Steps, Edits, Deleted, Versioned
<1>r. CASE ~ (count > 0)
    BY <1>r, RollBackStep DEF Decrease
<1>a. SUFFICES ASSUME count > 0 PROVE IInv'
    BY <1>r
<1>3. x \in Transaction
    <2>1. tx[t] \in Transaction /\ "version" \in Names /\ Statement \in Rows /\ count - 1 \in Int
        BY <1>1, RowsDiffer DEF Good, Transaction, Names
    <2>. QED
        BY <2>1, Typing
<1>4. Good(x)
    BY <1>1, <1>2, <1>3, RowsDiffer, <1>a
    DEF Good, Transaction, Steps, HasItsLocks, KnowsTheSamples, KnowsTheVersion, Deleted, Versioned
<1>5. tx' = [tx EXCEPT ![t] = x]
    BY <1>1, <1>a DEF Decrease, Executed, After, Good, Transaction
<1>6. x.holds \subseteq tx[t].holds \cup {Statement}
    BY <1>1 DEF Good, Transaction
<1>. HIDE DEF x
<1>. QED
    BY <1>1, <1>4, <1>5, <1>6, <1>a, ExecutedStep DEF Decrease, Executed

LEMMA SetSampleStep ==
    ASSUME IInv, NEW t \in Transactions, SetSample(t)
    PROVE  IInv'
<1>. DEFINE x == [tx[t] EXCEPT !.holds = @ \cup {Sample(tx[t].order)}, !.at = "version"]
<1>1. Good(tx[t]) /\ tx[t].at = "set" /\ tx[t] # None
    BY OpenTransaction DEF SetSample
<1>2. tx[t].kind = "set"
    BY <1>1 DEF Good, Transaction, Steps, Edits, Deleted, Versioned
<1>r. CASE ~ (tx[t].order \in samples)
    BY <1>r, RollBackStep DEF SetSample
<1>a. SUFFICES ASSUME tx[t].order \in samples PROVE IInv'
    BY <1>r
<1>3. x \in Transaction
    <2>1. tx[t] \in Transaction /\ "version" \in Names /\ Sample(tx[t].order) \in Rows
        BY <1>1, RowsDiffer DEF Good, Transaction, Names
    <2>. QED
        BY <2>1, Typing
<1>4. Good(x)
    BY <1>1, <1>2, <1>3, RowsDiffer, <1>a
    DEF Good, Transaction, Steps, HasItsLocks, KnowsTheSamples, KnowsTheVersion, Deleted, Versioned
<1>5. tx' = [tx EXCEPT ![t] = x]
    BY <1>1, <1>a DEF SetSample, Executed, After, Good, Transaction
<1>6. x.holds \subseteq tx[t].holds \cup {Sample(tx[t].order)}
    BY <1>1 DEF Good, Transaction
<1>. HIDE DEF x
<1>. QED
    BY <1>1, <1>4, <1>5, <1>6, <1>a, ExecutedStep DEF SetSample, Executed

LEMMA SetLimitsStep ==
    ASSUME IInv, NEW t \in Transactions, SetLimits(t)
    PROVE  IInv'
<1>. DEFINE x == [tx[t] EXCEPT !.holds = @ \cup {LimitsRow}, !.at = "version"]
<1>1. Good(tx[t]) /\ tx[t].at = "limits" /\ tx[t] # None
    BY OpenTransaction DEF SetLimits
<1>2. tx[t].kind = "limits"
    BY <1>1 DEF Good, Transaction, Steps, Edits, Deleted, Versioned
<1>3. x \in Transaction
    <2>1. tx[t] \in Transaction /\ "version" \in Names /\ LimitsRow \in Rows
        BY <1>1, RowsDiffer DEF Good, Transaction, Names
    <2>. QED
        BY <2>1, Typing
<1>4. Good(x)
    BY <1>1, <1>2, <1>3, RowsDiffer
    DEF Good, Transaction, Steps, HasItsLocks, KnowsTheSamples, KnowsTheVersion, Deleted, Versioned
<1>5. tx' = [tx EXCEPT ![t] = x]
    BY <1>1 DEF SetLimits, Executed, After, Good, Transaction
<1>6. x.holds \subseteq tx[t].holds \cup {LimitsRow}
    BY <1>1 DEF Good, Transaction
<1>. HIDE DEF x
<1>. QED
    BY <1>1, <1>4, <1>5, <1>6, ExecutedStep DEF SetLimits, Executed

LEMMA SetTitleStep ==
    ASSUME IInv, NEW t \in Transactions, SetTitle(t)
    PROVE  IInv'
<1>. DEFINE x == [tx[t] EXCEPT !.holds = @ \cup {Problem}, !.at = "version"]
<1>1. Good(tx[t]) /\ tx[t].at = "title" /\ tx[t] # None
    BY OpenTransaction DEF SetTitle
<1>2. tx[t].kind = "title"
    BY <1>1 DEF Good, Transaction, Steps, Edits, Deleted, Versioned
<1>3. x \in Transaction
    <2>1. tx[t] \in Transaction /\ "version" \in Names /\ Problem \in Rows
        BY <1>1, RowsDiffer DEF Good, Transaction, Names
    <2>. QED
        BY <2>1, Typing
<1>4. Good(x)
    BY <1>1, <1>2, <1>3, RowsDiffer
    DEF Good, Transaction, Steps, HasItsLocks, KnowsTheSamples, KnowsTheVersion, Deleted, Versioned
<1>5. tx' = [tx EXCEPT ![t] = x]
    BY <1>1 DEF SetTitle, Executed, After, Good, Transaction
<1>6. x.holds \subseteq tx[t].holds \cup {Problem}
    BY <1>1 DEF Good, Transaction
<1>. HIDE DEF x
<1>. QED
    BY <1>1, <1>4, <1>5, <1>6, ExecutedStep DEF SetTitle, Executed

LEMMA SetStatementStep ==
    ASSUME IInv, NEW t \in Transactions, SetStatement(t)
    PROVE  IInv'
<1>. DEFINE x == [tx[t] EXCEPT !.holds = @ \cup {Statement}, !.count = count, !.at = "version"]
<1>1. Good(tx[t]) /\ tx[t].at = "statement" /\ tx[t] # None /\ count \in Int
    BY OpenTransaction, FS_CardinalityType DEF SetStatement, IInv, CommittedIsRight
<1>2. tx[t].kind = "statement"
    BY <1>1 DEF Good, Transaction, Steps, Edits, Deleted, Versioned
<1>3. x \in Transaction
    <2>1. tx[t] \in Transaction /\ "version" \in Names /\ Statement \in Rows
        BY <1>1, RowsDiffer DEF Good, Transaction, Names
    <2>. QED
        BY <1>1, <2>1, Typing
<1>4. Good(x)
    BY <1>1, <1>2, <1>3, RowsDiffer
    DEF Good, Transaction, Steps, HasItsLocks, KnowsTheSamples, KnowsTheVersion, Deleted, Versioned
<1>5. tx' = [tx EXCEPT ![t] = x]
    BY <1>1 DEF SetStatement, Executed, After, Good, Transaction
<1>6. x.holds \subseteq tx[t].holds \cup {Statement}
    BY <1>1 DEF Good, Transaction
<1>. HIDE DEF x
<1>. QED
    BY <1>1, <1>4, <1>5, <1>6, ExecutedStep DEF SetStatement, Executed

LEMMA IncreaseVersionStep ==
    ASSUME IInv, NEW t \in Transactions, IncreaseVersion(t)
    PROVE  IInv'
<1>. DEFINE x == [tx[t] EXCEPT !.holds = @ \cup {Problem}, !.version = version + 1, !.at = "publish"]
<1>1. Good(tx[t]) /\ tx[t].at = "version" /\ tx[t] # None /\ version \in Int
    BY OpenTransaction DEF IncreaseVersion, IInv, CommittedIsRight
<1>7. version + 1 <= MaxVersion
    BY <1>1, ProblemContentAssumption DEF IncreaseVersion
<1>2. tx[t].kind # "create"
    BY <1>1 DEF Good, Transaction, Steps, Edits, Deleted, Versioned
<1>3. x \in Transaction
    <2>1. tx[t] \in Transaction /\ "publish" \in Names /\ Problem \in Rows /\ version + 1 \in Int
        BY <1>1, RowsDiffer DEF Good, Transaction, Names
    <2>. QED
        BY <2>1, Typing
<1>4. Good(x)
    BY <1>1, <1>2, <1>3, <1>7, RowsDiffer
    DEF Good, Transaction, Steps, HasItsLocks, KnowsTheSamples, KnowsTheVersion, Deleted, Versioned
<1>5. tx' = [tx EXCEPT ![t] = x]
    BY <1>1 DEF IncreaseVersion, Executed, After, Good, Transaction
<1>6. x.holds \subseteq tx[t].holds \cup {Problem}
    BY <1>1 DEF Good, Transaction
<1>. HIDE DEF x
<1>. QED
    BY <1>1, <1>4, <1>5, <1>6, ExecutedStep DEF IncreaseVersion, Executed

LEMMA PublishStep ==
    ASSUME IInv, NEW t \in Transactions, Publish(t)
    PROVE  IInv'
<1>. DEFINE x == [tx[t] EXCEPT !.manifest = VisibleLimits(t), !.at = "commit"]
<1>1. Good(tx[t]) /\ tx[t].at = "publish" /\ tx[t] # None /\ limits \in Limits
    BY OpenTransaction DEF Publish, IInv, CommittedIsRight
<1>2. tx[t].kind # "create"
    BY <1>1 DEF Good, Transaction, Steps, Edits, Deleted, Versioned
<1>3. x \in Transaction
    <2>1. tx[t] \in Transaction /\ "commit" \in Names /\ VisibleLimits(t) \in Limits
        BY <1>1 DEF Good, Transaction, Names, VisibleLimits
    <2>. QED
        BY <2>1, Typing
<1>4. Good(x)
    BY <1>1, <1>2, <1>3, RowsDiffer
    DEF Good, Transaction, Steps, HasItsLocks, KnowsTheSamples, KnowsTheVersion, Deleted, Versioned, Sees, VisibleLimits
<1>5. tx' = [tx EXCEPT ![t] = x]
    BY <1>1 DEF Publish, Executed, After, Good, Transaction
<1>6. x.holds = tx[t].holds
    BY <1>1 DEF Good, Transaction
<1>. HIDE DEF x
<1>. QED
    BY <1>1, <1>4, <1>5, <1>6, KeptLocksStep DEF Publish, Executed

Less == {pair \in Nat \X Nat : pair[1] < pair[2]}

LEMMA LeastNumber ==
    ASSUME NEW S, S \subseteq Nat, S # {}
    PROVE  \E x \in S : \A y \in S : x <= y
<1>1. IsWellFoundedOn(Less, Nat)
    BY NatLessThanWellFounded DEF OpToRel, Less
<1>2. PICK x \in S : \A y \in S : ~ (<<y, x>> \in Less)
    BY <1>1, WFMin
<1>3. \A y \in S : ~ (y < x)
    BY <1>2 DEF Less
<1>. QED
    BY <1>3

(* The greatest order there is, found by the least distance to the bound.  *)
LEMMA MaxIsMember ==
    ASSUME NEW S \in SUBSET Orders, S # {}
    PROVE  Max(S) \in S /\ \A s \in S : Max(S) >= s
<1>. DEFINE distances == {MaxSamples - s : s \in S}
<1>1. MaxSamples \in Nat /\ \A s \in S : s \in Int /\ MaxSamples - s \in Nat
    BY ProblemContentAssumption DEF Orders
<1>2. distances \subseteq Nat
    BY <1>1
<1>3. distances # {}
    <2>1. PICK s \in S : TRUE
        OBVIOUS
    <2>2. MaxSamples - s \in distances
        OBVIOUS
    <2>. QED
        BY <2>2
<1>4. \E d \in distances : \A e \in distances : d <= e
    <2>. HIDE DEF distances
    <2>. QED
        BY <1>2, <1>3, LeastNumber
<1>5. PICK s \in S : \A other \in S : MaxSamples - s <= MaxSamples - other
    BY <1>4
<1>6. \A other \in S : s >= other
    BY <1>1, <1>5, ProblemContentAssumption
<1>. QED
    BY <1>6 DEF Max

LEMMA ListStep ==
    ASSUME IInv, NEW t \in Transactions, List(t)
    PROVE  IInv'
<1>r. CASE samples = {}
    BY <1>r, RollBackStep DEF List
<1>a. SUFFICES ASSUME samples # {} PROVE IInv'
    BY <1>r
<1>. DEFINE x == [tx[t] EXCEPT !.order = Max(samples), !.at = "find"]
<1>1. Good(tx[t]) /\ tx[t].at = "list" /\ tx[t] # None
    BY OpenTransaction DEF List
<1>2. tx[t].kind = "delete"
    BY <1>1 DEF Good, Transaction, Steps, Edits, Deleted, Versioned
<1>3. x \in Transaction
    <2>1. tx[t] \in Transaction /\ "find" \in Names
        BY <1>1 DEF Good, Names
    <2>2. Max(samples) \in Int
        BY <1>a, MaxIsMember DEF IInv, CommittedIsRight, Orders
    <2>. QED
        BY <2>1, <2>2, Typing
<1>4. Good(x)
    BY <1>1, <1>2, <1>3, RowsDiffer
    DEF Good, Transaction, Steps, HasItsLocks, KnowsTheSamples, KnowsTheVersion, Deleted, Versioned
<1>5. tx' = [tx EXCEPT ![t] = x]
    BY <1>1, <1>a DEF List, Executed, After, Good, Transaction
<1>6. x.holds = tx[t].holds
    BY <1>1 DEF Good, Transaction
<1>. HIDE DEF x
<1>. QED
    BY <1>1, <1>4, <1>5, <1>6, <1>a, KeptLocksStep DEF List, Executed

LEMMA FindStep ==
    ASSUME IInv, NEW t \in Transactions, Find(t)
    PROVE  IInv'
<1>r. CASE tx[t].order # Max(samples \cup {0})
    BY <1>r, RollBackStep DEF Find
<1>a. SUFFICES ASSUME tx[t].order = Max(samples \cup {0}) PROVE IInv'
    BY <1>r
<1>. DEFINE x == [tx[t] EXCEPT !.at = "remove"]
<1>1. Good(tx[t]) /\ tx[t].at = "find" /\ tx[t] # None
    BY OpenTransaction DEF Find
<1>2. tx[t].kind = "delete"
    BY <1>1 DEF Good, Transaction, Steps, Edits, Deleted, Versioned
<1>3. x \in Transaction
    <2>1. tx[t] \in Transaction /\ "remove" \in Names
        BY <1>1 DEF Good, Names
    <2>. QED
        BY <2>1, Typing
<1>4. Good(x)
    BY <1>1, <1>2, <1>3, RowsDiffer
    DEF Good, Transaction, Steps, HasItsLocks, KnowsTheSamples, KnowsTheVersion, Deleted, Versioned
<1>5. tx' = [tx EXCEPT ![t] = x]
    BY <1>1, <1>a DEF Find, Executed, After, Good, Transaction
<1>6. x.holds = tx[t].holds
    BY <1>1 DEF Good, Transaction
<1>. HIDE DEF x
<1>. QED
    BY <1>1, <1>4, <1>5, <1>6, <1>a, KeptLocksStep DEF Find, Executed

(* What others know is not what the committing transaction changes: they   *)
(* would have to hold the same row.                                        *)
LEMMA CommitStep ==
    ASSUME IInv, NEW t \in Transactions, Commit(t)
    PROVE  IInv'
<1>. DEFINE c == tx[t]
<1>1. Good(c) /\ c.at = "commit" /\ c # None
    BY OpenTransaction DEF Commit
<1>2. count \in Nat /\ samples \subseteq Orders /\ IsFiniteSet(samples) /\ count = Cardinality(samples)
    BY FS_CardinalityType DEF IInv, CommittedIsRight
<1>3. c.kind \in Edits \ {"create", "delete"} => samples' = samples
    BY <1>1 DEF Commit, Edits
<1>4. (samples \in SUBSET Orders /\ IsFiniteSet(samples) /\ count = Cardinality(samples))'
    <2>1. CASE c.kind = "create"
        <3>1. c.order \in Orders /\ c.order \notin samples /\ count' = count + 1 /\ samples' = samples \cup {c.order}
            BY <1>1, <2>1 DEF Commit, Good, HasItsLocks, KnowsTheSamples
        <3>. HIDE DEF c
        <3>2. IsFiniteSet(samples \cup {c.order})
              /\ Cardinality(samples \cup {c.order}) = Cardinality(samples) + 1
            BY <1>2, <3>1, FS_AddElement
        <3>. QED
            BY <1>2, <3>1, <3>2
    <2>2. CASE c.kind = "delete"
        <3>1. c.order \in samples /\ count' = count - 1 /\ samples' = samples \ {c.order}
            BY <1>1, <2>2 DEF Commit, Good, HasItsLocks, KnowsTheSamples, Deleted
        <3>. HIDE DEF c
        <3>2. IsFiniteSet(samples \ {c.order})
              /\ Cardinality(samples \ {c.order}) = Cardinality(samples) - 1
            BY <1>2, <3>1, FS_RemoveElement
        <3>. QED
            BY <1>2, <3>1, <3>2
    <2>3. CASE c.kind \in Edits \ {"create", "delete"}
        <3>1. count' = count
            BY <1>1, <2>3 DEF Commit, Good, HasItsLocks, KnowsTheSamples
        <3>. QED
            BY <1>2, <1>3, <2>3, <3>1
    <2>. QED
        BY <1>1, <2>1, <2>2, <2>3 DEF Good, Transaction, Edits
<1>5. c.kind = "create" => UNCHANGED <<limits, version, published>>
    BY <1>1, RowsDiffer DEF Commit, Good, HasItsLocks, KnowsTheVersion, VisibleLimits, Versioned
<1>6. c.kind # "create" =>
          /\ c.version = version + 1 /\ c.version <= MaxVersion /\ c.manifest = VisibleLimits(t)
          /\ Problem \in c.holds /\ VisibleLimits(t) \in Limits
    BY <1>1 DEF IInv, CommittedIsRight, Good, Transaction, HasItsLocks, KnowsTheVersion, VisibleLimits, Versioned, Sees
<1>7. ASSUME c.kind # "create"
      PROVE  /\ version' = version + 1 /\ version' \in 1 .. MaxVersion /\ limits' \in Limits
             /\ published' = [published EXCEPT ![version + 1] = limits']
    <2>1. c.manifest # None /\ version \in 1 .. MaxVersion /\ MaxVersion \in Nat
        BY <1>6, <1>7, ProblemContentAssumption DEF IInv, CommittedIsRight
    <2>2. version' = c.version /\ limits' = VisibleLimits(t)
          /\ published' = [published EXCEPT ![c.version] = c.manifest]
        BY <1>6, <1>7, <2>1 DEF Commit
    <2>3. c.version \in 1 .. MaxVersion /\ VisibleLimits(t) \in Limits
          /\ c.version = version + 1 /\ c.manifest = limits'
        BY <1>6, <1>7, <2>1, <2>2
    <2>. QED
        BY <2>2, <2>3
<1>8. CommittedIsRight'
    <2>1. CASE c.kind = "create"
        BY <1>4, <1>5, <2>1 DEF IInv, CommittedIsRight
    <2>2. CASE c.kind # "create"
        BY <1>4, <1>7, <2>2, ProblemContentAssumption DEF IInv, CommittedIsRight
    <2>. QED
        BY <2>1, <2>2
<1>9. ASSUME NEW u \in Transactions, u # t, tx[u] # None
      PROVE  Good(tx[u])'
    <2>. DEFINE d == tx[u]
    <2>1. Good(d) /\ c.holds \cap d.holds = {} /\ tx'[u] = d
        BY <1>1, <1>9 DEF IInv, TransactionsAreGood, LocksAreExclusive, Commit
    <2>2. KnowsTheSamples(d)'
        <3>1. Statement \in d.holds => count' = count
            BY <2>1 DEF Commit
        <3>2. Sample(d.order) \in d.holds => (d.order \in samples <=> d.order \in samples')
            BY <1>1, <2>1 DEF Commit, Good, HasItsLocks, Deleted
        <3>. HIDE DEF c
        <3>. QED
            BY <2>1, <3>1, <3>2 DEF Good, HasItsLocks, KnowsTheSamples, Deleted
    <2>3. KnowsTheVersion(d)'
        <3>1. Problem \in d.holds => version' = version
            BY <2>1 DEF Commit
        <3>. QED
            BY <1>1, <1>5, <1>6, <2>1, <3>1 DEF Good, HasItsLocks, KnowsTheVersion, Sees, Versioned
    <2>. QED
        BY <2>1, <2>2, <2>3 DEF Good, HasItsLocks
<1>10. tx' = [tx EXCEPT ![t] = None]
    BY DEF Commit
<1>11. TransactionsAreGood'
    BY <1>9, <1>10 DEF IInv, TransactionsAreGood
<1>12. LocksAreExclusive'
    BY <1>10 DEF IInv, LocksAreExclusive
<1>. QED
    BY <1>8, <1>10, <1>11, <1>12 DEF IInv

LEMMA NextInvariant ==
    ASSUME IInv, [Next]_vars
    PROVE  IInv'
<1>1. CASE UNCHANGED vars
    BY <1>1 DEF vars, IInv, CommittedIsRight, TransactionsAreGood, LocksAreExclusive, Good,
                KnowsTheSamples, KnowsTheVersion, Sees
<1>2. ASSUME NEW t \in Transactions, Begin(t) \/ Execute(t) \/ Commit(t) \/ Fail(t)
      PROVE  IInv'
    <2>1. CASE Begin(t)
        BY <2>1, BeginStep
    <2>2. CASE Execute(t)
        BY <2>2, TakeOrderStep, InsertStep, GetVersionStep, ListStep, FindStep, RemoveStep,
           DecreaseStep, SetSampleStep, SetLimitsStep, SetTitleStep, SetStatementStep,
           IncreaseVersionStep, PublishStep
        DEF Execute
    <2>3. CASE Commit(t)
        BY <2>3, CommitStep
    <2>4. CASE Fail(t)
        BY <2>4, RollBackStep DEF Fail
    <2>. QED
        BY <1>2, <2>1, <2>2, <2>3, <2>4
<1>. QED
    BY <1>1, <1>2 DEF Next

LEMMA Invariance == Spec => []IInv
BY InitInvariant, NextInvariant, PTL DEF Spec

(* The number of samples a problem tells of is the number it has, however  *)
(* many creates and deletes of samples are under way and whichever fail:   *)
(* what a transaction read when it took the row of the statement stays     *)
(* true until it commits, and so does whether its sample is there.         *)
THEOREM CountsItsSamples == Spec => []CountIsNumberOfSamples
<1>1. IInv => CountIsNumberOfSamples
    BY DEF IInv, CommittedIsRight, CountIsNumberOfSamples
<1>. QED
    BY <1>1, Invariance, PTL

(* The manifest judges get for the current version has the limits the      *)
(* problem shows: who has a new version has the row of the problem, and    *)
(* nobody else can commit limits in between.                               *)
THEOREM PublishesItsLimits == Spec => []CurrentLimitsArePublished
<1>1. IInv => CurrentLimitsArePublished
    BY DEF IInv, CommittedIsRight, CurrentLimitsArePublished
<1>. QED
    BY <1>1, Invariance, PTL

LEMMA ManifestStep ==
    ASSUME IInv, [Next]_vars
    PROVE  [\A v \in 1 .. MaxVersion : published[v] # None => published'[v] = published[v]]_vars
<1>1. CASE UNCHANGED vars
    BY <1>1
<1>2. ASSUME NEW t \in Transactions, Commit(t)
      PROVE  \A v \in 1 .. MaxVersion : published[v] # None => published'[v] = published[v]
    <2>1. Good(tx[t]) /\ tx[t].at = "commit"
        BY <1>2, OpenTransaction DEF Commit
    <2>2. CASE tx[t].manifest = None
        BY <1>2, <2>2 DEF Commit
    <2>3. CASE tx[t].manifest # None
        <3>1. tx[t].version = version + 1
            BY <2>1, <2>3 DEF Good, KnowsTheVersion, Versioned
        <3>2. published' = [published EXCEPT ![version + 1] = tx[t].manifest]
            BY <1>2, <2>3, <3>1 DEF Commit
        <3>3. version \in Int /\ \A v \in 1 .. MaxVersion : v > version => published[v] = None
            BY DEF IInv, CommittedIsRight
        <3>4. \A v \in 1 .. MaxVersion : v # version + 1 => published'[v] = published[v]
            BY <3>2 DEF IInv, CommittedIsRight
        <3>. QED
            BY <3>3, <3>4
    <2>. QED
        BY <2>2, <2>3
<1>3. ASSUME NEW t \in Transactions, Begin(t) \/ Execute(t) \/ Fail(t)
      PROVE  published' = published
    BY <1>3 DEF Begin, Execute, Fail, RollsBack, Executed, TakeOrder, Insert, GetVersion, List, Find,
                Remove, Decrease, SetSample, SetLimits, SetTitle, SetStatement, IncreaseVersion, Publish
<1>. QED
    BY <1>1, <1>2, <1>3 DEF Next

(* A published version is never published again: it is numbered one more   *)
(* than the current version, while nobody else can increase it.            *)
THEOREM KeepsItsManifests == Spec => ManifestsNeverChange
BY Invariance, ManifestStep, PTL DEF Spec, ManifestsNeverChange

(* While nobody deletes a sample, who appends one appends it at the end.   *)
Appending ==
    /\ \A t \in Transactions : tx[t] # None => tx[t].kind # "delete"
    /\ SamplesAreContiguous

(* A statement does not make another edit of an edit.                      *)
LEMMA ExecuteKeepsTheKind ==
    ASSUME IInv, NEW t \in Transactions, Execute(t)
    PROVE  \/ tx' = [tx EXCEPT ![t] = None]
           \/ tx[t] # None /\ tx'[t].kind = tx[t].kind /\ tx' = [tx EXCEPT ![t] = tx'[t]]
<1>1. tx[t] # None /\ tx[t] \in Transaction
    <2>1. \E statement : At(t, statement)
        BY DEF Execute, TakeOrder, Insert, GetVersion, List, Find, Remove, Decrease,
               SetSample, SetLimits, SetTitle, SetStatement, IncreaseVersion, Publish
    <2>. QED
        BY <2>1, OpenTransaction DEF Good
<1>2. t \in DOMAIN tx /\ "kind" \in DOMAIN tx[t]
    BY <1>1 DEF IInv, Transaction
<1>3. ASSUME RollsBack(t)
      PROVE  tx' = [tx EXCEPT ![t] = None]
    BY <1>3 DEF RollsBack
<1>4. ASSUME NEW x, Executed(t, x), "kind" \in DOMAIN x, x.kind = tx[t].kind
      PROVE  tx[t] # None /\ tx'[t].kind = tx[t].kind /\ tx' = [tx EXCEPT ![t] = tx'[t]]
    BY <1>1, <1>2, <1>4 DEF Executed
<1>5. CASE TakeOrder(t)
    BY <1>1, <1>2, <1>3, <1>4, <1>5 DEF TakeOrder
<1>6. CASE Insert(t)
    BY <1>1, <1>2, <1>3, <1>4, <1>6 DEF Insert
<1>7. CASE GetVersion(t)
    BY <1>1, <1>2, <1>3, <1>4, <1>7 DEF GetVersion
<1>8. CASE List(t)
    BY <1>1, <1>2, <1>3, <1>4, <1>8 DEF List
<1>9. CASE Find(t)
    BY <1>1, <1>2, <1>3, <1>4, <1>9 DEF Find
<1>10. CASE Remove(t)
    BY <1>1, <1>2, <1>3, <1>4, <1>10 DEF Remove
<1>11. CASE Decrease(t)
    BY <1>1, <1>2, <1>3, <1>4, <1>11 DEF Decrease
<1>12. CASE SetSample(t)
    BY <1>1, <1>2, <1>3, <1>4, <1>12 DEF SetSample
<1>13. CASE SetLimits(t)
    BY <1>1, <1>2, <1>3, <1>4, <1>13 DEF SetLimits
<1>14. CASE SetTitle(t)
    BY <1>1, <1>2, <1>3, <1>4, <1>14 DEF SetTitle
<1>15. CASE SetStatement(t)
    BY <1>1, <1>2, <1>3, <1>4, <1>15 DEF SetStatement
<1>16. CASE IncreaseVersion(t)
    BY <1>1, <1>2, <1>3, <1>4, <1>16 DEF IncreaseVersion
<1>17. CASE Publish(t)
    BY <1>1, <1>2, <1>3, <1>4, <1>17 DEF Publish
<1>. QED
    BY <1>5, <1>6, <1>7, <1>8, <1>9, <1>10, <1>11,
       <1>12, <1>13, <1>14, <1>15, <1>16, <1>17
    DEF Execute

LEMMA AppendingStep ==
    ASSUME "delete" \notin Kinds, IInv, Appending, [Next]_vars
    PROVE  Appending'
<1>1. CASE UNCHANGED vars
    BY <1>1 DEF vars, Appending, SamplesAreContiguous
<1>2. ASSUME NEW t \in Transactions, Begin(t)
      PROVE  Appending'
    BY <1>2 DEF Begin, Appending, SamplesAreContiguous, IInv
<1>3. ASSUME NEW t \in Transactions, Fail(t) \/ Execute(t)
      PROVE  Appending'
    <2>1. samples' = samples /\ count' = count
        BY <1>3 DEF Execute, Fail, RollsBack, Executed, TakeOrder, Insert, GetVersion, List, Find,
                    Remove, Decrease, SetSample, SetLimits, SetTitle, SetStatement, IncreaseVersion, Publish
    <2>2. CASE tx' = [tx EXCEPT ![t] = None]
        BY <2>1, <2>2 DEF Appending, SamplesAreContiguous, IInv
    <2>3. CASE tx[t] # None /\ tx'[t].kind = tx[t].kind /\ tx' = [tx EXCEPT ![t] = tx'[t]]
        BY <2>1, <2>3 DEF Appending, SamplesAreContiguous, IInv
    <2>. QED
        BY <1>3, <2>2, <2>3, ExecuteKeepsTheKind DEF Fail, RollsBack
<1>4. ASSUME NEW t \in Transactions, Commit(t)
      PROVE  Appending'
    <2>1. Good(tx[t]) /\ tx[t].at = "commit" /\ count \in Nat /\ tx[t].kind # "delete"
        BY <1>4, OpenTransaction, FS_CardinalityType DEF Commit, Appending, IInv, CommittedIsRight
    <2>2. CASE tx[t].kind = "create"
        <3>1. samples' = samples \cup {count + 1} /\ count' = count + 1
            BY <1>4, <2>1, <2>2 DEF Commit, Good, HasItsLocks, KnowsTheSamples
        <3>2. samples' = 1 .. count'
            BY <2>1, <3>1 DEF Appending, SamplesAreContiguous
        <3>. QED
            BY <1>4, <3>2 DEF Commit, Appending, SamplesAreContiguous, IInv
    <2>3. CASE tx[t].kind # "create"
        <3>1. samples' = samples /\ count' = count
            BY <1>4, <2>1, <2>3 DEF Commit, Good, HasItsLocks, KnowsTheSamples
        <3>. QED
            BY <1>4, <3>1 DEF Commit, Appending, SamplesAreContiguous, IInv
    <2>. QED
        BY <2>2, <2>3
<1>. QED
    BY <1>1, <1>2, <1>3, <1>4 DEF Next

(* Samples appended at the same time get the numbers 1, 2, ... without a   *)
(* gap as long as nobody is allowed to delete one.                         *)
THEOREM NumbersItsSamples ==
    ASSUME "delete" \notin Kinds
    PROVE  Spec => []SamplesAreContiguous
<1>1. Init => Appending
    BY DEF Init, Appending, SamplesAreContiguous
<1>2. Appending => SamplesAreContiguous
    BY DEF Appending
<1>3. IInv /\ Appending /\ [Next]_vars => Appending'
    BY AppendingStep
<1>. QED
    BY <1>1, <1>2, <1>3, Invariance, PTL DEF Spec

-----------------------------------------------------------------------------
(***************************************************************************)
(* Proofs about TransactionRetry: whatever the number of attempts and      *)
(* whichever exceptions come, what a transaction writes is written at most *)
(* once, and the answer tells whether it was.                              *)
(***************************************************************************)

(* The server may have committed only when the loop is over, or is about   *)
(* to end with an error that is not tried again.                           *)
AppliedIsFinal ==
    applied # 0 =>
        /\ applied = 1
        /\ \/ pc = "error" /\ error = "internal"
           \/ pc = "done" /\ outcome \in {"ok", "internal"}

WaitsForItsAnswer == pc # "done" => outcome = "none"

AppliedIsOk == outcome = "ok" => applied = 1

ErrorIsKnown == pc = "error" => error \in Errors

RetryInvariant == RetryTypeOK /\ AppliedIsFinal /\ WaitsForItsAnswer /\ AppliedIsOk /\ ErrorIsKnown

LEMMA RetryInitInvariant == RetryInit => RetryInvariant
BY RetryCountAssumption
   DEF RetryInit, RetryInvariant, RetryTypeOK, AppliedIsFinal, WaitsForItsAnswer, AppliedIsOk, ErrorIsKnown, Outcomes

(* An internal error, the one a commit in doubt becomes, ends the loop and *)
(* is reported as what it is.                                              *)
LEMMA InternalErrorIsFinal == GivesUp("internal") /\ Reported("internal") = "internal"
BY DEF GivesUp, IsRetryable, Reported

LEMMA ErrorIsNoOk == \A e \in Errors : Reported(e) \in Outcomes \ {"none", "ok"}
BY DEF Errors, Reported, Outcomes

LEMMA ExceptionsAreErrors == \A exception : Mapped(exception) \in Errors
BY DEF Mapped, Errors

LEMMA RetryNextInvariant ==
    ASSUME RetryInvariant, [RetryNext]_retryVars
    PROVE  RetryInvariant'
<1>. USE DEF RetryInvariant, RetryTypeOK, AppliedIsFinal, WaitsForItsAnswer, AppliedIsOk, ErrorIsKnown
<1>0. CASE UNCHANGED retryVars
    BY <1>0 DEF retryVars
<1>1. CASE NotConnected
    BY <1>1 DEF NotConnected, Errors
<1>2. CASE BeginTransaction
    BY <1>2 DEF BeginTransaction
<1>3. CASE StatementThrows
    BY <1>3, ExceptionsAreErrors DEF StatementThrows, Throws
<1>4. CASE CallbackRefuses
    BY <1>4 DEF CallbackRefuses, Outcomes
<1>5. CASE CommitReturns
    BY <1>5 DEF CommitReturns, Outcomes
<1>6. CASE CommitThrows
    BY <1>6, ExceptionsAreErrors DEF CommitThrows, Throws
<1>7. CASE CommitInDoubt
    <2>1. error' = "internal"
        BY <1>7 DEF CommitInDoubt, Throws, Mapped, Errors
    <2>. QED
        BY <1>7, <2>1 DEF CommitInDoubt, Throws, Errors
<1>8. CASE GiveUp
    <2>1. applied # 0 => outcome' = "internal"
        BY <1>8, InternalErrorIsFinal DEF GiveUp, Returns
    <2>2. outcome' \in Outcomes \ {"none", "ok"}
        BY <1>8, ErrorIsNoOk DEF GiveUp, Returns
    <2>. QED
        BY <1>8, <2>1, <2>2 DEF GiveUp, Returns
<1>9. CASE TryAgain \/ Reconnect \/ ReconnectFails
    <2>1. pc = "error" /\ ~GivesUp(error)
        BY <1>9 DEF TryAgain, Reconnect, ReconnectFails
    <2>2. applied = 0 /\ attempt < RetryCount
        BY <2>1, InternalErrorIsFinal, RetryCountAssumption DEF GivesUp
    <2>3. ASSUME NextAttempt, is_connected' \in BOOLEAN, UNCHANGED <<applied, outcome>>
          PROVE  RetryInvariant'
        BY <2>1, <2>2, <2>3, RetryCountAssumption DEF NextAttempt
    <2>4. ASSUME NEW e \in {"broken_connection", "internal"}, Returns(e)
          PROVE  RetryInvariant'
        <3>1. outcome' \in Outcomes \ {"none", "ok"}
            BY <2>4, ErrorIsNoOk DEF Returns, Errors
        <3>. QED
            BY <2>1, <2>2, <2>4, <3>1 DEF Returns
    <2>5. CASE TryAgain \/ Reconnect
        BY <2>3, <2>5 DEF TryAgain, Reconnect
    <2>6. CASE ReconnectFails
        BY <2>3, <2>4, <2>6 DEF ReconnectFails
    <2>. QED
        BY <1>9, <2>5, <2>6
<1>. QED
    BY <1>0, <1>1, <1>2, <1>3, <1>4, <1>5, <1>6, <1>7, <1>8, <1>9 DEF RetryNext

LEMMA RetryInvariance == RetrySpec => []RetryInvariant
BY RetryInitInvariant, RetryNextInvariant, PTL DEF RetrySpec

(* The state of a call is of its type: no attempt beyond the last one is   *)
(* made (with_retry_service_write_transaction).                            *)
THEOREM RetryTypeCorrectness == RetrySpec => []RetryTypeOK
<1>1. RetryInvariant => RetryTypeOK
    BY DEF RetryInvariant
<1>. QED
    BY <1>1, RetryInvariance, PTL

(* The loop never runs a transaction again that the server may have        *)
(* committed (with_retry_service_write_transaction and the mapping of      *)
(* exceptions in db_error::from_psql_exception).                           *)
THEOREM WritesOnce == RetrySpec => []NeverAppliedTwice
<1>1. RetryInvariant => NeverAppliedTwice
    BY DEF RetryInvariant, RetryTypeOK, AppliedIsFinal, NeverAppliedTwice
<1>. QED
    BY <1>1, RetryInvariance, PTL

(* Who is told ok has its effects, once, and who is told to try again, or  *)
(* that the request was refused, has none (map_service_db_error).          *)
THEOREM TellsTheTruth == RetrySpec => []AnswerIsTrue
<1>1. RetryInvariant => AnswerIsTrue
    BY DEF RetryInvariant, RetryTypeOK, AppliedIsFinal, WaitsForItsAnswer, AppliedIsOk, AnswerIsTrue,
           NeverAppliedTwice
<1>. QED
    BY <1>1, RetryInvariance, PTL

-----------------------------------------------------------------------------
(***************************************************************************)
(* CounterLocks.  Every transaction but a rejudge locks its rows by rank:  *)
(* what it has, or waits for, is below what it has still to lock.          *)
(***************************************************************************)
Rank(r) == CASE r[1] = "submission" -> 1
             [] r[1] = "queue" -> 2
             [] r[1] = "summary" -> 3
             [] OTHER -> 4

RowsToLock(t) == submitter[t].rows

Asked(t, r) == \E i \in DOMAIN line[r] : line[r][i] = t

NoTwice(asked) == \A i, j \in DOMAIN asked : asked[i] = asked[j] => i = j

Rising(rows) ==
    /\ rows \in Seq(Locks!Rows)
    /\ \A i, j \in DOMAIN rows : i < j => Rank(rows[i]) < Rank(rows[j])

LocksInOrder(t) ==
    /\ Rising(RowsToLock(t))
    /\ \A r \in Locks!Rows : Asked(t, r) =>
           \/ RowsToLock(t) # <<>> /\ r = Head(RowsToLock(t))
           \/ \A i \in DOMAIN RowsToLock(t) : Rank(r) < Rank(RowsToLock(t)[i])

IsSubmitter(s) ==
    /\ DOMAIN s = {"operation", "state", "rows", "attempt"}
    /\ s.operation \in Locks!Operation

LockInvariant ==
    /\ line \in [Locks!Rows -> Seq(Submitters)]
    /\ \A r \in Locks!Rows : NoTwice(line[r])
    /\ DOMAIN submitter = Submitters /\ submitter = [t \in Submitters |-> submitter[t]]
    /\ \A t \in Submitters :
        /\ IsSubmitter(submitter[t])
        /\ submitter[t].state # "open" => \A r \in Locks!Rows : ~Asked(t, r)
        /\ ~Locks!Rejudges(t) => LocksInOrder(t)

(* What is left when one leaves the line.  *)
LEMMA WithoutIsTheRest ==
    ASSUME NEW S, NEW asked \in Seq(S), NoTwice(asked), NEW t
    PROVE  /\ Locks!Without(asked, t) \in Seq(S)
           /\ NoTwice(Locks!Without(asked, t))
           /\ \A i \in DOMAIN Locks!Without(asked, t) :
                  /\ Locks!Without(asked, t)[i] # t
                  /\ \E j \in DOMAIN asked : asked[j] = Locks!Without(asked, t)[i]
<1>1. CASE ~ \E i \in DOMAIN asked : asked[i] = t
    BY <1>1 DEF Locks!Without, Locks!Range
<1>2. CASE \E i \in DOMAIN asked : asked[i] = t
    <2>. DEFINE k == CHOOSE i \in DOMAIN asked : asked[i] = t
                before == SubSeq(asked, 1, k - 1)
                after == SubSeq(asked, k + 1, Len(asked))
    <2>1. k \in 1 .. Len(asked) /\ asked[k] = t /\ Len(asked) \in Nat
        BY <1>2
    <2>2. Locks!Without(asked, t) = before \o after
        BY <1>2 DEF Locks!Without, Locks!Range, Locks!RemoveAt
    <2>. HIDE DEF k
    <2>3. /\ before \in Seq(S) /\ Len(before) = k - 1
          /\ \A i \in 1 .. k - 1 : before[i] = asked[i]
        BY <2>1, SubSeqProperties
    <2>4. /\ after \in Seq(S) /\ Len(after) = Len(asked) - k
          /\ \A i \in 1 .. Len(asked) - k : after[i] = asked[i + k]
        BY <2>1, SubSeqProperties
    <2>. DEFINE rest == before \o after
    <2>. HIDE DEF before, after
    <2>5. /\ rest \in Seq(S) /\ DOMAIN rest = 1 .. Len(asked) - 1
          /\ \A i \in 1 .. Len(asked) - 1 : rest[i] = asked[IF i < k THEN i ELSE i + 1]
        <3>1. /\ rest \in Seq(S) /\ Len(rest) = Len(before) + Len(after)
              /\ \A i \in 1 .. Len(before) + Len(after) :
                    rest[i] = IF i <= Len(before) THEN before[i] ELSE after[i - Len(before)]
            BY <2>3, <2>4, ConcatProperties
        <3>. HIDE DEF rest
        <3>2. Len(rest) = Len(asked) - 1
            BY <2>1, <2>3, <2>4, <3>1
        <3>3. ASSUME NEW i \in 1 .. Len(asked) - 1
              PROVE  rest[i] = asked[IF i < k THEN i ELSE i + 1]
            <4>1. CASE i < k
                BY <2>1, <2>3, <2>4, <3>1, <4>1
            <4>2. CASE ~ (i < k)
                <5>1. /\ i - (k - 1) \in 1 .. Len(asked) - k /\ (i - (k - 1)) + k = i + 1
                      /\ i \in 1 .. Len(before) + Len(after) /\ ~ (i <= Len(before))
                    BY <2>1, <2>3, <2>4, <4>2
                <5>2. rest[i] = after[i - (k - 1)]
                    BY <2>3, <3>1, <5>1
                <5>. QED
                    BY <2>4, <4>2, <5>1, <5>2
            <4>. QED
                BY <4>1, <4>2
        <3>. QED
            BY <3>1, <3>2, <3>3, LenProperties
    <2>. HIDE DEF rest
    <2>6. \A i, j \in DOMAIN asked : asked[i] = asked[j] => i = j
        BY DEF NoTwice
    <2>7. \A i \in DOMAIN rest : rest[i] # t /\ \E j \in DOMAIN asked : asked[j] = rest[i]
        BY <2>1, <2>5, <2>6
    <2>8. NoTwice(rest)
        BY <2>1, <2>5, <2>6 DEF NoTwice
    <2>. QED
        BY <2>2, <2>5, <2>7, <2>8 DEF rest
<1>. QED
    BY <1>1, <1>2

LEMMA LocksInit == Locks!Init => LockInvariant
<1>. SUFFICES ASSUME Locks!Init PROVE LockInvariant
    OBVIOUS
<1>1. PICK asked \in Workloads :
          submitter = [t \in Submitters |->
              [operation |-> asked[t], state |-> "asked", rows |-> <<>>, attempt |-> 1]]
    BY DEF Locks!Init
<1>2. line = [r \in Locks!Rows |-> <<>>]
    BY DEF Locks!Init
<1>3. \A r \in Locks!Rows : DOMAIN line[r] = {} /\ line[r] \in Seq(Submitters)
    BY <1>2
<1>4. \A t \in Submitters : IsSubmitter(submitter[t]) /\ RowsToLock(t) = <<>>
    BY <1>1, WorkloadsAssumption DEF IsSubmitter, RowsToLock
<1>5. \A t \in Submitters : LocksInOrder(t) /\ \A r \in Locks!Rows : ~Asked(t, r)
    <2>1. \A t \in Submitters, r \in Locks!Rows : ~Asked(t, r)
        BY <1>3 DEF Asked
    <2>2. Rising(<<>>)
        BY DEF Rising
    <2>. QED
        BY <1>4, <2>1, <2>2 DEF LocksInOrder
<1>6. \A r \in Locks!Rows : NoTwice(line[r])
    BY <1>3 DEF NoTwice
<1>7. line \in [Locks!Rows -> Seq(Submitters)]
    BY <1>2, <1>3
<1>8. DOMAIN submitter = Submitters /\ submitter = [t \in Submitters |-> submitter[t]]
    BY <1>1
<1>. QED
    BY <1>4, <1>5, <1>6, <1>7, <1>8 DEF LockInvariant

(* A transaction that ends leaves every line, and nobody else's place in   *)
(* the order changes.                                                      *)
LEMMA LocksLeaveStep ==
    ASSUME LockInvariant, NEW t \in Submitters, NEW s, IsSubmitter(s), s.rows = <<>>,
           submitter' = [submitter EXCEPT ![t] = s], s.operation = submitter[t].operation,
           line' = Locks!Released(t)
    PROVE  LockInvariant'
<1>1. \A r \in Locks!Rows :
          /\ line'[r] \in Seq(Submitters) /\ NoTwice(line'[r])
          /\ \A i \in DOMAIN line'[r] : line'[r][i] # t /\ Asked(line'[r][i], r)
    BY WithoutIsTheRest DEF LockInvariant, Locks!Released, Asked
<1>2. line' \in [Locks!Rows -> Seq(Submitters)]
    BY <1>1 DEF Locks!Released
<1>3. \A r \in Locks!Rows, u \in Submitters : Asked(u, r)' => u # t /\ Asked(u, r)
    BY <1>1 DEF Asked
<1>4. /\ DOMAIN submitter' = Submitters /\ submitter' = [u \in Submitters |-> submitter'[u]]
      /\ submitter'[t] = s
      /\ \A u \in Submitters \ {t} : submitter'[u] = submitter[u]
    BY DEF LockInvariant
<1>5. Rising(<<>>)
    BY DEF Rising
<1>6. \A u \in Submitters : IsSubmitter(submitter'[u])
    BY <1>4 DEF LockInvariant
<1>7. \A u \in Submitters : submitter'[u].state # "open" => \A r \in Locks!Rows : ~Asked(u, r)'
    BY <1>3, <1>4 DEF LockInvariant
<1>8. ASSUME NEW u \in Submitters, ~Locks!Rejudges(u)' PROVE LocksInOrder(u)'
    <2>1. CASE u = t
        BY <1>3, <1>4, <1>5, <2>1 DEF LocksInOrder, RowsToLock
    <2>2. CASE u # t
        <3>1. LocksInOrder(u) /\ submitter'[u] = submitter[u]
            BY <1>4, <1>8, <2>2 DEF LockInvariant, Locks!Rejudges
        <3>. QED
            BY <1>3, <3>1 DEF LocksInOrder, RowsToLock
    <2>. QED
        BY <2>1, <2>2
<1>. QED
    BY <1>1, <1>2, <1>4, <1>6, <1>7, <1>8 DEF LockInvariant

(* A transaction that goes on.  *)
LEMMA LocksGoOnStep ==
    ASSUME LockInvariant, NEW t \in Submitters, NEW s, IsSubmitter(s),
           s.operation = submitter[t].operation, s.state = "open",
           submitter' = [submitter EXCEPT ![t] = s],
           line' \in [Locks!Rows -> Seq(Submitters)],
           \A r \in Locks!Rows : NoTwice(line'[r]),
           \A u \in Submitters \ {t}, r \in Locks!Rows : Asked(u, r)' => Asked(u, r),
           ~Locks!Rejudges(t) => LocksInOrder(t)'
    PROVE  LockInvariant'
<1>1. /\ DOMAIN submitter' = Submitters /\ submitter' = [u \in Submitters |-> submitter'[u]]
      /\ submitter'[t] = s
      /\ \A u \in Submitters \ {t} : submitter'[u] = submitter[u]
    BY DEF LockInvariant
<1>2. \A u \in Submitters : IsSubmitter(submitter'[u])
    BY <1>1 DEF LockInvariant
<1>3. \A u \in Submitters : submitter'[u].state # "open" => \A r \in Locks!Rows : ~Asked(u, r)'
    BY <1>1 DEF LockInvariant
<1>4. ASSUME NEW u \in Submitters, ~Locks!Rejudges(u)' PROVE LocksInOrder(u)'
    <2>1. CASE u = t
        BY <1>1, <1>4, <2>1 DEF Locks!Rejudges
    <2>2. CASE u # t
        <3>1. LocksInOrder(u) /\ submitter'[u] = submitter[u]
            BY <1>1, <1>4, <2>2 DEF LockInvariant, Locks!Rejudges
        <3>. QED
            BY <2>2, <3>1 DEF LocksInOrder, RowsToLock
    <2>. QED
        BY <2>1, <2>2
<1>. QED
    BY <1>1, <1>2, <1>3, <1>4 DEF LockInvariant

LEMMA RowsHaveRanks == \A r : Rank(r) \in 1 .. 4
BY DEF Rank

LEMMA RisingOn ==
    ASSUME NEW rows, Rising(rows), NEW r \in Locks!Rows,
           \A i \in DOMAIN rows : Rank(rows[i]) < Rank(r)
    PROVE  /\ Rising(rows \o <<r>>)
           /\ \A i \in DOMAIN (rows \o <<r>>) : Rank((rows \o <<r>>)[i]) <= Rank(r)
<1>. DEFINE more == rows \o <<r>>
<1>1. rows \in Seq(Locks!Rows) /\ <<r>> \in Seq(Locks!Rows) /\ Len(<<r>>) = 1 /\ <<r>>[1] = r
    BY DEF Rising
<1>2. /\ more \in Seq(Locks!Rows) /\ Len(more) = Len(rows) + 1
      /\ \A i \in 1 .. Len(rows) + 1 :
            more[i] = IF i <= Len(rows) THEN rows[i] ELSE <<r>>[i - Len(rows)]
    BY <1>1, ConcatProperties
<1>. HIDE DEF more
<1>3. DOMAIN more = 1 .. Len(rows) + 1 /\ DOMAIN rows = 1 .. Len(rows) /\ Len(rows) \in Nat
    BY <1>1, <1>2, LenProperties
<1>4. \A i \in DOMAIN more : \/ i \in DOMAIN rows /\ more[i] = rows[i]
                             \/ i = Len(rows) + 1 /\ more[i] = r
    BY <1>1, <1>2, <1>3
<1>5. \A i, j \in DOMAIN more : i < j => Rank(more[i]) < Rank(more[j])
    BY <1>3, <1>4 DEF Rising
<1>6. \A i \in DOMAIN more : Rank(more[i]) <= Rank(r)
    BY <1>4, RowsHaveRanks
<1>. QED
    BY <1>2, <1>5, <1>6 DEF Rising, more

(* The rows are locked in the order of their ranks, but by a rejudge.  *)
LEMMA FirstRowsRise ==
    ASSUME NEW o \in Locks!Operation, o.op \notin {"rejudge", "rejudge_problem"}
    PROVE  Rising(Locks!FirstRows(o))
<1>1. \A x : /\ Rank(Locks!SubmissionRow(x)) = 1 /\ Rank(Locks!QueueRow(x)) = 2
             /\ Rank(Locks!Summary(x)) = 3 /\ Rank(Locks!Statistics) = 4
    BY DEF Rank, Locks!SubmissionRow, Locks!QueueRow, Locks!Summary, Locks!Statistics
<1>2. Locks!Statistics \in Locks!Rows
    BY DEF Locks!Rows
<1>3. CASE o.op = "create"
    <2>1. Locks!Summary(o.user) \in Locks!Rows
        BY <1>3 DEF Locks!Operation, Locks!Rows
    <2>2. Locks!FirstRows(o) = <<Locks!Summary(o.user), Locks!Statistics>>
        BY <1>3 DEF Locks!FirstRows
    <2>. QED
        BY <1>1, <1>2, <2>1, <2>2 DEF Rising
<1>4. CASE o.op # "create"
    <2>1. o.op \in {"mark_judging", "requeue", "finalize"} /\ o.submission \in Submissions
        BY <1>4 DEF Locks!Operation
    <2>. DEFINE s == o.submission
    <2>2. /\ Locks!SubmissionRow(s) \in Locks!Rows /\ Locks!QueueRow(s) \in Locks!Rows
          /\ Locks!Summary(Author[s]) \in Locks!Rows
        BY <2>1 DEF Locks!Rows
    <2>3. CASE o.op # "finalize"
        <3>1. Locks!FirstRows(o) = <<Locks!SubmissionRow(s), Locks!QueueRow(s)>>
            BY <2>1, <2>3 DEF Locks!FirstRows
        <3>. QED
            BY <1>1, <2>2, <3>1 DEF Rising
    <2>4. CASE o.op = "finalize"
        <3>. DEFINE a == <<Locks!SubmissionRow(s), Locks!QueueRow(s)>>
                    b == Locks!Summary(Author[s])
                    c == Locks!Statistics
        <3>1. Rising(a) /\ \A i \in DOMAIN a : Rank(a[i]) < 3
            BY <1>1, <2>2 DEF Rising
        <3>2. /\ Locks!Summary(Author[s]) = b /\ Rank(b) = 3 /\ b \in Locks!Rows
              /\ Locks!Statistics = c /\ Rank(c) = 4 /\ c \in Locks!Rows
            BY <1>1, <1>2, <2>2
        <3>3. Locks!FirstRows(o) =
                  (a \o (IF Locks!IsCounted(o.verdict) THEN <<b>> ELSE <<>>))
                  \o (IF o.verdict = "accepted" THEN <<c>> ELSE <<>>)
            BY <2>4 DEF Locks!FirstRows, Locks!RowsOfFinalize
        <3>. HIDE DEF a, b, c
        <3>. DEFINE d == a \o (IF Locks!IsCounted(o.verdict) THEN <<b>> ELSE <<>>)
        <3>4. Rising(d) /\ \A i \in DOMAIN d : Rank(d[i]) < 4
            <4>1. CASE Locks!IsCounted(o.verdict)
                <5>1. d = a \o <<b>>
                    BY <4>1
                <5>. HIDE DEF d
                <5>. QED
                    BY <3>1, <3>2, <5>1, RisingOn, RowsHaveRanks
            <4>2. CASE ~Locks!IsCounted(o.verdict)
                <5>1. d = a
                    BY <3>1, <4>2, ConcatEmptySeq DEF Rising
                <5>. HIDE DEF d
                <5>. QED
                    BY <3>1, <5>1, RowsHaveRanks
            <4>. QED
                BY <4>1, <4>2
        <3>. HIDE DEF d
        <3>5. Rising(d \o <<c>>) /\ Rising(d \o <<>>)
            BY <3>2, <3>4, RisingOn, ConcatEmptySeq DEF Rising
        <3>. QED
            BY <3>3, <3>5 DEF d
    <2>. QED
        BY <2>3, <2>4
<1>. QED
    BY <1>3, <1>4

(* A transaction that is updated is a transaction.  *)
IsWith(s, t, how, rows) ==
    IsSubmitter(s) /\ s.operation = submitter[t].operation /\ s.state = how /\ s.rows = rows

LEMMA UpdatedSubmitter ==
    ASSUME LockInvariant, NEW t \in Submitters, NEW how, NEW rows, NEW n
    PROVE  /\ IsWith([submitter[t] EXCEPT !.state = how, !.rows = rows, !.attempt = n], t, how, rows)
           /\ IsWith([submitter[t] EXCEPT !.state = how, !.rows = rows], t, how, rows)
           /\ IsWith([submitter[t] EXCEPT !.rows = rows], t, submitter[t].state, rows)
           /\ [submitter EXCEPT ![t].state = how, ![t].rows = rows, ![t].attempt = n]
                  = [submitter EXCEPT
                        ![t] = [submitter[t] EXCEPT !.state = how, !.rows = rows, !.attempt = n]]
           /\ [submitter EXCEPT ![t].state = how, ![t].rows = rows]
                  = [submitter EXCEPT ![t] = [submitter[t] EXCEPT !.state = how, !.rows = rows]]
           /\ [submitter EXCEPT ![t].rows = rows]
                  = [submitter EXCEPT ![t] = [submitter[t] EXCEPT !.rows = rows]]
<1>. DEFINE old == submitter[t]
<1>1. DOMAIN old = {"operation", "state", "rows", "attempt"} /\ old.operation \in Locks!Operation
    BY DEF LockInvariant, IsSubmitter
<1>2. /\ [submitter EXCEPT ![t].state = how, ![t].rows = rows, ![t].attempt = n]
            = [submitter EXCEPT ![t] = [old EXCEPT !.state = how, !.rows = rows, !.attempt = n]]
      /\ [submitter EXCEPT ![t].state = how, ![t].rows = rows]
            = [submitter EXCEPT ![t] = [old EXCEPT !.state = how, !.rows = rows]]
      /\ [submitter EXCEPT ![t].rows = rows] = [submitter EXCEPT ![t] = [old EXCEPT !.rows = rows]]
    BY DEF LockInvariant
<1>. HIDE DEF old
<1>3. LET s == [old EXCEPT !.state = how, !.rows = rows, !.attempt = n]
      IN  IsSubmitter(s) /\ s.operation = old.operation /\ s.state = how /\ s.rows = rows
    BY <1>1 DEF IsSubmitter
<1>4. LET s == [old EXCEPT !.state = how, !.rows = rows]
      IN  IsSubmitter(s) /\ s.operation = old.operation /\ s.state = how /\ s.rows = rows
    BY <1>1 DEF IsSubmitter
<1>5. LET s == [old EXCEPT !.rows = rows]
      IN  IsSubmitter(s) /\ s.operation = old.operation /\ s.state = old.state /\ s.rows = rows
    BY <1>1 DEF IsSubmitter
<1>. QED
    BY <1>2, <1>3, <1>4, <1>5 DEF IsWith, old

LEMMA LocksEndStep ==
    ASSUME LockInvariant, NEW t \in Submitters, NEW how, Locks!Ends(t, how)
    PROVE  LockInvariant'
<1>. DEFINE s == [submitter[t] EXCEPT !.state = how, !.rows = <<>>]
<1>1. IsWith(s, t, how, <<>>) /\ submitter' = [submitter EXCEPT ![t] = s]
    BY UpdatedSubmitter DEF Locks!Ends
<1>2. line' = Locks!Released(t)
    BY DEF Locks!Ends
<1>. HIDE DEF s
<1>. QED
    BY <1>1, <1>2, LocksLeaveStep DEF IsWith

LEMMA LocksBeginStep ==
    ASSUME LockInvariant, NEW t \in Submitters, Locks!Begin(t)
    PROVE  LockInvariant'
<1>. DEFINE rows == Locks!FirstRows(submitter[t].operation)
            s == [submitter[t] EXCEPT !.state = "open", !.rows = rows]
<1>1. IsWith(s, t, "open", rows) /\ submitter' = [submitter EXCEPT ![t] = s]
    BY UpdatedSubmitter DEF Locks!Begin
<1>. HIDE DEF s
<1>2. s.rows = rows /\ submitter[t].operation \in Locks!Operation
    BY <1>1 DEF IsWith, LockInvariant, IsSubmitter
<1>3. line' = line /\ submitter[t].state # "open"
    BY DEF Locks!Begin
<1>4. \A r \in Locks!Rows, u \in Submitters : (Asked(u, r)' <=> Asked(u, r)) /\ ~Asked(t, r)
    BY <1>3 DEF Asked, LockInvariant
<1>5. ASSUME ~Locks!Rejudges(t) PROVE LocksInOrder(t)'
    <2>1. Rising(rows)
        BY <1>2, <1>5, FirstRowsRise DEF Locks!Rejudges
    <2>2. RowsToLock(t)' = rows
        BY <1>1, <1>2 DEF LockInvariant, RowsToLock
    <2>. QED
        BY <1>4, <2>1, <2>2 DEF LocksInOrder
<1>6. line' \in [Locks!Rows -> Seq(Submitters)] /\ \A r \in Locks!Rows : NoTwice(line'[r])
    BY <1>3 DEF LockInvariant
<1>. QED
    BY <1>1, <1>4, <1>5, <1>6, LocksGoOnStep DEF IsWith

(* The line of one row grows by t, or is as it was.  *)
LEMMA LocksAskStep ==
    ASSUME LockInvariant, NEW t \in Submitters, Locks!Ask(t)
    PROVE  LockInvariant'
<1>. DEFINE row == Head(RowsToLock(t))
<1>1. /\ submitter[t].state = "open" /\ RowsToLock(t) # <<>> /\ submitter' = submitter
      /\ ~Asked(t, row) /\ line' = [line EXCEPT ![row] = Append(@, t)]
    BY DEF Locks!Ask, Locks!Range, RowsToLock, Asked
<1>2. /\ IsSubmitter(submitter[t]) /\ submitter' = [submitter EXCEPT ![t] = submitter[t]]
    BY <1>1 DEF LockInvariant
<1>. HIDE DEF row
<1>3. ASSUME NEW r \in Locks!Rows
      PROVE  /\ line'[r] \in Seq(Submitters) /\ NoTwice(line'[r])
             /\ \A u \in Submitters : Asked(u, r)' => Asked(u, r) \/ (u = t /\ r = row)
    <2>1. line[r] \in Seq(Submitters) /\ NoTwice(line[r])
        BY DEF LockInvariant
    <2>2. CASE r # row
        BY <1>1, <2>1, <2>2 DEF LockInvariant, Asked
    <2>3. CASE r = row
        <3>1. line'[r] = Append(line[r], t)
            BY <1>1, <2>3 DEF LockInvariant
        <3>2. /\ line'[r] \in Seq(Submitters) /\ DOMAIN line'[r] = 1 .. Len(line[r]) + 1
              /\ DOMAIN line[r] = 1 .. Len(line[r]) /\ Len(line[r]) \in Nat
              /\ \A i \in 1 .. Len(line[r]) + 1 :
                    line'[r][i] = IF i = Len(line[r]) + 1 THEN t ELSE line[r][i]
            BY <2>1, <3>1
        <3>3. \A i \in DOMAIN line[r] : line[r][i] # t
            BY <1>1, <2>3 DEF Asked
        <3>4. NoTwice(line'[r])
            <4>1. ASSUME NEW i \in DOMAIN line'[r], NEW j \in DOMAIN line'[r], line'[r][i] = line'[r][j]
                  PROVE  i = j
                <5>. DEFINE n == Len(line[r])
                <5>1. CASE i # n + 1 /\ j # n + 1
                    <6>1. i \in DOMAIN line[r] /\ j \in DOMAIN line[r]
                        BY <3>2, <5>1
                    <6>2. line'[r][i] = line[r][i] /\ line'[r][j] = line[r][j]
                        BY <3>2, <5>1
                    <6>. QED
                        BY <2>1, <4>1, <6>1, <6>2 DEF NoTwice
                <5>2. CASE i = n + 1 /\ j # n + 1
                    BY <3>2, <3>3, <4>1, <5>2
                <5>3. CASE i # n + 1 /\ j = n + 1
                    BY <3>2, <3>3, <4>1, <5>3
                <5>. QED
                    BY <5>1, <5>2, <5>3
            <4>. QED
                BY <4>1 DEF NoTwice
        <3>. QED
            BY <2>3, <3>2, <3>4 DEF Asked
    <2>. QED
        BY <2>2, <2>3
<1>4. line' \in [Locks!Rows -> Seq(Submitters)]
    BY <1>1, <1>3 DEF LockInvariant
<1>5. ASSUME ~Locks!Rejudges(t) PROVE LocksInOrder(t)'
    BY <1>1, <1>3, <1>5 DEF LockInvariant, LocksInOrder, RowsToLock, row
<1>. QED
    BY <1>1, <1>2, <1>3, <1>4, <1>5, LocksGoOnStep

(* The first row is locked, and no more to be locked.  *)
LEMMA LocksExecuteStep ==
    ASSUME LockInvariant, NEW t \in Submitters, Locks!Execute(t)
    PROVE  LockInvariant'
<1>. DEFINE row == Head(RowsToLock(t))
            taken == IF row[1] = "submission" /\ Locks!Rejudges(t)
                     THEN Locks!RowsOfRejudge(row[2]) \o Tail(RowsToLock(t))
                     ELSE Tail(RowsToLock(t))
            s == [submitter[t] EXCEPT !.rows = taken]
<1>1. CASE Locks!Ends(t, "conflict")
    BY <1>1, LocksEndStep
<1>2. CASE ~ Locks!Ends(t, "conflict")
    <2>1. /\ submitter[t].state = "open" /\ RowsToLock(t) # <<>>
          /\ line' = [line EXCEPT ![row] = IF @ = <<>> THEN <<t>> ELSE @]
          /\ submitter' = [submitter EXCEPT ![t].rows = taken]
        BY <1>2 DEF Locks!Execute, RowsToLock
    <2>2. ~Locks!Rejudges(t) => taken = Tail(RowsToLock(t))
        OBVIOUS
    <2>. HIDE DEF row, taken
    <2>3. IsWith(s, t, "open", taken) /\ submitter' = [submitter EXCEPT ![t] = s]
        <3>1. /\ IsWith(s, t, submitter[t].state, taken)
              /\ [submitter EXCEPT ![t].rows = taken] = [submitter EXCEPT ![t] = s]
            BY UpdatedSubmitter
        <3>. QED
            BY <2>1, <3>1
    <2>4. s.rows = taken
        BY <2>3 DEF IsWith
    <2>5. ASSUME NEW r \in Locks!Rows
          PROVE  /\ line'[r] \in Seq(Submitters) /\ NoTwice(line'[r])
                 /\ \A u \in Submitters : Asked(u, r)' => Asked(u, r) \/ (u = t /\ r = row)
        <3>1. line[r] \in Seq(Submitters) /\ NoTwice(line[r])
            BY DEF LockInvariant
        <3>2. CASE line'[r] = line[r]
            BY <3>1, <3>2 DEF Asked
        <3>3. CASE r = row /\ line'[r] = <<t>>
            BY <3>3 DEF Asked, NoTwice
        <3>. QED
            BY <2>1, <3>2, <3>3 DEF LockInvariant
    <2>6. line' \in [Locks!Rows -> Seq(Submitters)]
        BY <2>1, <2>5 DEF LockInvariant
    <2>7. ASSUME ~Locks!Rejudges(t) PROVE LocksInOrder(t)'
        <3>1. LocksInOrder(t)
            BY <2>7 DEF LockInvariant
        <3>. DEFINE rows == RowsToLock(t)
        <3>2. rows \in Seq(Locks!Rows) /\ rows # <<>> /\ row = rows[1]
            BY <2>1, <3>1 DEF LocksInOrder, Rising, row
        <3>3. /\ Tail(rows) \in Seq(Locks!Rows) /\ DOMAIN Tail(rows) = 1 .. Len(rows) - 1
              /\ \A i \in 1 .. Len(rows) - 1 : Tail(rows)[i] = rows[i + 1]
              /\ Len(rows) \in Nat /\ DOMAIN rows = 1 .. Len(rows) /\ 1 \in DOMAIN rows
            BY <3>2, HeadTailProperties, LenProperties, EmptySeq
        <3>4. RowsToLock(t)' = Tail(rows)
            BY <2>2, <2>3, <2>4, <2>7 DEF LockInvariant, RowsToLock
        <3>. HIDE DEF rows
        <3>5. \A i, j \in DOMAIN rows : i < j => Rank(rows[i]) < Rank(rows[j])
            BY <3>1 DEF LocksInOrder, Rising, rows
        <3>6. Rising(Tail(rows))
            BY <3>3, <3>5 DEF Rising
        <3>7. \A i \in DOMAIN Tail(rows) : Rank(row) < Rank(Tail(rows)[i])
            BY <3>2, <3>3, <3>5
        <3>8. ASSUME NEW r \in Locks!Rows, Asked(t, r)
              PROVE  \A i \in DOMAIN Tail(rows) : Rank(r) < Rank(Tail(rows)[i])
            <4>1. r = row \/ \A i \in DOMAIN rows : Rank(r) < Rank(rows[i])
                BY <3>1, <3>8 DEF LocksInOrder, rows, row
            <4>. QED
                BY <3>3, <3>7, <4>1
        <3>. QED
            BY <2>5, <3>4, <3>6, <3>7, <3>8 DEF LocksInOrder
    <2>. HIDE DEF s
    <2>. QED
        BY <2>3, <2>5, <2>6, <2>7, LocksGoOnStep DEF IsWith
<1>. QED
    BY <1>1, <1>2

LEMMA LocksStep ==
    ASSUME LockInvariant, [Locks!Next]_(Locks!vars)
    PROVE  LockInvariant'
<1>1. ASSUME NEW t \in Submitters, Locks!Commit(t) PROVE LockInvariant'
    BY <1>1, LocksEndStep DEF Locks!Commit
<1>2. ASSUME NEW t \in Submitters, Locks!EndDeadlock(t) PROVE LockInvariant'
    <2>1. CASE Locks!Ends(t, "failed")
        BY <2>1, LocksEndStep
    <2>2. CASE ~Locks!Ends(t, "failed")
        <3>. DEFINE n == submitter[t].attempt + 1
                    s == [submitter[t] EXCEPT !.state = "asked", !.rows = <<>>, !.attempt = n]
        <3>1. /\ submitter' = [submitter EXCEPT ![t].state = "asked", ![t].rows = <<>>,
                                               ![t].attempt = n]
              /\ line' = Locks!Released(t)
            BY <1>2, <2>2 DEF Locks!EndDeadlock
        <3>2. IsWith(s, t, "asked", <<>>) /\ submitter' = [submitter EXCEPT ![t] = s]
            BY <3>1, UpdatedSubmitter
        <3>. HIDE DEF s
        <3>. QED
            BY <3>1, <3>2, LocksLeaveStep DEF IsWith
    <2>. QED
        BY <2>1, <2>2
<1>3. CASE UNCHANGED Locks!vars
    BY <1>3 DEF Locks!vars, LockInvariant, LocksInOrder, RowsToLock, Asked, Locks!Rejudges
<1>. QED
    BY <1>1, <1>2, <1>3, LocksBeginStep, LocksAskStep, LocksExecuteStep DEF Locks!Next, Locks!Step

LEMMA LocksInvariance == Locks!Spec => []LockInvariant
<1>1. LockInvariant /\ [Locks!Next]_(Locks!vars) => LockInvariant'
    BY LocksStep
<1>. QED
    BY <1>1, LocksInit, PTL DEF Locks!Spec

(* Waiting, directly or through others.  *)
LEMMA WaitingIsTransitive ==
    ASSUME NEW t \in Submitters, NEW other \in Locks!WaitsFor(t)
    PROVE  /\ \A next \in Locks!Ahead(other) : next \in Locks!WaitsFor(t)
           /\ \A next \in Locks!WaitsFor(other) : next \in Locks!WaitsFor(t)
BY DEF Locks!WaitsFor, Locks!Ahead

LEMMA WhoIsAheadIsWaitedFor ==
    ASSUME NEW t \in Submitters
    PROVE  Locks!Ahead(t) \subseteq Locks!WaitsFor(t) /\ Locks!WaitsFor(t) \subseteq Submitters
BY DEF Locks!WaitsFor, Locks!Ahead

(* Who waits for t is right behind t, or behind another who waits for t.  *)
LEMMA SomebodyIsAhead ==
    ASSUME NEW u \in Submitters, NEW t \in Locks!WaitsFor(u)
    PROVE  \E next \in Locks!Ahead(u) : next = t \/ t \in Locks!WaitsFor(next)
<1>. DEFINE S == Locks!Ahead(u) \cup UNION {Locks!WaitsFor(next) : next \in Locks!Ahead(u)}
<1>1. Locks!Ahead(u) \subseteq Submitters
    BY WhoIsAheadIsWaitedFor
<1>2. S \in SUBSET Submitters
    BY <1>1, WhoIsAheadIsWaitedFor
<1>3. Locks!Ahead(u) \subseteq S
    OBVIOUS
<1>4. ASSUME NEW s \in S PROVE Locks!Ahead(s) \subseteq S
    <2>1. CASE s \in Locks!Ahead(u)
        BY <1>1, <2>1, WhoIsAheadIsWaitedFor
    <2>2. ASSUME NEW next \in Locks!Ahead(u), s \in Locks!WaitsFor(next) PROVE Locks!Ahead(s) \subseteq S
        BY <1>1, <2>2, WaitingIsTransitive
    <2>. QED
        BY <2>1, <2>2
<1>5. t \in S
    <2>. HIDE DEF S
    <2>. QED
        BY <1>2, <1>3, <1>4 DEF Locks!WaitsFor
<1>. QED
    BY <1>5

(***************************************************************************)
(* In a circle without a rejudge, look at those who wait for a row of the  *)
(* highest rank, and of these at one with the least place in its line.     *)
(* Who is ahead of it there and waits in the circle waits for a row of a   *)
(* rank no lower: for the same row, at a lower place.                      *)
(***************************************************************************)
LEMMA NoCircleWithoutRejudge == LockInvariant => EveryDeadlockHasARejudge
<1>. SUFFICES ASSUME LockInvariant, NEW t \in Submitters, t \in Locks!WaitsFor(t),
                     \A other \in Submitters :
                         other \in Locks!WaitsFor(t) /\ t \in Locks!WaitsFor(other)
                             => ~Locks!Rejudges(other)
              PROVE  FALSE
    BY DEF EveryDeadlockHasARejudge, Locks!EveryDeadlockHasARejudge, Locks!InCircle
<1>. DEFINE circle == {u \in Submitters : u \in Locks!WaitsFor(t) /\ t \in Locks!WaitsFor(u)}
            row(u) == Head(RowsToLock(u))
            IsAt(u, i) == i \in DOMAIN line[row(u)] /\ line[row(u)][i] = u
<1>1. ASSUME NEW u \in circle
      PROVE  \E next \in circle : next \in Locks!Ahead(u)
    <2>1. PICK next \in Locks!Ahead(u) : next = t \/ t \in Locks!WaitsFor(next)
        BY SomebodyIsAhead
    <2>2. next \in Submitters /\ next \in Locks!WaitsFor(t)
        BY <2>1, WaitingIsTransitive, WhoIsAheadIsWaitedFor
    <2>. QED
        BY <2>1, <2>2
<1>2. ASSUME NEW u \in circle
      PROVE  /\ LocksInOrder(u) /\ RowsToLock(u) # <<>> /\ row(u) \in Locks!Rows
             /\ row(u) = RowsToLock(u)[1] /\ 1 \in DOMAIN RowsToLock(u)
    <2>1. LocksInOrder(u)
        BY DEF LockInvariant
    <2>2. RowsToLock(u) # <<>>
        BY <1>1 DEF Locks!Ahead, RowsToLock
    <2>. QED
        BY <2>1, <2>2 DEF LocksInOrder, Rising
<1>3. ASSUME NEW u \in circle, NEW next \in Locks!Ahead(u)
      PROVE  \E i, j \in DOMAIN line[row(u)] :
                 i < j /\ line[row(u)][i] = next /\ line[row(u)][j] = u
    BY DEF Locks!Ahead, RowsToLock
<1>4. \A u \in circle : /\ line[row(u)] \in Seq(Submitters) /\ NoTwice(line[row(u)])
                        /\ DOMAIN line[row(u)] \subseteq Nat
    BY <1>2 DEF LockInvariant
<1>5. t \in circle
    OBVIOUS
<1>. HIDE DEF circle
<1>6. ASSUME NEW u \in circle, NEW next \in circle, next \in Locks!Ahead(u)
      PROVE  row(next) = row(u) \/ Rank(row(u)) < Rank(row(next))
    <2>1. Asked(next, row(u)) /\ row(u) \in Locks!Rows
        BY <1>2, <1>3, <1>6 DEF Asked
    <2>. QED
        BY <1>2, <2>1 DEF LocksInOrder
<1>7. PICK m \in {4 - Rank(row(u)) : u \in circle} :
          \A n \in {4 - Rank(row(u)) : u \in circle} : m <= n
    <2>1. {4 - Rank(row(u)) : u \in circle} \subseteq Nat
        BY RowsHaveRanks
    <2>2. {4 - Rank(row(u)) : u \in circle} # {}
        BY <1>5
    <2>. QED
        BY <2>1, <2>2, LeastNumber
<1>. DEFINE highest == {u \in circle : 4 - Rank(row(u)) = m}
            places == {i \in Nat : \E u \in highest : IsAt(u, i)}
<1>8. \E i \in places : \A j \in places : i <= j
    <2>1. PICK u \in circle : 4 - Rank(row(u)) = m
        BY <1>7
    <2>2. \E i \in DOMAIN line[row(u)] : IsAt(u, i)
        BY <1>1, <1>3
    <2>3. places # {}
        BY <1>4, <2>1, <2>2
    <2>. QED
        BY <2>3, LeastNumber
<1>9. PICK i \in places : \A j \in places : i <= j
    BY <1>8
<1>10. PICK u \in highest : IsAt(u, i)
    BY <1>9
<1>11. PICK next \in circle : next \in Locks!Ahead(u)
    BY <1>1, <1>10
<1>12. Rank(row(next)) <= Rank(row(u))
    <2>1. m <= 4 - Rank(row(next)) /\ 4 - Rank(row(u)) = m
        BY <1>7, <1>10, <1>11
    <2>. QED
        BY <2>1, RowsHaveRanks
<1>13. row(next) = row(u) /\ next \in highest
    <2>1. row(next) = row(u)
        BY <1>6, <1>10, <1>11, <1>12, RowsHaveRanks
    <2>. QED
        BY <1>10, <1>11, <2>1
<1>14. PICK k, j \in DOMAIN line[row(u)] :
           k < j /\ line[row(u)][k] = next /\ line[row(u)][j] = u
    BY <1>3, <1>10, <1>11
<1>15. j = i /\ k \in Nat
    BY <1>4, <1>10, <1>14 DEF NoTwice
<1>16. k \in places
    BY <1>13, <1>14, <1>15
<1>. QED
    BY <1>9, <1>14, <1>15, <1>16

(***************************************************************************)
(* Users who submit and workers who judge lock rows in one order: whatever *)
(* transactions wait for each other in a circle, one of them is a rejudge, *)
(* for any number of transactions, users and submissions                   *)
(* (finalize_submission, rejudge_submission).                              *)
(***************************************************************************)
THEOREM DeadlocksNeedARejudge == Locks!Spec => []EveryDeadlockHasARejudge
BY LocksInvariance, NoCircleWithoutRejudge, PTL
=============================================================================
