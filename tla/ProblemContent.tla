----------------------------- MODULE ProblemContent -----------------------------
(***************************************************************************)
(* The edits of what a problem shows: its title, statement, limits and     *)
(* samples.  Each edit is one READ COMMITTED transaction of a few          *)
(* statements: a statement sees what is committed when it starts and what  *)
(* its own transaction wrote, an UPDATE or DELETE waits for the row's lock *)
(* and then works on what the holder left, and a lock is kept to the end   *)
(* of the transaction.  The samples of a problem are numbered, and the     *)
(* statement row of the problem counts them.                               *)
(***************************************************************************)
EXTENDS Integers, FiniteSetsExt

CONSTANTS
    Transactions,   \* write transactions that may be open at the same time
    Kinds,          \* the edits the administrators ask for
    Limits,         \* values of the limits
    InitialLimits,  \* those create_problem writes
    MaxSamples,     \* bound: samples are numbered up to this
    MaxVersion,     \* bound: versions are numbered up to this
    None

Orders == 1 .. MaxSamples

ASSUME ProblemContentAssumption ==
    /\ Kinds \subseteq {"create", "delete", "set", "limits", "title", "statement"}
    /\ InitialLimits \in Limits
    /\ MaxSamples \in Nat
    /\ MaxVersion \in Nat \ {0}
    /\ None \notin Limits

VARIABLES
    samples,     \* orders of the rows of problem_samples
    count,       \* problem_statements.sample_count
    limits,      \* problem_limits
    version,     \* problems.version
    published,   \* the limits of the manifest of every published version
    tx           \* the open transactions: what they hold and what they wrote

vars == <<samples, count, limits, version, published, tx>>

Statement == <<"statement", 0>>
Problem == <<"problem", 0>>
LimitsRow == <<"limits", 0>>
Sample(order) == <<"sample", order>>

\* The first statement of an edit.
First(kind) ==
    CASE kind = "create" -> "take_order"
      [] kind = "delete" -> "list"
      [] OTHER -> kind

\* What follows a statement: an edit that makes a version does it last, and then
\* publishes its snapshot.
After ==
    [take_order |-> "insert", insert |-> "get_version", get_version |-> "commit",
     list |-> "find", find |-> "remove", remove |-> "decrease", decrease |-> "version",
     set |-> "version", limits |-> "version", title |-> "version", statement |-> "version",
     version |-> "publish", publish |-> "commit"]

-----------------------------------------------------------------------------
(* Transactions *)

\* t is open, and executes this statement next.
At(t, statement) ==
    /\ tx[t] # None
    /\ tx[t].at = statement

\* The row is not locked by another transaction.
IsFree(t, row) ==
    \A other \in Transactions \ {t} : tx[other] # None => row \notin tx[other].holds

\* The statement of t is executed, and leaves the transaction like this.
Executed(t, changed) ==
    /\ tx' = [tx EXCEPT ![t] = [changed EXCEPT !.at = After[tx[t].at]]]
    /\ UNCHANGED <<samples, count, limits, version, published>>

\* The transaction ends, and nothing it wrote was ever there.
RollsBack(t) ==
    /\ tx' = [tx EXCEPT ![t] = None]
    /\ UNCHANGED <<samples, count, limits, version, published>>

\* An administrator asks for an edit: of sample order, or to the limits value.
Begin(t) ==
    /\ tx[t] = None
    /\ \E kind \in Kinds, order \in Orders, value \in Limits :
        /\ kind # "set" => order = 1
        /\ kind # "limits" => value = InitialLimits
        /\ tx' = [tx EXCEPT ![t] =
               [kind |-> kind, at |-> First(kind), holds |-> {}, order |-> order,
                count |-> 0, limits |-> value, version |-> 0, manifest |-> None]]
    /\ UNCHANGED <<samples, count, limits, version, published>>

\* A statement fails, the connection is lost, or the database ends a deadlock.
Fail(t) ==
    /\ tx[t] # None
    /\ RollsBack(t)

-----------------------------------------------------------------------------
(* Statements *)

\* increase_sample_count: the new count is the order of the new sample.
TakeOrder(t) ==
    /\ At(t, "take_order")
    /\ IsFree(t, Statement)
    /\ count < MaxSamples
    /\ Executed(t, [tx[t] EXCEPT !.holds = @ \cup {Statement}, !.count = count + 1, !.order = count + 1])

\* INSERT: the key is unique, and who deletes or inserts the same one is waited for.
Insert(t) ==
    /\ At(t, "insert")
    /\ IsFree(t, Sample(tx[t].order))
    /\ IF tx[t].order \in samples
         THEN RollsBack(t)
         ELSE Executed(t, [tx[t] EXCEPT !.holds = @ \cup {Sample(tx[t].order)}])

\* create_sample makes no version, its answer tells the one there is.
GetVersion(t) ==
    /\ At(t, "get_version")
    /\ Executed(t, [tx[t] EXCEPT !.version = version])

\* list_samples: the last of them is the one to delete.
List(t) ==
    /\ At(t, "list")
    /\ IF samples = {}
         THEN RollsBack(t)
         ELSE Executed(t, [tx[t] EXCEPT !.order = Max(samples)])

\* DELETE ... WHERE sample_order = (SELECT MAX ...), as its snapshot has it.
Find(t) ==
    /\ At(t, "find")
    /\ IF tx[t].order = Max(samples \cup {0})
         THEN Executed(t, tx[t])
         ELSE RollsBack(t)

\* Mutant of Remove: that no row was deleted is not noticed.
RemoveUnchecked(t) ==
    /\ At(t, "remove")
    /\ IsFree(t, Sample(tx[t].order))
    /\ Executed(t, [tx[t] EXCEPT !.holds = @ \cup {Sample(tx[t].order)}])

\* The row found is deleted once nobody holds it, if it is still there.
Remove(t) ==
    /\ At(t, "remove")
    /\ IsFree(t, Sample(tx[t].order))
    /\ IF tx[t].order \in samples
         THEN Executed(t, [tx[t] EXCEPT !.holds = @ \cup {Sample(tx[t].order)}])
         ELSE RollsBack(t)

\* decrease_sample_count: UPDATE ... WHERE sample_count > 0.
Decrease(t) ==
    /\ At(t, "decrease")
    /\ IsFree(t, Statement)
    /\ IF count > 0
         THEN Executed(t, [tx[t] EXCEPT !.holds = @ \cup {Statement}, !.count = count - 1])
         ELSE RollsBack(t)

\* set_sample: its text changes, if it is there.
SetSample(t) ==
    /\ At(t, "set")
    /\ IsFree(t, Sample(tx[t].order))
    /\ IF tx[t].order \in samples
         THEN Executed(t, [tx[t] EXCEPT !.holds = @ \cup {Sample(tx[t].order)}])
         ELSE RollsBack(t)

\* set_limits (an upsert): the value asked for is in tx[t].limits.
SetLimits(t) ==
    /\ At(t, "limits")
    /\ IsFree(t, LimitsRow)
    /\ Executed(t, [tx[t] EXCEPT !.holds = @ \cup {LimitsRow}])

\* set_title: the row of the problem is the one the version is in.
SetTitle(t) ==
    /\ At(t, "title")
    /\ IsFree(t, Problem)
    /\ Executed(t, [tx[t] EXCEPT !.holds = @ \cup {Problem}])

\* set_statement: the row of the statement is the one the count is in.
SetStatement(t) ==
    /\ At(t, "statement")
    /\ IsFree(t, Statement)
    /\ Executed(t, [tx[t] EXCEPT !.holds = @ \cup {Statement}, !.count = count])

\* Mutant of IncreaseVersion: the version is read, not taken.
IncreaseVersionUnlocked(t) ==
    /\ At(t, "version")
    /\ version < MaxVersion
    /\ Executed(t, [tx[t] EXCEPT !.holds = @ \cup {Problem}, !.version = version + 1])

IncreaseVersion(t) ==
    /\ At(t, "version")
    /\ IsFree(t, Problem)
    /\ version < MaxVersion
    /\ Executed(t, [tx[t] EXCEPT !.holds = @ \cup {Problem}, !.version = version + 1])

\* The limits a statement of t sees: its own, or those committed.
VisibleLimits(t) ==
    IF LimitsRow \in tx[t].holds THEN tx[t].limits ELSE limits

\* publish_current_snapshot: the manifest of the new version, with the limits it sees.
Publish(t) ==
    /\ At(t, "publish")
    /\ Executed(t, [tx[t] EXCEPT !.manifest = VisibleLimits(t)])

\* All statements are executed: what they wrote is there for everyone.
Commit(t) ==
    /\ At(t, "commit")
    /\ samples' = CASE tx[t].kind = "create" -> samples \cup {tx[t].order}
                    [] tx[t].kind = "delete" -> samples \ {tx[t].order}
                    [] OTHER -> samples
    /\ count' = IF Statement \in tx[t].holds THEN tx[t].count ELSE count
    /\ limits' = VisibleLimits(t)
    /\ version' = IF Problem \in tx[t].holds THEN tx[t].version ELSE version
    /\ published' = IF tx[t].manifest = None THEN published
                    ELSE [published EXCEPT ![tx[t].version] = tx[t].manifest]
    /\ tx' = [tx EXCEPT ![t] = None]

-----------------------------------------------------------------------------
(* The problem is created in one transaction, with the initial limits. *)

Init ==
    /\ samples = {}
    /\ count = 0
    /\ limits = InitialLimits
    /\ version = 1
    /\ published = [v \in 1 .. MaxVersion |-> IF v = 1 THEN InitialLimits ELSE None]
    /\ tx = [t \in Transactions |-> None]

Execute(t) ==
    \/ TakeOrder(t) \/ Insert(t) \/ GetVersion(t)
    \/ List(t) \/ Find(t) \/ Remove(t) \/ Decrease(t)
    \/ SetSample(t) \/ SetLimits(t) \/ SetTitle(t) \/ SetStatement(t)
    \/ IncreaseVersion(t) \/ Publish(t)

Next == \E t \in Transactions : Begin(t) \/ Execute(t) \/ Commit(t) \/ Fail(t)

Spec == Init /\ [][Next]_vars

-----------------------------------------------------------------------------
(* Properties *)

\* The count kept in the statement row is the number of samples there are,
\* whatever edits of several administrators meet: create_sample and
\* delete_sample write the two in statements of their own, and work on what
\* they find when they get the locks.
CountIsNumberOfSamples == count = Cardinality(samples)

\* The samples are numbered without a gap.
SamplesAreContiguous == samples = 1 .. count

\* The manifest of the current version has the current limits, so a
\* submission is judged with the limits the problem shows: an edit that is
\* about something else may publish while set_limits is under way, and two
\* edits may want the same version.
CurrentLimitsArePublished == published[version] = limits

\* A published manifest never changes: judges copy it and keep it by its number.
ManifestsNeverChange ==
    [][\A v \in 1 .. MaxVersion : published[v] # None => published'[v] = published[v]]_vars

\* With nobody else at work a sample can be appended (problem_api.md): the
\* order create_sample is about to take is not one that is taken already.
NextSampleHasItsPlace ==
    (\A t \in Transactions : tx[t] = None) => count + 1 \notin samples
===============================================================================
