--------------------------- MODULE SnapshotCache ---------------------------
(***************************************************************************)
(* The directories in which the judge keeps the testcases of the published *)
(* versions of one problem (src/backend/src/judge_core/testcase_snapshot). *)
(* A worker that needs a version takes the lock its process has for the    *)
(* problem, looks for a directory of the version with a valid manifest,    *)
(* otherwise fetches the testcases from the database into a staging        *)
(* directory of its own and renames that to the directory of the version.  *)
(* The lock is given back before the testcases are used, and it excludes   *)
(* the workers of one process only: judge processes share the directories. *)
(***************************************************************************)
EXTENDS Naturals, FiniteSets

CONSTANTS
    Processes,    \* the judge server processes that share the root directory
    Workers,      \* their judge workers
    Versions,     \* the published versions of the problem
    Cases,        \* how many testcases a version has
    Found,        \* what a version directory may be at the start
    MaxFailures   \* bound: crashes and failed file or database operations

CONSTANTS
    ProcessOf,    \* the process of a worker
    None          \* no worker, no version

ASSUME CasesAssumption == Cases \in Nat
ASSUME MaxFailuresAssumption == MaxFailures \in Nat
ASSUME WorkersAssumption == IsFiniteSet(Workers) /\ ProcessOf \in [Workers -> Processes]
ASSUME NoneAssumption == None \notin Workers \cup Versions
ASSUME FoundAssumption == Found \subseteq {"absent", "whole", "outdated"}

VARIABLES
    pc,        \* where each worker is
    asked,     \* the version it was asked for
    lock,      \* who holds the lock of the problem in each process
    staging,   \* the staging directory of each worker
    dir,       \* the directory of each version
    litter,    \* staging directories nobody will remove
    failures   \* how many crashes and failures there were

vars == <<pc, asked, lock, staging, dir, litter, failures>>

Orders == 1..Cases

(* What parse makes of a manifest: one of an older schema version is not   *)
(* valid.  Manifests are written whole, under another name, and renamed.   *)
ManifestState == {"none", "outdated", "valid"}

(* A directory holds the two files of some testcases and a manifest. *)
Directory == [exists: BOOLEAN, files: SUBSET Orders, manifest: ManifestState]

NoDirectory == [exists |-> FALSE, files |-> {}, manifest |-> "none"]
EmptyDirectory == [NoDirectory EXCEPT !.exists = TRUE]
WholeDirectory == [exists |-> TRUE, files |-> Orders, manifest |-> "valid"]

Initially(state) ==
    CASE state = "absent"   -> NoDirectory
      [] state = "whole"    -> WholeDirectory
      [] state = "outdated" -> [WholeDirectory EXCEPT !.manifest = "outdated"]

IsEmpty(d) == d.files = {} /\ d.manifest = "none"

(* read_manifest and has_valid_manifest: only the manifest is looked at. *)
HasValidManifest(v) == dir[v].manifest = "valid"

(* validate_materialized_snapshot: the manifest and every file are there. *)
IsMaterialized(d) == d.manifest = "valid" /\ d.files = Orders

(* The steps of a worker that holds the lock of its problem. *)
Acquiring == {"checking", "fetching", "fetched", "writing", "validating", "publishing",
              "collided", "rechecking", "removing", "republishing", "loading"}

Init ==
    /\ pc = [w \in Workers |-> "idle"]
    /\ asked = [w \in Workers |-> None]
    /\ lock = [p \in Processes |-> None]
    /\ staging = [w \in Workers |-> NoDirectory]
    /\ \E state \in [Versions -> Found] : dir = [v \in Versions |-> Initially(state[v])]
    /\ litter = 0
    /\ failures = 0

-----------------------------------------------------------------------------
(* problem_lock_registry::lock: a mutex for each problem of one process. *)
Lock(w, v) ==
    /\ pc[w] = "idle"
    /\ lock[ProcessOf[w]] = None
    /\ lock' = [lock EXCEPT ![ProcessOf[w]] = w]
    /\ pc' = [pc EXCEPT ![w] = "checking"]
    /\ asked' = [asked EXCEPT ![w] = v]
    /\ UNCHANGED <<staging, dir, litter, failures>>

\* Mutant of Release: an error keeps the lock.
ReleaseOnSuccess(w, state) ==
    /\ pc' = [pc EXCEPT ![w] = state]
    /\ lock' = [lock EXCEPT ![ProcessOf[w]] = IF state = "judging" THEN None ELSE @]
    /\ staging' = [staging EXCEPT ![w] = NoDirectory]
    /\ asked' = [asked EXCEPT ![w] = IF state = "idle" THEN None ELSE @]

(* acquire returns: the staging area and the scoped lock are destroyed. *)
Release(w, state) ==
    /\ pc' = [pc EXCEPT ![w] = state]
    /\ lock' = [lock EXCEPT ![ProcessOf[w]] = None]
    /\ staging' = [staging EXCEPT ![w] = NoDirectory]
    /\ asked' = [asked EXCEPT ![w] = IF state = "idle" THEN None ELSE @]

Moves(w, from, to) ==
    /\ pc[w] = from
    /\ pc' = [pc EXCEPT ![w] = to]
    /\ UNCHANGED <<asked, lock, litter, failures>>

CheckManifest(w) ==
    /\ Moves(w, "checking", IF HasValidManifest(asked[w]) THEN "loading" ELSE "fetching")
    /\ UNCHANGED <<staging, dir>>

(* fetch_manifest reads the version in one transaction. *)
FetchManifest(w) ==
    /\ Moves(w, "fetching", "fetched")
    /\ UNCHANGED <<staging, dir>>

(* The staging directory has a name of its own. *)
CreateStagingArea(w) ==
    /\ Moves(w, "fetched", "writing")
    /\ staging' = [staging EXCEPT ![w] = EmptyDirectory]
    /\ UNCHANGED dir

(* download_all writes the testcases in their order. *)
WriteTestcase(w) ==
    /\ pc[w] = "writing"
    /\ \E c \in Orders :
        /\ staging[w].files = 1..(c - 1)
        /\ staging' = [staging EXCEPT ![w].files = @ \cup {c}]
    /\ UNCHANGED <<pc, asked, lock, dir, litter, failures>>

WriteManifest(w) ==
    /\ Moves(w, "writing", "validating")
    /\ staging[w].files = Orders
    /\ staging' = [staging EXCEPT ![w].manifest = "valid"]
    /\ UNCHANGED dir

ValidateStagingArea(w) ==
    /\ Moves(w, "validating", "publishing")
    /\ IsMaterialized(staging[w])
    /\ UNCHANGED <<staging, dir>>

(* rename replaces an absent or an empty directory, in one step. *)
Renames(w) ==
    /\ IsEmpty(dir[asked[w]])
    /\ dir' = [dir EXCEPT ![asked[w]] = staging[w]]
    /\ staging' = [staging EXCEPT ![w] = NoDirectory]

Publish(w) ==
    /\ Moves(w, "publishing", "loading")
    /\ Renames(w)

(* The directory is in the way: another one published it, or it is broken. *)
PublishCollides(w) ==
    /\ Moves(w, "publishing", "collided")
    /\ ~IsEmpty(dir[asked[w]])
    /\ UNCHANGED <<staging, dir>>

StillThere(w) ==
    /\ Moves(w, "collided", "rechecking")
    /\ dir[asked[w]].exists
    /\ UNCHANGED <<staging, dir>>

\* Mutant of Recheck: what is in the way is replaced without another look.
RecheckSkipped(w) ==
    /\ Moves(w, "rechecking", "removing")
    /\ UNCHANGED <<staging, dir>>

(* The directory of another process is kept, one that is not valid goes. *)
Recheck(w) ==
    /\ Moves(w, "rechecking", IF HasValidManifest(asked[w]) THEN "loading" ELSE "removing")
    /\ UNCHANGED <<staging, dir>>

(* remove_all removes the entries one by one, in any order, ... *)
RemoveEntry(w) ==
    /\ pc[w] = "removing"
    /\ LET v == asked[w]
       IN \/ \E c \in dir[v].files : dir' = [dir EXCEPT ![v].files = @ \ {c}]
          \/ /\ dir[v].manifest # "none"
             /\ dir' = [dir EXCEPT ![v].manifest = "none"]
    /\ UNCHANGED <<pc, asked, lock, staging, litter, failures>>

(* ... and then the directory. *)
RemoveDirectory(w) ==
    /\ Moves(w, "removing", "republishing")
    /\ IsEmpty(dir[asked[w]])
    /\ dir' = [dir EXCEPT ![asked[w]] = NoDirectory]
    /\ UNCHANGED staging

Republish(w) ==
    /\ Moves(w, "republishing", "loading")
    /\ Renames(w)

(* load_snapshot reads the manifest once more, without a look at the files. *)
Load(w) ==
    /\ pc[w] = "loading"
    /\ HasValidManifest(asked[w])
    /\ Release(w, "judging")
    /\ UNCHANGED <<dir, litter, failures>>

-----------------------------------------------------------------------------
(* What is there is not what the code needs: acquire returns the error. *)
Refused(w) ==
    /\ \/ pc[w] = "validating" /\ ~IsMaterialized(staging[w])
       \/ pc[w] = "collided" /\ ~dir[asked[w]].exists
       \/ pc[w] = "republishing" /\ ~IsEmpty(dir[asked[w]])
       \/ pc[w] = "loading" /\ ~HasValidManifest(asked[w])
    /\ Release(w, "idle")
    /\ UNCHANGED <<dir, litter, failures>>

(* An operation on a file or the read of the version fails for good. *)
OperationFails(w) ==
    /\ failures < MaxFailures
    /\ pc[w] \in Acquiring
    /\ failures' = failures + 1
    /\ Release(w, "idle")
    /\ UNCHANGED <<dir, litter>>

(* The runs and the checks of a submission read the files; then the worker *)
(* is free.                                                                *)
FinishJudging(w) ==
    /\ pc[w] = "judging"
    /\ pc' = [pc EXCEPT ![w] = "idle"]
    /\ asked' = [asked EXCEPT ![w] = None]
    /\ UNCHANGED <<lock, staging, dir, litter, failures>>

(* A process dies: its locks are gone, its staging directories stay. *)
Crash(p) ==
    LET mine == {w \in Workers : ProcessOf[w] = p}
    IN /\ failures < MaxFailures
       /\ failures' = failures + 1
       /\ pc' = [w \in Workers |-> IF w \in mine THEN "idle" ELSE pc[w]]
       /\ asked' = [w \in Workers |-> IF w \in mine THEN None ELSE asked[w]]
       /\ lock' = [lock EXCEPT ![p] = None]
       /\ litter' = litter + Cardinality({w \in mine : staging[w].exists})
       /\ staging' = [w \in Workers |-> IF w \in mine THEN NoDirectory ELSE staging[w]]
       /\ UNCHANGED dir

AcquireStep(w) ==
    \/ CheckManifest(w)
    \/ FetchManifest(w)
    \/ CreateStagingArea(w)
    \/ WriteTestcase(w)
    \/ WriteManifest(w)
    \/ ValidateStagingArea(w)
    \/ Publish(w)
    \/ PublishCollides(w)
    \/ StillThere(w)
    \/ Recheck(w)
    \/ RemoveEntry(w)
    \/ RemoveDirectory(w)
    \/ Republish(w)
    \/ Load(w)
    \/ Refused(w)

Next ==
    \/ \E w \in Workers : \/ \E v \in Versions : Lock(w, v)
                          \/ AcquireStep(w)
                          \/ OperationFails(w)
                          \/ FinishJudging(w)
    \/ \E p \in Processes : Crash(p)

Spec == Init /\ [][Next]_vars

(* A worker that holds the lock runs: none of its steps waits for another. *)
Fairness == \A w \in Workers : WF_vars(AcquireStep(w))

FairSpec == Spec /\ Fairness

-----------------------------------------------------------------------------
(* The type of the variables (the directories, locks and worker states). *)
TypeOK ==
    /\ pc \in [Workers -> {"idle", "judging"} \cup Acquiring]
    /\ asked \in [Workers -> Versions \cup {None}]
    /\ lock \in [Processes -> Workers \cup {None}]
    /\ staging \in [Workers -> Directory]
    /\ dir \in [Versions -> Directory]
    /\ litter \in Nat
    /\ failures \in 0..MaxFailures

(* From load_snapshot to the last read of a testcase the directory of the  *)
(* version has all its files, although the lock was given back and other   *)
(* workers, processes and crashes go on (testcase_snapshot_facade::acquire).*)
JudgedSnapshotIsWhole == \A w \in Workers : pc[w] = "judging" => IsMaterialized(dir[asked[w]])

(* Only the manifest is checked when a version is looked up: whenever it   *)
(* is valid, all the files it counts are there (publish_version_directory).*)
ManifestVouchesForTheFiles == \A v \in Versions : HasValidManifest(v) => dir[v].files = Orders

(* What a worker judges with, and what the next one will find valid, is    *)
(* complete (testcase_snapshot_facade::acquire, publish_version_directory).*)
DirectoriesAreWhole == JudgedSnapshotIsWhole /\ ManifestVouchesForTheFiles

(* A directory that is whole stays as it is: a version is immutable, and   *)
(* what publish_version_directory removes was not valid at that moment.    *)
WholeDirectoryIsKept ==
    [][\A v \in Versions : IsMaterialized(dir[v]) => dir'[v] = dir[v]]_vars

(* Every staging directory is of a worker that fills or publishes it, or   *)
(* was left by a crash (temp_dir's destructor).                            *)
StagingIsCleanedUp ==
    /\ \A w \in Workers : staging[w].exists => lock[ProcessOf[w]] = w
    /\ litter > 0 => failures > 0

(* Every acquire comes to an end, with a snapshot or an error: no worker   *)
(* keeps the lock of the problem from the others of its process.           *)
LockIsGivenBack == \A w \in Workers : lock[ProcessOf[w]] = w ~> lock[ProcessOf[w]] # w

=============================================================================
