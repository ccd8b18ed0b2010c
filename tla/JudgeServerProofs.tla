-------------------------- MODULE JudgeServerProofs --------------------------
(***************************************************************************)
(* Proofs about JudgeServer, one component after the other.  First         *)
(* SnapshotCache: a snapshot stays whole while it is used and a whole      *)
(* directory is never touched again, for any number of processes, workers, *)
(* versions, testcases and failures, as long as either all the workers are *)
(* of one process or no directory of an older schema version is found at   *)
(* the start.  Then Sandbox, JudgeWorkers and JudgeStatus, without any     *)
(* such condition.                                                         *)
(***************************************************************************)
EXTENDS JudgeServer, FiniteSetTheorems, TLAPS

OneProcess == \A w, x \in Workers : ProcessOf[w] = ProcessOf[x]
NothingOutdated == "outdated" \notin Found

(* The steps of a worker whose staging directory is complete. *)
Staged == {"publishing", "collided", "rechecking", "removing", "republishing"}

(* Workers inside acquire hold the lock of their process and know what     *)
(* they were asked for.                                                    *)
LocksAreHeld ==
    \A w \in Workers :
        /\ pc[w] \in Acquiring => lock[ProcessOf[w]] = w
        /\ pc[w] \in Acquiring \cup {"judging"} => asked[w] \in Versions

StagedIsMaterialized == \A w \in Workers : pc[w] \in Staged => IsMaterialized(staging[w])

(* What a worker removes is not valid. *)
RemovedIsNotValid == \A w \in Workers : pc[w] = "removing" => ~HasValidManifest(asked[w])

JudgedIsValid == \A w \in Workers : pc[w] = "judging" => HasValidManifest(asked[w])

(* Without outdated directories what is in the way is valid, and nothing   *)
(* is ever removed.                                                        *)
NothingIsRemoved ==
    NothingOutdated =>
        /\ \A v \in Versions : IsEmpty(dir[v]) \/ HasValidManifest(v)
        /\ \A w \in Workers :
            /\ pc[w] # "removing"
            /\ pc[w] \in {"collided", "rechecking"} => HasValidManifest(asked[w])

IInv ==
    /\ TypeOK
    /\ LocksAreHeld
    /\ StagedIsMaterialized
    /\ ManifestVouchesForTheFiles
    /\ RemovedIsNotValid
    /\ JudgedIsValid
    /\ NothingIsRemoved

LEMMA InitInvariant == Init => IInv
<1>. SUFFICES ASSUME Init PROVE IInv
    OBVIOUS
<1>1. PICK state \in [Versions -> Found] : dir = [v \in Versions |-> Initially(state[v])]
    BY DEF Init
<1>2. \A v \in Versions : state[v] \in {"absent", "whole", "outdated"}
    BY FoundAssumption
<1>3. dir \in [Versions -> Directory]
    BY <1>1, <1>2 DEF Initially, Directory, ManifestState, WholeDirectory, NoDirectory
<1>4. TypeOK
    BY <1>3, CasesAssumption, MaxFailuresAssumption
    DEF Init, TypeOK, NoDirectory, Directory, ManifestState
<1>5. ManifestVouchesForTheFiles
    BY <1>1, <1>2
    DEF Initially, WholeDirectory, NoDirectory, ManifestVouchesForTheFiles, HasValidManifest
<1>6. NothingIsRemoved
    <2>. SUFFICES ASSUME NothingOutdated
                  PROVE  \A v \in Versions : IsEmpty(dir[v]) \/ HasValidManifest(v)
        BY DEF Init, NothingIsRemoved
    <2>1. \A v \in Versions : state[v] \in {"absent", "whole"}
        BY <1>2 DEF NothingOutdated
    <2>. QED
        BY <1>1, <2>1
        DEF Initially, WholeDirectory, NoDirectory, HasValidManifest, IsEmpty
<1>. QED
    BY <1>4, <1>5, <1>6
    DEF Init, IInv, LocksAreHeld, StagedIsMaterialized, Staged, RemovedIsNotValid,
        JudgedIsValid, Acquiring

LEMMA DirectoryType ==
    /\ NoDirectory \in Directory
    /\ EmptyDirectory \in Directory
    /\ \A d \in Directory :
        /\ d.files \in SUBSET Orders
        /\ \A c \in Orders : /\ [d EXCEPT !.files = @ \cup {c}] \in Directory
                            /\ [d EXCEPT !.files = @ \ {c}] \in Directory
        /\ \A m \in ManifestState : [d EXCEPT !.manifest = m] \in Directory
BY DEF NoDirectory, EmptyDirectory, Directory, ManifestState

(* The typing of the variables, action by action. *)
LEMMA TypeStep ==
    ASSUME TypeOK, LocksAreHeld, [Next]_vars
    PROVE  TypeOK'
<1>. USE DEF TypeOK, Moves, Acquiring
<1>0. CASE UNCHANGED vars
    BY <1>0 DEF vars
<1>1. ASSUME NEW w \in Workers, NEW v \in Versions, Lock(w, v) PROVE TypeOK'
    BY <1>1, WorkersAssumption DEF Lock
<1>2. ASSUME NEW w \in Workers, CheckManifest(w) PROVE TypeOK'
    BY <1>2 DEF CheckManifest
<1>3. ASSUME NEW w \in Workers, FetchManifest(w) PROVE TypeOK'
    BY <1>3 DEF FetchManifest
<1>4. ASSUME NEW w \in Workers, CreateStagingArea(w) PROVE TypeOK'
    BY <1>4 DEF CreateStagingArea, EmptyDirectory, NoDirectory, Directory, ManifestState
<1>5. ASSUME NEW w \in Workers, WriteTestcase(w) PROVE TypeOK'
    <2>1. PICK c \in Orders : staging' = [staging EXCEPT ![w].files = @ \cup {c}]
        BY <1>5 DEF WriteTestcase
    <2>2. [staging[w] EXCEPT !.files = @ \cup {c}] \in Directory
        BY DirectoryType
    <2>3. staging' \in [Workers -> Directory]
        BY <2>1, <2>2
    <2>. QED
        BY <1>5, <2>3 DEF WriteTestcase
<1>6. ASSUME NEW w \in Workers, WriteManifest(w) PROVE TypeOK'
    BY <1>6 DEF WriteManifest, Directory, ManifestState
<1>7. ASSUME NEW w \in Workers, ValidateStagingArea(w) PROVE TypeOK'
    BY <1>7 DEF ValidateStagingArea
<1>8. ASSUME NEW w \in Workers, Publish(w) \/ Republish(w) PROVE TypeOK'
    <2>1. dir' \in [Versions -> Directory] /\ staging' \in [Workers -> Directory]
        BY <1>8, DirectoryType DEF Publish, Republish, Renames
    <2>2. pc' \in [Workers -> {"idle", "judging"} \cup Acquiring]
        BY <1>8 DEF Publish, Republish
    <2>. QED
        BY <1>8, <2>1, <2>2 DEF Publish, Republish
<1>9. ASSUME NEW w \in Workers, PublishCollides(w) \/ StillThere(w) \/ Recheck(w) PROVE TypeOK'
    BY <1>9 DEF PublishCollides, StillThere, Recheck
<1>10. ASSUME NEW w \in Workers, RemoveEntry(w) \/ RemoveDirectory(w) PROVE TypeOK'
    <2>1. CASE RemoveDirectory(w)
        BY <2>1, DirectoryType DEF RemoveDirectory
    <2>2. CASE RemoveEntry(w)
        <3>1. asked[w] \in Versions
            BY <2>2 DEF RemoveEntry, LocksAreHeld
        <3>2. dir[asked[w]] \in Directory
            BY <3>1
        <3>3. CASE \E c \in dir[asked[w]].files : dir' = [dir EXCEPT ![asked[w]].files = @ \ {c}]
            <4>1. PICK c \in dir[asked[w]].files : dir' = [dir EXCEPT ![asked[w]].files = @ \ {c}]
                BY <3>3
            <4>2. [dir[asked[w]] EXCEPT !.files = @ \ {c}] \in Directory
                BY <3>2, DirectoryType
            <4>. QED
                BY <2>2, <3>1, <4>1, <4>2 DEF RemoveEntry
        <3>4. CASE dir' = [dir EXCEPT ![asked[w]].manifest = "none"]
            <4>1. [dir[asked[w]] EXCEPT !.manifest = "none"] \in Directory
                BY <3>2, DirectoryType DEF ManifestState
            <4>. QED
                BY <2>2, <3>1, <3>4, <4>1 DEF RemoveEntry
        <3>. QED
            BY <2>2, <3>3, <3>4 DEF RemoveEntry
    <2>. QED
        BY <1>10, <2>1, <2>2
<1>11. ASSUME NEW w \in Workers, Load(w) \/ Refused(w) \/ OperationFails(w) PROVE TypeOK'
    <2>1. \A state \in {"idle", "judging"} :
            Release(w, state) => /\ pc' \in [Workers -> {"idle", "judging"} \cup Acquiring]
                                 /\ asked' \in [Workers -> Versions \cup {None}]
                                 /\ lock' \in [Processes -> Workers \cup {None}]
                                 /\ staging' \in [Workers -> Directory]
        <3>. TAKE state \in {"idle", "judging"}
        <3>. HAVE Release(w, state)
        <3>1. asked' \in [Workers -> Versions \cup {None}]
            BY DEF Release
        <3>2. pc' \in [Workers -> {"idle", "judging"} \cup Acquiring]
            BY DEF Release
        <3>. QED
            BY <3>1, <3>2, DirectoryType DEF Release
    <2>2. dir' = dir /\ litter' = litter /\ failures' \in 0..MaxFailures
        BY <1>11, MaxFailuresAssumption DEF Load, Refused, OperationFails
    <2>3. Release(w, "idle") \/ Release(w, "judging")
        BY <1>11 DEF Load, Refused, OperationFails
    <2>. QED
        BY <2>1, <2>2, <2>3
<1>12. ASSUME NEW w \in Workers, FinishJudging(w) PROVE TypeOK'
    BY <1>12 DEF FinishJudging
<1>13. ASSUME NEW p \in Processes, Crash(p) PROVE TypeOK'
    <2>. DEFINE remains == {w \in {x \in Workers : ProcessOf[x] = p} : staging[w].exists}
    <2>1. Cardinality(remains) \in Nat
        BY WorkersAssumption, FS_Subset, FS_CardinalityType
    <2>2. litter' \in Nat
        BY <1>13, <2>1 DEF Crash
    <2>. QED
        BY <1>13, <2>2, MaxFailuresAssumption
        DEF Crash, NoDirectory, Directory, ManifestState
<1>. QED
    BY <1>0, <1>1, <1>2, <1>3, <1>4, <1>5, <1>6, <1>7, <1>8, <1>9, <1>10, <1>11, <1>12, <1>13
    DEF Next, AcquireStep

(* What a step does to the rest of the invariant. *)
InvariantParts ==
    /\ LocksAreHeld
    /\ StagedIsMaterialized
    /\ ManifestVouchesForTheFiles
    /\ RemovedIsNotValid
    /\ JudgedIsValid
    /\ NothingIsRemoved

LEMMA PartsStep ==
    ASSUME IInv, [Next]_vars, OneProcess \/ NothingOutdated
    PROVE  InvariantParts'
<1>. USE WorkersAssumption, NoneAssumption
     DEF IInv, TypeOK, InvariantParts, LocksAreHeld, StagedIsMaterialized, Staged,
         ManifestVouchesForTheFiles, RemovedIsNotValid, JudgedIsValid, NothingIsRemoved,
         HasValidManifest, IsMaterialized, IsEmpty, Moves, Acquiring
<1>0. CASE UNCHANGED vars
    BY <1>0 DEF vars
<1>1. ASSUME NEW w \in Workers, NEW v \in Versions, Lock(w, v) PROVE InvariantParts'
    BY <1>1 DEF Lock
<1>2. ASSUME NEW w \in Workers, CheckManifest(w) PROVE InvariantParts'
    BY <1>2 DEF CheckManifest
<1>3. ASSUME NEW w \in Workers, FetchManifest(w) PROVE InvariantParts'
    BY <1>3 DEF FetchManifest
<1>4. ASSUME NEW w \in Workers, CreateStagingArea(w) PROVE InvariantParts'
    BY <1>4 DEF CreateStagingArea
<1>5. ASSUME NEW w \in Workers, WriteTestcase(w) PROVE InvariantParts'
    BY <1>5 DEF WriteTestcase
<1>6. ASSUME NEW w \in Workers, WriteManifest(w) PROVE InvariantParts'
    BY <1>6 DEF WriteManifest
<1>7. ASSUME NEW w \in Workers, ValidateStagingArea(w) PROVE InvariantParts'
    BY <1>7 DEF ValidateStagingArea
<1>8. ASSUME NEW w \in Workers, Publish(w) PROVE InvariantParts'
    <2>1. asked[w] \in Versions /\ IsMaterialized(staging[w])
        BY <1>8 DEF Publish
    <2>2. \A x \in Workers : x # w => pc[x] # "removing"
        BY <1>8 DEF Publish, OneProcess
    <2>3. dir' = [dir EXCEPT ![asked[w]] = staging[w]]
        BY <1>8 DEF Publish, Renames
    <2>4. \A v \in Versions : dir'[v] = IF v = asked[w] THEN staging[w] ELSE dir[v]
        BY <2>1, <2>3
    <2>5. LocksAreHeld' /\ StagedIsMaterialized'
        BY <1>8 DEF Publish, Renames
    <2>6. ManifestVouchesForTheFiles'
        BY <2>1, <2>4
    <2>7. RemovedIsNotValid'
        BY <1>8, <2>2 DEF Publish
    <2>8. JudgedIsValid'
        BY <1>8, <2>1, <2>4 DEF Publish
    <2>9. NothingIsRemoved'
        BY <1>8, <2>1, <2>2, <2>4 DEF Publish
    <2>. QED
        BY <2>5, <2>6, <2>7, <2>8, <2>9
<1>9. ASSUME NEW w \in Workers, PublishCollides(w) PROVE InvariantParts'
    BY <1>9 DEF PublishCollides
<1>10. ASSUME NEW w \in Workers, StillThere(w) PROVE InvariantParts'
    BY <1>10 DEF StillThere
<1>11. ASSUME NEW w \in Workers, Recheck(w) PROVE InvariantParts'
    BY <1>11 DEF Recheck
<1>12. ASSUME NEW w \in Workers, RemoveEntry(w) PROVE InvariantParts'
    <2>1. asked[w] \in Versions /\ dir[asked[w]].manifest # "valid" /\ ~NothingOutdated
        BY <1>12 DEF RemoveEntry
    <2>2. dir'[asked[w]].manifest # "valid"
        BY <1>12, <2>1 DEF RemoveEntry, Directory, NoDirectory
    <2>3. \A v \in Versions : v # asked[w] => dir'[v] = dir[v]
        BY <1>12, <2>1 DEF RemoveEntry
    <2>4. LocksAreHeld' /\ StagedIsMaterialized'
        BY <1>12 DEF RemoveEntry
    <2>5. ManifestVouchesForTheFiles'
        BY <2>1, <2>2, <2>3
    <2>6. RemovedIsNotValid'
        BY <1>12, <2>1, <2>2, <2>3 DEF RemoveEntry
    <2>7. JudgedIsValid'
        BY <1>12, <2>1, <2>2, <2>3 DEF RemoveEntry
    <2>8. NothingIsRemoved'
        BY <2>1 DEF NothingOutdated
    <2>. QED
        BY <2>4, <2>5, <2>6, <2>7, <2>8
<1>13. ASSUME NEW w \in Workers, RemoveDirectory(w) PROVE InvariantParts'
    <2>1. asked[w] \in Versions /\ dir[asked[w]].manifest # "valid" /\ ~NothingOutdated
        BY <1>13 DEF RemoveDirectory
    <2>2. dir'[asked[w]].manifest # "valid"
        BY <1>13, <2>1 DEF RemoveDirectory, Directory, NoDirectory
    <2>3. \A v \in Versions : v # asked[w] => dir'[v] = dir[v]
        BY <1>13, <2>1 DEF RemoveDirectory
    <2>4. LocksAreHeld' /\ StagedIsMaterialized'
        BY <1>13 DEF RemoveDirectory
    <2>5. ManifestVouchesForTheFiles'
        BY <2>1, <2>2, <2>3
    <2>6. RemovedIsNotValid'
        BY <1>13, <2>1, <2>2, <2>3 DEF RemoveDirectory
    <2>7. JudgedIsValid'
        BY <1>13, <2>1, <2>2, <2>3 DEF RemoveDirectory
    <2>8. NothingIsRemoved'
        BY <2>1 DEF NothingOutdated
    <2>. QED
        BY <2>4, <2>5, <2>6, <2>7, <2>8
<1>14. ASSUME NEW w \in Workers, Republish(w) PROVE InvariantParts'
    <2>1. asked[w] \in Versions /\ IsMaterialized(staging[w])
        BY <1>14 DEF Republish
    <2>2. \A x \in Workers : x # w => pc[x] # "removing"
        BY <1>14 DEF Republish, OneProcess
    <2>3. dir' = [dir EXCEPT ![asked[w]] = staging[w]]
        BY <1>14 DEF Republish, Renames
    <2>4. \A v \in Versions : dir'[v] = IF v = asked[w] THEN staging[w] ELSE dir[v]
        BY <2>1, <2>3
    <2>5. LocksAreHeld' /\ StagedIsMaterialized'
        BY <1>14 DEF Republish, Renames
    <2>6. ManifestVouchesForTheFiles'
        BY <2>1, <2>4
    <2>7. RemovedIsNotValid'
        BY <1>14, <2>2 DEF Republish
    <2>8. JudgedIsValid'
        BY <1>14, <2>1, <2>4 DEF Republish
    <2>9. NothingIsRemoved'
        BY <1>14, <2>1, <2>2, <2>4 DEF Republish
    <2>. QED
        BY <2>5, <2>6, <2>7, <2>8, <2>9
<1>15. ASSUME NEW w \in Workers, Load(w) PROVE InvariantParts'
    BY <1>15 DEF Load, Release
<1>16. ASSUME NEW w \in Workers, Refused(w) PROVE InvariantParts'
    BY <1>16 DEF Refused, Release
<1>17. ASSUME NEW w \in Workers, OperationFails(w) PROVE InvariantParts'
    BY <1>17 DEF OperationFails, Release
<1>18. ASSUME NEW w \in Workers, FinishJudging(w) PROVE InvariantParts'
    BY <1>18 DEF FinishJudging
<1>19. ASSUME NEW p \in Processes, Crash(p) PROVE InvariantParts'
    BY <1>19 DEF Crash
<1>. QED
    BY <1>0, <1>1, <1>2, <1>3, <1>4, <1>5, <1>6, <1>7, <1>8, <1>9, <1>10, <1>11, <1>12, <1>13,
        <1>14, <1>15, <1>16, <1>17, <1>18, <1>19
    DEF Next, AcquireStep

LEMMA InvariantStep ==
    ASSUME IInv, [Next]_vars, OneProcess \/ NothingOutdated
    PROVE  IInv'
BY TypeStep, PartsStep DEF IInv, InvariantParts

LEMMA Invariance ==
    ASSUME OneProcess \/ NothingOutdated
    PROVE  Spec => []IInv
<1>1. IInv /\ [Next]_vars => IInv'
    BY InvariantStep
<1>. QED
    BY <1>1, InitInvariant, PTL DEF Spec

(***************************************************************************)
(* A snapshot that testcase_snapshot_facade::acquire returned has all its  *)
(* files until the submission is judged, and a valid manifest always       *)
(* stands for all the files it counts.                                     *)
(***************************************************************************)
THEOREM SnapshotsAreWhole ==
    ASSUME OneProcess \/ NothingOutdated
    PROVE  Spec => []DirectoriesAreWhole
<1>1. IInv => DirectoriesAreWhole
    BY DEF DirectoriesAreWhole, IInv, JudgedSnapshotIsWhole, JudgedIsValid, ManifestVouchesForTheFiles,
           HasValidManifest, IsMaterialized, LocksAreHeld
<1>. QED
    BY <1>1, Invariance, PTL

(***************************************************************************)
(* publish_version_directory and remove_all never touch a whole directory. *)
(***************************************************************************)
LEMMA WholeDirectoryStep ==
    ASSUME IInv, [Next]_vars, NEW v \in Versions, IsMaterialized(dir[v])
    PROVE  dir'[v] = dir[v]
<1>. USE DEF IInv, TypeOK, LocksAreHeld, Acquiring, IsMaterialized
<1>1. CASE UNCHANGED dir
    BY <1>1
<1>2. ASSUME NEW w \in Workers, Publish(w) \/ Republish(w) PROVE dir'[v] = dir[v]
    BY <1>2 DEF Publish, Republish, Renames, IsEmpty, Moves
<1>3. ASSUME NEW w \in Workers, RemoveEntry(w) \/ RemoveDirectory(w) PROVE dir'[v] = dir[v]
    BY <1>3 DEF RemoveEntry, RemoveDirectory, RemovedIsNotValid, HasValidManifest, IsEmpty, Moves
<1>4. ASSUME NEW w \in Workers, AcquireStep(w) PROVE dir'[v] = dir[v]
    <2>1. CASE Publish(w) \/ Republish(w) \/ RemoveEntry(w) \/ RemoveDirectory(w)
        BY <2>1, <1>2, <1>3
    <2>2. CASE \/ CheckManifest(w) \/ FetchManifest(w) \/ CreateStagingArea(w) \/ WriteTestcase(w)
               \/ WriteManifest(w) \/ ValidateStagingArea(w)
        BY <2>2 DEF CheckManifest, FetchManifest, CreateStagingArea, WriteTestcase, WriteManifest,
                    ValidateStagingArea
    <2>3. CASE PublishCollides(w) \/ StillThere(w) \/ Recheck(w) \/ Load(w) \/ Refused(w)
        BY <2>3 DEF PublishCollides, StillThere, Recheck, Load, Refused
    <2>. QED
        BY <1>4, <2>1, <2>2, <2>3 DEF AcquireStep
<1>. QED
    BY <1>1, <1>4 DEF Next, vars, Lock, OperationFails, FinishJudging, Crash

THEOREM WholeDirectoriesAreKept ==
    ASSUME OneProcess \/ NothingOutdated
    PROVE  Spec => WholeDirectoryIsKept
<1>1. IInv /\ [Next]_vars
        => [\A v \in Versions : IsMaterialized(dir[v]) => dir'[v] = dir[v]]_vars
    BY WholeDirectoryStep
<1>. QED
    BY <1>1, Invariance, PTL DEF Spec, WholeDirectoryIsKept

(***************************************************************************)
(* Whatever is found at the start, a staging directory is of a worker that *)
(* is inside acquire, and what is left over was left by a crash.           *)
(***************************************************************************)
StagingIsUsed == \A w \in Workers : staging[w].exists => pc[w] \in Acquiring

LitterIsOfCrashes == litter > 0 => failures > 0

StagingInvariant == TypeOK /\ LocksAreHeld /\ StagingIsUsed /\ LitterIsOfCrashes

LEMMA StagingInit == Init => StagingInvariant
<1>1. Init => TypeOK /\ LocksAreHeld
    BY InitInvariant DEF IInv
<1>2. Init => StagingIsUsed /\ LitterIsOfCrashes
    BY DEF Init, StagingIsUsed, LitterIsOfCrashes, NoDirectory
<1>. QED
    BY <1>1, <1>2 DEF StagingInvariant

LEMMA StagingStep ==
    ASSUME StagingInvariant, [Next]_vars
    PROVE  StagingInvariant'
<1>. DEFINE Goal == LocksAreHeld' /\ StagingIsUsed' /\ LitterIsOfCrashes'
<1>. USE WorkersAssumption, NoneAssumption
     DEF StagingInvariant, TypeOK, LocksAreHeld, StagingIsUsed, LitterIsOfCrashes, Moves, Acquiring
<1>0. CASE UNCHANGED vars
    BY <1>0 DEF vars
<1>1. ASSUME NEW w \in Workers, NEW v \in Versions, Lock(w, v) PROVE Goal
    BY <1>1 DEF Lock
<1>2. ASSUME NEW w \in Workers, CheckManifest(w) \/ FetchManifest(w) \/ CreateStagingArea(w)
                                \/ WriteManifest(w) \/ ValidateStagingArea(w)
      PROVE  Goal
    BY <1>2 DEF CheckManifest, FetchManifest, CreateStagingArea, WriteManifest, ValidateStagingArea
<1>3. ASSUME NEW w \in Workers, WriteTestcase(w) PROVE Goal
    BY <1>3 DEF WriteTestcase
<1>4. ASSUME NEW w \in Workers, Publish(w) \/ Republish(w) PROVE Goal
    BY <1>4 DEF Publish, Republish, Renames, NoDirectory
<1>5. ASSUME NEW w \in Workers, PublishCollides(w) \/ StillThere(w) \/ Recheck(w)
                                \/ RemoveEntry(w) \/ RemoveDirectory(w)
      PROVE  Goal
    BY <1>5 DEF PublishCollides, StillThere, Recheck, RemoveEntry, RemoveDirectory
<1>6. ASSUME NEW w \in Workers, Load(w) \/ Refused(w) PROVE Goal
    BY <1>6 DEF Load, Refused, Release, NoDirectory
<1>7. ASSUME NEW w \in Workers, OperationFails(w) PROVE Goal
    BY <1>7, MaxFailuresAssumption DEF OperationFails, Release, NoDirectory
<1>8. ASSUME NEW w \in Workers, FinishJudging(w) PROVE Goal
    BY <1>8 DEF FinishJudging
<1>9. ASSUME NEW p \in Processes, Crash(p) PROVE Goal
    BY <1>9, MaxFailuresAssumption DEF Crash, NoDirectory
<1>10. Goal
    BY <1>0, <1>1, <1>2, <1>3, <1>4, <1>5, <1>6, <1>7, <1>8, <1>9 DEF Next, AcquireStep
<1>. QED
    BY <1>10, TypeStep

LEMMA StagingInvariance == Spec => []StagingInvariant
<1>1. StagingInvariant /\ [Next]_vars => StagingInvariant'
    BY StagingStep
<1>. QED
    BY <1>1, StagingInit, PTL DEF Spec

-----------------------------------------------------------------------------
(***************************************************************************)
(* Sandbox.  Everything that is kept of a directory is kept by a slot of   *)
(* the cache or by a run; a thread fills a slot only while it has the      *)
(* mutex, and the slot is empty then, so no directory drops out of it.     *)
(***************************************************************************)
Everybody == Sandboxes!Everybody
Profiles == Sandboxes!Profiles
DirOrNone == Dirs \cup {NoDir}
Texts == SUBSET {"own", "earlier"}
Children == {"none", "running", "exited"}

Steps == {"none", "locking", "validating", "building", "prepared", "waiting", "reaped",
          "returned", "failed"}
Run == [step : Steps, profile : Profiles, dir : DirOrNone, age : Nat, killed : BOOLEAN,
        text : Texts]

SandboxType ==
    /\ slot \in [Profiles -> DirOrNone]
    /\ artifacts \in [Dirs -> [condition : {"removed", "whole", "broken"}, policy : Profiles]]
    /\ run \in [Everybody -> Run]
    /\ child \in [Everybody -> Children]
    /\ left \in [Everybody -> Children]
    /\ scratch \in [Everybody -> Texts]

(* What a shared_ptr points to is there, and has the policy that was asked for. *)
IsThere(d, profile) == artifacts[d].condition # "removed" /\ artifacts[d].policy = profile

HeldIsThere ==
    /\ \A p \in Profiles : slot[p] # NoDir => IsThere(slot[p], p)
    /\ \A t \in Everybody : run[t].dir # NoDir => IsThere(run[t].dir, run[t].profile)

(* A thread before its run has a directory, and one that has the mutex. *)
RunHasNoDirectory ==
    \A t \in Everybody :
        run[t].step \in {"none", "returned", "failed", "locking", "validating"} => run[t].dir = NoDir

MutexIsHeld ==
    \A t \in Everybody : run[t].step \in {"validating", "building"} => mutex = t

BuildsIntoAnEmptySlot ==
    \A t \in Everybody : run[t].step = "building" => slot[run[t].profile] = NoDir

DirectoriesInvariant ==
    /\ SandboxType
    /\ HeldIsThere
    /\ RunHasNoDirectory
    /\ MutexIsHeld
    /\ BuildsIntoAnEmptySlot
    /\ Sandboxes!NoDirectoryIsLost

(* A thread waits exactly while it has a child, and the text of an earlier *)
(* one is in its scratch files only if it left one.                        *)
ChildrenInvariant ==
    /\ \A t \in Everybody : run[t].step = "waiting" <=> child[t] # "none"
    /\ \A t \in Everybody : "earlier" \in scratch[t] \cup run[t].text => left[t] # "none"

LEMMA SandboxInit == Sandboxes!Init => DirectoriesInvariant /\ ChildrenInvariant
BY DEF Sandboxes!Init, DirectoriesInvariant, ChildrenInvariant, SandboxType, HeldIsThere,
       RunHasNoDirectory, MutexIsHeld, BuildsIntoAnEmptySlot, Sandboxes!NoDirectoryIsLost,
       Sandboxes!Removed, Sandboxes!NoRun, Run, Steps, Everybody, Profiles, DirOrNone, Texts,
       Children,
       Sandboxes!Everybody, Sandboxes!Profiles

(* A step that empties slots and ends runs, and removes what nobody holds. *)
LEMMA ReleaseStep ==
    ASSUME DirectoriesInvariant,
           slot' \in [Profiles -> DirOrNone], run' \in [Everybody -> Run],
           \A p \in Profiles : slot'[p] \in {slot[p], NoDir},
           \A t \in Everybody : \/ run'[t].dir = NoDir
                                \/ run'[t].dir = run[t].dir /\ run'[t].profile = run[t].profile,
           artifacts' = Sandboxes!Released(slot', run')
    PROVE  /\ artifacts' \in [Dirs -> [condition : {"removed", "whole", "broken"}, policy : Profiles]]
           /\ HeldIsThere'
           /\ Sandboxes!NoDirectoryIsLost'
<1>. USE DEF Everybody, Profiles
<1>1. \A d \in Dirs : artifacts'[d] = IF Sandboxes!Holds(slot', run', d) THEN artifacts[d]
                                      ELSE Sandboxes!Removed
    BY DEF Sandboxes!Released
<1>2. artifacts' \in [Dirs -> [condition : {"removed", "whole", "broken"}, policy : Profiles]]
    BY DEF DirectoriesInvariant, SandboxType, Sandboxes!Released, Sandboxes!Removed, Sandboxes!Profiles
<1>3. \A p \in Profiles : slot'[p] # NoDir => artifacts'[slot'[p]] = artifacts[slot[p]]
    BY <1>1 DEF Sandboxes!Holds, DirOrNone
<1>4. \A t \in Everybody : run'[t].dir # NoDir => artifacts'[run'[t].dir] = artifacts[run[t].dir]
    BY <1>1 DEF Sandboxes!Holds, Sandboxes!Uses, DirOrNone, Run, Steps
<1>5. HeldIsThere'
    BY <1>3, <1>4 DEF HeldIsThere, IsThere, DirectoriesInvariant
<1>6. Sandboxes!NoDirectoryIsLost'
    BY <1>1 DEF Sandboxes!NoDirectoryIsLost, Sandboxes!Holds, Sandboxes!Uses
<1>. QED
    BY <1>2, <1>5, <1>6

(* What a step of a thread does to its own run, when it takes no directory *)
(* and has not the mutex.                                                  *)
LEMMA RunSteps ==
    ASSUME DirectoriesInvariant, NEW t \in Everybody,
           run'[t] \in Run, run' = [run EXCEPT ![t] = run'[t]],
           run'[t].step \notin {"validating", "building"},
           \A p \in Profiles : slot'[p] \in {slot[p], NoDir},
           mutex' = mutex \/ (mutex = t /\ mutex' = NoThread),
           run'[t].step \in {"none", "returned", "failed", "locking"} => run'[t].dir = NoDir
    PROVE  /\ run' \in [Everybody -> Run]
           /\ RunHasNoDirectory'
           /\ MutexIsHeld'
           /\ BuildsIntoAnEmptySlot'
<1>1. run \in [Everybody -> Run]
    BY DEF DirectoriesInvariant, SandboxType
<1>2. run' \in [Everybody -> Run] /\ \A u \in Everybody \ {t} : run'[u] = run[u]
    BY <1>1
<1>3. RunHasNoDirectory'
    BY <1>2 DEF DirectoriesInvariant, RunHasNoDirectory
<1>4. MutexIsHeld'
    BY <1>2 DEF DirectoriesInvariant, MutexIsHeld
<1>5. BuildsIntoAnEmptySlot'
    BY <1>1, <1>2 DEF DirectoriesInvariant, BuildsIntoAnEmptySlot, Run
<1>. QED
    BY <1>2, <1>3, <1>4, <1>5

(* The parts of a step of a thread to which the directories are of no matter. *)
LEMMA KeepsDirectories ==
    ASSUME DirectoriesInvariant, slot' = slot, artifacts' = artifacts,
           \A t \in Everybody : run'[t].dir = run[t].dir
                                /\ (run[t].dir # NoDir => run'[t].profile = run[t].profile)
    PROVE  HeldIsThere' /\ Sandboxes!NoDirectoryIsLost'
BY DEF DirectoriesInvariant, HeldIsThere, IsThere, Sandboxes!NoDirectoryIsLost, Everybody

SandboxSteps ==
    [Sandboxes!Next]_<<server, slot, mutex, artifacts, run, child, left, scratch, old>>

LEMMA RunRecords ==
    ASSUME DirectoriesInvariant, NEW t \in Everybody
    PROVE  run[t] \in Run /\ Sandboxes!NoRun \in Run
BY DEF DirectoriesInvariant, SandboxType, Run, Steps, Sandboxes!NoRun, Sandboxes!Profiles,
       Profiles, Texts, DirOrNone

(* The steps that have nothing to do with the cache. *)
LEMMA PlainStep ==
    ASSUME DirectoriesInvariant, NEW t \in Everybody,
           \/ \E profile \in Profiles : Sandboxes!StartRun(t, profile)
           \/ Sandboxes!StartRunFails(t)
           \/ Sandboxes!Tick(t)
           \/ Sandboxes!Reap(t)
           \/ Sandboxes!Kill(t)
    PROVE  DirectoriesInvariant'
<1>. USE DEF DirectoriesInvariant, SandboxType
<1>1. slot' = slot /\ artifacts' = artifacts /\ mutex' = mutex
    BY DEF Sandboxes!StartRun, Sandboxes!StartRunFails, Sandboxes!Tick, Sandboxes!Reap, Sandboxes!Kill
<1>2. /\ run'[t] \in Run
      /\ run' = [run EXCEPT ![t] = run'[t]]
      /\ run'[t].step \in {"locking", "failed", "waiting", "reaped"}
      /\ run'[t].dir = run[t].dir
      /\ run'[t].dir # NoDir => run'[t].profile = run[t].profile
      /\ run'[t].step \in {"locking", "failed"} => run'[t].dir = NoDir
    <2>0. run[t] \in Run /\ Sandboxes!NoRun \in Run /\ Sandboxes!NoRun.dir = NoDir
        BY RunRecords DEF Sandboxes!NoRun
    <2>1. CASE \E profile \in Profiles : Sandboxes!StartRun(t, profile)
        <3>1. PICK profile \in Profiles : Sandboxes!StartRun(t, profile)
            BY <2>1
        <3>2. run' = [run EXCEPT ![t] = [Sandboxes!NoRun EXCEPT !.step = "locking",
                                                               !.profile = profile]]
            BY <3>1 DEF Sandboxes!StartRun
        <3>3. run[t].dir = NoDir
            BY <3>1 DEF Sandboxes!StartRun, Sandboxes!Between, RunHasNoDirectory
        <3>. QED
            BY <2>0, <3>2, <3>3 DEF Run, Steps
    <2>2. CASE Sandboxes!StartRunFails(t)
        <3>1. run' = [run EXCEPT ![t] = [Sandboxes!NoRun EXCEPT !.step = "failed"]]
            BY <2>2 DEF Sandboxes!StartRunFails
        <3>2. run[t].dir = NoDir
            BY <2>2 DEF Sandboxes!StartRunFails, Sandboxes!Between, RunHasNoDirectory
        <3>. QED
            BY <2>0, <3>1, <3>2 DEF Run, Steps
    <2>3. CASE Sandboxes!Tick(t)
        <3>1. run' = [run EXCEPT ![t] = [run[t] EXCEPT !.age = run[t].age + 1]]
            BY <2>3 DEF Sandboxes!Tick
        <3>2. [run[t] EXCEPT !.age = run[t].age + 1] \in Run
            BY <2>0 DEF Run, Steps
        <3>3. run'[t] = [run[t] EXCEPT !.age = run[t].age + 1]
            BY <3>1
        <3>4. run[t].step = "waiting"
            BY <2>3 DEF Sandboxes!Tick
        <3>. QED
            BY <2>0, <3>1, <3>2, <3>3, <3>4 DEF Run, Steps
    <2>4. CASE Sandboxes!Reap(t)
        BY <2>0, <2>4 DEF Sandboxes!Reap, Run, Steps
    <2>5. CASE Sandboxes!Kill(t)
        BY <2>0, <2>5 DEF Sandboxes!Kill, Run, Steps
    <2>. QED
        BY <2>1, <2>2, <2>3, <2>4, <2>5
<1>3. HeldIsThere' /\ Sandboxes!NoDirectoryIsLost'
    <2>1. \A u \in Everybody : run'[u].dir = run[u].dir
                              /\ (run[u].dir # NoDir => run'[u].profile = run[u].profile)
        BY <1>2
    <2>. QED
        BY <1>1, <2>1, KeepsDirectories
<1>4. run' \in [Everybody -> Run] /\ RunHasNoDirectory' /\ MutexIsHeld' /\ BuildsIntoAnEmptySlot'
    BY <1>1, <1>2, RunSteps
<1>5. /\ child' \in [Everybody -> Children]
      /\ left' \in [Everybody -> Children]
      /\ scratch' \in [Everybody -> Texts]
    BY DEF Children, Texts, Sandboxes!StartRun, Sandboxes!StartRunFails, Sandboxes!Tick,
           Sandboxes!Reap, Sandboxes!Kill, Sandboxes!ResetScratch
<1>. QED
    BY <1>1, <1>3, <1>4, <1>5

(* The steps after which a directory may have to be removed. *)
LEMMA ReleasingStep ==
    ASSUME DirectoriesInvariant, NEW t \in Everybody,
           \/ Sandboxes!CreateFails(t)
           \/ Sandboxes!BuildFails(t)
           \/ Sandboxes!Fork(t)
           \/ Sandboxes!ForkFails(t)
           \/ Sandboxes!Abandon(t)
           \/ Sandboxes!ReturnResult(t)
           \/ Sandboxes!ReadFails(t)
    PROVE  DirectoriesInvariant'
<1>. USE DEF DirectoriesInvariant, SandboxType
<1>1. artifacts' = Sandboxes!Released(slot', run')
    BY DEF Sandboxes!CreateFails, Sandboxes!BuildFails, Sandboxes!Fork, Sandboxes!ForkFails,
           Sandboxes!Abandon, Sandboxes!ReturnResult, Sandboxes!ReadFails, Sandboxes!Fail
<1>2. slot' \in [Profiles -> DirOrNone] /\ \A p \in Profiles : slot'[p] \in {slot[p], NoDir}
    BY DEF Sandboxes!CreateFails, Sandboxes!BuildFails, Sandboxes!Fork, Sandboxes!ForkFails,
           Sandboxes!Abandon, Sandboxes!ReturnResult, Sandboxes!ReadFails, Sandboxes!Fail, DirOrNone
<1>3. /\ run'[t] \in Run
      /\ run' = [run EXCEPT ![t] = run'[t]]
      /\ run'[t].step \in {"failed", "returned", "waiting"}
      /\ (run'[t].dir = run[t].dir /\ run'[t].profile = run[t].profile) \/ run'[t].dir = NoDir
      /\ run'[t].step # "waiting" => run'[t].dir = NoDir
    <2>0. run[t] \in Run /\ Sandboxes!NoRun \in Run /\ Sandboxes!NoRun.dir = NoDir
        BY RunRecords DEF Sandboxes!NoRun
    <2>1. scratch[t] \in Texts /\ {} \in Texts
        BY DEF Texts
    <2>2. CASE Sandboxes!Fork(t)
        BY <2>0, <2>2 DEF Sandboxes!Fork, Run, Steps
    <2>3. ASSUME NEW step \in {"failed", "returned"}, NEW text \in Texts,
                 run' = Sandboxes!Over(t, step, text)
          PROVE  <1>3
        BY <2>0, <2>3 DEF Sandboxes!Over, Run, Steps
    <2>4. \/ Sandboxes!Fork(t)
          \/ run' = Sandboxes!Over(t, "failed", {})
          \/ run' = Sandboxes!Over(t, "returned", scratch[t])
        BY DEF Sandboxes!CreateFails, Sandboxes!BuildFails, Sandboxes!ForkFails,
               Sandboxes!Abandon, Sandboxes!ReturnResult, Sandboxes!ReadFails, Sandboxes!Fail
    <2>. QED
        BY <2>1, <2>2, <2>3, <2>4
<1>4. mutex' = mutex \/ (mutex = t /\ mutex' = NoThread)
    BY DEF Sandboxes!CreateFails, Sandboxes!BuildFails, Sandboxes!Fork, Sandboxes!ForkFails,
           Sandboxes!Abandon, Sandboxes!ReturnResult, Sandboxes!ReadFails, Sandboxes!Fail,
           MutexIsHeld
<1>5. run' \in [Everybody -> Run] /\ RunHasNoDirectory' /\ MutexIsHeld' /\ BuildsIntoAnEmptySlot'
    BY <1>2, <1>3, <1>4, RunSteps
<1>6. /\ artifacts' \in [Dirs -> [condition : {"removed", "whole", "broken"}, policy : Profiles]]
      /\ HeldIsThere'
      /\ Sandboxes!NoDirectoryIsLost'
    BY <1>1, <1>2, <1>3, <1>5, ReleaseStep
<1>7. /\ child' \in [Everybody -> Children]
      /\ left' \in [Everybody -> Children]
      /\ scratch' \in [Everybody -> Texts]
    BY DEF Children, Sandboxes!CreateFails, Sandboxes!BuildFails, Sandboxes!Fork, Sandboxes!ForkFails,
           Sandboxes!Abandon, Sandboxes!ReturnResult, Sandboxes!ReadFails, Sandboxes!Fail
<1>. QED
    BY <1>2, <1>5, <1>6, <1>7

(* The step of a run, and the directory it has. *)
LEMMA RunChanges ==
    ASSUME DirectoriesInvariant, NEW t \in Everybody, NEW step \in Steps, NEW d \in DirOrNone,
           \/ run' = [run EXCEPT ![t].step = step, ![t].dir = d]
           \/ run' = [run EXCEPT ![t].step = step] /\ d = run[t].dir
    PROVE  /\ run' \in [Everybody -> Run]
           /\ run'[t].step = step /\ run'[t].dir = d /\ run'[t].profile = run[t].profile
           /\ \A u \in Everybody \ {t} : run'[u] = run[u]
<1>. USE DEF DirectoriesInvariant, SandboxType
<1>1. run[t] \in Run
    OBVIOUS
<1>2. [run[t] EXCEPT !.step = step, !.dir = d] \in Run
    BY <1>1 DEF Run
<1>3. [run[t] EXCEPT !.step = step] \in Run
    BY <1>1 DEF Run
<1>4. CASE run' = [run EXCEPT ![t].step = step, ![t].dir = d]
    <2>1. run' = [run EXCEPT ![t] = [run[t] EXCEPT !.step = step, !.dir = d]]
        BY <1>4
    <2>2. run'[t] = [run[t] EXCEPT !.step = step, !.dir = d]
        BY <2>1
    <2>. QED
        BY <1>1, <1>2, <2>1, <2>2 DEF Run
<1>5. CASE run' = [run EXCEPT ![t].step = step] /\ d = run[t].dir
    <2>1. run' = [run EXCEPT ![t] = [run[t] EXCEPT !.step = step]]
        BY <1>5
    <2>2. run'[t] = [run[t] EXCEPT !.step = step]
        BY <2>1
    <2>. QED
        BY <1>1, <1>3, <1>5, <2>1, <2>2 DEF Run
<1>. QED
    BY <1>4, <1>5

(* The steps of a thread that has the mutex of the cache, or takes it. *)
LEMMA LockStep ==
    ASSUME DirectoriesInvariant, NEW t \in Everybody, Sandboxes!Lock(t)
    PROVE  DirectoriesInvariant'
<1>. USE DEF DirectoriesInvariant, SandboxType
<1>1. /\ mutex = NoThread /\ mutex' = t
      /\ UNCHANGED <<slot, artifacts, child, left, scratch>>
      /\ run[t].dir = NoDir
    BY DEF Sandboxes!Lock, RunHasNoDirectory
<1>2. /\ run' \in [Everybody -> Run]
      /\ run'[t].step = "validating" /\ run'[t].dir = NoDir /\ run'[t].profile = run[t].profile
      /\ \A u \in Everybody \ {t} : run'[u] = run[u]
    <2>1. run' = [run EXCEPT ![t].step = "validating"]
        BY DEF Sandboxes!Lock
    <2>2. "validating" \in Steps /\ NoDir \in DirOrNone
        BY DEF Steps, DirOrNone
    <2>. QED
        BY <1>1, <2>1, <2>2, RunChanges
<1>3. HeldIsThere' /\ Sandboxes!NoDirectoryIsLost'
    BY <1>1, <1>2, KeepsDirectories
<1>4. \A u \in Everybody : run[u].step \notin {"validating", "building"}
    BY <1>1, ThreadsAssumption DEF MutexIsHeld, Everybody, Sandboxes!Everybody
<1>5. RunHasNoDirectory' /\ MutexIsHeld' /\ BuildsIntoAnEmptySlot'
    BY <1>1, <1>2, <1>4 DEF RunHasNoDirectory, MutexIsHeld, BuildsIntoAnEmptySlot
<1>. QED
    BY <1>1, <1>2, <1>3, <1>5

LEMMA UseCachedStep ==
    ASSUME DirectoriesInvariant, NEW t \in Everybody, Sandboxes!UseCached(t)
    PROVE  DirectoriesInvariant'
<1>. USE DEF DirectoriesInvariant, SandboxType
<1>. DEFINE profile == run[t].profile
            d == slot[profile]
<1>0. profile \in Profiles
    BY DEF Run
<1>1. /\ mutex = t /\ mutex' = NoThread
      /\ UNCHANGED <<slot, artifacts, child, left, scratch>>
      /\ run[t].dir = NoDir
      /\ d # NoDir
    BY DEF Sandboxes!UseCached, Sandboxes!IsUsable, Sandboxes!SlotOf, MutexIsHeld, RunHasNoDirectory
<1>2. d \in Dirs /\ IsThere(d, profile)
    BY <1>0, <1>1 DEF HeldIsThere, DirOrNone
<1>3. /\ run' \in [Everybody -> Run]
      /\ run'[t].step = "prepared" /\ run'[t].dir = d /\ run'[t].profile = profile
      /\ \A u \in Everybody \ {t} : run'[u] = run[u]
    <2>1. run' = [run EXCEPT ![t].step = "prepared", ![t].dir = d]
        BY DEF Sandboxes!UseCached, Sandboxes!SlotOf
    <2>2. d \in DirOrNone /\ "prepared" \in Steps
        BY <1>2 DEF DirOrNone, Steps
    <2>. QED
        BY <2>1, <2>2, RunChanges
<1>4. RunHasNoDirectory' /\ MutexIsHeld' /\ BuildsIntoAnEmptySlot'
    BY <1>1, <1>3 DEF RunHasNoDirectory, MutexIsHeld, BuildsIntoAnEmptySlot
<1>5. HeldIsThere'
    BY <1>1, <1>2, <1>3 DEF HeldIsThere, IsThere
<1>6. Sandboxes!NoDirectoryIsLost'
    BY <1>1, <1>3, DirsAssumption DEF Sandboxes!NoDirectoryIsLost, Everybody
<1>. QED
    BY <1>1, <1>3, <1>4, <1>5, <1>6

LEMMA BeginBuildStep ==
    ASSUME DirectoriesInvariant, NEW t \in Everybody, Sandboxes!BeginBuild(t)
    PROVE  DirectoriesInvariant'
<1>. USE DEF DirectoriesInvariant, SandboxType
<1>. DEFINE profile == run[t].profile
            built == [condition |-> "whole", policy |-> profile]
<1>0. profile \in Profiles
    BY DEF Run
<1>1. /\ mutex = t /\ mutex' = t
      /\ slot' = [slot EXCEPT ![profile] = NoDir]
      /\ UNCHANGED <<child, left, scratch>>
    BY DEF Sandboxes!BeginBuild, Sandboxes!SlotOf, MutexIsHeld
<1>2. PICK d \in Dirs :
        /\ artifacts[d] = Sandboxes!Removed
        /\ run' = [run EXCEPT ![t].step = "building", ![t].dir = d]
        /\ artifacts' = [Sandboxes!Released(slot', run') EXCEPT ![d] = built]
    BY DEF Sandboxes!BeginBuild
<1>3. /\ run' \in [Everybody -> Run]
      /\ run'[t].step = "building" /\ run'[t].dir = d /\ run'[t].profile = profile
      /\ \A u \in Everybody \ {t} : run'[u] = run[u]
    BY <1>2, RunChanges DEF DirOrNone, Steps
<1>4. slot' \in [Profiles -> DirOrNone] /\ \A p \in Profiles : slot'[p] \in {slot[p], NoDir}
    BY <1>1 DEF DirOrNone
<1>5. slot'[profile] = NoDir
    BY <1>0, <1>1
<1>6. RunHasNoDirectory' /\ MutexIsHeld' /\ BuildsIntoAnEmptySlot'
    <2>1. \A u \in Everybody \ {t} : run[u].step \notin {"validating", "building"}
        BY <1>1 DEF MutexIsHeld
    <2>. QED
        BY <1>1, <1>3, <1>5, <2>1 DEF RunHasNoDirectory, MutexIsHeld, BuildsIntoAnEmptySlot
<1>7. \A e \in Dirs : artifacts'[e] =
        IF e = d THEN built
        ELSE IF Sandboxes!Holds(slot', run', e) THEN artifacts[e] ELSE Sandboxes!Removed
    BY <1>2 DEF Sandboxes!Released
<1>8. artifacts' \in [Dirs -> [condition : {"removed", "whole", "broken"}, policy : Profiles]]
    <2>1. Sandboxes!Released(slot', run')
            \in [Dirs -> [condition : {"removed", "whole", "broken"}, policy : Profiles]]
        BY DEF Sandboxes!Released, Sandboxes!Removed, Profiles, Sandboxes!Profiles
    <2>. QED
        BY <1>0, <1>2, <2>1
<1>9. /\ \A p \in Profiles : slot[p] # d
      /\ \A u \in Everybody : run[u].dir # d
    <2>1. d # NoDir /\ artifacts[d].condition = "removed"
        BY <1>2, DirsAssumption DEF Sandboxes!Removed
    <2>2. \A p \in Profiles : slot[p] = d => IsThere(d, p)
        BY <2>1 DEF HeldIsThere
    <2>3. \A u \in Everybody : run[u].dir = d => IsThere(d, run[u].profile)
        BY <2>1 DEF HeldIsThere
    <2>. QED
        BY <2>1, <2>2, <2>3 DEF IsThere
<1>10. HeldIsThere'
    <2>1. ASSUME NEW p \in Profiles, slot'[p] # NoDir
          PROVE  IsThere(slot[p], p) /\ slot'[p] = slot[p] /\ artifacts'[slot[p]] = artifacts[slot[p]]
        <3>1. slot'[p] = slot[p] /\ slot[p] \in Dirs
            BY <1>4, <2>1 DEF DirOrNone
        <3>2. Sandboxes!Holds(slot', run', slot[p])
            BY <3>1 DEF Sandboxes!Holds, Profiles
        <3>. QED
            BY <1>7, <1>9, <2>1, <3>1, <3>2 DEF HeldIsThere
    <2>2. artifacts'[run'[t].dir] = built
        BY <1>3, <1>7
    <2>3. ASSUME NEW u \in Everybody \ {t}, run'[u].dir # NoDir
          PROVE  IsThere(run[u].dir, run[u].profile) /\ artifacts'[run[u].dir] = artifacts[run[u].dir]
        <3>1. run'[u] = run[u] /\ run[u].dir \in Dirs
            BY <1>3, <2>3 DEF Run, DirOrNone
        <3>2. Sandboxes!Holds(slot', run', run[u].dir)
            BY <3>1 DEF Sandboxes!Holds, Sandboxes!Uses, Everybody
        <3>. QED
            BY <1>7, <1>9, <2>3, <3>1, <3>2 DEF HeldIsThere
    <2>. QED
        BY <1>3, <2>1, <2>2, <2>3 DEF HeldIsThere, IsThere
<1>11. Sandboxes!NoDirectoryIsLost'
    BY <1>3, <1>7 DEF Sandboxes!NoDirectoryIsLost, Sandboxes!Holds, Sandboxes!Uses, Everybody
<1>. QED
    BY <1>1, <1>3, <1>4, <1>6, <1>8, <1>10, <1>11

LEMMA FinishBuildStep ==
    ASSUME DirectoriesInvariant, NEW t \in Everybody, Sandboxes!FinishBuild(t)
    PROVE  DirectoriesInvariant'
<1>. USE DEF DirectoriesInvariant, SandboxType
<1>. DEFINE profile == run[t].profile
<1>0. profile \in Profiles /\ run[t].dir \in DirOrNone
    BY DEF Run
<1>1. /\ mutex = t /\ mutex' = NoThread
      /\ slot[profile] = NoDir
      /\ slot' = [slot EXCEPT ![profile] = run[t].dir]
      /\ UNCHANGED <<artifacts, child, left, scratch>>
    BY DEF Sandboxes!FinishBuild, Sandboxes!SlotOf, MutexIsHeld, BuildsIntoAnEmptySlot
<1>2. /\ run' \in [Everybody -> Run]
      /\ run'[t].step = "prepared" /\ run'[t].dir = run[t].dir /\ run'[t].profile = profile
      /\ \A u \in Everybody \ {t} : run'[u] = run[u]
    BY <1>0, RunChanges DEF Sandboxes!FinishBuild, Steps
<1>3. /\ slot' \in [Profiles -> DirOrNone]
      /\ \A p \in Profiles : slot'[p] = IF p = profile THEN run[t].dir ELSE slot[p]
    BY <1>0, <1>1
<1>4. RunHasNoDirectory' /\ MutexIsHeld' /\ BuildsIntoAnEmptySlot'
    <2>1. \A u \in Everybody \ {t} : run[u].step \notin {"validating", "building"}
        BY <1>1 DEF MutexIsHeld
    <2>. QED
        BY <1>2, <2>1 DEF RunHasNoDirectory, MutexIsHeld, BuildsIntoAnEmptySlot
<1>5. HeldIsThere'
    BY <1>1, <1>2, <1>3 DEF HeldIsThere, IsThere
<1>6. Sandboxes!NoDirectoryIsLost'
    <2>. SUFFICES ASSUME NEW d \in Dirs, artifacts[d] # Sandboxes!Removed
                  PROVE  \/ \E p \in Profiles : slot'[p] = d
                         \/ \E u \in Everybody : run'[u].dir = d
        BY <1>1 DEF Sandboxes!NoDirectoryIsLost, Everybody, Profiles
    <2>1. CASE \E p \in Profiles : slot[p] = d
        BY <1>1, <1>3, <2>1, DirsAssumption
    <2>2. CASE \E u \in Everybody : run[u].dir = d
        BY <1>2, <2>2
    <2>. QED
        BY <2>1, <2>2 DEF Sandboxes!NoDirectoryIsLost, Everybody, Profiles
<1>. QED
    BY <1>1, <1>2, <1>3, <1>4, <1>5, <1>6

(* What children, main and the outside do, and the end of a worker. *)
LEMMA OtherStep ==
    ASSUME DirectoriesInvariant,
           \/ \E t \in Everybody : Sandboxes!ChildStep(t) \/ Sandboxes!Invalidate(t)
           \/ Sandboxes!Serve
           \/ Sandboxes!RefuseToServe
           \/ \E d \in Dirs : Sandboxes!BreakDir(d)
    PROVE  DirectoriesInvariant'
<1>. USE DEF DirectoriesInvariant, SandboxType
<1>1. ASSUME UNCHANGED <<slot, mutex, artifacts, run>>
      PROVE  /\ HeldIsThere' /\ RunHasNoDirectory' /\ MutexIsHeld' /\ BuildsIntoAnEmptySlot'
             /\ Sandboxes!NoDirectoryIsLost'
    BY <1>1 DEF HeldIsThere, IsThere, RunHasNoDirectory, MutexIsHeld, BuildsIntoAnEmptySlot,
                Sandboxes!NoDirectoryIsLost
<1>2. ASSUME NEW t \in Everybody, Sandboxes!ChildStep(t) PROVE DirectoriesInvariant'
    <2>1. UNCHANGED <<slot, mutex, artifacts, run>>
        BY <1>2 DEF Sandboxes!ChildStep, Sandboxes!Write, Sandboxes!Exit, Sandboxes!LeftChildWrites,
                    Sandboxes!LeftChildExits
    <2>2. /\ child' \in [Everybody -> Children]
          /\ left' \in [Everybody -> Children]
          /\ scratch' \in [Everybody -> Texts]
        BY <1>2 DEF Sandboxes!ChildStep, Sandboxes!Write, Sandboxes!Exit, Sandboxes!LeftChildWrites,
                    Sandboxes!LeftChildExits, Texts, Children
    <2>. QED
        BY <1>1, <2>1, <2>2
<1>3. ASSUME NEW t \in Everybody, Sandboxes!Invalidate(t) PROVE DirectoriesInvariant'
    <2>1. /\ slot' = [p \in Profiles |-> NoDir]
          /\ artifacts' = Sandboxes!Released(slot', run')
          /\ UNCHANGED <<mutex, run, child, left, scratch>>
        BY <1>3 DEF Sandboxes!Invalidate, Profiles
    <2>2. slot' \in [Profiles -> DirOrNone] /\ \A p \in Profiles : slot'[p] = NoDir
        BY <2>1 DEF DirOrNone
    <2>3. /\ artifacts' \in [Dirs -> [condition : {"removed", "whole", "broken"}, policy : Profiles]]
          /\ HeldIsThere'
          /\ Sandboxes!NoDirectoryIsLost'
        BY <2>1, <2>2, ReleaseStep
    <2>4. RunHasNoDirectory' /\ MutexIsHeld' /\ BuildsIntoAnEmptySlot'
        BY <2>1, <2>2 DEF RunHasNoDirectory, MutexIsHeld, BuildsIntoAnEmptySlot, Run, Steps
    <2>. QED
        BY <2>1, <2>2, <2>3, <2>4
<1>4. ASSUME NEW d \in Dirs, Sandboxes!BreakDir(d) PROVE DirectoriesInvariant'
    <2>1. /\ artifacts[d].condition = "whole"
          /\ artifacts' = [artifacts EXCEPT ![d].condition = "broken"]
          /\ UNCHANGED <<slot, mutex, run, child, left, scratch>>
        BY <1>4 DEF Sandboxes!BreakDir, Sandboxes!IsWhole
    <2>2. artifacts[d] # Sandboxes!Removed
        BY <2>1 DEF Sandboxes!Removed
    <2>3. /\ artifacts' \in [Dirs -> [condition : {"removed", "whole", "broken"}, policy : Profiles]]
          /\ \A e \in Dirs : /\ artifacts'[e].policy = artifacts[e].policy
                             /\ artifacts[e].condition # "removed" => artifacts'[e].condition # "removed"
                             /\ artifacts'[e] # Sandboxes!Removed => artifacts[e] # Sandboxes!Removed
        BY <2>1, <2>2
    <2>4. HeldIsThere'
        BY <2>1, <2>3 DEF HeldIsThere, IsThere, DirOrNone, Run, Steps
    <2>5. Sandboxes!NoDirectoryIsLost'
        BY <2>1, <2>3 DEF Sandboxes!NoDirectoryIsLost
    <2>6. RunHasNoDirectory' /\ MutexIsHeld' /\ BuildsIntoAnEmptySlot'
        BY <2>1 DEF RunHasNoDirectory, MutexIsHeld, BuildsIntoAnEmptySlot
    <2>. QED
        BY <2>1, <2>3, <2>4, <2>5, <2>6
<1>5. CASE Sandboxes!Serve \/ Sandboxes!RefuseToServe
    BY <1>1, <1>5 DEF Sandboxes!Serve, Sandboxes!RefuseToServe
<1>. QED
    BY <1>2, <1>3, <1>4, <1>5

LEMMA DirectoriesStep ==
    ASSUME DirectoriesInvariant, SandboxSteps
    PROVE  DirectoriesInvariant'
<1>1. CASE UNCHANGED <<server, slot, mutex, artifacts, run, child, left, scratch, old>>
    BY <1>1
    DEF DirectoriesInvariant, SandboxType, HeldIsThere, IsThere, RunHasNoDirectory, MutexIsHeld,
                BuildsIntoAnEmptySlot, Sandboxes!NoDirectoryIsLost
<1>2. ASSUME NEW t \in Everybody, Sandboxes!ThreadStep(t)
      PROVE  DirectoriesInvariant'
    BY <1>2, LockStep, UseCachedStep, BeginBuildStep, FinishBuildStep, PlainStep, ReleasingStep
    DEF Sandboxes!ThreadStep
<1>3. ASSUME NEW t \in Everybody, Sandboxes!Failure(t)
      PROVE  DirectoriesInvariant'
    BY <1>3, PlainStep, ReleasingStep DEF Sandboxes!Failure
<1>. QED
    BY <1>1, <1>2, <1>3, PlainStep, OtherStep DEF SandboxSteps, Sandboxes!Next, Everybody, Profiles

(* The waits for children, and whose text there is. *)
LEMMA ChildrenStep ==
    ASSUME DirectoriesInvariant, ChildrenInvariant, SandboxSteps
    PROVE  ChildrenInvariant'
<1>. USE DEF ChildrenInvariant
<1>0. run \in [Everybody -> Run] /\ child \in [Everybody -> Children]
      /\ left \in [Everybody -> Children] /\ scratch \in [Everybody -> Texts]
    BY DEF DirectoriesInvariant, SandboxType
<1>1. CASE UNCHANGED <<server, slot, mutex, artifacts, run, child, left, scratch, old>>
    BY <1>1
<1>2. ASSUME NEW t \in Everybody, Sandboxes!ThreadStep(t)
      PROVE  ChildrenInvariant'
    <2>1. CASE Sandboxes!Lock(t)
        BY <1>0, <2>1 DEF Sandboxes!Lock, Run
    <2>2. CASE Sandboxes!UseCached(t)
        BY <1>0, <2>2 DEF Sandboxes!UseCached, Run
    <2>3. CASE Sandboxes!BeginBuild(t)
        BY <1>0, <2>3 DEF Sandboxes!BeginBuild, Run
    <2>4. CASE Sandboxes!FinishBuild(t)
        BY <1>0, <2>4 DEF Sandboxes!FinishBuild, Run
    <2>5. CASE Sandboxes!Fork(t)
        BY <1>0, <2>5 DEF Sandboxes!Fork, Run
    <2>6. CASE Sandboxes!Reap(t)
        BY <1>0, <2>6 DEF Sandboxes!Reap, Run
    <2>7. CASE Sandboxes!Kill(t)
        BY <1>0, <2>7 DEF Sandboxes!Kill, Run
    <2>8. CASE Sandboxes!ReturnResult(t)
        BY <1>0, <2>8 DEF Sandboxes!ReturnResult, Sandboxes!Over, Sandboxes!NoRun, Run
    <2>. QED
        BY <1>2, <2>1, <2>2, <2>3, <2>4, <2>5, <2>6, <2>7, <2>8 DEF Sandboxes!ThreadStep
<1>3. ASSUME NEW t \in Everybody, Sandboxes!Failure(t)
      PROVE  ChildrenInvariant'
    <2>1. CASE Sandboxes!StartRunFails(t)
        BY <1>0, <2>1 DEF Sandboxes!StartRunFails, Sandboxes!Between, Sandboxes!NoRun, Run
    <2>2. CASE Sandboxes!CreateFails(t)
        BY <1>0, <2>2 DEF Sandboxes!CreateFails, Sandboxes!Over, Sandboxes!NoRun, Run
    <2>3. CASE Sandboxes!BuildFails(t)
        BY <1>0, <2>3 DEF Sandboxes!BuildFails, Sandboxes!Fail, Sandboxes!Over, Sandboxes!NoRun, Run
    <2>4. CASE Sandboxes!ForkFails(t)
        BY <1>0, <2>4 DEF Sandboxes!ForkFails, Sandboxes!Fail, Sandboxes!Over, Sandboxes!NoRun, Run
    <2>5. CASE Sandboxes!Abandon(t)
        BY <1>0, <2>5 DEF Sandboxes!Abandon, Sandboxes!Fail, Sandboxes!Over, Sandboxes!NoRun, Run
    <2>6. CASE Sandboxes!ReadFails(t)
        BY <1>0, <2>6 DEF Sandboxes!ReadFails, Sandboxes!Fail, Sandboxes!Over, Sandboxes!NoRun, Run
    <2>. QED
        BY <1>3, <2>1, <2>2, <2>3, <2>4, <2>5, <2>6 DEF Sandboxes!Failure
<1>4. ASSUME NEW t \in Everybody, Sandboxes!ChildStep(t)
      PROVE  ChildrenInvariant'
    BY <1>0, <1>4
    DEF Sandboxes!ChildStep, Sandboxes!Write, Sandboxes!Exit, Sandboxes!LeftChildWrites,
        Sandboxes!LeftChildExits, Texts
<1>5. ASSUME NEW t \in Everybody, NEW profile \in Profiles, Sandboxes!StartRun(t, profile)
      PROVE  ChildrenInvariant'
    BY <1>0, <1>5
    DEF Sandboxes!StartRun, Sandboxes!Between, Sandboxes!ResetScratch, Sandboxes!NoRun, Run
<1>6. ASSUME NEW t \in Everybody, Sandboxes!Tick(t)
      PROVE  ChildrenInvariant'
    BY <1>0, <1>6 DEF Sandboxes!Tick, Run
<1>7. ASSUME \/ \E t \in Everybody : Sandboxes!Invalidate(t)
             \/ Sandboxes!Serve
             \/ Sandboxes!RefuseToServe
             \/ \E d \in Dirs : Sandboxes!BreakDir(d)
      PROVE  ChildrenInvariant'
    BY <1>7 DEF Sandboxes!Invalidate, Sandboxes!Serve, Sandboxes!RefuseToServe, Sandboxes!BreakDir
<1>. QED
    BY <1>1, <1>2, <1>3, <1>4, <1>5, <1>6, <1>7
    DEF SandboxSteps, Sandboxes!Next, Everybody, Profiles

LEMMA SandboxInvariance == Sandboxes!Spec => [](DirectoriesInvariant /\ ChildrenInvariant)
<1>1. DirectoriesInvariant /\ ChildrenInvariant /\ SandboxSteps
        => (DirectoriesInvariant /\ ChildrenInvariant)'
    BY DirectoriesStep, ChildrenStep
<1>. QED
    BY <1>1, SandboxInit, PTL DEF Sandboxes!Spec, SandboxSteps, Sandboxes!sandboxVars

(***************************************************************************)
(* A run that is over has no child left, and the text of its result is of  *)
(* its own child (wait_wall_clock, acquire_thread_local_scratch_files).    *)
(***************************************************************************)
THEOREM RunsStaySeparate == ServerSpec => []RunsAreSeparate
<1>1. DirectoriesInvariant /\ ChildrenInvariant => RunsAreSeparate
    BY DEF ChildrenInvariant, RunsAreSeparate, Sandboxes!ChildIsReaped, Sandboxes!TextIsOfTheRun,
           Sandboxes!Between, Everybody
<1>. QED
    BY <1>1, SandboxInvariance, PTL DEF ServerSpec

(***************************************************************************)
(* The directories from before the cache was emptied: none is in a slot,   *)
(* and none is being built, for the cache is emptied under its mutex.      *)
(***************************************************************************)
OldInvariant ==
    /\ old \subseteq Dirs
    /\ \A p \in Profiles : slot[p] \notin old
    /\ \A t \in Everybody : run[t].step = "building" => run[t].dir \notin old

LEMMA OldInit == Sandboxes!Init => OldInvariant
BY DEF Sandboxes!Init, OldInvariant

LEMMA OldStep ==
    ASSUME DirectoriesInvariant, OldInvariant, SandboxSteps
    PROVE  OldInvariant'
<1>. USE DEF OldInvariant
<1>1. run \in [Everybody -> Run] /\ slot \in [Profiles -> DirOrNone] /\ NoDir \notin old
    BY DirsAssumption DEF DirectoriesInvariant, SandboxType
<1>2. ASSUME old' = old,
             \A p \in Profiles : slot'[p] \in {slot[p], NoDir},
             \A t \in Everybody : run'[t].step = "building" => run'[t] = run[t]
      PROVE  OldInvariant'
    BY <1>1, <1>2
<1>3. ASSUME NEW t \in Everybody, Sandboxes!BeginBuild(t) PROVE OldInvariant'
    <2>1. PICK d \in Dirs :
            /\ run' = [run EXCEPT ![t].step = "building", ![t].dir = d]
            /\ old' = old \ {d}
        BY <1>3 DEF Sandboxes!BeginBuild
    <2>2. /\ \A u \in Everybody \ {t} : run'[u] = run[u]
          /\ run'[t].dir = d
        BY <1>1, <2>1 DEF Run
    <2>3. \A p \in Profiles : slot'[p] \in {slot[p], NoDir}
        BY <1>1, <1>3 DEF Sandboxes!BeginBuild, Sandboxes!SlotOf
    <2>. QED
        BY <1>1, <2>1, <2>2, <2>3
<1>4. ASSUME NEW t \in Everybody, Sandboxes!FinishBuild(t) PROVE OldInvariant'
    <2>1. /\ \A u \in Everybody \ {t} : run'[u] = run[u]
          /\ run[t].step = "building" /\ run'[t].step = "prepared"
          /\ \A p \in Profiles : slot'[p] \in {slot[p], run[t].dir}
          /\ old' = old
        BY <1>1, <1>4 DEF Sandboxes!FinishBuild, Sandboxes!SlotOf, Run
    <2>. QED
        BY <2>1
<1>5. ASSUME NEW t \in Everybody, Sandboxes!Invalidate(t) PROVE OldInvariant'
    <2>1. /\ mutex = NoThread /\ run' = run
          /\ \A p \in Profiles : slot'[p] = NoDir
          /\ old' \subseteq Dirs
        BY <1>5 DEF Sandboxes!Invalidate, Sandboxes!CacheIsFree, Profiles
    <2>2. \A u \in Everybody : run[u].step # "building"
        BY <2>1, ThreadsAssumption
        DEF DirectoriesInvariant, MutexIsHeld, Everybody, Sandboxes!Everybody
    <2>. QED
        BY <2>1, <2>2, DirsAssumption
<1>6. ASSUME NEW t \in Everybody,
             \/ \E profile \in Profiles : Sandboxes!StartRun(t, profile)
             \/ Sandboxes!StartRunFails(t)
             \/ Sandboxes!Lock(t)
             \/ Sandboxes!UseCached(t)
             \/ Sandboxes!Tick(t)
             \/ Sandboxes!Reap(t)
             \/ Sandboxes!Kill(t)
      PROVE  OldInvariant'
    <2>1. slot' = slot /\ old' = old
        BY <1>6 DEF Sandboxes!StartRun, Sandboxes!StartRunFails, Sandboxes!Lock,
                    Sandboxes!UseCached, Sandboxes!Tick, Sandboxes!Reap, Sandboxes!Kill
    <2>2. run'[t].step # "building" /\ \A u \in Everybody \ {t} : run'[u] = run[u]
        BY <1>1, <1>6
        DEF Sandboxes!StartRun, Sandboxes!StartRunFails, Sandboxes!Lock, Sandboxes!UseCached,
            Sandboxes!Tick, Sandboxes!Reap, Sandboxes!Kill, Sandboxes!Between, Sandboxes!NoRun, Run
    <2>. QED
        BY <1>2, <2>1, <2>2
<1>7. ASSUME NEW t \in Everybody,
             \/ Sandboxes!CreateFails(t)
             \/ Sandboxes!BuildFails(t)
             \/ Sandboxes!Fork(t)
             \/ Sandboxes!ForkFails(t)
             \/ Sandboxes!Abandon(t)
             \/ Sandboxes!ReturnResult(t)
             \/ Sandboxes!ReadFails(t)
      PROVE  OldInvariant'
    <2>1. old' = old /\ \A p \in Profiles : slot'[p] \in {slot[p], NoDir}
        BY <1>1, <1>7
        DEF Sandboxes!CreateFails, Sandboxes!BuildFails, Sandboxes!Fork, Sandboxes!ForkFails,
            Sandboxes!Abandon, Sandboxes!ReturnResult, Sandboxes!ReadFails
    <2>2. run'[t].step # "building" /\ \A u \in Everybody \ {t} : run'[u] = run[u]
        BY <1>1, <1>7
        DEF Sandboxes!CreateFails, Sandboxes!BuildFails, Sandboxes!Fork, Sandboxes!ForkFails,
            Sandboxes!Abandon, Sandboxes!ReturnResult, Sandboxes!ReadFails, Sandboxes!Fail,
            Sandboxes!Over, Sandboxes!NoRun, Run
    <2>. QED
        BY <1>2, <2>1, <2>2
<1>8. CASE \/ UNCHANGED <<server, slot, mutex, artifacts, run, child, left, scratch, old>>
           \/ \E t \in Everybody : Sandboxes!ChildStep(t)
           \/ Sandboxes!Serve
           \/ Sandboxes!RefuseToServe
           \/ \E d \in Dirs : Sandboxes!BreakDir(d)
    <2>1. slot' = slot /\ old' = old /\ run' = run
        BY <1>8 DEF Sandboxes!ChildStep, Sandboxes!Write, Sandboxes!Exit,
                    Sandboxes!LeftChildWrites, Sandboxes!LeftChildExits, Sandboxes!Serve,
                    Sandboxes!RefuseToServe, Sandboxes!BreakDir
    <2>. QED
        BY <1>2, <2>1
<1>. QED
    BY <1>3, <1>4, <1>5, <1>6, <1>7, <1>8
    DEF SandboxSteps, Sandboxes!Next, Sandboxes!ThreadStep, Sandboxes!Failure, Everybody, Profiles

(***************************************************************************)
(* A worker that restarts has emptied the cache for good: no directory     *)
(* from before comes back, whatever the other threads are at meanwhile     *)
(* (invalidate_all_sandbox_artifacts, acquire_sandbox_artifacts).          *)
(***************************************************************************)
THEOREM CacheIsRenewed == ServerSpec => []RestartRenewsTheCache
<1>1. DirectoriesInvariant /\ ChildrenInvariant /\ OldInvariant /\ SandboxSteps => OldInvariant'
    BY OldStep
<1>2. OldInvariant => RestartRenewsTheCache
    BY DEF OldInvariant, RestartRenewsTheCache, Sandboxes!NoOldDirectoryIsCached, Profiles
<1>. QED
    BY <1>1, <1>2, OldInit, SandboxInvariance, PTL
    DEF ServerSpec, Sandboxes!Spec, SandboxSteps, Sandboxes!sandboxVars

(***************************************************************************)
(* No staging directory is lost but by a crash, and no sandbox directory   *)
(* at all; a run has the directory of its profile until it returns         *)
(* (temp_dir, acquire_sandbox_artifacts, invalidate_all).                  *)
(***************************************************************************)
THEOREM DirectoriesStay == ServerSpec => []DirectoriesAreKept
<1>1. StagingInvariant => TypeOK /\ StagingIsCleanedUp
    BY DEF StagingInvariant, StagingIsUsed, LocksAreHeld, LitterIsOfCrashes, StagingIsCleanedUp
<1>2. DirectoriesInvariant
        => /\ Sandboxes!RunKeepsItsDirectory
           /\ Sandboxes!NoDirectoryIsLost
           /\ Sandboxes!RunHasItsPolicy
    BY DEF DirectoriesInvariant, HeldIsThere, IsThere, Everybody, Sandboxes!RunKeepsItsDirectory,
           Sandboxes!RunHasItsPolicy, Sandboxes!Removed
<1>. QED
    BY <1>1, <1>2, StagingInvariance, SandboxInvariance, PTL DEF ServerSpec, DirectoriesAreKept

-----------------------------------------------------------------------------
(***************************************************************************)
(* JudgeWorkers.  The counter of busy workers moves with the steps between *)
(* "busy" and the others; and a worker that looked in vain either looks    *)
(* again or has been told of what became ready since.                      *)
(***************************************************************************)
Busy == {w \in Workers : worker[w].step = "busy"}

WorkerState ==
    [step : {"building", "delayed", "leasing", "locking", "idle", "sleeping", "busy"},
     task : SUBSET Submissions]

Row == [state : {"absent", "ready", "overdue", "leased"}, by : Workers \cup {None}]

(* TypeOK without the bound of the counter, which follows from its meaning. *)
CrowdType ==
    /\ queue \in [Submissions -> Row]
    /\ worker \in [Workers -> WorkerState]
    /\ announced \in [Workers -> BOOLEAN]

(* Nobody is idle and without news while a submission is ready, unless     *)
(* another worker is about to look.                                        *)
NewsIsSeen ==
    (\A w \in Workers : worker[w].step \in {"idle", "sleeping"} /\ ~announced[w])
        => \A s \in Submissions : queue[s] # Crowd!Ready

CrowdInvariant == CrowdType /\ busy = Cardinality(Busy) /\ NewsIsSeen

CrowdVars == <<queue, worker, announced, busy>>

LEMMA CrowdInit == Crowd!Init => CrowdInvariant
<1>. SUFFICES ASSUME Crowd!Init PROVE CrowdInvariant
    OBVIOUS
<1>1. CrowdType
    BY DEF Crowd!Init, CrowdType, WorkerState, Row, Crowd!Absent
<1>2. Busy = {}
    BY DEF Crowd!Init, Busy
<1>3. NewsIsSeen
    BY DEF Crowd!Init, NewsIsSeen, Crowd!Absent, Crowd!Ready
<1>. QED
    BY <1>1, <1>2, <1>3, FS_EmptySet DEF CrowdInvariant, Crowd!Init

LEMMA BusyIsFinite == IsFiniteSet(Busy) /\ Cardinality(Busy) \in 0 .. Cardinality(Workers)
BY WorkersAssumption, FS_Subset, FS_CardinalityType DEF Busy

(* One worker changes its step, and the counter with it. *)
LEMMA CountStep ==
    ASSUME CrowdInvariant, NEW w \in Workers, NEW r \in WorkerState,
           worker' = [worker EXCEPT ![w] = r],
           busy' = IF worker[w].step = "busy" /\ r.step # "busy" THEN busy - 1
                   ELSE IF worker[w].step # "busy" /\ r.step = "busy" THEN busy + 1 ELSE busy
    PROVE  worker' \in [Workers -> WorkerState] /\ busy' = Cardinality(Busy)'
<1>1. worker \in [Workers -> WorkerState] /\ busy = Cardinality(Busy)
    BY DEF CrowdInvariant, CrowdType
<1>2. /\ worker' \in [Workers -> WorkerState]
      /\ worker'[w] = r
      /\ \A x \in Workers \ {w} : worker'[x] = worker[x]
    BY <1>1
<1>3. CASE worker[w].step = "busy" <=> r.step = "busy"
    <2>1. Busy' = Busy
        BY <1>2, <1>3 DEF Busy
    <2>. QED
        BY <1>1, <1>2, <1>3, <2>1
<1>4. CASE worker[w].step = "busy" /\ r.step # "busy"
    <2>1. Busy' = Busy \ {w} /\ w \in Busy
        BY <1>2, <1>4 DEF Busy
    <2>2. Cardinality(Busy') = Cardinality(Busy) - 1
        BY <2>1, BusyIsFinite, FS_RemoveElement
    <2>. QED
        BY <1>1, <1>2, <1>4, <2>2
<1>5. CASE worker[w].step # "busy" /\ r.step = "busy"
    <2>1. Busy' = Busy \cup {w} /\ w \notin Busy
        BY <1>2, <1>5 DEF Busy
    <2>2. Cardinality(Busy') = Cardinality(Busy) + 1
        BY <2>1, BusyIsFinite, FS_AddElement
    <2>. QED
        BY <1>1, <1>2, <1>5, <2>2
<1>. QED
    BY <1>3, <1>4, <1>5

LEMMA CrowdStep ==
    ASSUME CrowdInvariant, [Crowd!Next]_CrowdVars
    PROVE  CrowdInvariant'
<1>. USE DEF CrowdInvariant
<1>0. CrowdType
    OBVIOUS
<1>1. CASE UNCHANGED CrowdVars
    BY <1>1 DEF CrowdVars, CrowdType, Busy, NewsIsSeen
(* A step of a worker that leaves the queue and the counter alone. *)
<1>2. ASSUME NEW w \in Workers, NEW step \in {"building", "leasing", "idle", "sleeping"},
             worker' = [worker EXCEPT ![w].step = step], worker[w].step # "busy",
             queue' = queue, busy' = busy, announced' \in [Workers -> BOOLEAN],
             \A x \in Workers \ {w} : announced'[x] = announced[x],
             step \in {"building", "leasing"}
                \/ (step = "sleeping" /\ worker[w].step = "idle" /\ announced' = announced)
                \/ \A s \in Submissions : queue[s] # Crowd!Ready
      PROVE  CrowdInvariant'
    <2>1. worker' = [worker EXCEPT ![w] = [worker[w] EXCEPT !.step = step]]
        BY <1>2
    <2>2. [worker[w] EXCEPT !.step = step] \in WorkerState
        BY <1>0 DEF CrowdType, WorkerState
    <2>3. [worker[w] EXCEPT !.step = step].step = step
        BY <1>0 DEF CrowdType, WorkerState
    <2>4. worker' \in [Workers -> WorkerState] /\ busy' = Cardinality(Busy)'
        BY <1>2, <2>1, <2>2, <2>3, CountStep
    <2>5. worker'[w].step = step /\ \A x \in Workers \ {w} : worker'[x] = worker[x]
        BY <1>0, <2>1, <2>3 DEF CrowdType
    <2>6. NewsIsSeen'
        BY <1>2, <2>5 DEF NewsIsSeen
    <2>. QED
        BY <1>0, <1>2, <2>4, <2>6 DEF CrowdType
<1>3. ASSUME NEW w \in Workers, Crowd!Build(w) \/ Crowd!Restart(w) \/ Crowd!FindNothing(w)
                                \/ Crowd!Sleep(w) \/ Crowd!Wake(w) \/ Crowd!WaitTimesOut(w)
      PROVE  CrowdInvariant'
    <2>1. CASE Crowd!Build(w)
        BY <1>0, <1>2, <2>1 DEF Crowd!Build, Crowd!At, CrowdType
    <2>2. CASE Crowd!Restart(w)
        BY <1>0, <1>2, <2>2 DEF Crowd!Restart, Crowd!At, CrowdType
    <2>3. CASE Crowd!FindNothing(w)
        BY <1>0, <1>2, <2>3 DEF Crowd!FindNothing, Crowd!At, Crowd!CanBeLeased, CrowdType
    <2>4. CASE Crowd!Sleep(w)
        BY <1>0, <1>2, <2>4 DEF Crowd!Sleep, Crowd!At, CrowdType
    <2>5. CASE Crowd!Wake(w)
        BY <1>0, <1>2, <2>5 DEF Crowd!Wake, Crowd!At, CrowdType
    <2>6. CASE Crowd!WaitTimesOut(w)
        BY <1>0, <1>2, <2>6 DEF Crowd!WaitTimesOut, Crowd!At, CrowdType
    <2>. QED
        BY <1>3, <2>1, <2>2, <2>3, <2>4, <2>5, <2>6
(* A step after which the worker looks, works or is made again. *)
<1>4. ASSUME NEW w \in Workers, NEW r \in WorkerState, worker' = [worker EXCEPT ![w] = r],
             r.step \notin {"idle", "sleeping"},
             busy' = IF worker[w].step = "busy" /\ r.step # "busy" THEN busy - 1
                     ELSE IF worker[w].step # "busy" /\ r.step = "busy" THEN busy + 1 ELSE busy,
             queue' \in [Submissions -> Row], announced' \in [Workers -> BOOLEAN]
      PROVE  CrowdInvariant'
    <2>1. worker' \in [Workers -> WorkerState] /\ busy' = Cardinality(Busy)'
        BY <1>4, CountStep
    <2>2. worker'[w] = r
        BY <1>0, <1>4 DEF CrowdType
    <2>3. NewsIsSeen'
        BY <1>4, <2>2 DEF NewsIsSeen
    <2>. QED
        BY <1>4, <2>1, <2>3 DEF CrowdType
<1>5. ASSUME NEW w \in Workers, Crowd!Lock(w) PROVE CrowdInvariant'
    <2>1. PICK s \in Submissions :
            /\ Crowd!CanBeLeased(s)
            /\ queue' = [queue EXCEPT ![s].by = w]
            /\ worker' = [worker EXCEPT ![w] = [step |-> "locking", task |-> {s}]]
        BY <1>5 DEF Crowd!Lock
    <2>2. queue' \in [Submissions -> Row]
        BY <1>0, <2>1 DEF CrowdType, Row
    <2>3. [step |-> "locking", task |-> {s}] \in WorkerState
        BY DEF WorkerState
    <2>4. worker[w].step = "leasing" /\ busy' = busy /\ announced' = announced
        BY <1>5 DEF Crowd!Lock
    <2>. QED
        BY <1>0, <1>4, <2>1, <2>2, <2>3, <2>4 DEF CrowdType
<1>6. ASSUME NEW w \in Workers, Crowd!Lease(w) PROVE CrowdInvariant'
    <2>1. worker' = [worker EXCEPT ![w] = [worker[w] EXCEPT !.step = "busy"]]
        BY <1>6 DEF Crowd!Lease, Crowd!At
    <2>2. [worker[w] EXCEPT !.step = "busy"] \in WorkerState
        BY <1>0 DEF CrowdType, WorkerState
    <2>3. [worker[w] EXCEPT !.step = "busy"].step = "busy"
        BY <1>0 DEF CrowdType, WorkerState
    <2>4. queue' \in [Submissions -> Row]
        BY <1>0, <1>6 DEF Crowd!Lease, CrowdType, Row
    <2>5. worker[w].step = "locking" /\ busy' = busy + 1 /\ announced' = announced
        BY <1>6 DEF Crowd!Lease
    <2>. QED
        BY <1>0, <1>4, <2>1, <2>2, <2>3, <2>4, <2>5 DEF CrowdType
<1>7. ASSUME NEW w \in Workers, Crowd!Finish(w) \/ Crowd!Requeue(w) PROVE CrowdInvariant'
    <2>1. /\ worker' = [worker EXCEPT ![w] = [step |-> "leasing", task |-> {}]]
          /\ worker[w].step = "busy" /\ busy' = busy - 1 /\ announced' = announced
        BY <1>7 DEF Crowd!Finish, Crowd!Requeue
    <2>2. [step |-> "leasing", task |-> {}] \in WorkerState
        BY DEF WorkerState
    <2>3. queue' \in [Submissions -> Row]
        BY <1>0, <1>7
        DEF Crowd!Finish, Crowd!Requeue, Crowd!Owned, Crowd!Absent, Crowd!Ready, CrowdType, Row
    <2>. QED
        BY <1>0, <1>4, <2>1, <2>2, <2>3 DEF CrowdType
<1>8. ASSUME NEW w \in Workers, Crowd!Fail(w) PROVE CrowdInvariant'
    <2>1. /\ worker' = [worker EXCEPT ![w] = [step |-> "delayed", task |-> {}]]
          /\ busy' = IF worker[w].step = "busy" THEN busy - 1 ELSE busy
          /\ announced' = [announced EXCEPT ![w] = FALSE]
        BY <1>8 DEF Crowd!Fail, Crowd!BusyAfterFailure
    <2>2. [step |-> "delayed", task |-> {}] \in WorkerState
        BY DEF WorkerState
    <2>3. queue' \in [Submissions -> Row]
        BY <1>0, <1>8 DEF Crowd!Fail, CrowdType, Row
    <2>4. announced' \in [Workers -> BOOLEAN]
        BY <1>0, <2>1 DEF CrowdType
    <2>. QED
        BY <1>4, <2>1, <2>2, <2>3, <2>4
<1>9. ASSUME NEW s \in Submissions, Crowd!Enqueue(s) PROVE CrowdInvariant'
    <2>1. CrowdType'
        BY <1>0, <1>9 DEF Crowd!Enqueue, Crowd!IsListening, Crowd!Ready, CrowdType, Row
    <2>2. \A w \in Workers : worker'[w].step \in {"idle", "sleeping"} => announced'[w]
        BY <1>9 DEF Crowd!Enqueue, Crowd!IsListening
    <2>3. NewsIsSeen'
        BY <2>2, SomebodyWorks DEF NewsIsSeen
    <2>4. Busy' = Busy /\ busy' = busy
        BY <1>9 DEF Crowd!Enqueue, Busy
    <2>. QED
        BY <2>1, <2>3, <2>4
<1>10. ASSUME NEW s \in Submissions, Crowd!LeaseExpires(s) PROVE CrowdInvariant'
    <2>1. queue' = [queue EXCEPT ![s] = Crowd!Overdue] /\ UNCHANGED <<worker, announced, busy>>
        BY <1>10 DEF Crowd!LeaseExpires
    <2>2. CrowdType'
        BY <1>0, <2>1 DEF Crowd!Overdue, CrowdType, Row
    <2>3. \A r \in Submissions : queue'[r] = Crowd!Ready => queue[r] = Crowd!Ready
        BY <1>0, <2>1 DEF CrowdType, Crowd!Overdue, Crowd!Ready
    <2>4. NewsIsSeen'
        BY <2>1, <2>3 DEF NewsIsSeen
    <2>5. Busy' = Busy /\ busy' = busy
        BY <2>1 DEF Busy
    <2>. QED
        BY <2>2, <2>4, <2>5
<1>. QED
    BY <1>1, <1>3, <1>5, <1>6, <1>7, <1>8, <1>9, <1>10 DEF Crowd!Next, Crowd!WorkerStep

LEMMA CrowdInvariance == Crowd!Spec => []CrowdInvariant
<1>1. CrowdInvariant /\ [Crowd!Next]_CrowdVars => CrowdInvariant'
    BY CrowdStep
<1>. QED
    BY <1>1, CrowdInit, PTL DEF Crowd!Spec, CrowdVars, Crowd!judgeWorkersVars

(***************************************************************************)
(* Never do all workers wait, with nothing to read, while a submission is  *)
(* ready: a notification sent while a worker looks is there when it waits  *)
(* (judge_worker::run, wait_for_work).                                     *)
(***************************************************************************)
THEOREM NewsIsHeard == ServerSpec => []Crowd!NobodySleepsOnNews
<1>1. CrowdInvariant => Crowd!NobodySleepsOnNews
    BY DEF CrowdInvariant, NewsIsSeen, Crowd!NobodySleepsOnNews
<1>. QED
    BY <1>1, CrowdInvariance, PTL DEF ServerSpec

(* The cardinality that JudgeWorkers and JudgeStatus speak of is the usual one. *)
LEMMA SameCardinality ==
    \A S : Crowd!Cardinality(S) = Cardinality(S) /\ Status!Cardinality(S) = Cardinality(S)
BY DEF Cardinality, Crowd!Cardinality, Status!Cardinality

LEMMA CountOfBusyWorkers == CrowdInvariant => Crowd!TypeOK /\ Crowd!BusyIsCounted
<1>. SUFFICES ASSUME CrowdInvariant PROVE Crowd!TypeOK /\ Crowd!BusyIsCounted
    OBVIOUS
<1>1. busy = Cardinality(Busy) /\ busy \in 0 .. Cardinality(Workers)
    BY BusyIsFinite DEF CrowdInvariant
<1>2. Crowd!BusyIsCounted
    BY <1>1, SameCardinality DEF Busy, Crowd!BusyIsCounted
<1>3. Crowd!TypeOK
    BY <1>1, SameCardinality DEF CrowdInvariant, CrowdType, Row, WorkerState, Crowd!TypeOK
<1>. QED
    BY <1>2, <1>3

-----------------------------------------------------------------------------
(***************************************************************************)
(* JudgeStatus.  A row is as old as the last step of its server that wrote *)
(* it, a heartbeat is never overdue, and only a self check writes a check. *)
(***************************************************************************)
Check == [status : {"passed", "failed"}, at : Nat]

RowOfStatus ==
    [exists : {TRUE}, beat : Nat, workers : {WorkerCount}, active : 0 .. WorkerCount,
     check : SUBSET Check]

Process ==
    [state : {"off", "up", "ended"}, due : Nat, endedAt : Nat, published : BOOLEAN]

StatusType ==
    /\ now \in Nat
    /\ process \in [Instances -> Process]
    /\ active \in [Instances -> 0 .. WorkerCount]
    /\ row \in [Instances -> RowOfStatus \cup {Status!NoRow}]
    /\ lastCheck \in [status : {"unknown", "passed", "failed"}, at : Nat]

IsNow(i) ==
    /\ row[i].exists => row[i].beat <= now
    /\ process[i].state = "off" => process[i] = Status!NotStarted /\ ~row[i].exists
    /\ process[i].state = "up" => /\ now <= process[i].due
                                  /\ process[i].published =>
                                        row[i].exists /\ process[i].due = row[i].beat + Interval
    /\ process[i].state = "ended" /\ row[i].exists => row[i].beat <= process[i].endedAt

(* The last check is that of a row, unless there was none, and no row has  *)
(* a later one.                                                            *)
ChecksAreKnown ==
    /\ \A i \in Instances : row[i].exists =>
            \A c \in row[i].check : c.at <= lastCheck.at
    /\ lastCheck.at <= now
    /\ IF \A i \in Instances : row[i].exists => row[i].check = {}
       THEN lastCheck = Status!NoCheck
       ELSE \E i \in Instances : row[i].exists /\ lastCheck \in row[i].check

StatusInvariant ==
    StatusType /\ (\A i \in Instances : IsNow(i)) /\ ChecksAreKnown

StatusVars == <<now, process, active, row, lastCheck>>

LEMMA StatusInit == Status!Init => StatusInvariant
BY InstancesAssumption
DEF Status!Init, StatusInvariant, StatusType, IsNow, ChecksAreKnown, Process, Status!NotStarted,
    Status!NoRow, Status!NoCheck

LEMMA RowIsThere ==
    ASSUME StatusType, NEW i \in Instances, row[i].exists
    PROVE  row[i] \in RowOfStatus /\ row[i].check \in SUBSET Check /\ row[i].beat \in Nat
<1>1. row[i] \in RowOfStatus
    <2>1. row[i] \in RowOfStatus \/ row[i] = Status!NoRow
        BY DEF StatusType
    <2>2. ~Status!NoRow.exists
        BY DEF Status!NoRow
    <2>. QED
        BY <2>1, <2>2
<1>. QED
    BY <1>1 DEF RowOfStatus

LEMMA ProcessBeats ==
    ASSUME NEW p \in Process, NEW due \in Nat
    PROVE  /\ [p EXCEPT !.due = due, !.published = TRUE] \in Process
           /\ [p EXCEPT !.due = due, !.published = FALSE] \in Process
BY DEF Process

(* A row that is written holds the present. *)
LEMMA UpsertedRow ==
    ASSUME StatusInvariant, NEW i \in Instances, NEW check \in SUBSET Check
    PROVE  LET r == Status!Upserted(i, check) IN
           /\ r \in RowOfStatus
           /\ r.exists /\ r.beat = now
           /\ check # {} => r.check = check
           /\ check = {} => r.check = IF row[i].exists THEN row[i].check ELSE {}
<1>1. row[i].exists => row[i].check \in SUBSET Check
    BY RowIsThere DEF StatusInvariant
<1>. QED
    BY <1>1, InstancesAssumption DEF StatusInvariant, StatusType, RowOfStatus, Status!Upserted

LEMMA StatusStep ==
    ASSUME StatusInvariant, [Status!Next]_StatusVars
    PROVE  StatusInvariant'
<1>. USE DEF StatusInvariant
<1>0. /\ StatusType
      /\ \A i \in Instances : IsNow(i)
      /\ Interval \in Nat /\ StaleAfter \in Nat /\ WorkerCount \in Nat
    BY TimeAssumption, InstancesAssumption
<1>1. CASE UNCHANGED StatusVars
    BY <1>1 DEF StatusVars, StatusType, IsNow, ChecksAreKnown
<1>2. ASSUME NEW i \in Instances, NEW status \in {"passed", "failed"}, NEW next \in Process,
             process[i] = Status!NotStarted,
             row' = [row EXCEPT ![i] = Status!Upserted(i, Status!CheckOf(status))],
             process' = [process EXCEPT ![i] = next],
             \/ next.state = "up" /\ next.due = now + Interval
             \/ next.state = "ended" /\ next.endedAt = now,
             lastCheck' = [status |-> status, at |-> now],
             UNCHANGED <<now, active>>
      PROVE  StatusInvariant'
    <2>. DEFINE check == {[status |-> status, at |-> now]}
                r == Status!Upserted(i, check)
    <2>1. check \in SUBSET Check /\ check # {}
        BY <1>0, <1>2 DEF StatusType, Check
    <2>2. /\ r \in RowOfStatus
          /\ r.exists /\ r.beat = now /\ r.check = check
        BY <2>1, UpsertedRow
    <2>3. /\ row'[i] = r /\ process'[i] = next
          /\ \A j \in Instances \ {i} : row'[j] = row[j] /\ process'[j] = process[j]
        BY <1>0, <1>2 DEF StatusType, Status!CheckOf
    <2>4. StatusType'
        BY <1>0, <1>2, <2>2 DEF StatusType, Status!CheckOf
    <2>5. \A j \in Instances : IsNow(j)'
        BY <1>0, <1>2, <2>2, <2>3 DEF IsNow, StatusType
    <2>6. ChecksAreKnown'
        <3>1. lastCheck' \in row'[i].check /\ row'[i].exists /\ row'[i].check # {}
            BY <1>2, <2>2, <2>3
        <3>2. lastCheck'.at = now /\ now' = now
            BY <1>2
        <3>3. \A c \in row'[i].check : c.at = now
            BY <2>2, <2>3
        <3>4. \A j \in Instances \ {i} : row'[j].exists => \A c \in row'[j].check : c.at <= now
            <4>1. lastCheck.at <= now
                BY DEF ChecksAreKnown
            <4>2. lastCheck.at \in Int
                BY <1>0 DEF StatusType
            <4>3. ASSUME NEW j \in Instances \ {i}, row'[j].exists, NEW c \in row'[j].check
                  PROVE  c.at <= now
                <5>1. row[j].exists /\ c \in row[j].check
                    BY <2>3, <4>3
                <5>2. c.at \in Nat /\ c.at <= lastCheck.at
                    BY <1>0, <5>1, RowIsThere DEF ChecksAreKnown, Check
                <5>. QED
                    BY <1>0, <4>1, <4>2, <5>2 DEF StatusType
            <4>. QED
                BY <4>3
        <3>5. now \in Nat
            BY <1>0 DEF StatusType
        <3>. QED
            BY <3>1, <3>2, <3>3, <3>4, <3>5 DEF ChecksAreKnown
    <2>. QED
        BY <2>4, <2>5, <2>6
<1>3. ASSUME NEW i \in Instances, Status!CheckPasses(i) \/ Status!CheckFails(i)
      PROVE  StatusInvariant'
    <2>1. Status!Up \in Process /\ Status!Ended \in Process
        BY <1>0 DEF Status!Up, Status!Ended, Process, StatusType
    <2>2. CASE Status!CheckPasses(i)
        BY <1>2, <2>1, <2>2 DEF Status!CheckPasses, Status!Up
    <2>3. CASE Status!CheckFails(i)
        BY <1>2, <2>1, <2>3 DEF Status!CheckFails, Status!Ended
    <2>. QED
        BY <1>3, <2>2, <2>3
(* A step that leaves the checks of the rows, and the clock, alone. *)
<1>4. ASSUME UNCHANGED <<now, row, lastCheck>> PROVE ChecksAreKnown'
    BY <1>4 DEF ChecksAreKnown
<1>5. ASSUME NEW i \in Instances, NEW next \in Process, process' = [process EXCEPT ![i] = next],
             \/ next.state = "ended" /\ next.endedAt = now
             \/ next.state = "up" /\ next.due = now + Interval /\ ~next.published,
             active' \in [Instances -> 0 .. WorkerCount],
             UNCHANGED <<now, row, lastCheck>>
      PROVE  StatusInvariant'
    <2>1. process' \in [Instances -> Process]
        BY <1>0, <1>5 DEF StatusType
    <2>2. process'[i] = next /\ \A j \in Instances \ {i} : process'[j] = process[j]
        BY <1>0, <1>5 DEF StatusType
    <2>3. \A j \in Instances : IsNow(j)'
        BY <1>0, <1>5, <2>2 DEF IsNow, StatusType
    <2>. QED
        BY <1>0, <1>4, <1>5, <2>1, <2>3 DEF StatusType
<1>6. ASSUME NEW i \in Instances, Status!PublishFails(i) \/ Status!Die(i) PROVE StatusInvariant'
    <2>1. Status!Ended \in Process /\ Status!Ended.state = "ended" /\ Status!Ended.endedAt = now
        BY <1>0 DEF Status!Ended, Process, StatusType
    <2>2. active' \in [Instances -> 0 .. WorkerCount]
        BY <1>0, <1>6 DEF Status!PublishFails, Status!Die, StatusType
    <2>. QED
        BY <1>5, <1>6, <2>1, <2>2 DEF Status!PublishFails, Status!Die
<1>7. ASSUME NEW i \in Instances, Status!HeartbeatFails(i) PROVE StatusInvariant'
    <2>. DEFINE next == [process[i] EXCEPT !.due = now + Interval, !.published = FALSE]
    <2>1. process[i] \in Process /\ process[i].state = "up"
        BY <1>0, <1>7 DEF Status!HeartbeatFails, Status!IsUp, StatusType
    <2>2. next \in Process /\ next.state = "up" /\ next.due = now + Interval /\ ~next.published
        <3>1. now + Interval \in Nat
            BY <1>0 DEF StatusType
        <3>. QED
            BY <2>1, <3>1, ProcessBeats DEF Process
    <2>3. process' = [process EXCEPT ![i] = next]
        BY <1>7 DEF Status!HeartbeatFails
    <2>. QED
        BY <1>0, <1>5, <1>7, <2>2, <2>3 DEF Status!HeartbeatFails, StatusType
<1>8. ASSUME NEW i \in Instances, Status!Heartbeat(i) PROVE StatusInvariant'
    <2>. DEFINE r == Status!Upserted(i, {})
                next == [process[i] EXCEPT !.due = now + Interval, !.published = TRUE]
    <2>1. /\ r \in RowOfStatus
          /\ r.exists /\ r.beat = now
          /\ r.check = IF row[i].exists THEN row[i].check ELSE {}
        BY UpsertedRow
    <2>2. process[i] \in Process /\ process[i].state = "up"
        BY <1>0, <1>8 DEF Status!Heartbeat, Status!IsUp, StatusType
    <2>3. next \in Process /\ next.state = "up" /\ next.due = now + Interval
        <3>1. now + Interval \in Nat
            BY <1>0 DEF StatusType
        <3>. QED
            BY <2>2, <3>1, ProcessBeats DEF Process
    <2>4. /\ process' = [process EXCEPT ![i] = next]
          /\ row' = [row EXCEPT ![i] = r]
          /\ UNCHANGED <<now, active, lastCheck>>
        BY <1>8 DEF Status!Heartbeat
    <2>5. /\ row'[i] = r /\ process'[i] = next
          /\ \A j \in Instances \ {i} : row'[j] = row[j] /\ process'[j] = process[j]
        BY <1>0, <2>4 DEF StatusType
    <2>6. StatusType'
        BY <1>0, <2>1, <2>3, <2>4 DEF StatusType
    <2>7. \A j \in Instances : IsNow(j)'
        BY <1>0, <2>1, <2>3, <2>4, <2>5 DEF IsNow, StatusType
    <2>8. ChecksAreKnown'
        <3>1. \A j \in Instances : row[j].exists => row'[j].exists /\ row'[j].check = row[j].check
            BY <2>1, <2>5
        <3>2. \A j \in Instances : row'[j].exists /\ ~row[j].exists => row'[j].check = {}
            BY <2>1, <2>5
        <3>. QED
            BY <2>4, <3>1, <3>2 DEF ChecksAreKnown
    <2>. QED
        BY <2>6, <2>7, <2>8
<1>9. ASSUME NEW i \in Instances, Status!ChangeBusy(i) PROVE StatusInvariant'
    <2>1. active' \in [Instances -> 0 .. WorkerCount]
        BY <1>0, <1>9 DEF Status!ChangeBusy, StatusType
    <2>. QED
        BY <1>0, <1>4, <1>9, <2>1 DEF Status!ChangeBusy, StatusType, IsNow
<1>10. CASE Status!Tick
    <2>1. now' = now + 1 /\ UNCHANGED <<process, active, row, lastCheck>>
        BY <1>10 DEF Status!Tick
    <2>2. \A i \in Instances : process[i].state = "up" => process[i].due > now
        BY <1>10 DEF Status!Tick, Status!IsUp
    <2>3. now \in Nat /\ lastCheck.at \in Int
        BY <1>0 DEF StatusType
    <2>4. \A i \in Instances : process[i] \in Process /\ (row[i].exists => row[i].beat \in Nat)
        BY <1>0, RowIsThere DEF StatusType
    <2>5. \A i \in Instances : IsNow(i)'
        BY <1>0, <2>1, <2>2, <2>3, <2>4 DEF IsNow, Process
    <2>6. ChecksAreKnown'
        BY <2>1, <2>3 DEF ChecksAreKnown
    <2>. QED
        BY <1>0, <2>1, <2>3, <2>5, <2>6 DEF StatusType
<1>. QED
    BY <1>1, <1>3, <1>6, <1>7, <1>8, <1>9, <1>10 DEF Status!Next

LEMMA StatusInvariance == Status!Spec => []StatusInvariant
<1>1. StatusInvariant /\ [Status!Next]_StatusVars => StatusInvariant'
    BY StatusStep
<1>. QED
    BY <1>1, StatusInit, PTL DEF Status!Spec, StatusVars, Status!judgeStatusVars

(* The servers that are added up, and the workers of them. *)
LEMMA ActiveAreConfigured ==
    ASSUME StatusInvariant
    PROVE  Status!ActiveWithinConfigured
<1>. DEFINE workers(i) == {i} \X (1 .. row[i].workers)
            actives(i) == {i} \X (1 .. row[i].active)
<1>1. IsFiniteSet(Status!LiveInstances)
    BY InstancesAssumption, FS_Subset DEF Status!LiveInstances
<1>2. \A i \in Status!LiveInstances :
        /\ row[i].workers = WorkerCount /\ row[i].active \in 0 .. WorkerCount
        /\ WorkerCount \in Nat
    BY RowIsThere, InstancesAssumption DEF StatusInvariant, RowOfStatus, Status!LiveInstances
<1>3. Status!Active \subseteq Status!Configured
    BY <1>2 DEF Status!Active, Status!Configured
<1>4. Status!Configured \subseteq Status!LiveInstances \X (1 .. WorkerCount)
    BY <1>2 DEF Status!Configured
<1>5. IsFiniteSet(Status!LiveInstances \X (1 .. WorkerCount))
    <2>1. IsFiniteSet(1 .. WorkerCount)
        BY FS_Interval, InstancesAssumption
    <2>. QED
        BY <1>1, <2>1, FS_Product
<1>6. IsFiniteSet(Status!Configured)
    BY <1>4, <1>5, FS_Subset
<1>. QED
    BY <1>3, <1>6, FS_Subset, SameCardinality
    DEF Status!ActiveWithinConfigured, Status!ActiveWorkerCount, Status!ConfiguredWorkerCount

LEMMA StatusHolds ==
    ASSUME StatusInvariant
    PROVE  Status!LiveIsReported /\ Status!DeadIsForgotten /\ Status!LastCheckIsReported
<1>. USE DEF StatusInvariant
<1>1. /\ now \in Nat /\ Interval \in Nat /\ StaleAfter \in Nat
      /\ \A i \in Instances : process[i] \in Process
      /\ \A i \in Instances : row[i].exists => row[i].beat \in Nat
    BY TimeAssumption, RowIsThere DEF StatusType
<1>2. Status!LiveIsReported
    BY <1>1 DEF Status!LiveIsReported, Status!LiveInstances, Status!IsUp, IsNow
<1>3. Status!DeadIsForgotten
    BY <1>1 DEF Status!DeadIsForgotten, Status!LiveInstances, IsNow, Process
<1>4. Status!LastCheckIsReported
    <2>1. \A c \in Status!Checks : c \in Check /\ c.at <= lastCheck.at
        BY RowIsThere DEF Status!Checks, ChecksAreKnown
    <2>2. CASE \A i \in Instances : row[i].exists => row[i].check = {}
        <3>1. Status!Checks = {}
            BY <2>2 DEF Status!Checks
        <3>. QED
            BY <2>2, <3>1 DEF Status!LastCheckIsReported, Status!LastCheck, ChecksAreKnown
    <2>3. CASE ~ \A i \in Instances : row[i].exists => row[i].check = {}
        <3>1. lastCheck \in Status!Checks
            BY <2>3 DEF Status!Checks, ChecksAreKnown
        <3>2. lastCheck.at \in Nat /\ \A c \in Status!Checks : c.at \in Nat
            BY <2>1 DEF StatusType, Check
        <3>3. Status!LastCheck = {c \in Status!Checks : \A d \in Status!Checks : d.at <= c.at}
            BY <3>1 DEF Status!LastCheck
        <3>4. lastCheck \in Status!LastCheck
            BY <2>1, <3>1, <3>3
        <3>5. \A c \in Status!LastCheck : c.at <= lastCheck.at /\ lastCheck.at <= c.at
            BY <2>1, <3>1, <3>3
        <3>. QED
            BY <3>2, <3>3, <3>4, <3>5 DEF Status!LastCheckIsReported
    <2>. QED
        BY <2>2, <2>3
<1>. QED
    BY <1>2, <1>3, <1>4

(***************************************************************************)
(* The count of busy workers is true, no more of them are reported than    *)
(* configured, a server is reported while it lives and forgotten when it   *)
(* has ended, and the last self check stays known (busy_worker_guard,      *)
(* system_service::get_status, upsert_judge_instance_status).              *)
(***************************************************************************)
THEOREM StatusStaysTrue == ServerSpec => []StatusIsTrue
<1>1. CrowdInvariant /\ StatusInvariant => StatusIsTrue
    BY CountOfBusyWorkers, ActiveAreConfigured, StatusHolds DEF StatusIsTrue
<1>. QED
    BY <1>1, CrowdInvariance, StatusInvariance, PTL DEF ServerSpec
=============================================================================
