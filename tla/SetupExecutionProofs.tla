------------------------ MODULE SetupExecutionProofs ------------------------
(***************************************************************************)
(* Theorems about SetupExecution, for any files, releases and any number   *)
(* of failures and attempts.                                               *)
(***************************************************************************)
EXTENDS SetupExecution, TLAPS

LEMMA PathsFacts ==
  /\ Inside \subseteq Paths /\ Files \subseteq Paths /\ Folder \in Paths
  /\ Folder \notin Files /\ Folder \notin Inside
BY PathsAssumption DEF Paths

LEMMA ReleaseFacts ==
  ASSUME release \in Releases
  PROVE  /\ release.payload \in Payloads /\ release.entries \subseteq Paths
         /\ release.damaged \subseteq release.entries
         /\ DOMAIN release.overrides \subseteq Paths /\ Deletions \subseteq Paths
         /\ release.successCodes \subseteq Int
BY ReleasesAssumption DEF Deletions

\* Every step keeps the types.  The steps are grouped as in the module.
LEMMA TypeInit == Init => TypeOK
BY PathsFacts, FaultsAssumption, CodeAssumption DEF Init, TypeOK

LEMMA TypeInvocation ==
  ASSUME TypeOK, InvokeSetupAsync \/ NextRun \/ TerminatesProcess \/ OpenPayload
  PROVE  TypeOK'
<1> USE DEF TypeOK, given, files, history
<1>1. CASE InvokeSetupAsync
  BY <1>1, CodeAssumption DEF InvokeSetupAsync
<1>2. CASE NextRun
  BY <1>2 DEF NextRun, NewProcess
<1>3. CASE TerminatesProcess
  BY <1>3, FaultsAssumption DEF TerminatesProcess, Return, Fault, NoFault
<1>4. CASE OpenPayload
  BY <1>4, ReleaseFacts DEF OpenPayload
<1> QED BY <1>1, <1>2, <1>3, <1>4

LEMMA TypeKilled == TypeOK /\ Killed => TypeOK'
BY FaultsAssumption DEF TypeOK, given, history, NewProcess, Killed

LEMMA TypeLaunched ==
  ASSUME TypeOK, Launch \/ SetupExits \/ WaitCancelled \/ Classify
  PROVE  TypeOK'
<1> USE DEF TypeOK, given, files, history
<1>1. CASE Launch
  BY <1>1, FaultsAssumption DEF Launch, LaunchDocument, LaunchProgram, Launched, Return, Fault,
                               NoFault
<1>2. CASE SetupExits
  BY <1>2, ReleaseFacts DEF SetupExits
<1>3. CASE WaitCancelled
  BY <1>3, CodeAssumption DEF WaitCancelled, GetSuccessExitCode
<1>4. CASE Classify
  BY <1>4 DEF Classify, Return
<1> QED BY <1>1, <1>2, <1>3, <1>4

LEMMA TypeExtract == TypeOK /\ ExtractReleaseZip => TypeOK'
<1> SUFFICES ASSUME TypeOK, NEW p \in Paths,
                    \/ ExtractEntry(p) \/ ReadFails(p) \/ WriteFails(p)
                    \/ CreateFails(p) \/ EntryFails(p)
             PROVE  TypeOK'
  BY DEF ExtractReleaseZip
<1> USE FaultsAssumption
    DEF TypeOK, given, files, history, Return, Throw, Fault, NoFault
<1>1. CASE ExtractEntry(p) BY <1>1 DEF ExtractEntry
<1>2. CASE ReadFails(p)    BY <1>2 DEF ReadFails
<1>3. CASE WriteFails(p)   BY <1>3 DEF WriteFails
<1>4. CASE CreateFails(p)  BY <1>4 DEF CreateFails
<1>5. CASE EntryFails(p)   BY <1>5 DEF EntryFails
<1> QED BY <1>1, <1>2, <1>3, <1>4, <1>5

LEMMA TypeCopy == TypeOK /\ CopyExtracted => TypeOK'
<1> SUFFICES ASSUME TypeOK, CopyExtracted PROVE TypeOK'
  OBVIOUS
<1> USE FaultsAssumption, PathsFacts
    DEF TypeOK, given, files, history, Return, Throw, Fault, NoFault, NextToCreate
<1>1. CASE StartCreating BY <1>1 DEF StartCreating
<1>2. CASE CreateFolder  BY <1>2 DEF CreateFolder
<1>3. ASSUME NEW p \in Paths, CopyFile(p) PROVE TypeOK'
  BY <1>3 DEF CopyFile, Written
<1>4. ASSUME NEW p \in Paths, LeaveForDeletion(p) PROVE TypeOK'
  BY <1>4 DEF LeaveForDeletion
<1>5. ASSUME NEW p \in Paths, CopyFails(p) PROVE TypeOK'
  <2>1. Written(p) \in {"absent", "old", "torn", "new"}
    BY DEF Written
  <2> QED BY <1>5, <2>1 DEF CopyFails
<1> QED BY <1>1, <1>2, <1>3, <1>4, <1>5 DEF CopyExtracted

LEMMA TypeDelete == TypeOK /\ DeleteListed => TypeOK'
<1> SUFFICES ASSUME TypeOK, DeleteListed PROVE TypeOK'
  OBVIOUS
<1> USE FaultsAssumption DEF TypeOK, given, files, history, Return, Throw, Fault, NoFault
<1>1. CASE StartDeleting BY <1>1, ReleaseFacts DEF StartDeleting
<1>2. CASE EndDeleting   BY <1>2 DEF EndDeleting
<1>3. ASSUME NEW p \in Paths, DeletePath(p) PROVE TypeOK'
  BY <1>3 DEF DeletePath
<1>4. ASSUME NEW p \in Paths, DeleteFails(p) PROVE TypeOK'
  BY <1>4 DEF DeleteFails
<1> QED BY <1>1, <1>2, <1>3, <1>4 DEF DeleteListed

LEMMA TypeNext == TypeOK /\ [Next]_vars => TypeOK'
<1> SUFFICES ASSUME TypeOK, [Next]_vars PROVE TypeOK'
  OBVIOUS
<1>1. CASE UNCHANGED vars
  BY <1>1 DEF vars, given, files, history, TypeOK
<1>2. CASE Next
  BY <1>2, TypeInvocation, TypeKilled, TypeLaunched, TypeExtract, TypeCopy, TypeDelete
  DEF Next, ExecuteSetup
<1> QED BY <1>1, <1>2

\* Type correctness for any installation, release and number of failures.
THEOREM TypeCorrect == Spec => []TypeOK
BY TypeInit, TypeNext, PTL DEF Spec

-----------------------------------------------------------------------------
(* What an error returned, and a success reported, stand for. *)

\* Up to the end of the extraction the installation is as it was; and as long
\* as no exit code was read, there is none.
ResultInv ==
  /\ pc \in {"terminate", "open", "launch", "running", "extract"} => installed = before
  /\ pc \in {"terminate", "open", "launch", "running"} => exited = none
  /\ pc \in {"extract", "create", "delete"} => release.payload = "archive"
  /\ pc \in {"launch", "running"} => release.payload # "archive"
  /\ (pc = "classify" /\ release.payload # "archive") =>
       exitCode = IF exited # none THEN exited
                  ELSE GetSuccessExitCode(NV_S_CLOSED_WHILE_UPDATER_RUNNING)
  /\ ErrorLeavesInstallation
  /\ SuccessIsTheSetups

LEMMA ResultInit == Init => ResultInv
BY DEF Init, ResultInv, ErrorLeavesInstallation, SuccessIsTheSetups, ReportsSuccess

LEMMA ResultNext == TypeOK /\ ResultInv /\ [Next]_vars => ResultInv'
<1> SUFFICES ASSUME TypeOK, ResultInv, [Next]_vars PROVE ResultInv'
  OBVIOUS
<1> USE DEF ResultInv, ErrorLeavesInstallation, SuccessIsTheSetups, ReportsSuccess,
            GetSuccessExitCode, given, files, history, Return, Throw, Fault, NoFault
<1>1. CASE UNCHANGED vars
  BY <1>1 DEF vars
<1>2. CASE InvokeSetupAsync
  BY <1>2 DEF InvokeSetupAsync
<1>3. CASE NextRun
  BY <1>3 DEF NextRun, NewProcess
<1>4. CASE Killed
  BY <1>4 DEF Killed, NewProcess
<1>5. CASE TerminatesProcess \/ OpenPayload
  BY <1>5 DEF TerminatesProcess, OpenPayload
<1>6. CASE Launch \/ WaitCancelled
  BY <1>6 DEF Launch, LaunchDocument, LaunchProgram, Launched, WaitCancelled
<1>7. CASE SetupExits
  BY <1>7, ReleaseFacts, CodeAssumption DEF SetupExits, TypeOK
<1>8. CASE Classify
  BY <1>8 DEF Classify
<1>9. CASE ExtractReleaseZip
  BY <1>9 DEF ExtractReleaseZip, ExtractEntry, ReadFails, WriteFails, CreateFails, EntryFails
<1>10. CASE CopyExtracted
  BY <1>10 DEF CopyExtracted, StartCreating, CreateFolder, CopyFile, LeaveForDeletion,
               CopyFails, NextToCreate
<1>11. CASE DeleteListed
  BY <1>11 DEF DeleteListed, StartDeleting, EndDeleting, DeletePath, DeleteFails
<1> QED BY <1>1, <1>2, <1>3, <1>4, <1>5, <1>6, <1>7, <1>8, <1>9, <1>10, <1>11
        DEF Next, ExecuteSetup

\* An attempt that returns an error has left the installation alone.
THEOREM ErrorIsHarmless == Spec => []ErrorLeavesInstallation
<1>1. ResultInv => ErrorLeavesInstallation
  BY DEF ResultInv
<1> QED BY <1>1, TypeInit, TypeNext, ResultInit, ResultNext, PTL DEF Spec

\* Success of a launched payload is that of its exit code.
THEOREM SuccessIsReal == Spec => []SuccessIsTheSetups
<1>1. ResultInv => SuccessIsTheSetups
  BY DEF ResultInv
<1> QED BY <1>1, TypeInit, TypeNext, ResultInit, ResultNext, PTL DEF Spec

-----------------------------------------------------------------------------
(* What an update from an archive leaves behind. *)

\* Only what the archive holds is ever staged, and the walks have only that,
\* and what is listed for deletion, to do.
StageInv ==
  /\ \A p \in Paths : staged[p] # "absent" => InArchive(p)
  /\ pc = "extract" => todo \subseteq release.entries
  /\ pc = "create" => \A p \in todo : InArchive(p)
  /\ pc = "delete" => todo \subseteq Deletions

LEMMA StageInit == Init => StageInv
BY DEF Init, StageInv

LEMMA StageNext == TypeOK /\ StageInv /\ [Next]_vars => StageInv'
<1> SUFFICES ASSUME TypeOK, StageInv, [Next]_vars PROVE StageInv'
  OBVIOUS
<1>0. UNCHANGED release
  BY DEF Next, vars, given, InvokeSetupAsync, NextRun, Killed, NewProcess, ExecuteSetup,
         SetupExits, WaitCancelled, TerminatesProcess, OpenPayload, Launch,
         LaunchDocument, LaunchProgram, Launched, Classify,
         ExtractReleaseZip, ExtractEntry, ReadFails, WriteFails, CreateFails, EntryFails,
         CopyExtracted, StartCreating, CreateFolder, CopyFile, LeaveForDeletion, CopyFails,
         DeleteListed, StartDeleting, EndDeleting, DeletePath, DeleteFails
<1> USE <1>0, PathsFacts
    DEF TypeOK, StageInv, InArchive, Deletions, files, history, Return, Throw, Fault, NoFault
<1>1. CASE UNCHANGED vars
  BY <1>1 DEF vars
<1>2. CASE InvokeSetupAsync \/ NextRun \/ Killed
  BY <1>2 DEF InvokeSetupAsync, NextRun, Killed, NewProcess
<1>3. CASE TerminatesProcess \/ OpenPayload \/ Launch \/ Classify \/ SetupExits \/ WaitCancelled
  BY <1>3 DEF TerminatesProcess, OpenPayload, Launch, LaunchDocument, LaunchProgram,
              Launched, Classify, SetupExits, WaitCancelled
<1>4. ASSUME NEW p \in Paths,
             ExtractEntry(p) \/ ReadFails(p) \/ WriteFails(p) \/ CreateFails(p) \/ EntryFails(p)
      PROVE  StageInv'
  BY <1>4 DEF ExtractEntry, ReadFails, WriteFails, CreateFails, EntryFails, Within
<1>5. CASE CopyExtracted
  BY <1>5 DEF CopyExtracted, StartCreating, CreateFolder, CopyFile, LeaveForDeletion, CopyFails,
              NextToCreate
<1>6. CASE DeleteListed
  BY <1>6 DEF DeleteListed, StartDeleting, EndDeleting, DeletePath, DeleteFails
<1> QED BY <1>1, <1>2, <1>3, <1>4, <1>5, <1>6 DEF Next, ExecuteSetup, ExtractReleaseZip

\* Unless the lookup misses its override, the disposition that walk 1 finds for a
\* file is the one the release lists.
LEMMA FoundDisposition ==
  ASSUME NEW p \in Paths, ~Missed(p), release \in Releases
  PROVE  Disposition(p) = Listed(p)
<1>1. release.slashes \in {"\\", "/"}
  BY ReleasesAssumption
<1> QED BY <1>1 DEF Missed, Disposition, Listed, Overridden

\* The user's files survive: an entry is written only if it is in the archive, and
\* never one that the release lists, where the lookup finds it, as one that is only
\* to be created, and that is there.
THEOREM UserFilesAreSafe == Spec => UserFilesSurvive
<1> DEFINE Survives ==
      \A p \in Files : UsersFile(p) /\ ~Missed(p) => installed'[p] = installed[p]
<1>1. TypeOK /\ StageInv /\ [Next]_vars => [Survives]_vars
  <2> SUFFICES ASSUME TypeOK, StageInv, Next PROVE Survives
    OBVIOUS
  <2> USE PathsFacts DEF TypeOK, StageInv, InArchive, UsersFile, files
  <2>1. CASE InvokeSetupAsync \/ NextRun
    BY <2>1 DEF InvokeSetupAsync, NextRun
  <2>2. CASE Killed
    BY <2>2, FoundDisposition DEF Killed
  <2>3. CASE TerminatesProcess \/ OpenPayload \/ Launch \/ Classify \/ SetupExits \/ WaitCancelled
    BY <2>3 DEF TerminatesProcess, OpenPayload, Launch, LaunchDocument, LaunchProgram,
                Launched, Classify, SetupExits, WaitCancelled
  <2>4. CASE ExtractReleaseZip
    BY <2>4 DEF ExtractReleaseZip, ExtractEntry, ReadFails, WriteFails, CreateFails, EntryFails
  <2>5. CASE CopyExtracted
    BY <2>5, FoundDisposition
    DEF CopyExtracted, StartCreating, CreateFolder, CopyFile, LeaveForDeletion, CopyFails,
        NextToCreate, Written
  <2>6. CASE DeleteListed
    <3>1. CASE StartDeleting \/ EndDeleting
      BY <3>1 DEF StartDeleting, EndDeleting
    <3>2. ASSUME NEW d \in Paths, DeletePath(d) \/ DeleteFails(d) PROVE Survives
      <4>1. d \in Deletions
        BY <3>2 DEF DeletePath, DeleteFails
      <4>2. \A p \in Files : ~Within(p, d) => installed'[p] = installed[p]
        BY <3>2 DEF DeletePath, DeleteFails, Removed
      <4> QED BY <4>1, <4>2
    <3> QED BY <2>6, <3>1, <3>2 DEF DeleteListed
  <2> QED BY <2>1, <2>2, <2>3, <2>4, <2>5, <2>6 DEF Next, ExecuteSetup
<1> QED BY <1>1, TypeInit, TypeNext, StageInit, StageNext, PTL DEF Spec, UserFilesSurvive

\* What walk 1 makes of p, without failures.
Created(p) ==
  IF KeptByRelease(p) \/ (p # Folder /\ Listed(p) = "DeleteIfPresent") THEN before[p] ELSE "new"

Plain == release.slashes = "\\" /\ release.default # "DeleteIfPresent"

\* The progress of the extraction and of the two walks.
WantedInv ==
  /\ faultsBefore <= faults
  /\ (pc = "extract" /\ ~faulty) =>
       \A p \in release.entries \ todo :
         staged[p] = "new" /\ (p \in Inside => staged[Folder] = "new")
  /\ (pc = "create" /\ ~faulty) =>
       /\ \A p \in Paths : InArchive(p) => staged[p] = "new"
       /\ Plain => \A p \in Paths : installed[p] = IF p \in todo THEN before[p] ELSE Created(p)
  /\ (pc = "delete" /\ ~faulty /\ Plain) =>
       \A p \in Paths :
         installed[p] = IF \E q \in Deletions \ todo : Within(p, q) THEN "absent" ELSE Created(p)
  /\ (pc = "classify" /\ release.payload = "archive" /\ ~faulty /\ Plain) =>
       \A p \in Paths : installed[p] = Wanted(p)
  /\ InstalledAsWanted

LEMMA WantedInit == Init => WantedInv
BY DEF Init, WantedInv, InstalledAsWanted, ReportsSuccess

\* With the overrides spelled as Windows spells paths, the disposition that
\* walk 1 finds is the one that is listed.
LEMMA PlainDisposition ==
  ASSUME Plain, NEW p \in Paths
  PROVE  /\ Disposition(p) = Listed(p)
         /\ Listed(p) = "DeleteIfPresent" => p \in Deletions
BY DEF Plain, Disposition, Listed, Overridden, Deletions

\* What the two walks make of p is what is wanted.
LEMMA CreatedAndDeleted ==
  ASSUME Plain, NEW p \in Paths
  PROVE  Wanted(p) = IF \E q \in Deletions : Within(p, q) THEN "absent" ELSE Created(p)
<1>1. p \in Deletions => \E q \in Deletions : Within(p, q)
  BY DEF Within
<1>2. Listed(p) = "DeleteIfPresent" => \E q \in Deletions : Within(p, q)
  BY <1>1, PlainDisposition
<1> QED BY <1>2 DEF Wanted, DeletedByRelease, Created

\* What is listed and wanted depends on the release and on the installation
\* at the start of the attempt only.
LEMMA WantedIsStable ==
  ASSUME UNCHANGED <<release, before>>
  PROVE  /\ Plain' = Plain /\ Deletions' = Deletions
         /\ \A p : /\ InArchive(p)' = InArchive(p)
                   /\ Created(p)' = Created(p)
                   /\ Wanted(p)' = Wanted(p)
BY DEF Plain, Deletions, InArchive, Created, Wanted, KeptByRelease, DeletedByRelease, Listed

\* The walks, one entry at a time.
LEMMA WantedCopy ==
  ASSUME TypeOK, ResultInv, StageInv, WantedInv, CopyExtracted
  PROVE  WantedInv'
<1>0. UNCHANGED <<release, before>>
  BY DEF CopyExtracted, StartCreating, CreateFolder, CopyFile, LeaveForDeletion, CopyFails,
         given, history
<1> USE <1>0, PathsFacts, FaultsAssumption, WantedIsStable
    DEF TypeOK, WantedInv, InstalledAsWanted, ReportsSuccess, faulty, files, history,
        Return, Throw, Fault, NoFault
<1>1. CASE StartCreating
  <2>1. \A p \in Paths : ~InArchive(p) => Created(p) = before[p]
    BY DEF Created, KeptByRelease
  <2>2. ~faulty => \A p \in Paths : InArchive(p) => staged[p] = "new"
    BY <1>1, ReleaseFacts DEF StartCreating, InArchive
  <2> QED BY <1>1, <2>1, <2>2 DEF StartCreating, ResultInv, StageInv
<1>2. CASE CreateFolder
  <2>1. Created(Folder) = IF before[Folder] = "absent" THEN "new" ELSE before[Folder]
    BY <1>2 DEF CreateFolder, NextToCreate, StageInv, Created, KeptByRelease
  <2> QED BY <1>2, <2>1 DEF CreateFolder, NextToCreate
<1>3. ASSUME NEW p \in Paths, CopyFile(p) PROVE WantedInv'
  <2>1. (~faulty /\ Plain) => Written(p) = Created(p)
    BY <1>3, PlainDisposition
    DEF CopyFile, NextToCreate, Written, StageInv, Created, KeptByRelease
  <2> QED BY <1>3, <2>1 DEF CopyFile, NextToCreate
<1>4. ASSUME NEW p \in Paths, LeaveForDeletion(p) PROVE WantedInv'
  <2>1. Plain => Created(p) = before[p]
    BY <1>4, PlainDisposition DEF LeaveForDeletion, Created
  <2> QED BY <1>4, <2>1 DEF LeaveForDeletion, NextToCreate
<1>5. ASSUME NEW p \in Paths, CopyFails(p) PROVE WantedInv'
  BY <1>5 DEF CopyFails, NextToCreate
<1> QED BY <1>1, <1>2, <1>3, <1>4, <1>5 DEF CopyExtracted

LEMMA WantedDelete ==
  ASSUME TypeOK, StageInv, WantedInv, DeleteListed
  PROVE  WantedInv'
<1>0. UNCHANGED <<release, before>>
  BY DEF DeleteListed, StartDeleting, EndDeleting, DeletePath, DeleteFails, given, history
<1> USE <1>0, FaultsAssumption, WantedIsStable
    DEF TypeOK, WantedInv, InstalledAsWanted, ReportsSuccess, faulty, files, history,
        Return, Throw, Fault, NoFault
<1>1. CASE StartDeleting
  BY <1>1 DEF StartDeleting
<1>2. CASE EndDeleting
  BY <1>2, CreatedAndDeleted DEF EndDeleting
<1>3. ASSUME NEW d \in Paths, DeletePath(d) PROVE WantedInv'
  <2>1. d \in Deletions
    BY <1>3 DEF DeletePath, StageInv
  <2> QED BY <1>3, <2>1 DEF DeletePath, Removed
<1>4. ASSUME NEW d \in Paths, DeleteFails(d) PROVE WantedInv'
  BY <1>4 DEF DeleteFails
<1> QED BY <1>1, <1>2, <1>3, <1>4 DEF DeleteListed

LEMMA WantedNext ==
  TypeOK /\ ResultInv /\ StageInv /\ WantedInv /\ [Next]_vars => WantedInv'
<1> SUFFICES ASSUME TypeOK, ResultInv, StageInv, WantedInv, [Next]_vars PROVE WantedInv'
  OBVIOUS
<1> USE FaultsAssumption, WantedIsStable
    DEF TypeOK, WantedInv, InstalledAsWanted, ReportsSuccess, faulty, given, files, history,
        Return, Throw, Fault, NoFault
<1>1. CASE UNCHANGED vars
  BY <1>1 DEF vars
<1>2. CASE InvokeSetupAsync \/ NextRun \/ Killed
  BY <1>2 DEF InvokeSetupAsync, NextRun, Killed, NewProcess
<1>3. CASE TerminatesProcess \/ Launch \/ SetupExits \/ WaitCancelled
  BY <1>3 DEF TerminatesProcess, Launch, LaunchDocument, LaunchProgram, Launched, SetupExits,
              WaitCancelled, ResultInv
<1>4. CASE OpenPayload
  <2>1. UNCHANGED <<release, before, installed, faults, faultsBefore, staged, result>>
    BY <1>4 DEF OpenPayload
  <2>2. pc' = "launch" \/ (pc' = "extract" /\ todo' = release.entries)
    BY <1>4 DEF OpenPayload
  <2> QED BY <2>1, <2>2
<1>5. CASE Classify
  <2>1. UNCHANGED <<release, before, installed, faults, faultsBefore, staged>>
    BY <1>5 DEF Classify
  <2>2. pc = "classify" /\ pc' = "idle"
    BY <1>5 DEF Classify
  <2> QED BY <2>1, <2>2 DEF Plain
<1>6. ASSUME NEW p \in Paths, ExtractEntry(p) PROVE WantedInv'
  <2>1. /\ UNCHANGED <<release, before, installed, faults, faultsBefore, result, pc>>
        /\ pc = "extract" /\ todo' = todo \ {p}
        /\ staged' = [q \in Paths |-> IF Within(p, q) THEN "new" ELSE staged[q]]
    BY <1>6 DEF ExtractEntry
  <2>2. staged'[p] = "new" /\ (p \in Inside => staged'[Folder] = "new")
    BY <2>1, PathsFacts DEF Within
  <2>3. \A q \in Paths : staged[q] = "new" => staged'[q] = "new"
    BY <2>1
  <2>4. release.entries \subseteq Paths
    BY ReleaseFacts
  <2> QED BY <2>1, <2>2, <2>3, <2>4, PathsFacts
<1>7. ASSUME NEW p \in Paths, ReadFails(p) \/ WriteFails(p) \/ CreateFails(p) \/ EntryFails(p)
      PROVE  WantedInv'
  BY <1>7 DEF ReadFails, WriteFails, CreateFails, EntryFails
<1> QED BY <1>1, <1>2, <1>3, <1>4, <1>5, <1>6, <1>7, WantedCopy, WantedDelete
        DEF Next, ExecuteSetup, ExtractReleaseZip

\* A successful update from an archive leaves what was wanted, whatever
\* earlier attempts left behind.
THEOREM InstalledIsWanted == Spec => []InstalledAsWanted
<1>1. WantedInv => InstalledAsWanted
  BY DEF WantedInv
<1> QED BY <1>1, TypeInit, TypeNext, ResultInit, ResultNext, StageInit, StageNext,
           WantedInit, WantedNext, PTL DEF Spec
=============================================================================
