--------------------------- MODULE SetupExecution ---------------------------
(***************************************************************************)
(* The setup task: ExecuteSetup terminates the process it was told to,     *)
(* starts the payload and judges its exit code, or, if the payload is an   *)
(* archive, extracts it beside the temporary file and copies it from there *)
(* over the installation, entry by entry.  The task is invoked again and   *)
(* again: by the back button, or by a later run of the updater after one   *)
(* that was killed, which has a new temporary file.                        *)
(*                                                                         *)
(* A file is absent, old, new, or torn (cut off in the middle).  The       *)
(* installation has one folder.  The order of the entries of an archive is *)
(* any order that has the folder first.  Nothing in the code ever requests *)
(* a stop from the stop source, so CancellableWait is cancelled only by a  *)
(* handle it cannot wait for.                                              *)
(*                                                                         *)
(* Left out: times of files other than by the failure to set them, the     *)
(* window handle, arguments, elevation.                                    *)
(***************************************************************************)
EXTENDS Integers, FiniteSets

CONSTANTS
  Files,                  \* plain files of archive and installation
  Folder,                 \* the folder of the installation
  Inside,                 \* the files that belong in it
  Releases,               \* what manifest and archive may be
  NV_S_CLOSED_WHILE_UPDATER_RUNNING,
  none,                   \* no exit code, no override
  MaxFaults               \* bound: operations that fail

Paths == Files \cup {Folder}
Dispositions == {"CreateIfAbsent", "CreateOrReplace", "DeleteIfPresent"}
Payloads == {"archive", "program", "document"}

\* Within(p, q): p is q or lies in it.
Within(p, q) == p = q \/ (q = Folder /\ p \in Inside)

ASSUME PathsAssumption == Inside \subseteq Files /\ Folder \notin Files
ASSUME ReleasesAssumption ==
  \A r \in Releases :
    /\ r.payload \in Payloads
    /\ r.entries \subseteq Paths          \* of the archive
    /\ r.damaged \subseteq r.entries      \* entries whose data end too early
    /\ r.default \in Dispositions
    /\ DOMAIN r.overrides \subseteq Paths
    /\ \A p \in DOMAIN r.overrides : r.overrides[p] \in Dispositions
    /\ r.slashes \in {"\\", "/"}          \* how the overrides spell a path
    /\ r.skipCheck \in BOOLEAN
    /\ r.successCodes \subseteq Int
ASSUME CodeAssumption == NV_S_CLOSED_WHILE_UPDATER_RUNNING \in Int \ {0} /\ none \notin Int
ASSUME FaultsAssumption == MaxFaults \in Nat

VARIABLES
  release,
  processToTerminate,     \* --terminate-process-before-update
  overrideSuccessCode,    \* --override-success-code
  pc, todo,               \* where ExecuteSetup is, and the entries it still has to do
  exitCode, result,
  staged,                 \* the directory of the extraction
  installed,              \* the directory of the product
  faults,                 \* operations that failed
  before,                 \* history: the installation when this attempt began
  faultsBefore,           \* history: of which so many before this attempt
  exited                  \* history: what the setup exited with

given == <<release, overrideSuccessCode>>
files == <<staged, installed>>
history == <<before, faultsBefore, exited>>
vars == <<given, processToTerminate, pc, todo, exitCode, result, files, faults, history>>

NV_SUCCESS_EXIT_CODE == 0

GetSuccessExitCode(code) == IF overrideSuccessCode = none THEN code ELSE overrideSuccessCode

\* A mutated form of Disposition: the overrides are not looked at in walk 1.
DefaultOnly(p) == release.default

\* The key of walk 1 is the path as Windows spells it, so that an override
\* spelled otherwise is found for what lies at the top only.
Overridden(p) == p \in DOMAIN release.overrides /\ (p \in Inside => release.slashes = "\\")
Disposition(p) == IF Overridden(p) THEN release.overrides[p] ELSE release.default

\* Walk 2 takes the overrides as they are; any spelling opens the file.
Deletions == {p \in DOMAIN release.overrides : release.overrides[p] = "DeleteIfPresent"}

Init ==
  /\ release \in Releases
  /\ processToTerminate \in {"none", "alive"}
  /\ overrideSuccessCode \in {none, 0}
  /\ pc = "idle" /\ todo = {}
  /\ exitCode = 0 /\ result = "none"
  /\ staged = [p \in Paths |-> "absent"]
  /\ installed \in {i \in [Paths -> {"absent", "old"}] :
                      (\E p \in Inside : i[p] = "old") => i[Folder] = "old"}
  /\ before = installed /\ exited = none
  /\ faults = 0 /\ faultsBefore = 0

Fault == faults < MaxFaults /\ faults' = faults + 1
NoFault == UNCHANGED faults
faulty == faults # faultsBefore

Return(r) == pc' = "idle" /\ result' = r /\ todo' = {}
Throw == Return("exception")

-----------------------------------------------------------------------------
(* Mutated forms of definitions below, for checking that the properties can *)
(* fail; no specification uses them.                                       *)

\* copy_options::overwrite_existing in both cases.
WrittenAlways(p) == staged[p]

\* The archive is extracted over the product.
ExtractInPlace(p) ==
  /\ pc = "extract" /\ p \in todo \ (release.damaged \cap Files)
  /\ staged' = [q \in Paths |-> IF Within(p, q) THEN "new" ELSE staged[q]]
  /\ installed' = [q \in Paths |-> IF Within(p, q) THEN "new" ELSE installed[q]]
  /\ todo' = todo \ {p} /\ NoFault
  /\ UNCHANGED <<given, processToTerminate, pc, exitCode, result, history>>

\* A read of no bytes is not an error.
ReadOn(p) ==
  /\ pc = "extract" /\ p \in todo \cap release.damaged /\ p \in Files
  /\ staged' = [q \in Paths |-> IF q = p THEN "torn"
                                ELSE IF Within(p, q) THEN "new" ELSE staged[q]]
  /\ NoFault
  /\ UNCHANGED <<given, processToTerminate, pc, todo, exitCode, result, installed, history>>

\* A wait that fails leaves the exit code as it was.
WaitCancelledUnnoticed ==
  /\ pc = "running" /\ release.payload = "document"
  /\ pc' = "classify"
  /\ UNCHANGED <<given, processToTerminate, todo, exitCode, result, files, faults, history>>

-----------------------------------------------------------------------------
(* Invocation. *)

\* PrepareInstall of the wizard, also after the back button.
InvokeSetupAsync ==
  /\ pc = "idle" /\ result \in {"none", "error", "failed"}
  /\ pc' = "terminate" /\ result' = "none" /\ exitCode' = 0
  /\ before' = installed /\ exited' = none /\ faultsBefore' = faults
  /\ UNCHANGED <<given, processToTerminate, todo, files, faults>>

NewProcess ==
  /\ pc' = "idle" /\ result' = "none" /\ todo' = {}
  /\ staged' = [p \in Paths |-> "absent"]
  /\ processToTerminate' \in {"none", "alive"}
  /\ UNCHANGED <<given, exitCode, history>>

\* A later run of the updater after an attempt that came to nothing.
NextRun ==
  /\ pc = "idle" /\ result \in {"error", "exception", "failed"}
  /\ NewProcess
  /\ UNCHANGED <<installed, faults>>

\* The process is killed in the middle of a copy, or anywhere else.
Killed ==
  /\ pc # "idle" /\ faults < MaxFaults /\ faults' = faults + 1
  /\ NewProcess
  /\ \/ UNCHANGED installed
     \/ \E p \in todo \cap Files :
          /\ pc = "create" /\ Disposition(p) # "DeleteIfPresent"
          /\ Disposition(p) = "CreateIfAbsent" => installed[p] = "absent"
          /\ p \in Inside => Folder \notin todo
          /\ installed' = [installed EXCEPT ![p] = "torn"]

\* TerminateProcess on a process that has ended fails.
TerminatesProcess ==
  /\ pc = "terminate"
  /\ \/ /\ processToTerminate = "none" /\ pc' = "open" /\ NoFault
        /\ UNCHANGED <<processToTerminate, result, todo>>
     \/ /\ processToTerminate = "alive" /\ pc' = "open" /\ NoFault
        /\ processToTerminate' = "gone" /\ UNCHANGED <<result, todo>>
     \/ /\ processToTerminate = "alive" /\ Fault /\ Return("error")
        /\ UNCHANGED processToTerminate
     \/ /\ processToTerminate = "gone" /\ NoFault /\ Return("error")
        /\ UNCHANGED processToTerminate
  /\ UNCHANGED <<given, exitCode, files, history>>

\* GetBinaryType, then zip_open.
OpenPayload ==
  /\ pc = "open"
  /\ IF release.payload = "archive"
     THEN pc' = "extract" /\ todo' = release.entries
     ELSE pc' = "launch" /\ UNCHANGED todo
  /\ UNCHANGED <<given, processToTerminate, exitCode, result, files, faults, history>>

-----------------------------------------------------------------------------
(* A payload that is launched. *)

\* The process that is waited for, or the reason why there is none.
Launched ==
  /\ \/ pc' = "running" /\ NoFault /\ UNCHANGED <<result, todo>>
     \/ Fault /\ Return("error")
  /\ UNCHANGED <<given, processToTerminate, exitCode, files, history>>

\* ShellExecuteEx: what Windows does with a document.
LaunchDocument == pc = "launch" /\ release.payload = "document" /\ Launched

\* ShellExecuteEx with elevation, or CreateProcess.
LaunchProgram == pc = "launch" /\ release.payload = "program" /\ Launched

Launch == LaunchDocument \/ LaunchProgram

SetupExits ==
  /\ pc = "running"
  /\ \E code \in {0, 1} \cup release.successCodes : exitCode' = code /\ exited' = code
  /\ pc' = "classify"
  /\ UNCHANGED <<given, processToTerminate, todo, result, files, faults, before, faultsBefore>>

\* The shell may open a document without a process to wait for; the wait
\* then fails at once, which is taken for a cancellation.
WaitCancelled ==
  /\ pc = "running" /\ release.payload = "document"
  /\ exitCode' = GetSuccessExitCode(NV_S_CLOSED_WHILE_UPDATER_RUNNING)
  /\ pc' = "classify"
  /\ UNCHANGED <<given, processToTerminate, todo, result, files, faults, history>>

\* The exit code against the settings; an archive is a success by now.
Classify ==
  /\ pc = "classify"
  /\ Return(IF \/ release.payload = "archive"
               \/ release.skipCheck
               \/ exitCode \in release.successCodes
               \/ exitCode = NV_SUCCESS_EXIT_CODE
            THEN "succeeded" ELSE "failed")
  /\ UNCHANGED <<given, processToTerminate, exitCode, files, faults, history>>

-----------------------------------------------------------------------------
(* ExtractReleaseZip. *)

\* An entry with all it needs, a file or the folder.
ExtractEntry(p) ==
  /\ pc = "extract" /\ p \in todo \ (release.damaged \cap Files)
  /\ staged' = [q \in Paths |-> IF Within(p, q) THEN "new" ELSE staged[q]]
  /\ todo' = todo \ {p} /\ NoFault
  /\ UNCHANGED <<given, processToTerminate, pc, exitCode, result, installed, history>>

\* zip_fread has nothing more before the size is reached.
ReadFails(p) ==
  /\ pc = "extract" /\ p \in todo \cap release.damaged /\ p \in Files
  /\ staged' = [q \in Paths |-> IF q = p THEN "torn"
                                ELSE IF Within(p, q) THEN "new" ELSE staged[q]]
  /\ Return("error") /\ NoFault
  /\ UNCHANGED <<given, processToTerminate, exitCode, installed, history>>

\* The stream has no exceptions: a write that fails is not noticed.
WriteFails(p) ==
  /\ pc = "extract" /\ p \in (todo \cap Files) \ release.damaged
  /\ staged' = [q \in Paths |-> IF q = p THEN "torn"
                                ELSE IF Within(p, q) THEN "new" ELSE staged[q]]
  /\ todo' = todo \ {p} /\ Fault
  /\ UNCHANGED <<given, processToTerminate, pc, exitCode, result, installed, history>>

\* Nor is a file that cannot be opened, if one from an attempt before is
\* there; if none is, setting its time throws.
CreateFails(p) ==
  /\ pc = "extract" /\ p \in (todo \cap Files) \ release.damaged
  /\ IF staged[p] = "absent" THEN Throw
                             ELSE todo' = todo \ {p} /\ UNCHANGED <<pc, result>>
  /\ Fault
  /\ UNCHANGED <<given, processToTerminate, exitCode, files, history>>

\* The entry cannot be opened, leaves the directory, or has no place to go;
\* or its time cannot be set, outside of the try block.
EntryFails(p) ==
  /\ pc = "extract" /\ p \in todo
  /\ Fault
  /\ \/ Return("error") /\ UNCHANGED staged
     \/ Throw /\ staged' = [q \in Paths |-> IF Within(p, q) THEN "new" ELSE staged[q]]
  /\ UNCHANGED <<given, processToTerminate, exitCode, installed, history>>

-----------------------------------------------------------------------------
(* Walk 1: create or replace. *)

\* Without a single file there is no directory, and canonical throws.
StartCreating ==
  /\ pc = "extract" /\ todo = {}
  /\ LET extracted == {p \in Paths : staged[p] # "absent"}
     IN IF extracted = {} THEN Throw
        ELSE pc' = "create" /\ todo' = extracted /\ UNCHANGED result
  /\ NoFault
  /\ UNCHANGED <<given, processToTerminate, exitCode, files, history>>

\* What copy_file leaves of p.
Written(p) ==
  IF Disposition(p) = "CreateIfAbsent" /\ installed[p] # "absent"
  THEN installed[p] ELSE staged[p]

NextToCreate(p) ==
  pc = "create" /\ p \in todo /\ (p \in Inside => Folder \notin todo)

CreateFolder ==
  /\ NextToCreate(Folder)
  /\ installed' = IF installed[Folder] = "absent"
                  THEN [installed EXCEPT ![Folder] = "new"] ELSE installed
  /\ todo' = todo \ {Folder} /\ NoFault
  /\ UNCHANGED <<given, processToTerminate, pc, exitCode, result, staged, history>>

CopyFile(p) ==
  /\ NextToCreate(p) /\ p \in Files /\ Disposition(p) # "DeleteIfPresent"
  /\ installed' = [installed EXCEPT ![p] = Written(p)]
  /\ todo' = todo \ {p} /\ NoFault
  /\ UNCHANGED <<given, processToTerminate, pc, exitCode, result, staged, history>>

\* "Handled below", but the time of the file is set here, and setting it
\* throws if there is none.
LeaveForDeletion(p) ==
  /\ NextToCreate(p) /\ p \in Files /\ Disposition(p) = "DeleteIfPresent"
  /\ IF installed[p] = "absent" THEN Throw
                                ELSE todo' = todo \ {p} /\ UNCHANGED <<pc, result>>
  /\ NoFault
  /\ UNCHANGED <<given, processToTerminate, exitCode, files, history>>

\* A locked file, a full disk, a time that cannot be set; and an entry that
\* a link leads out of the installation, which is left out.
CopyFails(p) ==
  /\ NextToCreate(p) /\ Fault
  /\ \/ Throw /\ UNCHANGED installed
     \/ Throw /\ p \in Files /\ Disposition(p) # "DeleteIfPresent"
              /\ \E left \in {"absent", "torn", Written(p)} :
                   /\ Written(p) # installed[p]
                   /\ installed' = [installed EXCEPT ![p] = left]
     \/ p # Folder /\ todo' = todo \ {p} /\ UNCHANGED <<pc, result, installed>>
  /\ UNCHANGED <<given, processToTerminate, exitCode, staged, history>>

-----------------------------------------------------------------------------
(* Walk 2: deletions. *)

StartDeleting ==
  /\ pc = "create" /\ todo = {}
  /\ pc' = "delete" /\ todo' = Deletions
  /\ UNCHANGED <<given, processToTerminate, exitCode, result, files, faults, history>>

\* remove_all.
Removed(p) == {q \in Paths : Within(q, p)}

DeletePath(p) ==
  /\ pc = "delete" /\ p \in todo
  /\ installed' = [q \in Paths |-> IF q \in Removed(p) THEN "absent" ELSE installed[q]]
  /\ todo' = todo \ {p} /\ NoFault
  /\ UNCHANGED <<given, processToTerminate, pc, exitCode, result, staged, history>>

\* A locked file, with what lies beside it gone or not; or a link that leads
\* out of the installation.
DeleteFails(p) ==
  /\ pc = "delete" /\ p \in todo /\ installed[p] # "absent" /\ Fault
  /\ \/ Throw /\ \E gone \in SUBSET (Removed(p) \ {p}) :
                   installed' = [q \in Paths |-> IF q \in gone THEN "absent" ELSE installed[q]]
     \/ todo' = todo \ {p} /\ UNCHANGED <<pc, result, installed>>
  /\ UNCHANGED <<given, processToTerminate, exitCode, staged, history>>

EndDeleting ==
  /\ pc = "delete" /\ todo = {}
  /\ pc' = "classify"
  /\ UNCHANGED <<given, processToTerminate, todo, exitCode, result, files, faults, history>>

-----------------------------------------------------------------------------
ExtractReleaseZip ==
  \E p \in Paths : \/ ExtractEntry(p) \/ ReadFails(p) \/ WriteFails(p)
                   \/ CreateFails(p) \/ EntryFails(p)

CopyExtracted ==
  \/ StartCreating \/ CreateFolder
  \/ \E p \in Paths : CopyFile(p) \/ LeaveForDeletion(p) \/ CopyFails(p)

DeleteListed ==
  \/ StartDeleting \/ EndDeleting
  \/ \E p \in Paths : DeletePath(p) \/ DeleteFails(p)

ExecuteSetup ==
  \/ TerminatesProcess \/ OpenPayload \/ Launch \/ Classify
  \/ ExtractReleaseZip \/ CopyExtracted \/ DeleteListed

Next ==
  \/ InvokeSetupAsync \/ NextRun \/ Killed
  \/ ExecuteSetup \/ SetupExits \/ WaitCancelled

\* The task has a thread of its own; a setup need never exit, nor is a
\* failed one tried again.
Spec == Init /\ [][Next]_vars /\ WF_vars(ExecuteSetup)

-----------------------------------------------------------------------------
(* Properties. *)

\* Types of the variables.
TypeOK ==
  /\ release \in Releases
  /\ processToTerminate \in {"none", "alive", "gone"}
  /\ overrideSuccessCode \in Int \cup {none}
  /\ pc \in {"idle", "terminate", "open", "launch", "running", "extract", "create",
             "delete", "classify"}
  /\ todo \subseteq Paths
  /\ exitCode \in Int
  /\ result \in {"none", "error", "exception", "failed", "succeeded"}
  /\ staged \in [Paths -> {"absent", "torn", "new"}]
  /\ installed \in [Paths -> {"absent", "old", "torn", "new"}]
  /\ before \in [Paths -> {"absent", "old", "torn", "new"}]
  /\ exited \in Int \cup {none}
  /\ faults \in 0..MaxFaults /\ faultsBefore \in 0..MaxFaults

\* "Extract the entire zip to a temporary location first, so we don't break
\* the current install if extraction fails": whatever error the task returns,
\* the installation is as it was when the task began.
ErrorLeavesInstallation == (pc = "idle" /\ result = "error") => installed = before

\* What the release says of p, and what that makes of the installation that
\* was there.
Listed(p) == IF p \in DOMAIN release.overrides THEN release.overrides[p] ELSE release.default
InArchive(p) ==
  p \in release.entries \/ (p = Folder /\ release.entries \cap Inside # {})
DeletedByRelease(p) ==
  \/ \E q \in Deletions : Within(p, q)
  \/ p # Folder /\ InArchive(p) /\ Listed(p) = "DeleteIfPresent"
KeptByRelease(p) ==
  \/ ~InArchive(p)
  \/ (p = Folder \/ Listed(p) = "CreateIfAbsent") /\ before[p] # "absent"
Wanted(p) ==
  IF DeletedByRelease(p) THEN "absent" ELSE IF KeptByRelease(p) THEN before[p] ELSE "new"
ReportsSuccess == pc = "idle" /\ result = "succeeded"

\* An update from an archive that reports success has installed exactly what
\* was wanted, also over the remains of an attempt that failed half-way or
\* was killed: nothing is torn that the update replaces, nothing is missing.
\* DispositionsHonoured says what this leaves out.
InstalledAsWanted ==
  (/\ ReportsSuccess /\ release.payload = "archive" /\ ~faulty
   /\ release.slashes = "\\" /\ release.default # "DeleteIfPresent") =>
    \A p \in Paths : installed[p] = Wanted(p)

\* A file of the user: neither the archive has it nor the release lists it for
\* deletion, or the release lists it as one that is only to be created if absent,
\* and it is there.
UsersFile(p) ==
  /\ ~\E q \in Deletions : Within(p, q)
  /\ p \in release.entries => Listed(p) = "CreateIfAbsent" /\ installed[p] = "old"

\* An override that the lookup of walk 1 misses: of a file below the top, spelled
\* with forward slashes.
Missed(p) == p \in DOMAIN release.overrides \cap Inside /\ release.slashes = "/"

\* Whatever fails, and through any number of attempts, the files of the user are
\* left alone; but for those whose override is missed, which the default of the
\* release may have replaced (ListedFilesKept).
UserFilesSurvive ==
  [][\A p \in Files : UsersFile(p) /\ ~Missed(p) => installed'[p] = installed[p]]_vars

\* The success of a payload that was launched is that of its own exit code;
\* a wait without an exit code counts only by the codes that were set.
SuccessIsTheSetups ==
  (ReportsSuccess /\ release.payload # "archive" /\ ~release.skipCheck) =>
    (IF exited # none THEN exited
     ELSE GetSuccessExitCode(NV_S_CLOSED_WHILE_UPDATER_RUNNING))
       \in {NV_SUCCESS_EXIT_CODE} \cup release.successCodes

\* Every attempt comes to a result or to a setup that runs, whatever the
\* archive is like.
AttemptEnds == pc = "terminate" ~> pc \in {"idle", "running"}

\* UpdateRelease.cs of zipExtractDefaultFileDisposition: "Specifies how to
\* handle files in a zip update", and of the overrides: "Overrides the
\* behavior for specific files in a zip update", of which DeleteIfPresent is
\* to "Delete the local file, if found."
DispositionsHonoured ==
  (ReportsSuccess /\ release.payload = "archive" /\ ~faulty) =>
    \A p \in Paths : installed[p] = Wanted(p)

\* CommonTypes.cs of CreateIfAbsent: "Create the extracted file if it doesn't
\* already exist locally"; and UpdateRelease.cs of the overrides: "Trumps
\* ZipExtractDefaultFileDisposition if set".  However a path is spelled, a file of
\* the user that is listed so is kept.
ListedFilesKept ==
  [][\A p \in Files : UsersFile(p) => installed'[p] = installed[p]]_vars

\* The comment in ExecuteSetup, "so we don't break the current install if
\* extraction fails": nothing is installed of an archive before every entry
\* of it is extracted whole.
WholeBeforeInstalled ==
  pc = "create" => \A p \in release.entries : staged[p] = "new"
=============================================================================
