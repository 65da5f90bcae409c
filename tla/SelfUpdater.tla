----------------------------- MODULE SelfUpdater -----------------------------
(***************************************************************************)
(* The self-updater: PerformUpdate of dll.cpp, run by rundll32 from a      *)
(* stream of the updater's executable, which replaces that executable.     *)
(*                                                                         *)
(* Nothing keeps two of them from running over one directory: every start  *)
(* of an old updater that sees a newer one launches an instance.  Updaters *)
(* is the set of instances; each has a backup and a download of a random   *)
(* name of its own, the executable's name is shared.  A file is abstracted *)
(* to what it holds: the executable that was installed ("old"), the one    *)
(* the manifest announces ("new"), another one with a valid signature      *)
(* ("foreign"), anything without ("bad"), or a half-written copy ("torn"). *)
(*                                                                         *)
(* Every file operation may fail; an instance, or all of them with the     *)
(* machine, may stop at any step.  Windows lets nobody rename or overwrite *)
(* a file that CopyFile is writing.                                        *)
(*                                                                         *)
(* Left out: message boxes, attributes of files, deletions scheduled for   *)
(* the next boot (of files that are no longer needed), and the processing  *)
(* of --install by the process spawned at the end.                         *)
(***************************************************************************)
EXTENDS Integers

CONSTANTS
  Updaters,               \* instances of the self-updater
  MAX_POLLS               \* "retries" before the wait for the parent is given up

ASSUME PollsAssumption == MAX_POLLS \in Nat \ {0}

VARIABLES
  check,                  \* --checksum: none, of a known or of an unknown algorithm
  target,                 \* the executable: what --path names
  backup,                 \* of each instance: the .bak file
  download,               \* of each instance: the .tmp file
  parent,                 \* of each instance: the process --pid names
  retries,                \* of each instance: what is left of MAX_POLLS
  pc                      \* of each instance: where it is

vars == <<check, target, backup, download, parent, retries, pc>>

Contents == {"old", "new", "foreign", "bad", "torn"}

\* What the verification of a download lets pass.
Acceptable == IF check = "none" THEN {"new", "foreign"} ELSE {"new"}

\* A complete executable: the one before, or one that was verified.
Good == {"old"} \cup Acceptable

Running == {"wait", "move", "download", "verify", "swap", "deleteBackup", "spawn",
            "restore", "restoreCopy", "copying", "restoreDelete"}
Ends == {"ended", "unrestored", "crashed"}

Init ==
  /\ check \in {"none", "known", "unknown"}
  /\ target = "old"
  /\ backup = [u \in Updaters |-> "absent"]
  /\ download = [u \in Updaters |-> "absent"]
  /\ parent = [u \in Updaters |-> "running"]
  /\ retries = [u \in Updaters |-> MAX_POLLS]
  /\ pc = [u \in Updaters |-> "notStarted"]

Goto(u, step) == pc' = [pc EXCEPT ![u] = step]

\* CopyFile is writing the executable.
TargetLocked == \E u \in Updaters : pc[u] = "copying"

-----------------------------------------------------------------------------
(* Mutated forms of definitions below, for checking that the properties can *)
(* fail; no specification uses them.                                       *)

\* The wait for the parent has no bound.
PollForever(u) ==
  /\ pc[u] = "wait"
  /\ Goto(u, IF parent[u] = "gone" THEN "move" ELSE "wait")
  /\ UNCHANGED <<check, target, backup, download, parent, retries>>

\* An algorithm that is not known is skipped.
UnknownAlgorithmPasses(u) ==
  /\ check # "known" \/ download[u] = "new"
  /\ download[u] # "bad"

\* The executable is not restored when the swap fails.
SwapFailsUnnoticed(u) ==
  /\ pc[u] = "swap"
  /\ Goto(u, "ended")
  /\ UNCHANGED <<check, target, backup, download, parent, retries>>

\* The backup is deleted although it could not be copied back.
RestoreFailsUnnoticed(u) ==
  /\ \/ pc[u] = "restoreCopy" /\ UNCHANGED target
     \/ pc[u] = "copying" /\ target' \in {"torn", "absent"}
  /\ Goto(u, "restoreDelete")
  /\ UNCHANGED <<check, backup, download, parent, retries>>

-----------------------------------------------------------------------------
\* RunSelfUpdater of an updater that sees a newer one: rundll32 loads the
\* library from the executable itself.
Start(u) ==
  /\ pc[u] = "notStarted"
  /\ target \in {"old", "foreign"}
  /\ Goto(u, "wait")
  /\ UNCHANGED <<check, target, backup, download, parent, retries>>

\* The parent ends.  A process that ended with another code than success or
\* NV_S_SELF_UPDATER is still waited for while someone holds a handle to it.
ParentEnds(u) ==
  /\ pc[u] # "notStarted" /\ parent[u] = "running"
  /\ \E p \in {"gone", "lingering"} : parent' = [parent EXCEPT ![u] = p]
  /\ UNCHANGED <<check, target, backup, download, retries, pc>>

PollParent(u) ==
  /\ pc[u] = "wait"
  /\ retries' = [retries EXCEPT ![u] = @ - 1]
  /\ Goto(u, IF retries[u] - 1 < 1 THEN "ended"
             ELSE IF parent[u] = "gone" THEN "move" ELSE "wait")
  /\ UNCHANGED <<check, target, backup, download, parent>>

\* The executable is moved to the backup.  A failure goes unnoticed.
MoveOriginal(u) ==
  /\ pc[u] = "move"
  /\ \/ target # "absent" /\ ~TargetLocked
        /\ backup' = [backup EXCEPT ![u] = target] /\ target' = "absent"
     \/ UNCHANGED <<backup, target>>
  /\ Goto(u, "download")
  /\ UNCHANGED <<check, download, parent, retries>>

\* The transfer ends without an error.  Neither the HTTP status nor a failed
\* write makes it one.
DownloadCompletes(u) ==
  /\ pc[u] = "download"
  /\ \E c \in {"new", "foreign", "bad"} : download' = [download EXCEPT ![u] = c]
  /\ Goto(u, "verify")
  /\ UNCHANGED <<check, target, backup, parent, retries>>

\* libcurl or the stream throws.
DownloadThrows(u) ==
  /\ pc[u] = "download"
  /\ \E c \in {"absent", "bad"} : download' = [download EXCEPT ![u] = c]
  /\ Goto(u, "restore")
  /\ UNCHANGED <<check, target, backup, parent, retries>>

\* What ComputeFileSHA256 and ComputeFileSHA1 may return.  A digest stands for
\* the content it belongs to; the file may not open or not be read to its end.
ComputeFileHash(u) == {download[u], "error"}

\* --checksum is the digest of the executable the manifest announces.
ChecksumMatches(u) ==
  check = "none" \/ (check = "known" /\ "new" \in ComputeFileHash(u))

\* What VerifyAuthenticode may return: a valid signature is refused as well
\* when nobody answers for the revocation of its chain.
VerifyAuthenticode(u) == IF download[u] = "bad" THEN {FALSE} ELSE BOOLEAN

\* The checksum, if one was passed, then the Authenticode signature.
Passes(u) == ChecksumMatches(u) /\ TRUE \in VerifyAuthenticode(u)

VerifyPasses(u) ==
  /\ pc[u] = "verify"
  /\ Passes(u)
  /\ Goto(u, "swap")
  /\ UNCHANGED <<check, target, backup, download, parent, retries>>

VerifyFails(u) ==
  /\ pc[u] = "verify"
  /\ check # "none" \/ FALSE \in VerifyAuthenticode(u)
  /\ Goto(u, "restore")
  /\ UNCHANGED <<check, target, backup, download, parent, retries>>

\* MoveFile does not replace an existing file.
Swap(u) ==
  /\ pc[u] = "swap"
  /\ target = "absent"
  /\ target' = download[u]
  /\ download' = [download EXCEPT ![u] = "absent"]
  /\ Goto(u, "deleteBackup")
  /\ UNCHANGED <<check, backup, parent, retries>>

SwapFails(u) ==
  /\ pc[u] = "swap"
  /\ Goto(u, "restore")
  /\ UNCHANGED <<check, target, backup, download, parent, retries>>

DeleteBackup(u) ==
  /\ pc[u] = "deleteBackup"
  /\ \E b \in {"absent", backup[u]} : backup' = [backup EXCEPT ![u] = b]
  /\ Goto(u, "spawn")
  /\ UNCHANGED <<check, target, download, parent, retries>>

\* The new executable is started with --install, or cannot be.
Spawn(u) ==
  /\ pc[u] = "spawn"
  /\ Goto(u, "ended")
  /\ UNCHANGED <<check, target, backup, download, parent, retries>>

-----------------------------------------------------------------------------
(* RestoreBackup.                                                          *)

RestoreDeletesDownload(u) ==
  /\ pc[u] = "restore"
  /\ \E d \in {"absent", download[u]} : download' = [download EXCEPT ![u] = d]
  /\ Goto(u, IF backup[u] = "absent" THEN "ended" ELSE "restoreCopy")
  /\ UNCHANGED <<check, target, backup, parent, retries>>

\* CopyFile overwrites the executable, whoever put it there.
RestoreStartsCopy(u) ==
  /\ pc[u] = "restoreCopy"
  /\ ~TargetLocked
  /\ target' = "torn"
  /\ Goto(u, "copying")
  /\ UNCHANGED <<check, backup, download, parent, retries>>

RestoreCompletesCopy(u) ==
  /\ pc[u] = "copying"
  /\ target' = backup[u]
  /\ Goto(u, "restoreDelete")
  /\ UNCHANGED <<check, backup, download, parent, retries>>

\* The copy cannot begin (the executable is in use) or breaks off: the backup
\* is kept, "it is the only good copy left".
RestoreFails(u) ==
  /\ \/ pc[u] = "restoreCopy" /\ UNCHANGED target
     \/ pc[u] = "copying" /\ target' \in {"torn", "absent"}
  /\ Goto(u, "unrestored")
  /\ UNCHANGED <<check, backup, download, parent, retries>>

\* Only after a confirmed copy.
RestoreDeletesBackup(u) ==
  /\ pc[u] = "restoreDelete"
  /\ \E b \in {"absent", backup[u]} : backup' = [backup EXCEPT ![u] = b]
  /\ Goto(u, "ended")
  /\ UNCHANGED <<check, target, download, parent, retries>>

-----------------------------------------------------------------------------
Crash(u) ==
  /\ pc[u] \in Running
  /\ Goto(u, "crashed")
  /\ UNCHANGED <<check, target, backup, download, parent, retries>>

\* The end of the transfer, which depends on the server: no timeout and no lowest
\* speed is set for it.
TransferEnds(u) == DownloadCompletes(u) \/ DownloadThrows(u)

\* What depends on this machine only.
LocalStep(u) ==
  \/ PollParent(u) \/ MoveOriginal(u)
  \/ VerifyPasses(u) \/ VerifyFails(u) \/ Swap(u) \/ SwapFails(u)
  \/ DeleteBackup(u) \/ Spawn(u)
  \/ RestoreDeletesDownload(u) \/ RestoreStartsCopy(u) \/ RestoreCompletesCopy(u)
  \/ RestoreFails(u) \/ RestoreDeletesBackup(u)

PerformUpdate(u) == TransferEnds(u) \/ LocalStep(u)

Next == \E u \in Updaters : Start(u) \/ ParentEnds(u) \/ PerformUpdate(u) \/ Crash(u)

\* Fairness: every instance is a process of its own.  The server need never end a
\* transfer.
Spec == Init /\ [][Next]_vars /\ \A u \in Updaters : WF_vars(LocalStep(u))

-----------------------------------------------------------------------------
TypeOK ==
  /\ check \in {"none", "known", "unknown"}
  /\ target \in Contents \cup {"absent"}
  /\ backup \in [Updaters -> Contents \cup {"absent"}]
  /\ download \in [Updaters -> Contents \cup {"absent"}]
  /\ parent \in [Updaters -> {"running", "gone", "lingering"}]
  /\ retries \in [Updaters -> 0 .. MAX_POLLS]
  /\ pc \in [Updaters -> Running \cup Ends \cup {"notStarted"}]

\* Whatever instances run side by side, fail or stop half-way, the executable's
\* name never stands for bytes that were not verified (step 4 of Layer 4:
\* "only on success"); it may stand for an unfinished copy.
OnlyVerifiedInPlace == target \in Good \cup {"absent", "torn"}

\* At every moment, a crash at that moment included, a complete executable is
\* left under the executable's name or in a backup: the comment "it is the
\* only good copy left" stays true of somebody's backup.
GoodCopyExists == target \in Good \/ \E u \in Updaters : backup[u] \in Good

\* If every instance came to its end and none of them crashed or reported that
\* it could not restore, the updater is there and complete, however the
\* instances failed and interfered.
RestoredWhenDone ==
  (\A u \in Updaters : pc[u] \in {"notStarted", "ended"}) => target \in Good

\* Every instance ends, or comes to the transfer, where a server that stalls may
\* hold it for good: the wait for the parent is bounded, and past the transfer,
\* whatever fails and whoever interferes, no step waits.
InstanceEnds ==
  \A u \in Updaters :
    (pc[u] \in Running \ {"download"}) ~> (pc[u] \in Ends \cup {"download"})
=============================================================================
