------------------------- MODULE SelfUpdaterProofs -------------------------
(***************************************************************************)
(* Theorems about the self-updater, for any number of instances and any    *)
(* number of polls: type correctness, no unverified bytes under the        *)
(* executable's name, a complete copy left at every moment, and the        *)
(* executable back in place when all instances have ended.                 *)
(*                                                                         *)
(* The last two are about instances that interfere.  Either the executable *)
(* is in place or somebody owes it: holds a complete backup and is on the  *)
(* way to put it, or a verified download, in place, or died on that way.   *)
(* The debt ends in two steps only (the swap and the restore), and each    *)
(* puts a complete executable in place.  What could break it is a torn     *)
(* executable that another instance takes for the original:                *)
(* TornInv says that wherever torn bytes are left lying, an instance that  *)
(* will never run again left a complete backup.                            *)
(***************************************************************************)
EXTENDS SelfUpdater, TLAPS

\* An instance that still polls has a poll left.
PollInv == \A u \in Updaters : pc[u] \in {"notStarted", "wait"} => retries[u] >= 1

Sound == Good \cup {"absent", "torn"}

\* Where unverified bytes may be.
CleanInv ==
  /\ target \in Sound
  /\ \A u \in Updaters :
       /\ backup[u] \in Sound
       /\ pc[u] = "verify" => download[u] \in {"new", "foreign", "bad"}
       /\ pc[u] = "swap" => download[u] \in Acceptable

\* Where an instance has a backup, and who writes the executable.
OwnInv ==
  /\ \A u \in Updaters :
       /\ pc[u] \in {"notStarted", "wait", "move"} => backup[u] = "absent"
       /\ pc[u] \in {"restoreCopy", "copying"} => backup[u] # "absent"
       /\ pc[u] = "copying" => target = "torn"
  /\ \A u, v \in Updaters : pc[u] = "copying" /\ pc[v] = "copying" => u = v

\* A complete backup of an instance that will never touch it again.
Kept(u) == backup[u] \in Good /\ pc[u] \in {"crashed", "unrestored"}

\* Torn bytes that nobody is completing imply a kept backup.
TornInv ==
  /\ \A u \in Updaters : backup[u] = "torn" => \E v \in Updaters : Kept(v)
  /\ (target = "torn" /\ ~TargetLocked) => \E v \in Updaters : Kept(v)

\* A complete backup, between the move of the original and the step that puts
\* an executable in place again; or of an owner that stopped on the way.
Owing == {"download", "verify", "swap", "restore", "restoreCopy", "copying",
          "crashed", "unrestored"}
Owes(u) == backup[u] \in Good /\ pc[u] \in Owing

\* Either the executable is complete, or somebody owes it.
CopyInv == target \in Good \/ \E u \in Updaters : Owes(u)

USE PollsAssumption DEF PollsAssumption

-----------------------------------------------------------------------------
(* Type correctness.                                                       *)

\* The states the program starts in satisfy the type invariant.
LEMMA TypeInit == Init => TypeOK /\ PollInv
  BY DEF Init, TypeOK, PollInv, Contents

\* Every step of every instance preserves the type invariant; PollInv keeps the
\* budget of the wait from going below zero.
LEMMA TypeStep == TypeOK /\ PollInv /\ [Next]_vars => TypeOK'
<1> SUFFICES ASSUME TypeOK, PollInv, [Next]_vars PROVE TypeOK'
  OBVIOUS
<1>1. CASE UNCHANGED vars
  BY <1>1 DEF vars, TypeOK
<1>2. ASSUME NEW u \in Updaters, Start(u) PROVE TypeOK'
  BY <1>2 DEF Start, Goto, TypeOK, Running
<1>3. ASSUME NEW u \in Updaters, ParentEnds(u) PROVE TypeOK'
  BY <1>3 DEF ParentEnds, TypeOK
<1>4. ASSUME NEW u \in Updaters, Crash(u) PROVE TypeOK'
  BY <1>4 DEF Crash, Goto, TypeOK, Ends
<1>5. ASSUME NEW u \in Updaters, PerformUpdate(u) PROVE TypeOK'
  <2>1. CASE PollParent(u)
    <3>1. retries[u] \in 1 .. MAX_POLLS
      BY <2>1 DEF PollParent, TypeOK, PollInv
    <3>2. retries' \in [Updaters -> 0 .. MAX_POLLS]
      BY <2>1, <3>1 DEF PollParent, TypeOK
    <3> QED
      BY <2>1, <3>2 DEF PollParent, Goto, TypeOK, Running, Ends
  <2>2. CASE MoveOriginal(u)
    BY <2>2 DEF MoveOriginal, Goto, TypeOK, Running
  <2>3. CASE DownloadCompletes(u) \/ DownloadThrows(u)
    BY <2>3 DEF DownloadCompletes, DownloadThrows, Goto, TypeOK, Running, Contents
  <2>4. CASE VerifyPasses(u) \/ VerifyFails(u) \/ SwapFails(u) \/ Spawn(u)
    BY <2>4 DEF VerifyPasses, VerifyFails, SwapFails, Spawn, Goto, TypeOK, Running, Ends
  <2>5. CASE Swap(u)
    BY <2>5 DEF Swap, Goto, TypeOK, Running
  <2>6. CASE DeleteBackup(u) \/ RestoreDeletesBackup(u)
    BY <2>6 DEF DeleteBackup, RestoreDeletesBackup, Goto, TypeOK, Running, Ends
  <2>7. CASE RestoreDeletesDownload(u)
    BY <2>7 DEF RestoreDeletesDownload, Goto, TypeOK, Running, Ends
  <2>8. CASE RestoreStartsCopy(u) \/ RestoreCompletesCopy(u) \/ RestoreFails(u)
    BY <2>8 DEF RestoreStartsCopy, RestoreCompletesCopy, RestoreFails, Goto, TypeOK,
                Running, Ends, Contents
  <2> QED
    BY <1>5, <2>1, <2>2, <2>3, <2>4, <2>5, <2>6, <2>7, <2>8
       DEF PerformUpdate, TransferEnds, LocalStep
<1> QED
  BY <1>1, <1>2, <1>3, <1>4, <1>5 DEF Next

\* Only the wait itself spends polls, and it ends with the last one.
LEMMA PollStep == TypeOK /\ PollInv /\ [Next]_vars => PollInv'
<1> SUFFICES ASSUME TypeOK, PollInv, [Next]_vars PROVE PollInv'
  OBVIOUS
<1>1. CASE UNCHANGED vars
  BY <1>1 DEF vars, PollInv
<1>2. ASSUME NEW u \in Updaters, PollParent(u) PROVE PollInv'
  <2>1. retries[u] \in 0 .. MAX_POLLS
    BY DEF TypeOK
  <2>2. \A v \in Updaters \ {u} : pc'[v] = pc[v] /\ retries'[v] = retries[v]
    BY <1>2 DEF PollParent, Goto, TypeOK
  <2>3. pc'[u] = "wait" => retries'[u] >= 1
    BY <1>2, <2>1 DEF PollParent, Goto, TypeOK
  <2>4. pc'[u] # "notStarted"
    BY <1>2 DEF PollParent, Goto, TypeOK
  <2> QED
    BY <2>2, <2>3, <2>4 DEF PollInv
<1>3. ASSUME NEW u \in Updaters, Start(u) \/ ParentEnds(u) \/ Crash(u) PROVE PollInv'
  BY <1>3 DEF Start, ParentEnds, Crash, Goto, TypeOK, PollInv
<1>4. ASSUME NEW u \in Updaters, PerformUpdate(u), ~PollParent(u) PROVE PollInv'
  <2>1. /\ retries' = retries
        /\ \A v \in Updaters : pc'[v] \in {"notStarted", "wait"} => pc'[v] = pc[v]
    BY <1>4
       DEF PerformUpdate, TransferEnds, LocalStep, Goto, TypeOK, MoveOriginal,
       DownloadCompletes, DownloadThrows,
       VerifyPasses, VerifyFails, Swap, SwapFails, DeleteBackup, Spawn,
       RestoreDeletesDownload, RestoreStartsCopy, RestoreCompletesCopy, RestoreFails,
       RestoreDeletesBackup
  <2> QED
    BY <2>1 DEF PollInv
<1> QED
  BY <1>1, <1>2, <1>3, <1>4 DEF Next

\* Type correctness: however many instances run, poll, fail and crash, every
\* variable keeps its type, and the wait's budget never goes below zero.
THEOREM SelfUpdaterTypeCorrect == Spec => []TypeOK
  BY TypeInit, TypeStep, PollStep, PTL DEF Spec

-----------------------------------------------------------------------------
(* No unverified bytes in place.                                           *)

\* Nothing is unverified before the first instance starts.
LEMMA CleanInit == Init => CleanInv
  BY DEF Init, CleanInv, Sound, Good

\* What the verification lets pass, of what a download can be.
LEMMA PassingIsAcceptable ==
  ASSUME NEW u \in Updaters, TypeOK, Passes(u),
         download[u] \in {"new", "foreign", "bad"}
  PROVE  download[u] \in Acceptable
  BY DEF Passes, ChecksumMatches, ComputeFileHash, VerifyAuthenticode, Acceptable, TypeOK

\* Only the verification lets bytes reach the swap, and only verified or old
\* bytes travel between the executable and the backups.
LEMMA CleanStep == TypeOK /\ CleanInv /\ [Next]_vars => CleanInv'
<1> SUFFICES ASSUME TypeOK, CleanInv, [Next]_vars PROVE CleanInv'
  OBVIOUS
<1>1. CASE UNCHANGED vars
  BY <1>1 DEF vars, CleanInv, Sound, Good, Acceptable
<1>2. ASSUME NEW u \in Updaters, Start(u) \/ ParentEnds(u) \/ Crash(u) PROVE CleanInv'
  BY <1>2 DEF Start, ParentEnds, Crash, Goto, TypeOK, CleanInv, Sound, Good, Acceptable
<1>3. ASSUME NEW u \in Updaters, PerformUpdate(u) PROVE CleanInv'
  <2> USE DEF Goto, TypeOK, CleanInv, Sound, Good, Acceptable
  <2>1. CASE PollParent(u)
    BY <2>1 DEF PollParent
  <2>2. CASE MoveOriginal(u)
    BY <2>2 DEF MoveOriginal
  <2>3. CASE DownloadCompletes(u) \/ DownloadThrows(u)
    BY <2>3 DEF DownloadCompletes, DownloadThrows
  <2>4. CASE VerifyPasses(u)
    <3>1. download[u] \in Acceptable
      BY <2>4, PassingIsAcceptable DEF VerifyPasses
    <3> QED
      BY <2>4, <3>1 DEF VerifyPasses
  <2>5. CASE VerifyFails(u) \/ SwapFails(u) \/ Spawn(u)
    BY <2>5 DEF VerifyFails, SwapFails, Spawn
  <2>6. CASE Swap(u)
    BY <2>6 DEF Swap
  <2>7. CASE DeleteBackup(u) \/ RestoreDeletesBackup(u)
    BY <2>7 DEF DeleteBackup, RestoreDeletesBackup
  <2>8. CASE RestoreDeletesDownload(u)
    BY <2>8 DEF RestoreDeletesDownload
  <2>9. CASE RestoreStartsCopy(u) \/ RestoreCompletesCopy(u) \/ RestoreFails(u)
    BY <2>9 DEF RestoreStartsCopy, RestoreCompletesCopy, RestoreFails
  <2> QED
    BY <1>3, <2>1, <2>2, <2>3, <2>4, <2>5, <2>6, <2>7, <2>8, <2>9
       DEF PerformUpdate, TransferEnds, LocalStep
<1> QED
  BY <1>1, <1>2, <1>3 DEF Next

\* For any number of instances, the executable's name never stands for bytes
\* that were not verified.
THEOREM UnverifiedNeverInPlace == Spec => []OnlyVerifiedInPlace
<1>1. CleanInv => OnlyVerifiedInPlace
  BY DEF CleanInv, OnlyVerifiedInPlace, Sound
<1> QED
  BY <1>1, TypeInit, TypeStep, PollStep, CleanInit, CleanStep, PTL DEF Spec

-----------------------------------------------------------------------------
(* A complete copy at every moment.                                        *)

\* Before the first instance starts, the executable itself is that copy.
LEMMA CopyInit == Init => OwnInv /\ TornInv /\ CopyInv
  BY DEF Init, OwnInv, TornInv, CopyInv, Good

\* Backups appear when the executable is moved and copies are made by one
\* instance at a time, since Windows locks the file that is written.
LEMMA OwnStep == TypeOK /\ OwnInv /\ [Next]_vars => OwnInv'
<1> SUFFICES ASSUME TypeOK, OwnInv, [Next]_vars PROVE OwnInv'
  OBVIOUS
<1>1. CASE UNCHANGED vars
  BY <1>1 DEF vars, OwnInv
<1>2. ASSUME NEW u \in Updaters, Start(u) \/ ParentEnds(u) \/ Crash(u) PROVE OwnInv'
  BY <1>2 DEF Start, ParentEnds, Crash, Goto, TypeOK, OwnInv
<1>3. ASSUME NEW u \in Updaters, PerformUpdate(u) PROVE OwnInv'
  <2> USE DEF Goto, TypeOK, OwnInv
  <2>1. CASE PollParent(u)
    BY <2>1 DEF PollParent
  <2>2. CASE MoveOriginal(u)
    BY <2>2 DEF MoveOriginal, TargetLocked
  <2>3. CASE DownloadCompletes(u) \/ DownloadThrows(u) \/ VerifyPasses(u) \/ VerifyFails(u)
    <3>1. CASE DownloadCompletes(u) \/ DownloadThrows(u)
      BY <3>1 DEF DownloadCompletes, DownloadThrows
    <3>2. CASE VerifyPasses(u)
      BY <3>2 DEF VerifyPasses
    <3>3. CASE VerifyFails(u)
      BY <3>3 DEF VerifyFails
    <3> QED
      BY <2>3, <3>1, <3>2, <3>3
  <2>4. CASE SwapFails(u) \/ Spawn(u)
    BY <2>4 DEF SwapFails, Spawn
  <2>5. CASE Swap(u)
    BY <2>5 DEF Swap
  <2>6. CASE DeleteBackup(u) \/ RestoreDeletesBackup(u)
    BY <2>6 DEF DeleteBackup, RestoreDeletesBackup
  <2>7. CASE RestoreDeletesDownload(u)
    BY <2>7 DEF RestoreDeletesDownload
  <2>8. CASE RestoreStartsCopy(u)
    BY <2>8 DEF RestoreStartsCopy, TargetLocked
  <2>9. CASE RestoreCompletesCopy(u)
    BY <2>9 DEF RestoreCompletesCopy
  <2>10. CASE RestoreFails(u)
    BY <2>10 DEF RestoreFails
  <2> QED
    BY <1>3, <2>1, <2>2, <2>3, <2>4, <2>5, <2>6, <2>7, <2>8, <2>9, <2>10
       DEF PerformUpdate, TransferEnds, LocalStep
<1> QED
  BY <1>1, <1>2, <1>3 DEF Next

\* An instance that crashed or gave up keeps its backup: no step of another one
\* touches it.
LEMMA KeptStep ==
  ASSUME TypeOK, [Next]_vars, NEW v \in Updaters, Kept(v)
  PROVE  Kept(v)'
<1>1. CASE UNCHANGED vars
  BY <1>1 DEF vars, Kept, Good, Acceptable
<1>2. ASSUME NEW u \in Updaters, Start(u) \/ ParentEnds(u) \/ Crash(u) PROVE Kept(v)'
  BY <1>2 DEF Start, ParentEnds, Crash, Goto, TypeOK, Kept, Good, Acceptable, Running
<1>3. ASSUME NEW u \in Updaters, PerformUpdate(u) PROVE Kept(v)'
  <2>1. check' = check /\ backup'[v] = backup[v] /\ pc'[v] = pc[v]
    BY <1>3
       DEF Kept, PerformUpdate, TransferEnds, LocalStep, Goto, TypeOK, PollParent, MoveOriginal,
       DownloadCompletes, DownloadThrows, VerifyPasses, VerifyFails, Swap, SwapFails,
       DeleteBackup, Spawn, RestoreDeletesDownload, RestoreStartsCopy,
       RestoreCompletesCopy, RestoreFails, RestoreDeletesBackup
  <2> QED
    BY <2>1 DEF Kept, Good, Acceptable
<1> QED
  BY <1>1, <1>2, <1>3 DEF Next

\* Torn bytes come from a copy that broke off or whose writer died, and that
\* instance leaves the backup it was copying.
LEMMA TornStep == TypeOK /\ CleanInv /\ OwnInv /\ TornInv /\ [Next]_vars => TornInv'
<1> SUFFICES ASSUME TypeOK, CleanInv, OwnInv, TornInv, [Next]_vars PROVE TornInv'
  OBVIOUS
<1>1. CASE \E v \in Updaters : Kept(v)
  <2>1. PICK v \in Updaters : Kept(v)
    BY <1>1
  <2> QED
    BY <2>1, KeptStep DEF TornInv
<1>2. CASE ~ \E v \in Updaters : Kept(v)
  <2>1. /\ \A u \in Updaters : backup[u] # "torn"
        /\ target = "torn" => TargetLocked
    BY <1>2 DEF TornInv
  \* The writer of a copy has a complete backup, for none is torn.
  <2>2. \A u \in Updaters : pc[u] = "copying" => backup[u] \in Good
    BY <2>1 DEF OwnInv, CleanInv, Sound
  <2>3. CASE UNCHANGED vars
    BY <2>1, <2>3 DEF vars, TornInv, TargetLocked
  <2>4. ASSUME NEW u \in Updaters, Start(u) \/ ParentEnds(u) PROVE TornInv'
    BY <2>1, <2>4 DEF Start, ParentEnds, Goto, TypeOK, TornInv, TargetLocked
  <2>5. ASSUME NEW u \in Updaters, Crash(u) PROVE TornInv'
    <3>1. CASE pc[u] = "copying"
      <4>1. Kept(u)'
        BY <2>2, <2>5, <3>1 DEF Crash, Goto, TypeOK, Kept, Good, Acceptable
      <4> QED
        BY <4>1 DEF TornInv
    <3>2. CASE pc[u] # "copying"
      BY <2>1, <2>5, <3>2 DEF Crash, Goto, TypeOK, TornInv, TargetLocked
    <3> QED
      BY <3>1, <3>2
  <2>6. ASSUME NEW u \in Updaters, RestoreFails(u) PROVE TornInv'
    <3>1. CASE pc[u] = "copying"
      <4>1. Kept(u)'
        BY <2>2, <2>6, <3>1 DEF RestoreFails, Goto, TypeOK, Kept, Good, Acceptable
      <4> QED
        BY <4>1 DEF TornInv
    <3>2. CASE pc[u] # "copying"
      BY <2>1, <2>6, <3>2 DEF RestoreFails, Goto, TypeOK, TornInv, TargetLocked
    <3> QED
      BY <3>1, <3>2
  <2>7. ASSUME NEW u \in Updaters, RestoreCompletesCopy(u) PROVE TornInv'
    BY <2>1, <2>7 DEF RestoreCompletesCopy, Goto, TypeOK, TornInv, TargetLocked
  <2>8. ASSUME NEW u \in Updaters, RestoreStartsCopy(u) PROVE TornInv'
    BY <2>1, <2>8 DEF RestoreStartsCopy, Goto, TypeOK, TornInv, TargetLocked
  <2>9. ASSUME NEW u \in Updaters, Swap(u) PROVE TornInv'
    <3>1. download[u] # "torn"
      BY <2>9 DEF Swap, CleanInv, Acceptable
    <3> QED
      BY <2>1, <2>9, <3>1 DEF Swap, Goto, TypeOK, TornInv
  <2>10. ASSUME NEW u \in Updaters, MoveOriginal(u) PROVE TornInv'
    BY <2>1, <2>10 DEF MoveOriginal, Goto, TypeOK, TornInv, TargetLocked
  <2>11. ASSUME NEW u \in Updaters, DeleteBackup(u) \/ RestoreDeletesBackup(u)
         PROVE TornInv'
    BY <2>1, <2>11 DEF DeleteBackup, RestoreDeletesBackup, Goto, TypeOK, TornInv, TargetLocked
  <2>12. ASSUME NEW u \in Updaters,
                \/ PollParent(u) \/ DownloadCompletes(u) \/ DownloadThrows(u)
                \/ VerifyPasses(u) \/ VerifyFails(u) \/ SwapFails(u) \/ Spawn(u)
                \/ RestoreDeletesDownload(u)
         PROVE TornInv'
    <3>1. /\ UNCHANGED <<target, backup>>
          /\ \A w \in Updaters : pc[w] = "copying" => pc'[w] = "copying"
      BY <2>12 DEF PollParent, DownloadCompletes, DownloadThrows, VerifyPasses, VerifyFails,
         SwapFails, Spawn, RestoreDeletesDownload, Goto, TypeOK
    <3> QED
      BY <2>1, <3>1 DEF TornInv, TargetLocked
  <2> QED
    BY <2>3, <2>4, <2>5, <2>6, <2>7, <2>8, <2>9, <2>10, <2>11, <2>12
       DEF Next, PerformUpdate, TransferEnds, LocalStep
<1> QED
  BY <1>1, <1>2

\* A complete copy survives every step: it is moved, copied, or left where it
\* is, and a debt ends only where an executable is put in place.
LEMMA CopyStep ==
  TypeOK /\ CleanInv /\ OwnInv /\ TornInv /\ CopyInv /\ [Next]_vars => CopyInv'
<1> SUFFICES ASSUME TypeOK, CleanInv, OwnInv, TornInv, CopyInv, [Next]_vars
             PROVE  CopyInv'
  OBVIOUS
<1>1. CASE \E v \in Updaters : Kept(v)
  <2>1. PICK v \in Updaters : Kept(v)
    BY <1>1
  <2> QED
    BY <2>1, KeptStep DEF CopyInv, Kept, Owes, Owing
<1>2. CASE ~ \E v \in Updaters : Kept(v)
  <2> USE DEF Owing
  <2>1. \A u \in Updaters : backup[u] \in Good \cup {"absent"}
    BY <1>2 DEF TornInv, CleanInv, Sound
  <2>2. CASE UNCHANGED vars
    BY <2>2 DEF vars, CopyInv, Owes, Good, Acceptable
  <2>3. ASSUME NEW u \in Updaters, Start(u) \/ ParentEnds(u) \/ Crash(u) PROVE CopyInv'
    <3>1. /\ UNCHANGED <<check, target, backup>>
          /\ \A w \in Updaters : pc[w] \in Owing => pc'[w] \in Owing
      BY <2>3 DEF Start, ParentEnds, Crash, Goto, TypeOK
    <3> QED
      BY <3>1 DEF CopyInv, Owes, Good, Acceptable
  \* The executable becomes the backup of the instance that moves it.
  <2>4. ASSUME NEW u \in Updaters, MoveOriginal(u) PROVE CopyInv'
    <3>1. CASE target \in Good
      BY <2>4, <3>1 DEF MoveOriginal, Goto, TypeOK, CopyInv, Owes, Good, Acceptable
    <3>2. CASE target \notin Good
      <4>1. PICK v \in Updaters : Owes(v)
        BY <3>2 DEF CopyInv
      <4>2. v # u
        BY <2>4, <4>1 DEF MoveOriginal, Owes
      <4> QED
        BY <2>4, <4>1, <4>2 DEF MoveOriginal, Goto, TypeOK, CopyInv, Owes, Good, Acceptable
    <3> QED
      BY <3>1, <3>2
  \* The executable is put in place before the backup loses its protection.
  <2>5. ASSUME NEW u \in Updaters, Swap(u) PROVE CopyInv'
    <3>1. target' \in Good'
      BY <2>5 DEF Swap, CleanInv, Good, Acceptable
    <3> QED
      BY <3>1 DEF CopyInv
  <2>6. ASSUME NEW u \in Updaters, RestoreCompletesCopy(u) PROVE CopyInv'
    <3>1. backup[u] \in Good
      BY <2>1, <2>6 DEF RestoreCompletesCopy, OwnInv
    <3>2. target' \in Good'
      BY <2>6, <3>1 DEF RestoreCompletesCopy, Good, Acceptable
    <3> QED
      BY <3>2 DEF CopyInv
  \* What overwrites the executable has a complete backup.
  <2>7. ASSUME NEW u \in Updaters, RestoreStartsCopy(u) \/ RestoreFails(u) PROVE CopyInv'
    <3>1. pc[u] \in {"restoreCopy", "copying"}
      BY <2>7 DEF RestoreStartsCopy, RestoreFails
    <3>2. backup[u] \in Good
      BY <2>1, <3>1 DEF OwnInv
    <3>3. Owes(u)'
      BY <2>7, <3>1, <3>2 DEF RestoreStartsCopy, RestoreFails, Goto, TypeOK, Owes, Good,
         Acceptable
    <3> QED
      BY <3>3 DEF CopyInv
  \* Who deletes a backup no longer owes.
  <2>8. ASSUME NEW u \in Updaters, DeleteBackup(u) \/ RestoreDeletesBackup(u) PROVE CopyInv'
    <3>1. ~Owes(u)
      BY <2>8 DEF DeleteBackup, RestoreDeletesBackup, Owes
    <3>2. \A v \in Updaters \ {u} : Owes(v) => Owes(v)'
      BY <2>8 DEF DeleteBackup, RestoreDeletesBackup, Goto, TypeOK, Owes, Good, Acceptable
    <3>3. target \in Good => target' \in Good'
      BY <2>8 DEF DeleteBackup, RestoreDeletesBackup, Good, Acceptable
    <3> QED
      BY <3>1, <3>2, <3>3 DEF CopyInv
  \* An instance ends without restoring only if it has no backup.
  <2>9. ASSUME NEW u \in Updaters, RestoreDeletesDownload(u) PROVE CopyInv'
    <3>1. UNCHANGED <<check, target, backup>>
      BY <2>9 DEF RestoreDeletesDownload
    <3>2. \A w \in Updaters : pc[w] \in Owing /\ backup[w] # "absent" => pc'[w] \in Owing
      BY <2>9 DEF RestoreDeletesDownload, Goto, TypeOK
    <3> QED
      BY <3>1, <3>2 DEF CopyInv, Owes, Good, Acceptable
  <2>10. ASSUME NEW u \in Updaters,
                \/ PollParent(u) \/ DownloadCompletes(u) \/ DownloadThrows(u)
                \/ VerifyPasses(u) \/ VerifyFails(u) \/ SwapFails(u) \/ Spawn(u)
         PROVE CopyInv'
    <3>1. /\ UNCHANGED <<check, target, backup>>
          /\ \A w \in Updaters : pc[w] \in Owing => pc'[w] \in Owing
      BY <2>10 DEF PollParent, DownloadCompletes, DownloadThrows, VerifyPasses, VerifyFails,
         SwapFails, Spawn, Goto, TypeOK
    <3> QED
      BY <3>1 DEF CopyInv, Owes, Good, Acceptable
  <2> QED
    BY <2>2, <2>3, <2>4, <2>5, <2>6, <2>7, <2>8, <2>9, <2>10
       DEF Next, PerformUpdate, TransferEnds, LocalStep
<1> QED
  BY <1>1, <1>2

\* The debt is settled, or its debtor stopped, in every reachable state.
LEMMA CopyAlways == Spec => []CopyInv
  BY TypeInit, TypeStep, PollStep, CleanInit, CleanStep, CopyInit, OwnStep,
     TornStep, CopyStep, PTL DEF Spec

\* For any number of instances, and whichever of them crash, a complete
\* executable is left at every moment.
THEOREM GoodCopyLeft == Spec => []GoodCopyExists
<1>1. CopyInv => GoodCopyExists
  BY DEF CopyInv, GoodCopyExists, Owes
<1> QED
  BY <1>1, CopyAlways, PTL

\* For any number of instances, once all that started have ended by themselves,
\* the executable is back in place and complete.
THEOREM RestoredAtEnd == Spec => []RestoredWhenDone
<1>1. CopyInv => RestoredWhenDone
  BY DEF CopyInv, RestoredWhenDone, Owes, Owing
<1> QED
  BY <1>1, CopyAlways, PTL

=============================================================================
