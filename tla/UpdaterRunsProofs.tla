-------------------------- MODULE UpdaterRunsProofs --------------------------
(***************************************************************************)
(* Theorems about the runs of the updater, for every number of processes,  *)
(* retries and failures, with and without temporary copies.                *)
(***************************************************************************)
EXTENDS UpdaterRuns, TLAPS

Everywhere == Steps \cup Resting \cup {"free"}

\* What the processes keep to themselves is well typed.
LocalTypeOK ==
  /\ pc \in [Processes -> Everywhere]
  /\ cmdl \in [Processes -> SUBSET Switches]
  /\ parent \in [Processes -> Processes \cup {gone}]
  /\ isTemporaryCopy \in [Processes -> BOOLEAN]
  /\ retries \in [Processes -> 1 .. MAX_BUSY_RETRIES]

LEMMA TypeSplit == TypeOK <=> MachineTypeOK /\ LocalTypeOK
  BY DEF TypeOK, LocalTypeOK, Everywhere

\* The end of a process leaves its slot as Init does.
LEMMA EndType ==
  ASSUME LocalTypeOK, NEW p \in Processes, End(p)
  PROVE  LocalTypeOK'
  BY RetriesAssumption DEF LocalTypeOK, End, Goto, Everywhere

\* So does the end of all of them, but for those that start in the same step.
LEMMA SessionType ==
  ASSUME NEW started \in SUBSET Processes,
         pc' = [q \in Processes |-> IF q \in started THEN "construct" ELSE "free"],
         cmdl' = [q \in Processes |-> IF q \in started THEN {"--autostart"} ELSE {}],
         parent' = [q \in Processes |-> gone],
         isTemporaryCopy' = [q \in Processes |-> FALSE],
         retries' = [q \in Processes |-> MAX_BUSY_RETRIES]
  PROVE  LocalTypeOK'
  BY RetriesAssumption DEF LocalTypeOK, Everywhere, Steps, Switches

\* One process goes on to another step.
LEMMA GotoType ==
  ASSUME LocalTypeOK, NEW p \in Processes, NEW step \in Everywhere, Goto(p, step),
         UNCHANGED local
  PROVE  LocalTypeOK'
  BY DEF LocalTypeOK, Goto, local

\* A process starts in a slot.
LEMMA StartType ==
  ASSUME LocalTypeOK, NEW p \in Processes, NEW switches \in SUBSET Switches,
         NEW origin \in Processes \cup {gone},
         pc' \in [Processes -> Everywhere], Start(p, switches, origin)
  PROVE  LocalTypeOK'
  BY DEF LocalTypeOK, Start

\* Where the switches lead.
LEMMA NextTasks ==
  ASSUME NEW p \in Processes
  PROVE  /\ AfterAutostart(p) \in {"removeAutostart", "purge", "request"}
         /\ AfterRegistering(p) \in {"extract", "deleteTask"}
         /\ FirstStep(p) \in {"registerAutostart", "extract", "deleteTask",
                              "removeAutostart", "purge", "request"}
  BY DEF AfterAutostart, AfterRegistering, FirstStep

-----------------------------------------------------------------------------
\* The count of rare events, and what is TRUE or FALSE of the machine and the publisher.
FlagsOK ==
  /\ autostart \in BOOLEAN /\ task \in BOOLEAN /\ ads \in BOOLEAN /\ postponed \in BOOLEAN
  /\ selfUpdater \in BOOLEAN
  /\ productOutdated \in BOOLEAN /\ updaterOutdated \in BOOLEAN

LEMMA RareType ==
  ASSUME rareEvents \in 0 .. MaxRareEvents, Rare \/ NotRare
  PROVE  rareEvents' \in 0 .. MaxRareEvents
  BY RareAssumption DEF Rare, NotRare

\* Every step is a rare event or is not.
LEMMA RareOrNot == [Next]_vars => Rare \/ NotRare
  <1>   SUFFICES ASSUME [Next]_vars PROVE Rare \/ NotRare
    OBVIOUS
  <1>   USE DEF surroundings, NotRare
  <1>1. CASE UNCHANGED vars
    BY <1>1 DEF vars
  <1>2. ASSUME NEW p \in Processes, WinMain(p) PROVE Rare \/ NotRare
    BY <1>2 DEF WinMain, Proceeds, Construct, RegisterAutostart, DeleteTask, RegisterTask,
                CreationFails,
                ExtractSelfUpdater, RemoveAutostart, RemoveScheduledTask, PurgePostponeData,
                RequestUpdateInfoFails, RunSelfUpdater, RunSelfUpdaterFails, NoSelfUpdate,
                CopyExecutable, GoOnInPlace, LaunchCopy, LaunchFails, Leave,
                NothingToDo, UpdatePending, UserAccepts, UserBusy
  <1>3. ASSUME NEW p \in Processes,
               \/ Logon(p) \/ Daily(p) \/ ByHand(p) \/ UpdateInstalled(p)
               \/ UpdateNotInstalled(p) \/ SetPostponeData(p) \/ SelfUpdateSucceeds(p)
        PROVE  Rare \/ NotRare
    BY <1>3 DEF Logon, Daily, ByHand, UpdateInstalled, UpdateNotInstalled,
                SetPostponeData, SelfUpdateSucceeds
  <1>4. CASE \/ SelfUpdateFails \/ DayPasses \/ PublishRelease \/ PublishUpdater \/ Reboot
    BY <1>4 DEF SelfUpdateFails, DayPasses, PublishRelease, PublishUpdater, Reboot
  <1> QED  BY <1>1, <1>2, <1>3, <1>4 DEF Next

LEMMA FlagsStep == FlagsOK /\ [Next]_vars => FlagsOK'
  <1>   SUFFICES ASSUME FlagsOK, [Next]_vars PROVE FlagsOK'
    OBVIOUS
  <1>   USE DEF FlagsOK, machine, offer, surroundings
  <1>1. CASE UNCHANGED vars
    BY <1>1 DEF vars
  <1>2. ASSUME NEW p \in Processes, WinMain(p) PROVE FlagsOK'
    <2>1. CASE RegisterAutostart(p) \/ DeleteTask(p) \/ RegisterTask(p)
      BY <2>1 DEF RegisterAutostart, DeleteTask, RegisterTask, CreationFails
    <2>2. CASE ExtractSelfUpdater(p)
      BY <2>2 DEF ExtractSelfUpdater
    <2>3. CASE RemoveAutostart(p) \/ RemoveScheduledTask(p) \/ PurgePostponeData(p)
      BY <2>3 DEF RemoveAutostart, RemoveScheduledTask, PurgePostponeData
    <2>4. CASE RunSelfUpdater(p)
      BY <2>4, Zenon DEF RunSelfUpdater
    <2>5. CASE \/ Construct(p) \/ RequestUpdateInfoFails(p) \/ RunSelfUpdaterFails(p)
               \/ NoSelfUpdate(p) \/ CopyExecutable(p) \/ GoOnInPlace(p) \/ LaunchCopy(p)
               \/ LaunchFails(p) \/ Leave(p)
      BY <2>5 DEF Construct, RequestUpdateInfoFails, RunSelfUpdaterFails, NoSelfUpdate,
                  CopyExecutable, GoOnInPlace, LaunchCopy, LaunchFails, Leave
    <2>6. CASE NothingToDo(p) \/ UpdatePending(p) \/ UserAccepts(p) \/ UserBusy(p)
      BY <2>6 DEF NothingToDo, UpdatePending, UserAccepts, UserBusy
    <2> QED  BY <1>2, <2>1, <2>2, <2>3, <2>4, <2>5, <2>6 DEF WinMain, Proceeds
  <1>3. ASSUME NEW p \in Processes,
               Logon(p) \/ Daily(p) \/ ByHand(p) \/ UpdateNotInstalled(p)
        PROVE  FlagsOK'
    BY <1>3 DEF Logon, Daily, ByHand, UpdateNotInstalled
  <1>4. ASSUME NEW p \in Processes,
               UpdateInstalled(p) \/ SetPostponeData(p) \/ SelfUpdateSucceeds(p)
        PROVE  FlagsOK'
    BY <1>4 DEF UpdateInstalled, SetPostponeData, SelfUpdateSucceeds
  <1>5. CASE SelfUpdateFails \/ DayPasses \/ PublishRelease \/ PublishUpdater
    BY <1>5 DEF SelfUpdateFails, DayPasses, PublishRelease, PublishUpdater
  <1>6. CASE Reboot
    BY <1>6 DEF Reboot
  <1> QED  BY <1>1, <1>2, <1>3, <1>4, <1>5, <1>6 DEF Next

\* The machine and the publisher keep their types.
LEMMA MachineTypeStep == MachineTypeOK /\ [Next]_vars => MachineTypeOK'
  BY RareOrNot, RareType, FlagsStep DEF MachineTypeOK, FlagsOK

\* The steps of WinMain keep the types of what belongs to a process.
LEMMA WinMainType ==
  ASSUME LocalTypeOK, NEW p \in Processes, WinMain(p)
  PROVE  LocalTypeOK'
  <1>1. CASE End(p)
    BY <1>1, EndType
  <1>2. CASE UNCHANGED local /\ \E step \in Everywhere : Goto(p, step)
    BY <1>2, GotoType
  <1>3. CASE Construct(p)
    <2>1. FirstStep(p) \in Everywhere
      BY NextTasks DEF Everywhere, Steps
    <2>2. CASE Goto(p, FirstStep(p)) /\ UNCHANGED <<cmdl, parent, retries>>
               /\ isTemporaryCopy' \in [Processes -> BOOLEAN]
      BY <2>1, <2>2 DEF LocalTypeOK, Goto
    <2> QED  BY <1>1, <1>2, <1>3, <2>1, <2>2 DEF Construct, LocalTypeOK
  <1>4. CASE RegisterAutostart(p) \/ DeleteTask(p) \/ RegisterTask(p) \/ RemoveAutostart(p)
    BY <1>1, <1>2, <1>4, NextTasks
    DEF RegisterAutostart, DeleteTask, RegisterTask, CreationFails, RemoveAutostart,
        Everywhere, Steps
  <1>5. CASE \/ ExtractSelfUpdater(p) \/ RemoveScheduledTask(p) \/ PurgePostponeData(p)
             \/ RequestUpdateInfoFails(p) \/ RunSelfUpdater(p) \/ Leave(p) \/ NothingToDo(p)
    BY <1>1, <1>5 DEF ExtractSelfUpdater, RemoveScheduledTask, PurgePostponeData,
                      RequestUpdateInfoFails, RunSelfUpdater, Leave, NothingToDo
  <1>6. CASE \/ RunSelfUpdaterFails(p) \/ NoSelfUpdate(p) \/ CopyExecutable(p)
             \/ GoOnInPlace(p) \/ LaunchFails(p)
    BY <1>2, <1>6 DEF RunSelfUpdaterFails, NoSelfUpdate, CopyExecutable, GoOnInPlace,
                      LaunchFails, Everywhere, Steps
  <1>7. CASE LaunchCopy(p)
    <2>1. PICK q \in Processes :
            /\ pc' = [pc EXCEPT ![p] = "leave", ![q] = "construct"]
            /\ Start(q, cmdl[p] \cup {"--temporary"}, p)
      BY <1>7 DEF LaunchCopy
    <2>2. pc' \in [Processes -> Everywhere]
      BY <2>1 DEF LocalTypeOK, Everywhere, Steps
    <2>3. cmdl[p] \cup {"--temporary"} \in SUBSET Switches
      BY DEF LocalTypeOK, Switches
    <2> QED  BY <2>1, <2>2, <2>3, StartType
  <1>8. CASE UpdatePending(p) \/ UserAccepts(p)
    BY <1>2, <1>8 DEF UpdatePending, UserAccepts, Proceed, Everywhere, Steps, Resting
  <1>9. CASE UserBusy(p)
    <2>1. CASE ~(retries[p] - 1 < 1)
      BY <1>9, <2>1, RetriesAssumption DEF UserBusy, LocalTypeOK
    <2> QED  BY <1>1, <1>9, <2>1 DEF UserBusy
  <1> QED  BY <1>3, <1>4, <1>5, <1>6, <1>7, <1>8, <1>9 DEF WinMain, Proceeds

\* So does every other step.
LEMMA LocalTypeStep == LocalTypeOK /\ [Next]_vars => LocalTypeOK'
  <1>   SUFFICES ASSUME LocalTypeOK, [Next]_vars PROVE LocalTypeOK'
    OBVIOUS
  <1>1. CASE UNCHANGED <<pc, local>>
    BY <1>1 DEF LocalTypeOK, local
  <1>2. ASSUME NEW p \in Processes, WinMain(p) PROVE LocalTypeOK'
    BY <1>2, WinMainType
  <1>3. ASSUME NEW p \in Processes, Logon(p) PROVE LocalTypeOK'
    <2>   DEFINE started == IF autostart THEN {p} ELSE {}
    <2>1. /\ pc' = [q \in Processes |-> IF q \in started THEN "construct" ELSE "free"]
          /\ cmdl' = [q \in Processes |-> IF q \in started THEN {"--autostart"} ELSE {}]
      BY <1>3 DEF Logon
    <2>2. started \in SUBSET Processes
      OBVIOUS
    <2>   HIDE DEF started
    <2> QED  BY <1>3, <2>1, <2>2, SessionType DEF Logon
  <1>4. CASE Reboot
    <2>1. /\ pc' = [q \in Processes |-> IF q \in {} THEN "construct" ELSE "free"]
          /\ cmdl' = [q \in Processes |-> IF q \in {} THEN {"--autostart"} ELSE {}]
      BY <1>4 DEF Reboot
    <2> QED  BY <1>4, <2>1, SessionType DEF Reboot
  <1>5. ASSUME NEW p \in Processes, NEW switches \in SUBSET Switches,
               Goto(p, "construct"), Start(p, switches, gone)
        PROVE  LocalTypeOK'
    <2>1. pc' \in [Processes -> Everywhere]
      BY <1>5 DEF Goto, LocalTypeOK, Everywhere, Steps
    <2> QED  BY <1>5, <2>1, StartType
  <1>6. ASSUME NEW p \in Processes, Daily(p) PROVE LocalTypeOK'
    BY <1>5, <1>6 DEF Daily, Switches
  <1>7. ASSUME NEW p \in Processes, ByHand(p) PROVE LocalTypeOK'
    BY <1>5, <1>7, CommandLinesAssumption DEF ByHand
  <1>8. ASSUME NEW p \in Processes, SelfUpdateSucceeds(p) PROVE LocalTypeOK'
    BY <1>1, <1>5, <1>8 DEF SelfUpdateSucceeds, Switches
  <1>9. ASSUME NEW p \in Processes,
               UpdateInstalled(p) \/ UpdateNotInstalled(p) \/ SetPostponeData(p)
        PROVE  LocalTypeOK'
    BY <1>9, EndType DEF UpdateInstalled, UpdateNotInstalled, SetPostponeData
  <1>10. CASE \/ SelfUpdateFails \/ DayPasses \/ PublishRelease \/ PublishUpdater
              \/ UNCHANGED vars
    BY <1>1, <1>10 DEF SelfUpdateFails, DayPasses, PublishRelease, PublishUpdater, vars
  <1> QED
    BY <1>2, <1>3, <1>4, <1>6, <1>7, <1>8, <1>9, <1>10 DEF Next

LEMMA TypeStep == TypeOK /\ [Next]_vars => TypeOK'
  <1>1. TypeOK' <=> MachineTypeOK' /\ LocalTypeOK'
    BY DEF TypeOK, LocalTypeOK, Everywhere
  <1> QED  BY <1>1, TypeSplit, MachineTypeStep, LocalTypeStep

LEMMA TypeInit == Init => TypeOK
  <1>1. Init => MachineTypeOK
    <2>1. 0 \in 0 .. MaxRareEvents
      BY RareAssumption
    <2> QED  BY <2>1, Zenon DEF Init, MachineTypeOK
  <1>2. Init => LocalTypeOK
    BY RetriesAssumption DEF Init, LocalTypeOK, Everywhere
  <1> QED  BY <1>1, <1>2, TypeSplit

\* Type correctness, and with it the bound on the tries of the busy check.
THEOREM RunsTypeCorrect == Spec => []TypeOK
  BY TypeInit, TypeStep, PTL DEF Spec

-----------------------------------------------------------------------------
(* What a temporary copy never does, as one inductive invariant: a copy is  *)
(* never at a step that launches or registers.                              *)

Barred == {"launch", "leave", "registerAutostart", "deleteTask", "registerTask"}

CopiesBarred == \A p \in Processes : IsTemporary(p) => pc[p] \notin Barred

LEMMA BarredSplit == CopiesBarred <=> NoForkBomb /\ OnlyOriginRegistered
  BY DEF CopiesBarred, Barred, NoForkBomb, OnlyOriginRegistered

LEMMA EndBarred ==
  ASSUME LocalTypeOK, CopiesBarred, NEW p \in Processes, End(p)
  PROVE  CopiesBarred'
  BY DEF LocalTypeOK, CopiesBarred, IsTemporary, End, Goto, Barred

\* A process that goes on to a barred step is no copy.
LEMMA GotoBarred ==
  ASSUME LocalTypeOK, CopiesBarred, NEW p \in Processes, NEW step, Goto(p, step),
         cmdl' = cmdl, step \in Barred => ~IsTemporary(p)
  PROVE  CopiesBarred'
  BY DEF LocalTypeOK, CopiesBarred, IsTemporary, Goto

\* A process that starts has done nothing yet, whatever its switches are.
LEMMA StartBarred ==
  ASSUME LocalTypeOK, CopiesBarred, NEW p \in Processes, NEW switches, NEW origin,
         Start(p, switches, origin),
         \A q \in Processes : pc'[q] = IF q = p THEN "construct" ELSE pc[q]
  PROVE  CopiesBarred'
  BY DEF LocalTypeOK, CopiesBarred, IsTemporary, Start, Barred

LEMMA WinMainBarred ==
  ASSUME LocalTypeOK, CopiesBarred, NEW p \in Processes, WinMain(p)
  PROVE  CopiesBarred'
  <1>1. CASE End(p)
    BY <1>1, EndBarred
  <1>2. CASE cmdl' = cmdl /\ \E step \in Everywhere \ Barred : Goto(p, step)
    BY <1>2, GotoBarred
  <1>3. CASE ~IsTemporary(p) /\ cmdl' = cmdl /\ \E step \in Everywhere : Goto(p, step)
    BY <1>3, GotoBarred
  <1>4. /\ FirstStep(p) \in Everywhere
        /\ IsTemporary(p) => FirstStep(p) \notin Barred
        /\ AfterAutostart(p) \in Everywhere \ Barred
        /\ AfterRegistering(p) \in Everywhere
    BY NextTasks DEF FirstStep, AfterAutostart, Everywhere, Steps, Barred
  <1>5. CASE Construct(p)
    BY <1>1, <1>4, <1>5, GotoBarred DEF Construct, local
  <1>6. CASE RegisterAutostart(p) \/ DeleteTask(p) \/ RegisterTask(p)
    <2>1. ~IsTemporary(p)
      BY <1>6 DEF CopiesBarred, Barred, RegisterAutostart, DeleteTask, RegisterTask,
                  CreationFails
    <2> QED  BY <1>1, <1>3, <1>4, <1>6, <2>1
             DEF RegisterAutostart, DeleteTask, RegisterTask, CreationFails, Everywhere,
                 Steps, local
  <1>7. CASE \/ ExtractSelfUpdater(p) \/ RemoveScheduledTask(p) \/ PurgePostponeData(p)
             \/ RequestUpdateInfoFails(p) \/ RunSelfUpdater(p) \/ Leave(p) \/ NothingToDo(p)
    BY <1>1, <1>7 DEF ExtractSelfUpdater, RemoveScheduledTask, PurgePostponeData,
                      RequestUpdateInfoFails, RunSelfUpdater, Leave, NothingToDo
  <1>8. CASE \/ RemoveAutostart(p) \/ RunSelfUpdaterFails(p) \/ NoSelfUpdate(p)
             \/ GoOnInPlace(p) \/ LaunchFails(p)
    BY <1>1, <1>2, <1>8 DEF RemoveAutostart, RunSelfUpdaterFails, NoSelfUpdate,
                            GoOnInPlace, LaunchFails, Everywhere, Steps, Barred, local
  <1>9. CASE CopyExecutable(p)
    \* The image of a copy is in use by the copy itself.
    <2>1. ~IsTemporary(p)
      BY <1>9 DEF CopyExecutable, TemporaryImageInUse
    <2> QED  BY <1>3, <1>9, <2>1 DEF CopyExecutable, Everywhere, Steps, local
  <1>10. CASE LaunchCopy(p)
    <2>1. PICK q \in Processes :
            /\ pc[q] = "free"
            /\ pc' = [pc EXCEPT ![p] = "leave", ![q] = "construct"]
            /\ Start(q, cmdl[p] \cup {"--temporary"}, p)
      BY <1>10 DEF LaunchCopy
    <2>2. pc[p] = "launch" /\ ~IsTemporary(p) /\ p # q
      BY <1>10, <2>1 DEF LaunchCopy, CopiesBarred, Barred
    <2>3. cmdl'[p] = cmdl[p]
      BY <2>1, <2>2 DEF Start, LocalTypeOK
    <2>4. pc'[q] \notin Barred
      BY <2>1 DEF LocalTypeOK, Barred
    <2>5. ASSUME NEW r \in Processes, r # p, r # q
          PROVE  pc'[r] = pc[r] /\ cmdl'[r] = cmdl[r]
      BY <2>1, <2>5 DEF Start, LocalTypeOK
    <2> QED  BY <2>2, <2>3, <2>4, <2>5 DEF CopiesBarred, IsTemporary
  <1>11. CASE UpdatePending(p) \/ UserAccepts(p)
    BY <1>2, <1>11
    DEF UpdatePending, UserAccepts, Proceed, Everywhere, Steps, Resting, Barred, local
  <1>12. CASE UserBusy(p)
    <2>1. CASE UNCHANGED <<pc, cmdl>>
      BY <2>1 DEF CopiesBarred, IsTemporary
    <2> QED  BY <1>1, <1>12, <2>1 DEF UserBusy
  <1> QED  BY <1>5, <1>6, <1>7, <1>8, <1>9, <1>10, <1>11, <1>12 DEF WinMain, Proceeds

LEMMA BarredStep == LocalTypeOK /\ CopiesBarred /\ [Next]_vars => CopiesBarred'
  <1>   SUFFICES ASSUME LocalTypeOK, CopiesBarred, [Next]_vars PROVE CopiesBarred'
    OBVIOUS
  <1>1. CASE UNCHANGED <<pc, local>>
    BY <1>1 DEF CopiesBarred, IsTemporary, local
  <1>2. ASSUME NEW p \in Processes, Goto(p, "construct"), NEW switches, NEW origin,
               Start(p, switches, origin)
        PROVE  CopiesBarred'
    BY <1>2, StartBarred DEF Goto, LocalTypeOK
  <1>3. ASSUME NEW p \in Processes, Logon(p) PROVE CopiesBarred'
    BY <1>3 DEF Logon, CopiesBarred, IsTemporary
  <1>4. ASSUME NEW p \in Processes, Daily(p) \/ ByHand(p) \/ SelfUpdateSucceeds(p)
        PROVE  CopiesBarred'
    BY <1>1, <1>2, <1>4 DEF Daily, ByHand, SelfUpdateSucceeds
  <1>5. ASSUME NEW p \in Processes,
               UpdateInstalled(p) \/ UpdateNotInstalled(p) \/ SetPostponeData(p)
        PROVE  CopiesBarred'
    BY <1>5, EndBarred DEF UpdateInstalled, UpdateNotInstalled, SetPostponeData
  <1>6. CASE Reboot
    BY <1>6 DEF Reboot, CopiesBarred, IsTemporary
  <1>7. CASE \/ SelfUpdateFails \/ DayPasses \/ PublishRelease \/ PublishUpdater
             \/ UNCHANGED vars
    BY <1>1, <1>7 DEF SelfUpdateFails, DayPasses, PublishRelease, PublishUpdater, vars
  <1> QED  BY <1>3, <1>4, <1>5, <1>6, <1>7, WinMainBarred DEF Next

LEMMA BarredInit == Init => CopiesBarred
  BY DEF Init, CopiesBarred, IsTemporary

LEMMA BarredAlways == Spec => []CopiesBarred
  <1>1. TypeOK => LocalTypeOK
    BY TypeSplit
  <1> QED  BY <1>1, RunsTypeCorrect, BarredInit, BarredStep, PTL DEF Spec

\* A temporary copy never launches a copy of its own, whether or not it knows
\* itself as one.
THEOREM ForkBombFree == Spec => []NoForkBomb
  BY BarredSplit, BarredAlways, PTL

\* A temporary copy never registers itself for autostart or as the task.
THEOREM OriginRegistered == Spec => []OnlyOriginRegistered
  BY BarredSplit, BarredAlways, PTL
=============================================================================
