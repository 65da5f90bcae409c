----------------------------- MODULE UpdaterRuns -----------------------------
(***************************************************************************)
(* The runs of the updater on one machine: WinMain from the command line   *)
(* to the window, of processes started at logon, by the scheduled task, by *)
(* hand, by the self-updater and by an updater that makes a temporary copy *)
(* of itself, over days.                                                   *)
(*                                                                         *)
(* A process is a slot that is used again after the process has ended.     *)
(* Between processes lives what the machine keeps: the autostart value,    *)
(* the scheduled task, the stream with the self-updater, the postponement. *)
(* A run that opened the window, or that installs silently, is resting: it *)
(* waits for the user or the setup (UpdateWizard models what it does).     *)
(*                                                                         *)
(* Whether the product or the updater is outdated is read where the code   *)
(* compares versions, from what the server offers at that moment.  Several *)
(* self-updaters at work count as one (SelfUpdater models them).           *)
(***************************************************************************)
EXTENDS Integers, FiniteSets

CONSTANTS
  Processes,              \* slots for updaters alive at a time
  gone,                   \* no process, or one that has ended
  RunAsTemporaryCopy,     \* configured for the product
  CommandLines,           \* switches an updater is started with by hand
  MAX_BUSY_RETRIES,       \* "retries" of the busy check, 30
  MaxRareEvents           \* bound: failures of the system, reboots, new updaters

ASSUME ProcessesAssumption == gone \notin Processes
ASSUME CopyAssumption == RunAsTemporaryCopy \in BOOLEAN
ASSUME RetriesAssumption == MAX_BUSY_RETRIES \in Nat \ {0}
ASSUME RareAssumption == MaxRareEvents \in Nat

Switches == {"--install", "--no-autostart", "--no-scheduled-task", "--skip-self-update",
             "--uninstall", "--autostart", "--background", "--silent", "--silent-update",
             "--ignore-postpone", "--purge-postpone", "--ignore-busy-state", "--temporary"}

\* Nobody but the updater passes --temporary.
ASSUME CommandLinesAssumption == CommandLines \subseteq SUBSET (Switches \ {"--temporary"})

VARIABLES
  \* the machine
  autostart,              \* the value under the Run key exists
  task,                   \* the scheduled task exists
  ads,                    \* the executable carries a whole self-updater
  postponed,              \* LastTimestamp is there and younger than 24 hours
  selfUpdater,            \* a self-updater is at work
  rareEvents,
  \* the publisher
  productOutdated, updaterOutdated,
  \* each process
  pc, cmdl, parent, isTemporaryCopy, retries

machine == <<autostart, task, ads, postponed>>
offer == <<productOutdated, updaterOutdated>>
surroundings == <<selfUpdater, rareEvents>>
local == <<cmdl, parent, isTemporaryCopy, retries>>
vars == <<machine, offer, surroundings, pc, local>>

Resting == {"window", "silentUpdate"}
Steps == {"construct", "registerAutostart", "deleteTask", "registerTask", "extract",
          "removeAutostart", "removeTask", "purge", "request", "copy", "launch", "leave",
          "detect", "busyCheck"}

Init ==
  /\ autostart = FALSE /\ task = FALSE /\ ads = FALSE /\ postponed = FALSE
  /\ selfUpdater = FALSE /\ rareEvents = 0
  /\ productOutdated = FALSE /\ updaterOutdated = FALSE
  /\ pc = [p \in Processes |-> "free"]
  /\ cmdl = [p \in Processes |-> {}]
  /\ parent = [p \in Processes |-> gone]
  /\ isTemporaryCopy = [p \in Processes |-> FALSE]
  /\ retries = [p \in Processes |-> MAX_BUSY_RETRIES]

Goto(p, step) == pc' = [pc EXCEPT ![p] = step]

\* Process p ends, and its children have no parent any more.
End(p) ==
  /\ Goto(p, "free")
  /\ cmdl' = [cmdl EXCEPT ![p] = {}]
  /\ parent' = [q \in Processes |-> IF q = p \/ parent[q] = p THEN gone ELSE parent[q]]
  /\ isTemporaryCopy' = [isTemporaryCopy EXCEPT ![p] = FALSE]
  /\ retries' = [retries EXCEPT ![p] = MAX_BUSY_RETRIES]

\* CreateProcess.
Start(p, switches, origin) ==
  /\ cmdl' = [cmdl EXCEPT ![p] = switches]
  /\ parent' = [parent EXCEPT ![p] = origin]
  /\ UNCHANGED <<isTemporaryCopy, retries>>

Rare == rareEvents < MaxRareEvents /\ rareEvents' = rareEvents + 1
NotRare == UNCHANGED rareEvents

IsTemporary(p) == "--temporary" \in cmdl[p]
IsSilent(p) ==
  cmdl[p] \cap {"--background", "--silent", "--autostart", "--silent-update"} # {}

\* Windows lets nobody write to an executable that runs.
TemporaryImageInUse == \E p \in Processes : IsTemporary(p)

\* The next task after those of --autostart.
AfterAutostart(p) ==
  IF "--uninstall" \in cmdl[p] /\ ~IsTemporary(p) THEN "removeAutostart"
  ELSE IF "--purge-postpone" \in cmdl[p] THEN "purge" ELSE "request"

AfterRegistering(p) ==
  IF "--no-scheduled-task" \in cmdl[p] THEN "extract" ELSE "deleteTask"

-----------------------------------------------------------------------------
(* Mutated forms of definitions below, for checking that the properties can *)
(* fail; no specification uses them.                                       *)

\* The check goes on for as long as the user is busy.
BusyForever(p) ==
  /\ pc[p] = "busyCheck"
  /\ UNCHANGED vars

\* The copy gets a random name, as the self-updater's files do.
CopyUnderRandomName(p) ==
  /\ pc[p] = "copy"
  /\ RunAsTemporaryCopy /\ ~isTemporaryCopy[p]
  /\ Goto(p, "launch")
  /\ UNCHANGED <<machine, offer, surroundings, local>>

\* Only --install creates the task.
HealsNothing(p) ==
  CASE "--install" \in cmdl[p] /\ ~IsTemporary(p) ->
         IF "--no-autostart" \in cmdl[p] THEN AfterRegistering(p) ELSE "registerAutostart"
    [] OTHER -> AfterAutostart(p)

\* A temporary copy does what --autostart asks for, like its origin.
CopyTakesPart(p) ==
  CASE "--install" \in cmdl[p] /\ ~IsTemporary(p) ->
         IF "--no-autostart" \in cmdl[p] THEN AfterRegistering(p) ELSE "registerAutostart"
    [] "--autostart" \in cmdl[p] /\ "--install" \notin cmdl[p] -> "deleteTask"
    [] OTHER -> AfterAutostart(p)

\* An updater that could not launch the self-updater gives up.
SelfUpdaterOrNothing(p) ==
  /\ pc[p] = "request"
  /\ updaterOutdated /\ ~IsTemporary(p) /\ "--skip-self-update" \notin cmdl[p]
  /\ End(p)
  /\ UNCHANGED <<machine, offer, surroundings>>

-----------------------------------------------------------------------------
(* How updaters are started.                                               *)

StartedByHand(p) == cmdl[p] \ {"--temporary"} \in CommandLines

\* The user logs on.  The session before, with its processes and its volatile
\* keys, has ended.  That cut short what the user had started, but not what runs
\* in the background (Reboot does that).
Logon(p) ==
  /\ \A q \in Processes : \/ pc[q] \in Resting \cup {"free"}
                          \/ StartedByHand(q)
  /\ pc' = [q \in Processes |-> IF q = p /\ autostart THEN "construct" ELSE "free"]
  /\ cmdl' = [q \in Processes |-> IF q = p /\ autostart THEN {"--autostart"} ELSE {}]
  /\ parent' = [q \in Processes |-> gone]
  /\ isTemporaryCopy' = [q \in Processes |-> FALSE]
  /\ retries' = [q \in Processes |-> MAX_BUSY_RETRIES]
  /\ postponed' = FALSE
  /\ UNCHANGED <<autostart, task, ads, offer, surroundings>>

\* Once per day, also when the time for it was missed.  By default the scheduler
\* starts no second instance of a task that is running.
Daily(p) ==
  /\ task /\ pc[p] = "free"
  /\ \A q \in Processes : cmdl[q] # {"--background"}
  /\ Goto(p, "construct") /\ Start(p, {"--background"}, gone)
  /\ UNCHANGED <<machine, offer, surroundings>>

\* Bound: the user starts one at a time.
ByHand(p) ==
  /\ pc[p] = "free"
  /\ \A q \in Processes : pc[q] # "free" => ~StartedByHand(q)
  /\ \E c \in CommandLines : Goto(p, "construct") /\ Start(p, c, gone)
  /\ UNCHANGED <<machine, offer, surroundings>>

-----------------------------------------------------------------------------
\* The first task the switches ask for.  A temporary copy has no part in the first
\* three.
FirstStep(p) ==
  CASE "--install" \in cmdl[p] /\ ~IsTemporary(p) ->
         IF "--no-autostart" \in cmdl[p] THEN AfterRegistering(p) ELSE "registerAutostart"
    [] "--autostart" \in cmdl[p] /\ "--install" \notin cmdl[p] /\ ~IsTemporary(p) ->
         "deleteTask"
    [] OTHER -> AfterAutostart(p)

\* The constructor of InstanceConfig.  A temporary copy looks for the process
\* that launched it.  If that has ended, there is none, or its number already
\* belongs to another program.
Construct(p) ==
  /\ pc[p] = "construct"
  /\ \/ /\ IsTemporary(p) /\ IsSilent(p)             \* NV_E_INVALID_PARAMETERS
        /\ End(p)
     \/ /\ IsTemporary(p) /\ ~IsSilent(p)
        /\ \E same \in (IF parent[p] = gone THEN {FALSE} ELSE BOOLEAN) :
             isTemporaryCopy' = [isTemporaryCopy EXCEPT ![p] = same]
        /\ Goto(p, FirstStep(p))
        /\ UNCHANGED <<cmdl, parent, retries>>
     \/ /\ ~IsTemporary(p) \/ parent[p] = gone
        /\ Goto(p, FirstStep(p))
        /\ UNCHANGED local
  /\ UNCHANGED <<machine, offer, surroundings>>

RegisterAutostart(p) ==
  /\ pc[p] = "registerAutostart"
  /\ \/ autostart' = TRUE /\ Goto(p, AfterRegistering(p)) /\ NotRare /\ UNCHANGED local
     \/ Rare /\ End(p) /\ UNCHANGED autostart         \* NV_E_AUTOSTART
  /\ UNCHANGED <<task, ads, postponed, offer, selfUpdater>>

\* CreateScheduledTask first removes a task of the same name, whatever comes of it.
DeleteTask(p) ==
  /\ pc[p] = "deleteTask"
  /\ \/ task' = FALSE /\ NotRare
     \/ Rare /\ UNCHANGED task
  /\ Goto(p, "registerTask")
  /\ UNCHANGED <<autostart, ads, postponed, offer, selfUpdater, local>>

\* One of the calls that build the definition fails, or its registration: that
\* ends an installation, and a run at logon goes on without the task.
CreationFails(p) ==
  /\ Rare /\ UNCHANGED task
  /\ \/ "--install" \in cmdl[p] /\ End(p)              \* NV_E_SCHEDULED_TASK
     \/ "--install" \notin cmdl[p] /\ Goto(p, AfterAutostart(p)) /\ UNCHANGED local

RegisterTask(p) ==
  /\ pc[p] = "registerTask"
  /\ \/ /\ task' = TRUE /\ NotRare
        /\ Goto(p, IF "--install" \in cmdl[p] THEN "extract" ELSE AfterAutostart(p))
        /\ UNCHANGED local
     \/ CreationFails(p)
  /\ UNCHANGED <<autostart, ads, postponed, offer, selfUpdater>>

\* CREATE_ALWAYS truncates the stream before it is written.
ExtractSelfUpdater(p) ==
  /\ pc[p] = "extract"
  /\ \/ ads' = TRUE /\ NotRare                        \* NV_S_INSTALL
     \/ Rare /\ ads' \in {ads, FALSE}                 \* NV_E_EXTRACT_SELF_UPDATE
  /\ End(p)
  /\ UNCHANGED <<autostart, task, postponed, offer, selfUpdater>>

\* A value that is not there cannot be deleted: NV_E_AUTOSTART.
RemoveAutostart(p) ==
  /\ pc[p] = "removeAutostart"
  /\ \/ autostart /\ autostart' = FALSE /\ Goto(p, "removeTask") /\ NotRare
        /\ UNCHANGED local
     \/ ~autostart /\ End(p) /\ NotRare /\ UNCHANGED autostart
     \/ autostart /\ Rare /\ End(p) /\ UNCHANGED autostart
  /\ UNCHANGED <<task, ads, postponed, offer, selfUpdater>>

\* What DeleteTask returns is not looked at; the service may be out of reach.
RemoveScheduledTask(p) ==
  /\ pc[p] = "removeTask"
  /\ \/ task' = FALSE /\ NotRare
     \/ Rare /\ UNCHANGED task
  /\ End(p)
  /\ UNCHANGED <<autostart, ads, postponed, offer, selfUpdater>>

PurgePostponeData(p) ==
  /\ pc[p] = "purge"
  /\ \/ postponed' = FALSE /\ NotRare
     \/ Rare /\ UNCHANGED postponed                   \* NV_E_POSTPONE_PURGE_FAILED
  /\ End(p)
  /\ UNCHANGED <<autostart, task, ads, offer, selfUpdater>>

-----------------------------------------------------------------------------
NewerUpdaterAvailable(p) ==
  updaterOutdated /\ ~IsTemporary(p) /\ "--skip-self-update" \notin cmdl[p]

\* NV_E_SERVER_RESPONSE.
RequestUpdateInfoFails(p) ==
  /\ pc[p] = "request"
  /\ Rare /\ End(p)
  /\ UNCHANGED <<machine, offer, selfUpdater>>

\* rundll32 is launched, and ends at once when there is no library to load:
\* NV_S_SELF_UPDATER in both cases.
RunSelfUpdater(p) ==
  /\ pc[p] = "request"
  /\ NewerUpdaterAvailable(p)
  /\ selfUpdater' = (selfUpdater \/ ads)
  /\ End(p)
  /\ UNCHANGED <<machine, offer, rareEvents>>

\* The user refuses the elevation, or rundll32 cannot be launched.
RunSelfUpdaterFails(p) ==
  /\ pc[p] = "request"
  /\ NewerUpdaterAvailable(p)
  /\ Goto(p, "copy")
  /\ UNCHANGED <<machine, offer, surroundings, local>>

NoSelfUpdate(p) ==
  /\ pc[p] = "request"
  /\ ~NewerUpdaterAvailable(p)
  /\ Goto(p, "copy")
  /\ UNCHANGED <<machine, offer, surroundings, local>>

\* TryRunTemporaryProcess: the copy has the executable's name, in the user's
\* directory of temporary files.
CopyExecutable(p) ==
  /\ pc[p] = "copy"
  /\ RunAsTemporaryCopy /\ ~isTemporaryCopy[p]
  /\ ~TemporaryImageInUse
  /\ Goto(p, "launch")
  /\ UNCHANGED <<machine, offer, surroundings, local>>

\* No copy is asked for, or CopyFile fails.
GoOnInPlace(p) ==
  /\ pc[p] = "copy"
  /\ \/ /\ ~RunAsTemporaryCopy \/ isTemporaryCopy[p] \/ TemporaryImageInUse
        /\ NotRare
     \/ Rare
  /\ Goto(p, "detect")
  /\ UNCHANGED <<machine, offer, selfUpdater, local>>

\* The copy is run with --temporary and every switch this process was given.
LaunchCopy(p) ==
  /\ pc[p] = "launch"
  /\ \E q \in Processes :
       /\ pc[q] = "free"
       /\ pc' = [pc EXCEPT ![p] = "leave", ![q] = "construct"]
       /\ Start(q, cmdl[p] \cup {"--temporary"}, p)
  /\ UNCHANGED <<machine, offer, surroundings>>

\* CreateProcess fails, as it does here when no slot is left.
LaunchFails(p) ==
  /\ pc[p] = "launch"
  /\ \/ NotRare /\ \A q \in Processes : pc[q] # "free"
     \/ Rare
  /\ Goto(p, "detect")
  /\ UNCHANGED <<machine, offer, selfUpdater, local>>

\* NV_S_LAUNCHED_TEMPORARY: the destructors run, then the process is gone.
Leave(p) ==
  /\ pc[p] = "leave"
  /\ End(p)
  /\ UNCHANGED <<machine, offer, surroundings>>

\* IsInstalledVersionOutdated, then IsInPostponePeriod.
\* NV_E_PRODUCT_DETECTION, NV_S_UP_TO_DATE or NV_S_POSTPONE_PERIOD.
NothingToDo(p) ==
  /\ pc[p] = "detect"
  /\ \/ Rare
     \/ NotRare /\ ~productOutdated
     \/ NotRare /\ postponed /\ "--ignore-postpone" \notin cmdl[p]
  /\ End(p)
  /\ UNCHANGED <<machine, offer, selfUpdater>>

Proceed(p) == Goto(p, IF "--silent-update" \in cmdl[p] THEN "silentUpdate" ELSE "window")

UpdatePending(p) ==
  /\ pc[p] = "detect"
  /\ productOutdated
  /\ ~postponed \/ "--ignore-postpone" \in cmdl[p]
  /\ IF IsSilent(p) /\ "--ignore-busy-state" \notin cmdl[p]
     THEN Goto(p, "busyCheck") ELSE Proceed(p)
  /\ UNCHANGED <<machine, offer, surroundings, local>>

\* A query that says the user has time, or fails.
UserAccepts(p) ==
  /\ pc[p] = "busyCheck"
  /\ Proceed(p)
  /\ UNCHANGED <<machine, offer, surroundings, local>>

UserBusy(p) ==
  /\ pc[p] = "busyCheck"
  /\ IF retries[p] - 1 < 1 THEN End(p)                \* NV_E_BUSY
     ELSE retries' = [retries EXCEPT ![p] = @ - 1]
          /\ UNCHANGED <<pc, cmdl, parent, isTemporaryCopy>>
  /\ UNCHANGED <<machine, offer, surroundings>>

-----------------------------------------------------------------------------
(* The update itself, and the user.                                        *)

\* Download, verification and setup went well, in the window or without one.
UpdateInstalled(p) ==
  /\ pc[p] \in Resting
  /\ productOutdated' = FALSE
  /\ End(p)
  /\ UNCHANGED <<machine, updaterOutdated, surroundings>>

\* Anything failed, or the user closed the window.
UpdateNotInstalled(p) ==
  /\ pc[p] \in Resting
  /\ End(p)
  /\ UNCHANGED <<machine, offer, surroundings>>

\* "Remind me tomorrow".  A failure to store the time goes unnoticed.
SetPostponeData(p) ==
  /\ pc[p] = "window"
  /\ postponed' = TRUE
  /\ End(p)
  /\ UNCHANGED <<autostart, task, ads, offer, surroundings>>

DayPasses ==
  /\ postponed /\ postponed' = FALSE
  /\ UNCHANGED <<autostart, task, ads, offer, surroundings, pc, local>>

PublishRelease ==
  /\ ~productOutdated /\ productOutdated' = TRUE
  /\ UNCHANGED <<machine, updaterOutdated, surroundings, pc, local>>

PublishUpdater ==
  /\ ~updaterOutdated /\ updaterOutdated' = TRUE
  /\ Rare
  /\ UNCHANGED <<machine, productOutdated, selfUpdater, pc, local>>

\* The new executable comes without the stream and is run with --install.
SelfUpdateSucceeds(p) ==
  /\ selfUpdater /\ selfUpdater' = FALSE
  /\ updaterOutdated' = FALSE /\ ads' = FALSE
  /\ pc[p] = "free"
  /\ \/ NotRare /\ Goto(p, "construct")
        /\ Start(p, {"--install", "--skip-self-update"}, gone)
     \/ Rare /\ UNCHANGED <<pc, local>>               \* it cannot be run
  /\ UNCHANGED <<autostart, task, postponed, productOutdated>>

SelfUpdateFails ==
  /\ selfUpdater /\ selfUpdater' = FALSE
  /\ Rare
  /\ UNCHANGED <<machine, offer, pc, local>>

\* The machine stops at any moment.
Reboot ==
  /\ Rare
  /\ pc' = [q \in Processes |-> "free"]
  /\ cmdl' = [q \in Processes |-> {}]
  /\ parent' = [q \in Processes |-> gone]
  /\ isTemporaryCopy' = [q \in Processes |-> FALSE]
  /\ retries' = [q \in Processes |-> MAX_BUSY_RETRIES]
  /\ postponed' = FALSE /\ selfUpdater' = FALSE
  /\ UNCHANGED <<autostart, task, ads, offer>>

-----------------------------------------------------------------------------
Proceeds(p) ==
  \/ Construct(p)
  \/ RegisterAutostart(p) \/ DeleteTask(p) \/ RegisterTask(p) \/ ExtractSelfUpdater(p)
  \/ RemoveAutostart(p) \/ RemoveScheduledTask(p) \/ PurgePostponeData(p)
  \/ RequestUpdateInfoFails(p)
  \/ RunSelfUpdater(p) \/ RunSelfUpdaterFails(p) \/ NoSelfUpdate(p)
  \/ CopyExecutable(p) \/ GoOnInPlace(p) \/ LaunchCopy(p) \/ LaunchFails(p) \/ Leave(p)
  \/ NothingToDo(p) \/ UpdatePending(p) \/ UserBusy(p)

WinMain(p) == Proceeds(p) \/ UserAccepts(p)

Next ==
  \/ \E p \in Processes :
       \/ WinMain(p)
       \/ Logon(p) \/ Daily(p) \/ ByHand(p)
       \/ UpdateInstalled(p) \/ UpdateNotInstalled(p) \/ SetPostponeData(p)
       \/ SelfUpdateSucceeds(p)
  \/ SelfUpdateFails \/ DayPasses
  \/ PublishRelease \/ PublishUpdater \/ Reboot

\* Processes run, and whoever started one by hand dismisses the message it may
\* end with.  Days pass, users log on again, the scheduler keeps its schedule
\* and self-updaters come to an end; the last three need a slot,
\* which the machine has and the bound on slots may keep from them for a while.
\* That a self-updater ends assumes of its server that it does not stall the
\* transfer, which has no timeout (SelfUpdater.TransferEnds).  Nothing is assumed
\* of the user, of setups and of the publisher; so the busy check may go on to
\* its last try.
Fairness ==
  /\ \A p \in Processes : WF_vars(Proceeds(p))
  /\ WF_vars(DayPasses)
  /\ SF_vars(\E p \in Processes : Logon(p))
  /\ SF_vars(\E p \in Processes : Daily(p))
  /\ SF_vars(\E p \in Processes : SelfUpdateSucceeds(p))

Spec == Init /\ [][Next]_vars /\ Fairness

-----------------------------------------------------------------------------
MachineTypeOK ==
  /\ autostart \in BOOLEAN /\ task \in BOOLEAN /\ ads \in BOOLEAN /\ postponed \in BOOLEAN
  /\ selfUpdater \in BOOLEAN /\ rareEvents \in 0 .. MaxRareEvents
  /\ productOutdated \in BOOLEAN /\ updaterOutdated \in BOOLEAN

\* Type invariant.  A process in the busy check has a try left: the loop gives
\* up before the counter passes zero.
TypeOK ==
  /\ MachineTypeOK
  /\ pc \in [Processes -> Steps \cup Resting \cup {"free"}]
  /\ cmdl \in [Processes -> SUBSET Switches]
  /\ parent \in [Processes -> Processes \cup {gone}]
  /\ isTemporaryCopy \in [Processes -> BOOLEAN]
  /\ retries \in [Processes -> 1 .. MAX_BUSY_RETRIES]

\* "avoid accidental fork bomb": a temporary copy never launches a copy of its
\* own.  That a copy knows itself as one is not enough for it, since it does
\* not when its parent ended too early.
NoForkBomb == \A p \in Processes : IsTemporary(p) => pc[p] \notin {"launch", "leave"}

\* Autostart and task are given the path of the executable that registers them:
\* a temporary copy, which the next boot deletes, never does, not even one that
\* was launched from autostart and lost its parent before it looked.
OnlyOriginRegistered ==
  \A p \in Processes :
    IsTemporary(p) => pc[p] \notin {"registerAutostart", "deleteTask", "registerTask"}

\* "doesn't keep running in the background": every run ends, or comes to the
\* window or the setup it waits for.  The wait for the user is bounded.
RunsEnd ==
  \A p \in Processes : (pc[p] \in Steps) ~> (pc[p] \in Resting \cup {"free"})

\* "Self-healing: If run in autostart when the user logs on, it can make sure
\* that scheduled tasks (...) are configured": as long as it is in autostart,
\* the task comes back whenever it was lost.
TaskHealed == autostart ~> (task \/ ~autostart)

\* The newer updater that was announced cannot be installed, because the
\* library that would do it is missing: every run ends in launching it.
Starved == updaterOutdated /\ ~ads

\* Some run offers the update, or installs it silently.
Offered == \E p \in Processes : pc[p] \in Resting

\* While the task exists, the product is outdated and the user has time at last,
\* the update is offered again and again, through postponements, failures and
\* updates of the updater, unless the updater is starved.  It holds of products
\* that do without a temporary copy, whose point is "so on-the-fly upgrades in
\* the origin directory become possible".
UpdateOffered ==
  <>[](task /\ productOutdated) /\ <>[][\A p \in Processes : ~UserBusy(p)]_vars
    => []<>(Offered \/ Starved)
=============================================================================
