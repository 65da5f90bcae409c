---------------------------- MODULE UpdateWizard ----------------------------
(***************************************************************************)
(* The GUI of the updater: the frame loop of WinMain, the wizard it shows  *)
(* and the three tasks it starts with std::async and polls once a frame    *)
(* (download, verification, setup), down to the destruction of             *)
(* InstanceConfig when the window was closed.                              *)
(*                                                                         *)
(* An action of the main thread is one frame: at most one click, then the  *)
(* page's code.  The download worker is that of ReleaseDownload, step by   *)
(* step; the verification and the setup workers are coarse.  Verification  *)
(* is reduced to what it may answer for the bytes it is given: a checksum  *)
(* accepts the asset only, the signature checks may accept or refuse.      *)
(*                                                                         *)
(* Left out: drawing, progress numbers, messages, the help and error       *)
(* pages opened in the browser, and exceptions leaving the download or the *)
(* verification worker.                                                    *)
(***************************************************************************)
EXTENDS ReleaseDownload

VARIABLES
  currentPage, instStep,
  isBackDisabled, isCancelDisabled,
  status,                 \* what WinMain will return
  quitPosted,             \* WM_QUIT is in the message queue
  main,                   \* where the main thread is
  verifyTask, verdict,    \* the verification task and the answer it holds
  setupTask, setupResult, \* the setup task and the result it holds
  hasSingleRelease,       \* the manifest lists one release only
  strictVerification,     \* --strict-verification
  processToTerminate,     \* --terminate-process-before-update: none, alive, gone
  terminated,             \* history: the updater itself has terminated it
  accepted,               \* history: the file's bytes passed verification
  refused,                \* history: the file's bytes failed verification
  installed               \* history: a setup reported success

navVars == <<currentPage, instStep, isBackDisabled, isCancelDisabled>>
mainVars == <<quitPosted, main>>
verifyVars == <<verifyTask, verdict>>
setupVars == <<setupTask, setupResult, processToTerminate, terminated, installed>>
given == <<hasSingleRelease, strictVerification>>
trustVars == <<accepted, refused, given>>
wizardVars == <<navVars, status, mainVars, verifyVars, setupVars, trustVars>>
vars == <<downloadVars, wizardVars>>

\* The pages in their order in WizardPage.h.
Pages == {"Start", "SingleVersionSummary", "MultipleVersionsOverview",
          "DownloadAndInstall", "Finish"}

PageBefore(p) ==
  CASE p = "Finish"                   -> "DownloadAndInstall"
    [] p = "DownloadAndInstall"       -> "MultipleVersionsOverview"
    [] p = "MultipleVersionsOverview" -> "SingleVersionSummary"
    [] OTHER                          -> "Start"

InstSteps == {"Begin", "Downloading", "Verifying", "VerificationFailed",
              "DownloadFailed", "PrepareInstall", "InstallRunning",
              "InstallFailed", "InstallSucceeded"}

Init ==
  /\ DownloadInit
  /\ currentPage = "Start" /\ instStep = "Begin"
  /\ isBackDisabled = FALSE /\ isCancelDisabled = FALSE
  /\ status = "ERROR_SUCCESS" /\ quitPosted = FALSE /\ main = "loop"
  /\ verifyTask = "none" /\ verdict = FALSE
  /\ setupTask = "none" /\ setupResult = "none"
  /\ processToTerminate \in {"none", "alive"} /\ terminated = FALSE
  /\ accepted = FALSE /\ refused = FALSE /\ installed = FALSE
  /\ hasSingleRelease \in BOOLEAN /\ strictVerification \in BOOLEAN

-----------------------------------------------------------------------------
(* Mutated forms of definitions below, for checking that the properties can *)
(* fail; no specification uses them.                                       *)

\* The back button is never disabled.
ClickBackAlways ==
  /\ main = "loop" /\ ~quitPosted /\ currentPage # "Start"
  /\ currentPage' = LET p == PageBefore(currentPage)
                    IN IF p = "MultipleVersionsOverview" THEN "SingleVersionSummary"
                                                         ELSE p
  /\ UNCHANGED <<downloadVars, instStep, isBackDisabled, isCancelDisabled, status,
                 mainVars, verifyVars, setupVars, trustVars>>

\* Whatever the verification answered, the setup is prepared.
VerdictIgnored ==
  /\ main = "loop" /\ ~quitPosted
  /\ currentPage = "DownloadAndInstall" /\ instStep = "Verifying"
  /\ verifyTask = "ready"
  /\ verifyTask' = "none" /\ verdict' = FALSE
  /\ instStep' = "PrepareInstall"
  /\ accepted' = verdict /\ refused' = ~verdict
  /\ UNCHANGED <<downloadVars, currentPage, isBackDisabled, isCancelDisabled, status,
                 mainVars, setupVars, given>>

\* The result of the setup task is taken for a success.
SetupResultIgnored ==
  /\ main = "loop" /\ ~quitPosted
  /\ currentPage = "DownloadAndInstall" /\ instStep = "InstallRunning"
  /\ setupTask \in {"none", "ready"}
  /\ instStep' = "InstallSucceeded"
  /\ UNCHANGED <<downloadVars, currentPage, isBackDisabled, isCancelDisabled, status,
                 mainVars, verifyVars, setupVars, trustVars>>

\* An exception of the setup task is swallowed in every frame.
SetupExceptionSwallowed ==
  /\ main = "loop" /\ ~quitPosted
  /\ currentPage = "DownloadAndInstall" /\ instStep = "InstallRunning"
  /\ setupTask \in {"none", "ready"} /\ setupResult # "exception"
  /\ instStep' = IF setupResult = "succeeded" THEN "InstallSucceeded" ELSE "InstallFailed"
  /\ UNCHANGED <<downloadVars, currentPage, isBackDisabled, isCancelDisabled, status,
                 mainVars, verifyVars, setupVars, trustVars>>

\* The size of the file is taken for its checksum.
SizeComparedOnly == IF release.checksum THEN file.len = AssetSize ELSE ~strictVerification

\* A missing checksum is skipped in strict mode too.
StrictModeForgotten == release.checksum => file = [len |-> AssetSize, content |-> "asset"]

-----------------------------------------------------------------------------
(* The frame loop: navigation.                                             *)

\* The main thread draws frames until WM_QUIT is taken from the queue.
InLoop == main = "loop" /\ ~quitPosted

OnPage(p) == InLoop /\ currentPage = p

OnStep(s) == OnPage("DownloadAndInstall") /\ instStep = s

\* The back button, disabled on the first page.  The button is drawn before the
\* page, whose code runs in the same frame: whether the overview of several
\* versions is skipped or shown, its successor is the summary.
ClickBack ==
  /\ InLoop /\ currentPage # "Start" /\ ~isBackDisabled
  /\ currentPage' = LET p == PageBefore(currentPage)
                    IN IF p = "MultipleVersionsOverview" THEN "SingleVersionSummary"
                                                         ELSE p
  /\ UNCHANGED <<downloadVars, instStep, isBackDisabled, isCancelDisabled, status,
                 mainVars, verifyVars, setupVars, trustVars>>

ClickShowDetails ==
  /\ OnPage("Start")
  /\ isBackDisabled' = TRUE
  /\ currentPage' = IF hasSingleRelease THEN "SingleVersionSummary"
                                        ELSE "MultipleVersionsOverview"
  /\ UNCHANGED <<downloadVars, instStep, isCancelDisabled, status, mainVars,
                 verifyVars, setupVars, trustVars>>

ClickRemindMe ==
  /\ OnPage("Start")
  /\ isBackDisabled' = TRUE
  /\ status' = "NV_S_USER_POSTPONED"
  /\ quitPosted' = TRUE
  /\ UNCHANGED <<downloadVars, currentPage, instStep, isCancelDisabled, main,
                 verifyVars, setupVars, trustVars>>

\* The overview of several versions is a stub that goes on to the summary.
FrameMultipleVersions ==
  /\ OnPage("MultipleVersionsOverview")
  /\ isBackDisabled' = FALSE
  /\ currentPage' = "SingleVersionSummary"
  /\ UNCHANGED <<downloadVars, instStep, isCancelDisabled, status, mainVars,
                 verifyVars, setupVars, trustVars>>

FrameSummary ==
  /\ OnPage("SingleVersionSummary") /\ isBackDisabled
  /\ isBackDisabled' = FALSE
  /\ UNCHANGED <<downloadVars, currentPage, instStep, isCancelDisabled, status,
                 mainVars, verifyVars, setupVars, trustVars>>

ClickDownloadAndInstall ==
  /\ OnPage("SingleVersionSummary")
  /\ isBackDisabled' = FALSE
  /\ instStep' = "Begin"
  /\ currentPage' = "DownloadAndInstall"
  /\ UNCHANGED <<downloadVars, isCancelDisabled, status, mainVars, verifyVars,
                 setupVars, trustVars>>

ClickCancel ==
  /\ InLoop /\ ~isCancelDisabled
  /\ quitPosted' = TRUE
  /\ UNCHANGED <<downloadVars, navVars, status, main, verifyVars, setupVars, trustVars>>

\* The window's own close button works whatever the wizard disables.
CloseWindow ==
  /\ InLoop
  /\ quitPosted' = TRUE
  /\ UNCHANGED <<downloadVars, navVars, status, main, verifyVars, setupVars, trustVars>>

FrameFinish ==
  /\ OnPage("Finish")
  /\ quitPosted' = TRUE
  /\ UNCHANGED <<downloadVars, navVars, status, main, verifyVars, setupVars, trustVars>>

Navigation ==
  \/ ClickBack \/ ClickShowDetails \/ ClickRemindMe \/ ClickDownloadAndInstall
  \/ ClickCancel \/ CloseWindow

-----------------------------------------------------------------------------
(* The frame loop: the steps of the page DownloadAndInstall.               *)

SetupRunning == setupTask \in {"starting", "launching", "running"}

\* The first frame of a round resets all three tasks (dropping a future of
\* std::async waits for its task; a verification still running is kept) and
\* starts the download.
FrameBegin ==
  /\ OnStep("Begin")
  /\ downloadTask # "running" /\ ~SetupRunning
  /\ isBackDisabled' = TRUE /\ isCancelDisabled' = TRUE
  /\ LaunchDownload
  /\ setupTask' = "none" /\ setupResult' = "none"
  /\ verifyTask' = IF verifyTask = "ready" THEN "none" ELSE verifyTask
  /\ instStep' = "Downloading"
  /\ accepted' = FALSE
  /\ UNCHANGED <<currentPage, status, mainVars, verdict, processToTerminate,
                 terminated, refused, installed, given>>

\* The download succeeded: its task is dropped, and the same frame goes on to
\* the verification step.
FrameDownloadSucceeded ==
  /\ OnStep("Downloading")
  /\ result = "ok"
  /\ ResetReleaseDownloadState
  /\ instStep' = "Verifying"
  /\ UNCHANGED <<currentPage, isBackDisabled, isCancelDisabled, status, mainVars,
                 verifyVars, setupVars, trustVars>>

FrameDownloadFailed ==
  /\ OnStep("Downloading")
  /\ result # "ok"
  /\ ResetReleaseDownloadState
  /\ instStep' = "DownloadFailed"
  /\ isBackDisabled' = FALSE /\ isCancelDisabled' = FALSE
  /\ status' = "NV_E_DOWNLOAD_FAILED"
  /\ UNCHANGED <<currentPage, mainVars, verifyVars, setupVars, trustVars>>

\* "Retry now" and "Retry download" start over.
ClickRetry ==
  /\ OnStep("DownloadFailed") \/ OnStep("VerificationFailed")
  /\ instStep' = "Begin"
  /\ UNCHANGED <<downloadVars, currentPage, isBackDisabled, isCancelDisabled, status,
                 mainVars, verifyVars, setupVars, trustVars>>

FrameStartVerification ==
  /\ OnStep("Verifying")
  /\ verifyTask = "none"
  /\ \/ verifyTask' = "running" /\ UNCHANGED instStep
     \/ instStep' = "VerificationFailed" /\ UNCHANGED verifyTask
  /\ UNCHANGED <<downloadVars, currentPage, isBackDisabled, isCancelDisabled, status,
                 mainVars, verdict, setupVars, trustVars>>

FrameVerificationFinished ==
  /\ OnStep("Verifying")
  /\ verifyTask = "ready"
  /\ verifyTask' = "none" /\ verdict' = FALSE
  /\ instStep' = IF verdict THEN "PrepareInstall" ELSE "VerificationFailed"
  /\ accepted' = verdict /\ refused' = ~verdict
  /\ UNCHANGED <<downloadVars, currentPage, isBackDisabled, isCancelDisabled, status,
                 mainVars, setupVars, given>>

FrameVerificationFailed ==
  /\ OnStep("VerificationFailed")
  /\ isBackDisabled \/ isCancelDisabled \/ status # "NV_E_SIGNATURE_INVALID"
  /\ isBackDisabled' = FALSE /\ isCancelDisabled' = FALSE
  /\ status' = "NV_E_SIGNATURE_INVALID"
  /\ UNCHANGED <<downloadVars, currentPage, instStep, mainVars, verifyVars, setupVars,
                 trustVars>>

\* InvokeSetupAsync does nothing while a setup task exists; its answer is not
\* looked at.
FramePrepareInstall ==
  /\ OnStep("PrepareInstall")
  /\ setupTask' = IF setupTask = "none" THEN "starting" ELSE setupTask
  /\ instStep' = "InstallRunning"
  /\ UNCHANGED <<downloadVars, currentPage, isBackDisabled, isCancelDisabled, status,
                 mainVars, verifyVars, setupResult, processToTerminate, terminated,
                 installed, trustVars>>

\* The setup task is ready.  It is dropped only when the next round begins.
\* An exception it holds is thrown again here and caught nowhere.
FrameInstallFinished ==
  /\ OnStep("InstallRunning")
  /\ ~SetupRunning
  /\ main' = IF setupResult = "exception" THEN "terminated" ELSE main
  /\ instStep' = CASE setupResult = "succeeded" -> "InstallSucceeded"
                   [] setupResult = "exception" -> instStep
                   [] OTHER                     -> "InstallFailed"
  /\ UNCHANGED <<downloadVars, currentPage, isBackDisabled, isCancelDisabled, status,
                 quitPosted, verifyVars, setupVars, trustVars>>

FrameInstallFailed ==
  /\ OnStep("InstallFailed")
  /\ isBackDisabled \/ isCancelDisabled \/ status # "NV_E_SETUP_FAILED"
  /\ isBackDisabled' = FALSE /\ isCancelDisabled' = FALSE
  /\ status' = "NV_E_SETUP_FAILED"
  /\ UNCHANGED <<downloadVars, currentPage, instStep, mainVars, verifyVars, setupVars,
                 trustVars>>

FrameInstallSucceeded ==
  /\ OnStep("InstallSucceeded")
  /\ status' = "NV_S_UPDATE_FINISHED"
  /\ currentPage' = "Finish"
  /\ UNCHANGED <<downloadVars, instStep, isBackDisabled, isCancelDisabled, mainVars,
                 verifyVars, setupVars, trustVars>>

-----------------------------------------------------------------------------
(* Leaving the loop, and the destruction of InstanceConfig.                *)

\* WM_QUIT was taken from the queue.
Quit ==
  /\ main = "loop" /\ quitPosted
  /\ RequestAbortDownload
  /\ main' = "waitDownload"
  /\ UNCHANGED <<navVars, status, quitPosted, verifyVars, setupVars, trustVars>>

\* WaitForDownloadToFinish returned; WinMain cleans up and returns.
LeaveWinMain ==
  /\ main = "waitDownload" /\ downloadTask # "running"
  /\ main' = "teardown"
  /\ UNCHANGED <<downloadVars, navVars, status, quitPosted, verifyVars, setupVars,
                 trustVars>>

\* The destructor's body: it aborts and waits for a download once more and
\* deletes the temporary file, which fails while another program holds it.  It
\* waits neither for a verification nor for a setup: their futures are members,
\* which are destroyed after it.
DestroyConfig ==
  /\ main = "teardown" /\ downloadTask # "running"
  /\ abortDownloadRequested' = TRUE
  /\ \/ UNCHANGED <<file, trustVars>>
     \/ /\ file' = EmptyFile /\ accepted' = FALSE /\ refused' = FALSE
        /\ UNCHANGED given
  /\ main' = "join"
  /\ UNCHANGED <<configVars, localTempFilePath, taskVars, pc, budgetVars, attemptVars,
                 badbit, fileFaults, navVars, status, quitPosted, verifyVars, setupVars>>

\* The destruction of the futures waits for the tasks behind them.
JoinTasks ==
  /\ main = "join"
  /\ downloadTask # "running" /\ verifyTask # "running" /\ ~SetupRunning
  /\ main' = "exited"
  /\ UNCHANGED <<downloadVars, navVars, status, quitPosted, verifyVars, setupVars,
                 trustVars>>

Shutdown == Quit \/ LeaveWinMain \/ DestroyConfig \/ JoinTasks

\* What the main thread does without a click.
Frame ==
  \/ FrameMultipleVersions \/ FrameSummary \/ FrameFinish
  \/ FrameBegin \/ FrameDownloadSucceeded \/ FrameDownloadFailed
  \/ FrameStartVerification \/ FrameVerificationFinished \/ FrameVerificationFailed
  \/ FramePrepareInstall \/ FrameInstallFinished
  \/ FrameInstallFailed \/ FrameInstallSucceeded
  \/ Shutdown

-----------------------------------------------------------------------------
(* The workers.  std::terminate takes them down with the main thread.      *)

Alive == main # "terminated"

DownloadWorker ==
  /\ Alive
  /\ Worker
  /\ refused' = (refused /\ file' = file)
  /\ UNCHANGED <<navVars, status, mainVars, verifyVars, setupVars, accepted,
                 given>>

\* VerifyReleaseIntegrity: the checksum, then the signature policy.
MayPass ==
  IF release.checksum THEN file = [len |-> AssetSize, content |-> "asset"]
                      ELSE ~strictVerification

VerifyReleaseIntegrity ==
  /\ Alive
  /\ verifyTask = "running"
  /\ verdict' \in {FALSE, MayPass}
  /\ verifyTask' = "ready"
  /\ UNCHANGED <<downloadVars, navVars, status, mainVars, setupVars, trustVars>>

SetupReturns(r) ==
  /\ setupTask' = "ready"
  /\ setupResult' = r

\* The process to terminate is terminated first.
SetupTerminatesProcess ==
  /\ Alive
  /\ setupTask = "starting"
  /\ \/ processToTerminate = "none" /\ setupTask' = "launching"
        /\ UNCHANGED <<setupResult, processToTerminate, terminated>>
     \/ processToTerminate = "alive" /\ setupTask' = "launching"
        /\ processToTerminate' = "gone" /\ terminated' = TRUE /\ UNCHANGED setupResult
     \/ processToTerminate # "none" /\ SetupReturns("terminateFailed")
        /\ UNCHANGED <<processToTerminate, terminated>>
  /\ UNCHANGED <<downloadVars, navVars, status, mainVars, verifyVars, installed,
                 trustVars>>

\* The payload is opened: an executable or a shell document is started, an
\* archive is read.
SetupLaunches ==
  /\ Alive
  /\ setupTask = "launching"
  /\ \/ file.len > 0 /\ setupTask' = "running" /\ UNCHANGED setupResult
     \/ SetupReturns("launchFailed")
  /\ UNCHANGED <<downloadVars, navVars, status, mainVars, verifyVars,
                 processToTerminate, terminated, installed, trustVars>>

\* The setup process exits, or the extraction ends or throws.
SetupFinishes ==
  /\ Alive
  /\ setupTask = "running"
  /\ \E r \in {"succeeded", "badExitCode", "extractionFailed", "exception"} :
       /\ SetupReturns(r)
       /\ installed' = (installed \/ r = "succeeded")
  /\ UNCHANGED <<downloadVars, navVars, status, mainVars, verifyVars,
                 processToTerminate, terminated, trustVars>>

ExecuteSetup == SetupTerminatesProcess \/ SetupLaunches \/ SetupFinishes

\* The process to terminate exits by itself.
ProcessExits ==
  /\ processToTerminate = "alive"
  /\ processToTerminate' = "gone"
  /\ UNCHANGED <<downloadVars, navVars, status, mainVars, verifyVars, setupTask,
                 setupResult, terminated, installed, trustVars>>

Halted == main \in {"exited", "terminated"} /\ UNCHANGED vars

Next ==
  \/ Navigation \/ ClickRetry \/ Frame
  \/ DownloadWorker \/ VerifyReleaseIntegrity \/ ExecuteSetup
  \/ ProcessExits \/ Halted

\* Fairness: frames are drawn while the window is visible, the workers have
\* threads of their own, and a started setup need never exit.  No click is fair.
Spec ==
  /\ Init /\ [][Next]_vars
  /\ WF_vars(Frame) /\ WF_vars(DownloadWorker) /\ WF_vars(VerifyReleaseIntegrity)
  /\ WF_vars(SetupTerminatesProcess) /\ WF_vars(SetupLaunches)

-----------------------------------------------------------------------------
WizardTypeOK ==
  /\ DownloadTypeOK
  /\ currentPage \in Pages /\ instStep \in InstSteps
  /\ isBackDisabled \in BOOLEAN /\ isCancelDisabled \in BOOLEAN
  /\ status \in {"ERROR_SUCCESS", "NV_S_USER_POSTPONED", "NV_S_UPDATE_FINISHED",
                 "NV_E_DOWNLOAD_FAILED", "NV_E_SIGNATURE_INVALID", "NV_E_SETUP_FAILED"}
  /\ quitPosted \in BOOLEAN
  /\ main \in {"loop", "waitDownload", "teardown", "join", "exited", "terminated"}
  /\ verifyTask \in {"none", "running", "ready"} /\ verdict \in BOOLEAN
  /\ setupTask \in {"none", "starting", "launching", "running", "ready"}
  /\ setupResult \in {"none", "succeeded", "badExitCode", "terminateFailed",
                      "launchFailed", "extractionFailed", "exception"}
  /\ processToTerminate \in {"none", "alive", "gone"}
  /\ terminated \in BOOLEAN
  /\ accepted \in BOOLEAN /\ refused \in BOOLEAN /\ installed \in BOOLEAN
  /\ hasSingleRelease \in BOOLEAN /\ strictVerification \in BOOLEAN

\* The three tasks share the temporary file without a lock: no click, retry or
\* window close ever has two of them at work, and none is ever at work when a
\* new round begins (whose resets would freeze the window).
TasksDoNotOverlap ==
  /\ downloadTask = "running" => verifyTask # "running" /\ ~SetupRunning
  /\ verifyTask = "running" => ~SetupRunning
  /\ OnStep("Begin") =>
       downloadTask # "running" /\ verifyTask # "running" /\ ~SetupRunning

\* Whenever a setup is at work while the window is open, the bytes on disk are
\* those that passed this round's verification, and with a checksum they are
\* the asset's.
SetupRunsVerifiedFile ==
  (main = "loop" /\ SetupRunning) =>
    /\ accepted
    /\ release.checksum => file = [len |-> AssetSize, content |-> "asset"]

\* In strict mode ("Checksum absent: reject") no round, retry or leftover file
\* brings a setup to work on anything but the asset of a release with a checksum.
StrictInstallsAsset ==
  (strictVerification /\ main = "loop" /\ SetupRunning) =>
    release.checksum /\ file = [len |-> AssetSize, content |-> "asset"]

\* WinMain reports a finished update only if a setup of this run succeeded.
FinishedMeansInstalled == status = "NV_S_UPDATE_FINISHED" => installed

\* The wizard implements the promise of VerifiedInstall.
VI == INSTANCE VerifiedInstall WITH
        Payloads   <- [len : Nat, content : Contents],
        Nothing    <- EmptyFile,
        Genuine    <- [len |-> AssetSize, content |-> "asset"],
        pinned     <- release.checksum,
        payload    <- file,
        trusted    <- accepted,
        installing <- setupTask = "running"

ImplementsVerifiedInstall == VI!Spec

\* After the window was closed the process ends, unless a setup is still running.
QuitEnds == quitPosted ~> (main \in {"exited", "terminated"} \/ setupTask = "running")

\* A round under way comes to an outcome the user sees, whatever server, disk and
\* workers do, an exception of the setup task included, unless the user leaves or
\* the setup process never exits.
RoundEnds ==
  (OnPage("DownloadAndInstall") /\ setupTask # "running") ~>
    \/ instStep \in {"DownloadFailed", "VerificationFailed", "InstallFailed",
                     "InstallSucceeded"}
    \/ currentPage # "DownloadAndInstall"
    \/ setupTask = "running" \/ ~InLoop

\* As WaitForDownloadToFinish has it, the worker observes an abort that was
\* requested: once the main loop waits for it, it makes no further request.
AbortIsObserved ==
  [][main = "waitDownload" => transfers' <= transfers]_vars

\* The file a verification or a setup was started on is there as long as it works,
\* as the destructor's own wait for the download would have it for all three tasks.
FileOutlivesTasks ==
  [][verifyTask = "running" \/ SetupRunning => file' = file]_vars

\* As the button "Retry download" has it, a damaged file that failed the
\* checksum is fetched again before it is offered for verification once more.
RetryDownloadsAgain ==
  (OnStep("Verifying") /\ release.checksum
     /\ file # [len |-> AssetSize, content |-> "asset"]) => ~refused

\* As the page InstallFailed has it ("to retry"), the retry is not refused
\* because the first attempt has already terminated the process.
RetryAfterTermination ==
  ~(terminated /\ setupResult = "terminateFailed")
=============================================================================
