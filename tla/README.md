# A TLA+ verification of the Vīcius updater

This directory holds a formal model of the updater in `src/`: TLA+ modules, TLC
configurations that check them on small instances, and proofs of theorems about them
for every value of their constants. `PROJECT.json` ties every definition that models
code to the lines it stands for, and lists the runs, mutants, findings, hazards and
theorems.

Contents: [the system](#the-system) · [what is hard about it](#what-is-hard-about-it) ·
[the modules](#the-modules) · [the runs](#the-runs) · [bounds](#bounds) ·
[fairness](#fairness) · [the proofs](#the-proofs) · [where code and claims
disagree](#where-code-and-claims-disagree) · [what is not
modelled](#what-is-not-modelled) · [plan](#plan) · [running it](#running-it)

## The system

Vīcius is a Windows updater that a product ships beside its own program. One executable
is run at logon, by a scheduled task, or by hand. It asks a web server for a JSON
manifest, compares versions, and, if the product is outdated, shows a wizard that
downloads a setup, verifies it, and runs it. An updater that learns of a newer version of
itself replaces its own executable with the help of a DLL that it carries in an alternate
data stream.

| Part | State | Operations | Where |
|---|---|---|---|
| Main flow | command line, exit code, tries of the busy check | `WinMain` up to the window: install, uninstall, purge, manifest, self-update, temporary copy, detection, postpone, busy wait, silent update | `main.cpp` 51-407 |
| Wizard | page, step of the installation page, two disabled buttons, exit code, `WM_QUIT` | one frame per iteration: at most one click, then the page's code | `main.cpp` 524-1151, `WizardPage.h`, `DownloadAndInstall.hpp` |
| Tasks | three optional futures, abort flag, selected release, path of the temporary file | `DownloadReleaseAsync`, `VerifyReleaseIntegrityAsync`, `InvokeSetupAsync`, their status and reset calls, destructor | `InstanceConfig.hpp`, `InstanceConfig.Download.cpp`, `InstanceConfig.cpp` 527-567 |
| Download worker | retry counter, timeout, resume offset, stream, temporary file | `DownloadRelease` with libcurl's callbacks | `InstanceConfig.Web.cpp` 47-681 |
| Manifest | `remote` manifest, highest version in the registry | `RequestUpdateInfo`, `VerifyManifestSignature`, `CheckAndUpdateManifestVersion` | `InstanceConfig.Web.cpp` 717-1023, `InstanceConfig.Security.cpp` 517-736 |
| Verification | verify task, verdict, settings merged from five sources, what was read of the updater's own signature | `VerifyReleaseIntegrity`, the Authenticode policy and its comparisons | `InstanceConfig.Security.cpp` |
| Signature reading | memory and handles of one call, the structures handed to the caller | `NVerifyFileSignature`, `ExtractSignatureInformation`, `WithSigningCert` | `NAuthenticode.cpp`, `Crypto.cpp` |
| Setup execution | setup task, result, process to terminate, directory of the extraction, installation | `ExecuteSetup`: terminate, launch or extract and copy, wait, classify the exit code | `InstanceConfig.Setup.cpp` |
| Self-updater | the executable, a backup and a download per instance, polls of the parent | `RunSelfUpdater`, `PerformUpdate`, `RestoreBackup` | `InstanceConfig.Updater.cpp`, `dll.cpp` |
| Postponing | a volatile time stamp in the registry | set, test, purge | `InstanceConfig.Postpone.cpp` |
| Detection | method and detection in force, releases received, the product on the machine | constructor, merge of the settings, sorting, `IsInstalledVersionOutdated`, callbacks of templates | `InstanceConfig.cpp` 577-908, `InstanceConfig.Template.cpp`, `UpdateRelease.cpp`, `util.cpp` |
| Autostart | Run key, scheduled task | register, remove | `InstanceConfig.cpp`, `InstanceConfig.TaskScheduler.cpp` |
| Changelog | cache of images, a future per image | one look per image and frame, a fetch on a thread of its own | `markdown.cpp`, `Http.cpp` |
| Presentation | none | layout of markdown, dialogs, drawing | `imgui_md.cpp`, `InstanceConfig.Dialogs.cpp`, `ui.cpp` |

How they interact:

- The main thread *calls* the manifest retrieval, and *launches* the three workers with
  `std::async`. It learns of their end by polling a future once per frame. Resetting a
  future of `std::async` blocks until its task has ended.
- The workers share the temporary file and nothing guards it: which of them may touch it
  follows from the step the wizard is at.
- The images of the changelog are fetched by threads that belong to a static object, which
  outlives `WinMain` and with it the Direct3D device and libcurl that they use.
- The verification task compares with what the main thread read of the updater's own file,
  and the destructor frees that before it waits for the task.
- The one message to a worker is the flag `abortDownloadRequested`, read by libcurl's
  progress callback and at the head of the retry loop.
- Separate processes share state too. Several updaters share the registry value
  `ManifestVersion`. Several self-updaters share the executable they replace. No mutex
  keeps a second instance of either from running.
- A run of the updater *starts* others: the temporary copy it hands the update to, the
  self-updater that will run it with `--install`, and, through the Run key and the
  scheduled task, the runs of later days. Between them lives what the machine keeps: the
  Run value, the task, the stream with the self-updater, the postponement.

## What is hard about it

`PROJECT.json` lists each hazard at the line where it bites. In groups:

- **Interleavings.** A click, a close of the window, and the end of a task may fall into
  any frame; a task has its own thread; two updaters or self-updaters may run at a time.
- **Partial failure.** Writes, truncations, moves, copies and registry calls fail one by
  one, and many of these failures are tolerated by intent.
- **Failures half-way.** An archive is copied over the installation file by file; what an
  attempt that failed or was killed leaves behind is what the next one starts from.
- **Many sources of one setting.** Defaults, configuration file, command line, manifest and
  release each may say how a release is verified and how the product is detected.
- **Many forms of one version.** A leading `v`, blanks, three parts or four, pre-releases,
  in manifests, registry, resources and templates.
- **Resuming.** A download is put together from several replies with statuses the server
  is free to choose, over a file left by an earlier attempt or round.
- **Retries that do not count.** A restart after an ignored range consumes no retry; a 404
  ends a candidate at once.
- **Crashes.** The self-updater moves the executable away first; the updater may be killed
  between reading and writing the registry.
- **Days.** Postponements, busy users, a lost task, an outdated updater and reboots may each
  swallow a run, and what one run leaves behind decides what the next one does.
- **Parent and child.** A temporary copy looks for the process that launched it, which ends
  at the same moment, and is handed every switch of it.
- **Stale results.** A verdict, a setup result, an exit code and an abort flag all survive
  the operation they belong to.

What makes each part correct is stated as properties:

| Part | Correct if |
|---|---|
| Download worker | no byte lands at the wrong offset (`NeverScrambled`), an accepted file is whole (`AcceptedFileIsWhole`), a call makes a bounded number of requests (`RetryBudget`) and returns (`CallReturns`) |
| Wizard and tasks | no two tasks at work at once (`TasksDoNotOverlap`), every round comes to an outcome (`RoundEnds`), a closed window ends the process (`QuitEnds`) |
| Verification and setup | only bytes that passed this round's verification are installed (`SetupRunsVerifiedFile`, `ImplementsVerifiedInstall`), in strict mode only the asset itself (`StrictInstallsAsset`), success is reported only after success (`FinishedMeansInstalled`) |
| Verification policy | a setup that is started is one that the sources of the settings ask for (`LaunchedAsPromised`), a renewed certificate of the publisher passes (`RenewalAccepted`), each call that reads a signature frees once what it allocated, but for what an access violation loses (`HandlesBalanced`), and the process ends (`ProcessEnds`) |
| Setup execution | an error leaves the installation alone (`ErrorLeavesInstallation`), a success is one (`InstalledAsWanted`, `SuccessIsTheSetups`), files of the user survive unless the lookup misses what the release lists for them (`UserFilesSurvive`), attempts end (`AttemptEnds`) |
| Detection | what is offered is newer (`OfferedIsNewer`), what counts as current is the newest (`CurrentIsNewest`), a forced version decides (`ForcedVersionDecides`) |
| Changelog | one fetch per image (`OneFetchPerImage`), a cached image is kept (`CachedIsKept`), one that can be loaded is shown (`LoadableShown`), the process ends (`ProcessEnds`) with no fetch at work (`NoFetchLeftRunning`) |
| Manifest | no older manifest than one stored, as far as overlapping updaters and failed reads leave it in force (`NoRollback`), bounded requests (`RequestBudget`), and never locked out of the newest one (`RunsReachNewest`) |
| Runs of the updater | a pending update is offered again and again (`UpdateOffered`), the task comes back (`TaskHealed`), every run ends or comes to a point where it waits for user or setup (`RunsEnd`) |
| Temporary copy | it never launches another (`NoForkBomb`), and never registers itself (`OnlyOriginRegistered`) |
| Self-updater | no unverified bytes under the executable's name (`OnlyVerifiedInPlace`), a complete copy left at every moment (`GoodCopyExists`), and in place at the end (`RestoredWhenDone`), which comes unless a server stalls the transfer (`InstanceEnds`) |

## The modules

```
VerifiedInstall          abstract: what an installation from a verified payload promises
      ^ refined by
UpdateWizard             frame loop, pages, three tasks, shutdown
      | EXTENDS
ReleaseDownload          the download worker, step by step

UpdaterRuns              WinMain up to the window, of several processes over days
ManifestFetch            manifest retrieval of repeated, concurrent updaters
SelfUpdater              several self-updaters over one directory
SetupExecution           the setup task, archive and launched payload, attempt by attempt
ChangelogImages          frames, fetches of images, the end of the process

VerificationPolicy       settings, verification task, destructor
      | EXTENDS
SignatureReading         one call that reads a signature, step by step

ProductDetection         settings, releases and product, over many runs
      | EXTENDS
TemplateCallbacks        what a detection template renders to on a machine
      | EXTENDS
VersionText              version texts and how they compare
```

The modules overlap where a worker is coarse in one and full in another: `UpdateWizard` knows
of the verification and the setup only their outcomes, which `VerificationPolicy` and
`SetupExecution` have in full; `UpdaterRuns` reads whether the product is outdated, which
`ProductDetection` decides.

`MC<Module>` extends a module with the values of its constants for TLC;
`<Module>Proofs` extends it with theorems; those about `ReleaseDownload` stand in
`UpdateWizardProofs` before those of the wizard that rest on them.

### ReleaseDownload

The release asset is a row of `AssetSize` chunks. The temporary file is a length and a
verdict on its bytes: a prefix of the asset, something with an error page in it, or
scrambled (asset bytes at the wrong offset). The retry loop is the variable `pc`:

| `pc` | Code | Actions |
|---|---|---|
| `entry` | 47-134 | `EnterCall`, `EnterCallFails` |
| `attempt` | 198-270 | `AbortBeforeAttempt`, `ReuseLocalFile`, `StartAttempt`, `OpenFails` |
| `transfer` | 272-480 | `ReceiveHeaders`, `WriteBody`, `WriteErrorBody` (the callbacks); `TransferCompletes`, `TransferAborted`, `TransferFails`, `RangeIgnored` (how `perform` ends) |
| `evaluate` | 482-678 | `EvaluateSuccess`, `EvaluateNotFound`, `EvaluateTruncationFails`, `EvaluateRetry`, `EvaluateGiveUp` |

The server answers each request with any status and drops the connection at any byte. A
write or a truncation may fail. `badbit` is the state of the stream after a failed write:
the exception mask of lines 126-128 holds `failbit` only, so later writes are dropped in
silence. `curlChecksRange` covers libcurl with and without its own refusal of a resumed
reply that ignores the range.

The GUI's calls (`DownloadReleaseAsync`, `ResetReleaseDownloadState`,
`RequestAbortDownload`) are actions of their own here, so this module is checked for every
order of calls, also for those the wizard never makes.

### UpdateWizard

One action of the main thread is one frame. It extends `ReleaseDownload`, so the download
inside the wizard is the whole worker and not a stub. The verification and setup workers
are coarse: the verification may refuse anything, and may accept what `MayPass` allows (a
checksum accepts the asset only; without one, strict mode refuses). A setup may terminate
a process, fail to launch, exit well or badly, fail to extract, throw, or never exit. A
throwing setup task takes the process down in the frame that reads its future
(`main = "terminated"`). After `WM_QUIT` come the abort, the wait, the destructor and the
joins: `Quit`, `LeaveWinMain`, `DestroyConfig`, `JoinTasks`, in the order of the code: the
destructor waits for the download only, deletes the temporary file, and a verification or a
setup at work is joined after that, when the futures go.

History variables (`accepted`, `refused`, `terminated`, `installed`) record what the
properties talk about and influence nothing.

### VerifiedInstall

The abstract promise: a payload changes only while it is neither trusted nor being
installed; it is trusted only if it matches the checksum there may be; an installation
starts only from a trusted payload. `UpdateWizard` implements it with
`payload <- file`, `trusted <- accepted`, `installing <- setupTask = "running"`.

### UpdaterRuns

`WinMain` from the command line to the window, as the steps of a process, and the ways a
process is started: at logon, by the task, by hand, by an updater (`LaunchCopy`), by a
self-updater (`SelfUpdateSucceeds`). A process is a slot that is used again; its switches,
its parent and what it believes of itself (`isTemporaryCopy`) are its own, what the machine
keeps is shared.

| `pc` | Code (`main.cpp`) | Actions |
|---|---|---|
| `construct` | 93-116 | `Construct` |
| `registerAutostart`, `deleteTask`, `registerTask`, `extract` | 118-179 | of the same names; `CreateScheduledTask` is two steps, since it deletes the task before it builds it anew |
| `removeAutostart`, `removeTask`, `purge` | 183-220 | `RemoveAutostart`, `RemoveScheduledTask`, `PurgePostponeData` |
| `request` | 222-251 | `RequestUpdateInfoFails`, `RunSelfUpdater`, `RunSelfUpdaterFails`, `NoSelfUpdate` |
| `copy`, `launch`, `leave` | 253-257 | `CopyExecutable`, `GoOnInPlace`, `LaunchCopy`, `LaunchFails`, `Leave` |
| `detect` | 259-283 | `NothingToDo`, `UpdatePending` |
| `busyCheck` | 285-315 | `UserAccepts`, `UserBusy` |
| `window`, `silentUpdate` | 319-1151 | `UpdateInstalled`, `UpdateNotInstalled`, `SetPostponeData`: the outcomes of what `UpdateWizard` has in full |

The two races of a temporary copy are there: its origin ends (`Leave`) before or after it
looks for its parent (`Construct`), and a parent that ended may have left its number to
another program. A copy that has lost its parent does not know that it is one; that it
launches no further copy is then due to Windows alone, which refuses to overwrite the
running image the new copy would have the name of (`TemporaryImageInUse`).

### SetupExecution

`ExecuteSetup`, invoked again and again: by the user, or by a later run of the updater after
one that was killed (`NextRun`, `Killed`). A file is absent, old, new or torn, in the
directory of the extraction and in the installation.

| `pc` | Code (`InstanceConfig.Setup.cpp`) | Actions |
|---|---|---|
| `terminate`, `open` | 213-262 | `TerminatesProcess`, `OpenPayload` |
| `launch`, `running` | 349-466 | `LaunchDocument`, `LaunchProgram`, `SetupExits`, `WaitCancelled` |
| `extract` | 107-207 | `ExtractEntry`, `ReadFails`, `WriteFails`, `CreateFails`, `EntryFails` |
| `create` | 254-320 | `StartCreating`, `CreateFolder`, `CopyFile`, `LeaveForDeletion`, `CopyFails` |
| `delete` | 321-347 | `StartDeleting`, `DeletePath`, `DeleteFails`, `EndDeleting` |
| `classify` | 468-508 | `Classify` |

The dispositions are looked up as the code does, with the path as Windows spells it
(`Overridden`), while the deletions take the paths of the release as they are. What belongs to
the user is told from what the release lists (`Listed`, `UsersFile`) and not from that lookup;
the files whose override it misses (`Missed`) are the exception of `UserFilesSurvive`. Nothing in
the code requests a stop, so a wait is cancelled only by a handle it cannot wait for, which
is what the shell may leave of a document. A release is one of a set of records, so that
archives, dispositions and success codes are constants of the instance and arbitrary in the
proofs.

### SignatureReading and VerificationPolicy

`SignatureReading` is one call of the three functions that read a signed file, from the copy
of the path to the clean-up. Every call into Crypt32 may fail. `live` counts what is allocated of
each kind, `held` are the pointers of the call that are set. At its end (`CleanUp`) a call frees,
of the pointers that are set, those its own epilogue names (`Epilogue`, a list for each of the
three), and the others are allocated for good. After an access violation (`Fault`) the handler
frees the strings and the path; what the worker's other pointers held stays allocated, which
`lost` remembers. The three share the actions they have in common; where they differ each has its own
(`OptionalSigner` and `RequiredSigner`, `CopyCertNames`, `FindSignerCert` and
`HashSignerCert`, ...).

`VerificationPolicy` adds the settings and the two threads. The constructor reads the
updater's own file, applies the configuration file setting by setting (a file that cannot be
read ends half-way), then `--strict-verification` (`ApplyStrict`); the manifest may replace
what is in force (`MergeShared`), and a release may replace that again (`EffectivePolicy`,
...). `VerifyChecksum`, `JudgeChain`, `JudgeExtraction`, `ComparePin`, `ComparePublisher` and
`NothingToCompare` are the way of one verification. `CloseWindow` frees the information on
the updater while the task may be at any of these steps; `CompareFreed` is the comparison
that then reads an empty text, freed memory, or none. A digest and a field of a certificate
are values that are equal or not.

A refusal has a text, of which the model keeps what the words "not signed" may be in: the
sentence on an unsigned file and, on a mismatch of publishers, the subjects of the two
(`SubjectTexts`). In the mode `WhenPresent` a text with these words anywhere in it passes
(`Refuse`). Which subjects hold them is the constant `SayNotSigned`. The variables `local` and
`shared` remember what each source said, so that the promise is told from the sources and not
from the merge.

### VersionText, TemplateCallbacks and ProductDetection

A version text is a record of its parts (a leading `v`, white space, numbers, a pre-release,
build metadata), so that `toSemVerCompatible`, the parser and `CompareVersions` are operators
on records. A template is one callback or the comparison of its value with the newest
release; a world is what callbacks look at. `ProductDetection` has the runs of the updater:
`Construct` (configuration file and command line), `RequestUpdateInfo` (sorting, merge of
method and detection, each by itself), `Detect` with one operator per method, the user's
choice of a release, its installation. Between any two steps the vendor publishes and
withdraws, and others damage what a setup left. The number of a build says which is newer,
independently of how its version is written; the properties compare what the code concludes
with that. `whole` is history: what was damaged is promised nothing.

### ChangelogImages

One action per branch of `GetImageTexture` on a frame (`StartFetch`, `TextureReady`,
`NothingReady`) and per step of a fetch's thread (`HttpGet`, `ReadDevice`, `CreateTexture`),
with the end of the process: the device is released after the loop, libcurl when `WinMain`
returns, and the static renderer waits for its fetches only after both. What a fetch then
uses is gone: `HttpGetWithoutCurl` and `CreateTexture` with a released device have every
outcome, a crash included.

### ManifestFetch

Updaters are started again and again (`Run`), and every start goes through
`RequestUpdateInfo`: candidates in order, retries of each, the manifest, its signature
(in a build with `NV_MANIFEST_PUBLIC_KEY`), JSON, registry, URLs. A manifest is its place
in the order of publication; the publisher may give it no number, break it, or give it an
inadmissible URL. A candidate is a working site, a mirror that lags behind, a dead site,
one that answers with a page of its own, or one of a scheme that is not allowed. Reading
and writing the registry are two steps, since nothing makes them one. An updater may be
killed at any step. The key may fail to open (`RegistryUnavailable`: nothing is judged, nothing
written), or open with a value that cannot be read: `ReadVersion` then judges the manifest
against 0, so that an older one passes and is written over the higher version.

The comment at `InstanceConfig.Security.cpp:694` speaks of a "volatile registry key"; the
call at line 704 creates an ordinary one, so the model keeps the value across runs. The
variable `floor` remembers what a run is held to when it begins; a run that cannot open the
registry is held to nothing, as the code says ("don't block updates over a registry hiccup").

Nothing keeps updaters from overlapping, and of two that have both read the slower one may
store the lower version. What a run is held to is therefore the highest version ever
*assured* (`highest`): stored, while no other updater was about to store a lower one
(`Assured`). A read that fails lowers it, and `floor` with it, to the version it lets in. With
one updater at a time and no such failure it is simply the highest version ever stored.

### SelfUpdater

`PerformUpdate` from the wait for its parent to the spawn of the new executable, for
several instances over one directory. The executable's name is shared; a backup and a
download belong to an instance. Every file operation may fail, an instance may stop at
any step, and a machine that stops is all of them stopping. Windows lets nobody rename or
overwrite a file while `CopyFile` writes it (`TargetLocked`), but a copy that breaks off
leaves torn bytes. The end of the transfer (`TransferEnds`) depends on the server, every other
step on this machine only (`LocalStep`).

## The runs

Runs that pass:

| Run | Instance | Distinct states | Shows |
|---|---|---|---|
| `download` | 3 chunks, error pages of 1, sizes declared: none, right, too small, 0; 3 attempts; one file fault | 114,886 | the worker's four promises, against any server and any order of the GUI's calls |
| `wizard` | 2 chunks, 2 attempts, with and without checksum, declared size, `--strict-verification` and a choice of releases | 602,548 | five safety and two liveness properties of the wizard, refinement of `VerifiedInstall` included; strict mode installs nothing but the asset |
| `verification` | four certificates of three publishers, one with "not signed" in its subject; every mode, policy and strategy, a misspelt policy included; pins on stable and on volatile fields; four releases | 2,847,824 | what is launched was asked for, renewals pass, every clean-up frees what was allocated, once |
| `setup` | three files, one in a folder; archives with every default and five sets of overrides, spelled either way, a damaged one, none; programs and documents; one failure or kill | 948,574 | errors are harmless, success is real, files of the user survive unless their override is missed |
| `detection` | four builds whose versions take every form, five methods and eight expressions, both authorities, four command lines, two changes | 3,083,290 | nothing older is offered, nothing newer is missed, a forced version decides |
| `changelog` | three images, two of which load, four threads, two failing requests | 101,288 | one fetch per image, retried until shown, joined at the end |
| `updater_runs` | two processes, five command lines, 2 busy queries, two rare events | 173,300 | the task comes back, and a pending update is offered again and again |
| `temporary_copies` | the same with temporary copies, one rare event | 189,056 | a copy neither launches nor registers anything, and every run comes to an end or to a point where it waits |
| `manifest` | one updater, a primary URL and a fallback of every kind, 2 attempts, 3 manifests of every quality, two kills or failures of the registry (opening, reading, writing) | 1,152,445 | no older manifest but for what a failed read lets in, never locked out |
| `self_updater` | two instances, 3 polls, crashes anywhere | 77,132 | no unverified executable, no lost executable, every instance ends or stays in a transfer that stalls |

Runs that show a disagreement between code and what a comment, a page or a document says;
each checks one property and finds it violated: `failed_write_accepted`
and `curl_outlives_fetches`. They are described [below](#where-code-and-claims-disagree), with
further disagreements that have a property but no run of their own.

Type invariants (`TypeOK`, `DownloadTypeOK`, `WizardTypeOK`) and `RequestBudget` are in no
run: the proofs have them for every value of the constants.

Every property of a passing run has a mutant: an operator in the same module, above the
definition it replaces, that holds a plausible mistake (the retry counter is not set anew,
a truncation is forgotten, a verdict is ignored, the back button is never disabled, an
unknown algorithm is skipped, ...). With the mutant in place the property fails under the
run's own configuration.

## Bounds

| Bound | Why it is enough |
|---|---|
| `AssetSize` 3 (2 in the wizard) | offsets 0, inside and at the end exist; an attempt can resume in the middle and be cut off again |
| `ErrorPageSize` 1, `MaxFileSize` | an error page may make the file shorter, as long as, or longer than the declared size |
| `DeclaredSizes` none, 0, 2, 3 | the file can be below, at and above the declared size, and the manifest may be wrong |
| `MAX_RETRY_COUNT` 3 (2 in the wizard), code: 10 | one attempt leaves something, one ignores the range, one resumes; the proof of `RetryBudget` covers the rest |
| timeouts 3, capped at 10 (5 in the wizard) | doubling meets the cap between two powers |
| `MaxFileFaults` 1 | one failed write or truncation; the proofs allow any number |
| `RETRIES` 2, code: 5 | a retry that is the last, and one that is not |
| `MaxVersion` 3 | older, equal and newer than what is stored, with one refused in between |
| `NumUrls` 2 | a primary and a fallback; the proofs allow any number |
| `MaxFaults` 2 (manifest) | a read that fails and lets an older manifest in, with a kill or another failure after it; the proofs allow any number |
| `ReadsMayFail` | TRUE in the run; FALSE is an assumption of `AloneNeverLowered` only |
| one updater at a time in `manifest` | the URLs, retries and failures of a run, one after another. Two updaters were checked with `NoRollback` as well (one URL, one attempt, three numbered or unnumbered manifests, two faults: 368,706 states), and it is proved for any number |
| two processes | an origin and its copy, two origins, or two copies overlap; what needs a third waits for a slot, and the safety properties are proved for any number |
| `MAX_BUSY_RETRIES` 2, code: 30 | a try that is the last, and one that is not; type and bound are proved for any number |
| `MaxRareEvents` 2 (1 with temporary copies) | failures of registry, task service, server and detection, reboots, new versions of the updater and failed self-updates count together: two make any pair |
| one run by hand at a time | a user who keeps starting updaters would only fill the slots |
| `MAX_POLLS` 3, code: 20 | the parent ends before, during and after the wait |
| three files and a folder | one in the folder, one the user changes, one the update replaces; an override names each of them, or the folder |
| `MaxFaults` 1 (setup) | one failed operation or kill, in an attempt or between two; the proofs of the safety properties allow any number |
| `Certs`, `Pins` | the updater's publisher with its certificate and with a renewed one, another publisher, and one whose subject says "not signed"; a pin that a renewal keeps, one that it breaks, one that names nothing; the proofs allow any |
| settings of local file, server and release | every mode, policy and strategy, a misspelt policy and both authorities occur, given by one of them or by the defaults; the proofs allow any combination |
| `MaxLost` 1, `ShortFields` the subject | one access violation at any step of any call; a subject that finds no memory for its copy, the one field whose loss makes publishers compare equal; the proofs allow any number and fields |
| four builds | older and newer on both sides of the installed one, with forms that differ between any two; a tenth part of two digits, a pre-release with a detection version; the first is withdrawn for good, the second is published twice, as equal versions the sort may leave in either order |
| `MaxChanges` 2 | a publication and a withdrawal, or either and damage, between any two steps |
| three images, `MaxOutages` 2 | an image that fails for good beside one that fails twice; a slot more than images, so that a second fetch of one would find a thread |
| two self-updaters | one interferes with the other; with three (and `MAX_POLLS` 2) the safety properties also hold, over 2,086,152 states, and all three are proved for any number |

Statuses are one representative for each way the code treats them: 200, 206, 404, 416 and
503 for everything else. `CHECK_DEADLOCK FALSE` is set where the system
ends for good: the instances of the self-updater, the processes of the verification and of
the changelog, and the setup task after a success. The wizard's end is the explicit `Halted`.

## Fairness

- `WF(Worker)` and `WF(DownloadWorker)`: a worker has a thread of its own, libcurl gives up
  on a stalled transfer (`LowSpeedTime`), and bodies are finite.
- `WF(Frame)`: frames are drawn while the window exists; after `WM_QUIT` the main thread
  goes on by itself.
- `WF(VerifyReleaseIntegrity)`, `WF(SetupTerminatesProcess)`, `WF(SetupLaunches)`: steps
  of a thread that waits for nothing outside. `SetupFinishes` is *not* fair: a setup need
  never exit, and `QuitEnds` and `RoundEnds` say so.
- No click is fair.
- `WF(Run(u))`, `WF(RequestUpdateInfo(u))`: a request ends by reply or timeout, and the
  scheduled task and the logon entry start the updater again. Publications, kills and
  faults are not fair.
- `WF(Proceeds(p))`: a run waits for nothing outside but the query of the busy state, which
  may always say that the user is busy (`UserAccepts` is not fair). Runs by hand may end with
  a message box; whoever started the run is taken to dismiss it.
- `WF(DayPasses)`, `SF(Logon)`, `SF(Daily)`, `SF(SelfUpdateSucceeds)`: days pass, users log on
  again, the scheduler keeps its schedule and starts a missed run later
  (`put_StartWhenAvailable`), a self-updater comes to an end. The last is an assumption on the
  server: one that stalls the transfer holds the self-updater for good (see `LocalStep` below),
  and `UpdateOffered` says nothing of that case. These are strong only because
  they need a free slot, and the number of slots is a bound of the model and not of Windows.
  `Logon` cuts short only runs by hand, so that logons cannot starve what they start;
  `Reboot` cuts short anything, and is rare. Installing, closing the window, postponing and
  publishing are not fair.
- `WF(ExecuteSetup)`: the setup task has a thread of its own and its steps are calls into the
  file system. A setup need never exit, nor is a failed attempt repeated: `SetupExits`,
  `InvokeSetupAsync` and `NextRun` are not fair.
- `WF(Construct)`, `WF(Verify)`, `WF(ReadSignature)`, `WF(JoinTask)`: the main thread and the
  verification task go on. Requests, retries and the user's choices are not fair.
- `WF(Frame(u))`: every frame draws every image of the page, `WF(Thread(f))`: libcurl gives up
  on a connection after ten seconds and on a stalled transfer after five, `WF(Exit)`: nothing
  after the loop waits but the renderer's destructor. Turning the page and closing the window
  are not fair, and `LoadableShown` asks that the user stay on the page.
- `WF(LocalStep(u))`: a self-updater is a process of its own. The end of its parent is not fair,
  nor is that of its transfer (`TransferEnds`): `dll.cpp:434-440` sets neither a timeout nor a
  lowest speed, unlike the download worker. `InstanceEnds` therefore promises an end from every
  step but the transfer, and up to it.

## The proofs

Checked by TLAPS, for every value of the constants that satisfies the assumptions of the module
(`SizesAssumption`, `RetryAssumption`, `FetchAssumption`, `PollsAssumption`, those of
`UpdaterRuns`, `SetupExecution`, `VerificationPolicy`, `ChangelogImages` and
`ProductDetection`), which TLC evaluates in the runs. Every module with a proof has its type
invariant among the theorems.

**UpdateWizardProofs, the worker.** `TypeCorrect`, `NothingScrambled`, `RequestsBounded`,
`AcceptedIsWhole`. None of them is inductive as it stands. `OffsetsAgree` ties the file's
length to what libcurl has delivered while a reply is received; with it a byte that is
appended always belongs where the file ends. `FullReplyIsWhole` carries that over the end
of an attempt. `RestartsPaid` is an amortised count: a restart after an ignored range is
free, but it empties the file, and an attempt from an empty file cannot have its range
ignored; so each free restart but one is paid for by a retry that was consumed before, or
by a failed truncation.

**UpdateWizardProofs, the wizard.** `WizardTypeCorrect`, `WizardInvariant`, `NoOverlap`,
`SetupIsVerified`, `StrictIsStrict`, `FinishedIsInstalled` and `WizardImplements`. The invariant
`WizardInv` says at which step each task, verdict and success can exist. Its heart is `Locked`:
while a step waits for a task the page is `DownloadAndInstall` and the back button is disabled,
so no click reaches the start of a second round. `TaskSteps` turns that into the absence of
overlaps; `VerdictIsCurrent` and `AcceptedSteps` say that a verdict is about the bytes on disk,
which holds because only the download writes them and no download runs at those steps.
`WizardImplements` shows `Spec => VI!Spec`: initial states map to initial states and each step
to a step of `VerifiedInstall` or a stutter.

**SelfUpdaterProofs.** `SelfUpdaterTypeCorrect`, `UnverifiedNeverInPlace`, `GoodCopyLeft`
and `RestoredAtEnd`, for any number of instances. The difficulty is torn bytes: an instance
may move another one's half-written executable to its own backup and believe it to be the
original. `TornInv` says that wherever torn bytes lie that nobody is completing, an instance
that will never run again left a complete backup. `CopyInv` says who answers for the
executable: it is in place, or some instance owes it (`Owes`), having a complete backup and
being on the way from the move of the original to the step that puts an executable back, or
stopped on that way. Only the swap and the end of the restore pay that debt, and each puts a
complete executable in place; so when all have ended, and none crashed or was refused the
last move, nothing is owed and the executable is there.

**ManifestFetchProofs.** `FetchTypeCorrect`, `BudgetHolds`, `NeverRolledBack` and
`AloneNeverLowered`, the first three for any number of updaters that overlap, fail and are
killed. A version is about to be written only if it was found higher than the stored one, so no
write, by whichever updater and in whichever order, goes below the lowest of what is stored and
of all that is about to be. `RollbackInv` says that `highest` never exceeds that lowest version,
and that whatever has passed the registry is no lower than what the run is held to; a failed
read lowers all three to the version it lets in (`RollbackRead`). That a lowest version exists
is the lemma `LeastOfSet`, which takes the smallest of the intervals up to the elements of a set
(strict inclusion of finite sets is well-founded; the library's induction over numbers has an
operator as its parameter). `AloneNeverLowered` is under the assumption `Alone`, at most one
updater at a time, and that reads of the value do not fail: the registry then holds the highest
version ever stored and no step lowers it (`StoredNeverFalls`), so that `NoRollback` excepts
nothing.

**UpdaterRunsProofs.** `RunsTypeCorrect`, which bounds the tries of the busy check,
`ForkBombFree` and `OriginRegistered`, for any number of processes, retries and failures,
with and without temporary copies. The last two are one inductive invariant,
`CopiesBarred`: a process with `--temporary` is at none of the steps that launch, leave or
register. It needs nothing of `isTemporaryCopy`, which is the point: the step that copies
the executable is barred by the image of the copy itself, and the steps that register by the
switch.

**SetupExecutionProofs.** `TypeCorrect`, `ErrorIsHarmless`, `SuccessIsReal`,
`UserFilesAreSafe` and `InstalledIsWanted`, for every archive, every disposition and any
number of failures, kills and attempts. `InstalledIsWanted` needs the most: `StageInv` keeps
what is not of the archive out of the directory of the extraction, and `WantedInv` says, for an
attempt in which nothing failed, that what has been extracted is whole, that while files are
copied each path that is done is as wanted but for the deletions and each that is not is as
it was before, and that while the list is walked only what is wanted gone is gone.
`UserFilesAreSafe` is about what the release lists; `FoundDisposition` says that the lookup of
the code finds it for every file that is not `Missed`.

**VerificationPolicyProofs.** `TypeCorrect`, `OnlyAsPromised`, `RenewalsPass`, `AllIsFreed`, for
every set of settings, pins, releases, certificates and files. The argument of
`OnlyAsPromised` is a chain of invariants: `Turns` says which thread may be in a reader and for
whom, `SettingsMerged` what is in force at each step of the main thread, told from the sources,
`ChainKnown` what a call that has come so far, or answered so, implies of the file, and
`Judged` that an accepting verdict satisfies what is demanded. The case of the freed
information is harmless to it because a window that is closed launches nothing. `AllIsFreed`
rests on `Holding`, which says for each point of a call which pointers may be set, and that the
epilogue of the reader at work names them all, and on `Accounted`: what is allocated of each kind
is what the pointers hold and what access violations lost.

**ChangelogImagesProofs.** `TypeCorrect`, `FetchedOnce`, `FetchesJoined` and `CacheKept`, for any
number of images and threads. `TasksInv` says that a future and its thread name each
other, `CacheInv` that a cached image keeps the future it came from.

**ProductDetectionProofs.** First the verdict: `DetectionTypeCorrect`, `OfferedNewer`,
`CurrentNewest` and `ForcedDecides`, for all entries, installations, settings, command lines
and damages, and any number of changes. Four facts carry a verdict from the machine and the
manifest to the end of the run: a machine nobody touched is the one its setup left
(`Untouched`); the list is sorted, so its head is the newest (`Received`); a forced version
keeps both its method and its text through the merge (`ForcedSettings`); and the input of an
expression is one that some source named, though method and detection are merged one by one
(`SensibleInput`). What the vendor and the settings must provide are assumptions of the module:
versions count in the order of the builds (`NumberingAssumption`), published sizes and digests
tell builds apart (`ContentAssumption`), an expression that compares versions asks whether the
installed one is less (`ExpressionsAssumption`).

Then the versions themselves. `CompareVersions` is a total preorder (`ComparisonOrders`), by
way of a lexicographic order, `Below`, that it is shown to decide; so the comparison handed to
`std::ranges::sort` is a strict weak order on any list of releases, as the algorithm demands
(`SortIsDefined`). Texts of four-part versions compare as their four numbers, with a `v` or
without, with a fourth part of zero or without it (`FormsCompare`). Hence the assumptions on
numbering and expressions ask for nothing unusual: a vendor whose four-part numbers rise with
the builds meets them in whichever of these forms each text is written (`PlainNumbering`,
`PlainExpressions`). `MCProductDetection` meets them with pre-releases as well.

Every safety and action property of a passing run is a theorem. Only model-checked are the
liveness properties (`CallReturns`, `QuitEnds`, `RoundEnds`, `RunsReachNewest`, `InstanceEnds`,
`TaskHealed`, `UpdateOffered`, `RunsEnd`, `AttemptEnds`, `LoadableShown`, the two
`ProcessEnds`), since fairness and `ENABLED` are beyond the prover.

## Where code and claims disagree

Shown by a run:

- `failed_write_accepted`: a failed write sets `badbit`, which throws nothing, so the
  transfer is not aborted as the comment says, and a short file is a success
  (`InstanceConfig.Web.cpp:127`).
- `curl_outlives_fetches`: libcurl is cleaned up by a local of `WinMain` (`main.cpp:91`), while
  the image fetches are waited for by the destructor of a static object, later. The comment
  above (`main.cpp:85`) says that libcurl "must outlive all network activity, including async
  image fetches".

Stated as a property in a module, not satisfied by the code, and without a run of its own (add
the property to a configuration of the module to see it fail):

- `StoredNeverFalls` (`ManifestFetch`): `docs/SECURE_UPDATE_PIPELINE.md:240`
  says clients "persist the highest version seen in the registry and reject manifests with a
  lower value". A read of the value that fails, the key being open, leaves the version at 0
  (`InstanceConfig.Security.cpp:711-716`): an older manifest passes and is written over the
  higher version (lines 727-729). And of two updaters at a time the slower one may overwrite the
  higher version with its lower one. A later run accepts either.
- `FileOutlivesTasks` (`UpdateWizard`): the destructor waits for the download before it deletes
  the temporary file, but not for a verification or a setup that uses it
  (`InstanceConfig.cpp:531`, `539-560`); their futures are joined when the members go. A setup
  still runs nothing but verified bytes (`ImplementsVerifiedInstall`), and nothing is launched on
  a comparison with freed information (`LaunchedAsPromised`), but that comparison reads it
  (`CompareFreed`).
- `OnlyUnsignedExcused` (`VerificationPolicy`): the comment at `InstanceConfig.Security.cpp:337`
  says "If the file is unsigned and we are in WhenPresent mode, accept it". What is looked at is
  the text of the error, of any kind (lines 338-339), and the text on a mismatch of publishers
  holds their subjects (lines 488-490): a validly signed setup of another publisher passes if a
  subject says "not signed", under a strict policy too.
- `AbortIsObserved` (`UpdateWizard`): the worker clears the abort flag at its entry, on its own
  thread (`InstanceConfig.Web.cpp:50`); a window closed in the frame after the launch waits for
  the whole download. `InstanceConfig.Download.cpp:58`: "DownloadRelease is responsible for
  observing abortDownloadRequested".
- `RetryDownloadsAgain` (`UpdateWizard`): after a failed verification the button "Retry download"
  (`main.cpp:917`) finds the damaged file complete and fetches nothing
  (`InstanceConfig.Web.cpp:216`).
- `RetryAfterTermination` (`UpdateWizard`): a retried setup tries to terminate the process it has
  already terminated, and fails (`InstanceConfig.Setup.cpp:218`), while `main.cpp:1070` offers
  the retry.
- `BlockPageFallsBack` (`ManifestFetch`): with a manifest key, a block page that answers both
  requests ends the call although a fallback is left (`InstanceConfig.Web.cpp:876`), against the
  comment at lines 998-999, "try fallbacks before failing hard".
- `UpdateOffered` (`UpdaterRuns`) with `RunAsTemporaryCopy`: the runs of the task and at logon
  hand their silent switch to the copy, which refuses it while its origin is alive, and the
  origin leaves the update to the copy: none of them offers it (`InstanceConfig.cpp:182`,
  `main.cpp:254`). Whether a real origin outlives the check of its copy is a matter of
  milliseconds; nothing in the code waits for either.
- `WholeBeforeInstalled` (`SetupExecution`): "Extract the entire zip to a temporary location
  first, so we don't break the current install if extraction fails"
  (`InstanceConfig.Setup.cpp:254`). The stream of line 173 throws nothing and is not asked: a
  write that fails leaves a truncated file, which is installed.
- `ListedFilesKept` (`SetupExecution`): a file of the user below the top that the release lists
  as `CreateIfAbsent`, with a forward slash in its path, is not found by the lookup
  (`InstanceConfig.Setup.cpp:277-279`) and replaced under the default (lines 314-316).
  `CommonTypes.cs:125` says of the disposition "Create the extracted file if it doesn't already
  exist locally", `UpdateRelease.cs:165-168` of the list that it "Trumps" the default.
- `DispositionsHonoured` (`SetupExecution`): an override is looked up by the path as Windows
  spells it, so that one with forward slashes is not found below the top; a default of
  `DeleteIfPresent` deletes nothing, since the deletions walk the overrides only; and a file
  that is to be deleted and absent makes `last_write_time` throw (line 319). The documentation
  of the disposition says "Delete the local file, if found."
- `RelaxedIsChainOnly` (`VerificationPolicy`): `docs/SECURE_UPDATE_PIPELINE.md:90` and
  `models/SignatureValidation.hpp:10` say that under `Relaxed` a valid chain is sufficient. A pin
  that is configured, and the publisher of a signed updater, are compared under `Relaxed` too
  (`InstanceConfig.Security.cpp:446-495`).
- `RegistryViewHonoured` (`ProductDetection`): the names of the registry views are read with a
  library that knows enumerators of -128 to 127 only; the two that name a view are 0x100 and
  0x200 (`models/CommonTypes.hpp`), so that none is ever applied. The documentation says of one:
  "Access a 32-bit key from either a 32-bit or 64-bit application."

Seen while modelling, without a run:

- The body of an HTTP error goes into the temporary file (`InstanceConfig.Web.cpp:352`) and
  later attempts may complete it; without a checksum the result is accepted. The comment at
  lines 222-226 wants no interrupted file "accepted silently".
- A self-updater stream that could not be written (`InstanceConfig.Updater.cpp:37-53`), or
  a new executable whose `--install` did not run, makes every later run launch a library
  that is not there, report success and end (`main.cpp:243-246`), for as long as the updater
  is outdated. `UpdateOffered` excludes this state by name (`Starved`).
- `--uninstall` ends at a missing Run value and leaves the task (`main.cpp:188-195`); what
  `DeleteTask` returns is never looked at.
- `docs/SECURE_UPDATE_PIPELINE.md:254` says the self-updater "atomically swaps the temp
  file into the final path". The original is moved away before the download
  (`dll.cpp:431`), and no file has the executable's name until the swap (`dll.cpp:517`) or
  the restore. `GoodCopyExists` holds nevertheless.
- `--strict-verification` raises the settings of the configuration file and keeps the server's
  out, but a release's own `signaturePolicy` still replaces the policy, also by a weaker one
  (`PinDemanded`); a misspelt policy is neither raised nor strict.
- Two signers whose subjects could not be copied for want of memory compare equal
  (`acceptedUnread`), and a file whose time stamp has no certificate counts as "not extracted",
  which a relaxed policy accepts.
- After an access violation in the trust provider or the worker, the handler frees the strings and
  the path (`NAuthenticode.cpp:664-700`): store, message, signer information and certificate that
  the worker held stay allocated (`lost` in `HandlesBalanced`).
- A server that stalls the transfer holds a self-updater for good, with the executable moved away
  (`dll.cpp:431`, `438`); only the end of the process, and a copy of the backup by hand, ends
  that.
- If reading the updater's own certificate fails half-way, what was read of it is never freed
  (`HandlesBalanced` says so by `isUpdaterSigned`).
- Method and detection are merged one by one: a manifest that gives only one of them leaves the
  other of the configuration file, which then means something else.
- Equality of versions in a template (`versionEq`) does not know the fourth part that
  `versionLt` and `versionGt` use.
- Detection by size or checksum offers an older release after the newest was withdrawn, which is
  why `OfferedIsNewer` asks of it only that the release differ.
- The comment at `InstanceConfig.Security.cpp:694` calls the registry key volatile; it is
  not.
- A manifest without `manifestVersion` passes the rollback protection whatever is stored
  (`InstanceConfig.Web.cpp:903`); `NoRollback` is therefore about numbered manifests.

## What is not modelled

- In the modelled parts: drawing, log lines, wording, progress numbers, random sleeps,
  file attributes, the renaming of a finished download (tolerated if it fails), exceptions that
  leave the download or verification worker.
- Of the settings a manifest shares, those that decide on verification and detection are
  modelled; titles, links, icons and the location of the download are not.
- Hashing and Authenticode themselves: contents are equal or not, and the trust provider gives
  any of its answers for a file.
- Templates: of `inja` only what one callback yields and what a comparison prints; the helpers
  that format text have no part in detection.
- In the runs of the updater: exit codes and `--override-success-code` (which `SetupExecution`
  has), builds with `NV_FLAGS_ALWAYS_RUN_INSTALL`, the emergency URL, message boxes; a clock that
  is set back; a copy that lost its parent and so reads no configuration file (the configuration
  is a constant); a self-updater stream lost in any way but those above. For this the main flow
  and postponing count as partly modelled.
- The silent update is one step with either outcome. It calls what `UpdateWizard` models, one
  after the other and in the same order.
- Dialogs, drawing, utilities, JSON mapping: presentation, or pure input and output.
- Vendored libraries (a markdown parser and its renderer, argument and INI parsers, tables of
  icons and MIME types: some 9,900 lines), the example server, the C# mirror of the models,
  end-to-end tests.

## Plan

In order of importance; the first ten are built.

1. `ReleaseDownload`, its run and proofs.
2. `UpdateWizard` over it, with `VerifiedInstall` as abstract specification and the
   refinement proved.
3. `SelfUpdater` with several instances and crashes; safety proved.
4. `ManifestFetch` with concurrent updaters; rollback protection proved for any number of them.
5. `UpdaterRuns` with temporary copies, its runs and the proofs of what a copy never does.
6. Runs for the disagreements met on the way.
7. `SignatureReading` and `VerificationPolicy`, with proofs for all settings and files.
8. `SetupExecution`: the archive file by file with its dispositions and failures half-way, the
   classification of exit codes, and proofs for every archive.
9. `VersionText`, `TemplateCallbacks` and `ProductDetection`, with the order of the releases and
   the merge of the settings; the verdicts and the order of versions proved.
10. `ChangelogImages` and its proofs.
11. The silent update as a second main thread over the tasks of `UpdateWizard`, with its exit
    codes, implementing `VerifiedInstall` too.
12. `UpdaterRuns`: a clock that is set back against the 24 hours; a copy without its
    configuration; an abstract specification of what the updater promises over days.
13. `UpdateWizard` over `VerificationPolicy` in place of `MayPass`.

The number of runs is kept small: a new module's properties join an existing run where they
can, and disagreements that a deeper property subsumes give way.

## Running it

```
tlc -config MCReleaseDownload.cfg MCReleaseDownload
tlc -config FailedWriteAccepted.cfg MCReleaseDownload      # finds its violation
tlapm UpdateWizardProofs.tla
```

`PROJECT.json` names module and configuration of every run. The
proofs need TLAPS with Z3, Zenon and LS4.
