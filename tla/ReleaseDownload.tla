--------------------------- MODULE ReleaseDownload ---------------------------
(***************************************************************************)
(* The download worker of the updater: InstanceConfig::DownloadRelease,    *)
(* run by std::async, and the calls the GUI thread makes on its task.      *)
(*                                                                         *)
(* The release asset is a row of AssetSize chunks.  The local temporary    *)
(* file is abstracted to its length and to what its bytes are: "asset" (a  *)
(* prefix of the release asset), "errorPage" (it holds the body of an HTTP *)
(* error response) or "scrambled" (asset bytes at the wrong offset).       *)
(*                                                                         *)
(* libcurl, the server and the disk are the environment.  The server may   *)
(* answer every request with any status and may drop the connection at any *)
(* byte; a write may fail (disk full) and a truncation may fail (file      *)
(* locked), at most MaxFileFaults times in a behaviour.  Bodies are        *)
(* self-delimiting, so libcurl reports a body cut short as an error.       *)
(*                                                                         *)
(* Left out: the choice of the download directory beyond its failure, the  *)
(* renaming of the finished file to the Content-Disposition name (its      *)
(* failure is tolerated and nothing else depends on it), the random sleep  *)
(* between attempts, progress numbers and log lines.                       *)
(***************************************************************************)
EXTENDS Integers

CONSTANTS
  AssetSize,              \* chunks of the release asset on the server
  ErrorPageSize,          \* chunks of an HTTP error response's body, at most
  DeclaredSizes,          \* values of the manifest's optional downloadSize
  MAX_RETRY_COUNT,
  MAX_TIMEOUT_SECS,
  MAX_TIMEOUT_SECS_TOTAL,
  MaxFileSize,            \* bound: the local file never grows beyond this
  MaxFileFaults           \* bound: failed writes and truncations

\* The manifest carries no downloadSize for the release.
NoSize == -1

ASSUME SizesAssumption ==
  /\ AssetSize \in Nat \ {0}
  /\ ErrorPageSize \in Nat
  /\ DeclaredSizes \subseteq Nat \cup {NoSize}
  /\ MaxFileSize \in Nat /\ MaxFileSize >= AssetSize
  /\ MaxFileFaults \in Nat

ASSUME RetryAssumption ==
  /\ MAX_RETRY_COUNT \in Nat \ {0}
  /\ MAX_TIMEOUT_SECS \in Nat /\ MAX_TIMEOUT_SECS_TOTAL \in Nat
  /\ MAX_TIMEOUT_SECS <= MAX_TIMEOUT_SECS_TOTAL

VARIABLES
  release,                \* what the manifest says: downloadSize, checksum
  curlChecksRange,        \* libcurl itself refuses a resumed reply without a range
  localTempFilePath,      \* has a temporary file name been chosen?
  file,                   \* the temporary file
  abortDownloadRequested,
  downloadTask,           \* the optional shared_future: none, running or ready
  result,                 \* what the ready future holds
  pc,                     \* where the worker is in DownloadRelease
  retryCount,
  currentTimeoutSecs,
  localSize,              \* offset the running attempt resumes at
  lastHttpCode,           \* status of the running attempt, 0 before it arrives
  at,                     \* body chunks libcurl has handed to the write callback
  totalKnown,             \* the reply's Content-Range names the total size
  badbit,                 \* outStream has failed: its writes are silently dropped
  code,                   \* what the finished attempt is classified as
  fileFaults,             \* failed writes and truncations so far
  transfers               \* history: requests made by the running call

configVars == <<release, curlChecksRange>>
taskVars == <<downloadTask, result>>
budgetVars == <<retryCount, currentTimeoutSecs, transfers>>
attemptVars == <<localSize, lastHttpCode, at, totalKnown, code>>
downloadVars == <<configVars, localTempFilePath, file, abortDownloadRequested,
                  taskVars, pc, budgetVars, attemptVars, badbit, fileFaults>>

StatusCodes == {200, 206, 404, 416, 503}
Codes == {"none", "OK_200", "PartialContent_206", "NotFound_404",
          "RangeNotSatisfiable_416", "TIMEDOUT", "RECV_ERROR"}
Contents == {"asset", "errorPage", "scrambled"}
Steps == {"idle", "entry", "attempt", "transfer", "evaluate"}

EmptyFile == [len |-> 0, content |-> "asset"]

wantsResume == localSize > 0
sizeDeclared == release.downloadSize # NoSize

\* The status of a response as the retry logic classifies it.
CodeOf(http) ==
  CASE http = 200 -> "OK_200"
    [] http = 206 -> "PartialContent_206"
    [] http = 404 -> "NotFound_404"
    [] http = 416 -> "RangeNotSatisfiable_416"
    [] OTHER      -> "RECV_ERROR"

\* The file after asset chunk number i (from 0) was appended to f.
AppendAsset(f, i) ==
  [len |-> f.len + 1,
   content |-> IF f.content = "asset" /\ i # f.len THEN "scrambled" ELSE f.content]

\* The file after a chunk of an error response's body was appended to f.
AppendErrorPage(f) ==
  [len |-> f.len + 1,
   content |-> IF f.content = "scrambled" THEN "scrambled" ELSE "errorPage"]

-----------------------------------------------------------------------------
(* Mutated forms of definitions below, for checking that the properties can *)
(* fail; no specification uses them.                                       *)

\* The write callback does not look at the status of a resumed reply.
TakesAnyBody == lastHttpCode \in {200, 206}

\* A leftover is reused although no checksum will look at it.
AnyLocalFile == ~sizeDeclared /\ file.len > 0

\* The file is not truncated when the server ignored the range.
RangeIgnoredKeepsFile ==
  /\ pc = "transfer"
  /\ lastHttpCode = 200 /\ wantsResume /\ ~curlChecksRange
  /\ ~abortDownloadRequested
  /\ pc' = "attempt"
  /\ UNCHANGED <<configVars, localTempFilePath, file, abortDownloadRequested,
                 taskVars, budgetVars, attemptVars, badbit, fileFaults>>

\* An abort skips the attempt but does not leave the loop.
AbortSkipsAttempt ==
  /\ pc = "attempt"
  /\ abortDownloadRequested
  /\ UNCHANGED downloadVars

-----------------------------------------------------------------------------
(* Calls the GUI thread makes.                                             *)

DownloadInit ==
  /\ release \in [downloadSize : DeclaredSizes, checksum : BOOLEAN]
  /\ curlChecksRange \in BOOLEAN
  /\ localTempFilePath = FALSE
  /\ file = EmptyFile
  /\ abortDownloadRequested = FALSE
  /\ downloadTask = "none" /\ result = "none"
  /\ pc = "idle"
  /\ retryCount = MAX_RETRY_COUNT /\ currentTimeoutSecs = MAX_TIMEOUT_SECS
  /\ localSize = 0 /\ lastHttpCode = 0 /\ at = 0 /\ totalKnown = FALSE
  /\ code = "none" /\ transfers = 0
  /\ badbit = FALSE /\ fileFaults = 0

\* std::async starts the worker in place of the task there was.
LaunchDownload ==
  /\ abortDownloadRequested' = FALSE
  /\ downloadTask' = "running"
  /\ result' = "none"
  /\ pc' = "entry"
  /\ UNCHANGED <<configVars, localTempFilePath, file, budgetVars, attemptVars,
                 badbit, fileFaults>>

\* DownloadReleaseAsync: refused while a task exists.
DownloadReleaseAsync == downloadTask = "none" /\ LaunchDownload

\* ResetReleaseDownloadState, called once the result was consumed.
ResetReleaseDownloadState ==
  /\ downloadTask = "ready"
  /\ downloadTask' = "none"
  /\ result' = "none"
  /\ UNCHANGED <<configVars, localTempFilePath, file, abortDownloadRequested,
                 pc, budgetVars, attemptVars, badbit, fileFaults>>

RequestAbortDownload ==
  /\ abortDownloadRequested' = TRUE
  /\ UNCHANGED <<configVars, localTempFilePath, file, taskVars, pc, budgetVars,
                 attemptVars, badbit, fileFaults>>

-----------------------------------------------------------------------------
(* The worker.                                                             *)

\* The locals of DownloadRelease get the values they have when a call starts.
ResetLocals ==
  /\ retryCount' = MAX_RETRY_COUNT /\ currentTimeoutSecs' = MAX_TIMEOUT_SECS
  /\ localSize' = 0 /\ lastHttpCode' = 0 /\ at' = 0 /\ totalKnown' = FALSE
  /\ code' = "none" /\ transfers' = 0

\* DownloadRelease returns r and makes the future ready; its locals are gone.
Return(r) ==
  /\ pc' = "idle"
  /\ downloadTask' = "ready"
  /\ result' = r
  /\ ResetLocals
  /\ UNCHANGED <<configVars, badbit, fileFaults>>

\* The start of the call: the abort flag is cleared, a temporary file is
\* named unless an earlier call left one, and the counters are set.
EnterCall ==
  /\ pc = "entry"
  /\ abortDownloadRequested' = FALSE
  /\ localTempFilePath' = TRUE
  /\ ResetLocals
  /\ badbit' = FALSE
  /\ pc' = "attempt"
  /\ UNCHANGED <<configVars, file, taskVars, fileFaults>>

\* No usable download directory, or no temporary file name.
EnterCallFails ==
  /\ pc = "entry"
  /\ abortDownloadRequested' = FALSE
  /\ Return("failed")
  /\ UNCHANGED <<localTempFilePath, file>>

\* What the loop head may return without contacting the server.
LocalFileComplete == sizeDeclared /\ file.len = release.downloadSize
LocalFileLeftToChecksum == ~sizeDeclared /\ file.len > 0 /\ release.checksum

AbortBeforeAttempt ==
  /\ pc = "attempt"
  /\ abortDownloadRequested
  /\ Return("cancelled")
  /\ UNCHANGED <<localTempFilePath, file, abortDownloadRequested>>

ReuseLocalFile ==
  /\ pc = "attempt"
  /\ ~abortDownloadRequested
  /\ LocalFileComplete \/ LocalFileLeftToChecksum
  /\ Return("ok")
  /\ UNCHANGED <<localTempFilePath, file, abortDownloadRequested>>

\* The offset an attempt resumes at: 0 when the file is larger than declared.
ResumeOffset ==
  IF sizeDeclared /\ file.len > release.downloadSize THEN 0 ELSE file.len

\* Opens the file (append when resuming, truncate otherwise) and sends the
\* request.
StartAttempt ==
  /\ pc = "attempt"
  /\ ~abortDownloadRequested
  /\ ~LocalFileComplete /\ ~LocalFileLeftToChecksum
  /\ localSize' = ResumeOffset
  /\ file' = IF ResumeOffset > 0 THEN file ELSE EmptyFile
  /\ lastHttpCode' = 0 /\ at' = 0 /\ totalKnown' = FALSE /\ code' = "none"
  /\ badbit' = FALSE
  /\ transfers' = transfers + 1
  /\ pc' = "transfer"
  /\ UNCHANGED <<configVars, localTempFilePath, abortDownloadRequested,
                 taskVars, retryCount, currentTimeoutSecs, fileFaults>>

OpenFails ==
  /\ pc = "attempt"
  /\ ~abortDownloadRequested
  /\ ~LocalFileComplete /\ ~LocalFileLeftToChecksum
  /\ Return("failed")
  /\ UNCHANGED <<localTempFilePath, file, abortDownloadRequested>>

\* The status line and the headers of the reply arrive.
ReceiveHeaders ==
  /\ pc = "transfer" /\ lastHttpCode = 0
  /\ \E http \in StatusCodes, total \in BOOLEAN :
       /\ http \in {206, 416} => wantsResume
       /\ http = 206 => localSize < AssetSize
       /\ total => http = 206
       /\ lastHttpCode' = http
       /\ totalKnown' = total
       /\ at' = IF http = 206 THEN localSize ELSE 0
  /\ UNCHANGED <<configVars, localTempFilePath, file, abortDownloadRequested,
                 taskVars, pc, budgetVars, localSize, code, badbit, fileFaults>>

\* libcurl's own check: it asked for a range and the reply carries none.
RangeRefusedByCurl ==
  curlChecksRange /\ wantsResume /\ lastHttpCode \in {200, 404, 503}

\* Does the write callback take the body of the reply for the asset's?
TakesBody == lastHttpCode = 206 \/ (lastHttpCode = 200 /\ ~wantsResume)

\* The write callback takes a chunk of the asset.  A failed write sets badbit
\* only, which outStream's exception mask does not hold, so the callback
\* reports success, and with badbit set every later write is dropped.
WriteBody ==
  /\ pc = "transfer"
  /\ TakesBody
  /\ at < AssetSize
  /\ at' = at + 1
  /\ \/ ~badbit /\ file' = AppendAsset(file, at) /\ UNCHANGED <<badbit, fileFaults>>
     \/ ~badbit /\ fileFaults < MaxFileFaults
        /\ badbit' = TRUE /\ fileFaults' = fileFaults + 1 /\ UNCHANGED file
     \/ badbit /\ UNCHANGED <<file, badbit, fileFaults>>
  /\ UNCHANGED <<configVars, localTempFilePath, abortDownloadRequested,
                 taskVars, pc, budgetVars, localSize, lastHttpCode, totalKnown,
                 code>>

\* The body of an error response goes through the same write callback.
WriteErrorBody ==
  /\ pc = "transfer"
  /\ lastHttpCode \in {404, 416, 503}
  /\ ~(curlChecksRange /\ wantsResume)
  /\ at < ErrorPageSize
  /\ file.len < MaxFileSize
  /\ at' = at + 1
  /\ file' = IF badbit THEN file ELSE AppendErrorPage(file)
  /\ UNCHANGED <<configVars, localTempFilePath, abortDownloadRequested,
                 taskVars, pc, budgetVars, localSize, lastHttpCode, totalKnown,
                 code, badbit, fileFaults>>

\* req.perform() returns: the whole reply was received.
TransferCompletes ==
  /\ pc = "transfer"
  /\ \/ lastHttpCode = 206 /\ at = AssetSize
     \/ lastHttpCode = 200 /\ ~wantsResume /\ at = AssetSize
     \/ lastHttpCode = 200 /\ curlChecksRange /\ localSize = AssetSize
     \/ lastHttpCode \in {404, 416, 503} /\ ~RangeRefusedByCurl
  /\ code' = CodeOf(lastHttpCode)
  /\ pc' = "evaluate"
  /\ UNCHANGED <<configVars, localTempFilePath, file, abortDownloadRequested,
                 taskVars, budgetVars, localSize, lastHttpCode, at, totalKnown,
                 badbit, fileFaults>>

\* req.perform() throws because the abort flag is set, which the progress
\* callback reports to libcurl and the catch block looks at first.
TransferAborted ==
  /\ pc = "transfer"
  /\ abortDownloadRequested
  /\ Return("cancelled")
  /\ UNCHANGED <<localTempFilePath, file, abortDownloadRequested>>

\* req.perform() throws for another reason: a stall, a lost connection, a
\* curlpp error, or libcurl's own refusal.  A timeout wins over the status.
TransferFails ==
  /\ pc = "transfer"
  /\ ~abortDownloadRequested
  /\ code' \in {"TIMEDOUT",
                IF lastHttpCode \in {404, 416} THEN CodeOf(lastHttpCode)
                                               ELSE "RECV_ERROR"}
  /\ pc' = "evaluate"
  /\ UNCHANGED <<configVars, localTempFilePath, file, abortDownloadRequested,
                 taskVars, budgetVars, localSize, lastHttpCode, at, totalKnown,
                 badbit, fileFaults>>

\* The server ignored the range: the write callback stops the transfer before
\* a byte is written, the file is truncated and the loop goes on without
\* consuming a retry.  A failing truncation is ignored.
RangeIgnored ==
  /\ pc = "transfer"
  /\ lastHttpCode = 200 /\ wantsResume /\ ~curlChecksRange
  /\ ~abortDownloadRequested
  /\ \/ file' = EmptyFile /\ UNCHANGED fileFaults
     \/ fileFaults < MaxFileFaults /\ fileFaults' = fileFaults + 1 /\ UNCHANGED file
  /\ pc' = "attempt"
  /\ UNCHANGED <<configVars, localTempFilePath, abortDownloadRequested,
                 taskVars, budgetVars, attemptVars, badbit>>

\* "bytes <start>-<end>/<total>", where the total may be "*" or no number.
TotalSizeFromContentRange == IF totalKnown THEN AssetSize ELSE NoSize

\* The size a partial reply is held against.
ExpectedSize == IF sizeDeclared THEN release.downloadSize ELSE TotalSizeFromContentRange

Succeeded ==
  \/ code = "OK_200"
  \/ code = "PartialContent_206" /\ ExpectedSize # NoSize /\ file.len = ExpectedSize

EvaluateSuccess ==
  /\ pc = "evaluate"
  /\ Succeeded
  /\ Return("ok")
  /\ UNCHANGED <<localTempFilePath, file, abortDownloadRequested>>

\* 404 ends the call; deleting the temporary file may fail.
EvaluateNotFound ==
  /\ pc = "evaluate"
  /\ code = "NotFound_404"
  /\ file' \in {file, EmptyFile}
  /\ Return("failed")
  /\ UNCHANGED <<localTempFilePath, abortDownloadRequested>>

\* The truncation after a 416 fails.
EvaluateTruncationFails ==
  /\ pc = "evaluate"
  /\ code = "RangeNotSatisfiable_416" /\ wantsResume
  /\ Return("failed")
  /\ UNCHANGED <<localTempFilePath, file, abortDownloadRequested>>

Min2(a, b) == IF a <= b THEN a ELSE b

\* Any other outcome consumes a retry; an unsatisfiable range also empties
\* the file.
ConsumesRetry == ~Succeeded /\ code # "NotFound_404"

FileAfterAttempt ==
  IF code = "RangeNotSatisfiable_416" /\ wantsResume THEN EmptyFile ELSE file

EvaluateRetry ==
  /\ pc = "evaluate"
  /\ ConsumesRetry
  /\ retryCount - 1 > 0
  /\ file' = FileAfterAttempt
  /\ retryCount' = retryCount - 1
  /\ currentTimeoutSecs' = IF code = "TIMEDOUT"
                           THEN Min2(currentTimeoutSecs * 2, MAX_TIMEOUT_SECS_TOTAL)
                           ELSE currentTimeoutSecs
  /\ pc' = "attempt"
  /\ UNCHANGED <<configVars, localTempFilePath, abortDownloadRequested, taskVars,
                 transfers, attemptVars, badbit, fileFaults>>

\* The last retry is used up: the call fails and keeps the partial file.
EvaluateGiveUp ==
  /\ pc = "evaluate"
  /\ ConsumesRetry
  /\ retryCount - 1 <= 0
  /\ file' = FileAfterAttempt
  /\ Return("failed")
  /\ UNCHANGED <<localTempFilePath, abortDownloadRequested>>

Worker ==
  \/ EnterCall \/ EnterCallFails
  \/ AbortBeforeAttempt \/ ReuseLocalFile \/ StartAttempt \/ OpenFails
  \/ ReceiveHeaders \/ WriteBody \/ WriteErrorBody
  \/ TransferCompletes \/ TransferAborted \/ TransferFails \/ RangeIgnored
  \/ EvaluateSuccess \/ EvaluateNotFound \/ EvaluateTruncationFails
  \/ EvaluateRetry \/ EvaluateGiveUp

Caller == DownloadReleaseAsync \/ ResetReleaseDownloadState \/ RequestAbortDownload

DownloadNext == Worker \/ Caller

\* Fairness: the worker has a thread of its own, libcurl gives up on a stalled
\* transfer (LowSpeedTime) and a body is finite, so the worker keeps moving.
DownloadSpec ==
  DownloadInit /\ [][DownloadNext]_downloadVars /\ WF_downloadVars(Worker)

-----------------------------------------------------------------------------
DownloadTypeOK ==
  /\ release \in [downloadSize : DeclaredSizes, checksum : BOOLEAN]
  /\ curlChecksRange \in BOOLEAN
  /\ localTempFilePath \in BOOLEAN
  /\ file \in [len : Nat, content : Contents]
  /\ abortDownloadRequested \in BOOLEAN
  /\ downloadTask \in {"none", "running", "ready"}
  /\ result \in {"none", "ok", "cancelled", "failed"}
  /\ pc \in Steps
  /\ retryCount \in 0 .. MAX_RETRY_COUNT
  /\ currentTimeoutSecs \in MAX_TIMEOUT_SECS .. MAX_TIMEOUT_SECS_TOTAL
  /\ localSize \in Nat
  /\ lastHttpCode \in StatusCodes \cup {0}
  /\ at \in Nat
  /\ totalKnown \in BOOLEAN
  /\ badbit \in BOOLEAN
  /\ code \in Codes
  /\ fileFaults \in 0 .. MaxFileFaults
  /\ transfers \in Nat

\* However often the server ignores ranges, drops connections or refuses a
\* range, and wherever an attempt resumes, asset bytes are never appended at
\* an offset they do not belong to.
NeverScrambled == file.content # "scrambled"

\* A call that reports success without leaving the decision to a checksum
\* hands over a file of the asset's size, unless a write was dropped.
AcceptedFileIsWhole ==
  (/\ result = "ok"
   /\ release.downloadSize \in {NoSize, AssetSize}
   /\ ~(~sizeDeclared /\ release.checksum)
   /\ ~badbit) => file.len = AssetSize

\* The work one call can do is bounded although a restart after an ignored
\* range consumes no retry: every such restart but the first needs a failed
\* attempt before it, or a failed truncation.
RetryBudget == transfers <= 2 * MAX_RETRY_COUNT + fileFaults

\* Every call returns.
CallReturns == (downloadTask = "running") ~> (downloadTask # "running")

\* As the write callback has it ("abort transfer"), a write that fails stops
\* the transfer: a successful call hands over every chunk.
FailedWriteStopsTransfer ==
  (result = "ok" /\ ~release.checksum /\ release.downloadSize \in {NoSize, AssetSize})
    => file.len >= AssetSize
=============================================================================
