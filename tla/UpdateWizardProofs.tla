------------------------- MODULE UpdateWizardProofs -------------------------
(***************************************************************************)
(* Theorems about the download worker and about the wizard that calls it,  *)
(* for every asset, every set of declared sizes, every retry limit and     *)
(* setting.                                                                *)
(*                                                                         *)
(* The worker, as a specification of its own: it restarts a bounded number *)
(* of times, never scrambles the file and accepts only the whole asset.    *)
(* Two of its invariants carry the argument.  OffsetsAgree ties the length *)
(* of the file to what libcurl has delivered.  RestartsPaid is an          *)
(* amortised count: a restart that consumed no retry is paid for by the    *)
(* retry of a later failed attempt, except at most one, which is still     *)
(* open exactly while the file (or the attempt) starts from nothing.       *)
(*                                                                         *)
(* The wizard: its three tasks never overlap, a setup runs on verified     *)
(* bytes only, the clean-up waits for the tasks, and the wizard implements *)
(* VerifiedInstall.  WizardInv says at which step of the page each task    *)
(* and each verdict can exist.  Its heart is Locked: while a step waits    *)
(* for a task, the page cannot be left, so no click can start a second     *)
(* round beside the first.                                                 *)
(***************************************************************************)
EXTENDS UpdateWizard, TLAPS
-----------------------------------------------------------------------------
(* The download worker, whoever calls it.                                  *)

InFlight == pc \in {"transfer", "evaluate"}

FromNothing ==
  \/ pc = "attempt" /\ file.len = 0
  \/ InFlight /\ localSize = 0

\* While a reply is received, the file ends where libcurl's next byte belongs.
OffsetsAgree ==
  (pc = "transfer" /\ ~badbit) =>
    /\ lastHttpCode = 0 => file.len = localSize
    /\ lastHttpCode = 200 => file.len = IF localSize = 0 THEN at ELSE localSize
    /\ lastHttpCode = 206 => file.len = at

\* An attempt classified as a full reply left the whole asset in the file.
FullReplyIsWhole ==
  (pc = "evaluate" /\ code = "OK_200" /\ ~badbit) => file.len = AssetSize

\* The task is running exactly while the worker is in DownloadRelease.
TaskIsCall ==
  /\ downloadTask = "running" <=> pc # "idle"
  /\ result # "none" => downloadTask = "ready"

RestartsPaid ==
  transfers <= 2 * (MAX_RETRY_COUNT - retryCount) + fileFaults
               + (IF InFlight THEN 1 ELSE 0) + (IF FromNothing THEN 1 ELSE 0)

USE SizesAssumption, RetryAssumption DEF SizesAssumption, RetryAssumption

-----------------------------------------------------------------------------
(* Type correctness.  The Boolean variables are proved apart from the      *)
(* others: no prover takes both in one leaf.                               *)

FlagsOK ==
  /\ curlChecksRange \in BOOLEAN
  /\ localTempFilePath \in BOOLEAN
  /\ abortDownloadRequested \in BOOLEAN
  /\ totalKnown \in BOOLEAN
  /\ badbit \in BOOLEAN

DataOK ==
  /\ release \in [downloadSize : DeclaredSizes, checksum : BOOLEAN]
  /\ file \in [len : Nat, content : Contents]
  /\ downloadTask \in {"none", "running", "ready"}
  /\ result \in {"none", "ok", "cancelled", "failed"}
  /\ pc \in Steps
  /\ retryCount \in 0 .. MAX_RETRY_COUNT
  /\ currentTimeoutSecs \in MAX_TIMEOUT_SECS .. MAX_TIMEOUT_SECS_TOTAL
  /\ localSize \in Nat
  /\ lastHttpCode \in StatusCodes \cup {0}
  /\ at \in Nat
  /\ code \in Codes
  /\ fileFaults \in 0 .. MaxFileFaults
  /\ transfers \in Nat

\* The two parts are the type invariant.
LEMMA TypeParts == DownloadTypeOK <=> FlagsOK /\ DataOK
  BY DEF DownloadTypeOK, FlagsOK, DataOK

\* The initial state is well typed.
LEMMA TypeInit == DownloadInit => DownloadTypeOK
  <1>1. DownloadInit => FlagsOK
    BY DEF DownloadInit, FlagsOK
  <1>2. DownloadInit => DataOK
    BY DEF DownloadInit, DataOK, EmptyFile, Contents, Codes, Steps, NoSize
  <1> QED  BY <1>1, <1>2, TypeParts

\* Every step of the worker keeps the flags Boolean.
LEMMA FlagsWorker == FlagsOK /\ Worker => FlagsOK'
  <1>   SUFFICES ASSUME FlagsOK PROVE Worker => FlagsOK'
    OBVIOUS
  <1>   USE DEF FlagsOK, configVars, attemptVars
  <1>1. EnterCall => FlagsOK'
    BY DEF EnterCall, ResetLocals
  <1>2. EnterCallFails => FlagsOK'
    BY DEF EnterCallFails, Return, ResetLocals
  <1>3. AbortBeforeAttempt => FlagsOK'
    BY DEF AbortBeforeAttempt, Return, ResetLocals
  <1>4. ReuseLocalFile => FlagsOK'
    BY DEF ReuseLocalFile, Return, ResetLocals
  <1>5. StartAttempt => FlagsOK'
    BY DEF StartAttempt
  <1>6. OpenFails => FlagsOK'
    BY DEF OpenFails, Return, ResetLocals
  <1>7. ReceiveHeaders => FlagsOK'
    BY DEF ReceiveHeaders
  <1>8. WriteBody => FlagsOK'
    BY DEF WriteBody, TakesBody
  <1>9. WriteErrorBody => FlagsOK'
    BY DEF WriteErrorBody
  <1>10. TransferCompletes => FlagsOK'
    BY DEF TransferCompletes
  <1>11. TransferAborted => FlagsOK'
    BY DEF TransferAborted, Return, ResetLocals
  <1>12. TransferFails => FlagsOK'
    BY DEF TransferFails
  <1>13. RangeIgnored => FlagsOK'
    BY DEF RangeIgnored
  <1>14. EvaluateSuccess => FlagsOK'
    BY DEF EvaluateSuccess, Return, ResetLocals
  <1>15. EvaluateNotFound => FlagsOK'
    BY DEF EvaluateNotFound, Return, ResetLocals
  <1>16. EvaluateTruncationFails => FlagsOK'
    BY DEF EvaluateTruncationFails, Return, ResetLocals
  <1>17. EvaluateRetry => FlagsOK'
    BY DEF EvaluateRetry
  <1>18. EvaluateGiveUp => FlagsOK'
    BY DEF EvaluateGiveUp, Return, ResetLocals
  <1> QED
    BY <1>1, <1>2, <1>3, <1>4, <1>5, <1>6, <1>7, <1>8, <1>9, <1>10, <1>11,
       <1>12, <1>13, <1>14, <1>15, <1>16, <1>17, <1>18
    DEF Worker

\* Every step of the worker keeps the other variables in their types.
LEMMA DataWorker == DataOK /\ Worker => DataOK'
  <1>   SUFFICES ASSUME DataOK PROVE Worker => DataOK'
    OBVIOUS
  <1>   USE DEF DataOK, configVars, taskVars, budgetVars, attemptVars, Steps, Codes
  <1>1. EnterCall => DataOK'
    BY DEF EnterCall, ResetLocals
  <1>2. EnterCallFails => DataOK'
    BY DEF EnterCallFails, Return, ResetLocals
  <1>3. AbortBeforeAttempt => DataOK'
    BY DEF AbortBeforeAttempt, Return, ResetLocals
  <1>4. ReuseLocalFile => DataOK'
    BY DEF ReuseLocalFile, Return, ResetLocals
  <1>5. StartAttempt => DataOK'
    BY DEF StartAttempt, ResumeOffset, sizeDeclared, EmptyFile, Contents
  <1>6. OpenFails => DataOK'
    BY DEF OpenFails, Return, ResetLocals
  <1>7. ReceiveHeaders => DataOK'
    BY DEF ReceiveHeaders, StatusCodes
  <1>8. WriteBody => DataOK'
    BY DEF WriteBody, TakesBody, AppendAsset, Contents
  <1>9. WriteErrorBody => DataOK'
    BY DEF WriteErrorBody, AppendErrorPage, Contents
  <1>10. TransferCompletes => DataOK'
    BY DEF TransferCompletes, CodeOf, StatusCodes
  <1>11. TransferAborted => DataOK'
    BY DEF TransferAborted, Return, ResetLocals
  <1>12. TransferFails => DataOK'
    BY DEF TransferFails, CodeOf, StatusCodes
  <1>13. RangeIgnored => DataOK'
    BY DEF RangeIgnored, EmptyFile, Contents
  <1>14. EvaluateSuccess => DataOK'
    BY DEF EvaluateSuccess, Return, ResetLocals
  <1>15. EvaluateNotFound => DataOK'
    BY DEF EvaluateNotFound, Return, ResetLocals, EmptyFile, Contents
  <1>16. EvaluateTruncationFails => DataOK'
    BY DEF EvaluateTruncationFails, Return, ResetLocals
  <1>17. EvaluateRetry => DataOK'
    BY DEF EvaluateRetry, Min2, FileAfterAttempt, EmptyFile, Contents
  <1>18. EvaluateGiveUp => DataOK'
    BY DEF EvaluateGiveUp, Return, ResetLocals, FileAfterAttempt, EmptyFile, Contents
  <1> QED
    BY <1>1, <1>2, <1>3, <1>4, <1>5, <1>6, <1>7, <1>8, <1>9, <1>10, <1>11,
       <1>12, <1>13, <1>14, <1>15, <1>16, <1>17, <1>18
    DEF Worker

\* Every call of the GUI thread preserves the types, and so does a stutter.
LEMMA TypeCaller ==
  ASSUME DownloadTypeOK,
         \/ LaunchDownload \/ ResetReleaseDownloadState \/ RequestAbortDownload
         \/ UNCHANGED downloadVars
  PROVE  DownloadTypeOK'
  <1>1. FlagsOK'
    BY TypeParts
    DEF LaunchDownload, ResetReleaseDownloadState, RequestAbortDownload, FlagsOK,
        downloadVars, configVars, attemptVars
  <1>2. DataOK'
    BY TypeParts
    DEF LaunchDownload, ResetReleaseDownloadState, RequestAbortDownload, DataOK,
        downloadVars, configVars, taskVars, budgetVars, attemptVars, Steps
  <1> QED  BY <1>1, <1>2 DEF DownloadTypeOK, FlagsOK, DataOK

\* Every step of the download worker and its caller preserves the types.
LEMMA TypeStep ==
  ASSUME DownloadTypeOK, [DownloadNext]_downloadVars
  PROVE  DownloadTypeOK'
  <1>1. CASE Worker
    <2>1. FlagsOK' /\ DataOK'
      BY <1>1, FlagsWorker, DataWorker, TypeParts
    <2> QED  BY <2>1 DEF DownloadTypeOK, FlagsOK, DataOK
  <1>2. CASE Caller \/ UNCHANGED downloadVars
    BY <1>2, TypeCaller DEF Caller, DownloadReleaseAsync
  <1> QED  BY <1>1, <1>2 DEF DownloadNext

\* Type correctness of the download worker.
THEOREM TypeCorrect == DownloadSpec => []DownloadTypeOK
  <1>1. DownloadInit => DownloadTypeOK
    BY TypeInit
  <1>2. DownloadTypeOK /\ [DownloadNext]_downloadVars => DownloadTypeOK'
    BY TypeStep
  <1> QED  BY <1>1, <1>2, PTL DEF DownloadSpec

-----------------------------------------------------------------------------
(* Asset bytes never land at a wrong offset.                               *)

\* A step that ends outside a transfer and leaves the file alone, or empties
\* it, keeps the file unscrambled and has no offset to agree with.
LEMMA OutsideTransfer ==
  ASSUME NeverScrambled, file' = file \/ file' = EmptyFile, pc' # "transfer"
  PROVE  NeverScrambled' /\ OffsetsAgree'
  BY DEF NeverScrambled, OffsetsAgree, EmptyFile

\* The steps of the worker that end outside a transfer are of that kind.
LEMMA LeavesTransfer ==
  ASSUME Worker, pc' # "transfer"
  PROVE  file' = file \/ file' = EmptyFile
  <1>   USE DEF Return, FileAfterAttempt
  <1>1. CASE EnterCall \/ EnterCallFails \/ AbortBeforeAttempt \/ ReuseLocalFile
    BY <1>1 DEF EnterCall, EnterCallFails, AbortBeforeAttempt, ReuseLocalFile
  <1>2. CASE StartAttempt \/ OpenFails
    BY <1>2 DEF StartAttempt, OpenFails
  <1>3. CASE ReceiveHeaders \/ WriteBody \/ WriteErrorBody
    BY <1>3 DEF ReceiveHeaders, WriteBody, TakesBody, WriteErrorBody
  <1>4. CASE TransferCompletes \/ TransferAborted \/ TransferFails \/ RangeIgnored
    BY <1>4 DEF TransferCompletes, TransferAborted, TransferFails, RangeIgnored
  <1>5. CASE \/ EvaluateSuccess \/ EvaluateNotFound \/ EvaluateTruncationFails
             \/ EvaluateRetry \/ EvaluateGiveUp
    BY <1>5 DEF EvaluateSuccess, EvaluateNotFound, EvaluateTruncationFails, EvaluateRetry,
                EvaluateGiveUp
  <1> QED  BY <1>1, <1>2, <1>3, <1>4, <1>5 DEF Worker

\* The steps of the worker that end in a transfer.
LEMMA EntersTransfer ==
  ASSUME Worker, pc' = "transfer"
  PROVE  StartAttempt \/ ReceiveHeaders \/ WriteBody \/ WriteErrorBody
  BY DEF Worker, Return, EnterCall, EnterCallFails, AbortBeforeAttempt, ReuseLocalFile,
         OpenFails, TransferCompletes, TransferAborted, TransferFails, RangeIgnored,
         EvaluateSuccess, EvaluateNotFound, EvaluateTruncationFails, EvaluateRetry,
         EvaluateGiveUp

\* Every step of the worker preserves the two invariants on offsets.
LEMMA OffsetsWorker ==
  ASSUME DownloadTypeOK, NeverScrambled, OffsetsAgree, Worker
  PROVE  NeverScrambled' /\ OffsetsAgree'
  <1>   USE DEF NeverScrambled, OffsetsAgree
  <1>0. DataOK
    BY TypeParts
  <1>1. CASE pc' # "transfer"
    BY <1>1, OutsideTransfer, LeavesTransfer
  <1>2. CASE StartAttempt
    BY <1>0, <1>2 DEF StartAttempt, ResumeOffset, EmptyFile, DataOK
  <1>3. CASE ReceiveHeaders
    BY <1>0, <1>3 DEF ReceiveHeaders, wantsResume, DataOK
  <1>4. CASE WriteBody
    <2>1. CASE badbit
      BY <1>4, <2>1 DEF WriteBody, TakesBody
    <2>2. CASE badbit'
      BY <1>4, <2>2, <1>0 DEF WriteBody, TakesBody, AppendAsset, DataOK
    <2>3. CASE ~badbit /\ ~badbit'
      <3>1. /\ file' = AppendAsset(file, at)
            /\ file.len = at
            /\ at' = at + 1 /\ UNCHANGED <<lastHttpCode, localSize>>
            /\ lastHttpCode = 206 \/ (lastHttpCode = 200 /\ localSize = 0)
        BY <1>0, <1>4, <2>3 DEF WriteBody, TakesBody, wantsResume, DataOK
      <3> QED  BY <3>1, <1>0 DEF AppendAsset, DataOK
    <2> QED  BY <2>1, <2>2, <2>3
  <1>5. CASE WriteErrorBody
    <2>1. file'.content # "scrambled"
      BY <1>0, <1>5 DEF WriteErrorBody, AppendErrorPage, DataOK
    <2>2. lastHttpCode' \in {404, 416, 503}
      BY <1>5 DEF WriteErrorBody
    <2> QED  BY <2>1, <2>2
  <1> QED  BY <1>1, <1>2, <1>3, <1>4, <1>5, EntersTransfer

\* NeverScrambled holds whatever the server, the network and the disk do.
THEOREM NothingScrambled == DownloadSpec => []NeverScrambled
  <1> DEFINE Inv == DownloadTypeOK /\ NeverScrambled /\ OffsetsAgree
  <1>1. DownloadInit => Inv
    BY TypeInit DEF DownloadInit, NeverScrambled, OffsetsAgree, EmptyFile
  <1>2. Inv /\ [DownloadNext]_downloadVars => Inv'
    <2>   SUFFICES ASSUME Inv, [DownloadNext]_downloadVars PROVE Inv'
      OBVIOUS
    <2>1. DownloadTypeOK'
      BY TypeStep
    <2>2. CASE Worker
      BY <2>1, <2>2, OffsetsWorker
    <2>3. CASE Caller \/ UNCHANGED downloadVars
      <3>1. UNCHANGED <<file, localSize, lastHttpCode, at, badbit>>
        BY <2>3 DEF Caller, DownloadReleaseAsync, LaunchDownload, ResetReleaseDownloadState,
                    RequestAbortDownload, downloadVars, attemptVars
      <3>2. pc' = pc \/ pc' = "entry"
        BY <2>3 DEF Caller, DownloadReleaseAsync, LaunchDownload, ResetReleaseDownloadState,
                    RequestAbortDownload, downloadVars
      <3> QED  BY <2>1, <3>1, <3>2 DEF NeverScrambled, OffsetsAgree
    <2> QED  BY <2>2, <2>3 DEF DownloadNext
  <1>3. Inv => NeverScrambled
    OBVIOUS
  <1> QED  BY <1>1, <1>2, <1>3, PTL DEF DownloadSpec

\* The task is running exactly while the worker is in DownloadRelease, and the
\* result is there exactly when it is ready.
LEMMA TaskWorker == TaskIsCall /\ Worker => TaskIsCall'
  <1>   SUFFICES ASSUME TaskIsCall, Worker PROVE TaskIsCall'
    OBVIOUS
  <1>1. CASE \E r \in {"ok", "cancelled", "failed"} : Return(r)
    BY <1>1 DEF Return, TaskIsCall
  <1>2. CASE UNCHANGED taskVars /\ pc # "idle" /\ pc' # "idle"
    BY <1>2 DEF taskVars, TaskIsCall
  <1>3. CASE EnterCall \/ StartAttempt \/ ReceiveHeaders \/ WriteBody \/ WriteErrorBody
    BY <1>3, <1>2 DEF EnterCall, StartAttempt, ReceiveHeaders, WriteBody, TakesBody, WriteErrorBody
  <1>4. CASE TransferCompletes \/ TransferFails \/ RangeIgnored \/ EvaluateRetry
    BY <1>4, <1>2 DEF TransferCompletes, TransferFails, RangeIgnored, EvaluateRetry
  <1> QED
    BY <1>1, <1>3, <1>4
    DEF Worker, EnterCallFails, AbortBeforeAttempt, ReuseLocalFile, OpenFails, TransferAborted,
        EvaluateSuccess, EvaluateNotFound, EvaluateTruncationFails, EvaluateGiveUp

\* The calls of the GUI thread preserve it as well.
LEMMA TaskStep ==
  ASSUME TaskIsCall, [DownloadNext]_downloadVars
  PROVE  TaskIsCall'
  <1>1. CASE Worker
    BY <1>1, TaskWorker
  <1>2. CASE Caller
    BY <1>2 DEF Caller, DownloadReleaseAsync, LaunchDownload, ResetReleaseDownloadState,
                RequestAbortDownload, TaskIsCall, taskVars
  <1>3. CASE UNCHANGED downloadVars
    BY <1>3 DEF downloadVars, taskVars, TaskIsCall
  <1> QED  BY <1>1, <1>2, <1>3 DEF DownloadNext

-----------------------------------------------------------------------------
(* The number of requests of a call is bounded.                            *)

\* The locals a call starts with, or leaves behind, owe nothing.
LEMMA NothingOwed ==
  ASSUME DataOK, ResetLocals, fileFaults' = fileFaults
  PROVE  retryCount' >= 1 /\ RestartsPaid'
  <1>1. transfers' = 0 /\ retryCount' = MAX_RETRY_COUNT /\ fileFaults' \in Nat
    BY DEF ResetLocals, DataOK
  <1>2. (IF InFlight' THEN 1 ELSE 0) \in Nat /\ (IF FromNothing' THEN 1 ELSE 0) \in Nat
    OBVIOUS
  <1> QED  BY <1>1, <1>2 DEF RestartsPaid

\* Every step of the worker preserves the amortised count.
LEMMA BudgetWorker ==
  ASSUME DownloadTypeOK, retryCount >= 1, RestartsPaid, Worker
  PROVE  retryCount' >= 1 /\ RestartsPaid'
  <1>0. DataOK /\ DataOK'
    <2>1. DataOK
      BY TypeParts
    <2> QED  BY <2>1, DataWorker
  <1>1. CASE EnterCall
    BY <1>0, <1>1, NothingOwed DEF EnterCall
  <1>2. CASE \E r \in {"ok", "cancelled", "failed"} : Return(r)
    BY <1>0, <1>2, NothingOwed DEF Return
  <1>3. CASE StartAttempt
    BY <1>0, <1>3
    DEF StartAttempt, ResumeOffset, RestartsPaid, InFlight, FromNothing, DataOK
  <1>4. CASE ReceiveHeaders \/ WriteBody \/ WriteErrorBody \/ TransferCompletes \/ TransferFails
    <2>1. retryCount' = retryCount /\ transfers' = transfers /\ localSize' = localSize
      BY <1>4 DEF ReceiveHeaders, WriteBody, TakesBody, WriteErrorBody, TransferCompletes, TransferFails,
                  budgetVars
    <2>2. InFlight /\ InFlight' /\ pc # "attempt" /\ pc' # "attempt"
      BY <1>4 DEF ReceiveHeaders, WriteBody, TakesBody, WriteErrorBody, TransferCompletes, TransferFails,
                  InFlight
    <2>3. fileFaults' = fileFaults \/ fileFaults' = fileFaults + 1
      BY <1>4 DEF ReceiveHeaders, WriteBody, TakesBody, WriteErrorBody, TransferCompletes, TransferFails
    <2>4. FromNothing' <=> FromNothing
      BY <2>1, <2>2 DEF FromNothing
    <2>5. CASE fileFaults' = fileFaults
      BY <1>0, <2>1, <2>2, <2>4, <2>5 DEF RestartsPaid, DataOK
    <2>6. CASE fileFaults' = fileFaults + 1
      BY <1>0, <2>1, <2>2, <2>4, <2>6 DEF RestartsPaid, DataOK
    <2> QED  BY <2>3, <2>5, <2>6
  <1>5. CASE RangeIgnored
    <2>1. /\ pc = "transfer" /\ pc' = "attempt"
          /\ localSize # 0
          /\ UNCHANGED <<retryCount, transfers>>
      BY <1>0, <1>5 DEF RangeIgnored, wantsResume, budgetVars, DataOK
    <2>2. CASE file' = EmptyFile /\ UNCHANGED fileFaults
      <3>1. FromNothing' /\ ~FromNothing /\ InFlight /\ ~InFlight'
        BY <2>1, <2>2 DEF FromNothing, InFlight, EmptyFile
      <3> QED  BY <1>0, <2>1, <2>2, <3>1 DEF RestartsPaid, DataOK
    <2>3. CASE fileFaults' = fileFaults + 1
      <3>1. ~FromNothing /\ InFlight /\ ~InFlight'
        BY <2>1 DEF FromNothing, InFlight
      <3> QED  BY <1>0, <2>1, <2>3, <3>1 DEF RestartsPaid, DataOK
    <2> QED  BY <1>5, <2>2, <2>3 DEF RangeIgnored
  <1>6. CASE EvaluateRetry
    <2>1. /\ pc = "evaluate" /\ pc' = "attempt"
          /\ retryCount - 1 > 0 /\ retryCount' = retryCount - 1
          /\ UNCHANGED <<transfers, fileFaults>>
      BY <1>6 DEF EvaluateRetry
    <2>2. InFlight /\ ~InFlight'
      BY <2>1 DEF InFlight
    <2> QED  BY <1>0, <2>1, <2>2 DEF RestartsPaid, DataOK
  <1> QED
    BY <1>1, <1>2, <1>3, <1>4, <1>5, <1>6
    DEF Worker, EnterCallFails, AbortBeforeAttempt, ReuseLocalFile, OpenFails, TransferAborted,
        EvaluateSuccess, EvaluateNotFound, EvaluateTruncationFails, EvaluateGiveUp

\* RetryBudget: the requests of a call are bounded, although a restart after
\* an ignored range consumes no retry.
THEOREM RequestsBounded == DownloadSpec => []RetryBudget
  <1> DEFINE Inv == DownloadTypeOK /\ TaskIsCall /\ retryCount >= 1 /\ RestartsPaid
  <1>1. DownloadInit => Inv
    <2>   SUFFICES ASSUME DownloadInit PROVE Inv
      OBVIOUS
    <2>1. DownloadTypeOK
      BY TypeInit
    <2>2. TaskIsCall
      BY DEF DownloadInit, TaskIsCall
    <2>3. retryCount >= 1 /\ RestartsPaid
      BY DEF DownloadInit, RestartsPaid, InFlight, FromNothing
    <2> QED  BY <2>1, <2>2, <2>3
  <1>2. Inv /\ [DownloadNext]_downloadVars => Inv'
    <2>   SUFFICES ASSUME Inv, [DownloadNext]_downloadVars PROVE Inv'
      OBVIOUS
    <2>1. DownloadTypeOK' /\ TaskIsCall'
      BY TypeStep, TaskStep
    <2>2. CASE Worker
      BY <2>1, <2>2, BudgetWorker
    <2>3. CASE Caller \/ UNCHANGED downloadVars
      <3>1. UNCHANGED <<file, localSize, retryCount, transfers, fileFaults>>
        BY <2>3 DEF Caller, DownloadReleaseAsync, LaunchDownload, ResetReleaseDownloadState,
                    RequestAbortDownload, downloadVars, attemptVars, budgetVars
      <3>2. pc' = pc \/ (pc = "idle" /\ pc' = "entry")
        BY <2>3 DEF Caller, DownloadReleaseAsync, LaunchDownload, ResetReleaseDownloadState,
                    RequestAbortDownload, downloadVars, TaskIsCall
      <3>3. (InFlight' <=> InFlight) /\ (FromNothing' <=> FromNothing)
        BY <3>1, <3>2 DEF InFlight, FromNothing
      <3> QED  BY <2>1, <3>1, <3>3 DEF RestartsPaid
    <2> QED  BY <2>2, <2>3 DEF DownloadNext
  <1>3. Inv => RetryBudget
    BY TypeParts DEF RestartsPaid, RetryBudget, DataOK
  <1> QED  BY <1>1, <1>2, <1>3, PTL DEF DownloadSpec

-----------------------------------------------------------------------------
(* A file accepted without a checksum is whole.                            *)

\* A full reply that was received without a failed write is in the file.
LEMMA FullReplyWorker ==
  ASSUME DownloadTypeOK, OffsetsAgree, FullReplyIsWhole, Worker
  PROVE  FullReplyIsWhole'
  <1>0. DataOK
    BY TypeParts
  <1>1. CASE TransferCompletes
    <2>1. CASE lastHttpCode = 200
      <3>1. /\ pc = "transfer" /\ UNCHANGED <<file, badbit>>
            /\ (localSize = 0 /\ at = AssetSize) \/ localSize = AssetSize
        BY <1>0, <1>1, <2>1 DEF TransferCompletes, wantsResume, DataOK
      <3> QED  BY <2>1, <3>1 DEF OffsetsAgree, FullReplyIsWhole
    <2>2. CASE lastHttpCode # 200
      <3>1. code' # "OK_200"
        BY <1>1, <2>2 DEF TransferCompletes, CodeOf
      <3> QED  BY <3>1 DEF FullReplyIsWhole
    <2> QED  BY <2>1, <2>2
  <1>2. CASE TransferFails
    BY <1>2 DEF TransferFails, CodeOf, FullReplyIsWhole
  <1>3. CASE pc' # "evaluate"
    BY <1>3 DEF FullReplyIsWhole
  <1> QED
    BY <1>1, <1>2, <1>3
    DEF Worker, Return, EnterCall, EnterCallFails, AbortBeforeAttempt, ReuseLocalFile,
        StartAttempt, OpenFails, ReceiveHeaders, WriteBody, TakesBody, WriteErrorBody, TransferAborted,
        RangeIgnored, EvaluateSuccess, EvaluateNotFound, EvaluateTruncationFails,
        EvaluateRetry, EvaluateGiveUp

\* Only two steps of the worker make a result "ok".
LEMMA WorkerReturnsOk ==
  ASSUME TaskIsCall, Worker, result' = "ok"
  PROVE  ReuseLocalFile \/ EvaluateSuccess
  BY DEF Worker, TaskIsCall, Return, taskVars, EnterCall, EnterCallFails, AbortBeforeAttempt,
         StartAttempt, OpenFails, ReceiveHeaders, WriteBody, TakesBody, WriteErrorBody,
         TransferCompletes, TransferFails, TransferAborted, RangeIgnored, EvaluateNotFound,
         EvaluateTruncationFails, EvaluateRetry, EvaluateGiveUp

\* Whatever the worker returns as a success is whole.
LEMMA AcceptedWorker ==
  ASSUME DownloadTypeOK, TaskIsCall, FullReplyIsWhole, Worker
  PROVE  AcceptedFileIsWhole'
  <1>   SUFFICES ASSUME result' = "ok", release'.downloadSize \in {NoSize, AssetSize},
                        ~(release'.downloadSize = NoSize /\ release'.checksum), ~badbit'
                 PROVE  file'.len = AssetSize
    BY DEF AcceptedFileIsWhole, sizeDeclared
  <1>1. CASE ReuseLocalFile
    BY <1>1
    DEF ReuseLocalFile, LocalFileComplete, LocalFileLeftToChecksum, sizeDeclared, Return,
        configVars
  <1>2. CASE EvaluateSuccess
    <2>1. pc = "evaluate" /\ Succeeded /\ UNCHANGED <<release, file, badbit>>
      BY <1>2 DEF EvaluateSuccess, Return, configVars
    <2>2. CASE code = "OK_200"
      BY <2>1, <2>2 DEF FullReplyIsWhole
    <2>3. CASE ExpectedSize # NoSize /\ file.len = ExpectedSize
      BY <2>1, <2>3 DEF ExpectedSize, TotalSizeFromContentRange, sizeDeclared
    <2> QED  BY <2>1, <2>2, <2>3 DEF Succeeded
  <1> QED  BY <1>1, <1>2, WorkerReturnsOk

\* AcceptedFileIsWhole: without a failed write, a success that no checksum
\* will judge hands over a file of the asset's size.
THEOREM AcceptedIsWhole == DownloadSpec => []AcceptedFileIsWhole
  <1> DEFINE Inv == /\ DownloadTypeOK /\ TaskIsCall /\ NeverScrambled /\ OffsetsAgree
                    /\ FullReplyIsWhole /\ AcceptedFileIsWhole
  <1>1. DownloadInit => Inv
    BY TypeInit DEF DownloadInit, TaskIsCall, NeverScrambled, OffsetsAgree, FullReplyIsWhole,
                    AcceptedFileIsWhole, EmptyFile
  <1>2. Inv /\ [DownloadNext]_downloadVars => Inv'
    <2>   SUFFICES ASSUME Inv, [DownloadNext]_downloadVars PROVE Inv'
      OBVIOUS
    <2>1. DownloadTypeOK' /\ TaskIsCall'
      BY TypeStep, TaskStep
    <2>2. CASE Worker
      BY <2>1, <2>2, OffsetsWorker, FullReplyWorker, AcceptedWorker
    <2>3. CASE Caller \/ UNCHANGED downloadVars
      <3>1. UNCHANGED <<release, file, localSize, lastHttpCode, at, code, badbit>>
        BY <2>3 DEF Caller, DownloadReleaseAsync, LaunchDownload, ResetReleaseDownloadState,
                    RequestAbortDownload, downloadVars, configVars, attemptVars
      <3>2. (pc' = pc \/ pc' = "entry") /\ (result' = result \/ result' = "none")
        BY <2>3 DEF Caller, DownloadReleaseAsync, LaunchDownload, ResetReleaseDownloadState,
                    RequestAbortDownload, downloadVars, taskVars
      <3>3. NeverScrambled' /\ OffsetsAgree' /\ FullReplyIsWhole'
        BY <3>1, <3>2 DEF NeverScrambled, OffsetsAgree, FullReplyIsWhole
      <3>4. AcceptedFileIsWhole'
        BY <3>1, <3>2 DEF AcceptedFileIsWhole, sizeDeclared
      <3> QED  BY <2>1, <3>3, <3>4
    <2> QED  BY <2>2, <2>3 DEF DownloadNext
  <1>3. Inv => AcceptedFileIsWhole
    OBVIOUS
  <1> QED  BY <1>1, <1>2, <1>3, PTL DEF DownloadSpec

-----------------------------------------------------------------------------
(* The wizard.                                                             *)

HIDE DEF SizesAssumption, RetryAssumption

\* The temporary file has not been deleted by the destructor.
BeforeDeletion == main \in {"loop", "waitDownload", "teardown"}

Locked ==
  instStep \in {"Downloading", "Verifying", "PrepareInstall", "InstallRunning"}
    => currentPage = "DownloadAndInstall" /\ isBackDisabled

TaskSteps ==
  /\ downloadTask # "none" => instStep = "Downloading"
  /\ verifyTask # "none" => instStep = "Verifying"
  /\ SetupRunning => instStep = "InstallRunning"

\* A verdict in flight, and a verdict taken, is about the bytes on disk.
VerdictIsCurrent ==
  /\ verifyTask = "ready" /\ verdict /\ BeforeDeletion => MayPass
  /\ accepted => MayPass

AcceptedSteps ==
  /\ accepted => instStep \in {"Begin", "PrepareInstall", "InstallRunning",
                               "InstallFailed", "InstallSucceeded"}
  /\ instStep = "PrepareInstall" /\ BeforeDeletion => accepted
  /\ SetupRunning /\ BeforeDeletion => accepted
  /\ setupTask \in {"starting", "launching"} => accepted \/ file = EmptyFile

SuccessIsReal ==
  /\ setupResult = "succeeded" => installed
  /\ instStep = "InstallSucceeded" => installed
  /\ status = "NV_S_UPDATE_FINISHED" => installed

ShutdownOrder ==
  /\ main \in {"teardown", "join", "exited"} => downloadTask # "running"
  /\ main = "exited" => verifyTask # "running" /\ ~SetupRunning

WizardInv ==
  /\ WizardTypeOK
  /\ TaskIsCall
  /\ Locked
  /\ TaskSteps
  /\ VerdictIsCurrent
  /\ AcceptedSteps
  /\ SuccessIsReal
  /\ ShutdownOrder

-----------------------------------------------------------------------------
(* The worker's steps, as far as the wizard is concerned.                  *)

\* A step of the worker belongs to a running call and leaves the settings
\* alone; at most it makes the task ready.
LEMMA WorkerFrame ==
  ASSUME Worker
  PROVE  /\ pc # "idle"
         /\ release' = release
         /\ downloadTask' = downloadTask \/ downloadTask' = "ready"
  <1>   USE DEF Return, configVars, taskVars
  <1>1. CASE EnterCall \/ EnterCallFails \/ AbortBeforeAttempt \/ ReuseLocalFile
    BY <1>1 DEF EnterCall, EnterCallFails, AbortBeforeAttempt, ReuseLocalFile
  <1>2. CASE StartAttempt \/ OpenFails
    BY <1>2 DEF StartAttempt, OpenFails
  <1>3. CASE ReceiveHeaders \/ WriteBody \/ WriteErrorBody
    BY <1>3 DEF ReceiveHeaders, WriteBody, TakesBody, WriteErrorBody
  <1>4. CASE TransferCompletes \/ TransferAborted \/ TransferFails \/ RangeIgnored
    BY <1>4 DEF TransferCompletes, TransferAborted, TransferFails, RangeIgnored
  <1>5. CASE \/ EvaluateSuccess \/ EvaluateNotFound \/ EvaluateTruncationFails
             \/ EvaluateRetry \/ EvaluateGiveUp
    BY <1>5 DEF EvaluateSuccess, EvaluateNotFound, EvaluateTruncationFails, EvaluateRetry,
                EvaluateGiveUp
  <1> QED  BY <1>1, <1>2, <1>3, <1>4, <1>5 DEF Worker

-----------------------------------------------------------------------------
(* Type correctness.                                                       *)

\* Deleting the temporary file in the destructor preserves the types.
LEMMA TypeDestroy == DownloadTypeOK /\ DestroyConfig => DownloadTypeOK'
  <1>   SUFFICES ASSUME DownloadTypeOK, DestroyConfig PROVE DownloadTypeOK'
    OBVIOUS
  <1>1. FlagsOK'
    BY TypeParts DEF DestroyConfig, FlagsOK, configVars, attemptVars
  <1>2. DataOK'
    BY TypeParts DEF DestroyConfig, DataOK, EmptyFile, Contents, configVars, taskVars,
                     budgetVars, attemptVars
  <1> QED  BY <1>1, <1>2 DEF DownloadTypeOK, FlagsOK, DataOK

\* Every step of the wizard preserves the types of the download worker.
LEMMA TypeDownloadPart ==
  ASSUME DownloadTypeOK, TaskIsCall, [Next]_vars
  PROVE  DownloadTypeOK' /\ TaskIsCall'
  <1>1. CASE Worker
    <2>1. FlagsOK' /\ DataOK'
      BY <1>1, FlagsWorker, DataWorker, TypeParts
    <2>2. DownloadTypeOK'
      BY <2>1 DEF DownloadTypeOK, FlagsOK, DataOK
    <2>3. TaskIsCall'
      BY <1>1, TaskWorker
    <2> QED  BY <2>2, <2>3
  <1>2. CASE LaunchDownload \/ ResetReleaseDownloadState \/ RequestAbortDownload
             \/ UNCHANGED downloadVars
    <2>1. DownloadTypeOK'
      BY <1>2, TypeCaller
    <2>2. TaskIsCall'
      BY <1>2 DEF LaunchDownload, ResetReleaseDownloadState, RequestAbortDownload,
                  TaskIsCall, downloadVars, taskVars
    <2> QED  BY <2>1, <2>2
  <1>3. CASE DestroyConfig
    BY <1>3, TypeDestroy DEF DestroyConfig, TaskIsCall, taskVars
  <1>4. \/ Worker \/ LaunchDownload \/ ResetReleaseDownloadState \/ RequestAbortDownload
        \/ UNCHANGED downloadVars \/ DestroyConfig
    <2>   USE DEF vars
    <2>1. CASE Navigation \/ ClickRetry
      BY <2>1 DEF Navigation, ClickBack, ClickShowDetails, ClickRemindMe,
                  ClickDownloadAndInstall, ClickCancel, CloseWindow, ClickRetry
    <2>2. CASE Frame
      BY <2>2 DEF Frame, Shutdown, FrameMultipleVersions, FrameSummary, FrameFinish,
                  FrameBegin, FrameDownloadSucceeded, FrameDownloadFailed,
                  FrameStartVerification, FrameVerificationFinished,
                  FrameVerificationFailed, FramePrepareInstall, FrameInstallFinished,
                  FrameInstallFailed, FrameInstallSucceeded, Quit, LeaveWinMain, JoinTasks
    <2>3. CASE DownloadWorker \/ VerifyReleaseIntegrity \/ ExecuteSetup
      BY <2>3 DEF DownloadWorker, VerifyReleaseIntegrity, ExecuteSetup,
                  SetupTerminatesProcess, SetupLaunches, SetupFinishes
    <2>4. CASE ProcessExits \/ Halted \/ UNCHANGED vars
      BY <2>4 DEF ProcessExits, Halted
    <2> QED  BY <2>1, <2>2, <2>3, <2>4 DEF Next
  <1> QED  BY <1>1, <1>2, <1>3, <1>4

\* The Boolean variables of the wizard.
WizardFlagsOK ==
  /\ isBackDisabled \in BOOLEAN /\ isCancelDisabled \in BOOLEAN
  /\ quitPosted \in BOOLEAN /\ verdict \in BOOLEAN /\ terminated \in BOOLEAN
  /\ accepted \in BOOLEAN /\ refused \in BOOLEAN /\ installed \in BOOLEAN
  /\ hasSingleRelease \in BOOLEAN /\ strictVerification \in BOOLEAN

\* The others.
WizardDataOK ==
  /\ currentPage \in Pages /\ instStep \in InstSteps
  /\ status \in {"ERROR_SUCCESS", "NV_S_USER_POSTPONED", "NV_S_UPDATE_FINISHED",
                 "NV_E_DOWNLOAD_FAILED", "NV_E_SIGNATURE_INVALID", "NV_E_SETUP_FAILED"}
  /\ main \in {"loop", "waitDownload", "teardown", "join", "exited", "terminated"}
  /\ verifyTask \in {"none", "running", "ready"}
  /\ setupTask \in {"none", "starting", "launching", "running", "ready"}
  /\ setupResult \in {"none", "succeeded", "badExitCode", "terminateFailed",
                      "launchFailed", "extractionFailed", "exception"}
  /\ processToTerminate \in {"none", "alive", "gone"}

\* Every step keeps the wizard's flags Boolean.
LEMMA WizardFlagsStep == WizardFlagsOK /\ [Next]_vars => WizardFlagsOK'
  <1>   SUFFICES ASSUME WizardFlagsOK, [Next]_vars PROVE WizardFlagsOK'
    OBVIOUS
  <1>   USE DEF WizardFlagsOK, navVars, mainVars, verifyVars, setupVars, trustVars, given
  <1>1. CASE Navigation \/ ClickRetry
    BY <1>1 DEF Navigation, ClickBack, ClickShowDetails, ClickRemindMe,
                ClickDownloadAndInstall, ClickCancel, CloseWindow, ClickRetry
  <1>2. CASE FrameMultipleVersions \/ FrameSummary \/ FrameFinish \/ Shutdown
    BY <1>2 DEF FrameMultipleVersions, FrameSummary, FrameFinish, Shutdown, Quit,
                LeaveWinMain, DestroyConfig, JoinTasks
  <1>3. CASE FrameBegin \/ FrameDownloadSucceeded \/ FrameDownloadFailed
    BY <1>3 DEF FrameBegin, FrameDownloadSucceeded, FrameDownloadFailed
  <1>4. CASE FrameStartVerification \/ FrameVerificationFinished \/ FrameVerificationFailed
    BY <1>4 DEF FrameStartVerification, FrameVerificationFinished, FrameVerificationFailed
  <1>5. CASE \/ FramePrepareInstall \/ FrameInstallFinished \/ FrameInstallFailed
             \/ FrameInstallSucceeded
    BY <1>5 DEF FramePrepareInstall, FrameInstallFinished, FrameInstallFailed,
                FrameInstallSucceeded
  <1>6. CASE DownloadWorker \/ VerifyReleaseIntegrity
    BY <1>6 DEF DownloadWorker, VerifyReleaseIntegrity, MayPass
  <1>7. CASE ExecuteSetup \/ ProcessExits
    BY <1>7 DEF ExecuteSetup, SetupTerminatesProcess, SetupLaunches, SetupFinishes,
                SetupReturns, ProcessExits
  <1>8. CASE UNCHANGED vars
    BY <1>8 DEF vars, wizardVars
  <1> QED
    BY <1>1, <1>2, <1>3, <1>4, <1>5, <1>6, <1>7, <1>8 DEF Next, Frame, Halted

\* Every step keeps the wizard's other variables in their types.
LEMMA WizardDataStep == WizardDataOK /\ [Next]_vars => WizardDataOK'
  <1>   SUFFICES ASSUME WizardDataOK, [Next]_vars PROVE WizardDataOK'
    OBVIOUS
  <1>   USE DEF WizardDataOK, navVars, mainVars, verifyVars, setupVars, Pages, InstSteps
  <1>1. CASE Navigation \/ ClickRetry
    BY <1>1 DEF Navigation, ClickBack, PageBefore, ClickShowDetails, ClickRemindMe,
                ClickDownloadAndInstall, ClickCancel, CloseWindow, ClickRetry
  <1>2. CASE FrameMultipleVersions \/ FrameSummary \/ FrameFinish \/ Shutdown
    BY <1>2 DEF FrameMultipleVersions, FrameSummary, FrameFinish, Shutdown, Quit,
                LeaveWinMain, DestroyConfig, JoinTasks
  <1>3. CASE FrameBegin \/ FrameDownloadSucceeded \/ FrameDownloadFailed
    BY <1>3 DEF FrameBegin, FrameDownloadSucceeded, FrameDownloadFailed
  <1>4. CASE FrameStartVerification \/ FrameVerificationFinished \/ FrameVerificationFailed
    BY <1>4 DEF FrameStartVerification, FrameVerificationFinished, FrameVerificationFailed
  <1>5. CASE \/ FramePrepareInstall \/ FrameInstallFinished \/ FrameInstallFailed
             \/ FrameInstallSucceeded
    BY <1>5 DEF FramePrepareInstall, FrameInstallFinished, FrameInstallFailed,
                FrameInstallSucceeded
  <1>6. CASE DownloadWorker \/ VerifyReleaseIntegrity
    BY <1>6 DEF DownloadWorker, VerifyReleaseIntegrity
  <1>7. CASE ExecuteSetup \/ ProcessExits
    BY <1>7 DEF ExecuteSetup, SetupTerminatesProcess, SetupLaunches, SetupFinishes,
                SetupReturns, ProcessExits
  <1>8. CASE UNCHANGED vars
    BY <1>8 DEF vars, wizardVars
  <1> QED
    BY <1>1, <1>2, <1>3, <1>4, <1>5, <1>6, <1>7, <1>8 DEF Next, Frame, Halted

\* The initial state is well typed.
LEMMA WizardTypeInit == Init => WizardTypeOK /\ TaskIsCall
  <1>   SUFFICES ASSUME Init PROVE WizardTypeOK /\ TaskIsCall
    OBVIOUS
  <1>1. DownloadTypeOK
    BY TypeInit DEF Init
  <1>2. WizardFlagsOK
    BY DEF Init, WizardFlagsOK
  <1>3. WizardDataOK
    BY DEF Init, WizardDataOK, Pages, InstSteps
  <1>4. TaskIsCall
    BY DEF Init, DownloadInit, TaskIsCall
  <1> QED  BY <1>1, <1>2, <1>3, <1>4 DEF WizardTypeOK, WizardFlagsOK, WizardDataOK

\* Every step of the wizard preserves the types.
LEMMA WizardTypeStep ==
  ASSUME WizardTypeOK, TaskIsCall, [Next]_vars
  PROVE  WizardTypeOK' /\ TaskIsCall'
  <1>1. DownloadTypeOK' /\ TaskIsCall'
    BY TypeDownloadPart DEF WizardTypeOK
  <1>2. WizardFlagsOK /\ WizardDataOK
    BY DEF WizardTypeOK, WizardFlagsOK, WizardDataOK
  <1>3. WizardFlagsOK' /\ WizardDataOK'
    BY <1>2, WizardFlagsStep, WizardDataStep
  <1> QED  BY <1>1, <1>3 DEF WizardTypeOK, WizardFlagsOK, WizardDataOK

\* Type correctness of the wizard with its workers.
THEOREM WizardTypeCorrect == Spec => []WizardTypeOK
  <1> DEFINE Inv == WizardTypeOK /\ TaskIsCall
  <1>1. Init => Inv
    BY WizardTypeInit
  <1>2. Inv /\ [Next]_vars => Inv'
    BY WizardTypeStep
  <1>3. Inv => WizardTypeOK
    OBVIOUS
  <1> QED  BY <1>1, <1>2, <1>3, PTL DEF Spec

-----------------------------------------------------------------------------
(* The inductive invariant.                                                *)

\* Locked: no click leaves the page while a step waits for a task.
LEMMA LockedStep ==
  ASSUME WizardTypeOK, Locked, [Next]_vars
  PROVE  Locked'
  <1>   USE DEF Locked, navVars, InLoop, OnPage, OnStep
  <1>1. CASE Navigation \/ ClickRetry
    <2>1. CASE ClickBack
      BY <2>1 DEF ClickBack
    <2>2. CASE ClickShowDetails \/ ClickRemindMe
      BY <2>2 DEF ClickShowDetails, ClickRemindMe
    <2>3. CASE ClickDownloadAndInstall \/ ClickRetry \/ ClickCancel \/ CloseWindow
      BY <2>3 DEF ClickDownloadAndInstall, ClickRetry, ClickCancel, CloseWindow
    <2> QED  BY <1>1, <2>1, <2>2, <2>3 DEF Navigation
  <1>2. CASE FrameMultipleVersions \/ FrameSummary \/ FrameFinish \/ Shutdown
    BY <1>2 DEF FrameMultipleVersions, FrameSummary, FrameFinish, Shutdown, Quit,
                LeaveWinMain, DestroyConfig, JoinTasks
  <1>3. CASE FrameBegin \/ FrameDownloadSucceeded \/ FrameDownloadFailed
    BY <1>3 DEF FrameBegin, FrameDownloadSucceeded, FrameDownloadFailed
  <1>4. CASE FrameStartVerification \/ FrameVerificationFinished \/ FrameVerificationFailed
    BY <1>4 DEF FrameStartVerification, FrameVerificationFinished, FrameVerificationFailed
  <1>5. CASE \/ FramePrepareInstall \/ FrameInstallFinished \/ FrameInstallFailed
             \/ FrameInstallSucceeded
    BY <1>5 DEF FramePrepareInstall, FrameInstallFinished, FrameInstallFailed,
                FrameInstallSucceeded
  <1>6. CASE UNCHANGED navVars
    BY <1>6
  <1> QED
    BY <1>1, <1>2, <1>3, <1>4, <1>5, <1>6
    DEF Next, Frame, Halted, DownloadWorker, VerifyReleaseIntegrity, ExecuteSetup,
        SetupTerminatesProcess, SetupLaunches, SetupFinishes, ProcessExits, vars, wizardVars

\* TaskSteps: each task exists only while its step of the page is shown.
LEMMA TaskStepsStep ==
  ASSUME WizardTypeOK, TaskIsCall, Locked, TaskSteps, [Next]_vars
  PROVE  TaskSteps'
  <1>   USE DEF TaskSteps, SetupRunning, navVars, verifyVars, setupVars, InLoop, OnPage, OnStep
  <1>0. UNCHANGED downloadVars => UNCHANGED downloadTask
    BY DEF downloadVars, taskVars
  <1>1. CASE Navigation \/ ClickRetry
    <2>1. UNCHANGED <<downloadTask, verifyTask, setupTask>>
      BY <1>0, <1>1 DEF Navigation, ClickBack, ClickShowDetails, ClickRemindMe,
                  ClickDownloadAndInstall, ClickCancel, CloseWindow, ClickRetry
    <2>2. \/ instStep' = instStep
          \/ instStep' = "Begin" /\ instStep \in {"DownloadFailed", "VerificationFailed"}
          \/ instStep' = "Begin" /\ currentPage = "SingleVersionSummary"
      BY <1>1 DEF Navigation, ClickBack, ClickShowDetails, ClickRemindMe,
                  ClickDownloadAndInstall, ClickCancel, CloseWindow, ClickRetry
    <2> QED  BY <2>1, <2>2 DEF Locked
  <1>2. CASE FrameMultipleVersions \/ FrameSummary \/ FrameFinish
    BY <1>0, <1>2 DEF FrameMultipleVersions, FrameSummary, FrameFinish
  <1>3. CASE FrameBegin
    BY <1>3 DEF FrameBegin, LaunchDownload
  <1>4. CASE FrameDownloadSucceeded \/ FrameDownloadFailed
    BY <1>4 DEF FrameDownloadSucceeded, FrameDownloadFailed, ResetReleaseDownloadState
  <1>5. CASE FrameStartVerification \/ FrameVerificationFinished \/ FrameVerificationFailed
    BY <1>0, <1>5
    DEF FrameStartVerification, FrameVerificationFinished, FrameVerificationFailed
  <1>6. CASE \/ FramePrepareInstall \/ FrameInstallFinished \/ FrameInstallFailed
             \/ FrameInstallSucceeded
    BY <1>0, <1>6 DEF FramePrepareInstall, FrameInstallFinished, FrameInstallFailed,
                      FrameInstallSucceeded
  <1>7. CASE Shutdown
    BY <1>0, <1>7 DEF Shutdown, Quit, RequestAbortDownload, LeaveWinMain, DestroyConfig,
                      JoinTasks, taskVars
  <1>8. CASE DownloadWorker
    BY <1>8, WorkerFrame DEF DownloadWorker, TaskIsCall
  <1>9. CASE VerifyReleaseIntegrity
    BY <1>0, <1>9 DEF VerifyReleaseIntegrity
  <1>10. CASE ExecuteSetup \/ ProcessExits
    BY <1>0, <1>10 DEF ExecuteSetup, SetupTerminatesProcess, SetupLaunches, SetupFinishes,
                       SetupReturns, ProcessExits
  <1>11. CASE UNCHANGED vars
    BY <1>0, <1>11 DEF vars, wizardVars
  <1> QED
    BY <1>1, <1>2, <1>3, <1>4, <1>5, <1>6, <1>7, <1>8, <1>9, <1>10, <1>11
    DEF Next, Frame, Halted

\* ShutdownOrder: the stages of the shutdown wait for the tasks.
LEMMA ShutdownStep ==
  ASSUME WizardTypeOK, ShutdownOrder, [Next]_vars
  PROVE  ShutdownOrder'
  <1>   USE DEF ShutdownOrder, SetupRunning, mainVars, verifyVars, setupVars
  <1>0. UNCHANGED downloadVars => UNCHANGED downloadTask
    BY DEF downloadVars, taskVars
  <1>1. CASE main = "loop" /\ main' \in {"loop", "waitDownload", "terminated"}
    BY <1>1
  <1>2. CASE Navigation \/ ClickRetry \/ (Frame /\ ~Shutdown) \/ Quit
    <2>1. main = "loop"
      BY <1>2 DEF Navigation, ClickBack, ClickShowDetails, ClickRemindMe,
           ClickDownloadAndInstall, ClickCancel, CloseWindow, ClickRetry, Frame,
           FrameMultipleVersions, FrameSummary, FrameFinish, FrameBegin,
           FrameDownloadSucceeded, FrameDownloadFailed, FrameStartVerification,
           FrameVerificationFinished, FrameVerificationFailed, FramePrepareInstall,
           FrameInstallFinished, FrameInstallFailed, FrameInstallSucceeded, Quit,
           InLoop, OnPage, OnStep
    <2>2. main' \in {"loop", "waitDownload", "terminated"}
      BY <1>2, <2>1 DEF Navigation, ClickBack, ClickShowDetails, ClickRemindMe,
           ClickDownloadAndInstall, ClickCancel, CloseWindow, ClickRetry, Frame,
           FrameMultipleVersions, FrameSummary, FrameFinish, FrameBegin,
           FrameDownloadSucceeded, FrameDownloadFailed, FrameStartVerification,
           FrameVerificationFinished, FrameVerificationFailed, FramePrepareInstall,
           FrameInstallFinished, FrameInstallFailed, FrameInstallSucceeded, Quit
    <2> QED  BY <1>1, <2>1, <2>2
  <1>3. CASE LeaveWinMain \/ DestroyConfig \/ JoinTasks
    BY <1>0, <1>3 DEF LeaveWinMain, DestroyConfig, JoinTasks, taskVars
  <1>4. CASE DownloadWorker
    BY <1>4, WorkerFrame DEF DownloadWorker
  <1>5. CASE VerifyReleaseIntegrity
    BY <1>0, <1>5 DEF VerifyReleaseIntegrity
  <1>6. CASE ExecuteSetup \/ ProcessExits
    BY <1>0, <1>6 DEF ExecuteSetup, SetupTerminatesProcess, SetupLaunches, SetupFinishes,
                      SetupReturns, ProcessExits
  <1>7. CASE UNCHANGED vars
    BY <1>0, <1>7 DEF vars, wizardVars
  <1> QED
    BY <1>2, <1>3, <1>4, <1>5, <1>6, <1>7 DEF Next, Frame, Shutdown, Halted

\* While an accepted file exists, or a verification is at work or answered, no
\* step but the destructor's changes the file, nor what it is held against.
LEMMA FileFrozen ==
  ASSUME WizardTypeOK, TaskIsCall, TaskSteps, AcceptedSteps, [Next]_vars,
         accepted \/ verifyTask # "none" \/ SetupRunning, ~DestroyConfig
  PROVE  file' = file /\ release' = release
  <1>1. UNCHANGED downloadVars => file' = file /\ release' = release
    BY DEF downloadVars, configVars
  <1>2. pc = "idle"
    BY DEF TaskIsCall, TaskSteps, AcceptedSteps
  <1>3. CASE LaunchDownload \/ ResetReleaseDownloadState \/ RequestAbortDownload
    BY <1>3 DEF LaunchDownload, ResetReleaseDownloadState, RequestAbortDownload, configVars
  <1>4. ~DownloadWorker
    BY <1>2, WorkerFrame DEF DownloadWorker
  <1>   USE DEF vars
  <1>5. CASE Navigation \/ ClickRetry
    BY <1>1, <1>5 DEF Navigation, ClickBack, ClickShowDetails, ClickRemindMe,
                ClickDownloadAndInstall, ClickCancel, CloseWindow, ClickRetry
  <1>6. CASE Frame
    BY <1>1, <1>3, <1>6 DEF Frame, Shutdown, FrameMultipleVersions, FrameSummary, FrameFinish,
                FrameBegin, FrameDownloadSucceeded, FrameDownloadFailed,
                FrameStartVerification, FrameVerificationFinished,
                FrameVerificationFailed, FramePrepareInstall, FrameInstallFinished,
                FrameInstallFailed, FrameInstallSucceeded, Quit, LeaveWinMain, JoinTasks
  <1>7. CASE VerifyReleaseIntegrity \/ ExecuteSetup
    BY <1>1, <1>7 DEF VerifyReleaseIntegrity, ExecuteSetup,
                SetupTerminatesProcess, SetupLaunches, SetupFinishes
  <1>8. CASE ProcessExits \/ Halted \/ UNCHANGED vars
    BY <1>1, <1>8 DEF ProcessExits, Halted
  <1> QED  BY <1>4, <1>5, <1>6, <1>7, <1>8 DEF Next

\* The mode is what the command line made it, for as long as the updater runs.
LEMMA StrictFixed == [Next]_vars => strictVerification' = strictVerification
  <1>   SUFFICES ASSUME [Next]_vars PROVE strictVerification' = strictVerification
    OBVIOUS
  <1>   USE DEF trustVars, given
  <1>1. CASE Navigation \/ ClickRetry \/ UNCHANGED vars
    BY <1>1 DEF Navigation, ClickBack, ClickShowDetails, ClickRemindMe, vars, wizardVars,
                ClickDownloadAndInstall, ClickCancel, CloseWindow, ClickRetry
  <1>2. CASE Frame
    BY <1>2 DEF Frame, Shutdown, FrameMultipleVersions, FrameSummary, FrameFinish,
                FrameBegin, FrameDownloadSucceeded, FrameDownloadFailed,
                FrameStartVerification, FrameVerificationFinished,
                FrameVerificationFailed, FramePrepareInstall, FrameInstallFinished,
                FrameInstallFailed, FrameInstallSucceeded, Quit, LeaveWinMain,
                DestroyConfig, JoinTasks
  <1>3. CASE DownloadWorker \/ VerifyReleaseIntegrity \/ ExecuteSetup
    BY <1>3 DEF DownloadWorker, VerifyReleaseIntegrity, ExecuteSetup,
                SetupTerminatesProcess, SetupLaunches, SetupFinishes
  <1>4. CASE ProcessExits \/ Halted
    BY <1>4 DEF ProcessExits, Halted, vars, wizardVars
  <1> QED  BY <1>1, <1>2, <1>3, <1>4 DEF Next

\* VerdictIsCurrent: a verdict is about the bytes on disk.
LEMMA VerdictStep ==
  ASSUME WizardTypeOK, TaskIsCall, TaskSteps, AcceptedSteps, VerdictIsCurrent, [Next]_vars
  PROVE  VerdictIsCurrent'
  <1>   USE DEF VerdictIsCurrent
  <1>1. CASE DestroyConfig
    BY <1>1 DEF DestroyConfig, BeforeDeletion, MayPass, configVars, verifyVars, trustVars, given
  <1>2. CASE FrameVerificationFinished
    <2>1. /\ verifyTask = "ready" /\ BeforeDeletion
          /\ verifyTask' = "none" /\ accepted' = verdict
      BY <1>2 DEF FrameVerificationFinished, OnStep, OnPage, InLoop, BeforeDeletion
    <2>2. file' = file /\ release' = release
      BY <1>2, <2>1, FileFrozen DEF FrameVerificationFinished, OnStep, OnPage, InLoop,
                                    DestroyConfig
    <2> QED  BY <2>1, <2>2, StrictFixed DEF MayPass
  <1>3. CASE VerifyReleaseIntegrity
    <2>1. file' = file /\ release' = release /\ accepted' = accepted
      BY <1>3, FileFrozen DEF VerifyReleaseIntegrity, DestroyConfig, downloadVars, configVars,
                              trustVars, given
    <2>2. verdict' => MayPass
      BY <1>3 DEF VerifyReleaseIntegrity
    <2> QED  BY <2>1, <2>2, StrictFixed DEF MayPass
  <1>4. CASE ~DestroyConfig /\ ~FrameVerificationFinished /\ ~VerifyReleaseIntegrity
    <2>1. accepted' => accepted
      BY <1>4 DEF Next, Navigation, ClickBack, ClickShowDetails, ClickRemindMe,
           ClickDownloadAndInstall, ClickCancel, CloseWindow, ClickRetry, Frame, Shutdown,
           FrameMultipleVersions, FrameSummary, FrameFinish, FrameBegin,
           FrameDownloadSucceeded, FrameDownloadFailed, FrameStartVerification,
           FrameVerificationFailed, FramePrepareInstall, FrameInstallFinished,
           FrameInstallFailed, FrameInstallSucceeded, Quit, LeaveWinMain, JoinTasks,
           DownloadWorker, ExecuteSetup, SetupTerminatesProcess, SetupLaunches, SetupFinishes,
           ProcessExits, Halted, vars, wizardVars, trustVars, given
    <2>2. verifyTask' = "ready" => verifyTask = "ready" /\ verdict' = verdict
      BY <1>4 DEF Next, Navigation, ClickBack, ClickShowDetails, ClickRemindMe,
           ClickDownloadAndInstall, ClickCancel, CloseWindow, ClickRetry, Frame, Shutdown,
           FrameMultipleVersions, FrameSummary, FrameFinish, FrameBegin,
           FrameDownloadSucceeded, FrameDownloadFailed, FrameStartVerification,
           FrameVerificationFailed, FramePrepareInstall, FrameInstallFinished,
           FrameInstallFailed, FrameInstallSucceeded, Quit, LeaveWinMain, JoinTasks,
           DownloadWorker, ExecuteSetup, SetupTerminatesProcess, SetupLaunches, SetupFinishes,
           ProcessExits, Halted, vars, wizardVars, verifyVars
    <2>3. BeforeDeletion' => BeforeDeletion
      BY <1>4 DEF Next, Navigation, ClickBack, ClickShowDetails, ClickRemindMe,
           ClickDownloadAndInstall, ClickCancel, CloseWindow, ClickRetry, Frame, Shutdown,
           FrameMultipleVersions, FrameSummary, FrameFinish, FrameBegin,
           FrameDownloadSucceeded, FrameDownloadFailed, FrameStartVerification,
           FrameVerificationFailed, FramePrepareInstall, FrameInstallFinished,
           FrameInstallFailed, FrameInstallSucceeded, Quit, LeaveWinMain, JoinTasks,
           DownloadWorker, ExecuteSetup, SetupTerminatesProcess, SetupLaunches, SetupFinishes,
           ProcessExits, Halted, vars, wizardVars, mainVars, BeforeDeletion
    <2>4. CASE accepted \/ verifyTask = "ready"
      <3>1. file' = file /\ release' = release
        BY <1>4, <2>4, FileFrozen
      <3> QED  BY <2>1, <2>2, <2>3, <3>1, StrictFixed DEF MayPass
    <2>5. CASE ~accepted /\ verifyTask # "ready"
      BY <2>1, <2>2, <2>5
    <2> QED  BY <2>4, <2>5
  <1> QED  BY <1>1, <1>2, <1>3, <1>4

\* AcceptedSteps: where an accepted file can exist, and where it must.
LEMMA AcceptedStep ==
  ASSUME WizardTypeOK, TaskIsCall, Locked, TaskSteps, AcceptedSteps, ShutdownOrder,
         [Next]_vars
  PROVE  AcceptedSteps'
  <1>   USE DEF AcceptedSteps, SetupRunning, BeforeDeletion, navVars, mainVars, setupVars,
                trustVars, given, InLoop, OnPage, OnStep
  <1>0. UNCHANGED downloadVars => UNCHANGED file
    BY DEF downloadVars
  <1>1. CASE Navigation \/ ClickRetry
    <2>1. UNCHANGED <<accepted, file, main, setupTask>>
      BY <1>0, <1>1 DEF Navigation, ClickBack, ClickShowDetails, ClickRemindMe,
                  ClickDownloadAndInstall, ClickCancel, CloseWindow, ClickRetry
    <2>2. instStep' = instStep \/ instStep' = "Begin"
      BY <1>1 DEF Navigation, ClickBack, ClickShowDetails, ClickRemindMe,
                  ClickDownloadAndInstall, ClickCancel, CloseWindow, ClickRetry
    <2> QED  BY <2>1, <2>2
  <1>2. CASE FrameMultipleVersions \/ FrameSummary \/ FrameFinish
    BY <1>0, <1>2 DEF FrameMultipleVersions, FrameSummary, FrameFinish
  <1>3. CASE FrameBegin
    BY <1>3 DEF FrameBegin
  <1>4. CASE FrameDownloadSucceeded \/ FrameDownloadFailed
    BY <1>4 DEF FrameDownloadSucceeded, FrameDownloadFailed, TaskSteps
  <1>5. CASE FrameStartVerification \/ FrameVerificationFinished \/ FrameVerificationFailed
    BY <1>0, <1>5
    DEF FrameStartVerification, FrameVerificationFinished, FrameVerificationFailed, TaskSteps
  <1>6. CASE \/ FramePrepareInstall \/ FrameInstallFinished \/ FrameInstallFailed
             \/ FrameInstallSucceeded
    BY <1>0, <1>6 DEF FramePrepareInstall, FrameInstallFinished, FrameInstallFailed,
                      FrameInstallSucceeded, TaskSteps
  <1>7. CASE Shutdown
    BY <1>0, <1>7 DEF Shutdown, Quit, RequestAbortDownload, LeaveWinMain, DestroyConfig,
                      JoinTasks
  <1>8. CASE DownloadWorker
    <2>1. instStep = "Downloading" /\ UNCHANGED <<accepted, instStep, setupTask, main>>
      BY <1>8, WorkerFrame DEF DownloadWorker, TaskIsCall, TaskSteps
    <2> QED  BY <2>1 DEF TaskSteps
  <1>9. CASE VerifyReleaseIntegrity
    BY <1>0, <1>9 DEF VerifyReleaseIntegrity
  <1>10. CASE ExecuteSetup \/ ProcessExits
    BY <1>0, <1>10 DEF ExecuteSetup, SetupTerminatesProcess, SetupLaunches, SetupFinishes,
                       SetupReturns, ProcessExits
  <1>11. CASE UNCHANGED vars
    BY <1>0, <1>11 DEF vars, wizardVars
  <1> QED
    BY <1>1, <1>2, <1>3, <1>4, <1>5, <1>6, <1>7, <1>8, <1>9, <1>10, <1>11
    DEF Next, Frame, Halted

\* SuccessIsReal: a success is reported only for a setup that succeeded.
LEMMA SuccessStep ==
  ASSUME WizardTypeOK, SuccessIsReal, [Next]_vars
  PROVE  SuccessIsReal'
  <1>   USE DEF SuccessIsReal, navVars, setupVars, OnPage, OnStep, SetupReturns
  <1>1. CASE Navigation \/ ClickRetry
    BY <1>1 DEF Navigation, ClickBack, ClickShowDetails, ClickRemindMe,
                ClickDownloadAndInstall, ClickCancel, CloseWindow, ClickRetry
  <1>2. CASE FrameMultipleVersions \/ FrameSummary \/ FrameFinish \/ Shutdown
    BY <1>2 DEF FrameMultipleVersions, FrameSummary, FrameFinish, Shutdown, Quit,
                LeaveWinMain, DestroyConfig, JoinTasks
  <1>3. CASE FrameBegin \/ FrameDownloadSucceeded \/ FrameDownloadFailed
    BY <1>3 DEF FrameBegin, FrameDownloadSucceeded, FrameDownloadFailed
  <1>4. CASE FrameStartVerification \/ FrameVerificationFinished \/ FrameVerificationFailed
    BY <1>4 DEF FrameStartVerification, FrameVerificationFinished, FrameVerificationFailed
  <1>5. CASE \/ FramePrepareInstall \/ FrameInstallFinished \/ FrameInstallFailed
             \/ FrameInstallSucceeded
    BY <1>5 DEF FramePrepareInstall, FrameInstallFinished, FrameInstallFailed,
                FrameInstallSucceeded
  <1>6. CASE DownloadWorker \/ VerifyReleaseIntegrity
    BY <1>6 DEF DownloadWorker, VerifyReleaseIntegrity
  <1>7. CASE SetupTerminatesProcess \/ SetupLaunches \/ ProcessExits
    BY <1>7 DEF SetupTerminatesProcess, SetupLaunches, ProcessExits
  <1>8. CASE SetupFinishes
    BY <1>8 DEF SetupFinishes
  <1>9. CASE UNCHANGED vars
    BY <1>9 DEF vars, wizardVars
  <1> QED
    BY <1>1, <1>2, <1>3, <1>4, <1>5, <1>6, <1>7, <1>8, <1>9
    DEF Next, Frame, ExecuteSetup, Halted

\* The initial states satisfy the invariant.
LEMMA WizardInit == Init => WizardInv
  <1>   SUFFICES ASSUME Init PROVE WizardInv
    OBVIOUS
  <1>1. WizardTypeOK /\ TaskIsCall
    BY WizardTypeInit
  <1>2. Locked /\ TaskSteps /\ AcceptedSteps /\ SuccessIsReal /\ ShutdownOrder
    BY DEF Init, DownloadInit, Locked, TaskSteps, SetupRunning, AcceptedSteps, SuccessIsReal,
           ShutdownOrder
  <1>3. VerdictIsCurrent
    BY DEF Init, VerdictIsCurrent
  <1> QED  BY <1>1, <1>2, <1>3 DEF WizardInv

\* Every step preserves the invariant.
LEMMA WizardStep == WizardInv /\ [Next]_vars => WizardInv'
  <1>   SUFFICES ASSUME WizardInv, [Next]_vars PROVE WizardInv'
    OBVIOUS
  <1>1. WizardTypeOK' /\ TaskIsCall'
    BY WizardTypeStep DEF WizardInv
  <1>2. Locked' /\ TaskSteps'
    BY LockedStep, TaskStepsStep DEF WizardInv
  <1>3. VerdictIsCurrent' /\ AcceptedSteps'
    BY VerdictStep, AcceptedStep DEF WizardInv
  <1>4. SuccessIsReal' /\ ShutdownOrder'
    BY SuccessStep, ShutdownStep DEF WizardInv
  <1> QED  BY <1>1, <1>2, <1>3, <1>4 DEF WizardInv

\* The invariant holds in every reachable state.
THEOREM WizardInvariant == Spec => []WizardInv
  BY WizardInit, WizardStep, PTL DEF Spec

-----------------------------------------------------------------------------
(* What follows from it.                                                   *)

\* The three tasks never overlap, and none is at work when a round begins.
THEOREM NoOverlap == Spec => []TasksDoNotOverlap
  <1>1. WizardInv => TasksDoNotOverlap
    BY DEF WizardInv, TaskSteps, TasksDoNotOverlap, SetupRunning, OnStep, OnPage
  <1> QED  BY <1>1, WizardInvariant, PTL

\* A setup is at work only on the bytes that passed this round's verification.
THEOREM SetupIsVerified == Spec => []SetupRunsVerifiedFile
  <1>1. WizardInv => SetupRunsVerifiedFile
    BY DEF WizardInv, VerdictIsCurrent, AcceptedSteps, SetupRunsVerifiedFile, BeforeDeletion,
           MayPass
  <1> QED  BY <1>1, WizardInvariant, PTL

\* In strict mode a setup is at work only on the asset of a pinned release.
THEOREM StrictIsStrict == Spec => []StrictInstallsAsset
  <1>1. WizardInv => StrictInstallsAsset
    BY DEF WizardInv, VerdictIsCurrent, AcceptedSteps, StrictInstallsAsset, BeforeDeletion,
           MayPass
  <1> QED  BY <1>1, WizardInvariant, PTL

\* A finished update is reported only for a setup that succeeded.
THEOREM FinishedIsInstalled == Spec => []FinishedMeansInstalled
  <1>1. WizardInv => FinishedMeansInstalled
    BY DEF WizardInv, SuccessIsReal, FinishedMeansInstalled
  <1> QED  BY <1>1, WizardInvariant, PTL

-----------------------------------------------------------------------------
(* The wizard implements VerifiedInstall.                                  *)

\* Initial states map to initial states.
LEMMA RefinesInit == Init => VI!Init
  BY TypeInit DEF Init, DownloadInit, VI!Init, DownloadTypeOK

\* A step that changes nothing the abstract specification sees is a stutter.
LEMMA RefinesStutter ==
  ASSUME UNCHANGED <<release, file, accepted>>,
         (setupTask' = "running") <=> (setupTask = "running")
  PROVE  UNCHANGED VI!vars
  BY DEF VI!vars

\* Every step maps to a step of VerifiedInstall or to a stutter.
LEMMA RefinesStep ==
  ASSUME WizardInv, WizardInv', [Next]_vars
  PROVE  [VI!Next]_(VI!vars)
  <1>   USE DEF VI!Next, navVars, mainVars, verifyVars, setupVars, trustVars, given,
                InLoop, OnPage, OnStep
  <1>0. UNCHANGED downloadVars => UNCHANGED <<release, file>>
    BY DEF downloadVars, configVars
  <1>1. CASE DownloadWorker
    <2>1. ~accepted /\ setupTask # "running" /\ UNCHANGED <<accepted, setupTask, release>>
      BY <1>1, WorkerFrame DEF DownloadWorker, WizardInv, TaskIsCall, TaskSteps,
                               AcceptedSteps, SetupRunning
    <2>2. file' \in [len : Nat, content : Contents]
      BY DEF WizardInv, WizardTypeOK, DownloadTypeOK
    <2> QED  BY <2>1, <2>2 DEF VI!Download, WizardInv, WizardTypeOK, VI!vars
  <1>2. CASE FrameVerificationFinished
    <2>1. /\ ~accepted /\ accepted' = verdict /\ UNCHANGED <<release, file, setupTask>>
          /\ verdict \in BOOLEAN
          /\ verdict => MayPass
      BY <1>0, <1>2 DEF FrameVerificationFinished, WizardInv, WizardTypeOK, TaskSteps,
                        AcceptedSteps, VerdictIsCurrent, BeforeDeletion
    <2>2. CASE verdict
      BY <2>1, <2>2 DEF VI!Trust, MayPass, WizardInv, WizardTypeOK
    <2>3. CASE ~verdict
      BY <2>1, <2>3, RefinesStutter DEF WizardInv, WizardTypeOK
    <2> QED  BY <2>2, <2>3
  <1>3. CASE FrameBegin
    <2>1. /\ accepted' = FALSE /\ UNCHANGED <<release, file>>
          /\ setupTask # "running" /\ setupTask' # "running"
      BY <1>3 DEF FrameBegin, LaunchDownload, SetupRunning, configVars
    <2>2. CASE accepted
      BY <2>1, <2>2 DEF VI!Distrust, WizardInv, WizardTypeOK
    <2>3. CASE ~accepted
      BY <2>1, <2>3, RefinesStutter DEF WizardInv, WizardTypeOK
    <2> QED  BY <2>2, <2>3
  <1>4. CASE SetupLaunches
    <2>1. setupTask = "launching" /\ UNCHANGED <<release, file, accepted>>
      BY <1>0, <1>4 DEF SetupLaunches
    <2>2. CASE setupTask' = "running"
      <3>1. accepted
        BY <1>4, <2>1, <2>2
        DEF SetupLaunches, SetupReturns, WizardInv, AcceptedSteps, EmptyFile
      <3> QED  BY <2>1, <2>2, <3>1 DEF VI!Install, WizardInv, WizardTypeOK
    <2>3. CASE setupTask' # "running"
      BY <2>1, <2>3, RefinesStutter
    <2> QED  BY <2>2, <2>3
  <1>5. CASE SetupFinishes
    BY <1>0, <1>5 DEF SetupFinishes, SetupReturns, VI!Finish
  <1>6. CASE DestroyConfig
    <2>1. UNCHANGED <<release, setupTask>>
      BY <1>6 DEF DestroyConfig, configVars
    <2>2. CASE UNCHANGED <<file, trustVars>>
      BY <2>1, <2>2, RefinesStutter
    <2>3. CASE file' = EmptyFile /\ accepted' = FALSE
      BY <2>1, <2>3 DEF VI!Discard
    <2> QED  BY <1>6, <2>2, <2>3 DEF DestroyConfig
  <1>7. CASE Navigation \/ ClickRetry
    BY <1>0, <1>7, RefinesStutter
    DEF Navigation, ClickBack, ClickShowDetails, ClickRemindMe, ClickDownloadAndInstall,
        ClickCancel, CloseWindow, ClickRetry
  <1>8. CASE \/ FrameMultipleVersions \/ FrameSummary \/ FrameFinish
             \/ FrameStartVerification \/ FrameVerificationFailed
             \/ FrameInstallFinished \/ FrameInstallFailed \/ FrameInstallSucceeded
             \/ LeaveWinMain \/ JoinTasks
    BY <1>0, <1>8, RefinesStutter
    DEF FrameMultipleVersions, FrameSummary, FrameFinish, FrameStartVerification,
        FrameVerificationFailed, FrameInstallFinished, FrameInstallFailed,
        FrameInstallSucceeded, LeaveWinMain, JoinTasks
  <1>9. CASE FrameDownloadSucceeded \/ FrameDownloadFailed \/ Quit
    BY <1>9, RefinesStutter
    DEF FrameDownloadSucceeded, FrameDownloadFailed, Quit, ResetReleaseDownloadState,
        RequestAbortDownload, configVars
  <1>10. CASE FramePrepareInstall \/ SetupTerminatesProcess
    BY <1>0, <1>10, RefinesStutter DEF FramePrepareInstall, SetupTerminatesProcess, SetupReturns
  <1>11. CASE VerifyReleaseIntegrity \/ ProcessExits
    BY <1>0, <1>11, RefinesStutter DEF VerifyReleaseIntegrity, ProcessExits
  <1>12. CASE UNCHANGED vars
    BY <1>0, <1>12, RefinesStutter DEF vars, wizardVars
  <1> QED
    BY <1>1, <1>2, <1>3, <1>4, <1>5, <1>6, <1>7, <1>8, <1>9, <1>10, <1>11, <1>12
    DEF Next, Frame, Shutdown, ExecuteSetup, Halted

\* The wizard implements VerifiedInstall: an installation starts only from a
\* verified payload, which stays as it was verified.
THEOREM WizardImplements == Spec => ImplementsVerifiedInstall
  <1>1. Init => VI!Init
    BY RefinesInit
  <1>2. WizardInv /\ WizardInv' /\ [Next]_vars => [VI!Next]_(VI!vars)
    BY RefinesStep
  <1> QED
    BY <1>1, <1>2, WizardInvariant, PTL DEF Spec, VI!Spec, ImplementsVerifiedInstall
=============================================================================
