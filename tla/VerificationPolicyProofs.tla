---------------------- MODULE VerificationPolicyProofs ----------------------
(***************************************************************************)
(* Proofs about VerificationPolicy, for all files, certificates, pins and  *)
(* settings: the setup that is started satisfies what was demanded of it,  *)
(* a renewed certificate is not refused, and what a call allocates is      *)
(* freed unless an access violation loses it.                              *)
(***************************************************************************)
EXTENDS VerificationPolicy, TLAPS

-----------------------------------------------------------------------------
(* Type correctness.                                                       *)

LEMMA CountType ==
  ASSUME NEW freed, NEW taken, live \in [Handles -> Int], Count(freed, taken)
  PROVE  live' \in [Handles -> Int]
BY DEF Count

LEMMA ExchangeType ==
  ASSUME ReadingTypeOK, NEW freed, NEW taken \in SUBSET Handles, Exchange(freed, taken)
  PROVE  /\ live' \in [Handles -> Int] /\ lost' \in [Handles -> Nat]
         /\ held' \subseteq Handles
BY CountType DEF Exchange, ReadingTypeOK

LEMMA SettingsTyped ==
  /\ Defaults \in Settings
  /\ NothingShared = [mode |-> Absent, policy |-> Absent, strategy |-> Absent, config |-> Absent]
  /\ \A m \in Settings : Elevated(m) \in Settings
  /\ \A m \in Settings : \A s \in SharedConfigs \cup {NothingShared} : Overlaid(m, s) \in Settings
<1>1. Defaults \in Settings
  BY DEF Defaults, Settings, Modes, Policies, Strategies, OptPins
<1>2. \A m \in Settings : Elevated(m) \in Settings
  BY DEF Settings, Elevated, Modes, Policies
<1>3. ASSUME NEW m \in Settings, NEW s \in SharedConfigs \cup {NothingShared}
      PROVE  Overlaid(m, s) \in Settings
  <2>1. /\ s.mode \in Modes \cup {Absent} /\ s.policy \in Policies \cup {Absent}
        /\ s.strategy \in Strategies \cup {Absent} /\ s.config \in OptPins
    BY ConfigsAssumption DEF NothingShared, OptPins
  <2>2. Overlaid(m, s) =
          [mode |-> IF s.mode = Absent THEN m.mode ELSE s.mode,
           policy |-> IF s.policy = Absent THEN m.policy ELSE s.policy,
           strategy |-> IF s.strategy = Absent THEN m.strategy ELSE s.strategy,
           config |-> IF s.config = Absent THEN m.config ELSE s.config]
    BY DEF Overlaid
  <2> QED
    BY <2>1, <2>2 DEF Settings
<1> QED
  BY <1>1, <1>2, <1>3 DEF NothingShared

LEMMA ReadStepType ==
  ASSUME ReadingTypeOK, NEW chain \in Chains, ReadStep(chain)
  PROVE  ReadingTypeOK'
<1>0. ASSUME NEW taken \in SUBSET Handles, Acquire(taken)
      PROVE  /\ live' \in [Handles -> Int] /\ lost' \in [Handles -> Nat]
             /\ held' \subseteq Handles
  BY <1>0, ExchangeType DEF Acquire
<1> USE <1>0 DEF ReadingTypeOK, GoOn, Leave, UnchangedCall, Handles
<1>1. CASE CopyPath BY <1>1 DEF CopyPath
<1>2. CASE VerifyTrust(chain) BY <1>2 DEF VerifyTrust, Chains
<1>3. CASE QueryObject BY <1>3 DEF QueryObject
<1>4. CASE ReadSigner BY <1>4 DEF ReadSigner, OptionalSigner, RequiredSigner
<1>5. CASE ReadOpus BY <1>5 DEF ReadOpus, CopyProgramInfo, GetProgAndPublisherInfo
<1>6. CASE FindCert BY <1>6 DEF FindCert, CopyCertNames, FindSignerCert, HashSignerCert, PinFields
<1>7. CASE ReadNames BY <1>7 DEF ReadNames, PinFields, CertFields
<1>8. CASE ReadStamp BY <1>8 DEF ReadStamp, DecodeCounterSigner, GetTimeStampSignerInfo
<1>9. CASE FindStampCert BY <1>9, ExchangeType DEF FindStampCert
<1>10. CASE CleanUp BY <1>10, CountType DEF CleanUp
<1>11. CASE Fault
  <2>1. live' \in [Handles -> Int] /\ lost' \in [Handles -> Nat] /\ held' = {}
    BY <1>11, CountType DEF Fault
  <2> QED
    BY <1>11, <2>1 DEF Fault
<1> QED
  BY <1>1, <1>2, <1>3, <1>4, <1>5, <1>6, <1>7, <1>8, <1>9, <1>10, <1>11 DEF ReadStep

LEMMA CallType ==
  ASSUME ReadingTypeOK, NEW r \in Readers, NEW o \in Owners, Call(r, o)
  PROVE  ReadingTypeOK'
BY DEF ReadingTypeOK, Call, memory

LEMMA FreeInfoType ==
  ASSUME ReadingTypeOK, NEW sig, NEW cert, FreeInfo(sig, cert)
  PROVE  sigInfo' \in [Owners -> {"empty", "filled"}] /\ certInfo' \in [Owners -> SUBSET PinFields]
BY DEF ReadingTypeOK, FreeInfo

LEMMA GiveBackType == ReadingTypeOK /\ GiveBack => ReadingTypeOK'
BY DEF ReadingTypeOK, GiveBack, memory

LEMMA UnchangedReadingType == ReadingTypeOK /\ UNCHANGED reading => ReadingTypeOK'
BY DEF ReadingTypeOK, reading, memory

LEMMA ConcludeType ==
  ASSUME TypeOK, NEW v \in {"accepted", "acceptedUnread", "refused", "unreadable"}, Conclude(v)
  PROVE  /\ ReadingTypeOK'
         /\ worker' = "done" /\ verdict' = v /\ setup' = setup
<1>1. ReadingTypeOK
  BY DEF TypeOK
<1> QED
  BY <1>1, FreeInfoType DEF Conclude, ReadingTypeOK, memory

LEMMA RefuseType ==
  ASSUME TypeOK, NEW v \in {"refused", "unreadable"}, NEW texts, Refuse(v, texts)
  PROVE  /\ ReadingTypeOK'
         /\ worker' = "done" /\ verdict' \in {"accepted", v} /\ setup' = setup
BY ConcludeType DEF Refuse

LEMMA ContinueType ==
  ASSUME TypeOK, NEW p \in {"trust", "extract", "pin"}, Continue(p, p)
  PROVE  /\ ReadingTypeOK'
         /\ worker' = p /\ verdict' = verdict /\ setup' = setup
<1>1. ReadingTypeOK
  BY DEF TypeOK
<1> QED
  BY <1>1, CallType DEF Continue, Readers, Owners

LEMMA InitType == Init => TypeOK
<1> SUFFICES ASSUME Init PROVE TypeOK
  OBVIOUS
<1>1. ReadingTypeOK
  BY DEF Init, ReadingInit, ReadingTypeOK, Readers, Owners
<1>2. "Remote" \in Authorities
  BY DEF Authorities
<1> QED
  BY <1>1, <1>2, SettingsTyped, Zenon DEF Init, TypeOK

LEMMA ChainType == TypeOK /\ (owner = "updater" \/ setup \in SetupFiles) => Chain \in Chains
BY FilesAssumption DEF TypeOK, Chain, ReadingTypeOK, Owners

LEMMA ConstructType == TypeOK /\ (Construct \/ RequestUpdateInfo) => TypeOK'
<1> SUFFICES ASSUME TypeOK, Construct \/ RequestUpdateInfo PROVE TypeOK'
  OBVIOUS
<1>0. ReadingTypeOK
  BY DEF TypeOK
<1> USE DEF settingsVars, UnchangedTask, Readers, Owners
<1>1. CASE ReadOwnSignature
  BY <1>0, <1>1, CallType DEF ReadOwnSignature, TypeOK
<1>2. CASE ExtractOwnCertificate
  BY <1>0, <1>2, CallType, GiveBackType DEF ExtractOwnCertificate, TypeOK
<1>3. CASE KeepOwnCertificate
  BY <1>0, <1>3, GiveBackType DEF KeepOwnCertificate, TypeOK
<1>4. CASE LoadConfigFile
  BY <1>0, <1>4, UnchangedReadingType, ConfigsAssumption DEF LoadConfigFile, TypeOK
<1>5. CASE ApplyStrict
  BY <1>0, <1>5, UnchangedReadingType, SettingsTyped DEF ApplyStrict, TypeOK
<1>6. CASE RequestUpdateInfo
  <2>1. merged' \in Settings
    BY <1>6, SettingsTyped DEF RequestUpdateInfo, MergeShared, TypeOK
  <2> QED
    BY <1>0, <1>6, <2>1, UnchangedReadingType DEF RequestUpdateInfo, TypeOK
<1> QED
  BY <1>1, <1>2, <1>3, <1>4, <1>5, <1>6 DEF Construct

LEMMA VerifyType == TypeOK /\ Verify => TypeOK'
<1> SUFFICES ASSUME TypeOK, Verify PROVE TypeOK'
  OBVIOUS
<1>0. ReadingTypeOK
  BY DEF TypeOK
<1> USE ConcludeType, RefuseType, ContinueType DEF settingsVars, UnchangedMain
<1>1. CASE VerifyChecksum
  BY <1>1 DEF VerifyChecksum, TypeOK
<1>2. CASE JudgeChain
  BY <1>2 DEF JudgeChain, TypeOK
<1>3. CASE JudgeExtraction
  BY <1>0, <1>3, GiveBackType DEF JudgeExtraction, TypeOK
<1>4. CASE TakeThumbprints
  BY <1>0, <1>4, GiveBackType DEF TakeThumbprints, TypeOK
<1>5. CASE ComparePin
  BY <1>5 DEF ComparePin, TypeOK
<1>6. CASE ComparePublisher
  BY <1>6 DEF ComparePublisher, TypeOK
<1>7. CASE CompareFreed
  BY <1>7 DEF CompareFreed, TypeOK
<1>8. CASE NothingToCompare
  BY <1>8 DEF NothingToCompare, TypeOK
<1> QED
  BY <1>1, <1>2, <1>3, <1>4, <1>5, <1>6, <1>7, <1>8 DEF Verify

LEMMA RestType ==
  TypeOK /\ (VerifyReleaseIntegrityAsync \/ JoinTask \/ InvokeSetup \/ RetryDownload \/ CloseWindow)
    => TypeOK'
<1> SUFFICES ASSUME TypeOK, VerifyReleaseIntegrityAsync \/ JoinTask \/ InvokeSetup
                            \/ RetryDownload \/ CloseWindow
             PROVE  TypeOK'
  OBVIOUS
<1>0. ReadingTypeOK
  BY DEF TypeOK
<1> USE DEF settingsVars, UnchangedTask, UnchangedMain
<1>1. CASE VerifyReleaseIntegrityAsync
  BY <1>0, <1>1, UnchangedReadingType DEF VerifyReleaseIntegrityAsync, TypeOK
<1>2. CASE JoinTask
  BY <1>0, <1>2, UnchangedReadingType DEF JoinTask, TypeOK
<1>3. CASE InvokeSetup
  BY <1>0, <1>3, UnchangedReadingType, Zenon DEF InvokeSetup, TypeOK
<1>4. CASE RetryDownload
  BY <1>0, <1>4, UnchangedReadingType DEF RetryDownload, TypeOK
<1>5. CASE CloseWindow
  <2>1. ReadingTypeOK'
    BY <1>0, <1>5, FreeInfoType DEF CloseWindow, ReadingTypeOK, memory
  <2> QED
    BY <1>5, <2>1 DEF CloseWindow, TypeOK
<1> QED
  BY <1>1, <1>2, <1>3, <1>4, <1>5

\* Who reads a signature, and when none is read.
Turns ==
  /\ at = "idle" => answer = "none"
  /\ main \in {"ownTrust", "config", "strict", "request"} => at = "idle"
  /\ main = "ownCert" => at # "idle" /\ owner = "updater" /\ reader \in {"trust", "extract"}
  /\ main \in {"ownTrust", "ownCert", "config", "strict", "request"} =>
       /\ worker = "idle" /\ ~launched /\ shared = NothingShared
  /\ main \in {"ready", "join", "gone"} =>
       /\ release \in Releases
       /\ worker \in {"idle", "checksum", "compare", "done"} => at = "idle"
  /\ worker \in {"trust", "extract", "pin"} => at # "idle" /\ owner = "setup" /\ reader = worker
  /\ worker # "done" => verdict = "none"
  /\ worker # "idle" => setup \in SetupFiles
  /\ launched => worker = "done" /\ verdict \in Accepted

LEMMA TurnsInit == Init => Turns
BY DEF Init, ReadingInit, Turns

LEMMA TurnsRead == TypeOK /\ Turns /\ ReadSignature => Turns'
<1> SUFFICES ASSUME TypeOK, Turns, ReadSignature PROVE Turns'
  OBVIOUS
<1>1. at # "idle" /\ at' # "idle" /\ owner' = owner /\ reader' = reader
  BY DEF ReadSignature, ReadStep, CopyPath, VerifyTrust, QueryObject, ReadSigner,
         OptionalSigner, RequiredSigner, ReadOpus, CopyProgramInfo, GetProgAndPublisherInfo,
         FindCert, CopyCertNames, FindSignerCert, HashSignerCert, ReadNames, ReadStamp,
         DecodeCounterSigner, GetTimeStampSignerInfo, FindStampCert, CleanUp, Fault, GoOn,
         Leave, UnchangedCall
<1> QED
  BY <1>1 DEF Turns, ReadSignature, settingsVars, UnchangedTask

LEMMA TurnsConstruct == TypeOK /\ Turns /\ (Construct \/ RequestUpdateInfo) => Turns'
<1> SUFFICES ASSUME TypeOK, Turns, Construct \/ RequestUpdateInfo PROVE Turns'
  OBVIOUS
<1> USE DEF Turns, settingsVars, UnchangedTask
<1>1. CASE ReadOwnSignature BY <1>1 DEF ReadOwnSignature, Call
<1>2. CASE ExtractOwnCertificate BY <1>2 DEF ExtractOwnCertificate, Call, GiveBack
<1>3. CASE KeepOwnCertificate BY <1>3 DEF KeepOwnCertificate, GiveBack
<1>4. CASE LoadConfigFile BY <1>4 DEF LoadConfigFile, reading
<1>5. CASE ApplyStrict BY <1>5 DEF ApplyStrict, reading
<1>6. CASE RequestUpdateInfo BY <1>6 DEF RequestUpdateInfo, reading
<1> QED
  BY <1>1, <1>2, <1>3, <1>4, <1>5, <1>6 DEF Construct

LEMMA TurnsVerify == TypeOK /\ Turns /\ Verify => Turns'
<1> SUFFICES ASSUME TypeOK, Turns, Verify PROVE Turns'
  OBVIOUS
<1>0. main \in {"ready", "join", "gone"} \/ ~(worker # "idle")
  BY DEF Turns, TypeOK
<1> USE <1>0 DEF Turns, settingsVars, UnchangedMain, Conclude, Refuse, Continue, Call, GiveBack
<1>1. CASE VerifyChecksum BY <1>1 DEF VerifyChecksum
<1>2. CASE JudgeChain BY <1>2 DEF JudgeChain
<1>3. CASE JudgeExtraction BY <1>3 DEF JudgeExtraction
<1>4. CASE TakeThumbprints BY <1>4 DEF TakeThumbprints
<1>5. CASE ComparePin BY <1>5 DEF ComparePin
<1>6. CASE ComparePublisher BY <1>6 DEF ComparePublisher
<1>7. CASE CompareFreed BY <1>7 DEF CompareFreed
<1>8. CASE NothingToCompare BY <1>8 DEF NothingToCompare
<1> QED
  BY <1>1, <1>2, <1>3, <1>4, <1>5, <1>6, <1>7, <1>8 DEF Verify

LEMMA TurnsRest ==
  TypeOK /\ Turns
    /\ (VerifyReleaseIntegrityAsync \/ JoinTask \/ InvokeSetup \/ RetryDownload \/ CloseWindow)
    => Turns'
<1> SUFFICES ASSUME TypeOK, Turns,
                    VerifyReleaseIntegrityAsync \/ JoinTask \/ InvokeSetup
                      \/ RetryDownload \/ CloseWindow
             PROVE  Turns'
  OBVIOUS
<1> USE DEF Turns, settingsVars, UnchangedTask, UnchangedMain, reading
<1>1. CASE VerifyReleaseIntegrityAsync BY <1>1 DEF VerifyReleaseIntegrityAsync
<1>2. CASE JoinTask BY <1>2 DEF JoinTask
<1>3. CASE InvokeSetup BY <1>3 DEF InvokeSetup
<1>4. CASE RetryDownload BY <1>4 DEF RetryDownload, Accepted
<1>5. CASE CloseWindow BY <1>5 DEF CloseWindow
<1> QED
  BY <1>1, <1>2, <1>3, <1>4, <1>5

LEMMA ReadChain == TypeOK /\ Turns /\ at # "idle" => Chain \in Chains
<1> SUFFICES ASSUME TypeOK, Turns, at # "idle" PROVE Chain \in Chains
  OBVIOUS
<1>1. owner = "updater" \/ setup \in SetupFiles
  BY DEF TypeOK, Turns
<1> QED
  BY <1>1, ChainType

LEMMA ReadType == TypeOK /\ Turns /\ ReadSignature => TypeOK'
<1> SUFFICES ASSUME TypeOK, Turns, ReadSignature PROVE TypeOK'
  OBVIOUS
<1>1. at # "idle"
  BY DEF ReadSignature, ReadStep, CopyPath, VerifyTrust, QueryObject, ReadSigner,
         OptionalSigner, RequiredSigner, ReadOpus, CopyProgramInfo, GetProgAndPublisherInfo,
         FindCert, CopyCertNames, FindSignerCert, HashSignerCert, ReadNames, ReadStamp,
         DecodeCounterSigner, GetTimeStampSignerInfo, FindStampCert, CleanUp, Fault
<1>2. ReadingTypeOK'
  BY <1>1, ReadChain, ReadStepType DEF ReadSignature, TypeOK
<1> QED
  BY <1>2 DEF ReadSignature, TypeOK, settingsVars, UnchangedTask

LEMMA StutterType == TypeOK /\ UNCHANGED vars => TypeOK'
<1> SUFFICES ASSUME TypeOK, UNCHANGED vars PROVE TypeOK'
  OBVIOUS
<1>1. ReadingTypeOK'
  BY UnchangedReadingType DEF TypeOK, vars
<1> QED
  BY <1>1 DEF vars, TypeOK, settingsVars

LEMMA StutterTurns == Turns /\ UNCHANGED vars => Turns'
BY DEF Turns, vars, settingsVars, reading

LEMMA BaseStep == TypeOK /\ Turns /\ [Next]_vars => TypeOK' /\ Turns'
BY ConstructType, VerifyType, RestType, ReadType, StutterType,
   TurnsConstruct, TurnsVerify, TurnsRest, TurnsRead, StutterTurns DEF Next

LEMMA BaseInvariant == Spec => [](TypeOK /\ Turns)
BY InitType, TurnsInit, BaseStep, PTL DEF Spec

\* Every variable keeps its type, whatever files, settings and releases there
\* are, and whatever step of a reading fails.
THEOREM TypeCorrect == Spec => []TypeOK
BY BaseInvariant, PTL

-----------------------------------------------------------------------------
\* What has been merged when.
SettingsMerged ==
  /\ main \in {"ownTrust", "ownCert", "config"} => merged = Defaults /\ local = Defaults
  /\ main = "strict" => merged = local
  /\ main = "request" => merged = IF strictVerification THEN Elevated(local) ELSE local
  /\ main \in {"ready", "join", "gone"} =>
       merged = IF strictVerification THEN Elevated(local)
                ELSE IF authority = "Local" THEN local ELSE Overlaid(local, shared)

LEMMA MergedStable ==
  ASSUME SettingsMerged, UNCHANGED settingsVars,
         main' = main \/ (main' \in {"join", "gone"} /\ main \in {"ready", "join", "gone"})
           \/ (main = "ownTrust" /\ main' = "ownCert") \/ (main = "ownCert" /\ main' = "config")
  PROVE  SettingsMerged'
BY DEF SettingsMerged, settingsVars, Elevated, Overlaid, Defaults

LEMMA MergedStep == TypeOK /\ Turns /\ SettingsMerged /\ [Next]_vars => SettingsMerged'
<1> SUFFICES ASSUME TypeOK, Turns, SettingsMerged, [Next]_vars PROVE SettingsMerged'
  OBVIOUS
<1>1. CASE ReadOwnSignature BY <1>1, MergedStable DEF ReadOwnSignature
<1>2. CASE ExtractOwnCertificate BY <1>2, MergedStable DEF ExtractOwnCertificate
<1>3. CASE KeepOwnCertificate
  <2>1. merged' = merged /\ local' = local /\ main = "ownCert" /\ main' = "config"
    BY <1>3, Zenon DEF KeepOwnCertificate
  <2> QED
    BY <2>1 DEF SettingsMerged, Defaults
<1>4. CASE LoadConfigFile BY <1>4 DEF LoadConfigFile, SettingsMerged
<1>5. CASE ApplyStrict BY <1>5 DEF ApplyStrict, SettingsMerged, Elevated
<1>6. CASE RequestUpdateInfo
  BY <1>6 DEF RequestUpdateInfo, SettingsMerged, MergeShared
<1>7. CASE Verify
  <2>1. UNCHANGED settingsVars /\ worker # "idle"
    BY <1>7, Zenon DEF Verify, VerifyChecksum, JudgeChain, JudgeExtraction, TakeThumbprints,
           ComparePin, ComparePublisher, CompareFreed, NothingToCompare, UnchangedMain
  <2>2. main' = main \/ main' = "gone"
    BY <1>7 DEF Verify, VerifyChecksum, JudgeChain, JudgeExtraction, TakeThumbprints, ComparePin,
                ComparePublisher, CompareFreed, NothingToCompare, UnchangedMain
  <2>3. main \in {"ready", "join", "gone"}
    BY <2>1 DEF Turns, TypeOK
  <2> QED
    BY <2>1, <2>2, <2>3, MergedStable
<1>8. CASE ReadSignature BY <1>8, MergedStable DEF ReadSignature
<1>9. CASE VerifyReleaseIntegrityAsync
  BY <1>9, MergedStable DEF VerifyReleaseIntegrityAsync, UnchangedMain
<1>10. CASE JoinTask BY <1>10, MergedStable DEF JoinTask
<1>11. CASE InvokeSetup BY <1>11, MergedStable DEF InvokeSetup
<1>12. CASE RetryDownload BY <1>12, MergedStable DEF RetryDownload
<1>13. CASE CloseWindow BY <1>13, MergedStable DEF CloseWindow
<1>14. CASE UNCHANGED vars BY <1>14, MergedStable DEF vars
<1> QED
  BY <1>1, <1>2, <1>3, <1>4, <1>5, <1>6, <1>7, <1>8, <1>9, <1>10, <1>11, <1>12, <1>13, <1>14
     DEF Next, Construct

\* The settings that decide are those demanded by their sources.
LEMMA Demands ==
  ASSUME TypeOK, Turns, SettingsMerged, main \in {"ready", "join", "gone"}
  PROVE  /\ PinDemanded <=> EffectivePolicy = "Strict"
         /\ PinGiven = EffectivePin
         /\ StrategyGiven = EffectiveStrategy
         /\ \A w \in {"Disabled", "WhenPresent"} :
              merged.mode = w => ~strictVerification /\ InForce("mode") = w
<1>1. merged = IF strictVerification THEN Elevated(local)
               ELSE IF authority = "Local" THEN local ELSE Overlaid(local, shared)
  BY DEF SettingsMerged
<1>2. /\ local.mode \in Modes /\ local.policy \in Policies
  BY DEF TypeOK, Settings
<1>3. ~strictVerification => /\ merged.mode = InForce("mode")
                             /\ merged.policy = InForce("policy")
                             /\ merged.strategy = InForce("strategy")
                             /\ merged.config = InForce("config")
  BY <1>1 DEF InForce, Overlaid
<1>4. strictVerification => /\ merged.mode \notin {"Disabled", "WhenPresent"}
                            /\ merged.policy = "Strict" <=> local.policy # "Invalid"
                            /\ merged.strategy = InForce("strategy")
                            /\ merged.config = InForce("config")
  BY <1>1, <1>2 DEF InForce, Elevated, Modes, Policies
<1>5. PinDemanded <=> EffectivePolicy = "Strict"
  BY <1>3, <1>4 DEF PinDemanded, EffectivePolicy, ValueOr
<1> QED
  BY <1>3, <1>4, <1>5 DEF PinGiven, EffectivePin, StrategyGiven, EffectiveStrategy, ValueOr

-----------------------------------------------------------------------------
\* What a reading knows of the chain.
ChainKnown ==
  /\ at \notin {"release", "returned"} => answer = "none"
  /\ at \in {"names", "stampCert"} => reader = "extract"
  /\ at \in {"begin", "verify"} => reader = "trust"
  /\ reader = "trust" /\ at \in {"query", "signer", "opus", "cert", "stamp"} => Chain = "valid"
  /\ reader = "trust" /\ answer = "ok" => Chain = "valid"
  /\ answer \in Chains => reader = "trust" /\ answer = Chain
  /\ main = "ownCert" /\ reader = "extract" => updater.chain = "valid"
  /\ isUpdaterSigned => updater.chain = "valid"
  /\ worker \in {"extract", "pin", "compare"} => setup.chain = "valid"

LEMMA ChainInit == Init => ChainKnown
BY DEF Init, ReadingInit, ChainKnown, Chains

LEMMA ChainRead == TypeOK /\ Turns /\ ChainKnown /\ ReadSignature => ChainKnown'
<1> SUFFICES ASSUME TypeOK, Turns, ChainKnown, ReadSignature PROVE ChainKnown'
  OBVIOUS
<1>1. /\ reader' = reader /\ owner' = owner /\ Chain' = Chain
      /\ main' = main /\ worker' = worker /\ setup' = setup /\ updater' = updater
      /\ isUpdaterSigned' = isUpdaterSigned
  BY DEF ReadSignature, ReadStep, CopyPath, VerifyTrust, QueryObject, ReadSigner,
         OptionalSigner, RequiredSigner, ReadOpus, CopyProgramInfo, GetProgAndPublisherInfo,
         FindCert, CopyCertNames, FindSignerCert, HashSignerCert, ReadNames, ReadStamp,
         DecodeCounterSigner, GetTimeStampSignerInfo, FindStampCert, CleanUp, Fault,
         UnchangedCall, Chain, settingsVars, UnchangedTask
<1>2. reader \in Readers /\ Chain \in Chains
  BY ReadChain DEF TypeOK, ReadingTypeOK, ReadSignature, ReadStep, CopyPath, VerifyTrust,
         QueryObject, ReadSigner, OptionalSigner, RequiredSigner, ReadOpus, CopyProgramInfo,
         GetProgAndPublisherInfo, FindCert, CopyCertNames, FindSignerCert, HashSignerCert,
         ReadNames, ReadStamp, DecodeCounterSigner, GetTimeStampSignerInfo, FindStampCert,
         CleanUp, Fault
<1>3. ReadStep(Chain)
  BY DEF ReadSignature
<1> USE <1>1, <1>2 DEF ChainKnown, GoOn, Leave, Chains, Readers
<1>4. CASE CopyPath BY <1>4 DEF CopyPath
<1>5. CASE VerifyTrust(Chain) BY <1>5 DEF VerifyTrust
<1>6. CASE QueryObject BY <1>6 DEF QueryObject
<1>7. CASE ReadSigner BY <1>7 DEF ReadSigner, OptionalSigner, RequiredSigner
<1>8. CASE ReadOpus BY <1>8 DEF ReadOpus, CopyProgramInfo, GetProgAndPublisherInfo
<1>9. CASE FindCert BY <1>9 DEF FindCert, CopyCertNames, FindSignerCert, HashSignerCert
<1>10. CASE ReadNames BY <1>10 DEF ReadNames
<1>11. CASE ReadStamp BY <1>11 DEF ReadStamp, DecodeCounterSigner, GetTimeStampSignerInfo
<1>12. CASE FindStampCert BY <1>12 DEF FindStampCert
<1>13. CASE CleanUp BY <1>13 DEF CleanUp
<1>14. CASE Fault BY <1>14 DEF Fault
<1> QED
  BY <1>3, <1>4, <1>5, <1>6, <1>7, <1>8, <1>9, <1>10, <1>11, <1>12, <1>13, <1>14 DEF ReadStep

LEMMA ChainConstruct == TypeOK /\ Turns /\ ChainKnown /\ Construct => ChainKnown'
<1> SUFFICES ASSUME TypeOK, Turns, ChainKnown, Construct PROVE ChainKnown'
  OBVIOUS
<1> USE DEF ChainKnown, Turns, Chains, UnchangedTask, Call, GiveBack
<1>1. CASE ReadOwnSignature BY <1>1 DEF ReadOwnSignature, settingsVars
<1>2. CASE ExtractOwnCertificate
  BY <1>2 DEF ExtractOwnCertificate, settingsVars, Chain
<1>3. CASE KeepOwnCertificate
  BY <1>3 DEF KeepOwnCertificate
<1>4. CASE LoadConfigFile BY <1>4 DEF LoadConfigFile, reading, Chain
<1>5. CASE ApplyStrict BY <1>5 DEF ApplyStrict, reading, Chain
<1> QED
  BY <1>1, <1>2, <1>3, <1>4, <1>5 DEF Construct

LEMMA ChainVerify == TypeOK /\ Turns /\ ChainKnown /\ Verify => ChainKnown'
<1> SUFFICES ASSUME TypeOK, Turns, ChainKnown, Verify PROVE ChainKnown'
  OBVIOUS
<1> USE DEF ChainKnown, Turns, Chains, settingsVars, UnchangedMain, Conclude, Refuse, Continue,
            Call, GiveBack, Chain
<1>0. main = "ownCert" => worker = "idle"
  OBVIOUS
<1>1. CASE VerifyChecksum BY <1>0, <1>1 DEF VerifyChecksum
<1>2. CASE JudgeChain BY <1>0, <1>2 DEF JudgeChain
<1>3. CASE JudgeExtraction BY <1>0, <1>3 DEF JudgeExtraction
<1>4. CASE TakeThumbprints BY <1>0, <1>4 DEF TakeThumbprints
<1>5. CASE ComparePin BY <1>0, <1>5 DEF ComparePin
<1>6. CASE ComparePublisher BY <1>0, <1>6 DEF ComparePublisher
<1>7. CASE CompareFreed BY <1>0, <1>7 DEF CompareFreed
<1>8. CASE NothingToCompare BY <1>0, <1>8 DEF NothingToCompare
<1> QED
  BY <1>1, <1>2, <1>3, <1>4, <1>5, <1>6, <1>7, <1>8 DEF Verify

LEMMA ChainRest ==
  TypeOK /\ Turns /\ ChainKnown
    /\ (RequestUpdateInfo \/ VerifyReleaseIntegrityAsync \/ JoinTask \/ InvokeSetup
         \/ RetryDownload \/ CloseWindow \/ UNCHANGED vars)
    => ChainKnown'
<1> SUFFICES ASSUME TypeOK, Turns, ChainKnown,
                    RequestUpdateInfo \/ VerifyReleaseIntegrityAsync \/ JoinTask \/ InvokeSetup
                      \/ RetryDownload \/ CloseWindow \/ UNCHANGED vars
             PROVE  ChainKnown'
  OBVIOUS
<1> USE DEF ChainKnown, Turns, Chains, settingsVars, UnchangedTask, UnchangedMain, reading, Chain
<1>1. CASE RequestUpdateInfo BY <1>1 DEF RequestUpdateInfo
<1>2. CASE VerifyReleaseIntegrityAsync BY <1>2 DEF VerifyReleaseIntegrityAsync
<1>3. CASE JoinTask BY <1>3 DEF JoinTask
<1>4. CASE InvokeSetup BY <1>4 DEF InvokeSetup
<1>5. CASE RetryDownload BY <1>5 DEF RetryDownload
<1>6. CASE CloseWindow BY <1>6 DEF CloseWindow
<1>7. CASE UNCHANGED vars BY <1>7 DEF vars
<1> QED
  BY <1>1, <1>2, <1>3, <1>4, <1>5, <1>6, <1>7

LEMMA ChainStep == TypeOK /\ Turns /\ ChainKnown /\ [Next]_vars => ChainKnown'
BY ChainRead, ChainConstruct, ChainVerify, ChainRest DEF Next

-----------------------------------------------------------------------------
\* What has been judged when.
Demanded(v) ==
  /\ release.checksum # Absent => setup.digest = release.checksum
  /\ strictVerification => release.checksum # Absent
  /\ \/ ~strictVerification /\ InForce("mode") = "Disabled"
     \/ /\ ~strictVerification /\ InForce("mode") = "WhenPresent"
        /\ setup.chain \in NotSigned
     \/ /\ setup.chain = "valid"
        /\ PinDemanded => Pinned \/ v = "acceptedUnread" \/ PassesForUnsigned

Judged ==
  /\ worker \in {"trust", "extract", "pin", "compare"} => ChecksumPasses
  /\ main = "ready" /\ worker = "done" /\ verdict \in Accepted => Demanded(verdict)
  /\ launched => Demanded(verdict)

\* What the task concludes while the window is open is what was demanded.
LEMMA ConcludesAsDemanded ==
  ASSUME TypeOK, Turns, SettingsMerged, ChainKnown, Judged, Verify, main' = "ready",
         verdict' \in Accepted, worker' = "done"
  PROVE  Demanded(verdict')
<1>0. main = "ready" /\ worker # "idle" /\ setup \in SetupFiles /\ release \in Releases
  BY DEF Verify, VerifyChecksum, JudgeChain, JudgeExtraction, TakeThumbprints, ComparePin,
         ComparePublisher, CompareFreed, NothingToCompare, UnchangedMain, Turns, TypeOK
<1>1. /\ PinDemanded <=> EffectivePolicy = "Strict"
      /\ PinGiven = EffectivePin
      /\ StrategyGiven = EffectiveStrategy
      /\ \A w \in {"Disabled", "WhenPresent"} :
           merged.mode = w => ~strictVerification /\ InForce("mode") = w
  BY <1>0, Demands
<1>2. ChecksumPasses => /\ release.checksum # Absent => setup.digest = release.checksum
                        /\ strictVerification => release.checksum # Absent
  BY DEF ChecksumPasses
<1>3. ASSUME ChecksumPasses, setup.chain = "valid",
             PinDemanded => Pinned \/ verdict' = "acceptedUnread" \/ PassesForUnsigned
      PROVE  Demanded(verdict')
  BY <1>2, <1>3 DEF Demanded
<1> USE DEF Accepted, Conclude, Refuse, Continue
<1>4. CASE VerifyChecksum
  BY <1>1, <1>2, <1>4 DEF VerifyChecksum, Demanded
<1>5. CASE JudgeChain
  <2>1. /\ ChecksumPasses /\ owner = "setup" /\ reader = "trust"
    BY <1>5 DEF JudgeChain, Judged, Turns
  <2>2. CASE answer \in NotSigned /\ merged.mode = "WhenPresent"
    <3>1. setup.chain \in NotSigned
      BY <2>1, <2>2 DEF ChainKnown, Chains, NotSigned, Chain
    <3> QED
      BY <1>1, <1>2, <2>1, <2>2, <3>1 DEF Demanded
  <2>3. CASE answer = "ok" /\ ChainSuffices
    <3>1. setup.chain = "valid" /\ ~PinDemanded
      BY <1>1, <2>1, <2>3 DEF ChainKnown, Chain, ChainSuffices
    <3> QED
      BY <1>3, <2>1, <3>1
  <2> QED
    BY <1>5, <2>2, <2>3 DEF JudgeChain
<1>6. CASE JudgeExtraction
  <2>1. ChecksumPasses /\ setup.chain = "valid" /\ EffectivePolicy # "Strict"
    BY <1>6 DEF JudgeExtraction, Judged, ChainKnown
  <2> QED
    BY <1>1, <1>3, <2>1
<1>7. CASE TakeThumbprints
  BY <1>7 DEF TakeThumbprints
<1>8. CASE ComparePin
  <2>1. ChecksumPasses /\ setup.chain = "valid" /\ EffectivePin # Absent /\ Matches(EffectivePin)
    BY <1>8 DEF ComparePin, Judged, ChainKnown
  <2>2. Pinned
    BY <1>1, <2>1 DEF Pinned, Matches
  <2> QED
    BY <1>3, <2>1, <2>2
<1>9. CASE ComparePublisher
  <2>1. ChecksumPasses /\ setup.chain = "valid" /\ EffectivePin = Absent /\ UsesUpdater
    BY <1>9 DEF ComparePublisher, Judged, ChainKnown
  <2>4. CASE ~SamePublisher
    <3>1. merged.mode = "WhenPresent" /\ SubjectTexts \cap SayNotSigned # {}
      BY <1>9, <2>4 DEF ComparePublisher
    <3>2. SubjectTexts \subseteq {setup.cert["subject"], updater.cert["subject"]}
      BY DEF SubjectTexts
    <3>3. PassesForUnsigned
      BY <1>1, <2>1, <3>1, <3>2 DEF PassesForUnsigned, UsesUpdater, ChainKnown
    <3> QED
      BY <1>3, <2>1, <3>3
  <2>2. CASE SamePublisher /\ SubjectsRead = {}
    <3>1. verdict' = "acceptedUnread"
      BY <1>9, <2>1, <2>2 DEF ComparePublisher
    <3> QED
      BY <1>3, <2>1, <3>1
  <2>3. CASE SamePublisher /\ SubjectsRead # {}
    <3>1. Pinned
      BY <1>1, <2>1, <2>3 DEF Pinned, SamePublisher, UsesUpdater, ChainKnown
    <3> QED
      BY <1>3, <2>1, <3>1
  <2> QED
    BY <2>2, <2>3, <2>4
<1>10. CASE CompareFreed
  BY <1>0, <1>10 DEF CompareFreed
<1>11. CASE NothingToCompare
  <2>1. ChecksumPasses /\ setup.chain = "valid" /\ EffectivePolicy # "Strict"
    BY <1>11 DEF NothingToCompare, Judged, ChainKnown
  <2> QED
    BY <1>1, <1>3, <2>1
<1> QED
  BY <1>4, <1>5, <1>6, <1>7, <1>8, <1>9, <1>10, <1>11 DEF Verify

LEMMA DemandedStable ==
  ASSUME UNCHANGED settingsVars, setup' = setup, Demanded(verdict')
  PROVE  Demanded(verdict)'
BY DEF settingsVars, Demanded, Pinned, PinDemanded, PassesForUnsigned, PinGiven, StrategyGiven, InForce

LEMMA JudgedInit == Init => Judged
BY DEF Init, Judged

LEMMA JudgedVerify ==
  TypeOK /\ Turns /\ SettingsMerged /\ ChainKnown /\ Judged /\ Verify => Judged'
<1> SUFFICES ASSUME TypeOK, Turns, SettingsMerged, ChainKnown, Judged, Verify PROVE Judged'
  OBVIOUS
<1>1. /\ UNCHANGED settingsVars /\ setup' = setup /\ worker \notin {"idle", "done"}
      /\ launched' = launched
  BY Zenon DEF Verify, VerifyChecksum, JudgeChain, JudgeExtraction, TakeThumbprints, ComparePin,
         ComparePublisher, CompareFreed, NothingToCompare, UnchangedMain, Conclude, Refuse,
         Continue
<1>2. ~launched
  BY <1>1 DEF Turns
<1>3. worker' \in {"trust", "extract", "pin", "compare"} => ChecksumPasses
  <2>1. CASE worker = "checksum"
    BY <2>1 DEF Verify, VerifyChecksum, JudgeChain, JudgeExtraction, TakeThumbprints, ComparePin,
         ComparePublisher, CompareFreed, NothingToCompare, Conclude, Refuse
  <2>2. CASE worker # "checksum"
    BY <1>1, <2>2 DEF Judged, TypeOK
  <2> QED
    BY <2>1, <2>2
<1>4. ChecksumPasses' = ChecksumPasses
  BY <1>1 DEF ChecksumPasses, settingsVars
<1>5. ASSUME main' = "ready", worker' = "done", verdict' \in Accepted
      PROVE  Demanded(verdict)'
  BY <1>1, <1>5, ConcludesAsDemanded, DemandedStable
<1> QED
  BY <1>1, <1>2, <1>3, <1>4, <1>5 DEF Judged, Accepted

LEMMA JudgedStable ==
  ASSUME Turns, Judged, UNCHANGED settingsVars, UNCHANGED <<setup, verdict, worker, launched>>,
         main' = "ready" => main = "ready" \/ worker = "idle"
  PROVE  Judged'
<1>1. ChecksumPasses' = ChecksumPasses
  BY DEF ChecksumPasses, settingsVars
<1>2. Demanded(verdict) => Demanded(verdict)'
  BY DemandedStable
<1>3. launched' = launched /\ worker' = worker /\ verdict' = verdict
  OBVIOUS
<1>4. worker' \in {"trust", "extract", "pin", "compare"} => ChecksumPasses'
  BY <1>1 DEF Judged
<1>5. main' = "ready" /\ worker' = "done" /\ verdict' \in Accepted' => Demanded(verdict)'
  BY <1>2 DEF Judged, Accepted
<1>6. launched' => Demanded(verdict)'
  <2>1. launched => Demanded(verdict)
    BY DEF Judged
  <2>2. launched' => launched
    BY <1>3
  <2> QED
    BY <1>2, <2>1, <2>2
<1> QED
  BY <1>4, <1>5, <1>6 DEF Judged, Accepted

LEMMA JudgedConstruct ==
  TypeOK /\ Turns /\ (Construct \/ RequestUpdateInfo) => Judged'
<1> SUFFICES ASSUME TypeOK, Turns, Construct \/ RequestUpdateInfo PROVE Judged'
  OBVIOUS
<1>1. worker = "idle" /\ ~launched /\ worker' = worker /\ launched' = launched
  BY DEF Construct, RequestUpdateInfo, ReadOwnSignature, ExtractOwnCertificate,
         KeepOwnCertificate, LoadConfigFile, ApplyStrict, UnchangedTask, Turns
<1> QED
  BY <1>1 DEF Judged

LEMMA JudgedRest ==
  TypeOK /\ Turns /\ Judged
    /\ (ReadSignature \/ VerifyReleaseIntegrityAsync \/ JoinTask \/ InvokeSetup
         \/ RetryDownload \/ CloseWindow \/ UNCHANGED vars)
    => Judged'
<1> SUFFICES ASSUME TypeOK, Turns, Judged,
                    ReadSignature \/ VerifyReleaseIntegrityAsync \/ JoinTask \/ InvokeSetup
                      \/ RetryDownload \/ CloseWindow \/ UNCHANGED vars
             PROVE  Judged'
  OBVIOUS
<1>1. CASE ReadSignature BY <1>1, JudgedStable DEF ReadSignature, UnchangedTask
<1>2. CASE VerifyReleaseIntegrityAsync
  <2>1. worker' = "checksum" /\ ~launched /\ launched' = launched
    BY <1>2, Zenon DEF VerifyReleaseIntegrityAsync, UnchangedMain
  <2> QED
    BY <2>1 DEF Judged
<1>3. CASE JoinTask BY <1>3, JudgedStable DEF JoinTask, UnchangedTask
<1>4. CASE InvokeSetup
  <2>1. /\ main = "ready" /\ worker = "done" /\ verdict \in Accepted /\ UNCHANGED settingsVars
        /\ setup' = setup /\ verdict' = verdict /\ worker' = worker
    BY <1>4 DEF InvokeSetup
  <2>2. Demanded(verdict)'
    BY <2>1, DemandedStable DEF Judged
  <2> QED
    BY <2>1, <2>2 DEF Judged
<1>5. CASE RetryDownload
  <2>1. worker' = "idle" /\ ~launched /\ launched' = launched
    BY <1>5, Zenon DEF RetryDownload, Turns
  <2> QED
    BY <2>1 DEF Judged
<1>6. CASE CloseWindow BY <1>6, JudgedStable DEF CloseWindow, UnchangedTask
<1>7. CASE UNCHANGED vars BY <1>7, JudgedStable DEF vars
<1> QED
  BY <1>1, <1>2, <1>3, <1>4, <1>5, <1>6, <1>7

LEMMA MergedInit == Init => SettingsMerged
BY DEF Init, SettingsMerged

LEMMA JudgedInvariant ==
  Spec => [](TypeOK /\ Turns /\ SettingsMerged /\ ChainKnown /\ Judged)
<1>1. Init => TypeOK /\ Turns /\ SettingsMerged /\ ChainKnown /\ Judged
  BY InitType, TurnsInit, MergedInit, ChainInit, JudgedInit
<1>2. TypeOK /\ Turns /\ SettingsMerged /\ ChainKnown /\ Judged /\ [Next]_vars
        => Judged'
  BY JudgedVerify, JudgedConstruct, JudgedRest DEF Next
<1> QED
  BY <1>1, <1>2, BaseStep, MergedStep, ChainStep, PTL DEF Spec

\* A setup is started only with the checksum of its release and the signature
\* that defaults, configuration file, --strict-verification, server and
\* release together demand, whatever they say and whichever step of reading
\* the signatures fails; but for subjects that could not be copied, or that say
\* "not signed" where unsigned files may pass.
THEOREM OnlyAsPromised == Spec => []LaunchedAsPromised
<1>1. Judged => (launched => Demanded(verdict))
  BY Zenon DEF Judged
<1>2. (launched => Demanded(verdict)) => LaunchedAsPromised
  BY Zenon DEF Demanded, LaunchedAsPromised, NotSigned
<1> QED
  BY <1>1, <1>2, JudgedInvariant, PTL

-----------------------------------------------------------------------------
\* What a renewed certificate of the pinned publisher looks like.
Renewal ==
  /\ release.checksum = setup.digest
  /\ PinGiven = Absent /\ StrategyGiven = "FromUpdaterBinary"
  /\ isUpdaterSigned /\ setup.chain = "valid"
  /\ setup.cert["subject"] = updater.cert["subject"]

LEMMA RenewalNotRefused ==
  ASSUME TypeOK, Turns, SettingsMerged, ChainKnown, Verify, main' = "ready", verdict' = "refused"
  PROVE  ~Renewal
<1> SUFFICES ASSUME Renewal PROVE FALSE
  OBVIOUS
<1>0. main = "ready" /\ worker # "done" /\ setup \in SetupFiles
  BY DEF Verify, VerifyChecksum, JudgeChain, JudgeExtraction, TakeThumbprints, ComparePin,
         ComparePublisher, CompareFreed, NothingToCompare, UnchangedMain, Turns, TypeOK
<1>1. EffectivePin = Absent /\ UsesUpdater
  BY <1>0, Demands DEF Renewal, UsesUpdater
<1>2. verdict # "refused"
  BY <1>0 DEF Turns
<1>3. ChecksumPasses
  <2>1. setup.digest # Absent
    BY <1>0, FilesAssumption, AbsentAssumption
  <2> QED
    BY <2>1 DEF ChecksumPasses, Renewal
<1> USE DEF Conclude, Refuse, Continue
<1>4. CASE VerifyChecksum BY <1>2, <1>3, <1>4 DEF VerifyChecksum
<1>5. CASE JudgeChain
  <2>1. reader = "trust" /\ owner = "setup"
    BY <1>5 DEF JudgeChain, Turns
  <2>2. answer \notin NotSigned /\ answer # "untrusted"
    BY <2>1 DEF ChainKnown, Chain, Renewal, NotSigned, Chains
  <2> QED
    BY <1>2, <1>5, <2>2 DEF JudgeChain
<1>6. CASE JudgeExtraction BY <1>2, <1>6 DEF JudgeExtraction
<1>7. CASE TakeThumbprints BY <1>2, <1>7 DEF TakeThumbprints
<1>8. CASE ComparePin BY <1>1, <1>8 DEF ComparePin
<1>9. CASE ComparePublisher
  BY <1>9 DEF ComparePublisher, SamePublisher, Renewal
<1>10. CASE CompareFreed BY <1>0, <1>10 DEF CompareFreed
<1>11. CASE NothingToCompare BY <1>1, <1>11 DEF NothingToCompare
<1> QED
  BY <1>4, <1>5, <1>6, <1>7, <1>8, <1>9, <1>10, <1>11 DEF Verify

LEMMA RenewalStable ==
  ASSUME UNCHANGED settingsVars, setup' = setup
  PROVE  Renewal' <=> Renewal
<1>1. PinGiven' = PinGiven /\ StrategyGiven' = StrategyGiven
  BY DEF settingsVars, PinGiven, StrategyGiven, InForce
<1> QED
  BY <1>1 DEF settingsVars, Renewal

RefusedRightly == verdict = "refused" /\ main = "ready" => ~Renewal

LEMMA RefusedStep ==
  TypeOK /\ Turns /\ SettingsMerged /\ ChainKnown /\ RefusedRightly /\ [Next]_vars
    => RefusedRightly'
<1> SUFFICES ASSUME TypeOK, Turns, SettingsMerged, ChainKnown, RefusedRightly, [Next]_vars,
                    verdict' = "refused", main' = "ready"
             PROVE  ~Renewal'
  BY DEF RefusedRightly
<1>1. CASE Verify
  <2>1. UNCHANGED settingsVars /\ setup' = setup
    BY <1>1, Zenon DEF Verify, VerifyChecksum, JudgeChain, JudgeExtraction, TakeThumbprints,
           ComparePin, ComparePublisher, CompareFreed, NothingToCompare, UnchangedMain, Conclude,
           Refuse, Continue
  <2> QED
    BY <1>1, <2>1, RenewalNotRefused, RenewalStable
<1>2. CASE Construct \/ RequestUpdateInfo \/ VerifyReleaseIntegrityAsync \/ RetryDownload
  <2>1. verdict' = "none"
    BY <1>2 DEF Construct, ReadOwnSignature, ExtractOwnCertificate, KeepOwnCertificate,
           LoadConfigFile, ApplyStrict, RequestUpdateInfo, VerifyReleaseIntegrityAsync,
           RetryDownload, UnchangedTask, Turns
  <2> QED
    BY <2>1
<1>3. CASE ReadSignature \/ JoinTask \/ InvokeSetup \/ CloseWindow \/ UNCHANGED vars
  <2>1. UNCHANGED settingsVars /\ setup' = setup /\ verdict' = verdict /\ main = "ready"
    BY <1>3, Zenon DEF ReadSignature, JoinTask, InvokeSetup, CloseWindow, vars, UnchangedTask
  <2> QED
    BY <2>1, RenewalStable DEF RefusedRightly
<1> QED
  BY <1>1, <1>2, <1>3 DEF Next

\* A setup with a renewed certificate of the updater's publisher is never
\* refused where the publisher is what is pinned, whatever else is set.
THEOREM RenewalsPass == Spec => []RenewalAccepted
<1>1. Init => RefusedRightly
  BY DEF Init, RefusedRightly
<1>2. RefusedRightly => RenewalAccepted
  BY DEF RefusedRightly, Renewal, RenewalAccepted
<1> QED
  BY <1>1, <1>2, RefusedStep, JudgedInvariant, PTL DEF Spec

-----------------------------------------------------------------------------
\* What the pointers of a call are set to at each point: no more than its clean-up
\* names, and nothing that the next step sets.
Holding ==
  /\ held \subseteq Epilogue(reader)
  /\ at \in {"idle", "begin", "returned"} => held = {}
  /\ at \in {"verify", "query"} => held \subseteq {"path"}
  /\ at = "signer" => held \subseteq {"path", "store", "msg"}
  /\ at = "opus" => reader # "pin" /\ held \subseteq {"path", "store", "msg", "signer"}
  /\ at = "cert" => held \subseteq {"path", "store", "msg", "signer", "program"}
  /\ at = "names" => "cert" \in held
  /\ at \in {"names", "stamp"} => reader # "pin" /\ "counterSigner" \notin held
  /\ at = "stamp" /\ reader = "extract" => "cert" \in held
  /\ at = "stampCert" => "cert" \in held

\* What is allocated is what the pointers are set to, and what was lost.
Accounted ==
  /\ live \in [Handles -> Int] /\ lost \in [Handles -> Nat]
  /\ \A h \in Handles : live[h] = IF h \in held THEN lost[h] + 1 ELSE lost[h]
  /\ lost["path"] = 0

Counted == Holding /\ Accounted

\* Setting pointers that are not set keeps the account.
LEMMA AcquireCounts ==
  ASSUME Counted, NEW taken \in SUBSET Handles, Acquire(taken), taken \cap held = {}
  PROVE  Accounted' /\ held' = held \cup taken
BY DEF Acquire, Exchange, Count, Counted, Accounted

\* So does freeing what is set, and setting it again.
LEMMA ExchangeCounts ==
  ASSUME Counted, NEW freed \in SUBSET held, NEW taken \in SUBSET freed, Exchange(freed, taken),
         held \subseteq Handles
  PROVE  Accounted' /\ held' = (held \ freed) \cup taken
BY DEF Exchange, Count, Counted, Accounted

LEMMA CountedRead == TypeOK /\ Turns /\ ChainKnown /\ Counted /\ ReadSignature => Counted'
<1> SUFFICES ASSUME TypeOK, Turns, ChainKnown, Counted, ReadSignature PROVE Counted'
  OBVIOUS
<1>0. /\ ReadStep(Chain) /\ reader \in Readers /\ held \subseteq Handles /\ Holding
  BY DEF ReadSignature, TypeOK, ReadingTypeOK, Counted
<1> USE <1>0 DEF GoOn, Leave, UnchangedCall, Handles, Readers
<1>1. CASE CopyPath
  <2>1. /\ at = "begin" /\ reader = "trust" /\ reader' = reader
        /\ \/ at' = "verify" /\ Acquire({"path"})
           \/ at' = "release" /\ Acquire({})
    BY <1>1 DEF CopyPath, ChainKnown
  <2>2. Accounted' /\ held' \subseteq {"path"}
    BY <2>1, AcquireCounts DEF Holding
  <2> QED
    BY <2>1, <2>2 DEF Counted, Holding, Epilogue
<1>2. CASE VerifyTrust(Chain)
  <2>1. /\ Acquire({}) /\ at = "verify" /\ at' \in {"query", "release"}
        /\ reader' = reader
    BY <1>2 DEF VerifyTrust
  <2>2. Accounted' /\ held' = held
    BY <2>1, AcquireCounts
  <2> QED
    BY <2>1, <2>2 DEF Counted, Holding
<1>3. CASE QueryObject
  <2>1. /\ at = "query" /\ reader' = reader
        /\ \/ at' = "signer" /\ Acquire({"store", "msg"})
           \/ at' = "release" /\ Acquire({})
    BY <1>3 DEF QueryObject
  <2>2. Accounted' /\ held' \in {held, held \cup {"store", "msg"}}
    BY <2>1, AcquireCounts DEF Holding
  <2> QED
    BY <2>1, <2>2 DEF Counted, Holding, Epilogue
<1>4. CASE ReadSigner
  <2>1. /\ at = "signer" /\ reader' = reader
        /\ at' \in {"cert", "opus", "release"} /\ (at' = "opus" => reader # "pin")
        /\ \E taken \in {{}, {"signer"}} : Acquire(taken)
    BY <1>4 DEF ReadSigner, OptionalSigner, RequiredSigner
  <2>2. Accounted' /\ held' \in {held, held \cup {"signer"}}
    BY <2>1, AcquireCounts DEF Holding
  <2> QED
    BY <2>1, <2>2 DEF Counted, Holding, Epilogue
<1>5. CASE ReadOpus
  <2>1. /\ at = "opus" /\ at' = "cert" /\ reader' = reader
        /\ \/ Acquire({})
           \/ reader = "extract" /\ Acquire({"program"})
    BY <1>5 DEF ReadOpus, CopyProgramInfo, GetProgAndPublisherInfo
  <2>2. /\ Accounted'
        /\ held' = held \/ (reader = "extract" /\ held' = held \cup {"program"})
    BY <2>1, AcquireCounts DEF Holding
  <2> QED
    BY <2>1, <2>2 DEF Counted, Holding, Epilogue
<1>6. CASE FindCert
  <2>1. /\ at = "cert" /\ reader' = reader
        /\ \/ at' = "stamp" /\ reader = "trust" /\ Acquire({})
           \/ at' = "names" /\ reader = "extract" /\ Acquire({"cert"})
           \/ at' = "release" /\ reader # "trust" /\ Acquire({"cert"})
           \/ at' = "release" /\ Acquire({})
    BY <1>6 DEF FindCert, CopyCertNames, FindSignerCert, HashSignerCert
  <2>2. Accounted' /\ (held' = held \/ (reader # "trust" /\ held' = held \cup {"cert"}))
    BY <2>1, AcquireCounts DEF Holding
  <2>3. at' = "names" => held' = held \cup {"cert"}
    BY <2>1, AcquireCounts DEF Holding
  <2> QED
    BY <2>1, <2>2, <2>3 DEF Counted, Holding, Epilogue
<1>7. CASE ReadNames
  <2>1. /\ at = "names" /\ at' \in {"stamp", "release"} /\ reader' = reader
        /\ Acquire({})
    BY <1>7 DEF ReadNames
  <2>2. Accounted' /\ held' = held
    BY <2>1, AcquireCounts
  <2> QED
    BY <2>1, <2>2 DEF Counted, Holding
<1>8. CASE ReadStamp
  <2>1. /\ at = "stamp" /\ reader' = reader
        /\ \/ at' = "release" /\ \E taken \in {{}, {"counterSigner"}} : Acquire(taken)
           \/ at' = "stampCert" /\ reader = "extract" /\ Acquire({"counterSigner"})
    BY <1>8 DEF ReadStamp, DecodeCounterSigner, GetTimeStampSignerInfo
  <2>2. Accounted' /\ held' \in {held, held \cup {"counterSigner"}}
    BY <2>1, AcquireCounts DEF Holding
  <2> QED
    BY <2>1, <2>2 DEF Counted, Holding, Epilogue
<1>9. CASE FindStampCert
  <2>1. /\ at = "stampCert" /\ at' = "release" /\ reader' = reader
        /\ \E taken \in {{}, {"cert"}} : Exchange({"cert"}, taken)
    BY <1>9 DEF FindStampCert
  <2>2. Accounted' /\ held' \subseteq held
    BY <2>1, ExchangeCounts DEF Holding
  <2> QED
    BY <2>1, <2>2 DEF Counted, Holding
<1>10. CASE CleanUp
  <2>1. held \cap Epilogue(reader) = held
    BY DEF Holding
  <2>2. /\ at' = "returned" /\ held' = {} /\ UNCHANGED lost /\ Count(held, {})
    BY <1>10, <2>1 DEF CleanUp
  <2>3. Accounted'
    BY <2>2 DEF Count, Counted, Accounted
  <2> QED
    BY <2>2, <2>3 DEF Counted, Holding
<1>11. CASE Fault
  <2>1. PICK taken \in SUBSET InHand :
          /\ Count(held \cap {"path"}, taken)
          /\ lost' = [h \in Handles |-> IF h \in (held \ {"path"}) \cup taken THEN lost[h] + 1
                                                                          ELSE lost[h]]
    BY <1>11 DEF Fault
  <2>2. taken \in SUBSET (Handles \ {"path"}) /\ taken \cap held = {}
    BY <1>11 DEF Fault, InHand, Holding, Epilogue
  <2>3. at' = "returned" /\ held' = {}
    BY <1>11 DEF Fault
  <2>4. Accounted'
    BY <2>1, <2>2, <2>3 DEF Count, Counted, Accounted
  <2> QED
    BY <2>3, <2>4 DEF Counted, Holding
<1> QED
  BY <1>1, <1>2, <1>3, <1>4, <1>5, <1>6, <1>7, <1>8, <1>9, <1>10, <1>11 DEF ReadStep

LEMMA CountedRest ==
  ASSUME TypeOK, Turns, Counted, UNCHANGED memory,
         \/ at' = at /\ reader' = reader
         \/ at' \in {"idle", "begin", "query"} /\ held = {}
  PROVE  Counted'
BY DEF Counted, Holding, Accounted, memory, TypeOK, ReadingTypeOK

\* Which strings are left when.
Strings ==
  /\ worker \in {"idle", "checksum", "done"} =>
       sigInfo["setup"] = "empty" /\ certInfo["setup"] = {}
  /\ main \in {"join", "gone"} =>
       sigInfo["updater"] = "empty" /\ (isUpdaterSigned => certInfo["updater"] = {})

LEMMA BalancedInit == Init => Counted /\ Strings
BY DEF Init, ReadingInit, Counted, Holding, Accounted, Strings, Handles, Owners

\* A reading touches the strings of the file it reads, no other.
LEMMA StringsRead == TypeOK /\ Turns /\ Strings /\ ReadSignature => Strings'
<1> SUFFICES ASSUME TypeOK, Turns, Strings, ReadSignature PROVE Strings'
  OBVIOUS
<1>1. /\ at # "idle"
      /\ \A o \in Owners \ {owner} : sigInfo'[o] = sigInfo[o] /\ certInfo'[o] = certInfo[o]
  BY DEF ReadSignature, ReadStep, CopyPath, VerifyTrust, QueryObject, ReadSigner,
         OptionalSigner, RequiredSigner, ReadOpus, CopyProgramInfo, GetProgAndPublisherInfo,
         FindCert, CopyCertNames, FindSignerCert, HashSignerCert, ReadNames, ReadStamp,
         DecodeCounterSigner, GetTimeStampSignerInfo, FindStampCert, CleanUp, Fault,
         TypeOK, ReadingTypeOK
<1>2. /\ main' = main /\ worker' = worker /\ isUpdaterSigned' = isUpdaterSigned
  BY DEF ReadSignature, settingsVars, UnchangedTask
<1>3. \/ main = "ownCert" /\ owner = "updater"
      \/ worker \in {"trust", "extract", "pin"} /\ owner = "setup"
  BY <1>1 DEF Turns, TypeOK
<1> QED
  BY <1>1, <1>2, <1>3 DEF Strings, Owners

LEMMA BalancedConstruct ==
  TypeOK /\ Turns /\ Counted /\ Strings /\ (Construct \/ RequestUpdateInfo) => Counted' /\ Strings'
<1> SUFFICES ASSUME TypeOK, Turns, Counted, Strings, Construct \/ RequestUpdateInfo
             PROVE  Counted' /\ Strings'
  OBVIOUS
<1>1. ASSUME NEW r \in {"trust", "extract"}, Call(r, "updater")
      PROVE  Counted' /\ sigInfo'["setup"] = sigInfo["setup"]
               /\ certInfo'["setup"] = certInfo["setup"]
  <2>1. /\ UNCHANGED memory /\ held = {} /\ at' \in {"begin", "query"}
    BY <1>1 DEF Call, Counted, Holding
  <2>2. Counted'
    BY <2>1, CountedRest
  <2> QED
    BY <1>1, <2>2 DEF Call, TypeOK, ReadingTypeOK, Owners
<1>2. ASSUME GiveBack, at = "returned"
      PROVE  Counted' /\ UNCHANGED <<sigInfo, certInfo>>
  <2>1. held = {}
    BY <1>2 DEF Counted, Holding
  <2> QED
    BY <1>2, <2>1, CountedRest DEF GiveBack
<1>3. ASSUME UNCHANGED reading
      PROVE  Counted' /\ UNCHANGED <<sigInfo, certInfo>>
  BY <1>3, CountedRest DEF reading
<1>4. worker = "idle" /\ worker' = worker /\ main' \notin {"join", "gone"}
  BY DEF Construct, RequestUpdateInfo, ReadOwnSignature, ExtractOwnCertificate,
         KeepOwnCertificate, LoadConfigFile, ApplyStrict, UnchangedTask, Turns
<1>5. CASE ReadOwnSignature
  BY <1>1, <1>4, <1>5 DEF ReadOwnSignature, Strings
<1>6. CASE ExtractOwnCertificate
  BY <1>1, <1>2, <1>4, <1>6 DEF ExtractOwnCertificate, Strings
<1>7. CASE KeepOwnCertificate
  BY <1>2, <1>4, <1>7 DEF KeepOwnCertificate, Strings
<1>8. CASE LoadConfigFile BY <1>3, <1>4, <1>8 DEF LoadConfigFile, Strings
<1>9. CASE ApplyStrict BY <1>3, <1>4, <1>9 DEF ApplyStrict, Strings
<1>10. CASE RequestUpdateInfo BY <1>3, <1>4, <1>10 DEF RequestUpdateInfo, Strings
<1> QED
  BY <1>5, <1>6, <1>7, <1>8, <1>9, <1>10 DEF Construct

LEMMA BalancedVerify ==
  TypeOK /\ Turns /\ Counted /\ Strings /\ Verify => Counted' /\ Strings'
<1> SUFFICES ASSUME TypeOK, Turns, Counted, Strings, Verify PROVE Counted' /\ Strings'
  OBVIOUS
<1>0. /\ main \in {"ready", "join", "gone"} /\ worker \notin {"idle", "done"}
      /\ main' \in {main, "gone"} /\ (main' # main => main = "join")
      /\ isUpdaterSigned' = isUpdaterSigned
      /\ at \in {"idle", "returned"}
  BY DEF Verify, VerifyChecksum, JudgeChain, JudgeExtraction, TakeThumbprints, ComparePin,
         ComparePublisher, CompareFreed, NothingToCompare, UnchangedMain, settingsVars,
         Turns, TypeOK
<1>1. held = {}
  BY <1>0 DEF Counted, Holding
<1>2. ASSUME NEW v, Conclude(v) PROVE Counted' /\ Strings'
  <2>1. Counted'
    BY <1>1, <1>2, CountedRest DEF Conclude
  <2>2. /\ sigInfo'["setup"] = "empty" /\ certInfo'["setup"] = {}
        /\ sigInfo'["updater"] = sigInfo["updater"] /\ certInfo'["updater"] = certInfo["updater"]
    BY <1>2 DEF Conclude, FreeInfo, Owners
  <2> QED
    BY <1>0, <2>1, <2>2 DEF Strings
<1>3. ASSUME NEW p \in {"trust", "extract", "pin"}, Continue(p, p) PROVE Counted' /\ Strings'
  <2>1. Counted'
    BY <1>1, <1>3, CountedRest DEF Continue, Call
  <2>2. /\ worker' = p
        /\ sigInfo'["updater"] = sigInfo["updater"] /\ certInfo'["updater"] = certInfo["updater"]
    BY <1>3 DEF Continue, Call, TypeOK, ReadingTypeOK, Owners
  <2> QED
    BY <1>0, <2>1, <2>2 DEF Strings
<1>4. ASSUME GiveBack, worker' = "compare" PROVE Counted' /\ Strings'
  <2>1. Counted'
    BY <1>1, <1>4, CountedRest DEF GiveBack
  <2> QED
    BY <1>0, <1>4, <2>1 DEF Strings, GiveBack
<1>5. CASE VerifyChecksum BY <1>2, <1>3, <1>5 DEF VerifyChecksum
<1>6. CASE JudgeChain BY <1>2, <1>3, <1>6 DEF JudgeChain, Refuse
<1>7. CASE JudgeExtraction BY <1>2, <1>3, <1>4, <1>7 DEF JudgeExtraction, Refuse
<1>8. CASE TakeThumbprints BY <1>4, <1>8 DEF TakeThumbprints
<1>9. CASE ComparePin BY <1>2, <1>9 DEF ComparePin, Refuse
<1>10. CASE ComparePublisher BY <1>2, <1>10 DEF ComparePublisher, Refuse
<1>11. CASE CompareFreed BY <1>2, <1>11 DEF CompareFreed
<1>12. CASE NothingToCompare BY <1>2, <1>12 DEF NothingToCompare, Refuse
<1> QED
  BY <1>5, <1>6, <1>7, <1>8, <1>9, <1>10, <1>11, <1>12 DEF Verify

LEMMA BalancedRest ==
  TypeOK /\ Turns /\ Counted /\ Strings
    /\ (VerifyReleaseIntegrityAsync \/ JoinTask \/ InvokeSetup \/ RetryDownload \/ CloseWindow
         \/ UNCHANGED vars)
    => Counted' /\ Strings'
<1> SUFFICES ASSUME TypeOK, Turns, Counted, Strings,
                    VerifyReleaseIntegrityAsync \/ JoinTask \/ InvokeSetup \/ RetryDownload
                      \/ CloseWindow \/ UNCHANGED vars
             PROVE  Counted' /\ Strings'
  OBVIOUS
<1>1. Counted'
  BY CountedRest DEF VerifyReleaseIntegrityAsync, JoinTask, InvokeSetup, RetryDownload,
     CloseWindow, vars, reading
<1> USE DEF Strings, reading, settingsVars, UnchangedMain, UnchangedTask
<1>2. CASE VerifyReleaseIntegrityAsync BY <1>1, <1>2 DEF VerifyReleaseIntegrityAsync
<1>3. CASE JoinTask BY <1>1, <1>3 DEF JoinTask
<1>4. CASE InvokeSetup BY <1>1, <1>4 DEF InvokeSetup
<1>5. CASE RetryDownload BY <1>1, <1>5 DEF RetryDownload
<1>6. CASE CloseWindow BY <1>1, <1>6 DEF CloseWindow, FreeInfo, Owners
<1>7. CASE UNCHANGED vars BY <1>1, <1>7 DEF vars
<1> QED
  BY <1>2, <1>3, <1>4, <1>5, <1>6, <1>7

\* Whichever step of reading a signature fails, its clean-up names every pointer
\* that may be set, and no step overwrites one: all that was allocated is freed,
\* and once, but for what an access violation loses; and the strings are gone with
\* the task and the object.
THEOREM AllIsFreed == Spec => []HandlesBalanced
<1>1. TypeOK /\ Turns /\ ChainKnown /\ Counted /\ Strings /\ [Next]_vars => Counted' /\ Strings'
  <2>1. ReadSignature /\ TypeOK /\ Turns /\ ChainKnown /\ Counted /\ Strings => Counted' /\ Strings'
    BY CountedRead, StringsRead
  <2> QED
    BY <2>1, BalancedConstruct, BalancedVerify, BalancedRest DEF Next
<1>2. Counted /\ Strings => HandlesBalanced
  <2> SUFFICES ASSUME Counted, Strings PROVE HandlesBalanced
    OBVIOUS
  <2>1. \A h \in Handles : live[h] - lost[h] \in {0, 1}
    BY DEF Counted, Accounted
  <2>2. at \in {"idle", "returned"} => live = lost
    BY DEF Counted, Holding, Accounted
  <2> QED
    BY <2>1, <2>2 DEF Counted, Accounted, Strings, HandlesBalanced
<1> QED
  BY <1>1, <1>2, BalancedInit, JudgedInvariant, PTL DEF Spec
=============================================================================
