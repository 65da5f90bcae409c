------------------------- MODULE VerificationPolicy -------------------------
(***************************************************************************)
(* What a downloaded setup must satisfy before it is run: the settings as  *)
(* defaults, configuration file, --strict-verification and server leave    *)
(* them, and VerifyReleaseIntegrity with VerifySetupSignature applying     *)
(* them to a file.  The main thread constructs the InstanceConfig, merges  *)
(* the server's settings, starts the setup after a verdict, and may        *)
(* destroy the object while the verification task still reads it.          *)
(*                                                                         *)
(* A digest and a field of a certificate are values that are equal or not  *)
(* (the code compares without regard to case).  The words of a setting are *)
(* those of the source, "Invalid" what any other word is read as.          *)
(***************************************************************************)
EXTENDS SignatureReading

CONSTANTS
  Absent,          \* a setting, checksum or pin that is not given
  Digests,         \* of files
  Certs,           \* of signers: a function from the fields a pin may name
  Pins,            \* signatureConfig: a function from some of these fields
  LocalConfigs,    \* configuration files
  SharedConfigs,   \* "shared" of a manifest, each setting given or not
  Releases,        \* releases of a manifest
  SayNotSigned,    \* texts with the words "not signed" in them: the error on an
                   \* unsigned file, and subjects of certificates
  UpdaterFiles,    \* what the updater's own file may be
  SetupFiles       \* what the downloaded file may be

Modes == {"Disabled", "WhenPresent", "Required", "Invalid"}
Policies == {"Relaxed", "Strict", "Invalid"}
Strategies == {"FromUpdaterBinary", "FromConfiguration", "Invalid"}
Authorities == {"Local", "Remote", "Invalid"}
OptPins == Pins \cup {Absent}

Settings == [mode : Modes, policy : Policies, strategy : Strategies, config : OptPins]

ASSUME AbsentAssumption ==
  /\ Absent \notin Digests /\ Absent \notin Pins /\ Absent # "InvalidAlgorithm"
  /\ Absent \notin Modes \cup Policies \cup Strategies
  /\ "InvalidAlgorithm" \notin Digests
ASSUME CertsAssumption ==
  /\ \A c \in Certs : DOMAIN c = PinFields
  /\ \A p \in Pins : DOMAIN p \subseteq PinFields
ASSUME ConfigsAssumption ==
  /\ \A c \in LocalConfigs : c.authority \in Authorities /\ c.settings \in Settings
  /\ SharedConfigs \subseteq [mode : Modes \cup {Absent}, policy : Policies \cup {Absent},
                              strategy : Strategies \cup {Absent}, config : OptPins]
ASSUME ReleasesAssumption ==
  Releases \subseteq [checksum : Digests \cup {Absent, "InvalidAlgorithm"},
                      policy : Policies \cup {Absent},
                      strategy : Strategies \cup {Absent}, signature : OptPins]
ASSUME TextsAssumption == "File is not signed" \in SayNotSigned
ASSUME FilesAssumption ==
  /\ UpdaterFiles \subseteq [chain : Chains, cert : Certs]
  /\ SetupFiles \subseteq [digest : Digests, chain : Chains, cert : Certs]

Defaults == [mode |-> "WhenPresent", policy |-> "Relaxed",
             strategy |-> "FromUpdaterBinary", config |-> Absent]
NothingShared == [mode |-> Absent, policy |-> Absent, strategy |-> Absent, config |-> Absent]

VARIABLES
  main,              \* where the main thread is
  strictVerification,
  updater,           \* the updater's own file
  isUpdaterSigned,
  authority, merged,
  local, shared,     \* history: the settings of the file and of the server
  release,           \* the selected release
  worker,            \* where the verification task is
  setup,             \* the file it verifies
  verdict,
  launched           \* the setup was started

settingsVars == <<strictVerification, updater, isUpdaterSigned, authority, merged, local,
                  shared, release>>
vars == <<reading, main, settingsVars, worker, setup, verdict, launched>>

TypeOK ==
  /\ ReadingTypeOK
  /\ main \in {"ownTrust", "ownCert", "config", "strict", "request", "ready", "join",
               "gone"}
  /\ strictVerification \in BOOLEAN
  /\ updater \in UpdaterFiles
  /\ isUpdaterSigned \in BOOLEAN
  /\ authority \in Authorities
  /\ merged \in Settings /\ local \in Settings
  /\ shared \in SharedConfigs \cup {NothingShared}
  /\ release \in Releases \cup {Absent}
  /\ worker \in {"idle", "checksum", "trust", "extract", "pin", "compare", "done"}
  /\ setup \in SetupFiles \cup {Absent}
  /\ verdict \in {"none", "accepted", "acceptedUnread", "refused", "unreadable"}
  /\ launched \in BOOLEAN

Init ==
  /\ ReadingInit
  /\ main = "ownTrust"
  /\ strictVerification \in BOOLEAN
  /\ updater \in UpdaterFiles
  /\ isUpdaterSigned = FALSE
  /\ authority = "Remote"
  /\ merged = Defaults /\ local = Defaults /\ shared = NothingShared
  /\ release = Absent
  /\ worker = "idle"
  /\ setup = Absent
  /\ verdict = "none"
  /\ launched = FALSE

-----------------------------------------------------------------------------
\* The constructor: the updater's own signature.
UnchangedTask == UNCHANGED <<worker, setup, verdict, launched>>

ReadOwnSignature ==
  /\ main = "ownTrust" /\ at = "idle"
  /\ Call("trust", "updater")
  /\ main' = "ownCert"
  /\ UNCHANGED settingsVars /\ UnchangedTask

ExtractOwnCertificate ==
  /\ main = "ownCert" /\ reader = "trust" /\ at = "returned"
  /\ IF answer = "ok"
       THEN Call("extract", "updater") /\ UNCHANGED main
       ELSE GiveBack /\ main' = "config"
  /\ UNCHANGED settingsVars /\ UnchangedTask

KeepOwnCertificate ==
  /\ main = "ownCert" /\ reader = "extract" /\ at = "returned"
  /\ GiveBack
  /\ isUpdaterSigned' = (answer = "ok")
  /\ main' = "config"
  /\ UNCHANGED <<strictVerification, updater, authority, merged, local, shared, release>>
  /\ UnchangedTask

\* The configuration file is applied setting by setting; one that cannot be
\* read ends it, and what was applied before stays.
LoadConfigFile ==
  /\ main = "config"
  /\ main' = "strict"
  /\ \/ UNCHANGED <<authority, merged, local>>
     \/ \E c \in LocalConfigs :
          /\ authority' = c.authority
          /\ \E m \in {merged, c.settings} : merged' = m /\ local' = m
  /\ UNCHANGED <<strictVerification, updater, isUpdaterSigned, shared, release>>
  /\ UNCHANGED reading /\ UnchangedTask

\* What --strict-verification makes of the settings.
Elevated(m) ==
  [mode |-> IF m.mode \in {"WhenPresent", "Disabled"} THEN "Required" ELSE m.mode,
   policy |-> IF m.policy = "Relaxed" THEN "Strict" ELSE m.policy,
   strategy |-> m.strategy, config |-> m.config]

ApplyStrict ==
  /\ main = "strict"
  /\ main' = "request"
  /\ merged' = IF strictVerification THEN Elevated(merged) ELSE merged
  /\ UNCHANGED <<strictVerification, updater, isUpdaterSigned, authority, local, shared, release>>
  /\ UNCHANGED reading /\ UnchangedTask

\* RequestUpdateInfo: the settings the server gives replace those in force.
Overlaid(m, s) ==
  [f \in {"mode", "policy", "strategy", "config"} |-> IF s[f] = Absent THEN m[f] ELSE s[f]]

\* Mutant: the server may override strict mode.
MergeSharedAlways(s) == Overlaid(merged, s)

MergeShared(s) == IF strictVerification THEN merged ELSE Overlaid(merged, s)

RequestUpdateInfo ==
  /\ main = "request"
  /\ main' = "ready"
  /\ release' \in Releases
  /\ shared' \in SharedConfigs \cup {NothingShared}
  /\ merged' = IF authority = "Local" THEN merged ELSE MergeShared(shared')
  /\ UNCHANGED <<strictVerification, updater, isUpdaterSigned, authority, local>>
  /\ UNCHANGED reading /\ UnchangedTask

-----------------------------------------------------------------------------
\* The verification task.  A setting of the release replaces the one in force.
ValueOr(given, default) == IF given = Absent THEN default ELSE given

EffectivePolicy == ValueOr(release.policy, merged.policy)
EffectiveStrategy == ValueOr(release.strategy, merged.strategy)
EffectivePin == ValueOr(release.signature, merged.config)

UnchangedMain == UNCHANGED <<main, settingsVars, launched>>

\* The task returns v, after the scope guards freed what it read.
Conclude(v) ==
  /\ worker' = "done"
  /\ verdict' = v
  /\ FreeInfo({"setup"}, {"setup"})
  /\ at' = "idle" /\ answer' = "none"
  /\ UNCHANGED <<reader, owner, memory, setup>>

\* VerifySetupSignature failed, with an error whose text is put together from
\* these.  In the mode WhenPresent the words "not signed" anywhere in it excuse it.
Refuse(v, texts) ==
  Conclude(IF merged.mode = "WhenPresent" /\ texts \cap SayNotSigned # {} THEN "accepted" ELSE v)

Continue(p, r) ==
  /\ worker' = p
  /\ Call(r, "setup")
  /\ UNCHANGED <<setup, verdict>>

VerifyReleaseIntegrityAsync ==
  /\ main = "ready" /\ worker = "idle" /\ ~launched
  /\ worker' = "checksum"
  /\ setup' \in SetupFiles
  /\ UNCHANGED reading
  /\ UNCHANGED verdict /\ UnchangedMain

\* The checksum layer lets the file pass.
ChecksumPasses ==
  IF release.checksum = Absent THEN ~strictVerification
                               ELSE release.checksum = setup.digest

VerifyChecksum ==
  /\ worker = "checksum"
  /\ \/ release.checksum # Absent /\ Conclude("unreadable")
     \/ ~ChecksumPasses /\ Conclude("refused")
     \/ ChecksumPasses /\ merged.mode = "Disabled" /\ Conclude("accepted")
     \/ ChecksumPasses /\ merged.mode # "Disabled" /\ Continue("trust", "trust")
  /\ UnchangedMain

\* A valid chain is enough, without a look at the certificate.
ChainSuffices ==
  /\ EffectivePolicy = "Relaxed" /\ EffectivePin = Absent
  /\ EffectiveStrategy = "FromUpdaterBinary" /\ ~isUpdaterSigned

NotSigned == {"unsigned", "unknownForm"}

JudgeChain ==
  /\ worker = "trust" /\ at = "returned"
  /\ \/ answer = "failed" /\ Refuse("unreadable", {})
     \/ answer \in NotSigned /\ Refuse("refused", {"File is not signed"})
     \/ answer = "untrusted" /\ Refuse("refused", {})
     \/ answer = "ok" /\ ChainSuffices /\ Conclude("accepted")
     \/ answer = "ok" /\ ~ChainSuffices /\ Continue("extract", "extract")
  /\ UnchangedMain

ThumbprintPinned ==
  IF EffectivePin = Absent THEN FALSE ELSE DOMAIN EffectivePin \cap Thumbprints # {}

JudgeExtraction ==
  /\ worker = "extract" /\ at = "returned"
  /\ \/ answer = "failed" /\ EffectivePolicy = "Strict" /\ Refuse("unreadable", {})
     \/ answer = "failed" /\ EffectivePolicy # "Strict" /\ Conclude("accepted")
     \/ answer = "ok" /\ ThumbprintPinned /\ Continue("pin", "pin")
     \/ /\ answer = "ok" /\ ~ThumbprintPinned
        /\ worker' = "compare" /\ GiveBack
        /\ UNCHANGED <<setup, verdict>>
  /\ UnchangedMain

TakeThumbprints ==
  /\ worker = "pin" /\ at = "returned"
  /\ worker' = "compare" /\ GiveBack
  /\ UNCHANGED <<setup, verdict>> /\ UnchangedMain

\* A field that could not be read is an empty text.
Matches(pin) ==
  \A f \in DOMAIN pin : f \in certInfo["setup"] /\ setup.cert[f] = pin[f]

SubjectsRead == {o \in Owners : "subject" \in certInfo[o]}
\* Mutant: the certificates are compared, not the subjects.
SameCertificate == SubjectsRead = Owners /\ setup.cert = updater.cert

SamePublisher ==
  \/ SubjectsRead = {}
  \/ SubjectsRead = Owners /\ setup.cert["subject"] = updater.cert["subject"]

UsesUpdater == EffectiveStrategy = "FromUpdaterBinary" /\ isUpdaterSigned

ComparePin ==
  /\ worker = "compare" /\ EffectivePin # Absent
  /\ \/ Matches(EffectivePin) /\ Conclude("accepted")
     \/ /\ ~Matches(EffectivePin)
        /\ Refuse(IF DOMAIN EffectivePin \subseteq certInfo["setup"] THEN "refused"
                                                                    ELSE "unreadable", {})
  /\ UnchangedMain

\* The text on a mismatch holds the subjects of both; one not read is empty.
SubjectTexts ==
  {setup.cert["subject"] : o \in SubjectsRead \cap {"setup"}}
    \cup {updater.cert["subject"] : o \in SubjectsRead \cap {"updater"}}

ComparePublisher ==
  /\ worker = "compare" /\ EffectivePin = Absent /\ UsesUpdater /\ main # "join"
  /\ \/ SamePublisher /\ Conclude(IF SubjectsRead = {} THEN "acceptedUnread" ELSE "accepted")
     \/ /\ ~SamePublisher
        /\ Refuse(IF SubjectsRead = Owners THEN "refused" ELSE "unreadable", SubjectTexts)
  /\ UnchangedMain

\* The destructor has freed the updater's subject: the comparison reads an
\* empty text, freed memory, or no memory at all.
CompareFreed ==
  /\ worker = "compare" /\ EffectivePin = Absent /\ UsesUpdater /\ main = "join"
  /\ \E v \in {"accepted", "refused"} : Conclude(v)
  /\ main' \in {main, "gone"}
  /\ UNCHANGED settingsVars /\ UNCHANGED launched

NothingToCompare ==
  /\ worker = "compare" /\ EffectivePin = Absent /\ ~UsesUpdater
  /\ IF EffectivePolicy = "Strict" THEN Refuse("refused", {}) ELSE Conclude("accepted")
  /\ UnchangedMain

\* The trust provider's word on the file that is read.
Chain == IF owner = "updater" THEN updater.chain ELSE setup.chain

ReadSignature ==
  /\ ReadStep(Chain)
  /\ UNCHANGED <<main, settingsVars>> /\ UnchangedTask

-----------------------------------------------------------------------------
\* The main thread: start the setup, try again, leave.
Accepted == {"accepted", "acceptedUnread"}

InvokeSetup ==
  /\ main = "ready" /\ worker = "done" /\ verdict \in Accepted
  /\ launched' = TRUE
  /\ UNCHANGED <<reading, main, settingsVars, worker, setup, verdict>>

RetryDownload ==
  /\ main = "ready" /\ worker = "done" /\ verdict \notin Accepted
  /\ worker' = "idle" /\ verdict' = "none" /\ setup' = Absent
  /\ UNCHANGED <<reading, main, settingsVars, launched>>

\* The window is closed, and the destructor frees the information on the
\* updater's signature before all else ...
CloseWindow ==
  /\ main = "ready"
  /\ main' = "join"
  /\ FreeInfo({"updater"}, IF isUpdaterSigned THEN {"updater"} ELSE {})
  /\ UNCHANGED <<reader, owner, at, answer, memory, settingsVars>> /\ UnchangedTask

\* Mutant: the destructor waits for a task that was never started.
JoinUnstarted ==
  /\ main = "join" /\ worker = "done"
  /\ main' = "gone"
  /\ UNCHANGED <<reading, settingsVars>> /\ UnchangedTask

\* ... and waits for the task when the members go.
JoinTask ==
  /\ main = "join" /\ worker \in {"idle", "done"}
  /\ main' = "gone"
  /\ UNCHANGED <<reading, settingsVars>> /\ UnchangedTask

Construct ==
  \/ ReadOwnSignature \/ ExtractOwnCertificate \/ KeepOwnCertificate
  \/ LoadConfigFile \/ ApplyStrict
Verify ==
  \/ VerifyChecksum \/ JudgeChain \/ JudgeExtraction \/ TakeThumbprints
  \/ ComparePin \/ ComparePublisher \/ CompareFreed \/ NothingToCompare

Next ==
  \/ Construct \/ RequestUpdateInfo \/ VerifyReleaseIntegrityAsync
  \/ Verify \/ ReadSignature \/ JoinTask
  \/ InvokeSetup \/ RetryDownload \/ CloseWindow

\* The threads go on; what the user or the network does is not fair.
Fairness ==
  /\ WF_vars(Construct) /\ WF_vars(Verify) /\ WF_vars(ReadSignature) /\ WF_vars(JoinTask)

Spec == Init /\ [][Next]_vars /\ Fairness

-----------------------------------------------------------------------------
\* What is in force, told from its sources: without strict mode the server's
\* word if it may have one, else the local one.
InForce(f) ==
  IF ~strictVerification /\ authority # "Local" /\ shared[f] # Absent THEN shared[f] ELSE local[f]
PinDemanded ==
  IF release.policy # Absent THEN release.policy = "Strict"
  ELSE IF strictVerification THEN local.policy # "Invalid"
  ELSE InForce("policy") = "Strict"
PinGiven == IF release.signature # Absent THEN release.signature ELSE InForce("config")
StrategyGiven == IF release.strategy # Absent THEN release.strategy ELSE InForce("strategy")

Pinned ==
  IF PinGiven # Absent
    THEN \A f \in DOMAIN PinGiven : setup.cert[f] = PinGiven[f]
    ELSE /\ StrategyGiven = "FromUpdaterBinary" /\ updater.chain = "valid"
         /\ setup.cert["subject"] = updater.cert["subject"]

\* The error on a mismatch of publishers passes for that of an unsigned file: one
\* of the two subjects says so, and the mode in force lets unsigned files pass.
PassesForUnsigned ==
  /\ ~strictVerification /\ InForce("mode") = "WhenPresent"
  /\ PinGiven = Absent /\ StrategyGiven = "FromUpdaterBinary" /\ updater.chain = "valid"
  /\ {setup.cert["subject"], updater.cert["subject"]} \cap SayNotSigned # {}

\* A setup that was started has the checksum of its release, or the release
\* has none and the mode is not strict; and its signature is what the sources
\* of the settings, and the release, demand: none, a valid chain, or a valid
\* chain and the pinned publisher.  It holds for every order of merging, and
\* while the destructor frees what the task compares with.  Two exceptions to
\* the pinned publisher: two publishers count as one if neither subject could be
\* copied for want of memory; and a mismatch is excused, where unsigned files may
\* pass, if a subject in its text says "not signed".
LaunchedAsPromised ==
  launched =>
    /\ release.checksum # Absent => setup.digest = release.checksum
    /\ strictVerification => release.checksum # Absent
    /\ \/ ~strictVerification /\ InForce("mode") = "Disabled"
       \/ /\ ~strictVerification /\ InForce("mode") = "WhenPresent"
          /\ setup.chain \in NotSigned
       \/ /\ setup.chain = "valid"
          /\ PinDemanded => Pinned \/ verdict = "acceptedUnread" \/ PassesForUnsigned

\* Only an unsigned file is excused from the pin, as the comment on the mode
\* WhenPresent has it: "If the file is unsigned and we are in WhenPresent mode,
\* accept it".
OnlyUnsignedExcused ==
  /\ launched /\ setup.chain = "valid" /\ PinDemanded
  /\ ~strictVerification /\ InForce("mode") = "WhenPresent"
  => Pinned \/ verdict = "acceptedUnread"

\* A setup signed with a renewed certificate of the updater's publisher is
\* never refused where the publisher is all that is pinned: no user is locked
\* out by a renewal.
RenewalAccepted ==
  verdict = "refused" /\ main = "ready" =>
    ~ /\ release.checksum = setup.digest
      /\ PinGiven = Absent /\ StrategyGiven = "FromUpdaterBinary"
      /\ isUpdaterSigned /\ setup.chain = "valid"
      /\ setup.cert["subject"] = updater.cert["subject"]

\* Whatever step of reading a signature fails, the call frees what it allocated,
\* once; what is left allocated between calls is what access violations took away,
\* never the path.  The task leaves no string behind, nor does the destructor if
\* the updater's certificate was read.
HandlesBalanced ==
  /\ \A h \in Handles : live[h] - lost[h] \in {0, 1}
  /\ at \in {"idle", "returned"} => live = lost
  /\ lost["path"] = 0
  /\ worker \in {"idle", "done"} => sigInfo["setup"] = "empty" /\ certInfo["setup"] = {}
  /\ main = "gone" => sigInfo["updater"] = "empty"
  /\ main = "gone" /\ isUpdaterSigned => certInfo["updater"] = {}

\* The process ends when its window is closed, a verification under way or not.
ProcessEnds == main = "join" ~> main = "gone"

\* Under a relaxed policy a setup with a valid chain is never refused.
RelaxedIsChainOnly ==
  verdict = "refused" /\ main = "ready" /\ ~strictVerification =>
    ~ /\ release.checksum = setup.digest
      /\ EffectivePolicy = "Relaxed" /\ setup.chain = "valid"
=============================================================================
