-------------------------- MODULE SignatureReading --------------------------
(***************************************************************************)
(* Reading the Authenticode signature of a file: NVerifyFileSignature      *)
(* ("trust"), crypto::ExtractSignatureInformation ("extract") and          *)
(* WithSigningCert ("pin").  One call runs at a time: the constructor      *)
(* reads the updater's own file, the verification task the setup's.        *)
(*                                                                         *)
(* A call acquires memory and handles, and every step may fail: the data   *)
(* of the file, the certificate store and memory decide.  live counts what *)
(* is allocated of each kind; held are the pointers of the call that are   *)
(* set.  At its end a call frees those of them that its clean-up names: a  *)
(* pointer that is overwritten, or that the clean-up leaves out, is        *)
(* allocated for good.  lost counts what an access violation takes away.   *)
(*                                                                         *)
(* What a call hands to its caller is the trust provider's answer and the  *)
(* strings of the two information structures, which the caller frees.      *)
(*                                                                         *)
(* Left out: what the strings say beyond the fields a pin names, and the   *)
(* time of the signature, which nothing reads.                             *)
(***************************************************************************)
EXTENDS Integers

CONSTANTS
  MaxLost,                \* bound: handles of a kind lost to access violations
  ShortFields             \* bound: fields whose copy may find no memory

ASSUME ReadingAssumption == MaxLost \in Nat /\ ShortFields \subseteq {"issuer", "subject"}

Owners == {"updater", "setup"}
Readers == {"trust", "extract", "pin"}
Handles == {"path", "store", "msg", "signer", "program", "cert", "counterSigner"}

\* What the trust provider says of a file.
Chains == {"valid", "unsigned", "unknownForm", "untrusted"}

\* What a pin may name; the thumbprints are computed on demand.
Thumbprints == {"sha1", "sha256"}
CertFields == {"serial", "issuer", "subject"}
PinFields == CertFields \cup Thumbprints

VARIABLES
  reader, owner, at,      \* the call that runs, and where it is
  answer,                 \* what the last call returned
  live,                   \* how often each kind of memory or handle is allocated
  held,                   \* the kinds the pointers of the current call are set to
  lost,                   \* history: how often a kind was lost in an access violation
  sigInfo,                \* NSIGINFO (appSigInfo, sigInfo): filled if it may hold strings
  certInfo                \* fields in SIGNATURE_INFORMATION and thumbprints read

memory == <<live, held, lost>>
reading == <<reader, owner, at, answer, memory, sigInfo, certInfo>>

ReadingTypeOK ==
  /\ reader \in Readers
  /\ owner \in Owners
  /\ at \in {"idle", "begin", "verify", "query", "signer", "opus", "cert", "names",
             "stamp", "stampCert", "release", "returned"}
  /\ answer \in {"none", "ok", "failed"} \cup (Chains \ {"valid"})
  /\ live \in [Handles -> Int] /\ lost \in [Handles -> Nat]
  /\ held \subseteq Handles
  /\ sigInfo \in [Owners -> {"empty", "filled"}]
  /\ certInfo \in [Owners -> SUBSET PinFields]

ReadingInit ==
  /\ reader = "trust" /\ owner = "updater" /\ at = "idle"
  /\ answer = "none"
  /\ live = [h \in Handles |-> 0] /\ lost = [h \in Handles |-> 0]
  /\ held = {}
  /\ sigInfo = [o \in Owners |-> "empty"]
  /\ certInfo = [o \in Owners |-> {}]

-----------------------------------------------------------------------------
\* One of each kind in freed is freed, one of each in taken is allocated.
Count(freed, taken) ==
  live' = [h \in Handles |-> IF h \in taken \ freed THEN live[h] + 1
                             ELSE IF h \in freed \ taken THEN live[h] - 1
                             ELSE live[h]]

\* The pointers to the first are freed and cleared, then those to the second set.
Exchange(freed, taken) ==
  /\ Count(freed, taken)
  /\ held' = (held \ freed) \cup taken
  /\ UNCHANGED lost
Acquire(taken) == Exchange({}, taken)

\* The call goes on at p, holding also the handles in taken.
GoOn(p, taken) ==
  /\ at' = p
  /\ Acquire(taken)
  /\ UNCHANGED answer

\* The call gives up with answer a, holding also the handles in taken.
Leave(a, taken) ==
  /\ at' = "release"
  /\ answer' = a
  /\ Acquire(taken)

UnchangedCall == UNCHANGED <<reader, owner>>

\* r is called for the file of o; the structure it fills is cleared first.
Call(r, o) ==
  /\ at \in {"idle", "returned"}
  /\ reader' = r /\ owner' = o
  /\ at' = IF r = "trust" THEN "begin" ELSE "query"
  /\ sigInfo' = IF r = "trust" THEN [sigInfo EXCEPT ![o] = "empty"] ELSE sigInfo
  /\ certInfo' = IF r = "extract" THEN [certInfo EXCEPT ![o] = {}] ELSE certInfo
  /\ answer' = "none" /\ UNCHANGED memory

\* The path is copied for the trust provider.
CopyPath ==
  /\ at = "begin"
  /\ \/ GoOn("verify", {"path"})
     \/ Leave("failed", {})
  /\ UnchangedCall /\ UNCHANGED <<sigInfo, certInfo>>

\* WinVerifyTrust; chain is what it says of the file.
VerifyTrust(chain) ==
  /\ at = "verify"
  /\ IF chain = "valid" THEN GoOn("query", {}) ELSE Leave(chain, {})
  /\ UnchangedCall /\ UNCHANGED <<sigInfo, certInfo>>

QueryObject ==
  /\ at = "query"
  /\ \/ GoOn("signer", {"store", "msg"})
     \/ Leave("failed", {})
  /\ UnchangedCall /\ UNCHANGED <<sigInfo, certInfo>>

\* The signer's information: its size, memory for it, itself.  The trust
\* verification holds without it, the others fail.
OptionalSigner ==
  /\ reader = "trust" /\ at = "signer"
  /\ \/ GoOn("opus", {"signer"})
     \/ \E taken \in {{}, {"signer"}} : Leave("ok", taken)
  /\ UnchangedCall /\ UNCHANGED <<sigInfo, certInfo>>

RequiredSigner ==
  /\ reader # "trust" /\ at = "signer"
  /\ \/ GoOn(IF reader = "pin" THEN "cert" ELSE "opus", {"signer"})
     \/ \E taken \in {{}, {"signer"}} : Leave("failed", taken)
  /\ UnchangedCall /\ UNCHANGED <<sigInfo, certInfo>>

\* Name and links of the program: optional, and each copy may fail.
CopyProgramInfo ==
  /\ reader = "trust" /\ at = "opus"
  /\ sigInfo' = [sigInfo EXCEPT ![owner] = "filled"]
  /\ GoOn("cert", {})
  /\ UnchangedCall /\ UNCHANGED certInfo

\* The extraction copies them twice and frees the first copy.
GetProgAndPublisherInfo ==
  /\ reader = "extract" /\ at = "opus"
  /\ \E taken \in SUBSET {"program"} : GoOn("cert", taken)
  /\ UnchangedCall /\ UNCHANGED <<sigInfo, certInfo>>

\* The names in the signer's certificate, which is freed at once; the trust
\* verification holds without it.
CopyCertNames ==
  /\ reader = "trust" /\ at = "cert"
  /\ GoOn("stamp", {})
  /\ UnchangedCall /\ UNCHANGED <<sigInfo, certInfo>>

\* The others need the certificate.
FindSignerCert ==
  /\ reader = "extract" /\ at = "cert"
  /\ GoOn("names", {"cert"}) \/ Leave("failed", {})
  /\ UnchangedCall /\ UNCHANGED <<sigInfo, certInfo>>

HashSignerCert ==
  /\ reader = "pin" /\ at = "cert"
  /\ \/ /\ \E got \in SUBSET Thumbprints :
             certInfo' = [certInfo EXCEPT ![owner] = @ \cup got]
        /\ Leave("ok", {"cert"})
     \/ Leave("failed", {}) /\ UNCHANGED certInfo
  /\ UnchangedCall /\ UNCHANGED sigInfo

\* ExtractCertificateInfo: serial number, issuer, subject.  A copy that finds
\* no memory leaves its field empty without failing.
ReadNames ==
  /\ at = "names"
  /\ \/ \E got \in {{}, {"serial"}, {"serial", "issuer"}} :
          /\ certInfo' = [certInfo EXCEPT ![owner] = @ \cup got]
          /\ Leave("failed", {})
     \/ \E short \in SUBSET ShortFields :
          /\ certInfo' = [certInfo EXCEPT ![owner] = @ \cup (CertFields \ short)]
          /\ GoOn("stamp", {})
  /\ UnchangedCall /\ UNCHANGED sigInfo

\* The countersignature: absent, unreadable, or read.
DecodeCounterSigner ==
  /\ reader = "trust" /\ at = "stamp"
  /\ \E taken \in SUBSET {"counterSigner"} : Leave("ok", taken)
  /\ UnchangedCall /\ UNCHANGED <<sigInfo, certInfo>>

GetTimeStampSignerInfo ==
  /\ reader = "extract" /\ at = "stamp"
  /\ \/ \E taken \in SUBSET {"counterSigner"} : Leave("ok", taken)
     \/ GoOn("stampCert", {"counterSigner"})
  /\ UnchangedCall /\ UNCHANGED <<sigInfo, certInfo>>

\* The signer's certificate is released before that of the time stamp takes
\* its place; a file whose time stamp has none counts as not extracted.
FindStampCert ==
  /\ at = "stampCert"
  /\ at' = "release"
  /\ \/ answer' = "ok" /\ Exchange({"cert"}, {"cert"})
     \/ answer' = "failed" /\ Exchange({"cert"}, {})
  /\ UnchangedCall /\ UNCHANGED <<sigInfo, certInfo>>

\* Mutant: the countersignature is left out.
EpilogueWithoutStamp(r) ==
  CASE r = "trust"   -> {"signer", "store", "msg", "path"}
    [] r = "extract" -> {"program", "signer", "cert", "store", "msg"}
    [] OTHER         -> {"msg", "store", "signer", "cert"}

\* What the end of the worker and of its caller, __finally, the scope guards and
\* the destructor of the vector free.
Epilogue(r) ==
  CASE r = "trust"   -> {"signer", "counterSigner", "store", "msg", "path"}
    [] r = "extract" -> {"program", "signer", "counterSigner", "cert", "store", "msg"}
    [] OTHER         -> {"msg", "store", "signer", "cert"}

\* Of the pointers named there those that are set are freed; then all are gone.
CleanUp ==
  /\ at = "release"
  /\ at' = "returned"
  /\ Count(held \cap Epilogue(reader), {})
  /\ held' = {}
  /\ UnchangedCall /\ UNCHANGED <<answer, lost, sigInfo, certInfo>>

\* What a step of the trust verification allocates for itself, or is about to set
\* a pointer to.
InHand ==
  CASE at = "signer" -> {"signer"}
    [] at = "opus"   -> {"program"}
    [] at = "cert"   -> {"cert"}
    [] at = "stamp"  -> {"counterSigner"}
    [] OTHER         -> {}

\* The handler of an access violation frees the strings and the path, nothing
\* else: the pointers of the worker are gone, what they held stays allocated.
Fault ==
  /\ reader = "trust" /\ at \in {"verify", "query", "signer", "opus", "cert", "stamp"}
  /\ \A h \in Handles : lost[h] < MaxLost
  /\ at' = "returned" /\ answer' = "failed"
  /\ sigInfo' = [sigInfo EXCEPT ![owner] = "empty"]
  /\ \E taken \in SUBSET InHand :
       /\ Count(held \cap {"path"}, taken)
       /\ lost' = [h \in Handles |-> IF h \in (held \ {"path"}) \cup taken THEN lost[h] + 1
                                                                       ELSE lost[h]]
  /\ held' = {}
  /\ UNCHANGED <<reader, owner, certInfo>>

ReadSigner == OptionalSigner \/ RequiredSigner
ReadOpus == CopyProgramInfo \/ GetProgAndPublisherInfo
FindCert == CopyCertNames \/ FindSignerCert \/ HashSignerCert
ReadStamp == DecodeCounterSigner \/ GetTimeStampSignerInfo

\* One step of the call, on a file of which the trust provider says chain.
ReadStep(chain) ==
  \/ CopyPath \/ VerifyTrust(chain) \/ QueryObject \/ ReadSigner \/ ReadOpus
  \/ FindCert \/ ReadNames \/ ReadStamp \/ FindStampCert \/ CleanUp \/ Fault

\* NCertFreeSigInfo and FreeSignatureInformation, for the owners given.
FreeInfo(sig, cert) ==
  /\ sigInfo' = [o \in Owners |-> IF o \in sig THEN "empty" ELSE sigInfo[o]]
  /\ certInfo' = [o \in Owners |-> IF o \in cert THEN {} ELSE certInfo[o]]

\* The caller has the answer and calls nothing more.
GiveBack ==
  at' = "idle" /\ answer' = "none" /\ UNCHANGED <<reader, owner, memory, sigInfo, certInfo>>
=============================================================================
