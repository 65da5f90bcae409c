----------------------- MODULE ProductDetectionProofs -----------------------
(***************************************************************************)
(* Theorems about the detection of the installed product, for all entries, *)
(* settings, installations and damages: type correctness, the comparison   *)
(* of versions as an order, and the three properties of the verdict.       *)
(*                                                                         *)
(* Four facts carry the verdict from the moment it is given to the end of  *)
(* the run: a machine nobody touched is the one its setup left; the list   *)
(* is sorted, so that its head is the newest; a forced version has both    *)
(* its method and its text until the run ends; and the input of a custom   *)
(* expression is one that the settings named, though method and detection  *)
(* are merged one by one.                                                  *)
(***************************************************************************)
EXTENDS ProductDetection, FiniteSetTheorems, SequenceTheorems, TLAPS

Untouched == whole => world = Left[build]

ForcedSettings == Forced => method = "FixedVersion" /\ detection = Fixed(cli.force)

SensibleInput == Sensible(Input(detection))

Received ==
  /\ Len(remote) <= Cardinality(Entries)
  /\ Sorted(remote)
  /\ phase = "outdated" => selected \in 1 .. Len(remote)
  /\ phase # "outdated" => selected = 1

DetectionInv ==
  /\ TypeOK /\ Untouched /\ ForcedSettings /\ SensibleInput /\ Received
  /\ OfferedIsNewer /\ CurrentIsNewest /\ ForcedVersionDecides

-----------------------------------------------------------------------------
(* What sorting and detection return.                                      *)

\* An arrangement of a set of entries is a list of entries, of its length.
LEMMA Arranged ==
  ASSUME NEW S \in SUBSET Entries, NEW s \in SetToSeqs(S)
  PROVE  s \in Seq(Entries) /\ Len(s) = Cardinality(S) /\ Len(s) <= Cardinality(Entries)
<1>1. IsFiniteSet(S) /\ Cardinality(S) <= Cardinality(Entries) /\ Cardinality(S) \in Nat
  BY EntriesAssumption, FS_Subset, FS_CardinalityType
<1>2. s \in [1 .. Cardinality(S) -> S]
  BY DEF SetToSeqs
<1> QED
  BY <1>1, <1>2

\* The first of a sorted list is the newest.
LEMMA HeadIsNewest ==
  ASSUME remote \in Seq(Entries), Sorted(remote), NEW i \in DOMAIN remote
  PROVE  remote[i].build <= remote[1].build
<1>1. 1 \in DOMAIN remote /\ remote[1] \in Entries /\ remote[i] \in Entries
  OBVIOUS
<1>2. remote[1].build \in Int /\ remote[i].build \in Int
  BY <1>1, EntriesAssumption
<1>3. CASE i = 1
  BY <1>2, <1>3
<1>4. CASE i # 1
  <2>1. 1 < i
    BY <1>4
  <2>2. ~NewerFirst(remote[i], remote[1])
    BY <1>1, <2>1 DEF Sorted
  <2> QED
    BY <1>1, <1>2, <2>2, NumberingAssumption DEF Numbered
<1> QED
  BY <1>3, <1>4

\* A comparison with a text gives one of two verdicts, and no release none.
LEMMA VerdictType ==
  ASSUME method \in Methods
  PROVE  /\ IsInstalledVersionOutdated \in Verdicts
         /\ remote = <<>> => IsInstalledVersionOutdated = "failed"
<1> DEFINE r == remote[selected]
<1>1. \A v : Newer(r, v) \in Verdicts
  BY DEF Newer, Verdicts
<1>2. \A t : OfText(r, t) \in Verdicts
  BY <1>1 DEF OfText, Verdicts
<1>3. FixedVersion(r) \in Verdicts /\ RegistryValue(r) \in Verdicts
  BY <1>2 DEF FixedVersion, RegistryValue, Verdicts
<1>4. FileVersion(r) \in Verdicts
  BY <1>1 DEF FileVersion, Verdicts
<1>5. FileSize(r) \in Verdicts /\ FileChecksum(r) \in Verdicts
  BY DEF FileSize, FileChecksum, Differs, Verdicts
<1>6. CustomExpression \in Verdicts
  BY DEF CustomExpression, Verdicts
<1> QED
  BY <1>3, <1>4, <1>5, <1>6 DEF IsInstalledVersionOutdated, Methods, Verdicts

-----------------------------------------------------------------------------
(* What the verdict says of a sound installation.                          *)

\* A text that the installed build registers is judged by the builds.
LEMMA RegisteredText ==
  ASSUME NEW e \in Entries, NEW b \in Builds, NEW t \in Registered(b)
  PROVE  /\ OfText(e, t) = "outdated" <=> e.build > b
         /\ OfText(e, t) = "current" <=> ~(e.build > b)
  BY NumberingAssumption DEF Numbered, OfText, Newer

\* Of a sound installation: the value in the registry.
LEMMA RegistryVerdict ==
  ASSUME NEW e \in Entries, build \in Builds, world = Left[build]
  PROVE  /\ RegistryValue(e) = "outdated" => e.build > build
         /\ RegistryValue(e) = "current" => ~(e.build > build)
<1> DEFINE key == RegistryKey(View(Field(detection, "view", "Default")))
<1>1. SUFFICES ASSUME key \in DOMAIN world.registry,
                      world.registry[key].type \in StringTypes,
                      RegistryValue(e) = OfText(e, world.registry[key].text)
               PROVE  /\ RegistryValue(e) = "outdated" => e.build > build
                      /\ RegistryValue(e) = "current" => ~(e.build > build)
  BY DEF RegistryValue
<1>2. world.registry[key].text \in Registered(build)
  BY <1>1 DEF Registered
<1> QED
  BY <1>1, <1>2, RegisteredText

\* Of a sound installation: the version in the resource of the file.
LEMMA ResourceVerdict ==
  ASSUME NEW e \in Entries, build \in Builds, world = Left[build]
  PROVE  /\ FileVersion(e) = "outdated" => e.build > build
         /\ FileVersion(e) = "current" => ~(e.build > build)
<1> DEFINE t == Number(world.file.resource)
<1>1. t \in Registered(build)
  BY DEF Registered
<1>2. Readable(t)
  BY <1>1, NumberingAssumption DEF Numbered
<1>3. world.file.resource # <<>>
  <2>1. ~Readable(Number(<<>>))
    BY DEF Readable, Parses, toSemVerCompatible, Number
  <2> QED
    BY <1>2, <2>1
<1>4. OfText(e, t) = Newer(e, Win32ResourceVersion)
  BY <1>2 DEF OfText, Win32ResourceVersion
<1> QED
  BY <1>1, <1>3, <1>4, RegisteredText DEF FileVersion

\* Of a sound installation: an expression that compares versions.
LEMMA ExpressionVerdict ==
  ASSUME remote[1] \in Entries, build \in Builds, world = Left[build], SensibleInput,
         Input(detection).test = "versionLt"
  PROVE  /\ CustomExpression = "outdated" => remote[1].build > build
         /\ CustomExpression = "current" => ~(build < remote[1].build)
<1> DEFINE input == Input(detection)
           older == versionLt(Value(input.source, world), remote[1].version)
<1>1. CASE Raises(input.source, world)
  BY <1>1 DEF CustomExpression, RenderInjaTemplate, Empty, Word
<1>2. CASE ~Raises(input.source, world)
  <2>1. input.negated = FALSE /\ (older <=> build < remote[1].build)
    BY <1>2 DEF SensibleInput, Sensible
  <2>2. RenderInjaTemplate(input, remote[1].version, world) = Boolean(older # input.negated)
    BY <1>2 DEF RenderInjaTemplate, Compared
  <2>3. (older # input.negated) = older
    BY <2>1, Zenon DEF versionLt
  <2>4. Word("true") # Word("false")
    BY DEF Word
  <2> QED
    BY <2>1, <2>2, <2>3, <2>4 DEF CustomExpression, Boolean
<1> QED
  BY <1>1, <1>2

\* Of a sound installation: size and checksum.
LEMMA ContentVerdict ==
  ASSUME NEW e \in Entries, build \in Builds, world = Left[build]
  PROVE  /\ FileSize(e) = "outdated" => e.build # build
         /\ FileSize(e) = "current" => e.build = build
         /\ FileChecksum(e) = "outdated" => e.build # build
         /\ FileChecksum(e) = "current" => e.build = build
  BY ContentAssumption DEF FileSize, FileChecksum, Differs

-----------------------------------------------------------------------------
(* Type correctness.                                                       *)

\* Where the updater is before a run.
LEMMA DetectionInit == Init => DetectionInv
<1> SUFFICES ASSUME Init PROVE DetectionInv
  OBVIOUS
<1>1. Cardinality(Entries) \in Nat \ {0}
  BY EntriesAssumption, FS_CardinalityType, FS_EmptySet DEF Init
<1>2. TypeOK
  BY <1>1, BoundAssumption DEF Init, TypeOK, Methods
<1>3. Untouched /\ ForcedSettings
  BY DEF Init, Untouched, ForcedSettings, Forced, NoArguments
<1>4. SensibleInput
  BY DEF Init, SensibleInput, Sensible, Input, Field, Literal
<1>5. Received
  BY <1>1 DEF Init, Received, Sorted
<1>6. OfferedIsNewer /\ CurrentIsNewest /\ ForcedVersionDecides
  BY DEF Init, OfferedIsNewer, CurrentIsNewest, ForcedVersionDecides
<1> QED
  BY <1>2, <1>3, <1>4, <1>5, <1>6 DEF DetectionInv

\* The settings of a run come from the command line, the file and the server.
LEMMA ConstructStep == DetectionInv /\ Construct => DetectionInv'
<1> SUFFICES ASSUME DetectionInv, Construct PROVE DetectionInv'
  OBVIOUS
<1> USE DEF DetectionInv, Construct, server, machine
<1>1. TypeOK'
  BY SettingsAssumption DEF TypeOK, Methods
<1>2. Untouched'
  BY DEF Untouched
<1>3. ForcedSettings'
  BY DEF ForcedSettings, Forced
<1>4. SensibleInput'
  <2>1. \A text : Sensible(Input(Fixed(text)))
    BY DEF Sensible, Input, Field, Literal, Fixed
  <2>2. \A c \in LocalConfigs : Sensible(Input(c.detection))
    BY ExpressionsAssumption
  <2>3. Sensible(Input(detection'))
    BY <2>1, <2>2
  <2> QED
    BY <2>3 DEF SensibleInput, Sensible, Input, Field, Literal
<1>5. Received'
  BY DEF Received, Sorted, NewerFirst
<1>6. OfferedIsNewer' /\ CurrentIsNewest' /\ ForcedVersionDecides'
  BY DEF OfferedIsNewer, CurrentIsNewest, ForcedVersionDecides
<1> QED
  BY <1>1, <1>2, <1>3, <1>4, <1>5, <1>6

\* The server's settings never replace a forced version, and the list it sends
\* is sorted.
LEMMA RequestStep == DetectionInv /\ RequestUpdateInfo => DetectionInv'
<1> SUFFICES ASSUME DetectionInv, RequestUpdateInfo PROVE DetectionInv'
  OBVIOUS
<1> USE DEF DetectionInv, RequestUpdateInfo, server, machine
<1>1. PICK s \in SetToSeqs(published \ disabled) : Sorted(s) /\ remote' = s
  OBVIOUS
<1>2. s \in Seq(Entries) /\ Len(s) <= Cardinality(Entries)
  BY Arranged DEF TypeOK
<1>3. PICK shared \in SharedConfigs \cup {NotGiven} : Merge(shared)
  OBVIOUS
<1>4. TypeOK'
  <2>1. method' \in Methods
    BY <1>3, SettingsAssumption DEF TypeOK, Merge, NotGiven
  <2> QED
    BY <1>1, <1>2, <2>1 DEF TypeOK
<1>5. Untouched'
  BY DEF Untouched
<1>6. ForcedSettings'
  BY <1>3 DEF ForcedSettings, Forced, Merge, ServerMayDecide
<1>7. SensibleInput'
  <2>1. \A c \in SharedConfigs : Sensible(Input(c.detection))
    BY ExpressionsAssumption
  <2>2. detection' = detection \/ (shared \in SharedConfigs /\ detection' = shared.detection)
    BY <1>3 DEF Merge, NotGiven
  <2>3. Sensible(Input(detection'))
    BY <2>1, <2>2 DEF SensibleInput
  <2> QED
    BY <2>3 DEF SensibleInput, Sensible, Input, Field, Literal
<1>8. Received'
  BY <1>1, <1>2 DEF Received, Sorted, NewerFirst
<1>9. OfferedIsNewer' /\ CurrentIsNewest' /\ ForcedVersionDecides'
  BY DEF OfferedIsNewer, CurrentIsNewest, ForcedVersionDecides
<1> QED
  BY <1>4, <1>5, <1>6, <1>7, <1>8, <1>9

\* The verdict on a sound installation, and the one on a forced version.
LEMMA DetectStep == DetectionInv /\ Detect => DetectionInv'
<1> SUFFICES ASSUME DetectionInv, Detect PROVE DetectionInv'
  OBVIOUS
<1> USE DEF DetectionInv, Detect, server, machine, settings
<1>1. selected = 1 /\ method \in Methods /\ build \in Builds
  BY DEF TypeOK, Received
<1>2. phase' \in Verdicts /\ (remote = <<>> => phase' = "failed")
  BY <1>1, VerdictType
<1>3. remote # <<>> => 1 \in DOMAIN remote /\ remote[1] \in Entries /\ Len(remote) >= 1
  BY DEF TypeOK
<1>4. TypeOK'
  BY <1>2 DEF TypeOK
<1>5. Untouched' /\ ForcedSettings'
  BY DEF Untouched, ForcedSettings, Forced
<1>6. SensibleInput'
  BY DEF SensibleInput, Sensible, Input, Field, Literal
<1>7. Received'
  BY <1>1, <1>2, <1>3 DEF Received, Sorted, NewerFirst
<1>8. remote # <<>> => remote[1].build \in Int /\ build \in Int
  BY <1>1, <1>3, EntriesAssumption
<1>9. ASSUME whole, ByVersion, remote # <<>>
      PROVE  /\ phase' = "outdated" => remote[1].build > build
             /\ phase' = "current" => ~(remote[1].build > build)
  <2>1. world = Left[build]
    BY <1>9 DEF Untouched
  <2>2. CASE method = "RegistryValue"
    BY <1>1, <1>3, <1>9, <2>1, <2>2, RegistryVerdict DEF IsInstalledVersionOutdated
  <2>3. CASE method = "FileVersion"
    BY <1>1, <1>3, <1>9, <2>1, <2>3, ResourceVerdict DEF IsInstalledVersionOutdated
  <2>4. CASE method = "CustomExpression" /\ Input(detection).test = "versionLt"
    BY <1>1, <1>3, <1>8, <1>9, <2>1, <2>4, ExpressionVerdict DEF IsInstalledVersionOutdated
  <2> QED
    BY <1>9, <2>2, <2>3, <2>4 DEF ByVersion
<1>10. ASSUME whole, ByContent, remote # <<>>
       PROVE  /\ phase' = "outdated" => remote[1].build # build
              /\ phase' = "current" => remote[1].build = build
  <2>1. world = Left[build]
    BY <1>10 DEF Untouched
  <2> QED
    BY <1>1, <1>3, <1>10, <2>1, ContentVerdict DEF IsInstalledVersionOutdated, ByContent
<1>11. OfferedIsNewer'
  BY <1>2, <1>9, <1>10 DEF OfferedIsNewer, ByVersion, ByContent, Input, Field, Literal
<1>12. CurrentIsNewest'
  <2>1. SUFFICES ASSUME phase' = "current", whole, ByVersion \/ ByContent, NEW i \in DOMAIN remote
                 PROVE  remote[i].build <= build
    BY DEF CurrentIsNewest, ByVersion, ByContent, Input, Field, Literal
  <2>2. remote # <<>>
    BY <1>2, <2>1
  <2>3. remote[1].build <= build
    BY <1>8, <1>9, <1>10, <2>1, <2>2
  <2>4. remote[i].build <= remote[1].build
    BY HeadIsNewest DEF TypeOK, Received
  <2>5. remote[i].build \in Int
    BY EntriesAssumption DEF TypeOK
  <2> QED
    BY <1>8, <2>2, <2>3, <2>4, <2>5
<1>13. ForcedVersionDecides'
  <2>1. SUFFICES ASSUME Forced, phase' \in {"outdated", "current"}, NEW b \in Builds,
                        Left[b].version = cli.force
                 PROVE  phase' = "outdated" <=> remote[1].build > b
    BY DEF ForcedVersionDecides, Forced
  <2>2. remote # <<>> /\ method = "FixedVersion" /\ detection = Fixed(cli.force)
    BY <1>2, <2>1 DEF ForcedSettings
  <2>3. Field(detection, "version", Empty) = cli.force
    BY <2>2 DEF Field, Fixed
  <2>4. phase' = OfText(remote[1], cli.force)
    BY <1>1, <2>2, <2>3 DEF IsInstalledVersionOutdated, FixedVersion
  <2>5. cli.force \in Registered(b)
    BY <2>1 DEF Registered
  <2> QED
    BY <1>3, <2>2, <2>4, <2>5, RegisteredText
<1> QED
  BY <1>4, <1>5, <1>6, <1>7, <1>11, <1>12, <1>13

-----------------------------------------------------------------------------
(* The rest of the run, the vendor and the others.                         *)

\* The verdict is about the newest release, whichever the user turns to.
LEMMA SelectStep == DetectionInv /\ SetSelectedRelease => DetectionInv'
<1> SUFFICES ASSUME DetectionInv, SetSelectedRelease PROVE DetectionInv'
  OBVIOUS
<1> USE DEF DetectionInv, SetSelectedRelease, server, machine, settings
<1>1. selected' \in 1 .. Cardinality(Entries)
  <2>1. Cardinality(Entries) \in Nat
    BY EntriesAssumption, FS_CardinalityType
  <2> QED
    BY <2>1 DEF TypeOK, Received
<1>2. TypeOK'
  BY <1>1 DEF TypeOK
<1>3. Untouched' /\ ForcedSettings'
  BY DEF Untouched, ForcedSettings, Forced
<1>4. SensibleInput'
  BY DEF SensibleInput, Sensible, Input, Field, Literal
<1>5. Received'
  BY DEF Received, Sorted, NewerFirst
<1>6. OfferedIsNewer' /\ CurrentIsNewest' /\ ForcedVersionDecides'
  BY DEF OfferedIsNewer, CurrentIsNewest, ForcedVersionDecides, ByVersion, ByContent, Forced,
         Input, Field, Literal
<1> QED
  BY <1>2, <1>3, <1>4, <1>5, <1>6

\* A run that ends leaves nothing behind but what its setup did.
LEMMA EndStep == DetectionInv /\ (Install \/ EndRun) => DetectionInv'
<1> SUFFICES ASSUME DetectionInv, Install \/ EndRun PROVE DetectionInv'
  OBVIOUS
<1> USE DEF DetectionInv
<1>1. Ends /\ UNCHANGED <<published, disabled, changes>>
  BY DEF Install, EndRun, server, machine
<1>2. build' \in Builds /\ whole' \in BOOLEAN
  <2>1. CASE Install
    <3>1. remote[selected] \in Entries
      BY <2>1 DEF Install, TypeOK, Received
    <3> QED
      BY <2>1, <3>1, EntriesAssumption DEF Install
  <2>2. CASE EndRun
    BY <2>2 DEF EndRun, machine, TypeOK
  <2> QED
    BY <2>1, <2>2
<1>3. Cardinality(Entries) \in Nat /\ 1 \in 1 .. Cardinality(Entries)
  BY EntriesAssumption, FS_CardinalityType DEF TypeOK
<1>4. TypeOK'
  BY <1>1, <1>2, <1>3 DEF Ends, TypeOK, Methods
<1>5. Untouched'
  BY DEF Install, EndRun, machine, Untouched
<1>6. ForcedSettings'
  BY <1>1 DEF Ends, ForcedSettings, Forced, NoArguments
<1>7. SensibleInput'
  BY <1>1 DEF Ends, SensibleInput, Sensible, Input, Field, Literal
<1>8. Received'
  BY <1>1, <1>3 DEF Ends, Received, Sorted
<1>9. OfferedIsNewer' /\ CurrentIsNewest' /\ ForcedVersionDecides'
  BY <1>1 DEF Ends, OfferedIsNewer, CurrentIsNewest, ForcedVersionDecides
<1> QED
  BY <1>4, <1>5, <1>6, <1>7, <1>8, <1>9

\* What the vendor and others do changes neither a list received nor a verdict;
\* the installation is sound no longer once it was touched.
LEMMA OthersStep ==
  DetectionInv /\ (Publish \/ Withdraw \/ Damage \/ UNCHANGED vars) => DetectionInv'
<1> SUFFICES ASSUME DetectionInv, Publish \/ Withdraw \/ Damage \/ UNCHANGED vars
             PROVE  DetectionInv'
  OBVIOUS
<1> USE DEF DetectionInv
<1>1. UNCHANGED <<build, settings, remote, selected, phase>>
  BY DEF Publish, Withdraw, Damage, vars, machine
<1>2. whole' = FALSE \/ UNCHANGED <<world, whole>>
  BY DEF Publish, Withdraw, Damage, vars, machine
<1>3. TypeOK'
  <2>1. changes' \in 0 .. MaxChanges
    BY BoundAssumption DEF Publish, Withdraw, Damage, Changed, vars, TypeOK
  <2>2. published' \subseteq Entries /\ disabled' \subseteq published'
    BY DEF Publish, Withdraw, Damage, vars, server, TypeOK
  <2> QED
    BY <1>1, <1>2, <2>1, <2>2 DEF settings, TypeOK
<1>4. Untouched' /\ ForcedSettings'
  BY <1>1, <1>2 DEF settings, Untouched, ForcedSettings, Forced
<1>5. SensibleInput'
  BY <1>1 DEF settings, SensibleInput, Sensible, Input, Field, Literal
<1>6. Received'
  BY <1>1 DEF Received, Sorted, NewerFirst
<1>7. OfferedIsNewer' /\ CurrentIsNewest' /\ ForcedVersionDecides'
  BY <1>1, <1>2 DEF settings, OfferedIsNewer, CurrentIsNewest, ForcedVersionDecides, ByVersion,
                    ByContent, Forced, Input, Field, Literal
<1> QED
  BY <1>3, <1>4, <1>5, <1>6, <1>7

\* All of it in every reachable state.
LEMMA DetectionAlways == Spec => []DetectionInv
<1>1. DetectionInv /\ [Next]_vars => DetectionInv'
  BY ConstructStep, RequestStep, DetectStep, SelectStep, EndStep, OthersStep DEF Next
<1> QED
  BY <1>1, DetectionInit, PTL DEF Spec

\* Type correctness: whatever is published, configured and damaged, every
\* variable keeps its type, and the selection never leaves the list.
THEOREM DetectionTypeCorrect == Spec => []TypeOK
  BY DetectionAlways, PTL DEF DetectionInv

\* What is offered on a sound installation is newer than it or, by content,
\* differs from it: for every numbering that is consistent, every merge of
\* settings, and any publication, withdrawal or damage at any moment.
THEOREM OfferedNewer == Spec => []OfferedIsNewer
  BY DetectionAlways, PTL DEF DetectionInv

\* A sound installation that counts as current is not older than any release
\* in the list.
THEOREM CurrentNewest == Spec => []CurrentIsNewest
  BY DetectionAlways, PTL DEF DetectionInv

\* The version forced on the command line decides, sound installation or not.
THEOREM ForcedDecides == Spec => []ForcedVersionDecides
  BY DetectionAlways, PTL DEF DetectionInv

-----------------------------------------------------------------------------
(* Versions are ordered, whatever their form.                              *)

Versions == [core : [1 .. 3 -> Nat], pre : Nat, build : Seq(Nat \cup {Letters})]

\* A lexicographic order: the three parts, then a pre-release before its
\* release, then the fourth part.
PartsBelow(a, b) ==
  \/ a[1] < b[1]
  \/ a[1] = b[1] /\ a[2] < b[2]
  \/ a[1] = b[1] /\ a[2] = b[2] /\ a[3] < b[3]
PreBelow(a, b) == a.pre # 0 /\ (b.pre = 0 \/ a.pre < b.pre)
Below(a, b) ==
  \/ PartsBelow(a.core, b.core)
  \/ a.core = b.core /\ PreBelow(a, b)
  \/ a.core = b.core /\ a.pre = b.pre /\ numericBuildMeta(a) < numericBuildMeta(b)

\* The library's order, part by part.
LEMMA PrecedesParts ==
  ASSUME NEW a \in Versions, NEW b \in Versions
  PROVE  Precedes(a, b) <=> PartsBelow(a.core, b.core) \/ (a.core = b.core /\ PreBelow(a, b))
<1>1. (\E i \in 1 .. 3 : a.core[i] < b.core[i] /\ \A j \in 1 .. (i - 1) : a.core[j] = b.core[j])
        <=> PartsBelow(a.core, b.core)
  <2> DEFINE P(i) == a.core[i] < b.core[i] /\ \A j \in 1 .. (i - 1) : a.core[j] = b.core[j]
  <2>1. P(1) <=> a.core[1] < b.core[1]
    OBVIOUS
  <2>2. P(2) <=> a.core[1] = b.core[1] /\ a.core[2] < b.core[2]
    <3>1. 1 .. (2 - 1) = {1}
      OBVIOUS
    <3> QED
      BY <3>1
  <2>3. P(3) <=> a.core[1] = b.core[1] /\ a.core[2] = b.core[2] /\ a.core[3] < b.core[3]
    <3>1. 1 .. (3 - 1) = {1, 2}
      OBVIOUS
    <3> QED
      BY <3>1
  <2>4. (\E i \in 1 .. 3 : P(i)) <=> P(1) \/ P(2) \/ P(3)
    <3>1. 1 .. 3 = {1, 2, 3}
      OBVIOUS
    <3> HIDE DEF P
    <3> QED
      BY <3>1
  <2> QED
    BY <2>1, <2>2, <2>3, <2>4 DEF PartsBelow
<1> QED
  BY <1>1 DEF Precedes, PreBelow

\* Versions with the same parts and the same pre-release stand side by side.
LEMMA PartsOrdered ==
  ASSUME NEW a \in Versions, NEW b \in Versions
  PROVE  /\ ~PartsBelow(a.core, a.core)
         /\ PartsBelow(a.core, b.core) => ~PartsBelow(b.core, a.core) /\ a.core # b.core
         /\ PartsBelow(a.core, b.core) \/ PartsBelow(b.core, a.core) \/ a.core = b.core
<1>1. /\ \A i \in 1 .. 3 : a.core[i] \in Nat /\ b.core[i] \in Nat
      /\ a.core \in [1 .. 3 -> Nat] /\ b.core \in [1 .. 3 -> Nat]
  BY DEF Versions
<1>2. a.core[1] = b.core[1] /\ a.core[2] = b.core[2] /\ a.core[3] = b.core[3] => a.core = b.core
  <2>1. 1 .. 3 = {1, 2, 3}
    OBVIOUS
  <2> QED
    BY <1>1, <2>1
<1> QED
  BY <1>1, <1>2 DEF PartsBelow

\* What the comparison returns, in terms of the order.
LEMMA CompareIsBelow ==
  ASSUME NEW a \in Versions, NEW b \in Versions
  PROVE  /\ CompareVersions(a, b) \in {-1, 0, 1}
         /\ CompareVersions(a, b) < 0 <=> Below(a, b)
         /\ CompareVersions(a, b) > 0 <=> Below(b, a)
<1>1. numericBuildMeta(a) \in Nat /\ numericBuildMeta(b) \in Nat
  <2>1. \A v \in Versions : numericBuildMeta(v) \in Nat
    BY DEF Versions, numericBuildMeta, Letters
  <2> QED
    BY <2>1
<1>2. a.pre \in Nat /\ b.pre \in Nat
  BY DEF Versions
<1> DEFINE p == PartsBelow(a.core, b.core)
           q == PartsBelow(b.core, a.core)
           same == a.core = b.core
<1>3. /\ Precedes(a, b) <=> p \/ (same /\ PreBelow(a, b))
      /\ Precedes(b, a) <=> q \/ (same /\ PreBelow(b, a))
  BY PrecedesParts
<1>4. (p => ~q /\ ~same) /\ (q => ~same) /\ (p \/ q \/ same)
  BY PartsOrdered
<1>5. (PreBelow(a, b) => ~PreBelow(b, a) /\ a.pre # b.pre)
      /\ (PreBelow(a, b) \/ PreBelow(b, a) \/ a.pre = b.pre)
  BY <1>2 DEF PreBelow
<1>6. PreBelow(b, a) => a.pre # b.pre
  BY <1>2 DEF PreBelow
<1>7. /\ Below(a, b) <=> p \/ (same /\ PreBelow(a, b))
                         \/ (same /\ a.pre = b.pre /\ numericBuildMeta(a) < numericBuildMeta(b))
      /\ Below(b, a) <=> q \/ (same /\ PreBelow(b, a))
                         \/ (same /\ a.pre = b.pre /\ numericBuildMeta(b) < numericBuildMeta(a))
  BY DEF Below
<1> HIDE DEF p, q, same
<1> QED
  BY <1>1, <1>3, <1>4, <1>5, <1>6, <1>7 DEF CompareVersions

\* What the fourth part hides in: the build metadata count as a number.
LEMMA MetaIsNumber == \A v \in Versions : numericBuildMeta(v) \in Nat
  BY DEF Versions, numericBuildMeta, Letters

\* Nothing is below itself, and what is below a version that is not above
\* another is below that one.
LEMMA BelowOrder ==
  ASSUME NEW a \in Versions, NEW b \in Versions, NEW c \in Versions
  PROVE  /\ ~Below(a, a)
         /\ Below(a, b) => ~Below(b, a)
         /\ Below(a, c) => Below(a, b) \/ Below(b, c)
<1>1. \A v \in {a, b, c} : /\ v.core[1] \in Nat /\ v.core[2] \in Nat /\ v.core[3] \in Nat
                           /\ v.pre \in Nat /\ numericBuildMeta(v) \in Nat
  BY MetaIsNumber DEF Versions
<1>2. \A v, w \in {a, b, c} :
        v.core = w.core <=> v.core[1] = w.core[1] /\ v.core[2] = w.core[2] /\ v.core[3] = w.core[3]
  BY <1>1, PartsOrdered DEF PartsBelow
<1>3. \A v, w \in {a, b, c} :
        Below(v, w) <=>
          \/ PartsBelow(v.core, w.core)
          \/ /\ v.core[1] = w.core[1] /\ v.core[2] = w.core[2] /\ v.core[3] = w.core[3]
             /\ \/ PreBelow(v, w)
                \/ v.pre = w.pre /\ numericBuildMeta(v) < numericBuildMeta(w)
  BY <1>2 DEF Below
<1> QED
  BY <1>1, <1>3 DEF PartsBelow, PreBelow

\* CompareVersions is a total preorder: the sign of a comparison turns with its
\* sides, and "not newer" is transitive, over all versions, pre-releases and
\* fourth parts included.
THEOREM ComparisonOrders ==
  \A a, b, c \in Versions :
    /\ CompareVersions(a, a) = 0
    /\ CompareVersions(b, a) = -CompareVersions(a, b)
    /\ CompareVersions(a, b) <= 0 /\ CompareVersions(b, c) <= 0 => CompareVersions(a, c) <= 0
<1> SUFFICES ASSUME NEW a \in Versions, NEW b \in Versions, NEW c \in Versions
             PROVE  /\ CompareVersions(a, a) = 0
                    /\ CompareVersions(b, a) = -CompareVersions(a, b)
                    /\ CompareVersions(a, b) <= 0 /\ CompareVersions(b, c) <= 0
                         => CompareVersions(a, c) <= 0
  OBVIOUS
<1>1. \A v, w \in {a, b, c} : /\ CompareVersions(v, w) \in {-1, 0, 1}
                              /\ CompareVersions(v, w) < 0 <=> Below(v, w)
                              /\ CompareVersions(v, w) > 0 <=> Below(w, v)
  BY CompareIsBelow
<1>2. ~Below(a, a) /\ (Below(a, b) => ~Below(b, a)) /\ (Below(b, a) => ~Below(a, b))
  BY BelowOrder
<1>3. Below(c, a) => Below(c, b) \/ Below(b, a)
  BY BelowOrder
<1> QED
  BY <1>1, <1>2, <1>3

\* What becomes of a text: three parts stay, the fourth and what follows it
\* become build metadata.
LEMMA Compatible ==
  ASSUME NEW t \in Texts, NEW s, s = toSemVerCompatible(t)
  PROVE  /\ Len(t.parts) <= 3 => s.parts = t.parts /\ s.pre = t.pre /\ s.build = t.build
         /\ Len(t.parts) > 3 /\ t.build # <<>> => s.parts = <<>>
         /\ Len(t.parts) > 3 /\ t.build = <<>> =>
              /\ s.parts = SubSeq(t.parts, 1, 3) /\ s.pre = 0
              /\ t.pre = 0 => s.build = SubSeq(t.parts, 4, Len(t.parts)) \o <<>>
              /\ t.pre # 0 => s.build = SubSeq(t.parts, 4, Len(t.parts)) \o <<Letters>>
         /\ Len(t.parts) <= 3 \/ t.build = <<>> =>
              s.blank = t.blank /\ (t.blank = FALSE => s.v = FALSE)
<1> DEFINE u == IF t.blank THEN t ELSE [t EXCEPT !.v = FALSE]
           tail == SubSeq(u.parts, 4, Len(u.parts)) \o (IF u.pre = 0 THEN <<>> ELSE <<Letters>>)
           moved == [u EXCEPT !.parts = SubSeq(u.parts, 1, 3), !.pre = 0, !.build = tail]
           word == Word("two plus signs")
<1>1. /\ u.parts = t.parts /\ u.pre = t.pre /\ u.build = t.build /\ u.blank = t.blank
      /\ t.blank = FALSE => u.v = FALSE
      /\ DOMAIN u = {"blank", "v", "parts", "pre", "build", "word"}
  BY DEF Texts
<1>2. s = IF Len(u.parts) <= 3 THEN u ELSE IF u.build # <<>> THEN word ELSE moved
  BY DEF toSemVerCompatible
<1> HIDE DEF u
<1>3. /\ moved.parts = SubSeq(u.parts, 1, 3) /\ moved.pre = 0
      /\ u.pre = 0 => moved.build = SubSeq(u.parts, 4, Len(u.parts)) \o <<>>
      /\ u.pre # 0 => moved.build = SubSeq(u.parts, 4, Len(u.parts)) \o <<Letters>>
      /\ moved.blank = u.blank /\ moved.v = u.v
  BY <1>1
<1>4. word.parts = <<>>
  BY DEF Word
<1>5. Len(t.parts) \in Nat
  BY DEF Texts
<1> HIDE DEF moved, word
<1>6. Len(t.parts) <= 3 => s = u
  BY <1>1, <1>2
<1>7. Len(t.parts) > 3 /\ t.build # <<>> => s.parts = <<>>
  <2>1. Len(t.parts) > 3 /\ t.build # <<>> => s = word
    BY <1>1, <1>2, <1>5
  <2> QED
    BY <1>4, <2>1
<1>8. Len(t.parts) > 3 /\ t.build = <<>> => s = moved
  BY <1>1, <1>2, <1>5
<1>9. Len(t.parts) <= 3 \/ Len(t.parts) > 3
  BY <1>5
<1>10. Len(t.parts) <= 3 => s.parts = t.parts /\ s.pre = t.pre /\ s.build = t.build
  BY <1>1, <1>6
<1>11. Len(t.parts) > 3 /\ t.build = <<>> =>
         /\ s.parts = SubSeq(t.parts, 1, 3) /\ s.pre = 0
         /\ t.pre = 0 => s.build = SubSeq(t.parts, 4, Len(t.parts)) \o <<>>
         /\ t.pre # 0 => s.build = SubSeq(t.parts, 4, Len(t.parts)) \o <<Letters>>
  BY <1>1, <1>3, <1>8
<1>12. Len(t.parts) <= 3 \/ t.build = <<>> =>
         s.blank = t.blank /\ (t.blank = FALSE => s.v = FALSE)
  BY <1>1, <1>3, <1>6, <1>8, <1>9
<1> QED
  BY <1>7, <1>10, <1>11, <1>12

\* What is read from a text is a version.
LEMMA ReadIsVersion == ASSUME NEW t \in Texts, Readable(t) PROVE Read(t) \in Versions
<1> DEFINE s == toSemVerCompatible(t)
<1>1. /\ t.parts \in Seq(Nat) /\ t.pre \in Nat /\ t.build \in Seq(Nat \cup {Letters})
      /\ Len(t.parts) \in Nat
  BY DEF Texts
<1>2. Len(s.parts) = 3
  BY DEF Readable, Parses
<1>3. /\ Len(t.parts) <= 3 => s.parts = t.parts /\ s.pre = t.pre /\ s.build = t.build
      /\ Len(t.parts) > 3 /\ t.build # <<>> => s.parts = <<>>
      /\ Len(t.parts) > 3 /\ t.build = <<>> =>
           /\ s.parts = SubSeq(t.parts, 1, 3) /\ s.pre = 0
           /\ t.pre = 0 => s.build = SubSeq(t.parts, 4, Len(t.parts)) \o <<>>
           /\ t.pre # 0 => s.build = SubSeq(t.parts, 4, Len(t.parts)) \o <<Letters>>
  BY Compatible
<1>4. Read(t) = [core |-> s.parts, pre |-> s.pre, build |-> s.build]
  BY DEF Read, Version
<1> HIDE DEF s
<1>5. s.parts \in Seq(Nat) /\ s.pre \in Nat /\ s.build \in Seq(Nat \cup {Letters})
  <2>1. CASE Len(t.parts) <= 3
    BY <1>1, <1>3, <2>1
  <2>2. CASE Len(t.parts) > 3
    <3>1. t.build = <<>>
      BY <1>2, <1>3, <2>2
    <3>2. \A i \in 1 .. Len(t.parts) : t.parts[i] \in Nat
      BY <1>1, ElementOfSeq
    <3>3. SubSeq(t.parts, 1, 3) \in Seq(Nat)
      BY <1>1, <2>2, <3>2, SubSeqProperties
    <3>4. SubSeq(t.parts, 4, Len(t.parts)) \in Seq(Nat \cup {Letters})
      BY <1>1, <2>2, <3>2, SubSeqProperties
    <3>5. <<>> \in Seq(Nat \cup {Letters}) /\ <<Letters>> \in Seq(Nat \cup {Letters})
      BY EmptySeq
    <3>6. s.build \in Seq(Nat \cup {Letters})
      BY <1>3, <2>2, <3>1, <3>4, <3>5, ConcatProperties
    <3>7. s.parts = SubSeq(t.parts, 1, 3)
      BY <1>3, <2>2, <3>1
    <3>8. s.pre = 0
      BY <1>3, <2>2, <3>1
    <3>9. s.parts \in Seq(Nat)
      BY <3>3, <3>7
    <3>10. s.pre \in Nat
      BY <3>8
    <3> QED
      BY <3>6, <3>9, <3>10
  <2> QED
    BY <1>1, <2>1, <2>2
<1>6. s.parts \in [1 .. 3 -> Nat]
  BY <1>2, <1>5, LenProperties
<1> QED
  BY <1>4, <1>5, <1>6 DEF Versions

\* The version of a release is one, whatever its texts are.
LEMMA EntryVersions ==
  ASSUME NEW e \in Entries
  PROVE  GetSemVersion(e) \in Versions /\ GetDetectionSemVersion(e) \in Versions
<1>1. e.version \in Texts /\ e.detectionVersion \in Texts
  BY EntriesAssumption
<1>2. \A t \in Texts : Trimmed(t) \in Texts
  BY DEF Trimmed, Texts
<1>3. Zero \in Versions
  <2>1. <<0, 0, 0>> \in [1 .. 3 -> Nat] /\ <<>> \in Seq(Nat \cup {Letters})
    OBVIOUS
  <2> QED
    BY <2>1 DEF Zero, Versions
<1>4. GetSemVersion(e) \in Versions
  BY <1>1, <1>2, <1>3, ReadIsVersion DEF GetSemVersion
<1> QED
  BY <1>1, <1>2, <1>4, ReadIsVersion DEF GetDetectionSemVersion

\* The comparison handed to std::ranges::sort is a strict weak order on any
\* list of releases, as the algorithm demands: with texts that are no versions,
\* several forms of one version and pre-releases among them.
THEOREM SortIsDefined ==
  \A e, f, g \in Entries :
    /\ ~NewerFirst(e, e)
    /\ NewerFirst(e, f) => ~NewerFirst(f, e)
    /\ NewerFirst(e, f) /\ NewerFirst(f, g) => NewerFirst(e, g)
    /\ NewerFirst(e, g) => NewerFirst(e, f) \/ NewerFirst(f, g)
<1> SUFFICES ASSUME NEW e \in Entries, NEW f \in Entries, NEW g \in Entries
             PROVE  /\ ~NewerFirst(e, e)
                    /\ NewerFirst(e, f) => ~NewerFirst(f, e)
                    /\ NewerFirst(e, f) /\ NewerFirst(f, g) => NewerFirst(e, g)
                    /\ NewerFirst(e, g) => NewerFirst(e, f) \/ NewerFirst(f, g)
  OBVIOUS
<1> DEFINE a == GetSemVersion(e)
           b == GetSemVersion(f)
           c == GetSemVersion(g)
<1>1. a \in Versions /\ b \in Versions /\ c \in Versions
  BY EntryVersions
<1>2. /\ NewerFirst(e, e) <=> CompareVersions(a, a) > 0
      /\ NewerFirst(e, f) <=> CompareVersions(a, b) > 0
      /\ NewerFirst(f, e) <=> CompareVersions(b, a) > 0
      /\ NewerFirst(f, g) <=> CompareVersions(b, c) > 0
      /\ NewerFirst(e, g) <=> CompareVersions(a, c) > 0
  BY DEF NewerFirst
<1> HIDE DEF a, b, c
<1>3. /\ CompareVersions(a, a) > 0 <=> Below(a, a)
      /\ CompareVersions(a, b) > 0 <=> Below(b, a)
      /\ CompareVersions(b, a) > 0 <=> Below(a, b)
      /\ CompareVersions(b, c) > 0 <=> Below(c, b)
      /\ CompareVersions(a, c) > 0 <=> Below(c, a)
  BY <1>1, CompareIsBelow
<1>4. ~Below(a, a) /\ (Below(b, a) => ~Below(a, b)) /\ (Below(c, a) => Below(c, b) \/ Below(b, a))
  BY <1>1, BelowOrder
<1>5. Below(c, b) => Below(c, a) \/ Below(a, b)
  BY <1>1, BelowOrder
<1> QED
  BY <1>2, <1>3, <1>4, <1>5

-----------------------------------------------------------------------------
(* A vendor who numbers builds with four parts needs no care for the forms *)
(* in which a version is published and registered.                         *)

Quads == [1 .. 4 -> Nat]
QuadBelow(p, q) ==
  PartsBelow(p, q) \/ (p[1] = q[1] /\ p[2] = q[2] /\ p[3] = q[3] /\ p[4] < q[4])

\* The texts of one version: with a "v" or not, and its fourth part left out
\* if that is zero.
Forms(q) ==
  {t \in Texts : /\ t.pre = 0 /\ t.build = <<>>
                 /\ t.parts = q \/ (q[4] = 0 /\ t.parts = <<q[1], q[2], q[3]>>)}

\* Four-part numbers that rise with the builds.
Rising(quad) ==
  /\ quad \in [Builds -> Quads]
  /\ \A b, c \in Builds : QuadBelow(quad[b], quad[c]) <=> b < c

\* Whatever its form, the same four numbers are read.
LEMMA FormIsRead ==
  ASSUME NEW q \in Quads, NEW t \in Forms(q), t.blank = FALSE
  PROVE  /\ Readable(t) /\ Read(t) \in Versions
         /\ Read(t).core = <<q[1], q[2], q[3]>> /\ Read(t).pre = 0
         /\ numericBuildMeta(Read(t)) = q[4]
<1> DEFINE s == toSemVerCompatible(t)
<1>1. /\ t \in Texts /\ t.pre = 0 /\ t.build = <<>>
      /\ t.parts = q \/ (q[4] = 0 /\ t.parts = <<q[1], q[2], q[3]>>)
      /\ t.parts \in Seq(Nat)
  BY DEF Forms, Texts
<1>2. q[1] \in Nat /\ q[2] \in Nat /\ q[3] \in Nat /\ q[4] \in Nat /\ DOMAIN q = 1 .. 4
  BY DEF Quads
<1>3. /\ Len(t.parts) <= 3 => s.parts = t.parts /\ s.pre = t.pre /\ s.build = t.build
      /\ Len(t.parts) > 3 /\ t.build = <<>> =>
           /\ s.parts = SubSeq(t.parts, 1, 3) /\ s.pre = 0
           /\ t.pre = 0 => s.build = SubSeq(t.parts, 4, Len(t.parts)) \o <<>>
      /\ Len(t.parts) <= 3 \/ t.build = <<>> =>
           s.blank = t.blank /\ (t.blank = FALSE => s.v = FALSE)
  BY <1>1, Compatible
<1>4. Read(t) = [core |-> s.parts, pre |-> s.pre, build |-> s.build]
  BY DEF Read, Version
<1>5. Readable(t) <=> ~s.blank /\ ~s.v /\ Len(s.parts) = 3
  BY DEF Readable, Parses
<1> HIDE DEF s
<1>6. s.blank = FALSE /\ s.v = FALSE
  BY <1>1, <1>3
<1>7. CASE t.parts = q
  <2>1. Len(t.parts) = 4
    BY <1>1, <1>2, <1>7, LenProperties
  <2>2. SubSeq(t.parts, 1, 3) = <<q[1], q[2], q[3]>> /\ SubSeq(t.parts, 4, 4) = <<q[4]>>
    <3>1. \A i \in 1 .. 4 : t.parts[i] \in Nat /\ t.parts[i] = q[i]
      BY <1>2, <1>7 DEF Quads
    <3>2. /\ SubSeq(t.parts, 1, 3) \in Seq(Nat) /\ Len(SubSeq(t.parts, 1, 3)) = 3
          /\ \A i \in 1 .. 3 : SubSeq(t.parts, 1, 3)[i] = t.parts[i]
      BY <3>1, SubSeqProperties, Z3
    <3>3. /\ SubSeq(t.parts, 4, 4) \in Seq(Nat) /\ Len(SubSeq(t.parts, 4, 4)) = 1
          /\ SubSeq(t.parts, 4, 4)[1] = t.parts[4]
      BY <3>1, SubSeqProperties, Z3
    <3> DEFINE three == SubSeq(t.parts, 1, 3)
               last == SubSeq(t.parts, 4, 4)
    <3> HIDE DEF three, last
    <3>4. /\ three \in Seq(Nat) /\ Len(three) = 3
          /\ three[1] = q[1] /\ three[2] = q[2] /\ three[3] = q[3]
      BY <3>1, <3>2 DEF three
    <3>5. last \in Seq(Nat) /\ Len(last) = 1 /\ last[1] = q[4]
      BY <3>1, <3>3 DEF last
    <3>6. three = <<q[1], q[2], q[3]>>
      BY <1>2, <3>4
    <3>7. last = <<q[4]>>
      BY <1>2, <3>5
    <3> QED
      BY <3>6, <3>7 DEF three, last
  <2>3. <<q[4]>> \o <<>> = <<q[4]>>
    BY <1>2
  <2>4. s.parts = <<q[1], q[2], q[3]>> /\ s.pre = 0 /\ s.build = <<q[4]>>
    <3>1. s.parts = SubSeq(t.parts, 1, 3) /\ s.pre = 0
      BY <1>1, <1>3, <2>1
    <3>2. s.build = SubSeq(t.parts, 4, Len(t.parts)) \o <<>>
      BY <1>1, <1>3, <2>1
    <3> HIDE DEF s
    <3>3. s.build = <<q[4]>>
      BY <2>1, <2>2, <2>3, <3>2, Zenon
    <3>4. s.parts = <<q[1], q[2], q[3]>>
      BY <2>2, <3>1, Zenon
    <3> QED
      BY <3>1, <3>3, <3>4
  <2>5. Len(s.parts) = 3 /\ Len(s.build) = 1 /\ s.build[1] = q[4] /\ q[4] # Letters
    BY <1>2, <2>4 DEF Letters
  <2>6. Readable(t)
    BY <1>5, <1>6, <2>5
  <2>7. numericBuildMeta(Read(t)) = q[4]
    BY <1>4, <2>5 DEF numericBuildMeta
  <2>8. Read(t) \in Versions
    BY <1>1, <2>6, ReadIsVersion
  <2>9. Read(t).core = <<q[1], q[2], q[3]>> /\ Read(t).pre = 0
    BY <1>4, <2>4
  <2> QED
    BY <2>6, <2>7, <2>8, <2>9
<1>8. CASE q[4] = 0 /\ t.parts = <<q[1], q[2], q[3]>>
  <2>1. Len(t.parts) = 3 /\ Len(<<>>) = 0
    BY <1>8
  <2>2. s.parts = <<q[1], q[2], q[3]>> /\ s.pre = 0 /\ s.build = <<>>
    BY <1>1, <1>3, <1>8, <2>1
  <2>3. Readable(t)
    BY <1>5, <1>6, <1>8, <2>1, <2>2
  <2>4. numericBuildMeta(Read(t)) = q[4]
    BY <1>4, <1>8, <2>1, <2>2 DEF numericBuildMeta
  <2>5. Read(t) \in Versions
    BY <1>1, <2>3, ReadIsVersion
  <2>6. Read(t).core = <<q[1], q[2], q[3]>> /\ Read(t).pre = 0
    BY <1>4, <2>2
  <2> QED
    BY <2>3, <2>4, <2>5, <2>6
<1> QED
  BY <1>1, <1>7, <1>8

\* Two texts that are forms of versions compare as their four numbers do, and
\* forms of one version are equal: "v1.2.3" is "1.2.3.0".
THEOREM FormsCompare ==
  \A p, q \in Quads : \A s \in Forms(p), t \in Forms(q) :
    s.blank = FALSE /\ t.blank = FALSE =>
      /\ CompareVersions(Read(s), Read(t)) > 0 <=> QuadBelow(q, p)
      /\ CompareVersions(Read(s), Read(t)) = 0 <=> p = q
<1> SUFFICES ASSUME NEW p \in Quads, NEW q \in Quads, NEW s \in Forms(p), NEW t \in Forms(q),
                    s.blank = FALSE, t.blank = FALSE
             PROVE  /\ CompareVersions(Read(s), Read(t)) > 0 <=> QuadBelow(q, p)
                    /\ CompareVersions(Read(s), Read(t)) = 0 <=> p = q
  OBVIOUS
<1> DEFINE a == Read(s)
           b == Read(t)
<1>1. /\ a \in Versions /\ a.pre = 0 /\ numericBuildMeta(a) = p[4]
      /\ a.core = <<p[1], p[2], p[3]>>
  BY FormIsRead
<1>2. /\ b \in Versions /\ b.pre = 0 /\ numericBuildMeta(b) = q[4]
      /\ b.core = <<q[1], q[2], q[3]>>
  BY FormIsRead
<1> HIDE DEF a, b
<1>3. /\ p[1] \in Nat /\ p[2] \in Nat /\ p[3] \in Nat /\ p[4] \in Nat
      /\ q[1] \in Nat /\ q[2] \in Nat /\ q[3] \in Nat /\ q[4] \in Nat
  BY DEF Quads
<1>4. /\ a.core[1] = p[1] /\ a.core[2] = p[2] /\ a.core[3] = p[3]
      /\ b.core[1] = q[1] /\ b.core[2] = q[2] /\ b.core[3] = q[3]
      /\ a.core = b.core <=> p[1] = q[1] /\ p[2] = q[2] /\ p[3] = q[3]
  BY <1>1, <1>2
<1>5. ~PreBelow(a, b) /\ ~PreBelow(b, a)
  BY <1>1, <1>2 DEF PreBelow
<1>6. (Below(b, a) <=> QuadBelow(q, p)) /\ (Below(a, b) <=> QuadBelow(p, q))
  BY <1>1, <1>2, <1>3, <1>4, <1>5 DEF Below, QuadBelow, PartsBelow
<1>7. /\ CompareVersions(a, b) \in {-1, 0, 1}
      /\ CompareVersions(a, b) > 0 <=> Below(b, a)
      /\ CompareVersions(a, b) < 0 <=> Below(a, b)
  BY <1>1, <1>2, CompareIsBelow
<1>8. p = q <=> p[1] = q[1] /\ p[2] = q[2] /\ p[3] = q[3] /\ p[4] = q[4]
  <2>1. 1 .. 4 = {1, 2, 3, 4}
    OBVIOUS
  <2> QED
    BY <2>1 DEF Quads
<1>9. ~QuadBelow(p, q) /\ ~QuadBelow(q, p) <=>
        p[1] = q[1] /\ p[2] = q[2] /\ p[3] = q[3] /\ p[4] = q[4]
  BY <1>3 DEF QuadBelow, PartsBelow
<1>10. CompareVersions(a, b) > 0 <=> QuadBelow(q, p)
  BY <1>6, <1>7
<1>11. CompareVersions(a, b) = 0 <=> p = q
  BY <1>6, <1>7, <1>8, <1>9
<1> QED
  BY <1>10, <1>11 DEF a, b

\* What NumberingAssumption asks is met by every vendor whose four-part
\* numbers rise with the builds, whichever form of the number each of a
\* release's texts and of the registered ones takes; a detection version may
\* be left out.
THEOREM PlainNumbering ==
  ASSUME NEW quad, Rising(quad),
         \A e \in Entries : /\ e.version \in Forms(quad[e.build])
                            /\ \/ e.detectionVersion \in Forms(quad[e.build])
                               \/ e.detectionVersion.parts = <<>>,
         \A b \in Builds : \A t \in Registered(b) : t \in Forms(quad[b]) /\ t.blank = FALSE
  PROVE  Numbered
<1>1. ASSUME NEW e \in Entries
      PROVE  /\ e.build \in Builds /\ e.build \in Int /\ quad[e.build] \in Quads
             /\ Trimmed(e.version) \in Forms(quad[e.build])
             /\ Trimmed(e.version).blank = FALSE
             /\ GetSemVersion(e) = Read(Trimmed(e.version))
  <2>1. e.build \in Builds /\ e.build \in Int /\ quad[e.build] \in Quads
    BY EntriesAssumption DEF Rising
  <2>2. \A q \in Quads : \A t \in Forms(q) : Trimmed(t) \in Forms(q) /\ Trimmed(t).blank = FALSE
    BY DEF Trimmed, Forms, Texts
  <2>3. Trimmed(e.version) \in Forms(quad[e.build]) /\ Trimmed(e.version).blank = FALSE
    BY <2>1, <2>2
  <2>4. Readable(Trimmed(e.version))
    BY <2>1, <2>3, FormIsRead
  <2> QED
    BY <2>1, <2>3, <2>4 DEF GetSemVersion
<1>2. ASSUME NEW e \in Entries
      PROVE  \E t \in Forms(quad[e.build]) : t.blank = FALSE /\ GetDetectionSemVersion(e) = Read(t)
  <2>1. CASE e.detectionVersion.parts = <<>>
    <3> DEFINE t == Trimmed(e.detectionVersion)
    <3>1. t \in Texts /\ t.parts = <<>>
      BY <2>1, EntriesAssumption DEF Trimmed, Texts
    <3>2. Len(t.parts) = 0
      BY <3>1
    <3> DEFINE s == toSemVerCompatible(t)
    <3>3. Len(t.parts) <= 3 => s.parts = t.parts
      <4> HIDE DEF t
      <4> QED
        BY <3>1, Compatible
    <3>4. s.parts = <<>>
      BY <3>1, <3>2, <3>3
    <3>5. ~Readable(t)
      <4> HIDE DEF t
      <4>1. Len(s.parts) # 3
        BY <3>4
      <4> QED
        BY <4>1 DEF Readable, Parses
    <3> QED
      BY <1>1, <3>5 DEF GetDetectionSemVersion
  <2>2. CASE e.detectionVersion \in Forms(quad[e.build])
    <3>1. /\ Trimmed(e.detectionVersion) \in Forms(quad[e.build])
          /\ Trimmed(e.detectionVersion).blank = FALSE
      BY <2>2 DEF Trimmed, Forms, Texts
    <3>2. Readable(Trimmed(e.detectionVersion))
      BY <1>1, <3>1, FormIsRead
    <3> QED
      BY <3>1, <3>2 DEF GetDetectionSemVersion
  <2> QED
    BY <2>1, <2>2
<1>3. ASSUME NEW e \in Entries, NEW f \in Entries
      PROVE  NewerFirst(e, f) <=> e.build > f.build
  <2> DEFINE s == Trimmed(e.version)
             t == Trimmed(f.version)
  <2>1. /\ quad[e.build] \in Quads /\ s \in Forms(quad[e.build]) /\ s.blank = FALSE
        /\ quad[f.build] \in Quads /\ t \in Forms(quad[f.build]) /\ t.blank = FALSE
    BY <1>1
  <2>2. NewerFirst(e, f) <=> CompareVersions(Read(s), Read(t)) > 0
    BY <1>1 DEF NewerFirst
  <2> HIDE DEF s, t
  <2>3. NewerFirst(e, f) <=> QuadBelow(quad[f.build], quad[e.build])
    BY <2>1, <2>2, FormsCompare
  <2>4. QuadBelow(quad[f.build], quad[e.build]) <=> f.build < e.build
    BY <1>1 DEF Rising
  <2> QED
    BY <1>1, <2>3, <2>4
<1>4. ASSUME NEW e \in Entries, NEW b \in Builds, NEW t \in Registered(b)
      PROVE  /\ Readable(t)
             /\ CompareVersions(GetDetectionSemVersion(e), Read(t)) > 0 <=> e.build > b
  <2>1. quad[b] \in Quads /\ t \in Forms(quad[b]) /\ t.blank = FALSE /\ b \in Int
    BY EntriesAssumption DEF Rising
  <2>2. Readable(t)
    BY <2>1, FormIsRead
  <2>3. PICK d \in Forms(quad[e.build]) : d.blank = FALSE /\ GetDetectionSemVersion(e) = Read(d)
    BY <1>2
  <2>4. CompareVersions(Read(d), Read(t)) > 0 <=> QuadBelow(quad[b], quad[e.build])
    BY <1>1, <2>1, <2>3, FormsCompare
  <2>5. QuadBelow(quad[b], quad[e.build]) <=> b < e.build
    BY <1>1 DEF Rising
  <2> QED
    BY <1>1, <2>1, <2>2, <2>3, <2>4, <2>5
<1> QED
  BY <1>3, <1>4 DEF Numbered

\* And an expression that asks whether the installed version is less than the
\* newest meets ExpressionsAssumption, if on a sound installation it finds the
\* number of the build in any of its forms, or raises.
THEOREM PlainExpressions ==
  ASSUME NEW quad, Rising(quad),
         \A e \in Entries : e.version \in Forms(quad[e.build]) /\ e.version.blank = FALSE,
         NEW input, input.negated = FALSE,
         \A b \in Builds : ~Raises(input.source, Left[b]) =>
           LET found == Value(input.source, Left[b])
           IN  found \in Forms(quad[b]) /\ found.blank = FALSE
  PROVE  Sensible(input)
<1>1. ASSUME NEW e \in Entries, NEW b \in Builds, ~Raises(input.source, Left[b])
      PROVE  versionLt(Value(input.source, Left[b]), e.version) <=> b < e.build
  <2> DEFINE s == Value(input.source, Left[b])
             t == e.version
  <2>1. e.build \in Builds /\ quad[e.build] \in Quads /\ quad[b] \in Quads
    BY EntriesAssumption DEF Rising
  <2>2. /\ s \in Forms(quad[b]) /\ s.blank = FALSE
        /\ t \in Forms(quad[e.build]) /\ t.blank = FALSE
    BY <1>1
  <2> HIDE DEF s, t
  <2>3. Readable(s) /\ Read(s) \in Versions /\ Readable(t) /\ Read(t) \in Versions
    BY <2>1, <2>2, FormIsRead
  <2>4. CompareVersions(Read(s), Read(t)) < 0 <=> CompareVersions(Read(t), Read(s)) > 0
    BY <2>3, CompareIsBelow
  <2>5. CompareVersions(Read(t), Read(s)) > 0 <=> QuadBelow(quad[b], quad[e.build])
    BY <2>1, <2>2, FormsCompare
  <2>6. QuadBelow(quad[b], quad[e.build]) <=> b < e.build
    BY <2>1 DEF Rising
  <2>7. versionLt(s, t) <=> b < e.build
    BY <2>3, <2>4, <2>5, <2>6 DEF versionLt
  <2> QED
    BY <2>7 DEF s, t
<1> QED
  BY <1>1 DEF Sensible
=============================================================================
