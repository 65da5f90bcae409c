-------------------------- MODULE ProductDetection --------------------------
(***************************************************************************)
(* From the settings to the verdict on the installed product, over many    *)
(* runs of the updater: configuration file and command line choose how the *)
(* product is detected, the server may choose otherwise, the releases it   *)
(* lists are sorted, and IsInstalledVersionOutdated compares the newest    *)
(* with what it finds.  Between the steps the vendor publishes and         *)
(* withdraws releases, setups change the machine, and so do others.        *)
(*                                                                         *)
(* Left out: how the manifest is fetched and how a release is installed    *)
(* (ManifestFetch, UpdateWizard); silence, postponing and the other ways   *)
(* a run ends before or after detection (UpdaterRuns).                     *)
(***************************************************************************)
EXTENDS TemplateCallbacks, SequencesExt

CONSTANTS
  Entries,        \* what the vendor may publish: sets of fields of UpdateRelease
  Left,           \* build to the world its setup leaves behind
  Damaged(_),     \* the worlds a world may be damaged to
  LocalConfigs,   \* [authority, method, detection] of configuration files
  SharedConfigs,  \* [method, detection] of manifests
  CommandLines,   \* [force, local]: texts of the two arguments, Empty if not given
  MaxChanges      \* bound: steps of the vendor and of others

ASSUME BoundAssumption == MaxChanges \in Nat

Methods == {"FixedVersion", "RegistryValue", "FileVersion", "FileSize", "FileChecksum",
            "CustomExpression", "Invalid"}
Builds == DOMAIN Left

\* The setting is not given; a detection that is not given is null, and read
\* as an object without members.
NotGiven == [method |-> "none", detection |-> <<>>]
Field(detection, f, default) ==
  IF f \in DOMAIN detection THEN detection[f] ELSE default
Literal(text) == [test |-> "none", negated |-> FALSE, source |-> [fn |-> "text", text |-> text]]

NoArguments == [force |-> Empty, local |-> Empty]

VARIABLES
  published, disabled,   \* entries on the server
  build, world,          \* the build installed, and what is found of it
  whole,                 \* history: nobody has damaged what its setup left
  changes,
  cli, authority,
  method, detection,     \* merged.detectionMethod, merged.detection
  remote,                \* the releases received
  selected,
  phase

settings == <<cli, authority, method, detection>>
machine == <<build, world, whole>>
server == <<published, disabled>>
vars == <<server, machine, changes, settings, remote, selected, phase>>

Verdicts == {"outdated", "current", "failed"}

TypeOK ==
  /\ published \subseteq Entries /\ disabled \subseteq published
  /\ build \in Builds /\ whole \in BOOLEAN
  /\ changes \in 0 .. MaxChanges
  /\ cli \in CommandLines \cup {NoArguments}
  /\ authority \in {"Local", "Remote"}
  /\ method \in Methods
  /\ remote \in Seq(Entries)
  /\ selected \in 1 .. Cardinality(Entries)
  /\ phase \in Verdicts \cup {"off", "constructed", "informed"}

Init ==
  /\ published \in (SUBSET Entries) \ {{}}
  /\ disabled = {}
  /\ build \in Builds /\ world = Left[build] /\ whole = TRUE
  /\ changes = 0
  /\ cli = NoArguments
  /\ authority = "Remote"
  /\ method = "Invalid" /\ detection = <<>>
  /\ remote = <<>> /\ selected = 1
  /\ phase = "off"

-----------------------------------------------------------------------------
\* The constructor.  The file comes first, then the argument that forces a
\* version; the other argument counts only if no file names a method.
Forced == cli.force # Empty

Fixed(text) == [version |-> text]

Construct ==
  /\ phase = "off"
  /\ cli' \in CommandLines
  /\ \E c \in LocalConfigs :
       LET byLocal == c.method = "Invalid" /\ cli'.local # Empty
       IN  /\ authority' = c.authority
           /\ method' = IF Forced' \/ byLocal THEN "FixedVersion" ELSE c.method
           /\ detection' = IF Forced' THEN Fixed(cli'.force)
                           ELSE IF byLocal THEN Fixed(cli'.local) ELSE c.detection
  /\ phase' = "constructed"
  /\ UNCHANGED <<server, machine, changes, remote, selected>>

\* Mutant: the server may replace what the command line forces.
ServerDecides == authority # "Local"

ServerMayDecide == authority # "Local" /\ ~Forced

\* Method and detection are replaced one by one.
Merge(shared) ==
  /\ method' = IF ServerMayDecide /\ shared.method # "none" THEN shared.method ELSE method
  /\ detection' = IF ServerMayDecide /\ shared.detection # <<>> THEN shared.detection ELSE detection

NewerFirst(a, b) == CompareVersions(GetSemVersion(a), GetSemVersion(b)) > 0

\* Mutant: the releases stay as the server lists them.
AsListed(s) == TRUE

\* What std::ranges::sort promises: the order of equal releases stays open.
Sorted(s) == \A i, j \in DOMAIN s : i < j => ~NewerFirst(s[j], s[i])

RequestUpdateInfo ==
  /\ phase = "constructed"
  /\ \E s \in SetToSeqs(published \ disabled) : Sorted(s) /\ remote' = s
  /\ \E shared \in SharedConfigs \cup {NotGiven} : Merge(shared)
  /\ phase' = "informed"
  /\ UNCHANGED <<server, machine, changes, cli, authority, selected>>

-----------------------------------------------------------------------------
\* Mutant: an equal version is offered as well.
NotOlder(release, version) ==
  IF CompareVersions(GetDetectionSemVersion(release), version) >= 0 THEN "outdated" ELSE "current"

\* IsInstalledVersionOutdated, one operator per method.
Newer(release, version) ==
  IF CompareVersions(GetDetectionSemVersion(release), version) > 0 THEN "outdated" ELSE "current"

\* A text that is no version counts as outdated.
OfText(release, text) == IF Readable(text) THEN Newer(release, Read(text)) ELSE "outdated"

FixedVersion(release) == OfText(release, Field(detection, "version", Empty))

RegistryKey(view) == <<view, Field(detection, "hive", "HKCU"), Field(detection, "key", "")>>

RegistryValue(release) ==
  LET key == RegistryKey(View(Field(detection, "view", "Default")))
  IN  IF key[2] \notin Hives \/ key \notin DOMAIN world.registry THEN "failed"
      ELSE IF world.registry[key].type \notin StringTypes THEN "failed"
      ELSE OfText(release, world.registry[key].text)

\* The template of the settings, and the file a path leads to.
Input(d) == Field(d, "input", Literal(Empty))
FileFound == exists(RenderInjaTemplate(Input(detection), Empty, world), world)

\* The file and the product version in the resource of a file, of four parts.
Win32ResourceVersion == Read(Number(world.file.resource))

\* A file without such a resource counts as outdated.
FileVersion(release) ==
  IF ~FileFound \/ Field(detection, "statement", "PRODUCTVERSION") = "Invalid" THEN "failed"
  ELSE IF world.file.resource = <<>> THEN "outdated"
  ELSE Newer(release, Win32ResourceVersion)

Differs(found, expected) == IF found # expected THEN "outdated" ELSE "current"

FileSize(release) ==
  IF release.size = 0 \/ ~FileFound THEN "failed" ELSE Differs(world.file.size, release.size)

\* A read that fails looks like the end of the file, and its beginning is hashed.
FileChecksum(release) ==
  IF release.checksum \in {"absent", "Invalid"} \/ ~FileFound \/ world.file.state = "locked"
    THEN "failed"
  ELSE IF world.file.state = "torn" THEN "outdated"
  ELSE Differs(world.file.digest, release.checksum)

CustomExpression ==
  LET result == RenderInjaTemplate(Input(detection), remote[1].version, world)
  IN  IF result = Word("true") THEN "outdated"
      ELSE IF result = Word("false") THEN "current" ELSE "failed"

IsInstalledVersionOutdated ==
  IF remote = <<>> THEN "failed"
  ELSE CASE method = "FixedVersion"     -> FixedVersion(remote[selected])
         [] method = "RegistryValue"    -> RegistryValue(remote[selected])
         [] method = "FileVersion"      -> FileVersion(remote[selected])
         [] method = "FileSize"         -> FileSize(remote[selected])
         [] method = "FileChecksum"     -> FileChecksum(remote[selected])
         [] method = "CustomExpression" -> CustomExpression
         [] method = "Invalid"          -> "failed"

Detect ==
  /\ phase = "informed"
  /\ phase' = IsInstalledVersionOutdated
  /\ UNCHANGED <<server, machine, changes, settings, remote, selected>>

-----------------------------------------------------------------------------
\* The rest of the run: the user turns to another release, and a setup ends
\* well, or fails and leaves the machine as it is; or the run just ends.
\* Nothing of the run's memory outlives it.
Ends ==
  /\ cli' = NoArguments /\ authority' = "Remote"
  /\ method' = "Invalid" /\ detection' = <<>>
  /\ remote' = <<>> /\ selected' = 1
  /\ phase' = "off"

SetSelectedRelease ==
  /\ phase = "outdated"
  /\ selected' \in 1 .. Len(remote)
  /\ UNCHANGED <<server, machine, changes, settings, remote, phase>>

Install ==
  /\ phase = "outdated"
  /\ build' = remote[selected].build
  /\ world' = Left[build']
  /\ whole' = TRUE
  /\ Ends
  /\ UNCHANGED <<server, changes>>

EndRun ==
  /\ phase \in Verdicts
  /\ Ends
  /\ UNCHANGED <<server, machine, changes>>

\* The vendor, and whoever else changes the machine, at any time.
Changed == changes < MaxChanges /\ changes' = changes + 1

Publish ==
  /\ Changed
  /\ \E e \in Entries : published' = published \cup {e}
  /\ UNCHANGED <<disabled, machine, settings, remote, selected, phase>>

Withdraw ==
  /\ Changed
  /\ \E e \in published : disabled' = disabled \cup {e}
  /\ UNCHANGED <<published, machine, settings, remote, selected, phase>>

Damage ==
  /\ Changed
  /\ world' \in Damaged(world)
  /\ whole' = FALSE
  /\ UNCHANGED <<server, build, settings, remote, selected, phase>>

Next ==
  \/ Construct \/ RequestUpdateInfo \/ Detect
  \/ SetSelectedRelease \/ Install \/ EndRun
  \/ Publish \/ Withdraw \/ Damage

Spec == Init /\ [][Next]_vars

-----------------------------------------------------------------------------
\* What the properties ask of the vendor and of the settings.  Texts are texts
\* and methods are methods.
ASSUME EntriesAssumption ==
  /\ IsFiniteSet(Entries)
  /\ \A e \in Entries : e.build \in Builds /\ {e.version, e.detectionVersion} \subseteq Texts
  /\ Builds \subseteq Int

ASSUME SettingsAssumption ==
  /\ \A c \in LocalConfigs : c.authority \in {"Local", "Remote"} /\ c.method \in Methods
  /\ \A c \in SharedConfigs : c.method \in Methods \cup {"none"}

\* By which texts a build, once installed, tells its version.
Registered(b) ==
  LET values == {v \in {Left[b].registry[k] : k \in DOMAIN Left[b].registry} : v.type \in StringTypes}
  IN  {Left[b].version, Number(Left[b].file.resource)} \cup {v.text : v \in values}

\* Versions count in the order of the builds: those of releases against each
\* other, and those for the detection against what a build registers.
Numbered ==
  /\ \A e, f \in Entries : NewerFirst(e, f) <=> e.build > f.build
  /\ \A e \in Entries, b \in Builds : \A t \in Registered(b) :
       Readable(t) /\ (CompareVersions(GetDetectionSemVersion(e), Read(t)) > 0 <=> e.build > b)
ASSUME NumberingAssumption == Numbered

\* The sizes and digests that are published tell the builds apart.
ASSUME ContentAssumption ==
  \A e \in Entries, b \in Builds :
    LET file == Left[b].file
    IN  /\ file.state # "torn"
        /\ e.size # 0 => (file.size = e.size <=> e.build = b)
        /\ e.checksum \notin {"absent", "Invalid"} => (file.digest = e.checksum <=> e.build = b)

\* An expression that compares versions asks whether the installed one is less,
\* and what it finds on a sound installation is a version, or it raises.
Sensible(input) ==
  input.test = "versionLt" =>
    /\ input.negated = FALSE
    /\ \A e \in Entries, b \in Builds :
         ~Raises(input.source, Left[b]) =>
           (versionLt(Value(input.source, Left[b]), e.version) <=> b < e.build)
ASSUME ExpressionsAssumption ==
  \A c \in LocalConfigs \cup SharedConfigs : Sensible(Input(c.detection))

-----------------------------------------------------------------------------
\* The numbers of the builds say which is newer, whatever their versions look
\* like.  The method compares versions with what the setup of the build left.
ByVersion ==
  \/ method \in {"RegistryValue", "FileVersion"}
  \/ method = "CustomExpression" /\ Input(detection).test = "versionLt"
ByContent == method \in {"FileSize", "FileChecksum"}

\* What is offered is newer than what is installed, or, by size and checksum,
\* differs from it: no build is offered again once its setup has succeeded,
\* in whichever of its forms a version was published and registered, and no
\* withdrawal turns an update into a downgrade by version.
OfferedIsNewer ==
  phase = "outdated" /\ whole =>
    /\ ByVersion => remote[1].build > build
    /\ ByContent => remote[1].build # build

\* A product that counts as current is not older than any release received.
CurrentIsNewest ==
  phase = "current" /\ whole /\ (ByVersion \/ ByContent) =>
    \A i \in DOMAIN remote : remote[i].build <= build

\* The version forced on the command line decides, whatever the file and the
\* server say.
ForcedVersionDecides ==
  Forced /\ phase \in {"outdated", "current"} =>
    \A b \in Builds :
      Left[b].version = cli.force => (phase = "outdated" <=> remote[1].build > b)

\* A product registered in the view of the registry that the settings name
\* is found.
RegistryViewHonoured ==
  phase = "failed" /\ remote # <<>> /\ method = "RegistryValue" =>
    LET named == IF Field(detection, "view", "Default") = "WOW64_32KEY" THEN "32" ELSE NativeView
    IN  RegistryKey(named) \notin DOMAIN world.registry
=============================================================================
