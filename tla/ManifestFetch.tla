---------------------------- MODULE ManifestFetch ----------------------------
(***************************************************************************)
(* Retrieval of the update manifest: InstanceConfig::RequestUpdateInfo of  *)
(* updaters that are started again and again, possibly several at a time,  *)
(* and the highest manifest version they keep in one registry value.       *)
(*                                                                         *)
(* A manifest is its place in the order of publication, 1 .. MaxVersion,   *)
(* which is also its manifestVersion if it has one.  quality tells what    *)
(* the publisher put into it.  Each of the URLs, the primary one first, is *)
(* a site of one kind:                                                     *)
(*   up          answers every request with the newest manifest            *)
(*   mirror      fails at times, and may answer with an older manifest     *)
(*   down        fails always                                              *)
(*   page        answers with a page of its own, status 200; the request   *)
(*               for the signature may also fail                           *)
(*   disallowed  the URL's scheme is not allowed                           *)
(*                                                                         *)
(* The manifest and its signature are two requests: a publication between  *)
(* them, or a mirror that follows one, separates the two.                  *)
(*                                                                         *)
(* Left out: the timeout, which only stretches an attempt, the sleep       *)
(* between attempts, and the merging of the manifest's shared settings.    *)
(***************************************************************************)
EXTENDS Integers, FiniteSetsExt

CONSTANTS
  Updaters,               \* processes that may fetch at the same time
  NumUrls,                \* the primary URL and its fallbacks
  RETRIES,                \* "retryCount" of one URL
  MaxVersion,             \* bound: manifests published
  Qualities,              \* what a manifest may be like
  MaxFaults,              \* bound: registry failures and killed processes
  ReadsMayFail            \* a value that is there may be one that cannot be read

ASSUME FetchAssumption ==
  /\ NumUrls \in Nat \ {0} /\ RETRIES \in Nat \ {0}
  /\ MaxVersion \in Nat \ {0} /\ MaxFaults \in Nat /\ ReadsMayFail \in BOOLEAN
  /\ Qualities \subseteq {"good", "unnumbered", "malformed", "badUrl"}

VARIABLES
  manifestKey,            \* the build defines NV_MANIFEST_PUBLIC_KEY
  site, quality,
  published,              \* the newest manifest
  stored,                 \* the registry's ManifestVersion, 0 while there is none
  faults,
  pc, url, retryCount,    \* of each updater: where it is in RequestUpdateInfo
  reply,                  \* of each updater: the body it received, later "remote"
  requests,               \* history: requests made to the current URL
  highest,                \* history: the highest version assured
  floor                   \* history: of each updater, what its run is held to: what
                          \* was assured when it began, less what failed reads let in

configVars == <<manifestKey, site, quality>>
vars == <<configVars, published, stored, faults, pc, url, retryCount, reply, requests,
          highest, floor>>

Urls == 1 .. NumUrls
Versions == 1 .. MaxVersion
Page == 0                 \* a body that is not a manifest

SiteKinds == {"up", "mirror", "down", "page", "disallowed"}
Working == {"url", "request", "signature", "parse", "readVersion", "writeVersion",
            "downloadUrls"}

\* The manifest has a manifestVersion, and the build looks at it.
Numbered(v) == manifestKey /\ v # Page /\ quality[v] # "unnumbered"

Init ==
  /\ manifestKey \in BOOLEAN
  /\ site \in [Urls -> SiteKinds]
  /\ quality \in [Versions -> Qualities]
  /\ published = 1 /\ stored = 0 /\ highest = 0 /\ faults = 0
  /\ pc = [u \in Updaters |-> "idle"] /\ url = [u \in Updaters |-> 1]
  /\ retryCount = [u \in Updaters |-> RETRIES]
  /\ reply = [u \in Updaters |-> Page]
  /\ requests = [u \in Updaters |-> 0] /\ floor = [u \in Updaters |-> 0]

Goto(u, step) == pc' = [pc EXCEPT ![u] = step]

\* The URL is given up: its successor is tried, if there is one.
NextUrl(u) ==
  IF url[u] < NumUrls THEN url' = [url EXCEPT ![u] = @ + 1] /\ Goto(u, "url")
                      ELSE UNCHANGED url /\ Goto(u, "failed")

CountRequest(u) == requests' = [requests EXCEPT ![u] = @ + 1]

siteOf(u) == site[url[u]]

-----------------------------------------------------------------------------
(* Mutated forms of definitions below, for checking that the properties can *)
(* fail; no specification uses them.                                       *)

\* A version that is not higher is accepted as well as one that is.
LowerVersionPasses(u, known) ==
  Goto(u, IF reply[u] > known THEN "writeVersion" ELSE "downloadUrls")

\* An equal version is taken for a downgrade.
EqualVersionRefused(u, known) ==
  Goto(u, IF reply[u] > known THEN "writeVersion" ELSE "failed")

-----------------------------------------------------------------------------
Max2(a, b) == IF a >= b THEN a ELSE b
Min2(a, b) == IF a <= b THEN a ELSE b

\* Whatever comes of the writes that are under way, the registry is left with
\* no less than this: of overlapping updaters the slower may store the lower
\* version.
Pending(u) == {reply[w] : w \in {w \in Updaters \ {u} : pc[w] = "writeVersion"}}
Assured(u, version) == Min({version} \cup Pending(u))

\* A process is started.
Run(u) ==
  /\ pc[u] \notin Working
  /\ Goto(u, "url")
  /\ url' = [url EXCEPT ![u] = 1] /\ reply' = [reply EXCEPT ![u] = Page]
  /\ requests' = [requests EXCEPT ![u] = 0]
  /\ highest' = Max2(highest, Assured(u, stored))
  /\ floor' = [floor EXCEPT ![u] = highest']
  /\ UNCHANGED <<configVars, published, stored, faults, retryCount>>

\* HTTPS, or the machine itself where the build says so.
IsAllowedDownloadUrl(address) == address \notin {"disallowed", "badUrl"}

SkipUrl(u) ==
  /\ pc[u] = "url" /\ ~IsAllowedDownloadUrl(siteOf(u))
  /\ NextUrl(u)
  /\ UNCHANGED <<configVars, published, stored, faults, highest, retryCount, reply,
                 requests, floor>>

StartUrl(u) ==
  /\ pc[u] = "url" /\ IsAllowedDownloadUrl(siteOf(u))
  /\ retryCount' = [retryCount EXCEPT ![u] = RETRIES]
  /\ requests' = [requests EXCEPT ![u] = 0]
  /\ Goto(u, "request")
  /\ UNCHANGED <<configVars, published, stored, faults, highest, url, reply, floor>>

\* No reply, or a status that is neither 200 nor 404.
RequestFails(u) ==
  /\ pc[u] = "request" /\ siteOf(u) \in {"mirror", "down"}
  /\ CountRequest(u)
  /\ retryCount' = [retryCount EXCEPT ![u] = @ - 1]
  /\ IF retryCount[u] - 1 > 0 THEN UNCHANGED <<pc, url>> ELSE NextUrl(u)
  /\ UNCHANGED <<configVars, published, stored, faults, highest, reply, floor>>

\* 404 is not retried.
NotFound(u) ==
  /\ pc[u] = "request" /\ siteOf(u) \in {"mirror", "down"}
  /\ CountRequest(u)
  /\ NextUrl(u)
  /\ UNCHANGED <<configVars, published, stored, faults, highest, retryCount, reply, floor>>

\* What a site may answer with status 200.
Serves(kind) ==
  CASE kind = "up"     -> {published}
    [] kind = "mirror" -> 1 .. published
    [] kind = "page"   -> {Page}
    [] OTHER           -> {}

ReceiveManifest(u) ==
  /\ pc[u] = "request"
  /\ \E body \in Serves(siteOf(u)) : reply' = [reply EXCEPT ![u] = body]
  /\ CountRequest(u)
  /\ Goto(u, IF manifestKey THEN "signature" ELSE "parse")
  /\ UNCHANGED <<configVars, published, stored, faults, highest, url, retryCount, floor>>

\* The .minisig file: one request, not retried.
SignatureMissing(u) ==
  /\ pc[u] = "signature" /\ siteOf(u) \in {"mirror", "page"}
  /\ CountRequest(u)
  /\ NextUrl(u)
  /\ UNCHANGED <<configVars, published, stored, faults, highest, retryCount, reply, floor>>

\* ParseMinisigFile finds too few lines, no base64, or no Ed25519 signature.
SignatureMalformed(u) ==
  /\ pc[u] = "signature" /\ siteOf(u) # "up"
  /\ CountRequest(u)
  /\ Goto(u, "failed")
  /\ UNCHANGED <<configVars, published, stored, faults, highest, url, retryCount, reply,
                 floor>>

\* It belongs to another manifest, of before or since.
SignatureRefused(u) ==
  /\ pc[u] = "signature"
  /\ siteOf(u) = "up" => reply[u] # published
  /\ CountRequest(u)
  /\ Goto(u, "failed")
  /\ UNCHANGED <<configVars, published, stored, faults, highest, url, retryCount, reply,
                 floor>>

SignatureVerified(u) ==
  /\ pc[u] = "signature" /\ reply[u] # Page
  /\ siteOf(u) = "up" => reply[u] = published
  /\ CountRequest(u)
  /\ Goto(u, "parse")
  /\ UNCHANGED <<configVars, published, stored, faults, highest, url, retryCount, reply,
                 floor>>

ParseFails(u) ==
  /\ pc[u] = "parse"
  /\ reply[u] # Page => quality[reply[u]] = "malformed"
  /\ NextUrl(u)
  /\ UNCHANGED <<configVars, published, stored, faults, highest, retryCount, reply,
                 requests, floor>>

Parse(u) ==
  /\ pc[u] = "parse" /\ reply[u] # Page
  /\ quality[reply[u]] # "malformed"
  /\ Goto(u, IF Numbered(reply[u]) THEN "readVersion" ELSE "downloadUrls")
  /\ UNCHANGED <<configVars, published, stored, faults, highest, url, retryCount, reply,
                 requests, floor>>

\* The key cannot be opened, which blocks no update.
RegistryUnavailable(u) ==
  /\ pc[u] = "readVersion" /\ faults < MaxFaults
  /\ faults' = faults + 1
  /\ floor' = [floor EXCEPT ![u] = 0]
  /\ Goto(u, "downloadUrls")
  /\ UNCHANGED <<configVars, published, stored, highest, url, retryCount, reply, requests>>

\* A lower version than the known one ends the call; a higher one is to be
\* stored in the next step.
JudgeVersion(u, known) ==
  Goto(u, IF reply[u] < known THEN "failed"
          ELSE IF reply[u] > known THEN "writeVersion" ELSE "downloadUrls")

\* A value that cannot be read counts as one that is not there, so that any
\* version is higher: it passes and is about to be stored, a lower one too, and
\* no more than it is assured from now on.
ReadVersion(u) ==
  /\ pc[u] = "readVersion"
  /\ \/ JudgeVersion(u, stored) /\ UNCHANGED <<faults, highest, floor>>
     \/ /\ ReadsMayFail /\ faults < MaxFaults
        /\ faults' = faults + 1
        /\ JudgeVersion(u, 0)
        /\ highest' = Min2(highest, reply[u])
        /\ floor' = [w \in Updaters |-> Min2(floor[w], reply[u])]
  /\ UNCHANGED <<configVars, published, stored, url, retryCount, reply, requests>>

\* Writing may fail, which is only logged.
WriteVersion(u) ==
  /\ pc[u] = "writeVersion"
  /\ \/ stored' = reply[u] /\ UNCHANGED faults
        /\ highest' = Max2(highest, Assured(u, reply[u]))
     \/ faults < MaxFaults /\ faults' = faults + 1 /\ UNCHANGED <<stored, highest>>
  /\ Goto(u, "downloadUrls")
  /\ UNCHANGED <<configVars, published, url, retryCount, reply, requests, floor>>

\* The schemes of the URLs in the manifest.
CheckDownloadUrls(u) ==
  /\ pc[u] = "downloadUrls"
  /\ Goto(u, IF IsAllowedDownloadUrl(quality[reply[u]]) THEN "ok" ELSE "failed")
  /\ UNCHANGED <<configVars, published, stored, faults, highest, url, retryCount, reply,
                 requests, floor>>

RequestUpdateInfo(u) ==
  \/ SkipUrl(u) \/ StartUrl(u) \/ RequestFails(u) \/ NotFound(u) \/ ReceiveManifest(u)
  \/ SignatureMissing(u) \/ SignatureMalformed(u) \/ SignatureRefused(u)
  \/ SignatureVerified(u)
  \/ ParseFails(u) \/ Parse(u)
  \/ RegistryUnavailable(u) \/ ReadVersion(u) \/ WriteVersion(u) \/ CheckDownloadUrls(u)

\* The process is killed, or the machine is switched off.
Kill(u) ==
  /\ pc[u] \in Working /\ faults < MaxFaults
  /\ faults' = faults + 1
  /\ Goto(u, "idle")
  /\ UNCHANGED <<configVars, published, stored, highest, url, retryCount, reply, requests,
                 floor>>

Publish ==
  /\ published < MaxVersion
  /\ published' = published + 1
  /\ UNCHANGED <<configVars, stored, faults, pc, url, retryCount, reply, requests, highest,
                 floor>>

Next ==
  \/ \E u \in Updaters : Run(u) \/ RequestUpdateInfo(u) \/ Kill(u)
  \/ Publish

\* Fairness: a request ends, by a reply or a stall timeout, and the updater is
\* started again, by the scheduled task it keeps and at every logon.
Spec ==
  /\ Init /\ [][Next]_vars
  /\ \A u \in Updaters : WF_vars(Run(u)) /\ WF_vars(RequestUpdateInfo(u))

-----------------------------------------------------------------------------
TypeOK ==
  /\ manifestKey \in BOOLEAN
  /\ site \in [Urls -> SiteKinds] /\ quality \in [Versions -> Qualities]
  /\ published \in Versions
  /\ stored \in 0 .. MaxVersion /\ highest \in 0 .. MaxVersion
  /\ faults \in 0 .. MaxFaults
  /\ pc \in [Updaters -> Working \cup {"idle", "ok", "failed"}]
  /\ url \in [Updaters -> Urls]
  /\ retryCount \in [Updaters -> 0 .. RETRIES]
  /\ reply \in [Updaters -> 0 .. MaxVersion]
  /\ requests \in [Updaters -> Nat]
  /\ floor \in [Updaters -> 0 .. MaxVersion]

\* However replies, failures and statuses alternate, no URL is asked more often
\* than its retries and one signature allow, and each URL has all of them.
RequestBudget == \A u \in Updaters : requests[u] <= RETRIES + 1

\* A run accepts no version lower than one that was stored before it began, while
\* no other updater was about to store a lower one: whichever mirrors answer,
\* however runs overlap, and whichever failed to write or were killed half-way.
\* Excepted are a run that could not open the registry, and versions down to the
\* one that a run let in when it could not read the stored value.
NoRollback ==
  \A u \in Updaters : pc[u] = "ok" /\ Numbered(reply[u]) => reply[u] >= floor[u]

\* The registry keeps the highest version seen.  It does of updaters that run one
\* at a time while the value can be read; of two that overlap the slower may store
\* the lower version, and one that cannot read the value stores what it received.
StoredNeverFalls == [][stored' >= stored]_vars

\* The sites before a working one are not accessible, as the loop's comment has
\* it; a block page counts as such in a build without a key only.
Inaccessible == {"down", "disallowed"} \cup (IF manifestKey THEN {} ELSE {"page"})

Reachable ==
  \E c \in Urls : site[c] = "up" /\ \A d \in 1 .. c - 1 : site[d] \in Inaccessible

\* The newest manifest is one that updaters can use.
Healthy == quality[published] \in {"good", "unnumbered"}

\* While the newest manifest is usable and a working site is behind inaccessible
\* ones only, updaters keep obtaining it: no publication between two requests, no
\* version stored by a refused manifest and no killed run locks them out for good.
RunsReachNewest ==
  \A u \in Updaters :
    (Reachable /\ Healthy) ~> ((pc[u] = "ok" /\ reply[u] = published) \/ ~Healthy)

\* As the comment on block pages has it, a site that answers with one is not
\* the end while there are fallbacks left.
BlockPageFallsBack ==
  \A u \in Updaters : ~(pc[u] = "failed" /\ siteOf(u) = "page" /\ url[u] < NumUrls)
=============================================================================
