------------------------- MODULE ManifestFetchProofs -------------------------
(***************************************************************************)
(* Theorems about the manifest retrieval, for any number of updaters,      *)
(* URLs, retries, versions and failures: type correctness, the request     *)
(* budget of a URL, and the protection against older manifests.            *)
(*                                                                         *)
(* The protection rests on the lowest of the stored version and of all     *)
(* that are about to be stored, which never falls: a version is about to   *)
(* be stored only if it was found higher than the stored one.  RollbackInv *)
(* says that "highest" is no more than this lowest version, wherever each  *)
(* of the updaters is, and that what has passed the registry is no lower   *)
(* than what the run is held to.  A run that cannot read the stored value  *)
(* breaks this argument; what is assured falls at that step to the version *)
(* it is about to store.                                                   *)
(*                                                                         *)
(* Under the assumption Alone, which excludes that updaters overlap, and   *)
(* where what is stored can be read, the stored version never falls.       *)
(***************************************************************************)
EXTENDS ManifestFetch, FiniteSetTheorems, TLAPS

\* At most one updater is run at a time.
Alone == \A u, v \in Updaters : u = v

\* The retries of a URL and the requests made to it add up.
BudgetInv ==
  \A u \in Updaters :
    /\ pc[u] = "request" => retryCount[u] >= 1 /\ requests[u] + retryCount[u] = RETRIES
    /\ pc[u] = "signature" => requests[u] <= RETRIES
    /\ requests[u] <= RETRIES + 1

\* Where a reply has been received, and where it is a manifest.
ReplyInv ==
  \A u \in Updaters :
    /\ pc[u] \in {"readVersion", "writeVersion", "downloadUrls"} => reply[u] \in Versions
    /\ pc[u] \in {"readVersion", "writeVersion"} => Numbered(reply[u])

\* The registry holds, and is left with by every write that is under way, no
\* less than the highest version assured.
RollbackInv ==
  /\ highest <= stored
  /\ \A u \in Updaters :
       /\ floor[u] <= highest
       /\ pc[u] = "writeVersion" => reply[u] >= highest
       /\ (pc[u] \in {"downloadUrls", "ok"} /\ Numbered(reply[u])) => reply[u] >= floor[u]

USE FetchAssumption DEF FetchAssumption

-----------------------------------------------------------------------------
(* The version assured is the lowest of several.                           *)

\* A nonempty set of numbers has a least element: of the intervals up to its
\* elements one is minimal.
LEMMA LeastOfSet ==
  ASSUME NEW S \in SUBSET Nat, S # {}
  PROVE  Min(S) \in S /\ \A x \in S : Min(S) <= x
<1> DEFINE T == {0 .. m : m \in S}
<1> DEFINE R == StrictSubsetOrdering(Nat)
<1>1. IsWellFoundedOn(R, FiniteSubsetsOf(Nat))
  BY FS_StrictSubsetOrderingWellFounded
<1>2. T \subseteq FiniteSubsetsOf(Nat) /\ T # {}
  <2>1. \A m \in S : 0 .. m \in SUBSET Nat /\ IsFiniteSet(0 .. m)
    <3> SUFFICES ASSUME NEW m \in S PROVE 0 .. m \in SUBSET Nat /\ IsFiniteSet(0 .. m)
      OBVIOUS
    <3>1. 0 \in Int /\ m \in Int
      OBVIOUS
    <3>2. IsFiniteSet(0 .. m)
      BY <3>1, FS_Interval
    <3> QED  BY <3>2
  <2>2. \A m \in S : 0 .. m \in FiniteSubsetsOf(Nat)
    BY <2>1 DEF FiniteSubsetsOf
  <2> QED  BY <2>2
<1>3. PICK I \in T : \A J \in T : ~ (<<J, I>> \in R)
  <2> HIDE DEF R, T
  <2> QED  BY <1>1, <1>2, WFMin
<1>4. PICK m \in S : I = 0 .. m
  OBVIOUS
<1>5. ASSUME NEW y \in S PROVE m <= y
  <2>1. SUFFICES ASSUME y < m PROVE FALSE
    OBVIOUS
  <2>2. 0 .. y \subseteq 0 .. m /\ m \in 0 .. m /\ m \notin 0 .. y
    BY <2>1
  <2>3. <<0 .. y, 0 .. m>> \in R
    BY <2>2 DEF StrictSubsetOrdering
  <2> QED  BY <2>3, <1>3, <1>4
<1> QED
  BY <1>5 DEF Min

\* The version assured is no higher than the one in question and than every
\* one that another updater is about to store; of a lone updater it is the one
\* in question.
LEMMA AssuredBounds ==
  ASSUME TypeOK, NEW u \in Updaters, NEW version \in 0 .. MaxVersion
  PROVE  /\ Assured(u, version) \in 0 .. MaxVersion
         /\ Assured(u, version) <= version
         /\ \A w \in Updaters \ {u} : pc[w] = "writeVersion" => Assured(u, version) <= reply[w]
         /\ Updaters = {u} => Assured(u, version) = version
<1> DEFINE S == {version} \cup Pending(u)
<1>1. S \subseteq 0 .. MaxVersion /\ S \in SUBSET Nat /\ S # {}
  BY DEF Pending, TypeOK
<1>2. Min(S) \in S /\ \A x \in S : Min(S) <= x
  <2> HIDE DEF S
  <2> QED  BY <1>1, LeastOfSet
<1>3. \A w \in Updaters \ {u} : pc[w] = "writeVersion" => reply[w] \in S
  BY DEF Pending
<1>4. Updaters = {u} => S = {version}
  BY DEF Pending
<1>5. Assured(u, version) = Min(S)
  BY DEF Assured
<1> HIDE DEF S
<1>6. version \in S
  BY DEF S
<1> QED
  BY <1>1, <1>2, <1>3, <1>4, <1>5, <1>6

-----------------------------------------------------------------------------
(* Type correctness and the request budget.                                *)

\* The initial states satisfy the types and both invariants.
LEMMA FetchInit == Init => TypeOK /\ BudgetInv /\ ReplyInv
<1> SUFFICES ASSUME Init PROVE TypeOK /\ BudgetInv /\ ReplyInv
  OBVIOUS
<1>1. manifestKey \in BOOLEAN /\ site \in [Urls -> SiteKinds] /\ quality \in [Versions -> Qualities]
  BY DEF Init
<1>2. /\ published \in Versions
      /\ stored \in 0 .. MaxVersion /\ highest \in 0 .. MaxVersion
      /\ faults \in 0 .. MaxFaults
  BY DEF Init, Versions
<1>3. /\ pc \in [Updaters -> Working \cup {"idle", "ok", "failed"}]
      /\ url \in [Updaters -> Urls]
      /\ retryCount \in [Updaters -> 0 .. RETRIES]
      /\ reply \in [Updaters -> 0 .. MaxVersion]
      /\ requests \in [Updaters -> Nat]
      /\ floor \in [Updaters -> 0 .. MaxVersion]
  BY DEF Init, Urls, Page
<1>4. BudgetInv /\ ReplyInv
  BY DEF Init, BudgetInv, ReplyInv
<1> QED
  BY <1>1, <1>2, <1>3, <1>4 DEF TypeOK

\* Giving up a URL leads to its successor or ends the call.
LEMMA NextUrlTyped ==
  ASSUME TypeOK, NEW u \in Updaters, NextUrl(u)
  PROVE  /\ url' \in [Updaters -> Urls]
         /\ \/ pc' = [pc EXCEPT ![u] = "url"] \/ pc' = [pc EXCEPT ![u] = "failed"]
         /\ pc' \in [Updaters -> Working \cup {"idle", "ok", "failed"}]
<1>1. url[u] \in Urls /\ pc \in [Updaters -> Working \cup {"idle", "ok", "failed"}]
  BY DEF TypeOK
<1>2. CASE url[u] < NumUrls
  <2>1. url[u] + 1 \in Urls
    BY <1>1, <1>2 DEF Urls
  <2> QED  BY <1>1, <1>2, <2>1 DEF NextUrl, Goto, TypeOK, Working
<1>3. CASE ~(url[u] < NumUrls)
  BY <1>1, <1>3 DEF NextUrl, Goto, TypeOK
<1> QED  BY <1>2, <1>3

\* Every step preserves the types.
LEMMA FetchTypeStep == TypeOK /\ BudgetInv /\ ReplyInv /\ [Next]_vars => TypeOK'
<1> SUFFICES ASSUME TypeOK, BudgetInv, ReplyInv, [Next]_vars PROVE TypeOK'
  OBVIOUS
<1>1. CASE UNCHANGED vars
  BY <1>1 DEF vars, configVars, TypeOK
<1>2. CASE Publish
  BY <1>2 DEF Publish, configVars, TypeOK, Versions
<1>3. ASSUME NEW u \in Updaters, Run(u) \/ Kill(u) PROVE TypeOK'
  <2>1. CASE Run(u)
    <3>1. highest' \in 0 .. MaxVersion
      BY <2>1, AssuredBounds DEF Run, Max2, TypeOK
    <3> QED
      BY <2>1, <3>1 DEF Run, Goto, configVars, TypeOK, Working, Urls, Page
  <2>2. CASE Kill(u)
    BY <2>2 DEF Kill, Goto, configVars, TypeOK
  <2> QED  BY <1>3, <2>1, <2>2
<1>4. ASSUME NEW u \in Updaters, RequestUpdateInfo(u) PROVE TypeOK'
  <2>1. CASE SkipUrl(u) \/ ParseFails(u)
    BY <2>1, NextUrlTyped DEF SkipUrl, ParseFails, configVars, TypeOK
  <2>2. CASE StartUrl(u)
    BY <2>2 DEF StartUrl, Goto, configVars, TypeOK, Working
  <2>3. CASE RequestFails(u)
    <3>1. retryCount' \in [Updaters -> 0 .. RETRIES] /\ requests' \in [Updaters -> Nat]
      BY <2>3 DEF RequestFails, CountRequest, TypeOK, BudgetInv
    <3>2. /\ url' \in [Updaters -> Urls]
          /\ pc' \in [Updaters -> Working \cup {"idle", "ok", "failed"}]
      BY <2>3, NextUrlTyped DEF RequestFails, TypeOK
    <3> QED
      BY <2>3, <3>1, <3>2 DEF RequestFails, configVars, TypeOK
  <2>4. CASE NotFound(u) \/ SignatureMissing(u)
    BY <2>4, NextUrlTyped DEF NotFound, SignatureMissing, CountRequest, configVars, TypeOK
  <2>5. CASE ReceiveManifest(u)
    <3>1. PICK body \in Serves(siteOf(u)) : reply' = [reply EXCEPT ![u] = body]
      BY <2>5 DEF ReceiveManifest
    <3>2. body \in 0 .. MaxVersion
      BY <3>1 DEF Serves, siteOf, TypeOK, Versions, Page, SiteKinds
    <3> QED
      BY <2>5, <3>1, <3>2 DEF ReceiveManifest, CountRequest, Goto, configVars, TypeOK, Working
  <2>6. CASE SignatureMalformed(u) \/ SignatureRefused(u) \/ SignatureVerified(u)
    BY <2>6 DEF SignatureMalformed, SignatureRefused, SignatureVerified, CountRequest,
                Goto, configVars, TypeOK,
                Working
  <2>7. CASE Parse(u) \/ CheckDownloadUrls(u)
    BY <2>7 DEF Parse, CheckDownloadUrls, Goto, configVars, TypeOK, Working
  <2>10. CASE ReadVersion(u)
    <3>1. pc' \in [Updaters -> Working \cup {"idle", "ok", "failed"}]
      BY <2>10 DEF ReadVersion, JudgeVersion, Goto, TypeOK, Working
    <3>2. /\ faults' \in 0 .. MaxFaults
          /\ highest' \in 0 .. MaxVersion /\ floor' \in [Updaters -> 0 .. MaxVersion]
      BY <2>10 DEF ReadVersion, Min2, TypeOK
    <3> QED
      BY <2>10, <3>1, <3>2 DEF ReadVersion, configVars, TypeOK
  <2>8. CASE RegistryUnavailable(u)
    BY <2>8 DEF RegistryUnavailable, Goto, configVars, TypeOK, Working
  <2>9. CASE WriteVersion(u)
    <3>1. highest' \in 0 .. MaxVersion
      BY <2>9, AssuredBounds DEF WriteVersion, Max2, TypeOK
    <3> QED
      BY <2>9, <3>1 DEF WriteVersion, Goto, configVars, TypeOK, Working
  <2> QED
    BY <1>4, <2>1, <2>2, <2>3, <2>4, <2>5, <2>6, <2>7, <2>8, <2>9, <2>10
    DEF RequestUpdateInfo
<1> QED
  BY <1>1, <1>2, <1>3, <1>4 DEF Next

\* Every step keeps the account of retries and requests.
LEMMA BudgetStep == TypeOK /\ BudgetInv /\ [Next]_vars => BudgetInv'
<1> SUFFICES ASSUME TypeOK, BudgetInv, [Next]_vars PROVE BudgetInv'
  OBVIOUS
<1>1. CASE UNCHANGED vars \/ Publish
  BY <1>1 DEF vars, Publish, BudgetInv
<1>2. ASSUME NEW u \in Updaters, Run(u) \/ Kill(u) PROVE BudgetInv'
  BY <1>2 DEF Run, Kill, Goto, TypeOK, BudgetInv
<1>3. ASSUME NEW u \in Updaters, RequestUpdateInfo(u) PROVE BudgetInv'
  <2>1. CASE SkipUrl(u) \/ ParseFails(u)
    BY <2>1, NextUrlTyped DEF SkipUrl, ParseFails, TypeOK, BudgetInv
  <2>2. CASE StartUrl(u)
    BY <2>2 DEF StartUrl, Goto, TypeOK, BudgetInv
  <2>3. CASE RequestFails(u)
    <3>1. CASE retryCount[u] - 1 > 0
      BY <2>3, <3>1 DEF RequestFails, CountRequest, TypeOK, BudgetInv
    <3>2. CASE ~(retryCount[u] - 1 > 0)
      BY <2>3, <3>2, NextUrlTyped DEF RequestFails, CountRequest, TypeOK, BudgetInv
    <3> QED  BY <3>1, <3>2
  <2>4. CASE NotFound(u) \/ SignatureMissing(u)
    BY <2>4, NextUrlTyped DEF NotFound, SignatureMissing, CountRequest, TypeOK, BudgetInv
  <2>5. CASE ReceiveManifest(u)
    BY <2>5 DEF ReceiveManifest, CountRequest, Goto, TypeOK, BudgetInv
  <2>6. CASE SignatureMalformed(u) \/ SignatureRefused(u) \/ SignatureVerified(u)
    BY <2>6 DEF SignatureMalformed, SignatureRefused, SignatureVerified, CountRequest,
                Goto, TypeOK, BudgetInv
  <2>7. CASE \/ Parse(u) \/ ReadVersion(u) \/ CheckDownloadUrls(u)
             \/ RegistryUnavailable(u) \/ WriteVersion(u)
    BY <2>7 DEF Parse, ReadVersion, JudgeVersion, CheckDownloadUrls, RegistryUnavailable,
                WriteVersion, Goto, TypeOK, BudgetInv
  <2> QED
    BY <1>3, <2>1, <2>2, <2>3, <2>4, <2>5, <2>6, <2>7 DEF RequestUpdateInfo
<1> QED
  BY <1>1, <1>2, <1>3 DEF Next

\* Every step keeps what is known of the replies.
LEMMA ReplyStep == TypeOK /\ ReplyInv /\ [Next]_vars => ReplyInv'
<1> SUFFICES ASSUME TypeOK, ReplyInv, [Next]_vars PROVE ReplyInv'
  OBVIOUS
<1>0. ASSUME UNCHANGED configVars, NEW v PROVE Numbered(v)' = Numbered(v)
  BY <1>0 DEF configVars, Numbered
<1>1. CASE UNCHANGED vars \/ Publish
  BY <1>1, <1>0 DEF vars, Publish, configVars, ReplyInv, Numbered
<1>2. ASSUME NEW u \in Updaters, Run(u) \/ Kill(u) PROVE ReplyInv'
  BY <1>2 DEF Run, Kill, Goto, configVars, TypeOK, ReplyInv, Working, Numbered
<1>3. ASSUME NEW u \in Updaters, RequestUpdateInfo(u) PROVE ReplyInv'
  <2>1. CASE SkipUrl(u) \/ ParseFails(u)
    BY <2>1, NextUrlTyped DEF SkipUrl, ParseFails, configVars, TypeOK, ReplyInv, Numbered
  <2>2. CASE StartUrl(u)
    BY <2>2 DEF StartUrl, Goto, configVars, TypeOK, ReplyInv, Numbered
  <2>3. CASE RequestFails(u) \/ NotFound(u) \/ SignatureMissing(u)
    BY <2>3, NextUrlTyped
    DEF RequestFails, NotFound, SignatureMissing, configVars, TypeOK, ReplyInv, Numbered
  <2>4. CASE ReceiveManifest(u)
    BY <2>4 DEF ReceiveManifest, Goto, configVars, TypeOK, ReplyInv, Numbered
  <2>5. CASE SignatureMalformed(u) \/ SignatureRefused(u) \/ SignatureVerified(u)
    BY <2>5 DEF SignatureMalformed, SignatureRefused, SignatureVerified, Goto, configVars,
                TypeOK, ReplyInv, Numbered
  <2>6. CASE Parse(u)
    BY <2>6 DEF Parse, Goto, configVars, TypeOK, ReplyInv, Numbered, Page, Versions
  <2>7. CASE ReadVersion(u) \/ RegistryUnavailable(u) \/ WriteVersion(u) \/ CheckDownloadUrls(u)
    BY <2>7 DEF ReadVersion, JudgeVersion, RegistryUnavailable, WriteVersion,
                CheckDownloadUrls, Goto, configVars, TypeOK, ReplyInv, Numbered
  <2> QED
    BY <1>3, <2>1, <2>2, <2>3, <2>4, <2>5, <2>6, <2>7 DEF RequestUpdateInfo
<1> QED
  BY <1>1, <1>2, <1>3 DEF Next

\* All variables keep their types: retries never fall below zero, a reply is
\* the place of a manifest that exists.
THEOREM FetchTypeCorrect == Spec => []TypeOK
  BY FetchInit, FetchTypeStep, BudgetStep, ReplyStep, PTL DEF Spec

\* Types and both invariants together, for the theorems below.
LEMMA FetchInvariant == Spec => [](TypeOK /\ BudgetInv /\ ReplyInv)
  BY FetchInit, FetchTypeStep, BudgetStep, ReplyStep, PTL DEF Spec

\* No URL is asked more often than its retries and one signature allow.
THEOREM BudgetHolds == Spec => []RequestBudget
<1>1. BudgetInv => RequestBudget
  BY DEF BudgetInv, RequestBudget
<1> QED
  BY <1>1, FetchInvariant, PTL

-----------------------------------------------------------------------------
(* Protection against older manifests.                                     *)

\* In the initial states nothing is stored and nothing was accepted.
LEMMA RollbackInit == Init => RollbackInv
  BY DEF Init, RollbackInv

\* A step that stores nothing, lets nothing pass the registry and has nothing
\* newly pending keeps the invariant.
LEMMA RollbackFrame ==
  ASSUME RollbackInv, UNCHANGED <<configVars, stored, highest, floor>>,
         \A w \in Updaters :
           pc'[w] = "writeVersion" => pc[w] = "writeVersion" /\ reply'[w] = reply[w],
         \A w \in Updaters :
           pc'[w] \in {"downloadUrls", "ok"} =>
             /\ reply'[w] = reply[w]
             /\ pc[w] \in {"downloadUrls", "ok"} \/ ~Numbered(reply[w])
  PROVE  RollbackInv'
  BY DEF RollbackInv, Numbered, configVars

\* What is assured grows when a run begins, and is no more than what is stored
\* and what others are about to store.
LEMMA RollbackRun ==
  ASSUME TypeOK, RollbackInv, NEW u \in Updaters, Run(u)
  PROVE  RollbackInv'
<1>0. /\ stored \in 0 .. MaxVersion /\ highest \in 0 .. MaxVersion
      /\ \A w \in Updaters : reply[w] \in Nat /\ floor[w] \in Nat
  BY DEF TypeOK
<1>1. /\ UNCHANGED <<configVars, stored>>
      /\ pc[u] # "writeVersion" /\ pc'[u] = "url" /\ floor'[u] = highest'
      /\ \A w \in Updaters \ {u} :
           pc'[w] = pc[w] /\ reply'[w] = reply[w] /\ floor'[w] = floor[w]
  BY DEF Run, Goto, Working, TypeOK
<1>2. /\ highest <= highest' /\ highest' <= stored /\ highest' \in Nat
      /\ \A w \in Updaters \ {u} : pc[w] = "writeVersion" => highest' <= reply[w]
  BY <1>0, AssuredBounds DEF Run, Max2, RollbackInv
<1> QED
  BY <1>0, <1>1, <1>2 DEF RollbackInv, Numbered, configVars

\* So it does when a version is stored.
LEMMA RollbackWrite ==
  ASSUME TypeOK, RollbackInv, NEW u \in Updaters, WriteVersion(u)
  PROVE  RollbackInv'
<1>0. /\ stored \in 0 .. MaxVersion /\ highest \in 0 .. MaxVersion
      /\ \A w \in Updaters : reply[w] \in 0 .. MaxVersion /\ floor[w] \in Nat
  BY DEF TypeOK
<1>1. /\ UNCHANGED <<configVars, reply, floor>>
      /\ pc[u] = "writeVersion" /\ pc'[u] = "downloadUrls"
      /\ \A w \in Updaters \ {u} : pc'[w] = pc[w]
  BY DEF WriteVersion, Goto, TypeOK
<1>2. /\ highest <= highest' /\ highest' <= stored' /\ highest' \in Nat
      /\ \A w \in Updaters \ {u} : pc[w] = "writeVersion" => highest' <= reply[w]
  <2>1. CASE stored' = reply[u] /\ highest' = Max2(highest, Assured(u, reply[u]))
    BY <1>0, <1>1, <2>1, AssuredBounds DEF Max2, RollbackInv
  <2>2. CASE UNCHANGED <<stored, highest>>
    BY <1>0, <2>2 DEF RollbackInv
  <2> QED  BY <2>1, <2>2 DEF WriteVersion
<1>3. floor[u] <= highest /\ highest <= reply[u]
  BY <1>1 DEF RollbackInv
<1> QED
  BY <1>0, <1>1, <1>2, <1>3 DEF RollbackInv, Numbered, configVars

\* A value that is read lets no lower version pass; one that cannot be read
\* takes what is assured down to the version that passes.
LEMMA RollbackRead ==
  ASSUME TypeOK, RollbackInv, NEW u \in Updaters, ReadVersion(u)
  PROVE  RollbackInv'
<1>0. /\ stored \in Nat /\ highest \in Nat
      /\ \A w \in Updaters : reply[w] \in Nat /\ floor[w] \in Nat
  BY DEF TypeOK
<1>1. /\ UNCHANGED <<configVars, stored, reply>>
      /\ pc[u] = "readVersion" /\ pc'[u] # "ok"
      /\ \A w \in Updaters \ {u} : pc'[w] = pc[w]
  BY DEF ReadVersion, JudgeVersion, Goto, TypeOK
<1>2. CASE JudgeVersion(u, stored) /\ UNCHANGED <<highest, floor>>
  <2>1. pc'[u] \in {"writeVersion", "downloadUrls"} => reply[u] >= stored
    BY <1>0, <1>2 DEF JudgeVersion, Goto, TypeOK
  <2> QED
    BY <1>0, <1>1, <1>2, <2>1 DEF RollbackInv, Numbered, configVars
<1>3. CASE /\ highest' = Min2(highest, reply[u])
           /\ floor' = [w \in Updaters |-> Min2(floor[w], reply[u])]
  <2>1. highest' <= highest /\ highest' <= reply[u] /\ highest' \in Nat
    BY <1>0, <1>3 DEF Min2
  <2>2. \A w \in Updaters : floor'[w] <= highest' /\ floor'[w] <= floor[w]
    BY <1>0, <1>3 DEF Min2, RollbackInv
  <2>3. \A w \in Updaters : floor'[w] \in Nat
    BY <1>0, <1>3 DEF Min2
  <2> QED
    BY <1>0, <1>1, <2>1, <2>2, <2>3 DEF RollbackInv, Numbered, configVars
<1> QED  BY <1>2, <1>3 DEF ReadVersion

\* Every step keeps the invariant, whoever takes it.
LEMMA RollbackStep == TypeOK /\ RollbackInv /\ [Next]_vars => RollbackInv'
<1> SUFFICES ASSUME TypeOK, RollbackInv, [Next]_vars PROVE RollbackInv'
  OBVIOUS
<1>0. /\ stored \in Nat /\ highest \in Nat
      /\ \A u \in Updaters : reply[u] \in Nat /\ floor[u] \in Nat
  BY DEF TypeOK
<1>1. CASE UNCHANGED vars \/ Publish
  BY <1>1, RollbackFrame DEF vars, Publish
<1>2. ASSUME NEW u \in Updaters, Kill(u) PROVE RollbackInv'
  BY <1>2, RollbackFrame DEF Kill, Goto, TypeOK
<1>3. ASSUME NEW u \in Updaters, RequestUpdateInfo(u) PROVE RollbackInv'
  <2>1. CASE SkipUrl(u) \/ ParseFails(u)
    BY <2>1, NextUrlTyped, RollbackFrame DEF SkipUrl, ParseFails, TypeOK
  <2>2. CASE StartUrl(u)
    BY <2>2, RollbackFrame DEF StartUrl, Goto, TypeOK
  <2>3. CASE RequestFails(u) \/ NotFound(u) \/ SignatureMissing(u)
    BY <2>3, NextUrlTyped, RollbackFrame DEF RequestFails, NotFound, SignatureMissing, TypeOK
  <2>4. CASE ReceiveManifest(u)
    BY <2>4, RollbackFrame DEF ReceiveManifest, Goto, TypeOK
  <2>5. CASE SignatureMalformed(u) \/ SignatureRefused(u) \/ SignatureVerified(u)
    BY <2>5, RollbackFrame
    DEF SignatureMalformed, SignatureRefused, SignatureVerified, Goto, TypeOK
  <2>6. CASE Parse(u) \/ CheckDownloadUrls(u)
    BY <2>6, RollbackFrame DEF Parse, CheckDownloadUrls, Goto, TypeOK
  <2>7. CASE RegistryUnavailable(u)
    <3>1. /\ UNCHANGED <<configVars, stored, highest, reply>>
          /\ pc'[u] = "downloadUrls" /\ floor'[u] = 0
          /\ \A w \in Updaters \ {u} : pc'[w] = pc[w] /\ floor'[w] = floor[w]
      BY <2>7 DEF RegistryUnavailable, Goto, TypeOK
    <3> QED
      BY <1>0, <3>1 DEF RollbackInv, Numbered, configVars
  <2>8. CASE ReadVersion(u)
    BY <2>8, RollbackRead
  <2>9. CASE WriteVersion(u)
    BY <2>9, RollbackWrite
  <2> QED
    BY <1>3, <2>1, <2>2, <2>3, <2>4, <2>5, <2>6, <2>7, <2>8, <2>9 DEF RequestUpdateInfo
<1> QED
  BY <1>1, <1>2, <1>3, RollbackRun DEF Next

\* However many updaters overlap, are killed, or fail to open, read or write the
\* registry: none accepts a manifest older than one that was stored before it
\* began, while no other was about to store an older one; except a run that could
\* not open the registry, and versions down to the one that a run let in when it
\* could not read the stored value.
THEOREM NeverRolledBack == Spec => []NoRollback
<1>1. RollbackInv => NoRollback
  BY DEF RollbackInv, NoRollback
<1>2. TypeOK /\ BudgetInv /\ ReplyInv /\ RollbackInv /\ [Next]_vars => RollbackInv'
  BY RollbackStep
<1> QED
  BY <1>1, <1>2, RollbackInit, FetchInvariant, PTL DEF Spec

\* While updaters do not overlap and can read what is stored, the registry holds
\* the highest version ever stored in it, and a write only raises it.
LEMMA AloneStep ==
  Alone /\ ~ReadsMayFail /\ TypeOK /\ RollbackInv /\ highest = stored /\ [Next]_vars =>
    (highest = stored)' /\ stored' >= stored
<1> SUFFICES ASSUME Alone, ~ReadsMayFail, TypeOK, RollbackInv, highest = stored, [Next]_vars
             PROVE  (highest = stored)' /\ stored' >= stored
  OBVIOUS
<1>0. /\ stored \in 0 .. MaxVersion
      /\ \A u \in Updaters : reply[u] \in 0 .. MaxVersion /\ Updaters = {u}
  BY DEF TypeOK, Alone
<1>1. CASE UNCHANGED vars \/ Publish
  BY <1>0, <1>1 DEF vars, Publish
<1>2. ASSUME NEW u \in Updaters, Run(u) PROVE (highest = stored)' /\ stored' >= stored
  BY <1>0, <1>2, AssuredBounds DEF Run, Max2
<1>3. ASSUME NEW u \in Updaters, WriteVersion(u)
      PROVE  (highest = stored)' /\ stored' >= stored
  <2>1. reply[u] >= stored /\ Assured(u, reply[u]) = reply[u]
    BY <1>0, <1>3, AssuredBounds DEF WriteVersion, RollbackInv
  <2> QED
    BY <1>0, <1>3, <2>1 DEF WriteVersion, Max2
<1>4. ASSUME NEW u \in Updaters, Kill(u) \/ RequestUpdateInfo(u), ~WriteVersion(u)
      PROVE  (highest = stored)' /\ stored' >= stored
  <2>1. UNCHANGED <<highest, stored>>
    BY <1>4
    DEF Kill, RequestUpdateInfo, SkipUrl, StartUrl, RequestFails, NotFound, ReceiveManifest,
        SignatureMissing, SignatureMalformed, SignatureRefused, SignatureVerified, ParseFails,
        Parse, RegistryUnavailable, ReadVersion, CheckDownloadUrls
  <2> QED  BY <1>0, <2>1
<1> QED
  BY <1>1, <1>2, <1>3, <1>4 DEF Next

\* With one updater at a time, and a stored value that can be read whenever the
\* key can be opened, the registry holds the highest version ever stored in it and
\* no step lowers it, whichever writes fail and whichever runs are killed.
THEOREM AloneNeverLowered ==
  Alone /\ ~ReadsMayFail => (Spec => [](highest = stored) /\ StoredNeverFalls)
<1> SUFFICES ASSUME Alone, ~ReadsMayFail
             PROVE  Spec => [](highest = stored) /\ StoredNeverFalls
  OBVIOUS
<1>1. Init => highest = stored
  BY DEF Init
<1>2. TypeOK /\ BudgetInv /\ ReplyInv /\ RollbackInv /\ highest = stored /\ [Next]_vars =>
        (highest = stored)' /\ stored' >= stored
  BY AloneStep
<1>3. TypeOK /\ BudgetInv /\ ReplyInv /\ RollbackInv /\ [Next]_vars => RollbackInv'
  BY RollbackStep
<1> QED
  BY <1>1, <1>2, <1>3, RollbackInit, FetchInvariant, PTL DEF Spec, StoredNeverFalls
=============================================================================
