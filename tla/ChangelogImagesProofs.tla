------------------------ MODULE ChangelogImagesProofs ------------------------
(***************************************************************************)
(* Theorems about ChangelogImages, for any number of images and threads    *)
(* and any outage.                                                         *)
(***************************************************************************)
EXTENDS ChangelogImages, TLAPS

\* A future and its thread name each other.
TasksInv ==
  \A u \in Urls : imageDownloadTasks[u] # none =>
    /\ fetch[imageDownloadTasks[u]] # "idle"
    /\ url[imageDownloadTasks[u]] = u

\* A cached image came from the future that is kept for it.
CacheInv ==
  \A u \in images :
    /\ imageDownloadTasks[u] # none
    /\ fetch[imageDownloadTasks[u]] = "texture"

IInv == TypeOK /\ OneFetchPerImage /\ TasksInv /\ CacheInv /\ NoFetchLeftRunning

LEMMA InitInv == Init => IInv
BY NoneAssumption, OutagesAssumption
DEF Init, IInv, TypeOK, OneFetchPerImage, TasksInv, CacheInv, NoFetchLeftRunning, Ready

\* The frames: the three ways of GetImageTexture.
LEMMA FrameInv ==
  ASSUME IInv, NEW u \in Urls, Frame(u)
  PROVE  IInv'
<1> USE NoneAssumption
    DEF IInv, TypeOK, OneFetchPerImage, TasksInv, CacheInv, NoFetchLeftRunning, Ready
<1>1. ASSUME NEW f \in Fetches, StartFetch(u, f) PROVE IInv'
  BY <1>1 DEF StartFetch, Rendering
<1>2. CASE TextureReady(u)
  BY <1>2 DEF TextureReady, Rendering, threadVars
<1>3. CASE NothingReady(u)
  BY <1>3 DEF NothingReady, Rendering
<1> QED BY <1>1, <1>2, <1>3 DEF Frame

\* The thread of a fetch.
LEMMA ThreadInv ==
  ASSUME IInv, NEW f \in Fetches, Thread(f)
  PROVE  IInv'
<1> USE NoneAssumption
    DEF IInv, TypeOK, OneFetchPerImage, TasksInv, CacheInv, NoFetchLeftRunning, Ready,
        rendererVars
<1>1. CASE HttpGet(f)
  BY <1>1, OutagesAssumption DEF HttpGet, curlAlive
<1>2. CASE HttpGetWithoutCurl(f)
  BY <1>2 DEF HttpGetWithoutCurl
<1>3. CASE ReadDevice(f)
  BY <1>3 DEF ReadDevice
<1>4. CASE CreateTexture(f)
  BY <1>4 DEF CreateTexture
<1> QED BY <1>1, <1>2, <1>3, <1>4 DEF Thread

\* WinMain; the renderer's destructor has waited for every future, and by
\* OneFetchPerImage no thread is without one.
LEMMA MainInv ==
  ASSUME IInv, TurnPage \/ ReleaseDevice \/ Exit
  PROVE  IInv'
<1> USE NoneAssumption
    DEF IInv, TypeOK, OneFetchPerImage, TasksInv, CacheInv, NoFetchLeftRunning, Ready,
        rendererVars, threadVars
<1>1. CASE ReleaseDevice \/ LeaveWinMain
  BY <1>1 DEF ReleaseDevice, LeaveWinMain
<1>3. CASE TurnPage
  <2>1. showing' \in BOOLEAN
    BY <1>3, Zenon DEF TurnPage
  <2>2. UNCHANGED <<winMain, images, imageDownloadTasks, fetch, url, outages>>
    BY <1>3 DEF TurnPage
  <2> QED BY <2>1, <2>2
<1>2. CASE DestroyRenderer
  BY <1>2 DEF DestroyRenderer
<1> QED BY <1>1, <1>2, <1>3 DEF Exit

LEMMA NextInv == IInv /\ [Next]_vars => IInv'
<1> SUFFICES ASSUME IInv, [Next]_vars PROVE IInv'
  OBVIOUS
<1>1. CASE UNCHANGED vars
  BY <1>1 DEF vars, rendererVars, threadVars, IInv, TypeOK, OneFetchPerImage, TasksInv,
              CacheInv, NoFetchLeftRunning
<1>2. CASE Next
  BY <1>2, FrameInv, ThreadInv, MainInv DEF Next
<1> QED BY <1>1, <1>2

LEMMA Invariance == Spec => []IInv
BY InitInv, NextInv, PTL DEF Spec

\* Type correctness for any number of images and threads.
THEOREM TypeCorrect == Spec => []TypeOK
<1>1. IInv => TypeOK BY DEF IInv
<1> QED BY <1>1, Invariance, PTL

\* Get-image on every frame never has two fetches of one image on the way.
THEOREM FetchedOnce == Spec => []OneFetchPerImage
<1>1. IInv => OneFetchPerImage BY DEF IInv
<1> QED BY <1>1, Invariance, PTL

\* When the process ends, the renderer has waited for every fetch.
THEOREM FetchesJoined == Spec => []NoFetchLeftRunning
<1>1. IInv => NoFetchLeftRunning BY DEF IInv
<1> QED BY <1>1, Invariance, PTL

\* A cached image is kept and never requested again.
THEOREM CacheKept == Spec => CachedIsKept
<1> DEFINE Kept == \A u \in images :
                     /\ u \in images'
                     /\ \A f \in Fetches : url'[f] = u => url[f] = u
<1>1. IInv /\ [Next]_vars => [Kept]_vars
  <2> SUFFICES ASSUME IInv, Next PROVE Kept
    OBVIOUS
  <2> USE NoneAssumption DEF IInv, TypeOK, CacheInv
  <2>1. ASSUME NEW u \in Urls, Frame(u) PROVE Kept
    <3>1. ASSUME NEW f \in Fetches, StartFetch(u, f) PROVE Kept
      BY <3>1 DEF StartFetch
    <3>2. CASE TextureReady(u)
      BY <3>2 DEF TextureReady, threadVars
    <3>3. CASE NothingReady(u)
      BY <3>3 DEF NothingReady
    <3> QED BY <2>1, <3>1, <3>2, <3>3 DEF Frame
  <2>2. ASSUME NEW f \in Fetches, Thread(f) PROVE Kept
    BY <2>2 DEF Thread, HttpGet, HttpGetWithoutCurl, ReadDevice, CreateTexture, rendererVars
  <2>3. CASE TurnPage \/ ReleaseDevice \/ Exit
    BY <2>3 DEF TurnPage, ReleaseDevice, Exit, LeaveWinMain, DestroyRenderer,
                rendererVars, threadVars
  <2> QED BY <2>1, <2>2, <2>3 DEF Next
<1> QED BY <1>1, Invariance, PTL DEF Spec, CachedIsKept
=============================================================================
