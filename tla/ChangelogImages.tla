--------------------------- MODULE ChangelogImages ---------------------------
(***************************************************************************)
(* The images of the changelog.  On every frame the renderer looks each    *)
(* image of the release summary up in its cache, starts a detached fetch   *)
(* for one it does not have, and takes over the texture of a fetch that is *)
(* ready.  The renderer is a static object: it outlives WinMain, and its   *)
(* destructor waits for the fetches, which by then find no Direct3D device *)
(* and no libcurl any more.                                                *)
(*                                                                         *)
(* Left out: the pixels, the links under an image, wait_for(1 ms) other    *)
(* than by its answer.                                                     *)
(***************************************************************************)
EXTENDS Naturals, FiniteSets

CONSTANTS
  Urls,                   \* images of the release summary
  Loadable,               \* those that the site has and that are images
  Fetches,                \* slots for threads of std::async
  none,                   \* no future for a URL
  MaxOutages              \* bound: requests for a loadable image that fail

ASSUME LoadableAssumption == Loadable \subseteq Urls
ASSUME NoneAssumption == none \notin Fetches \cup Urls
ASSUME OutagesAssumption == MaxOutages \in Nat

VARIABLES
  winMain,                \* how far WinMain is
  showing,                \* the page with the summary is the current one
  images,                 \* keys of _images
  imageDownloadTasks,     \* the future kept for a URL
  fetch,                  \* what the thread of a slot does
  url,                    \* for which image
  outages

rendererVars == <<images, imageDownloadTasks>>
threadVars == <<fetch, url>>
vars == <<winMain, showing, rendererVars, threadVars, outages>>

Ready == {"texture", "nothing"}

Init ==
  /\ winMain = "loop" /\ showing = TRUE
  /\ images = {}
  /\ imageDownloadTasks = [u \in Urls |-> none]
  /\ fetch = [f \in Fetches |-> "idle"]
  /\ url = [f \in Fetches |-> none]
  /\ outages = 0

Rendering == winMain = "loop" /\ showing
deviceAlive == winMain = "loop"
curlAlive == winMain \in {"loop", "cfgAlive"}

-----------------------------------------------------------------------------
(* Mutated forms of definitions below, for checking that the properties can *)
(* fail; no specification uses them.                                       *)

\* The cache is filled but never asked first.
StartFetchOfCached(u, f) ==
  /\ Rendering
  /\ imageDownloadTasks[u] # none => fetch[imageDownloadTasks[u]] = "texture"
  /\ fetch[f] = "idle"
  /\ fetch' = [fetch EXCEPT ![f] = "httpGet"]
  /\ url' = [url EXCEPT ![f] = u]
  /\ imageDownloadTasks' = [imageDownloadTasks EXCEPT ![u] = f]
  /\ UNCHANGED <<winMain, showing, images, outages>>

\* A new future whenever the cache has no image.
StartFetchOnEveryFrame(u, f) ==
  /\ Rendering /\ u \notin images
  /\ fetch[f] = "idle"
  /\ fetch' = [fetch EXCEPT ![f] = "httpGet"]
  /\ url' = [url EXCEPT ![f] = u]
  /\ imageDownloadTasks' = [imageDownloadTasks EXCEPT ![u] = f]
  /\ UNCHANGED <<winMain, showing, images, outages>>

\* The future of a failed fetch is kept.
NothingReadyKept(u) ==
  /\ Rendering /\ u \notin images /\ imageDownloadTasks[u] # none
  /\ fetch[imageDownloadTasks[u]] = "nothing"
  /\ UNCHANGED vars

\* Threads that nobody waits for.
DestroyWithoutJoin ==
  /\ winMain = "returned"
  /\ winMain' = "ended"
  /\ UNCHANGED <<showing, rendererVars, threadVars, outages>>

\* A fetch that hands its texture to the frame loop.
CreateTextureInFrame(f) ==
  /\ fetch[f] = "creating" /\ winMain = "loop"
  /\ \/ url[f] \in Loadable /\ fetch' = [fetch EXCEPT ![f] = "texture"]
     \/ url[f] \notin Loadable /\ fetch' = [fetch EXCEPT ![f] = "nothing"]
  /\ UNCHANGED <<winMain, showing, rendererVars, url, outages>>

-----------------------------------------------------------------------------
(* GetImageTexture for image u, on a frame. *)

\* No image and no future: std::async.
StartFetch(u, f) ==
  /\ Rendering /\ u \notin images /\ imageDownloadTasks[u] = none
  /\ fetch[f] = "idle"
  /\ fetch' = [fetch EXCEPT ![f] = "httpGet"]
  /\ url' = [url EXCEPT ![f] = u]
  /\ imageDownloadTasks' = [imageDownloadTasks EXCEPT ![u] = f]
  /\ UNCHANGED <<winMain, showing, images, outages>>

\* The texture is cached; the future is kept, though never asked again.
TextureReady(u) ==
  /\ Rendering /\ u \notin images /\ imageDownloadTasks[u] # none
  /\ fetch[imageDownloadTasks[u]] = "texture"
  /\ images' = images \cup {u}
  /\ UNCHANGED <<winMain, showing, imageDownloadTasks, threadVars, outages>>

\* "retry on next frame".
NothingReady(u) ==
  /\ Rendering /\ u \notin images /\ imageDownloadTasks[u] # none
  /\ LET f == imageDownloadTasks[u]
     IN /\ fetch[f] = "nothing"
        /\ fetch' = [fetch EXCEPT ![f] = "idle"]
        /\ url' = [url EXCEPT ![f] = none]
  /\ imageDownloadTasks' = [imageDownloadTasks EXCEPT ![u] = none]
  /\ UNCHANGED <<winMain, showing, images, outages>>

-----------------------------------------------------------------------------
(* DownloadImageTexture, on the thread of slot f. *)

\* HttpGet ends, with a body and status 200 or with anything else.
HttpGet(f) ==
  /\ fetch[f] = "httpGet" /\ curlAlive
  /\ \/ fetch' = [fetch EXCEPT ![f] = "answered"] /\ UNCHANGED outages
     \/ /\ fetch' = [fetch EXCEPT ![f] = "nothing"]
        /\ IF url[f] \in Loadable
           THEN outages < MaxOutages /\ outages' = outages + 1
           ELSE UNCHANGED outages
  /\ UNCHANGED <<winMain, showing, rendererVars, url>>

\* A transfer in a library that was cleaned up under it: undefined.
HttpGetWithoutCurl(f) ==
  /\ fetch[f] = "httpGet" /\ winMain = "returned"
  /\ \/ fetch' = [fetch EXCEPT ![f] = "answered"] /\ UNCHANGED winMain
     \/ fetch' = [fetch EXCEPT ![f] = "nothing"] /\ UNCHANGED winMain
     \/ winMain' = "crashed" /\ UNCHANGED fetch
  /\ UNCHANGED <<showing, rendererVars, url, outages>>

\* The pointer to the device is read; the decoder refuses a null pointer.
ReadDevice(f) ==
  /\ fetch[f] = "answered" /\ winMain # "crashed"
  /\ fetch' = [fetch EXCEPT ![f] = IF deviceAlive THEN "creating" ELSE "nothing"]
  /\ UNCHANGED <<winMain, showing, rendererVars, url, outages>>

\* CreateWICTextureFromMemory; with a device released since, undefined.
CreateTexture(f) ==
  /\ fetch[f] = "creating" /\ winMain # "crashed"
  /\ \/ url[f] \in Loadable /\ fetch' = [fetch EXCEPT ![f] = "texture"] /\ UNCHANGED winMain
     \/ /\ url[f] \notin Loadable \/ ~deviceAlive
        /\ fetch' = [fetch EXCEPT ![f] = "nothing"] /\ UNCHANGED winMain
     \/ ~deviceAlive /\ winMain' = "crashed" /\ UNCHANGED fetch
  /\ UNCHANGED <<showing, rendererVars, url, outages>>

-----------------------------------------------------------------------------
(* WinMain and the end of the process. *)

\* The wizard goes to another page or comes back.
TurnPage ==
  /\ winMain = "loop"
  /\ showing' = ~showing
  /\ UNCHANGED <<winMain, rendererVars, threadVars, outages>>

\* WM_QUIT, and CleanupDeviceD3D after the loop.
ReleaseDevice ==
  /\ winMain = "loop"
  /\ winMain' = "cfgAlive"
  /\ UNCHANGED <<showing, rendererVars, threadVars, outages>>

\* The locals of WinMain go: cfg, then curlppGuard, which ends libcurl.
LeaveWinMain ==
  /\ winMain = "cfgAlive"
  /\ winMain' = "returned"
  /\ UNCHANGED <<showing, rendererVars, threadVars, outages>>

\* The static renderer goes: each future of std::async waits for its thread.
DestroyRenderer ==
  /\ winMain = "returned"
  /\ \A u \in Urls : imageDownloadTasks[u] # none => fetch[imageDownloadTasks[u]] \in Ready
  /\ winMain' = "ended"
  /\ UNCHANGED <<showing, rendererVars, threadVars, outages>>

Frame(u) == (\E f \in Fetches : StartFetch(u, f)) \/ TextureReady(u) \/ NothingReady(u)
Thread(f) == HttpGet(f) \/ HttpGetWithoutCurl(f) \/ ReadDevice(f) \/ CreateTexture(f)
Exit == LeaveWinMain \/ DestroyRenderer

Next ==
  \/ \E u \in Urls : Frame(u)
  \/ \E f \in Fetches : Thread(f)
  \/ TurnPage \/ ReleaseDevice \/ Exit

\* Every frame draws every image; libcurl gives up on a connection after 10
\* and on a stalled transfer after 5 seconds; WinMain's cleanup does not wait.
Fairness ==
  /\ \A u \in Urls : WF_vars(Frame(u))
  /\ \A f \in Fetches : WF_vars(Thread(f))
  /\ WF_vars(Exit)

Spec == Init /\ [][Next]_vars /\ Fairness

-----------------------------------------------------------------------------
(* Properties. *)

\* Types of the variables; a thread knows its image as long as it is not idle.
TypeOK ==
  /\ winMain \in {"loop", "cfgAlive", "returned", "ended", "crashed"}
  /\ showing \in BOOLEAN
  /\ images \subseteq Urls
  /\ imageDownloadTasks \in [Urls -> Fetches \cup {none}]
  /\ fetch \in [Fetches -> {"idle", "httpGet", "answered", "creating"} \cup Ready]
  /\ url \in [Fetches -> Urls \cup {none}]
  /\ \A f \in Fetches : fetch[f] = "idle" <=> url[f] = none
  /\ outages \in 0..MaxOutages

\* "we only download it once": the frames, sixty a second, never have two
\* fetches of one image on the way, and a fetch is never lost to its future.
OneFetchPerImage ==
  \A f \in Fetches : fetch[f] # "idle" => imageDownloadTasks[url[f]] = f

\* An image once shown is shown on every later frame without a request.
CachedIsKept ==
  [][\A u \in images :
       /\ u \in images'
       /\ \A f \in Fetches : url'[f] = u => url[f] = u]_vars

\* The process ends with no thread of a fetch left running.
NoFetchLeftRunning ==
  winMain = "ended" => \A f \in Fetches : fetch[f] \in Ready \cup {"idle"}

\* An image that the site has is shown in the end, whatever requests failed
\* before, if the user stays on the page.
LoadableShown ==
  \A u \in Loadable : <>[]Rendering => <>(u \in images)

\* A closed window ends the process: the wait of the renderer's destructor
\* for its fetches comes to an end.
ProcessEnds == winMain = "cfgAlive" ~> winMain \in {"ended", "crashed"}

\* main.cpp: "curlpp/libcurl global state must outlive all network activity,
\* including async image fetches that run on detached futures owned by the
\* static changelog renderer in markdown.cpp".
CurlOutlivesFetches ==
  ~curlAlive => \A f \in Fetches : fetch[f] # "httpGet"
=============================================================================
