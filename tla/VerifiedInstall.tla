--------------------------- MODULE VerifiedInstall ---------------------------
(***************************************************************************)
(* What the wizard promises about the downloaded payload, whatever its     *)
(* pages, tasks and retries do: an installation starts only from a payload *)
(* that was verified, the payload does not change between its verification *)
(* and the end of the installation (it may be discarded when the updater   *)
(* shuts down), and with a checksum in the manifest only the very asset is *)
(* ever trusted.  This is the promise of docs/SECURE_UPDATE_PIPELINE.md,   *)
(* "When a checksum is present it must match before the setup is           *)
(* executed", stated without a single detail of the updater.               *)
(***************************************************************************)
CONSTANTS
  Payloads,               \* what the local file can hold
  Nothing,                \* no payload
  Genuine                 \* the payload the manifest's checksum stands for

VARIABLES
  pinned,                 \* the manifest has a checksum for the payload
  payload,
  trusted,                \* the payload was verified
  installing

vars == <<pinned, payload, trusted, installing>>

Init ==
  /\ pinned \in BOOLEAN
  /\ payload = Nothing
  /\ trusted = FALSE /\ installing = FALSE

\* A download changes the payload only while nobody relies on it.
Download ==
  /\ ~trusted /\ ~installing
  /\ payload' \in Payloads
  /\ UNCHANGED <<pinned, trusted, installing>>

Trust ==
  /\ ~trusted
  /\ pinned => payload = Genuine
  /\ trusted' = TRUE
  /\ UNCHANGED <<pinned, payload, installing>>

\* A new round begins: the payload has to be verified again.
Distrust ==
  /\ trusted /\ ~installing
  /\ trusted' = FALSE
  /\ UNCHANGED <<pinned, payload, installing>>

Install ==
  /\ trusted /\ ~installing
  /\ installing' = TRUE
  /\ UNCHANGED <<pinned, payload, trusted>>

Finish ==
  /\ installing
  /\ installing' = FALSE
  /\ UNCHANGED <<pinned, payload, trusted>>

Discard ==
  /\ payload' = Nothing
  /\ trusted' = FALSE
  /\ UNCHANGED <<pinned, installing>>

Next == Download \/ Trust \/ Distrust \/ Install \/ Finish \/ Discard

Spec == Init /\ [][Next]_vars
=============================================================================
