---------------------------- MODULE MCSelfUpdater ----------------------------
(***************************************************************************)
(* Small instance of the self-updater: two instances at a time.            *)
(***************************************************************************)
EXTENDS SelfUpdater
=============================================================================
