-------------------------- MODULE MCChangelogImages --------------------------
(***************************************************************************)
(* Small instance: three images, of which the site has two, a slot more    *)
(* than there are images, and an outage that fails two requests.           *)
(***************************************************************************)
EXTENDS ChangelogImages
=============================================================================
