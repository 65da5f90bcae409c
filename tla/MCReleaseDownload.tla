------------------------- MODULE MCReleaseDownload -------------------------
(***************************************************************************)
(* Small instance of the download worker: a three-chunk asset, error pages *)
(* of one chunk, three attempts per call, and a manifest that declares no  *)
(* size, the right one, one that is too small, or zero.                    *)
(***************************************************************************)
EXTENDS ReleaseDownload

MCDeclaredSizes == {NoSize, 0, 2, 3}

\* The claim about failed writes is checked for releases that declare no size.
MCNoDeclaredSize == {NoSize}
=============================================================================
