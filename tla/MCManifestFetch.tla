--------------------------- MODULE MCManifestFetch ---------------------------
(***************************************************************************)
(* Small instance of the manifest retrieval: a primary URL and a fallback  *)
(* of every kind, two attempts each, three manifests of every quality.     *)
(***************************************************************************)
EXTENDS ManifestFetch

MCAllQualities == {"good", "unnumbered", "malformed", "badUrl"}
=============================================================================
