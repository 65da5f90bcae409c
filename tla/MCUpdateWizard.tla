--------------------------- MODULE MCUpdateWizard ---------------------------
(***************************************************************************)
(* Small instance of the wizard: a two-chunk asset, two attempts per call, *)
(* releases with and without a declared size and a checksum.               *)
(***************************************************************************)
EXTENDS UpdateWizard

MCDeclaredSizes == {NoSize, 2}
=============================================================================
