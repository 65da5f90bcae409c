---------------------------- MODULE MCUpdaterRuns ----------------------------
(***************************************************************************)
(* Small instance of the runs: two processes, so that a copy and its       *)
(* origin, or two independent runs, overlap; two queries of the busy       *)
(* state.                                                                  *)
(***************************************************************************)
EXTENDS UpdaterRuns

MCCommandLines == {{}, {"--install"}, {"--uninstall"}, {"--purge-postpone"},
                   {"--silent-update", "--ignore-postpone"}}
=============================================================================
