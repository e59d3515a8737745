--------------------------- MODULE MCProcessSynchro ----------------------------
(* ProcessSynchro for TLC.                                                 *)
EXTENDS ProcessSynchro
=============================================================================
