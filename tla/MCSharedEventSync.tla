--------------------------- MODULE MCSharedEventSync ---------------------------
(* SharedEventSync for TLC.                                                *)
EXTENDS SharedEventSync
=============================================================================
