--------------------------- MODULE MCIndirectAccess ---------------------------
(* A small instance of IndirectAccess for TLC.                             *)
EXTENDS IndirectAccess
=============================================================================
