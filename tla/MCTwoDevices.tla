------------------------------ MODULE MCTwoDevices -----------------------------
(* TwoDevices for TLC; nothing has to be bounded.                          *)
EXTENDS TwoDevices
=============================================================================
