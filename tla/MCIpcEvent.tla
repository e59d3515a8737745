------------------------------ MODULE MCIpcEvent ------------------------------
(* Every test after every other, on machines with one and with two         *)
(* devices.                                                                *)
EXTENDS IpcEvent
=============================================================================
