----------------------------- MODULE MCEventReader ----------------------------
(* run_read_events_in_separate_thread_test on two devices.                 *)
EXTENDS EventReader
=============================================================================
