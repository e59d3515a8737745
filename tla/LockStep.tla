-------------------------------- MODULE LockStep -------------------------------
(***************************************************************************)
(* What run_proc_entry_exit_test of conformance_tests/tools/debug/src/     *)
(* test_debug.cpp relies on: on every device the application creates and   *)
(* then destroys all its command queues, a few times over, and the         *)
(* debugger observes each of these operations before the next one starts.  *)
(***************************************************************************)
EXTENDS Naturals, Sequences

CONSTANTS numCQs, Loops

VARIABLES
    device, loop,
    live,             \* queues that exist
    rising,           \* whether queues are being created
    turn              \* who has to move

vars == <<device, loop, live, rising, turn>>

totalNumCQs == numCQs[device]

Init ==
    /\ device = 1 /\ loop = 0 /\ live = 0 /\ rising = TRUE
    /\ turn = "application"

Operate ==
    /\ turn = "application"
    /\ loop < Loops
    /\ live' = IF rising THEN live + 1 ELSE live - 1
    /\ turn' = "debugger"
    /\ UNCHANGED <<device, loop, rising>>

Observe ==
    /\ turn = "debugger"
    /\ turn' = "application"
    /\ rising' = IF rising THEN live < totalNumCQs ELSE live = 0
    /\ loop' = IF ~rising /\ live = 0 THEN loop + 1 ELSE loop
    /\ UNCHANGED <<device, live>>

NextDevice ==
    /\ loop = Loops /\ live = 0
    /\ device < Len(numCQs)
    /\ device' = device + 1
    /\ loop' = 0
    /\ UNCHANGED <<live, rising, turn>>

Next == Operate \/ Observe \/ NextDevice

Spec == Init /\ [][Next]_vars
=============================================================================
