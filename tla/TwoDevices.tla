------------------------------- MODULE TwoDevices ------------------------------
(***************************************************************************)
(* run_multidevice_single_application_test (test_debug.cpp) with its two   *)
(* event threads, wait_for_events_interrupt_and_resume                     *)
(* (test_debug_utils.cpp), and the application use_two_devices             *)
(* (test_debug_helper.cpp), all of conformance_tests/tools/debug/src.      *)
(*                                                                         *)
(* The application runs a long kernel on two devices.  It hands the        *)
(* debugger the address of each kernel's buffer through one shared field,  *)
(* so the debugger has to take the first before the second is written.     *)
(* One event thread per device interrupts the kernel and ends it by        *)
(* clearing the first byte of its buffer.  An event thread that gives up   *)
(* after the interrupt leaves the kernel stopped.                          *)
(*                                                                         *)
(* The signals are those of Signals.  The driver is external: the events   *)
(* of entry and load come in time, a module is created once its load event *)
(* is acknowledged, an interrupt stops a kernel that runs, and a kernel    *)
(* that runs on comes to its loop_max.                                     *)
(***************************************************************************)
EXTENDS Naturals

Devices == 0..1

VARIABLES
    debugger_signal, debugee_signal,
    gpu_buffer_address,     \* shared, 0 until set
    at, gpu_buffer_va, address_valid,       \* the debugger's main thread
    reader,                 \* the event threads
    pc,                     \* the application
    kernel                  \* what the driver knows of each device's module and kernel

signals == <<debugger_signal, debugee_signal>>
main == <<at, gpu_buffer_va, address_valid>>
vars == <<signals, gpu_buffer_address, main, reader, pc, kernel>>

(* Any two addresses will do; 0 is none.                                   *)
Null == 0
AddressOf(d) == d + 1
Addresses == {AddressOf(d) : d \in Devices}

InitialAddress == Null

Init ==
    /\ debugger_signal = FALSE /\ debugee_signal = FALSE
    /\ gpu_buffer_address = InitialAddress
    /\ at = "attach" /\ gpu_buffer_va = [d \in Devices |-> Null] /\ address_valid = FALSE
    /\ reader = [d \in Devices |-> "off"]
    /\ pc = "awaitAttach"
    /\ kernel = [d \in Devices |-> "none"]

-----------------------------------------------------------------------------
(* The debugger's main thread.                                             *)

NotifyAttached ==
    /\ at = "attach"
    /\ debugger_signal' = TRUE
    /\ at' = "spawn"
    /\ UNCHANGED <<debugee_signal, gpu_buffer_address, gpu_buffer_va, address_valid, reader, pc, kernel>>

SpawnThreads ==
    /\ at = "spawn"
    /\ reader' = [d \in Devices |-> "events"]
    /\ at' = "await0"
    /\ UNCHANGED <<signals, gpu_buffer_address, gpu_buffer_va, address_valid, pc, kernel>>

AwaitAddress ==
    /\ at \in {"await0", "await1"}
    /\ debugee_signal
    /\ at' = IF at = "await0" THEN "get0" ELSE "get1"
    /\ UNCHANGED <<signals, gpu_buffer_address, gpu_buffer_va, address_valid, reader, pc, kernel>>

GetAddress ==
    /\ at \in {"get0", "get1"}
    /\ gpu_buffer_va' = [gpu_buffer_va EXCEPT ![IF at = "get0" THEN 0 ELSE 1] = gpu_buffer_address]
    /\ at' = IF at = "get0" THEN "clear0" ELSE "clear1"
    /\ UNCHANGED <<signals, gpu_buffer_address, address_valid, reader, pc, kernel>>

ClearApplicationSignal ==
    /\ at \in {"clear0", "clear1"}
    /\ debugee_signal' = FALSE
    /\ at' = IF at = "clear0" THEN "notifyRead" ELSE "join"
    /\ address_valid' = (at = "clear1")
    /\ UNCHANGED <<debugger_signal, gpu_buffer_address, gpu_buffer_va, reader, pc, kernel>>

NotifyFirstRead ==
    /\ at = "notifyRead"
    /\ debugger_signal' = TRUE
    /\ at' = "await1"
    /\ UNCHANGED <<debugee_signal, gpu_buffer_address, gpu_buffer_va, address_valid, reader, pc, kernel>>

Join ==
    /\ at = "join"
    /\ \A d \in Devices : reader[d] \in {"done", "failed"}
    /\ pc = "exited"
    /\ at' = "done"
    /\ UNCHANGED <<signals, gpu_buffer_address, gpu_buffer_va, address_valid, reader, pc, kernel>>

-----------------------------------------------------------------------------
(* An event thread.                                                        *)

ReadEvents(d) ==
    /\ reader[d] = "events"
    /\ kernel[d] = "loading"
    /\ kernel' = [kernel EXCEPT ![d] = "loaded"]
    /\ reader' = [reader EXCEPT ![d] = "interrupt"]
    /\ UNCHANGED <<signals, gpu_buffer_address, main, pc>>

(* After a fixed sleep; nothing stops if the kernel does not run.  The     *)
(* search for stopped threads may also give up on a kernel that was        *)
(* stopped: its event is late, or no thread is listed.                     *)
Interrupt(d) ==
    /\ reader[d] = "interrupt"
    /\ \/ kernel[d] = "running"
          /\ kernel' = [kernel EXCEPT ![d] = "stopped"]
          /\ \E found \in {"write", "failed"} : reader' = [reader EXCEPT ![d] = found]
       \/ kernel[d] # "running"
          /\ reader' = [reader EXCEPT ![d] = "failed"] /\ UNCHANGED kernel
    /\ UNCHANGED <<signals, gpu_buffer_address, main, pc>>

(* The loop "while (!address_valid)" tests the pointer and waits for       *)
(* nothing.  The byte written is read back; unless it is 0 the thread      *)
(* leaves without debug_resume, which is always so at address 0.  At any   *)
(* other address it is the driver's choice, as is what is then resumed:    *)
(* the thread written through and resumed is that of an event that was     *)
(* never assigned (:709).  A write elsewhere does not end the kernel.      *)
WriteAndResume(d) ==
    /\ reader[d] = "write"
    /\ \E zero \in {FALSE, gpu_buffer_va[d] # Null}, resumed \in BOOLEAN :
          /\ reader' = [reader EXCEPT ![d] = IF zero THEN "done" ELSE "failed"]
          /\ \/ zero /\ resumed
                /\ kernel' = [kernel EXCEPT ![d] = IF gpu_buffer_va[d] = AddressOf(d) THEN "ending" ELSE "running"]
             \/ ~(zero /\ resumed) /\ UNCHANGED kernel
    /\ UNCHANGED <<signals, gpu_buffer_address, main, pc>>

-----------------------------------------------------------------------------
(* The application.                                                        *)

AwaitDebugger ==
    /\ pc \in {"awaitAttach", "awaitRead"}
    /\ debugger_signal
    /\ pc' = IF pc = "awaitAttach" THEN "load0" ELSE "update1"
    /\ UNCHANGED <<signals, gpu_buffer_address, main, reader, kernel>>

(* set_up_work creates the module; the next step needs it acknowledged.    *)
SetUpWork(d) ==
    /\ pc = <<"load0", "load1">>[d + 1]
    /\ kernel' = [kernel EXCEPT ![d] = "loading"]
    /\ pc' = <<"loading0", "loading1">>[d + 1]
    /\ UNCHANGED <<signals, gpu_buffer_address, main, reader>>

WorkIsSetUp(d) ==
    /\ pc = <<"loading0", "loading1">>[d + 1]
    /\ kernel[d] = "loaded"
    /\ pc' = <<"load1", "update0">>[d + 1]
    /\ UNCHANGED <<signals, gpu_buffer_address, main, reader, kernel>>

UpdateAddress(d) ==
    /\ pc = <<"update0", "update1">>[d + 1]
    /\ gpu_buffer_address' = AddressOf(d)
    /\ pc' = <<"notify0", "notify1">>[d + 1]
    /\ UNCHANGED <<signals, main, reader, kernel>>

AfterFirstNotifySkipsWait == "update1"
AfterFirstNotify == "clear"

NotifyDebuggerOnce(d) ==
    /\ pc = <<"notify0", "notify1">>[d + 1]
    /\ debugee_signal' = (debugee_signal \/ d = 0)
    /\ pc' = <<AfterFirstNotify, "execute0">>[d + 1]
    /\ UNCHANGED <<debugger_signal, gpu_buffer_address, main, reader, kernel>>

NotifyDebugger(d) ==
    /\ pc = <<"notify0", "notify1">>[d + 1]
    /\ debugee_signal' = TRUE
    /\ pc' = <<AfterFirstNotify, "execute0">>[d + 1]
    /\ UNCHANGED <<debugger_signal, gpu_buffer_address, main, reader, kernel>>

ClearDebuggerSignal ==
    /\ pc = "clear"
    /\ debugger_signal' = FALSE
    /\ pc' = "awaitRead"
    /\ UNCHANGED <<debugee_signal, gpu_buffer_address, main, reader, kernel>>

Execute(d) ==
    /\ pc = <<"execute0", "execute1">>[d + 1]
    /\ kernel' = [kernel EXCEPT ![d] = "running"]
    /\ pc' = <<"execute1", "synchronize">>[d + 1]
    /\ UNCHANGED <<signals, gpu_buffer_address, main, reader>>

Synchronize ==
    /\ pc = "synchronize"
    /\ \A d \in Devices : kernel[d] = "ended"
    /\ pc' = "exited"
    /\ UNCHANGED <<signals, gpu_buffer_address, main, reader, kernel>>

(* A kernel ends because its buffer says so or at loop_max.                *)
KernelEnds(d) ==
    /\ kernel[d] \in {"running", "ending"}
    /\ kernel' = [kernel EXCEPT ![d] = "ended"]
    /\ UNCHANGED <<signals, gpu_buffer_address, main, reader, pc>>

-----------------------------------------------------------------------------
MainStep ==
    \/ NotifyAttached \/ SpawnThreads \/ AwaitAddress \/ GetAddress
    \/ ClearApplicationSignal \/ NotifyFirstRead \/ Join

ReaderStep(d) == ReadEvents(d) \/ Interrupt(d) \/ WriteAndResume(d)

ApplicationStep ==
    \/ AwaitDebugger \/ ClearDebuggerSignal \/ Synchronize
    \/ \E d \in Devices : SetUpWork(d) \/ WorkIsSetUp(d) \/ UpdateAddress(d) \/ NotifyDebugger(d) \/ Execute(d)

Next ==
    \/ MainStep \/ ApplicationStep
    \/ \E d \in Devices : ReaderStep(d) \/ KernelEnds(d)

(* Every thread and process runs, and every kernel ends sooner or later.   *)
Spec ==
    /\ Init /\ [][Next]_vars
    /\ WF_vars(MainStep) /\ WF_vars(ApplicationStep)
    /\ \A d \in Devices : WF_vars(ReaderStep(d)) /\ WF_vars(KernelEnds(d))

-----------------------------------------------------------------------------
TypeOK ==
    /\ debugger_signal \in BOOLEAN /\ debugee_signal \in BOOLEAN /\ address_valid \in BOOLEAN
    /\ gpu_buffer_address \in Addresses \cup {Null}
    /\ gpu_buffer_va \in [Devices -> Addresses \cup {Null}]
    /\ reader \in [Devices -> {"off", "events", "interrupt", "write", "done", "failed"}]
    /\ kernel \in [Devices -> {"none", "loading", "loaded", "running", "stopped", "ending", "ended"}]

(* The one shared address field: the debugger takes each address for the   *)
(* device it belongs to, and takes the first before the second overwrites  *)
(* it.                                                                     *)
AddressesKeptApart ==
    /\ \A d \in Devices : gpu_buffer_va[d] \in {Null, AddressOf(d)}
    /\ address_valid => \A d \in Devices : gpu_buffer_va[d] = AddressOf(d)

(* The application has cleared the notification it now waits for.          *)
Lost == pc = "awaitRead" /\ ~debugger_signal /\ at = "await1"

(* An event thread is through and its kernel is still stopped.             *)
LeftStopped == \E d \in Devices : kernel[d] = "stopped" /\ reader[d] \in {"done", "failed"}

(* What each of them waits for before its next step.                       *)
MainMayGoOn ==
    /\ at # "done"
    /\ at \in {"await0", "await1"} => debugee_signal
    /\ at = "join" => pc = "exited" /\ \A d \in Devices : reader[d] \in {"done", "failed"}

ReaderMayGoOn(d) == reader[d] \in {"interrupt", "write"} \/ (reader[d] = "events" /\ kernel[d] = "loading")

ApplicationMayGoOn ==
    /\ pc # "exited"
    /\ pc \in {"awaitAttach", "awaitRead"} => debugger_signal
    /\ pc = "loading0" => kernel[0] = "loaded"
    /\ pc = "loading1" => kernel[1] = "loaded"
    /\ pc = "synchronize" => \A d \in Devices : kernel[d] = "ended"

(* Two things can stop the test before its end: the cleared signal, and a  *)
(* kernel that an event thread leaves stopped, for which the application   *)
(* waits in Job::synchronize and the main thread in debugHelper.wait().    *)
NothingElseStalls ==
    \/ at = "done" \/ Lost \/ LeftStopped
    \/ MainMayGoOn \/ ApplicationMayGoOn
    \/ \E d \in Devices : ReaderMayGoOn(d) \/ kernel[d] \in {"running", "ending"}

(* The test ends, whatever the event threads meet, unless one of the two   *)
(* happens: no order of the two addresses, the two interrupts and the two  *)
(* kernels leaves anybody else waiting.                                    *)
EndsUnlessLostOrStopped == <>(at = "done") \/ <>[]Lost \/ <>[]LeftStopped

(* "Waiting for debugger to signal it read first address"                  *)
(* (test_debug_helper.cpp:890): the application gets this signal.          *)
ReadIsSignaled == (at = "await1") ~> (pc \notin {"clear", "awaitRead"})
=============================================================================
