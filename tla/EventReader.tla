------------------------------ MODULE EventReader -----------------------------
(***************************************************************************)
(* run_read_events_in_separate_thread_test and                             *)
(* read_and_verify_events_debugger_thread (test_debug.cpp) with            *)
(* check_event and find_stopped_threads (test_debug_utils.cpp), and the    *)
(* application run_long_kernel (test_debug_helper.cpp), all of             *)
(* conformance_tests/tools/debug/src.                                      *)
(*                                                                         *)
(* For each device in turn the debugger's main thread attaches to a new    *)
(* application and hands the debug events over to a thread of its own.     *)
(* Two flags with a mutex and a condition variable each keep the two in    *)
(* step: the thread tells that the module is loaded, the main thread tells *)
(* that it has interrupted the kernel.  The thread then ends the kernel by *)
(* clearing the first byte of the kernel's buffer.  The flags are globals  *)
(* that nothing resets.                                                    *)
(*                                                                         *)
(* A wait with a predicate is one step here, since each flag is set and    *)
(* notified under its mutex; the signals are those of Signals.  The driver *)
(* is external: it queues events, holds back a module's creation until its *)
(* load event is acknowledged, and stops a running kernel some time after  *)
(* an interrupt.                                                           *)
(***************************************************************************)
EXTENDS Naturals, Sequences

CONSTANT NumDevices

(* The test runs on every device there is, and there is one.               *)
ASSUME DevicesAssumption == NumDevices \in Nat \ {0}

VARIABLES
    dev,                            \* the device of the current iteration
    debugger_signal, debugee_signal,
    gpu_buffer_address,             \* shared, Null until set
    module_loaded, interrupt_sent,  \* the globals
    at, gpu_buffer_va,              \* the debugger's main thread
    reader, attempts,               \* the event thread
    pc,                             \* the application
    module, kernel, zeroed,         \* on the device: the module, the kernel, its buffer
    events,                         \* queued for the debugger
    interrupted                     \* for which device the main thread last did

signals == <<debugger_signal, debugee_signal>>
globals == <<module_loaded, interrupt_sent>>
main == <<dev, at, gpu_buffer_va>>
thread == <<reader, attempts>>
device == <<module, kernel, zeroed, events>>
vars == <<signals, gpu_buffer_address, globals, main, thread, pc, device, interrupted>>

Devices == 1..NumDevices

(* The buffer of the kernel that runs on d; 0 is no address.               *)
Null == 0
AddressOf(d) == d

NoDevice == 0
MaxAttempts == 5

Init ==
    /\ dev = 1 /\ at = "clear" /\ gpu_buffer_va = Null
    /\ debugger_signal = FALSE /\ debugee_signal = FALSE /\ gpu_buffer_address = Null
    /\ module_loaded = FALSE /\ interrupt_sent = FALSE
    /\ reader = "off" /\ attempts = 0
    /\ pc = "exited"
    /\ module = "none" /\ kernel = "none" /\ zeroed = FALSE /\ events = <<>>
    /\ interrupted = NoDevice

-----------------------------------------------------------------------------
(* The debugger's main thread.                                             *)

(* It clears the signal the last application left set and launches the     *)
(* next one, whose command queue makes the process known to the debugger.  *)
LaunchAndAttach ==
    /\ at = "clear"
    /\ debugger_signal' = FALSE
    /\ pc' = "awaitAttach"
    /\ module' = "none" /\ kernel' = "none" /\ zeroed' = FALSE /\ events' = <<"entry">>
    /\ at' = "notify"
    /\ UNCHANGED <<dev, debugee_signal, gpu_buffer_address, globals, gpu_buffer_va, thread, interrupted>>

NotifyApplication ==
    /\ at = "notify"
    /\ debugger_signal' = TRUE
    /\ at' = "spawn"
    /\ UNCHANGED <<dev, debugee_signal, gpu_buffer_address, globals, gpu_buffer_va, thread, pc, device, interrupted>>

SpawnReader ==
    /\ at = "spawn"
    /\ gpu_buffer_va' = Null
    /\ reader' = "entry" /\ attempts' = 0
    /\ at' = "awaitAddress"
    /\ UNCHANGED <<dev, signals, gpu_buffer_address, globals, pc, device, interrupted>>

AwaitAddress ==
    /\ at = "awaitAddress"
    /\ debugee_signal
    /\ at' = "getAddress"
    /\ UNCHANGED <<dev, signals, gpu_buffer_address, globals, gpu_buffer_va, thread, pc, device, interrupted>>

GetAddress ==
    /\ at = "getAddress"
    /\ gpu_buffer_va' = gpu_buffer_address
    /\ at' = "clearSignal"
    /\ UNCHANGED <<dev, signals, gpu_buffer_address, globals, thread, pc, device, interrupted>>

ClearForgotten == debugee_signal
Cleared == FALSE

ClearApplicationSignal ==
    /\ at = "clearSignal"
    /\ debugee_signal' = Cleared
    /\ at' = "awaitLoad"
    /\ UNCHANGED <<dev, debugger_signal, gpu_buffer_address, globals, gpu_buffer_va, thread, pc, device, interrupted>>

AwaitModuleLoad ==
    /\ at = "awaitLoad"
    /\ module_loaded
    /\ at' = "interrupt"
    /\ UNCHANGED <<dev, signals, gpu_buffer_address, globals, gpu_buffer_va, thread, pc, device, interrupted>>

(* After a sleep of 60 s, which promises nothing: a kernel that does not   *)
(* run yet, or no more, is not stopped.                                    *)
Interrupt ==
    /\ at = "interrupt"
    /\ kernel' = IF kernel = "running" THEN "stopping" ELSE kernel
    /\ interrupted' = dev
    /\ at' = "tell"
    /\ UNCHANGED <<dev, signals, gpu_buffer_address, globals, gpu_buffer_va, thread, pc, module, zeroed, events>>

InterruptNotTold == interrupt_sent
InterruptTold == TRUE

TellInterruptSent ==
    /\ at = "tell"
    /\ interrupt_sent' = InterruptTold
    /\ at' = "awaitExit"
    /\ UNCHANGED <<dev, signals, gpu_buffer_address, module_loaded, gpu_buffer_va, thread, pc, device, interrupted>>

(* debugHelper.wait(), join(), debug_detach, and the exit code: a kernel   *)
(* that came to its loop_max makes the application exit with 1.            *)
JoinAndDetach ==
    /\ at = "awaitExit"
    /\ pc = "exited"
    /\ reader \in {"done", "failed"}
    /\ reader' = "off"
    /\ IF kernel = "expired" THEN at' = "failed" /\ dev' = dev
       ELSE IF dev < NumDevices THEN at' = "clear" /\ dev' = dev + 1
       ELSE at' = "done" /\ dev' = dev
    /\ UNCHANGED <<signals, gpu_buffer_address, globals, gpu_buffer_va, attempts, pc, device, interrupted>>

-----------------------------------------------------------------------------
(* The event thread.                                                       *)

(* check_events: the events it expects, each where it expects it.          *)
Expected == [entry |-> "entry", load |-> "load", unload |-> "unload", exit |-> "exit"]
AfterEvent == [entry |-> "load", load |-> "tellLoaded", unload |-> "exit", exit |-> "done"]

(* An event that needs an acknowledgement gets it, expected or not.        *)
CheckEvent ==
    /\ reader \in DOMAIN Expected
    /\ events # <<>>
    /\ reader' = IF Head(events) = Expected[reader] THEN AfterEvent[reader] ELSE "failed"
    /\ module' = IF Head(events) = "load" THEN "loaded" ELSE module
    /\ events' = Tail(events)
    /\ UNCHANGED <<signals, gpu_buffer_address, globals, main, attempts, pc, kernel, zeroed, interrupted>>

(* A read times out on an event that is not about to come: the kernel      *)
(* still runs on, or is stopped, or find_stopped_threads took the event.   *)
CheckTimesOut ==
    /\ reader = "unload"
    /\ events = <<>>
    /\ kernel \in {"none", "running", "stopped"} \/ pc = "exited"
    /\ reader' = "failed"
    /\ UNCHANGED <<signals, gpu_buffer_address, globals, main, attempts, pc, device, interrupted>>

TellModuleLoaded ==
    /\ reader = "tellLoaded"
    /\ module_loaded' = TRUE
    /\ reader' = "awaitInterrupt"
    /\ UNCHANGED <<signals, gpu_buffer_address, interrupt_sent, main, attempts, pc, device, interrupted>>

AwaitInterrupt ==
    /\ reader = "awaitInterrupt"
    /\ interrupt_sent
    /\ reader' = "find"
    /\ UNCHANGED <<signals, gpu_buffer_address, globals, main, attempts, pc, device, interrupted>>

(* find_stopped_threads reads until the event or for MaxAttempts reads;    *)
(* nothing found is only logged.                                           *)
LastAttempt(n) == n >= MaxAttempts

Attempt(found) ==
    /\ attempts' = IF found THEN attempts ELSE attempts + 1
    /\ reader' = IF found \/ LastAttempt(attempts + 1) THEN "write" ELSE "find"

FindStopped ==
    /\ reader = "find"
    /\ events # <<>>
    /\ events' = Tail(events)
    /\ Attempt(Head(events) = "stopped")
    /\ UNCHANGED <<signals, gpu_buffer_address, globals, main, pc, module, kernel, zeroed, interrupted>>

FindTimesOut ==
    /\ reader = "find"
    /\ events = <<>>
    /\ kernel # "stopping"
    /\ Attempt(FALSE)
    /\ UNCHANGED <<signals, gpu_buffer_address, globals, main, pc, device, interrupted>>

(* A write elsewhere than to the kernel's buffer does not end it.          *)
WriteBuffer ==
    /\ reader = "write"
    /\ zeroed' = (zeroed \/ gpu_buffer_va = AddressOf(dev))
    /\ reader' = "resume"
    /\ UNCHANGED <<signals, gpu_buffer_address, globals, main, attempts, pc, module, kernel, events, interrupted>>

Resume ==
    /\ reader = "resume"
    /\ kernel' = IF kernel = "stopped" THEN "running" ELSE kernel
    /\ reader' = "unload"
    /\ UNCHANGED <<signals, gpu_buffer_address, globals, main, attempts, pc, module, zeroed, events, interrupted>>

-----------------------------------------------------------------------------
(* The application, run_long_kernel.                                       *)

(* The module is loaded before the debugger is told anything.              *)
NextPartNotifiesFirst == [awaitAttach |-> "update", creating |-> "execute", notify |-> "create"]
NextPart == [awaitAttach |-> "create", creating |-> "update", notify |-> "execute"]

AwaitDebugger ==
    /\ pc = "awaitAttach"
    /\ debugger_signal
    /\ pc' = NextPart[pc]
    /\ UNCHANGED <<signals, gpu_buffer_address, globals, main, thread, device, interrupted>>

CreateModule ==
    /\ pc = "create"
    /\ module' = "loading" /\ events' = Append(events, "load")
    /\ pc' = "creating"
    /\ UNCHANGED <<signals, gpu_buffer_address, globals, main, thread, kernel, zeroed, interrupted>>

ModuleIsCreated ==
    /\ pc = "creating"
    /\ module = "loaded"
    /\ pc' = NextPart[pc]
    /\ UNCHANGED <<signals, gpu_buffer_address, globals, main, thread, device, interrupted>>

UpdateAddress ==
    /\ pc = "update"
    /\ gpu_buffer_address' = AddressOf(dev)
    /\ pc' = "notify"
    /\ UNCHANGED <<signals, globals, main, thread, device, interrupted>>

NotifyDebugger ==
    /\ pc = "notify"
    /\ debugee_signal' = TRUE
    /\ pc' = NextPart[pc]
    /\ UNCHANGED <<debugger_signal, gpu_buffer_address, globals, main, thread, device, interrupted>>

(* The command list first copies the source buffer, which has no zero in   *)
(* its first byte, over the buffer the kernel reads.                       *)
Execute ==
    /\ pc = "execute"
    /\ kernel' = "running" /\ zeroed' = FALSE
    /\ pc' = "synchronize"
    /\ UNCHANGED <<signals, gpu_buffer_address, globals, main, thread, module, events, interrupted>>

SynchronizeAndExit ==
    /\ pc = "synchronize"
    /\ kernel \in {"ended", "expired"}
    /\ events' = events \o <<"unload", "exit">>
    /\ module' = "none"
    /\ pc' = "exited"
    /\ UNCHANGED <<signals, gpu_buffer_address, globals, main, thread, kernel, zeroed, interrupted>>

-----------------------------------------------------------------------------
(* The device.                                                             *)

KernelStops ==
    /\ kernel = "stopping"
    /\ kernel' = "stopped" /\ events' = Append(events, "stopped")
    /\ UNCHANGED <<signals, gpu_buffer_address, globals, main, thread, pc, module, zeroed, interrupted>>

(* A kernel ends because its buffer says so, or at loop_max.               *)
KernelEnds ==
    /\ kernel = "running"
    /\ kernel' = IF zeroed THEN "ended" ELSE "expired"
    /\ UNCHANGED <<signals, gpu_buffer_address, globals, main, thread, pc, module, zeroed, events, interrupted>>

-----------------------------------------------------------------------------
MainStep ==
    \/ LaunchAndAttach \/ NotifyApplication \/ SpawnReader \/ AwaitAddress \/ GetAddress
    \/ ClearApplicationSignal \/ AwaitModuleLoad \/ Interrupt \/ TellInterruptSent
    \/ JoinAndDetach

ReaderStep ==
    \/ CheckEvent \/ CheckTimesOut \/ TellModuleLoaded \/ AwaitInterrupt
    \/ FindStopped \/ FindTimesOut \/ WriteBuffer \/ Resume

ApplicationStep ==
    \/ AwaitDebugger \/ CreateModule \/ ModuleIsCreated \/ UpdateAddress
    \/ NotifyDebugger \/ Execute \/ SynchronizeAndExit

DeviceStep == KernelStops \/ KernelEnds

Next == MainStep \/ ReaderStep \/ ApplicationStep \/ DeviceStep

(* Both threads and the application run, an interrupt stops the kernel, and *)
(* a kernel that runs on comes to its end.                                 *)
Spec ==
    /\ Init /\ [][Next]_vars
    /\ WF_vars(MainStep) /\ WF_vars(ReaderStep) /\ WF_vars(ApplicationStep) /\ WF_vars(DeviceStep)

-----------------------------------------------------------------------------
TypeOK ==
    /\ dev \in Devices
    /\ at \in {"clear", "notify", "spawn", "awaitAddress", "getAddress", "clearSignal", "awaitLoad",
               "interrupt", "tell", "awaitExit", "done", "failed"}
    /\ debugger_signal \in BOOLEAN /\ debugee_signal \in BOOLEAN
    /\ module_loaded \in BOOLEAN /\ interrupt_sent \in BOOLEAN /\ zeroed \in BOOLEAN
    /\ {gpu_buffer_address, gpu_buffer_va} \subseteq {AddressOf(d) : d \in Devices} \cup {Null}
    /\ reader \in {"off", "entry", "load", "tellLoaded", "awaitInterrupt", "find", "write", "resume",
                   "unload", "exit", "done", "failed"}
    /\ attempts \in 0..MaxAttempts
    /\ pc \in {"awaitAttach", "create", "creating", "update", "notify", "execute", "synchronize", "exited"}
    /\ module \in {"none", "loading", "loaded"}
    /\ kernel \in {"none", "running", "stopping", "stopped", "ended", "expired"}
    /\ events \in Seq({"entry", "load", "stopped", "unload", "exit"})
    /\ interrupted \in Devices \cup {NoDevice}

(* On every device the main thread interrupts only after the event thread  *)
(* has acknowledged this device's module load, although module_loaded may  *)
(* be left over from the device before: the application's signal, which    *)
(* the main thread consumes first, comes after the acknowledgement too.    *)
InterruptsLoadedModule ==
    at \in {"interrupt", "tell"} => module = "loaded" \/ pc = "exited"

(* Whatever the event thread reads from gpu_buffer_va, it is never the     *)
(* address of another device's buffer.                                     *)
NotAnotherBuffer ==
    reader \in {"entry", "load", "tellLoaded", "awaitInterrupt", "find", "write"} =>
        gpu_buffer_va \in {Null, AddressOf(dev)}

(* What each of the four waits for before its next step.                   *)
MainMayGoOn ==
    /\ at \notin {"done", "failed"}
    /\ at = "awaitAddress" => debugee_signal
    /\ at = "awaitLoad" => module_loaded
    /\ at = "awaitExit" => pc = "exited" /\ reader \in {"done", "failed"}

ReaderMayGoOn ==
    /\ reader \notin {"off", "done", "failed"}
    /\ reader \in {"entry", "load", "exit"} => events # <<>>
    /\ reader = "unload" => events # <<>> \/ kernel \in {"none", "running", "stopped"} \/ pc = "exited"
    /\ reader = "awaitInterrupt" => interrupt_sent
    /\ reader = "find" => events # <<>> \/ kernel # "stopping"

ApplicationMayGoOn ==
    /\ pc # "exited"
    /\ pc = "awaitAttach" => debugger_signal
    /\ pc = "creating" => module = "loaded"
    /\ pc = "synchronize" => kernel \in {"ended", "expired"}

DeviceMayGoOn == kernel \in {"stopping", "running"}

(* On the first device, with flags nobody has set before, the threads, the *)
(* application and the kernel never all wait for each other.               *)
NothingStalls ==
    dev = 1 /\ at \notin {"done", "failed"} =>
        MainMayGoOn \/ ReaderMayGoOn \/ ApplicationMayGoOn \/ DeviceMayGoOn

(* For its first device the test ends: it goes on to the next device or    *)
(* reports the application's exit code.                                    *)
FirstDeviceEnds == <>(dev > 1 \/ at \in {"done", "failed"})

(* "Event read thread waiting for interrupt to be sent"                    *)
(* (test_debug.cpp:1023): the event thread looks for stopped threads only  *)
(* after the main thread has interrupted this device.                      *)
WaitsForInterrupt == reader \in {"find", "write", "resume"} => interrupted = dev
=============================================================================
