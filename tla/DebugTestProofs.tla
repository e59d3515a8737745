---------------------------- MODULE DebugTestProofs ----------------------------
(***************************************************************************)
(* Two tests of tools/debug in which a debugger's main thread, its event   *)
(* threads and an application pass addresses on with nothing but flags.    *)
(*                                                                         *)
(* First EventReader for any number of devices.  The flags module_loaded   *)
(* and interrupt_sent say nothing after the first device; what keeps the   *)
(* main thread and the application together is the application's one       *)
(* signal for each device, which Turns describes.                          *)
(*                                                                         *)
(* Then TwoDevices, whose variables have the same names; the two tests     *)
(* never run together, and a theorem is about the behaviors of one.  Two   *)
(* addresses pass through one field.  No lock guards it, only the order of *)
(* the notifications.  Handshake says where the debugger may be while the  *)
(* application is at each of its steps, and with that the first address is *)
(* never overwritten before the debugger has taken it.                     *)
(***************************************************************************)
EXTENDS EventReader, SequenceTheorems, TLAPS

VARIABLE address_valid      \* of TwoDevices only

Two == INSTANCE TwoDevices

-----------------------------------------------------------------------------
(* EventReader.                                                            *)

(* The application before and after its signal; the main thread between    *)
(* two devices, before it has taken the address and after that.            *)
BeforeSignal == {"awaitAttach", "create", "creating", "update", "notify"}
AfterSignal == {"execute", "synchronize", "exited"}
Between == {"clear", "done", "failed"}
Taking == {"getAddress", "clearSignal"}
HasTaken == {"awaitLoad", "interrupt", "tell", "awaitExit"}

Turns ==
    /\ at \in Between => pc = "exited" /\ ~debugee_signal
    /\ at = "notify" => pc = "awaitAttach" /\ ~debugger_signal
    /\ at \in {"notify", "spawn", "awaitAddress"} => (debugee_signal <=> pc \in AfterSignal)
    /\ at \in Taking => debugee_signal /\ pc \in AfterSignal
    /\ at \in HasTaken => ~debugee_signal /\ pc \in AfterSignal
    /\ at \in Between \cup {"notify", "spawn"} => reader = "off"

(* The module is there while the application uses it, and the address that *)
(* is passed is that of this device from the update to the next launch.    *)
Loaded == pc \in {"update", "notify", "execute", "synchronize"} => module = "loaded"

Passed ==
    /\ at \notin Between /\ pc \in {"notify"} \cup AfterSignal => gpu_buffer_address = AddressOf(dev)
    /\ at \in {"awaitAddress", "getAddress"} => gpu_buffer_va = Null
    /\ at \in {"clearSignal"} \cup HasTaken => gpu_buffer_va = AddressOf(dev)

(* The search for the stopped thread has attempts left.                    *)
AttemptsLeft ==
    /\ reader \in {"entry", "load", "tellLoaded", "awaitInterrupt"} => attempts = 0
    /\ reader = "find" => attempts < MaxAttempts

Inv == TypeOK /\ Turns /\ Loaded /\ Passed /\ AttemptsLeft

-----------------------------------------------------------------------------
(* At the start nothing runs and nothing was passed.                       *)
LEMMA InvInit == Init => Inv
<1> SUFFICES ASSUME Init PROVE Inv
  OBVIOUS
<1>1. TypeOK
  <2>1. events \in Seq({"entry", "load", "stopped", "unload", "exit"})
    BY DEF Init
  <2>2. /\ debugger_signal \in BOOLEAN /\ debugee_signal \in BOOLEAN
        /\ module_loaded \in BOOLEAN /\ interrupt_sent \in BOOLEAN /\ zeroed \in BOOLEAN
    BY DEF Init
  <2>3. dev \in Devices
    BY DevicesAssumption DEF Init, Devices
  <2>4. /\ gpu_buffer_address = Null /\ gpu_buffer_va = Null /\ interrupted = NoDevice
        /\ at = "clear" /\ reader = "off" /\ attempts = 0 /\ pc = "exited"
        /\ module = "none" /\ kernel = "none"
    BY DEF Init
  <2> QED
    BY <2>1, <2>2, <2>3, <2>4 DEF TypeOK, MaxAttempts
<1>2. Turns /\ Loaded /\ Passed /\ AttemptsLeft
  BY DEF Init, Turns, Loaded, Passed, AttemptsLeft, BeforeSignal, AfterSignal, Between, Taking,
         HasTaken
<1> QED
  BY <1>1, <1>2 DEF Inv

(* The main thread goes from one device to the next only when the          *)
(* application is gone and its signal is cleared.                          *)
LEMMA MainKeepsInv == Inv /\ MainStep => Inv'
<1> SUFFICES ASSUME Inv, MainStep PROVE Inv'
  OBVIOUS
<1> USE DevicesAssumption
        DEF Inv, TypeOK, Turns, Loaded, Passed, AttemptsLeft, BeforeSignal, AfterSignal, Between,
            Taking, HasTaken, Devices, AddressOf, Null, NoDevice, MaxAttempts
<1>1. CASE LaunchAndAttach
  <2>1. events' \in Seq({"entry", "load", "stopped", "unload", "exit"})
    BY <1>1 DEF LaunchAndAttach, signals, globals, main, thread, device
  <2>2. TypeOK'
    BY <1>1, <2>1 DEF LaunchAndAttach, signals, globals, main, thread, device
  <2>3. Turns' /\ Loaded' /\ AttemptsLeft'
    BY <1>1 DEF LaunchAndAttach, signals, globals, main, thread, device
  <2>4. Passed'
    BY <1>1 DEF LaunchAndAttach, signals, globals, main, thread, device
  <2> QED
    BY <2>2, <2>3, <2>4
<1>2. CASE NotifyApplication
  BY <1>2 DEF NotifyApplication, signals, globals, main, thread, device
<1>3. CASE SpawnReader
  BY <1>3 DEF SpawnReader, signals, globals, main, thread, device
<1>4. CASE AwaitAddress
  BY <1>4 DEF AwaitAddress, signals, globals, main, thread, device
<1>5. CASE GetAddress
  BY <1>5 DEF GetAddress, signals, globals, main, thread, device
<1>6. CASE ClearApplicationSignal
  <2>1. events' \in Seq({"entry", "load", "stopped", "unload", "exit"})
    BY <1>6 DEF ClearApplicationSignal, Cleared, signals, globals, main, thread, device
  <2>2. TypeOK'
    <3>1. debugee_signal' \in BOOLEAN
      BY <1>6 DEF ClearApplicationSignal, Cleared
    <3> QED
      BY <1>6, <2>1, <3>1 DEF ClearApplicationSignal, signals, globals, main, thread, device
  <2>3. Turns' /\ Loaded' /\ AttemptsLeft'
    BY <1>6 DEF ClearApplicationSignal, Cleared, signals, globals, main, thread, device
  <2>4. Passed'
    BY <1>6 DEF ClearApplicationSignal, Cleared, signals, globals, main, thread, device
  <2> QED
    BY <2>2, <2>3, <2>4
<1>7. CASE AwaitModuleLoad
  BY <1>7 DEF AwaitModuleLoad, signals, globals, main, thread, device
<1>8. CASE Interrupt
  BY <1>8 DEF Interrupt, signals, globals, main, thread, device
<1>9. CASE TellInterruptSent
  BY <1>9 DEF TellInterruptSent, InterruptTold, signals, globals, main, thread, device
<1>10. CASE JoinAndDetach
  BY <1>10 DEF JoinAndDetach, signals, globals, main, thread, device
<1> QED
  BY <1>1, <1>2, <1>3, <1>4, <1>5, <1>6, <1>7, <1>8, <1>9, <1>10 DEF MainStep

(* The event thread changes neither the signals nor the addresses.         *)
LEMMA ReaderKeepsInv == Inv /\ ReaderStep => Inv'
<1> SUFFICES ASSUME Inv, ReaderStep PROVE Inv'
  OBVIOUS
<1> USE DevicesAssumption
        DEF Inv, TypeOK, Turns, Loaded, Passed, AttemptsLeft, BeforeSignal, AfterSignal, Between,
            Taking, HasTaken, Devices, AddressOf, Null, NoDevice, MaxAttempts
<1>1. CASE CheckEvent
  BY <1>1 DEF CheckEvent, Expected, AfterEvent, signals, globals, main, thread, device
<1>2. CASE CheckTimesOut
  BY <1>2 DEF CheckTimesOut, signals, globals, main, thread, device
<1>3. CASE TellModuleLoaded
  BY <1>3 DEF TellModuleLoaded, signals, globals, main, thread, device
<1>4. CASE AwaitInterrupt
  BY <1>4 DEF AwaitInterrupt, signals, globals, main, thread, device
<1>5. CASE FindStopped
  BY <1>5 DEF FindStopped, Attempt, LastAttempt, signals, globals, main, thread, device
<1>6. CASE FindTimesOut
  BY <1>6 DEF FindTimesOut, Attempt, LastAttempt, signals, globals, main, thread, device
<1>7. CASE WriteBuffer
  BY <1>7 DEF WriteBuffer, signals, globals, main, thread, device
<1>8. CASE Resume
  BY <1>8 DEF Resume, signals, globals, main, thread, device
<1> QED
  BY <1>1, <1>2, <1>3, <1>4, <1>5, <1>6, <1>7, <1>8 DEF ReaderStep

(* The application waits for its module before it tells of its buffer.     *)
LEMMA ApplicationKeepsInv == Inv /\ ApplicationStep => Inv'
<1> SUFFICES ASSUME Inv, ApplicationStep PROVE Inv'
  OBVIOUS
<1> USE DevicesAssumption
        DEF Inv, TypeOK, Turns, Loaded, Passed, AttemptsLeft, BeforeSignal, AfterSignal, Between,
            Taking, HasTaken, Devices, AddressOf, Null, NoDevice, MaxAttempts
<1>1. CASE AwaitDebugger
  BY <1>1 DEF AwaitDebugger, NextPart, signals, globals, main, thread, device
<1>2. CASE CreateModule
  BY <1>2 DEF CreateModule, signals, globals, main, thread, device
<1>3. CASE ModuleIsCreated
  BY <1>3 DEF ModuleIsCreated, NextPart, signals, globals, main, thread, device
<1>4. CASE UpdateAddress
  BY <1>4 DEF UpdateAddress, signals, globals, main, thread, device
<1>5. CASE NotifyDebugger
  BY <1>5 DEF NotifyDebugger, NextPart, signals, globals, main, thread, device
<1>6. CASE Execute
  <2>1. events' \in Seq({"entry", "load", "stopped", "unload", "exit"})
    BY <1>6 DEF Execute, signals, globals, main, thread, device
  <2>2. TypeOK'
    <3>1. zeroed' \in BOOLEAN /\ pc' = "synchronize" /\ kernel' = "running"
      BY <1>6 DEF Execute
    <3>2. UNCHANGED <<signals, gpu_buffer_address, globals, main, thread, module, events, interrupted>>
      BY <1>6 DEF Execute
    <3> QED
      BY <2>1, <3>1, <3>2 DEF signals, globals, main, thread
  <2>3. Turns' /\ Loaded' /\ AttemptsLeft'
    BY <1>6 DEF Execute, signals, globals, main, thread, device
  <2>4. Passed'
    BY <1>6 DEF Execute, signals, globals, main, thread, device
  <2> QED
    BY <2>2, <2>3, <2>4
<1>7. CASE SynchronizeAndExit
  BY <1>7 DEF SynchronizeAndExit, signals, globals, main, thread, device
<1> QED
  BY <1>1, <1>2, <1>3, <1>4, <1>5, <1>6, <1>7 DEF ApplicationStep

(* The device raises events and ends kernels.                              *)
LEMMA DeviceKeepsInv == Inv /\ DeviceStep => Inv'
<1> SUFFICES ASSUME Inv, DeviceStep PROVE Inv'
  OBVIOUS
<1> USE DevicesAssumption
        DEF Inv, TypeOK, Turns, Loaded, Passed, AttemptsLeft, BeforeSignal, AfterSignal, Between,
            Taking, HasTaken, Devices, AddressOf, Null, NoDevice, MaxAttempts
<1>1. CASE KernelStops
  BY <1>1 DEF KernelStops, signals, globals, main, thread, device
<1>2. CASE KernelEnds
  BY <1>2 DEF KernelEnds, signals, globals, main, thread, device
<1> QED
  BY <1>1, <1>2 DEF DeviceStep

(* Every step of the test.                                                 *)
LEMMA InvStep == Inv /\ [Next]_vars => Inv'
<1>1. Inv /\ UNCHANGED vars => Inv'
  BY DEF vars, signals, globals, main, thread, device, Inv, TypeOK, Turns, Loaded, Passed,
         AttemptsLeft
<1> QED
  BY <1>1, MainKeepsInv, ReaderKeepsInv, ApplicationKeepsInv, DeviceKeepsInv DEF Next

(* Types of both threads, the application and the device; the search for   *)
(* stopped threads never makes more than MaxAttempts attempts.             *)
THEOREM TypeCorrect == Spec => []TypeOK
<1>1. Inv => TypeOK
  BY DEF Inv
<1> QED
  BY InvInit, InvStep, <1>1, PTL DEF Spec

(* On every device the main thread interrupts only after this device's     *)
(* module was loaded, although module_loaded is left over from the device  *)
(* before.                                                                 *)
THEOREM InterruptsAreOfLoadedModules == Spec => []InterruptsLoadedModule
<1>1. Inv => InterruptsLoadedModule
  BY DEF Inv, Turns, Loaded, InterruptsLoadedModule, HasTaken, AfterSignal
<1> QED
  BY InvInit, InvStep, <1>1, PTL DEF Spec

(* What the event thread reads from gpu_buffer_va is nothing or the        *)
(* address of this device's buffer, never one left from another device.    *)
THEOREM BuffersAreOfThisDevice == Spec => []NotAnotherBuffer
<1>1. Inv => NotAnotherBuffer
  BY DEF Inv, TypeOK, Turns, Passed, NotAnotherBuffer, Between, HasTaken
<1> QED
  BY InvInit, InvStep, <1>1, PTL DEF Spec

-----------------------------------------------------------------------------
(* The first device of EventReader.  Nobody has set the two flags before,  *)
(* so each says what its name says (Flags); for each place of the event    *)
(* thread the events queued and the state of the module are known (Queue), *)
(* and a kernel is stopped only while the event thread is about to look    *)
(* for it or to resume it (Kernel).                                        *)
Flags ==
    /\ at = "clear" => ~module_loaded /\ ~interrupt_sent
    /\ at \notin Between =>
          /\ interrupt_sent <=> at = "awaitExit"
          /\ module_loaded <=> reader \notin {"off", "entry", "load", "tellLoaded"}
          /\ reader \notin {"off", "entry", "load", "tellLoaded", "awaitInterrupt"} => interrupt_sent
          /\ at \in {"interrupt", "tell", "awaitExit"} => module_loaded
          /\ at # "notify" => debugger_signal
          /\ at \notin {"notify", "spawn"} => reader # "off"

Unloaded(nothing, loading) ==
    \/ pc \in {"awaitAttach", "create"} /\ module = "none" /\ events = nothing
    \/ pc = "creating" /\ module = "loading" /\ events = loading

Queue ==
    at \notin Between =>
        /\ reader \in {"off", "entry"} => Unloaded(<<"entry">>, <<"entry", "load">>)
        /\ reader = "load" => Unloaded(<<>>, <<"load">>)
        /\ reader \notin {"off", "entry", "load"} =>
              pc \notin {"awaitAttach", "create"} /\ (pc = "exited" \/ module = "loaded")
        /\ reader \in {"tellLoaded", "awaitInterrupt", "find", "write", "resume", "unload"} =>
              IF pc = "exited" THEN events \in {<<"unload", "exit">>, <<"exit">>, <<>>}
              ELSE events = IF kernel = "stopped" /\ reader \notin {"write", "resume"}
                            THEN <<"stopped">> ELSE <<>>
        /\ reader = "exit" => pc = "exited" /\ events = <<"exit">>

Kernel ==
    at \notin Between =>
        /\ pc \in BeforeSignal \cup {"execute"} => kernel = "none"
        /\ pc = "synchronize" => kernel # "none"
        /\ pc = "exited" => kernel \in {"ended", "expired"}
        /\ kernel \in {"stopping", "stopped"} => at \in {"tell", "awaitExit"}
        /\ kernel = "stopping" => reader \in {"awaitInterrupt", "find"}
        /\ kernel = "stopped" => reader \in {"awaitInterrupt", "find", "write", "resume"}

FirstInv == dev = 1 => Flags /\ Queue /\ Kernel

(* The sequences of events that Queue names, and what steps make of them.  *)
LEMMA EventSequences ==
    /\ Append(<<>>, "load") = <<"load">> /\ Append(<<"entry">>, "load") = <<"entry", "load">>
    /\ Append(<<>>, "stopped") = <<"stopped">>
    /\ <<>> \o <<"unload", "exit">> = <<"unload", "exit">>
    /\ \A e \in {"entry", "load", "stopped", "exit"} : Head(<<e>>) = e /\ Tail(<<e>>) = <<>> /\ <<e>> # <<>>
    /\ Head(<<"entry", "load">>) = "entry" /\ Tail(<<"entry", "load">>) = <<"load">>
    /\ Head(<<"unload", "exit">>) = "unload" /\ Tail(<<"unload", "exit">>) = <<"exit">>
    /\ <<"entry", "load">> # <<>> /\ <<"unload", "exit">> # <<>>
<1>1. Append(<<>>, "load") = <<"load">> /\ Append(<<>>, "stopped") = <<"stopped">>
  OBVIOUS
<1>2. <<>> \o <<"unload", "exit">> = <<"unload", "exit">>
  <2>1. <<"unload", "exit">> \in Seq({"unload", "exit"})
    OBVIOUS
  <2> QED
    BY <2>1, ConcatEmptySeq
<1>3. \A e \in {"entry", "load", "stopped", "exit"} : Head(<<e>>) = e /\ Tail(<<e>>) = <<>> /\ <<e>> # <<>>
  OBVIOUS
<1>4. Head(<<"entry", "load">>) = "entry" /\ Tail(<<"entry", "load">>) = <<"load">>
  OBVIOUS
<1>5. Head(<<"unload", "exit">>) = "unload" /\ Tail(<<"unload", "exit">>) = <<"exit">>
  OBVIOUS
<1>6. Append(<<"entry">>, "load") = <<"entry", "load">>
  <2> DEFINE one == <<"entry">>
             two == <<"entry", "load">>
             longer == Append(one, "load")
  <2>1. one \in Seq({"entry", "load"}) /\ two \in Seq({"entry", "load"}) /\ Len(one) = 1 /\ one[1] = "entry"
    OBVIOUS
  <2>2. Len(two) = 2 /\ two[1] = "entry" /\ two[2] = "load"
    OBVIOUS
  <2>3. longer \in Seq({"entry", "load"}) /\ Len(longer) = 2 /\ longer[1] = "entry" /\ longer[2] = "load"
    BY <2>1, AppendProperties
  <2>4. \A i \in 1..2 : longer[i] = two[i]
    BY <2>2, <2>3
  <2> QED
    BY <2>1, <2>2, <2>3, <2>4, SeqEqual
<1> QED
  BY <1>1, <1>2, <1>3, <1>4, <1>5, <1>6

LEMMA FirstInit == Init => FirstInv
  BY DEF Init, FirstInv, Flags, Queue, Kernel, Between

(* The main thread interrupts only when the event thread waits for it.     *)
LEMMA MainKeepsFirst == Inv /\ FirstInv /\ MainStep => FirstInv'
<1> SUFFICES ASSUME Inv, FirstInv, MainStep, dev' = 1 PROVE (Flags /\ Queue /\ Kernel)'
  BY DEF FirstInv
<1> USE EventSequences
        DEF FirstInv, Flags, Queue, Kernel, Unloaded, Inv, TypeOK, Turns, BeforeSignal, AfterSignal,
            Between, Taking, HasTaken
<1>1. CASE LaunchAndAttach
  BY <1>1 DEF LaunchAndAttach, signals, globals, main, thread, device
<1>2. CASE NotifyApplication
  BY <1>2 DEF NotifyApplication, signals, globals, main, thread, device
<1>3. CASE SpawnReader
  BY <1>3 DEF SpawnReader, signals, globals, main, thread, device
<1>4. CASE AwaitAddress
  BY <1>4 DEF AwaitAddress, signals, globals, main, thread, device
<1>5. CASE GetAddress
  BY <1>5 DEF GetAddress, signals, globals, main, thread, device
<1>6. CASE ClearApplicationSignal
  BY <1>6 DEF ClearApplicationSignal, Cleared, signals, globals, main, thread, device
<1>7. CASE AwaitModuleLoad
  BY <1>7 DEF AwaitModuleLoad, signals, globals, main, thread, device
<1>8. CASE Interrupt
  BY <1>8 DEF Interrupt, signals, globals, main, thread, device
<1>9. CASE TellInterruptSent
  BY <1>9 DEF TellInterruptSent, InterruptTold, signals, globals, main, thread, device
<1>10. CASE JoinAndDetach
  <2>1. at' # "clear"
    BY <1>10, DevicesAssumption DEF JoinAndDetach, Devices
  <2> QED
    BY <1>10, <2>1 DEF JoinAndDetach, signals, globals, main, thread, device
<1> QED
  BY <1>1, <1>2, <1>3, <1>4, <1>5, <1>6, <1>7, <1>8, <1>9, <1>10 DEF MainStep

(* The event thread takes the events in the order they were raised.        *)
LEMMA ReaderKeepsFirst == Inv /\ FirstInv /\ ReaderStep => FirstInv'
<1> SUFFICES ASSUME Inv, FirstInv, ReaderStep, dev' = 1 PROVE (Flags /\ Queue /\ Kernel)'
  BY DEF FirstInv
<1> USE EventSequences
        DEF FirstInv, Flags, Queue, Kernel, Unloaded, Inv, TypeOK, Turns, BeforeSignal, AfterSignal,
            Between, Taking, HasTaken
<1>1. CASE CheckEvent
  <2>1. /\ UNCHANGED <<signals, gpu_buffer_address, globals, main, attempts, pc, kernel, zeroed, interrupted>>
        /\ events # <<>> /\ events' = Tail(events) /\ reader \in {"entry", "load", "unload", "exit"}
        /\ module' = IF Head(events) = "load" THEN "loaded" ELSE module
    BY <1>1 DEF CheckEvent, Expected
  <2>2. /\ reader = "entry" => reader' = IF Head(events) = "entry" THEN "load" ELSE "failed"
        /\ reader = "load" => reader' = IF Head(events) = "load" THEN "tellLoaded" ELSE "failed"
        /\ reader = "unload" => reader' = IF Head(events) = "unload" THEN "exit" ELSE "failed"
        /\ reader = "exit" => reader' = IF Head(events) = "exit" THEN "done" ELSE "failed"
    BY <1>1 DEF CheckEvent, Expected, AfterEvent
  <2>3. CASE reader = "entry"
    BY <2>1, <2>2, <2>3 DEF signals, globals, main
  <2>4. CASE reader = "load"
    BY <2>1, <2>2, <2>4 DEF signals, globals, main
  <2>5. CASE reader = "unload"
    BY <2>1, <2>2, <2>5 DEF signals, globals, main
  <2>6. CASE reader = "exit"
    BY <2>1, <2>2, <2>6 DEF signals, globals, main
  <2> QED
    BY <2>1, <2>3, <2>4, <2>5, <2>6
<1>2. CASE CheckTimesOut
  BY <1>2 DEF CheckTimesOut, signals, globals, main, thread, device
<1>3. CASE TellModuleLoaded
  BY <1>3 DEF TellModuleLoaded, signals, globals, main, thread, device
<1>4. CASE AwaitInterrupt
  BY <1>4 DEF AwaitInterrupt, signals, globals, main, thread, device
<1>5. CASE FindStopped
  BY <1>5 DEF FindStopped, Attempt, LastAttempt, signals, globals, main, thread, device
<1>6. CASE FindTimesOut
  BY <1>6 DEF FindTimesOut, Attempt, LastAttempt, signals, globals, main, thread, device
<1>7. CASE WriteBuffer
  BY <1>7 DEF WriteBuffer, signals, globals, main, thread, device
<1>8. CASE Resume
  BY <1>8 DEF Resume, signals, globals, main, thread, device
<1> QED
  BY <1>1, <1>2, <1>3, <1>4, <1>5, <1>6, <1>7, <1>8 DEF ReaderStep

(* The application raises events while the event thread waits for them.    *)
LEMMA ApplicationKeepsFirst == Inv /\ FirstInv /\ ApplicationStep => FirstInv'
<1> SUFFICES ASSUME Inv, FirstInv, ApplicationStep, dev' = 1 PROVE (Flags /\ Queue /\ Kernel)'
  BY DEF FirstInv
<1> USE EventSequences
        DEF FirstInv, Flags, Queue, Kernel, Unloaded, Inv, TypeOK, Turns, BeforeSignal, AfterSignal,
            Between, Taking, HasTaken
<1>1. CASE AwaitDebugger
  BY <1>1 DEF AwaitDebugger, NextPart, signals, globals, main, thread, device
<1>2. CASE CreateModule
  BY <1>2 DEF CreateModule, signals, globals, main, thread, device
<1>3. CASE ModuleIsCreated
  BY <1>3 DEF ModuleIsCreated, NextPart, signals, globals, main, thread, device
<1>4. CASE UpdateAddress
  BY <1>4 DEF UpdateAddress, signals, globals, main, thread, device
<1>5. CASE NotifyDebugger
  BY <1>5 DEF NotifyDebugger, NextPart, signals, globals, main, thread, device
<1>6. CASE Execute
  BY <1>6 DEF Execute, signals, globals, main, thread, device
<1>7. CASE SynchronizeAndExit
  BY <1>7 DEF SynchronizeAndExit, signals, globals, main, thread, device
<1> QED
  BY <1>1, <1>2, <1>3, <1>4, <1>5, <1>6, <1>7 DEF ApplicationStep

(* A kernel stops or ends only while it is watched.                        *)
LEMMA DeviceKeepsFirst == Inv /\ FirstInv /\ DeviceStep => FirstInv'
<1> SUFFICES ASSUME Inv, FirstInv, DeviceStep, dev' = 1 PROVE (Flags /\ Queue /\ Kernel)'
  BY DEF FirstInv
<1> USE EventSequences
        DEF FirstInv, Flags, Queue, Kernel, Unloaded, Inv, TypeOK, Turns, BeforeSignal, AfterSignal,
            Between, Taking, HasTaken
<1>1. CASE KernelStops
  BY <1>1 DEF KernelStops, signals, globals, main, thread, device
<1>2. CASE KernelEnds
  BY <1>2 DEF KernelEnds, signals, globals, main, thread, device
<1> QED
  BY <1>1, <1>2 DEF DeviceStep

LEMMA FirstStep == Inv /\ FirstInv /\ [Next]_vars => FirstInv'
<1>1. FirstInv /\ UNCHANGED vars => FirstInv'
  BY DEF vars, signals, globals, main, thread, device, FirstInv, Flags, Queue, Kernel, Unloaded
<1> QED
  BY <1>1, MainKeepsFirst, ReaderKeepsFirst, ApplicationKeepsFirst, DeviceKeepsFirst DEF Next

LEMMA FirstGoesOn == Inv /\ FirstInv => NothingStalls
<1> SUFFICES ASSUME Inv, FirstInv, dev = 1, at \notin {"done", "failed"},
                    ~MainMayGoOn, ~ApplicationMayGoOn, ~DeviceMayGoOn
             PROVE  ReaderMayGoOn
  BY DEF NothingStalls
<1> USE EventSequences
        DEF FirstInv, Flags, Queue, Kernel, Unloaded, Inv, TypeOK, Turns, BeforeSignal, AfterSignal,
            Between, Taking, HasTaken
<1>1. at \in {"awaitAddress", "awaitLoad", "awaitExit"}
  BY DEF MainMayGoOn
<1>2. pc \in {"creating", "synchronize", "exited"}
  BY <1>1 DEF ApplicationMayGoOn
<1>3. CASE pc = "creating"
  BY <1>1, <1>3 DEF ApplicationMayGoOn, ReaderMayGoOn
<1>4. CASE pc = "synchronize"
  <2>1. kernel = "stopped"
    BY <1>4, <1>1 DEF ApplicationMayGoOn, DeviceMayGoOn
  <2> QED
    BY <1>1, <1>4, <2>1 DEF MainMayGoOn, ReaderMayGoOn
<1>5. CASE pc = "exited"
  BY <1>1, <1>5 DEF MainMayGoOn, ReaderMayGoOn
<1> QED
  BY <1>2, <1>3, <1>4, <1>5

(* On the first device the main thread, the event thread, the application  *)
(* and the kernel never all wait for each other: every event the thread    *)
(* waits for is raised, every flag is set, and a kernel that was stopped   *)
(* is found and resumed.                                                   *)
THEOREM FirstDeviceNeverStalls == Spec => []NothingStalls
  BY InvInit, InvStep, FirstInit, FirstStep, FirstGoesOn, PTL DEF Spec

-----------------------------------------------------------------------------
(* TwoDevices.                                                             *)

(* The application's steps up to its first notification, between the two   *)
(* updates, and from its second notification on.                           *)
BeforeFirst == {"awaitAttach", "load0", "loading0", "load1", "loading1", "update0", "notify0"}
BetweenUpdates == {"clear", "awaitRead"}
AfterSecond == {"execute0", "execute1", "synchronize", "exited"}

Handshake ==
    /\ pc \in BeforeFirst \cup BetweenUpdates \cup {"update1", "notify1"} \cup AfterSecond
    /\ pc \in BeforeFirst => at \in {"attach", "spawn", "await0"} /\ ~debugee_signal
    /\ pc \in BetweenUpdates =>
        /\ at \in {"spawn", "await0", "get0", "clear0", "notifyRead", "await1"}
        /\ debugee_signal <=> at \in {"spawn", "await0", "get0", "clear0"}
    /\ at = "attach" => pc = "awaitAttach" /\ ~debugger_signal
    /\ pc = "awaitRead" /\ debugger_signal => at = "await1"
    /\ pc \in {"update1", "notify1"} => at = "await1" /\ ~debugee_signal
    /\ pc \in AfterSecond => at \in {"await1", "get1", "clear1", "join", "done"}

(* What the shared field holds, and what the debugger has taken from it.   *)
Field ==
    /\ pc \in {"notify0", "clear", "awaitRead", "update1"} => gpu_buffer_address = Two!AddressOf(0)
    /\ pc \in {"notify1"} \cup AfterSecond => gpu_buffer_address = Two!AddressOf(1)

BothTaken ==
    /\ gpu_buffer_va[0] =
           IF at \in {"attach", "spawn", "await0", "get0"} THEN Two!Null ELSE Two!AddressOf(0)
    /\ gpu_buffer_va[1] =
           IF at \in {"clear1", "join", "done"} THEN Two!AddressOf(1) ELSE Two!Null
    /\ address_valid => at \in {"join", "done"}

TwoInv == Two!TypeOK /\ Handshake /\ Field /\ BothTaken

-----------------------------------------------------------------------------
(* Nothing is set, taken or started at first.                              *)
LEMMA TwoInvInit == Two!Init => TwoInv
<1> SUFFICES ASSUME Two!Init PROVE TwoInv
  OBVIOUS
<1>1. Two!TypeOK
  BY DEF Two!Init, Two!InitialAddress, Two!TypeOK
<1>2. Handshake /\ Field
  BY DEF Two!Init, Handshake, Field, BeforeFirst, BetweenUpdates, AfterSecond
<1>3. BothTaken
  BY DEF Two!Init, BothTaken, Two!Devices
<1> QED
  BY <1>1, <1>2, <1>3 DEF TwoInv

(* Steps of the debugger's main thread.  A notification is seen only when  *)
(* the application is past the write it announces.                         *)
LEMMA MainKeepsTwoInv == TwoInv /\ Two!MainStep => TwoInv'
<1> SUFFICES ASSUME TwoInv, Two!MainStep PROVE TwoInv'
  OBVIOUS
<1> USE DEF TwoInv, Two!TypeOK, Handshake, Field, BothTaken, BeforeFirst, BetweenUpdates,
            AfterSecond, Two!Devices, Two!Addresses, Two!AddressOf, Two!Null
<1>1. CASE Two!NotifyAttached
  BY <1>1 DEF Two!NotifyAttached
<1>2. CASE Two!SpawnThreads
  BY <1>2 DEF Two!SpawnThreads, Two!signals
<1>3. CASE Two!AwaitAddress
  BY <1>3 DEF Two!AwaitAddress, Two!signals
<1>4. CASE Two!GetAddress
  BY <1>4 DEF Two!GetAddress, Two!signals
<1>5. CASE Two!ClearApplicationSignal
  BY <1>5 DEF Two!ClearApplicationSignal
<1>6. CASE Two!NotifyFirstRead
  BY <1>6 DEF Two!NotifyFirstRead
<1>7. CASE Two!Join
  BY <1>7 DEF Two!Join, Two!signals
<1> QED
  BY <1>1, <1>2, <1>3, <1>4, <1>5, <1>6, <1>7 DEF Two!MainStep

(* Steps of an event thread and of a kernel touch neither the signals nor  *)
(* the addresses.                                                          *)
LEMMA ReaderKeepsTwoInv ==
  ASSUME TwoInv, NEW d \in Two!Devices, Two!ReaderStep(d) \/ Two!KernelEnds(d)
  PROVE  TwoInv'
<1>1. Two!TypeOK' /\ UNCHANGED <<Two!signals, gpu_buffer_address, Two!main, pc>>
  <2>1. CASE Two!ReadEvents(d)
    BY <2>1 DEF Two!ReadEvents, TwoInv, Two!TypeOK, Two!signals, Two!main
  <2>2. CASE Two!Interrupt(d)
    BY <2>2 DEF Two!Interrupt, TwoInv, Two!TypeOK, Two!signals, Two!main
  <2>3. CASE Two!WriteAndResume(d)
    BY <2>3 DEF Two!WriteAndResume, TwoInv, Two!TypeOK, Two!signals, Two!main
  <2>4. CASE Two!KernelEnds(d)
    BY <2>4 DEF Two!KernelEnds, TwoInv, Two!TypeOK, Two!signals, Two!main
  <2> QED
    BY <2>1, <2>2, <2>3, <2>4 DEF Two!ReaderStep
<1> QED
  BY <1>1 DEF TwoInv, Handshake, Field, BothTaken, Two!signals, Two!main

(* Steps of the application.  It waits between the two writes until the    *)
(* debugger, which answers only what it has read, is past the first.       *)
LEMMA ApplicationKeepsTwoInv == TwoInv /\ Two!ApplicationStep => TwoInv'
<1> SUFFICES ASSUME TwoInv, Two!ApplicationStep PROVE TwoInv'
  OBVIOUS
<1> USE DEF TwoInv, Two!TypeOK, Handshake, Field, BothTaken, BeforeFirst, BetweenUpdates,
            AfterSecond, Two!Devices, Two!Addresses, Two!AddressOf, Two!Null
<1>1. CASE Two!AwaitDebugger
  BY <1>1 DEF Two!AwaitDebugger, Two!signals, Two!main
<1>2. CASE Two!ClearDebuggerSignal
  BY <1>2 DEF Two!ClearDebuggerSignal, Two!main
<1>3. CASE Two!Synchronize
  BY <1>3 DEF Two!Synchronize, Two!signals, Two!main
<1>4. ASSUME NEW d \in Two!Devices, Two!SetUpWork(d) PROVE TwoInv'
  <2>1. CASE d = 0
    BY <1>4, <2>1 DEF Two!SetUpWork, Two!signals, Two!main
  <2>2. CASE d = 1
    BY <1>4, <2>2 DEF Two!SetUpWork, Two!signals, Two!main
  <2> QED
    BY <2>1, <2>2
<1>5. ASSUME NEW d \in Two!Devices, Two!WorkIsSetUp(d) PROVE TwoInv'
  <2>1. CASE d = 0
    BY <1>5, <2>1 DEF Two!WorkIsSetUp, Two!signals, Two!main
  <2>2. CASE d = 1
    BY <1>5, <2>2 DEF Two!WorkIsSetUp, Two!signals, Two!main
  <2> QED
    BY <2>1, <2>2
<1>6. ASSUME NEW d \in Two!Devices, Two!UpdateAddress(d) PROVE TwoInv'
  <2>1. CASE d = 0
    BY <1>6, <2>1 DEF Two!UpdateAddress, Two!signals, Two!main
  <2>2. CASE d = 1
    BY <1>6, <2>2 DEF Two!UpdateAddress, Two!signals, Two!main
  <2> QED
    BY <2>1, <2>2
<1>7. ASSUME NEW d \in Two!Devices, Two!NotifyDebugger(d) PROVE TwoInv'
  <2>1. CASE d = 0
    BY <1>7, <2>1 DEF Two!NotifyDebugger, Two!AfterFirstNotify, Two!main
  <2>2. CASE d = 1
    BY <1>7, <2>2 DEF Two!NotifyDebugger, Two!AfterFirstNotify, Two!main
  <2> QED
    BY <2>1, <2>2
<1>8. ASSUME NEW d \in Two!Devices, Two!Execute(d) PROVE TwoInv'
  <2>1. CASE d = 0
    BY <1>8, <2>1 DEF Two!Execute, Two!signals, Two!main
  <2>2. CASE d = 1
    BY <1>8, <2>2 DEF Two!Execute, Two!signals, Two!main
  <2> QED
    BY <2>1, <2>2
<1> QED
  BY <1>1, <1>2, <1>3, <1>4, <1>5, <1>6, <1>7, <1>8 DEF Two!ApplicationStep

(* Every step of either process, of an event thread or of a kernel.        *)
LEMMA TwoInvStep == TwoInv /\ [Two!Next]_(Two!vars) => TwoInv'
<1>1. TwoInv /\ UNCHANGED Two!vars => TwoInv'
  BY DEF Two!vars, Two!signals, Two!main, TwoInv, Two!TypeOK, Handshake, Field, BothTaken
<1> QED
  BY <1>1, MainKeepsTwoInv, ApplicationKeepsTwoInv, ReaderKeepsTwoInv DEF Two!Next

(* Every variable of the two processes keeps its type, whatever the event  *)
(* threads and the kernels do.                                             *)
THEOREM TwoDevicesTypeCorrect == Two!Spec => []Two!TypeOK
<1>1. TwoInv => Two!TypeOK
  BY DEF TwoInv
<1> QED
  BY TwoInvInit, TwoInvStep, <1>1, PTL DEF Two!Spec

(* The one shared address field: the debugger takes each address for the   *)
(* device it belongs to, and takes the first before the second overwrites  *)
(* it, although the application clears a notification it may need.         *)
THEOREM AddressesAreKeptApart == Two!Spec => []Two!AddressesKeptApart
<1>1. TwoInv => Two!AddressesKeptApart
  BY DEF TwoInv, Two!TypeOK, BothTaken, Two!AddressesKeptApart, Two!Devices, Two!AddressOf, Two!Null
<1> QED
  BY TwoInvInit, TwoInvStep, <1>1, PTL DEF Two!Spec

-----------------------------------------------------------------------------
(* What stops TwoDevices: each event thread reads its events until the     *)
(* application's module is loaded, and only an event thread that is        *)
(* through leaves a kernel stopped.  So nothing can but the lost signal    *)
(* and such a kernel.                                                      *)
Unread(d) == kernel[d] \in {"none", "loading"}
Idle(d) == kernel[d] \in {"none", "loading", "loaded"}

Modules ==
    /\ \A d \in Two!Devices :
          /\ reader[d] = "off" <=> at \in {"attach", "spawn"}
          /\ Unread(d) <=> reader[d] \in {"off", "events"}
          /\ reader[d] = "write" => kernel[d] = "stopped"
          /\ kernel[d] = "stopped" => reader[d] \in {"write", "done", "failed"}
    /\ pc \in {"awaitAttach", "load0"} => kernel[0] = "none"
    /\ pc \in {"awaitAttach", "load0", "loading0", "load1"} => kernel[1] = "none"
    /\ pc = "loading0" => kernel[0] \in {"loading", "loaded"}
    /\ pc = "loading1" => kernel[1] \in {"loading", "loaded"}
    /\ pc \notin AfterSecond => \A d \in Two!Devices : Idle(d)
    /\ pc = "execute0" => Idle(0)
    /\ pc \in {"execute0", "execute1"} => Idle(1)
    /\ pc \notin {"awaitAttach", "load0", "loading0"} => ~Unread(0)
    /\ pc \notin {"awaitAttach", "load0", "loading0", "load1", "loading1"} => ~Unread(1)
    /\ pc \in {"execute1", "synchronize"} => kernel[0] # "loaded"
    /\ pc = "synchronize" => kernel[1] # "loaded"

Answered ==
    /\ pc = "awaitAttach" /\ at # "attach" => debugger_signal
    /\ at = "await1" /\ pc \in AfterSecond => debugee_signal

LEMMA ModulesInit == Two!Init => Modules /\ Answered
  BY DEF Two!Init, Two!Devices, Modules, Unread, Idle, Answered, AfterSecond

LEMMA MainKeepsModules == TwoInv /\ Modules /\ Answered /\ Two!MainStep => (Modules /\ Answered)'
<1> SUFFICES ASSUME TwoInv, Modules, Answered, Two!MainStep PROVE (Modules /\ Answered)'
  OBVIOUS
<1> USE DEF TwoInv, Two!TypeOK, Handshake, BeforeFirst, BetweenUpdates, AfterSecond, Modules, Unread, Idle,
            Answered, Two!Devices
<1>1. CASE Two!NotifyAttached
  BY <1>1 DEF Two!NotifyAttached
<1>2. CASE Two!SpawnThreads
  BY <1>2 DEF Two!SpawnThreads, Two!signals
<1>3. CASE Two!AwaitAddress
  BY <1>3 DEF Two!AwaitAddress, Two!signals
<1>4. CASE Two!GetAddress
  BY <1>4 DEF Two!GetAddress, Two!signals
<1>5. CASE Two!ClearApplicationSignal
  BY <1>5 DEF Two!ClearApplicationSignal
<1>6. CASE Two!NotifyFirstRead
  BY <1>6 DEF Two!NotifyFirstRead
<1>7. CASE Two!Join
  BY <1>7 DEF Two!Join, Two!signals
<1> QED
  BY <1>1, <1>2, <1>3, <1>4, <1>5, <1>6, <1>7 DEF Two!MainStep

LEMMA ReaderKeepsModules ==
  ASSUME TwoInv, Modules, Answered, NEW d \in Two!Devices, Two!ReaderStep(d) \/ Two!KernelEnds(d)
  PROVE  (Modules /\ Answered)'
<1> USE DEF TwoInv, Two!TypeOK, Modules, Unread, Idle, Answered, Two!Devices, Two!signals, Two!main
<1>1. CASE Two!ReadEvents(d)
  BY <1>1 DEF Two!ReadEvents
<1>2. CASE Two!Interrupt(d)
  BY <1>2 DEF Two!Interrupt
<1>3. CASE Two!WriteAndResume(d)
  BY <1>3 DEF Two!WriteAndResume
<1>4. CASE Two!KernelEnds(d)
  BY <1>4 DEF Two!KernelEnds
<1> QED
  BY <1>1, <1>2, <1>3, <1>4 DEF Two!ReaderStep

LEMMA ApplicationKeepsModules ==
  TwoInv /\ Modules /\ Answered /\ Two!ApplicationStep => (Modules /\ Answered)'
<1> SUFFICES ASSUME TwoInv, Modules, Answered, Two!ApplicationStep PROVE (Modules /\ Answered)'
  OBVIOUS
<1> USE DEF TwoInv, Two!TypeOK, Handshake, BeforeFirst, BetweenUpdates, AfterSecond, Modules, Unread, Idle,
            Answered, Two!Devices
<1>1. CASE Two!AwaitDebugger
  BY <1>1 DEF Two!AwaitDebugger, Two!signals, Two!main
<1>2. CASE Two!ClearDebuggerSignal
  BY <1>2 DEF Two!ClearDebuggerSignal, Two!main
<1>3. CASE Two!Synchronize
  BY <1>3 DEF Two!Synchronize, Two!signals, Two!main
<1>4. ASSUME NEW d \in Two!Devices, Two!SetUpWork(d) PROVE (Modules /\ Answered)'
  <2>1. CASE d = 0
    BY <1>4, <2>1 DEF Two!SetUpWork, Two!signals, Two!main
  <2>2. CASE d = 1
    BY <1>4, <2>2 DEF Two!SetUpWork, Two!signals, Two!main
  <2> QED
    BY <2>1, <2>2
<1>5. ASSUME NEW d \in Two!Devices, Two!WorkIsSetUp(d) PROVE (Modules /\ Answered)'
  <2>1. CASE d = 0
    BY <1>5, <2>1 DEF Two!WorkIsSetUp, Two!signals, Two!main
  <2>2. CASE d = 1
    BY <1>5, <2>2 DEF Two!WorkIsSetUp, Two!signals, Two!main
  <2> QED
    BY <2>1, <2>2
<1>6. ASSUME NEW d \in Two!Devices, Two!UpdateAddress(d) PROVE (Modules /\ Answered)'
  <2>1. CASE d = 0
    BY <1>6, <2>1 DEF Two!UpdateAddress, Two!signals, Two!main
  <2>2. CASE d = 1
    BY <1>6, <2>2 DEF Two!UpdateAddress, Two!signals, Two!main
  <2> QED
    BY <2>1, <2>2
<1>7. ASSUME NEW d \in Two!Devices, Two!NotifyDebugger(d) PROVE (Modules /\ Answered)'
  <2>1. CASE d = 0
    BY <1>7, <2>1 DEF Two!NotifyDebugger, Two!AfterFirstNotify, Two!main
  <2>2. CASE d = 1
    BY <1>7, <2>2 DEF Two!NotifyDebugger, Two!AfterFirstNotify, Two!main
  <2> QED
    BY <2>1, <2>2
<1>8. ASSUME NEW d \in Two!Devices, Two!Execute(d) PROVE (Modules /\ Answered)'
  <2>1. CASE d = 0
    BY <1>8, <2>1 DEF Two!Execute, Two!signals, Two!main
  <2>2. CASE d = 1
    BY <1>8, <2>2 DEF Two!Execute, Two!signals, Two!main
  <2> QED
    BY <2>1, <2>2
<1> QED
  BY <1>1, <1>2, <1>3, <1>4, <1>5, <1>6, <1>7, <1>8 DEF Two!ApplicationStep

LEMMA ModulesStep == TwoInv /\ Modules /\ Answered /\ [Two!Next]_(Two!vars) => (Modules /\ Answered)'
<1>1. Modules /\ Answered /\ UNCHANGED Two!vars => (Modules /\ Answered)'
  BY DEF Two!vars, Two!signals, Two!main, Modules, Unread, Idle, Answered
<1> QED
  BY <1>1, MainKeepsModules, ApplicationKeepsModules, ReaderKeepsModules DEF Two!Next

LEMMA LostOrStoppedOrGoesOn == TwoInv /\ Modules /\ Answered => Two!NothingElseStalls
<1> SUFFICES ASSUME TwoInv, Modules, Answered, at # "done", ~Two!Lost, ~Two!LeftStopped,
                    ~Two!MainMayGoOn,
                    ~Two!ApplicationMayGoOn,
                    \A d \in Two!Devices : ~Two!ReaderMayGoOn(d) /\ kernel[d] \notin {"running", "ending"}
             PROVE  FALSE
  BY DEF Two!NothingElseStalls
<1> USE DEF TwoInv, Two!TypeOK, Handshake, BeforeFirst, BetweenUpdates, AfterSecond, Modules, Unread, Idle,
            Answered, Two!Devices
<1>1. (at \in {"await0", "await1"} /\ ~debugee_signal) \/ at = "join"
  BY DEF Two!MainMayGoOn
<1>2. pc \notin {"loading0", "loading1"}
  BY <1>1 DEF Two!ReaderMayGoOn, Two!ApplicationMayGoOn
<1>3. pc # "synchronize"
  BY DEF Two!ReaderMayGoOn, Two!ApplicationMayGoOn, Two!LeftStopped
<1>4. pc \in {"awaitAttach", "awaitRead", "exited"}
  BY <1>2, <1>3 DEF Two!ApplicationMayGoOn
<1>5. pc = "exited"
  BY <1>1, <1>4 DEF Two!ApplicationMayGoOn, Two!Lost
<1>6. \A d \in Two!Devices : reader[d] \in {"done", "failed"}
  BY <1>1, <1>5 DEF Two!ReaderMayGoOn
<1> QED
  BY <1>1, <1>5, <1>6 DEF Two!MainMayGoOn

(* Two things stop the test before it is done, and nothing else, whatever  *)
(* the event threads meet: the application clears the debugger's           *)
(* notification and then waits for it (test_debug_helper.cpp:891), or an   *)
(* event thread leaves its kernel stopped (test_debug_utils.cpp:690, :717, *)
(* :722).                                                                  *)
THEOREM OnlyLostSignalOrStoppedKernelStalls == Two!Spec => []Two!NothingElseStalls
  BY TwoInvInit, TwoInvStep, ModulesInit, ModulesStep, LostOrStoppedOrGoesOn, PTL DEF Two!Spec
================================================================================
