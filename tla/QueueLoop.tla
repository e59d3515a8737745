-------------------------------- MODULE QueueLoop ------------------------------
(***************************************************************************)
(* run_proc_entry_exit_test (test_debug.cpp) and the application it        *)
(* debugs, loop_create_destroy_multiple_cq_immcl (test_debug_helper.cpp),  *)
(* both of conformance_tests/tools/debug/src.  The debugger lets the       *)
(* application create its command queues, or immediate command lists, one  *)
(* by one and destroy them one by one, and after each operation reads its  *)
(* events: only the first creation raises PROCESS_ENTRY and only the last  *)
(* destruction raises PROCESS_EXIT, anything else must raise nothing.      *)
(*                                                                         *)
(* The two signals are those of Signals, one call a step.  The driver is   *)
(* external: it raises the two events and delivers them at any later time, *)
(* but within the two minutes that check_event waits.                      *)
(***************************************************************************)
EXTENDS Naturals, Sequences

CONSTANTS
    numCQs,           \* per device, the queues of all its ordinals together
    Loops             \* 3 in the code

ASSUME QueuesAssumption == numCQs \in Seq(Nat \ {0}) /\ Len(numCQs) > 0
ASSUME LoopsAssumption == Loops \in Nat \ {0}

VARIABLES
    debugger_signal, debugee_signal,
    at, device, loop, queueNum,   \* the debugger
    pc, appLoop,                  \* the application
    live,                         \* the application's queues
    raised, events,               \* raised by the driver; delivered to the session
    unexpected                    \* an EXPECT of the debugger has failed

signals == <<debugger_signal, debugee_signal>>
debugger == <<at, device, loop, queueNum, unexpected>>
application == <<pc, appLoop>>
vars == <<signals, debugger, application, live, raised, events>>

totalNumCQs == numCQs[device]

Init ==
    /\ debugger_signal = FALSE /\ debugee_signal = FALSE
    /\ at = "clear" /\ device = 1 /\ loop = 0 /\ queueNum = 1
    /\ pc = "off" /\ appLoop = 0
    /\ live = 0
    /\ raised = <<>> /\ events = <<>>
    /\ unexpected = FALSE

-----------------------------------------------------------------------------
(* The debugger.                                                           *)

ClearOldSignal ==
    /\ at = "clear"
    /\ debugger_signal' = FALSE
    /\ at' = "launch"
    /\ UNCHANGED <<debugee_signal, device, loop, queueNum, unexpected, application, live, raised, events>>

LaunchAndAttach ==
    /\ at = "launch"
    /\ at' = "noQueueYet"
    /\ loop' = 0
    /\ pc' = "awaitLoop" /\ appLoop' = 0
    /\ UNCHANGED <<signals, device, queueNum, unexpected, live, raised, events>>

(* A read of 2 ms that is expected to time out.                            *)
ReadNothing ==
    /\ unexpected' = (unexpected \/ events # <<>>)
    /\ events' = IF events = <<>> THEN <<>> ELSE Tail(events)

ReadBeforeLoop ==
    /\ at = "noQueueYet"
    /\ ReadNothing
    /\ at' = "letCreate" /\ queueNum' = 1
    /\ UNCHANGED <<signals, device, loop, application, live, raised>>

NotifyApplication ==
    /\ at \in {"letCreate", "letContinue", "letDestroy"}
    /\ debugger_signal' = TRUE
    /\ at' = IF at = "letCreate" THEN "awaitCreate" ELSE "awaitDestroy"
    /\ queueNum' = IF at = "letCreate" THEN queueNum ELSE IF at = "letContinue" THEN 1 ELSE queueNum + 1
    /\ UNCHANGED <<debugee_signal, device, loop, unexpected, application, live, raised, events>>

ApplicationSignaledUnchecked == TRUE
ApplicationSignaled == debugee_signal

WaitForApplication ==
    /\ at \in {"awaitCreate", "awaitDestroy"}
    /\ ApplicationSignaled
    /\ at' = IF at = "awaitCreate" THEN "clearCreate" ELSE "clearDestroy"
    /\ UNCHANGED <<signals, device, loop, queueNum, unexpected, application, live, raised, events>>

ClearApplicationSignal ==
    /\ at \in {"clearCreate", "clearDestroy"}
    /\ debugee_signal' = FALSE
    /\ at' = IF at = "clearCreate" THEN "checkCreate" ELSE "checkDestroy"
    /\ UNCHANGED <<debugger_signal, device, loop, queueNum, unexpected, application, live, raised, events>>

(* check_event waits for the next event, if one is still to come.          *)
CheckEvent(expected, next) ==
    /\ events # <<>> \/ raised = <<>>
    /\ at' = IF events # <<>> /\ Head(events) = expected THEN next ELSE "failed"
    /\ events' = IF events = <<>> THEN <<>> ELSE Tail(events)
    /\ UNCHANGED unexpected

AfterCreationOneLess == IF queueNum + 1 < totalNumCQs THEN "letCreate" ELSE "letContinue"
AfterCreation == IF queueNum < totalNumCQs THEN "letCreate" ELSE "letContinue"

EntryIsDueLast == queueNum = totalNumCQs
EntryIsDue == queueNum = 1

CheckCreation ==
    /\ at = "checkCreate"
    /\ \/ EntryIsDue /\ CheckEvent("PROCESS_ENTRY", AfterCreation)
       \/ ~EntryIsDue /\ ReadNothing /\ at' = AfterCreation
    /\ queueNum' = IF queueNum < totalNumCQs THEN queueNum + 1 ELSE queueNum
    /\ UNCHANGED <<signals, device, loop, application, live, raised>>

AfterLoop == IF loop + 1 < Loops THEN "noQueueYet" ELSE "join"

CheckDestruction ==
    /\ at = "checkDestroy"
    /\ \/ queueNum = totalNumCQs /\ CheckEvent("PROCESS_EXIT", AfterLoop) /\ loop' = loop + 1
       \/ queueNum # totalNumCQs /\ ReadNothing /\ at' = "letDestroy" /\ UNCHANGED loop
    /\ UNCHANGED <<signals, device, queueNum, application, live, raised>>

(* debugHelper.wait(), detach, and the next device.                        *)
JoinAndDetach ==
    /\ at = "join"
    /\ pc = "exited"
    /\ events' = <<>> /\ raised' = <<>>
    /\ \/ device < Len(numCQs) /\ device' = device + 1 /\ at' = "clear" /\ loop' = 0
       \/ device = Len(numCQs) /\ at' = "done" /\ UNCHANGED <<device, loop>>
    /\ queueNum' = 1
    /\ UNCHANGED <<signals, unexpected, application, live>>

-----------------------------------------------------------------------------
(* The application.                                                        *)

WaitForDebugger ==
    /\ pc \in {"awaitLoop", "awaitCreated", "awaitDestroyed"}
    /\ debugger_signal
    /\ pc' = IF pc = "awaitLoop" THEN "clearLoop"
             ELSE IF pc = "awaitCreated" THEN "clearCreated" ELSE "clearDestroyed"
    /\ UNCHANGED <<signals, debugger, appLoop, live, raised, events>>

ClearForgotten == UNCHANGED debugger_signal
Cleared == debugger_signal' = FALSE

ClearDebuggerSignal ==
    /\ pc \in {"clearLoop", "clearCreated", "clearDestroyed"}
    /\ Cleared
    /\ pc' = IF pc = "clearLoop" \/ (pc = "clearCreated" /\ live < totalNumCQs) THEN "create" ELSE "destroy"
    /\ UNCHANGED <<debugee_signal, debugger, appLoop, live, raised, events>>

CreateQueue ==
    /\ pc = "create"
    /\ live' = live + 1
    /\ raised' = IF live = 0 THEN Append(raised, "PROCESS_ENTRY") ELSE raised
    /\ pc' = "tellCreated"
    /\ UNCHANGED <<signals, debugger, appLoop, events>>

DestroyQueue ==
    /\ pc = "destroy"
    /\ live' = live - 1
    /\ raised' = IF live = 1 THEN Append(raised, "PROCESS_EXIT") ELSE raised
    /\ pc' = "tellDestroyed"
    /\ UNCHANGED <<signals, debugger, appLoop, events>>

TellCreated ==
    /\ pc = "tellCreated"
    /\ debugee_signal' = TRUE
    /\ pc' = "awaitCreated"
    /\ UNCHANGED <<debugger_signal, debugger, appLoop, live, raised, events>>

AfterDestruction ==
    IF live > 0 THEN "awaitDestroyed" ELSE IF appLoop + 1 < Loops THEN "awaitLoop" ELSE "exited"

TellDestroyed ==
    /\ pc = "tellDestroyed"
    /\ debugee_signal' = TRUE
    /\ pc' = AfterDestruction
    /\ appLoop' = IF live = 0 THEN appLoop + 1 ELSE appLoop
    /\ UNCHANGED <<debugger_signal, debugger, live, raised, events>>

-----------------------------------------------------------------------------
Deliver ==
    /\ raised # <<>>
    /\ events' = Append(events, Head(raised))
    /\ raised' = Tail(raised)
    /\ UNCHANGED <<signals, debugger, application, live>>

Terminating == at \in {"done", "failed"} /\ UNCHANGED vars

DebuggerStep ==
    \/ ClearOldSignal \/ LaunchAndAttach \/ ReadBeforeLoop \/ NotifyApplication
    \/ WaitForApplication \/ ClearApplicationSignal \/ CheckCreation \/ CheckDestruction
    \/ JoinAndDetach

ApplicationStep ==
    \/ WaitForDebugger \/ ClearDebuggerSignal \/ CreateQueue \/ DestroyQueue
    \/ TellCreated \/ TellDestroyed

Next == DebuggerStep \/ ApplicationStep \/ Deliver \/ Terminating

(* Both processes run, and the driver delivers what it raised.             *)
Spec ==
    /\ Init /\ [][Next]_vars
    /\ WF_vars(DebuggerStep) /\ WF_vars(ApplicationStep) /\ WF_vars(Deliver)

-----------------------------------------------------------------------------
TypeOK ==
    /\ debugger_signal \in BOOLEAN /\ debugee_signal \in BOOLEAN
    /\ at \in {"clear", "launch", "noQueueYet", "letCreate", "letContinue", "letDestroy",
               "awaitCreate", "awaitDestroy", "clearCreate", "clearDestroy",
               "checkCreate", "checkDestroy", "join", "failed", "done"}
    /\ device \in 1..Len(numCQs) /\ loop \in 0..Loops /\ queueNum \in 1..totalNumCQs
    /\ pc \in {"off", "awaitLoop", "awaitCreated", "awaitDestroyed", "clearLoop", "clearCreated",
               "clearDestroyed", "create", "destroy", "tellCreated", "tellDestroyed", "exited"}
    /\ appLoop \in 0..Loops
    /\ live \in 0..totalNumCQs
    /\ raised \in Seq({"PROCESS_ENTRY", "PROCESS_EXIT"})
    /\ events \in Seq({"PROCESS_ENTRY", "PROCESS_EXIT"})
    /\ unexpected \in BOOLEAN

Quiet ==
    \/ at = "noQueueYet"
    \/ at = "checkCreate" /\ queueNum # 1
    \/ at = "checkDestroy" /\ queueNum # totalNumCQs

Blocked == pc \in {"awaitLoop", "awaitCreated", "awaitDestroyed"} /\ ~debugger_signal

(* A read that expects no event finds none however long it waits: nothing  *)
(* is delivered or on its way, and the application is blocked.             *)
QuietReadsAreQuiet == Quiet => raised = <<>> /\ events = <<>> /\ Blocked

(* A read that expects an event finds exactly that event, now or later.    *)
ExpectedEventComes ==
    /\ at = "checkCreate" /\ queueNum = 1 => events \o raised = <<"PROCESS_ENTRY">>
    /\ at = "checkDestroy" /\ queueNum = totalNumCQs => events \o raised = <<"PROCESS_EXIT">>

(* Nobody sets a signal that the other has not cleared yet: the signals    *)
(* are flags, a second notification would be lost.                         *)
NoSignalIsLost ==
    /\ at \in {"letCreate", "letContinue", "letDestroy"} => ~debugger_signal
    /\ pc \in {"tellCreated", "tellDestroyed"} => ~debugee_signal

(* The number of queues the debugger has seen.                             *)
seen ==
    IF at \in {"letCreate", "awaitCreate", "clearCreate", "checkCreate"} THEN queueNum - 1
    ELSE IF at = "letContinue" THEN totalNumCQs
    ELSE IF at \in {"awaitDestroy", "clearDestroy", "checkDestroy"} THEN totalNumCQs - queueNum + 1
    ELSE IF at = "letDestroy" THEN totalNumCQs - queueNum ELSE 0

Abstract == INSTANCE LockStep WITH
    rising <- at \notin {"letContinue", "letDestroy", "awaitDestroy", "clearDestroy", "checkDestroy"},
    turn <- IF live = seen THEN "application" ELSE "debugger"

(* The debugger observes every creation and destruction, one at a time.    *)
ObservesEach == Abstract!Spec

(* What each process waits for before its next step.                       *)
EventIsDue ==
    \/ at = "checkCreate" /\ queueNum = 1
    \/ at = "checkDestroy" /\ queueNum = totalNumCQs

DebuggerMayGoOn ==
    /\ at \notin {"done", "failed"}
    /\ at \in {"awaitCreate", "awaitDestroy"} => debugee_signal
    /\ EventIsDue => events # <<>> \/ raised = <<>>
    /\ at = "join" => pc = "exited"

ApplicationMayGoOn ==
    /\ pc \notin {"off", "exited"}
    /\ pc \in {"awaitLoop", "awaitCreated", "awaitDestroyed"} => debugger_signal

(* Until the test is done a process or the driver has something to do.     *)
NothingStalls == at = "done" \/ DebuggerMayGoOn \/ ApplicationMayGoOn \/ raised # <<>>

(* What is ahead: devices, loops, the debugger's places in the loop, the   *)
(* application's steps until it waits again, undelivered events.           *)
DebuggerAhead ==
    CASE at = "clear" -> 8 * totalNumCQs + 6
      [] at = "launch" -> 8 * totalNumCQs + 5
      [] at = "noQueueYet" -> 8 * totalNumCQs + 4
      [] at = "letCreate" -> 8 * totalNumCQs - 4 * seen + 3
      [] at = "awaitCreate" -> 8 * totalNumCQs - 4 * seen + 2
      [] at = "clearCreate" -> 8 * totalNumCQs - 4 * seen + 1
      [] at = "checkCreate" -> 8 * totalNumCQs - 4 * seen
      [] at \in {"letContinue", "letDestroy"} -> 4 * seen + 3
      [] at = "awaitDestroy" -> 4 * seen + 2
      [] at = "clearDestroy" -> 4 * seen + 1
      [] at = "checkDestroy" -> 4 * seen
      [] at = "join" -> 1
      [] OTHER -> 0

ApplicationAhead ==
    CASE pc \in {"clearLoop", "clearCreated", "clearDestroyed"} -> 3
      [] pc \in {"create", "destroy"} -> 2
      [] pc \in {"tellCreated", "tellDestroyed"} -> 1
      [] pc \in {"awaitLoop", "awaitCreated", "awaitDestroyed"} -> IF debugger_signal THEN 4 ELSE 0
      [] OTHER -> 0

Ahead == <<Len(numCQs) - device, Loops - loop, DebuggerAhead, ApplicationAhead, Len(raised)>>

(* Every step of the three lessens what is ahead: no signal, no event and  *)
(* no operation on a queue makes a process do again what it has done.      *)
NearerToTheEnd ==
    /\ \A i \in 1..5 : Ahead[i] \in Nat
    /\ \E i \in 1..5 : Ahead'[i] < Ahead[i] /\ \A j \in 1..i - 1 : Ahead'[j] = Ahead[j]

EachStepIsNearer == [][NearerToTheEnd]_vars

(* The test ends, on every device, without a failed expectation.           *)
Passes == <>(at = "done" /\ ~unexpected)
=============================================================================
