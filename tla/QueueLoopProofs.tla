----------------------------- MODULE QueueLoopProofs ---------------------------
(***************************************************************************)
(* The invariants of QueueLoop, and that it implements LockStep, for any   *)
(* number of devices, queues and loops.  The inductive invariant says for  *)
(* every place of the debugger where the application can be: it runs only  *)
(* while the debugger waits for its signal, and is blocked otherwise.      *)
(***************************************************************************)
EXTENDS QueueLoop, SequenceTheorems, TLAPS

Nothing == raised = <<>> /\ events = <<>>

Pending(e) == (raised = <<e>> /\ events = <<>>) \/ (raised = <<>> /\ events = <<e>>)

EntryDue == IF queueNum = 1 THEN Pending("PROCESS_ENTRY") ELSE Nothing
ExitDue == IF queueNum = totalNumCQs THEN Pending("PROCESS_EXIT") ELSE Nothing

(* Both signals are cleared, and the application is blocked.               *)
AllClear == ~debugger_signal /\ ~debugee_signal

InLoop == appLoop = loop /\ loop < Loops

(* The application has been let go and has not operated on a queue yet.    *)
Released(blocked, going, act) ==
    /\ ~debugee_signal
    /\ IF debugger_signal THEN pc \in {blocked, going} ELSE pc = act
    /\ Nothing

BeforeCreation == Released(IF queueNum = 1 THEN "awaitLoop" ELSE "awaitCreated",
                           IF queueNum = 1 THEN "clearLoop" ELSE "clearCreated", "create")

BeforeDestruction == Released(IF queueNum = 1 THEN "awaitCreated" ELSE "awaitDestroyed",
                              IF queueNum = 1 THEN "clearCreated" ELSE "clearDestroyed", "destroy")

(* Where the application goes once it has told of a destruction.           *)
AfterTold ==
    IF queueNum < totalNumCQs THEN pc = "awaitDestroyed" /\ InLoop
    ELSE /\ appLoop = loop + 1
         /\ loop < Loops
         /\ pc = IF appLoop < Loops THEN "awaitLoop" ELSE "exited"

AtRest ==
    /\ at \in {"clear", "launch"} =>
          pc \in {"off", "exited"} /\ AllClear /\ Nothing /\ live = 0 /\ queueNum = 1 /\ loop = 0
    /\ at = "noQueueYet" => pc = "awaitLoop" /\ AllClear /\ Nothing /\ live = 0 /\ InLoop
    /\ at = "join" => /\ AllClear /\ Nothing /\ live = 0
                      /\ pc = "exited" /\ loop = Loops /\ appLoop = Loops
    /\ at = "done" => pc = "exited" /\ AllClear /\ Nothing /\ live = 0 /\ loop = Loops

Creating ==
    /\ at = "letCreate" =>
          /\ pc = IF queueNum = 1 THEN "awaitLoop" ELSE "awaitCreated"
          /\ AllClear /\ Nothing /\ live = queueNum - 1 /\ InLoop
    /\ at = "awaitCreate" =>
          /\ InLoop
          /\ \/ BeforeCreation /\ live = queueNum - 1
             \/ ~debugger_signal /\ EntryDue /\ live = queueNum
                /\ pc = IF debugee_signal THEN "awaitCreated" ELSE "tellCreated"
    /\ at \in {"clearCreate", "checkCreate"} =>
          /\ pc = "awaitCreated" /\ ~debugger_signal /\ (debugee_signal <=> at = "clearCreate")
          /\ EntryDue /\ live = queueNum /\ InLoop
    /\ at = "letContinue" =>
          pc = "awaitCreated" /\ AllClear /\ Nothing /\ live = totalNumCQs /\ InLoop

Destroying ==
    /\ at = "awaitDestroy" =>
          \/ BeforeDestruction /\ live = totalNumCQs - queueNum + 1 /\ InLoop
          \/ /\ ~debugger_signal /\ ExitDue /\ live = totalNumCQs - queueNum
             /\ IF debugee_signal THEN AfterTold ELSE pc = "tellDestroyed" /\ InLoop
    /\ at \in {"clearDestroy", "checkDestroy"} =>
          /\ AfterTold /\ ~debugger_signal /\ (debugee_signal <=> at = "clearDestroy")
          /\ ExitDue /\ live = totalNumCQs - queueNum
    /\ at = "letDestroy" =>
          /\ pc = "awaitDestroyed" /\ AllClear /\ Nothing /\ InLoop
          /\ queueNum < totalNumCQs /\ live = totalNumCQs - queueNum

Places == {"clear", "launch", "noQueueYet", "letCreate", "letContinue", "letDestroy",
           "awaitCreate", "awaitDestroy", "clearCreate", "clearDestroy",
           "checkCreate", "checkDestroy", "join", "done"}

Ranges ==
    /\ debugger_signal \in BOOLEAN /\ debugee_signal \in BOOLEAN
    /\ device \in 1..Len(numCQs)
    /\ loop \in 0..Loops
    /\ queueNum \in 1..totalNumCQs
    /\ appLoop \in 0..Loops
    /\ at \in Places
    /\ unexpected = FALSE

IInv == Ranges /\ AtRest /\ Creating /\ Destroying

-----------------------------------------------------------------------------
LEMMA TotalType == \A d \in 1..Len(numCQs) : numCQs[d] \in Nat \ {0}
  BY QueuesAssumption

LEMMA ShortSequences ==
  \A e : /\ Append(<<>>, e) = <<e>> /\ Head(<<e>>) = e /\ Tail(<<e>>) = <<>> /\ <<e>> # <<>>
  OBVIOUS

LEMMA InvInit == Init => IInv
<1> SUFFICES ASSUME Init PROVE IInv
  OBVIOUS
<1>1. 1 \in 1..Len(numCQs)
  BY QueuesAssumption
<1>2. totalNumCQs \in Nat \ {0}
  BY <1>1, TotalType DEF Init, totalNumCQs
<1>3. queueNum \in 1..totalNumCQs /\ loop \in 0..Loops /\ appLoop \in 0..Loops
  BY <1>2, LoopsAssumption DEF Init
<1>4. Ranges
  BY <1>1, <1>3 DEF Init, Ranges, Places
<1> QED
  BY <1>4 DEF Init, IInv, AtRest, Creating, Destroying, AllClear, Nothing

LEMMA DebuggerStepInv == IInv /\ DebuggerStep => IInv'
<1> SUFFICES ASSUME IInv, DebuggerStep PROVE IInv'
  OBVIOUS
<1>t. totalNumCQs \in Nat \ {0} /\ Loops \in Nat \ {0}
  BY TotalType, LoopsAssumption DEF IInv, Ranges, totalNumCQs
<1> USE <1>t DEF IInv, Ranges, AtRest, Creating, Destroying, AllClear, InLoop, Nothing, signals, debugger, application
<1>1. CASE ClearOldSignal
  BY <1>1 DEF ClearOldSignal, Places, totalNumCQs
<1>2. CASE LaunchAndAttach
  BY <1>2 DEF LaunchAndAttach, Places, totalNumCQs
<1>3. CASE ReadBeforeLoop
  BY <1>3 DEF ReadBeforeLoop, ReadNothing, Places, totalNumCQs
<1>4. CASE NotifyApplication
  BY <1>4 DEF NotifyApplication, Places, BeforeCreation, BeforeDestruction, Released, totalNumCQs
<1>5. CASE WaitForApplication
  BY <1>5 DEF WaitForApplication, ApplicationSignaled, BeforeCreation, BeforeDestruction, Released, EntryDue,
              ExitDue, AfterTold, Pending, Places, totalNumCQs
<1>6. CASE ClearApplicationSignal
  BY <1>6 DEF ClearApplicationSignal, EntryDue, ExitDue, AfterTold, Pending, Places, totalNumCQs
<1>7. CASE CheckCreation
  <2>1. /\ totalNumCQs' = totalNumCQs /\ AfterCreation \in {"letCreate", "letContinue"}
        /\ UNCHANGED <<signals, device, loop, application, live, raised>>
    BY <1>7 DEF CheckCreation, totalNumCQs, AfterCreation
  <2>2. EntryDue /\ pc = "awaitCreated" /\ live = queueNum /\ at = "checkCreate" /\ InLoop /\ AllClear
    BY <1>7 DEF CheckCreation
  <2>3. Nothing' /\ at' = AfterCreation /\ unexpected' = FALSE
    <3>1. CASE queueNum = 1
      <4>1. Pending("PROCESS_ENTRY") /\ CheckEvent("PROCESS_ENTRY", AfterCreation)
        BY <1>7, <2>2, <3>1 DEF CheckCreation, EntryIsDue, EntryDue
      <4>2. raised = <<>> /\ events = <<"PROCESS_ENTRY">>
        BY <4>1, ShortSequences DEF CheckEvent, Pending
      <4> QED
        BY <2>1, <4>1, <4>2, ShortSequences DEF CheckEvent
    <3>2. CASE queueNum # 1
      BY <1>7, <2>1, <2>2, <3>2 DEF CheckCreation, EntryIsDue, EntryDue, ReadNothing
    <3> QED
      BY <3>1, <3>2
  <2>4. queueNum' = IF queueNum < totalNumCQs THEN queueNum + 1 ELSE queueNum
    BY <1>7 DEF CheckCreation
  <2> QED
    BY <2>1, <2>2, <2>3, <2>4 DEF AfterCreation, Places
<1>8. CASE CheckDestruction
  <2>1. totalNumCQs' = totalNumCQs /\ UNCHANGED <<signals, device, queueNum, application, live, raised>>
    BY <1>8 DEF CheckDestruction, totalNumCQs
  <2>2. ExitDue /\ AfterTold /\ live = totalNumCQs - queueNum /\ at = "checkDestroy" /\ AllClear
    BY <1>8 DEF CheckDestruction
  <2>3. CASE queueNum = totalNumCQs
    <3>1. /\ Pending("PROCESS_EXIT") /\ CheckEvent("PROCESS_EXIT", AfterLoop) /\ loop' = loop + 1
      BY <1>8, <2>2, <2>3 DEF CheckDestruction, ExitDue
    <3>2. raised = <<>> /\ events = <<"PROCESS_EXIT">>
      BY <3>1, ShortSequences DEF CheckEvent, Pending
    <3>3. Nothing' /\ at' = AfterLoop /\ unexpected' = FALSE
      BY <2>1, <3>1, <3>2, ShortSequences DEF CheckEvent
    <3> QED
      BY <2>1, <2>2, <2>3, <3>1, <3>3 DEF AfterLoop, AfterTold, Places
  <2>4. CASE queueNum # totalNumCQs
    <3>1. Nothing' /\ at' = "letDestroy" /\ unexpected' = FALSE /\ loop' = loop
      BY <1>8, <2>1, <2>2, <2>4 DEF CheckDestruction, ExitDue, ReadNothing
    <3> QED
      BY <2>1, <2>2, <2>4, <3>1 DEF AfterTold, Places
  <2> QED
    BY <2>3, <2>4
<1>9. CASE JoinAndDetach
  <2>1. device' \in 1..Len(numCQs)
    BY <1>9, QueuesAssumption DEF JoinAndDetach
  <2>2. totalNumCQs' \in Nat \ {0}
    BY <2>1, TotalType DEF totalNumCQs
  <2>3. /\ pc = "exited" /\ pc' = pc /\ appLoop' = appLoop /\ live' = 0 /\ queueNum' = 1 /\ at' \in {"clear", "done"}
        /\ AllClear' /\ Nothing' /\ unexpected' = FALSE
    BY <1>9 DEF JoinAndDetach
  <2>4. (at' = "clear" => loop' = 0) /\ (at' = "done" => loop' = Loops)
    BY <1>9 DEF JoinAndDetach
  <2>5. Ranges'
    <3>1. debugger_signal' \in BOOLEAN /\ debugee_signal' \in BOOLEAN
      BY <1>9 DEF JoinAndDetach
    <3>2. queueNum' \in 1..totalNumCQs' /\ loop' \in 0..Loops
      BY <2>2, <2>3, <2>4
    <3> QED
      BY <2>1, <2>3, <3>1, <3>2 DEF Places
  <2> QED
    BY <2>3, <2>4, <2>5
<1> QED
  BY <1>1, <1>2, <1>3, <1>4, <1>5, <1>6, <1>7, <1>8, <1>9 DEF DebuggerStep

LEMMA ApplicationStepInv == IInv /\ ApplicationStep => IInv'
<1> SUFFICES ASSUME IInv, ApplicationStep PROVE IInv'
  OBVIOUS
<1>t. totalNumCQs \in Nat \ {0} /\ Loops \in Nat \ {0}
  BY TotalType, LoopsAssumption DEF IInv, Ranges, totalNumCQs
<1>u. UNCHANGED debugger /\ totalNumCQs' = totalNumCQs
  BY DEF ApplicationStep, WaitForDebugger, ClearDebuggerSignal, CreateQueue, DestroyQueue, TellCreated,
         TellDestroyed, debugger, totalNumCQs
<1> USE <1>t, <1>u DEF IInv, Ranges, AtRest, Creating, Destroying, AllClear, InLoop, Nothing, signals, debugger
<1>1. CASE WaitForDebugger
  <2>1. at \in {"awaitCreate", "awaitDestroy"}
    BY <1>1 DEF WaitForDebugger, AfterTold, Places
  <2> QED
    BY <1>1, <2>1 DEF WaitForDebugger, BeforeCreation, BeforeDestruction, Released, EntryDue, ExitDue, Pending, AfterTold
<1>2. CASE ClearDebuggerSignal
  <2>1. at \in {"awaitCreate", "awaitDestroy"}
    BY <1>2 DEF ClearDebuggerSignal, AfterTold, Places
  <2>2. debugger_signal' = FALSE /\ UNCHANGED <<debugee_signal, appLoop, live, raised, events>>
    BY <1>2 DEF ClearDebuggerSignal, Cleared
  <2>3. CASE at = "awaitCreate"
    <3>1. BeforeCreation /\ live = queueNum - 1
      BY <1>2, <2>3 DEF ClearDebuggerSignal
    <3>2. pc' = "create"
      BY <1>2, <3>1 DEF ClearDebuggerSignal, BeforeCreation, Released
    <3> QED
      BY <2>2, <2>3, <3>1, <3>2 DEF BeforeCreation, Released
  <2>4. CASE at = "awaitDestroy"
    <3>1. BeforeDestruction /\ live = totalNumCQs - queueNum + 1 /\ InLoop
      BY <1>2, <2>4 DEF ClearDebuggerSignal, AfterTold
    <3>2. pc' = "destroy"
      BY <1>2, <3>1 DEF ClearDebuggerSignal, BeforeDestruction, Released
    <3> QED
      BY <2>2, <2>4, <3>1, <3>2 DEF BeforeDestruction, Released
  <2> QED
    BY <2>1, <2>3, <2>4
<1>3. CASE CreateQueue
  <2>1. at = "awaitCreate"
    BY <1>3 DEF CreateQueue, AfterTold, Places, BeforeDestruction, Released
  <2> QED
    BY <1>3, <2>1, ShortSequences DEF CreateQueue, BeforeCreation, Released, EntryDue, Pending
<1>4. CASE DestroyQueue
  <2>1. at = "awaitDestroy"
    BY <1>4 DEF DestroyQueue, AfterTold, Places, BeforeCreation, Released
  <2>2. BeforeDestruction /\ live = totalNumCQs - queueNum + 1 /\ InLoop
    BY <1>4, <2>1 DEF DestroyQueue, AfterTold
  <2>3. live' = totalNumCQs - queueNum /\ pc' = "tellDestroyed" /\ ~debugger_signal /\ ~debugee_signal
        /\ UNCHANGED <<signals, appLoop, events>>
    BY <1>4, <2>2 DEF DestroyQueue, BeforeDestruction, Released
  <2>4. raised' = IF queueNum = totalNumCQs THEN <<"PROCESS_EXIT">> ELSE <<>>
    BY <1>4, <2>2, ShortSequences DEF DestroyQueue, BeforeDestruction, Released
  <2>5. ExitDue'
    BY <2>2, <2>3, <2>4 DEF ExitDue, Pending, BeforeDestruction, Released
  <2> QED
    BY <2>1, <2>2, <2>3, <2>5
<1>5. CASE TellCreated
  <2>1. at = "awaitCreate"
    BY <1>5 DEF TellCreated, AfterTold, Places, BeforeDestruction, Released
  <2> QED
    BY <1>5, <2>1 DEF TellCreated, BeforeCreation, Released, EntryDue, Pending
<1>6. CASE TellDestroyed
  <2>1. at = "awaitDestroy"
    BY <1>6 DEF TellDestroyed, AfterTold, Places, BeforeCreation, Released
  <2> QED
    BY <1>6, <2>1 DEF TellDestroyed, AfterDestruction, BeforeDestruction, Released, ExitDue, Pending, AfterTold
<1> QED
  BY <1>1, <1>2, <1>3, <1>4, <1>5, <1>6 DEF ApplicationStep

LEMMA DeliverInv == IInv /\ Deliver => IInv'
<1> SUFFICES ASSUME IInv, Deliver PROVE IInv'
  OBVIOUS
<1>1. UNCHANGED <<signals, debugger, application, live>> /\ totalNumCQs' = totalNumCQs /\ ~Nothing
  BY DEF Deliver, totalNumCQs, debugger, Nothing
<1>2. \A e : Pending(e) => Pending(e)'
  BY ShortSequences DEF Deliver, Pending
<1>3. (EntryDue => EntryDue') /\ (ExitDue => ExitDue')
  BY <1>1, <1>2 DEF EntryDue, ExitDue, debugger
<1> QED
  BY <1>1, <1>3 DEF IInv, Ranges, AtRest, Creating, Destroying, AllClear, InLoop, signals, debugger, application,
                    BeforeCreation, BeforeDestruction, Released, AfterTold

LEMMA Inductive == (Init => IInv) /\ (IInv /\ [Next]_vars => IInv')
<1>1. CASE UNCHANGED vars
  BY <1>1, InvInit DEF vars, signals, debugger, application, IInv, Ranges, AtRest, Creating, Destroying, AllClear,
     InLoop, Nothing, EntryDue, ExitDue, Pending, BeforeCreation, BeforeDestruction, Released, AfterTold, totalNumCQs
<1>2. IInv /\ Terminating => IInv'
  BY DEF Terminating, vars, signals, debugger, application, IInv, Ranges, AtRest, Creating, Destroying, AllClear,
     InLoop, Nothing, EntryDue, ExitDue, Pending, BeforeCreation, BeforeDestruction, Released, AfterTold, totalNumCQs
<1> QED
  BY <1>1, <1>2, InvInit, DebuggerStepInv, ApplicationStepInv, DeliverInv DEF Next

LEMMA Invariant == Spec => []IInv
  BY Inductive, PTL DEF Spec

LEMMA InvImplies ==
  IInv => TypeOK /\ QuietReadsAreQuiet /\ ExpectedEventComes /\ NoSignalIsLost
<1> SUFFICES ASSUME IInv PROVE TypeOK /\ QuietReadsAreQuiet /\ ExpectedEventComes /\ NoSignalIsLost
  OBVIOUS
<1>t. totalNumCQs \in Nat \ {0} /\ Loops \in Nat \ {0}
  BY TotalType, LoopsAssumption DEF IInv, Ranges, totalNumCQs
<1> USE <1>t DEF IInv, Ranges, AtRest, Creating, Destroying, AllClear, InLoop
<1>1. QuietReadsAreQuiet
  BY DEF QuietReadsAreQuiet, Quiet, Blocked, EntryDue, ExitDue, Nothing, AfterTold
<1>2. ExpectedEventComes
  <2>1. \A e : Pending(e) => events \o raised = <<e>>
    <3> SUFFICES ASSUME NEW e, Pending(e) PROVE events \o raised = <<e>>
      OBVIOUS
    <3>1. <<e>> \in Seq({e})
      OBVIOUS
    <3> QED
      BY <3>1, ConcatEmptySeq DEF Pending
  <2> QED
    BY <2>1 DEF ExpectedEventComes, EntryDue, ExitDue
<1>3. NoSignalIsLost
  BY DEF NoSignalIsLost, AfterTold, Places, BeforeCreation, BeforeDestruction, Released
<1>4. live \in 0..totalNumCQs
  BY DEF Places
<1>5. /\ raised \in Seq({"PROCESS_ENTRY", "PROCESS_EXIT"})
      /\ events \in Seq({"PROCESS_ENTRY", "PROCESS_EXIT"})
  <2>1. Nothing \/ \E e \in {"PROCESS_ENTRY", "PROCESS_EXIT"} : Pending(e)
    BY DEF Places, BeforeCreation, BeforeDestruction, Released, EntryDue, ExitDue
  <2>2. /\ <<>> \in Seq({"PROCESS_ENTRY", "PROCESS_EXIT"})
        /\ \A e \in {"PROCESS_ENTRY", "PROCESS_EXIT"} : <<e>> \in Seq({"PROCESS_ENTRY", "PROCESS_EXIT"})
    OBVIOUS
  <2> QED
    BY <2>1, <2>2 DEF Nothing, Pending
<1>6. pc \in {"off", "awaitLoop", "awaitCreated", "awaitDestroyed", "clearLoop", "clearCreated",
              "clearDestroyed", "create", "destroy", "tellCreated", "tellDestroyed", "exited"}
  BY DEF Places, AfterTold, BeforeCreation, BeforeDestruction, Released
<1> QED
  BY <1>1, <1>2, <1>3, <1>4, <1>5, <1>6 DEF TypeOK, Places

(* Types of both processes' state.                                         *)
THEOREM TypeCorrect == Spec => []TypeOK
  BY Invariant, InvImplies, PTL

(* Every read of the debugger that expects no event is made while nothing  *)
(* is pending and the application is blocked, so its 2 ms are enough.      *)
THEOREM ReadsAreQuiet == Spec => []QuietReadsAreQuiet
  BY Invariant, InvImplies, PTL

(* Where the debugger expects PROCESS_ENTRY or PROCESS_EXIT, exactly this  *)
(* event is pending.                                                       *)
THEOREM EventsComeAsExpected == Spec => []ExpectedEventComes
  BY Invariant, InvImplies, PTL

(* No process sets a signal the other has not cleared.                     *)
THEOREM SignalsAreNotLost == Spec => []NoSignalIsLost
  BY Invariant, InvImplies, PTL

-----------------------------------------------------------------------------
(* What waits is answered, and every step nears the end.                   *)

LEMMA InvGoesOn == IInv => NothingStalls
<1> SUFFICES ASSUME IInv PROVE NothingStalls
  OBVIOUS
<1>1. CASE at \in {"awaitCreate", "awaitDestroy"}
  <2>1. ~debugee_signal => ApplicationMayGoOn
    BY <1>1 DEF IInv, Creating, Destroying, BeforeCreation, BeforeDestruction, Released, ApplicationMayGoOn
  <2> QED
    BY <1>1, <2>1 DEF NothingStalls, DebuggerMayGoOn, EventIsDue
<1>2. CASE at \notin {"awaitCreate", "awaitDestroy"}
  BY <1>2 DEF IInv, Ranges, Places, AtRest, NothingStalls, DebuggerMayGoOn, EventIsDue
<1> QED
  BY <1>1, <1>2

(* Until the test is done, the debugger, the application or the driver has *)
(* a step to take: none of the waits of run_proc_entry_exit_test and of    *)
(* loop_create_destroy_multiple_cq_immcl is left without its signal or its *)
(* event.                                                                  *)
THEOREM TestNeverStalls == Spec => []NothingStalls
  BY Invariant, InvGoesOn, PTL

(* The debugger's part of the distance, at each of its places.             *)
DistanceAt ==
    /\ at = "clear" => DebuggerAhead = 8 * totalNumCQs + 6
    /\ at = "launch" => DebuggerAhead = 8 * totalNumCQs + 5
    /\ at = "noQueueYet" => DebuggerAhead = 8 * totalNumCQs + 4
    /\ at = "letCreate" => DebuggerAhead = 8 * totalNumCQs - 4 * queueNum + 7
    /\ at = "awaitCreate" => DebuggerAhead = 8 * totalNumCQs - 4 * queueNum + 6
    /\ at = "clearCreate" => DebuggerAhead = 8 * totalNumCQs - 4 * queueNum + 5
    /\ at = "checkCreate" => DebuggerAhead = 8 * totalNumCQs - 4 * queueNum + 4
    /\ at = "letContinue" => DebuggerAhead = 4 * totalNumCQs + 3
    /\ at = "letDestroy" => DebuggerAhead = 4 * totalNumCQs - 4 * queueNum + 3
    /\ at = "awaitDestroy" => DebuggerAhead = 4 * totalNumCQs - 4 * queueNum + 6
    /\ at = "clearDestroy" => DebuggerAhead = 4 * totalNumCQs - 4 * queueNum + 5
    /\ at = "checkDestroy" => DebuggerAhead = 4 * totalNumCQs - 4 * queueNum + 4
    /\ at = "join" => DebuggerAhead = 1
    /\ at = "done" => DebuggerAhead = 0
    /\ totalNumCQs \in Nat /\ queueNum \in 1..totalNumCQs /\ at \in Places
    /\ loop \in 0..Loops

LEMMA Distance == IInv => DistanceAt
<1> SUFFICES ASSUME IInv PROVE DistanceAt
  OBVIOUS
<1>1. totalNumCQs \in Nat /\ queueNum \in 1..totalNumCQs /\ at \in Places /\ loop \in 0..Loops
  BY TotalType DEF IInv, Ranges, totalNumCQs
<1>2. /\ at \in {"letCreate", "awaitCreate", "clearCreate", "checkCreate"} => seen = queueNum - 1
      /\ at = "letContinue" => seen = totalNumCQs
      /\ at \in {"awaitDestroy", "clearDestroy", "checkDestroy"} => seen = totalNumCQs - queueNum + 1
      /\ at = "letDestroy" => seen = totalNumCQs - queueNum
  BY DEF seen
<1> QED
  BY <1>1, <1>2 DEF DistanceAt, DebuggerAhead

LEMMA AheadIsNatural ==
  IInv => /\ Len(numCQs) - device \in Nat /\ Loops - loop \in Nat
          /\ DebuggerAhead \in Nat /\ ApplicationAhead \in Nat /\ Len(raised) \in Nat
<1> SUFFICES ASSUME IInv
             PROVE  /\ Len(numCQs) - device \in Nat /\ Loops - loop \in Nat
                    /\ DebuggerAhead \in Nat /\ ApplicationAhead \in Nat /\ Len(raised) \in Nat
  OBVIOUS
<1>1. Len(numCQs) \in Nat /\ Loops \in Nat
  BY QueuesAssumption, LoopsAssumption
<1>2. Len(numCQs) - device \in Nat /\ Loops - loop \in Nat
  BY <1>1 DEF IInv, Ranges
<1>4. DebuggerAhead \in Nat
  BY Distance DEF DistanceAt, Places
<1>5. ApplicationAhead \in Nat
  BY DEF ApplicationAhead
<1>6. TypeOK
  BY InvImplies
<1>7. Len(raised) \in Nat
  BY <1>6 DEF TypeOK
<1> QED
  BY <1>2, <1>4, <1>5, <1>7

(* Nearer in the order of the five: the first that differs is less.        *)
LEMMA Lexicographic ==
  ASSUME IInv,
         \/ Len(numCQs) - device' < Len(numCQs) - device
         \/ /\ device' = device
            /\ \/ Loops - loop' < Loops - loop
               \/ /\ loop' = loop
                  /\ \/ DebuggerAhead' < DebuggerAhead
                     \/ /\ DebuggerAhead' = DebuggerAhead
                        /\ \/ ApplicationAhead' < ApplicationAhead
                           \/ ApplicationAhead' = ApplicationAhead /\ Len(raised)' < Len(raised)
  PROVE  NearerToTheEnd
<1>1. \A i \in 1..5 : Ahead[i] \in Nat
  BY AheadIsNatural DEF Ahead
<1>2. \E i \in 1..5 : Ahead'[i] < Ahead[i] /\ \A j \in 1..i - 1 : Ahead'[j] = Ahead[j]
  <2>1. CASE Len(numCQs) - device' < Len(numCQs) - device
    <3>1. Ahead'[1] < Ahead[1] /\ \A j \in 1..1 - 1 : Ahead'[j] = Ahead[j]
      BY <2>1 DEF Ahead
    <3> QED
      BY <3>1
  <2>2. CASE device' = device /\ Loops - loop' < Loops - loop
    <3>1. Ahead'[2] < Ahead[2] /\ \A j \in 1..2 - 1 : Ahead'[j] = Ahead[j]
      BY <2>2 DEF Ahead
    <3> QED
      BY <3>1
  <2>3. CASE device' = device /\ loop' = loop /\ DebuggerAhead' < DebuggerAhead
    <3>1. Ahead'[3] < Ahead[3] /\ \A j \in 1..3 - 1 : Ahead'[j] = Ahead[j]
      BY <2>3 DEF Ahead
    <3> QED
      BY <3>1
  <2>4. CASE /\ device' = device /\ loop' = loop /\ DebuggerAhead' = DebuggerAhead
             /\ ApplicationAhead' < ApplicationAhead
    <3>1. Ahead'[4] < Ahead[4] /\ \A j \in 1..4 - 1 : Ahead'[j] = Ahead[j]
      BY <2>4 DEF Ahead
    <3> QED
      BY <3>1
  <2>5. CASE /\ device' = device /\ loop' = loop /\ DebuggerAhead' = DebuggerAhead
             /\ ApplicationAhead' = ApplicationAhead /\ Len(raised)' < Len(raised)
    <3>1. Ahead'[5] < Ahead[5] /\ \A j \in 1..5 - 1 : Ahead'[j] = Ahead[j]
      BY <2>5 DEF Ahead
    <3> QED
      BY <3>1
  <2> QED
    BY <2>1, <2>2, <2>3, <2>4, <2>5
<1> QED
  BY <1>1, <1>2 DEF NearerToTheEnd

LEMMA DebuggerNearer == IInv /\ IInv' /\ DebuggerStep => NearerToTheEnd
<1> SUFFICES ASSUME IInv, IInv', DebuggerStep PROVE NearerToTheEnd
  OBVIOUS
<1>p. DistanceAt /\ DistanceAt'
  BY Distance, PTL
<1>t. DistanceAt /\ DistanceAt' /\ Len(numCQs) \in Nat /\ Loops \in Nat /\ device \in 1..Len(numCQs)
  BY <1>p, QueuesAssumption, LoopsAssumption DEF IInv, Ranges
<1>s. ASSUME device' = device, loop' = loop, DebuggerAhead' < DebuggerAhead
      PROVE  NearerToTheEnd
  BY <1>s, Lexicographic
<1>d. totalNumCQs' = totalNumCQs \/ device' # device
  BY DEF totalNumCQs
<1>1. CASE ClearOldSignal
  BY <1>1, <1>t, <1>s, <1>d DEF ClearOldSignal, DistanceAt
<1>2. CASE LaunchAndAttach
  <2>1. loop' = loop
    BY <1>2 DEF LaunchAndAttach, IInv, AtRest
  <2> QED
    BY <1>2, <2>1, <1>t, <1>s, <1>d DEF LaunchAndAttach, DistanceAt
<1>3. CASE ReadBeforeLoop
  BY <1>3, <1>t, <1>s, <1>d DEF ReadBeforeLoop, DistanceAt
<1>4. CASE NotifyApplication
  BY <1>4, <1>t, <1>s, <1>d DEF NotifyApplication, DistanceAt
<1>5. CASE WaitForApplication
  BY <1>5, <1>t, <1>s, <1>d DEF WaitForApplication, DistanceAt
<1>6. CASE ClearApplicationSignal
  BY <1>6, <1>t, <1>s, <1>d DEF ClearApplicationSignal, DistanceAt
<1>7. CASE CheckCreation
  <2>1. at' = AfterCreation
    BY <1>7, <1>t DEF CheckCreation, CheckEvent, DistanceAt, Places
  <2> QED
    BY <1>7, <2>1, <1>t, <1>s, <1>d DEF CheckCreation, AfterCreation, DistanceAt
<1>8. CASE CheckDestruction
  <2>1. CASE queueNum = totalNumCQs
    <3>1. device' = device /\ loop' = loop + 1
      BY <1>8, <2>1 DEF CheckDestruction
    <3>2. Loops - loop' < Loops - loop
      BY <3>1, <1>t DEF DistanceAt
    <3> QED
      BY <3>1, <3>2, Lexicographic
  <2>2. CASE queueNum # totalNumCQs
    BY <1>8, <2>2, <1>t, <1>s, <1>d DEF CheckDestruction, DistanceAt
  <2> QED
    BY <2>1, <2>2
<1>9. CASE JoinAndDetach
  <2>1. CASE device' = device + 1
    <3>1. Len(numCQs) - device' < Len(numCQs) - device
      BY <2>1, <1>t
    <3> QED
      BY <3>1, Lexicographic
  <2>2. CASE device' # device + 1
    BY <1>9, <2>2, <1>t, <1>s DEF JoinAndDetach, DistanceAt
  <2> QED
    BY <2>1, <2>2
<1> QED
  BY <1>1, <1>2, <1>3, <1>4, <1>5, <1>6, <1>7, <1>8, <1>9 DEF DebuggerStep

(* The application has cleared the debugger's signal when it tells.        *)
LEMMA TellsUnsignaled == IInv /\ pc \in {"tellCreated", "tellDestroyed"} => ~debugger_signal
  BY DEF IInv, Ranges, Places, AtRest, Creating, Destroying, BeforeCreation, BeforeDestruction, Released, AfterTold

LEMMA ApplicationNearer == IInv /\ ApplicationStep => NearerToTheEnd
<1> SUFFICES ASSUME IInv, ApplicationStep PROVE NearerToTheEnd
  OBVIOUS
<1>1. UNCHANGED debugger
  BY DEF ApplicationStep, WaitForDebugger, ClearDebuggerSignal, CreateQueue, DestroyQueue, TellCreated,
         TellDestroyed
<1>2. DebuggerAhead' = DebuggerAhead
  BY <1>1 DEF debugger, DebuggerAhead, seen, totalNumCQs
<1>3. CASE WaitForDebugger
  <2>1. ApplicationAhead = 4 /\ ApplicationAhead' = 3
    BY <1>3 DEF WaitForDebugger, ApplicationAhead, signals
  <2> QED
    BY <1>1, <1>2, <2>1, Lexicographic DEF debugger
<1>4. CASE ClearDebuggerSignal
  <2>1. ApplicationAhead = 3 /\ ApplicationAhead' = 2
    BY <1>4 DEF ClearDebuggerSignal, ApplicationAhead
  <2> QED
    BY <1>1, <1>2, <2>1, Lexicographic DEF debugger
<1>5. CASE CreateQueue \/ DestroyQueue
  <2>1. ApplicationAhead = 2 /\ ApplicationAhead' = 1
    BY <1>5 DEF CreateQueue, DestroyQueue, ApplicationAhead
  <2> QED
    BY <1>1, <1>2, <2>1, Lexicographic DEF debugger
<1>6. CASE TellCreated \/ TellDestroyed
  <2>1. ApplicationAhead = 1 /\ ~debugger_signal'
    BY <1>6, TellsUnsignaled DEF TellCreated, TellDestroyed, ApplicationAhead
  <2>2. ApplicationAhead' = 0
    BY <1>6, <2>1 DEF TellCreated, TellDestroyed, AfterDestruction, ApplicationAhead
  <2> QED
    BY <1>1, <1>2, <2>1, <2>2, Lexicographic DEF debugger
<1> QED
  BY <1>3, <1>4, <1>5, <1>6 DEF ApplicationStep

LEMMA DeliverNearer == IInv /\ Deliver => NearerToTheEnd
<1> SUFFICES ASSUME IInv, Deliver PROVE NearerToTheEnd
  OBVIOUS
<1>1. UNCHANGED <<signals, debugger, application, live>>
  BY DEF Deliver
<1>2. DebuggerAhead' = DebuggerAhead /\ ApplicationAhead' = ApplicationAhead
  BY <1>1 DEF signals, debugger, application, DebuggerAhead, ApplicationAhead, seen, totalNumCQs
<1>3. Len(raised)' < Len(raised)
  <2>1. raised \in Seq({"PROCESS_ENTRY", "PROCESS_EXIT"}) /\ raised # <<>> /\ raised' = Tail(raised)
    BY InvImplies DEF TypeOK, Deliver
  <2> QED
    BY <2>1, HeadTailProperties
<1> QED
  BY <1>1, <1>2, <1>3, Lexicographic DEF debugger

(* Every step of the debugger, of the application and of the driver brings *)
(* the test nearer to its end, in an order with no infinite descent: on    *)
(* any number of devices, queues and loops the two lock-step loops of      *)
(* run_proc_entry_exit_test and loop_create_destroy_multiple_cq_immcl      *)
(* never repeat an iteration, whatever the order of their steps.           *)
THEOREM EachStepNearsTheEnd == Spec => EachStepIsNearer
<1>1. IInv /\ IInv' /\ [Next]_vars => [NearerToTheEnd]_vars
  BY DebuggerNearer, ApplicationNearer, DeliverNearer DEF Next, Terminating
<1> QED
  BY <1>1, Invariant, PTL DEF Spec, EachStepIsNearer

-----------------------------------------------------------------------------
(* Refinement: CreateQueue and DestroyQueue are LockStep's Operate, the    *)
(* debugger's checks are its Observe.                                      *)

LEMMA InitRefines == Init => Abstract!Init
  BY DEF Init, Abstract!Init, seen

LEMMA DebuggerRefines ==
  IInv /\ DebuggerStep => Abstract!Next \/ UNCHANGED Abstract!vars
<1> SUFFICES ASSUME IInv, DebuggerStep PROVE Abstract!Next \/ UNCHANGED Abstract!vars
  OBVIOUS
<1>t. totalNumCQs \in Nat \ {0} /\ Loops \in Nat \ {0}
  BY TotalType, LoopsAssumption DEF IInv, Ranges, totalNumCQs
<1> USE <1>t DEF IInv, Ranges, Abstract!vars
<1>1. CASE ClearOldSignal
  BY <1>1 DEF ClearOldSignal, seen, totalNumCQs
<1>2. CASE LaunchAndAttach
  BY <1>2 DEF LaunchAndAttach, seen, totalNumCQs, AtRest
<1>3. CASE ReadBeforeLoop
  BY <1>3 DEF ReadBeforeLoop, seen, totalNumCQs
<1>4. CASE NotifyApplication
  BY <1>4 DEF NotifyApplication, seen, totalNumCQs
<1>5. CASE WaitForApplication
  BY <1>5 DEF WaitForApplication, seen, totalNumCQs
<1>6. CASE ClearApplicationSignal
  BY <1>6 DEF ClearApplicationSignal, seen, totalNumCQs
<1>7. CASE CheckCreation
  <2>1. at = "checkCreate" /\ live = queueNum /\ UNCHANGED <<device, live, loop>> /\ totalNumCQs' = totalNumCQs
    BY <1>7 DEF CheckCreation, Creating, totalNumCQs, application
  <2>2. at' = AfterCreation
    BY <1>7, DebuggerStepInv DEF CheckCreation, CheckEvent, Places
  <2>3. queueNum' = IF queueNum < totalNumCQs THEN queueNum + 1 ELSE queueNum
    BY <1>7 DEF CheckCreation
  <2>4. seen = live - 1 /\ seen' = live
    BY <2>1, <2>2, <2>3 DEF seen, AfterCreation
  <2>5. Abstract!totalNumCQs = totalNumCQs
    BY DEF Abstract!totalNumCQs, totalNumCQs
  <2>6. Abstract!Observe
    BY <2>1, <2>2, <2>4, <2>5 DEF Abstract!Observe, AfterCreation
  <2> QED
    BY <2>6 DEF Abstract!Next
<1>8. CASE CheckDestruction
  <2>1. /\ at = "checkDestroy" /\ live = totalNumCQs - queueNum
        /\ UNCHANGED <<device, live, queueNum>> /\ totalNumCQs' = totalNumCQs
    BY <1>8 DEF CheckDestruction, Destroying, totalNumCQs, application
  <2>2. IF queueNum = totalNumCQs THEN at' = AfterLoop /\ loop' = loop + 1
                                  ELSE at' = "letDestroy" /\ loop' = loop
    BY <1>8, DebuggerStepInv DEF CheckDestruction, CheckEvent, Places
  <2>3. seen = live + 1 /\ seen' = live
    BY <2>1, <2>2 DEF seen, AfterLoop
  <2>4. Abstract!Observe
    BY <2>1, <2>2, <2>3 DEF Abstract!Observe, AfterLoop
  <2> QED
    BY <2>4 DEF Abstract!Next
<1>9. CASE JoinAndDetach
  <2>1. at = "join" /\ live = 0 /\ live' = 0 /\ loop = Loops /\ seen = 0
    BY <1>9 DEF JoinAndDetach, AtRest, seen
  <2>2. at' \in {"clear", "done"} /\ seen' = 0
    BY <1>9 DEF JoinAndDetach, seen
  <2> QED
    BY <1>9, <2>1, <2>2 DEF JoinAndDetach, Abstract!NextDevice, Abstract!Next
<1> QED
  BY <1>1, <1>2, <1>3, <1>4, <1>5, <1>6, <1>7, <1>8, <1>9 DEF DebuggerStep

LEMMA ApplicationRefines ==
  IInv /\ ApplicationStep => Abstract!Next \/ UNCHANGED Abstract!vars
<1> SUFFICES ASSUME IInv, ApplicationStep PROVE Abstract!Next \/ UNCHANGED Abstract!vars
  OBVIOUS
<1>t. totalNumCQs \in Nat \ {0} /\ Loops \in Nat \ {0}
  BY TotalType, LoopsAssumption DEF IInv, Ranges, totalNumCQs
<1>u. UNCHANGED <<at, device, loop, queueNum>> /\ seen' = seen
  BY DEF ApplicationStep, WaitForDebugger, ClearDebuggerSignal, CreateQueue, DestroyQueue, TellCreated,
         TellDestroyed, debugger, totalNumCQs, seen
<1> USE <1>t, <1>u DEF IInv, Ranges
<1>1. CASE WaitForDebugger \/ ClearDebuggerSignal \/ TellCreated \/ TellDestroyed
  BY <1>1 DEF WaitForDebugger, ClearDebuggerSignal, TellCreated, TellDestroyed, Abstract!vars
<1>2. CASE CreateQueue
  <2>1. at = "awaitCreate" /\ live = queueNum - 1 /\ loop < Loops
    BY <1>2 DEF CreateQueue, AfterTold, Places, AtRest, Creating, Destroying, BeforeDestruction, Released, InLoop
  <2>2. seen = live /\ live' = live + 1
    BY <1>2, <2>1 DEF seen, CreateQueue
  <2>3. Abstract!Operate
    BY <2>1, <2>2 DEF Abstract!Operate
  <2> QED
    BY <2>3 DEF Abstract!Next
<1>3. CASE DestroyQueue
  <2>1. at = "awaitDestroy" /\ live = totalNumCQs - queueNum + 1 /\ loop < Loops
    BY <1>3 DEF DestroyQueue, AfterTold, Places, AtRest, Creating, Destroying, BeforeCreation, Released, InLoop
  <2>2. seen = live /\ live' = live - 1
    BY <1>3, <2>1 DEF seen, DestroyQueue
  <2>3. Abstract!Operate
    BY <2>1, <2>2 DEF Abstract!Operate
  <2> QED
    BY <2>3 DEF Abstract!Next
<1> QED
  BY <1>1, <1>2, <1>3 DEF ApplicationStep

(* QueueLoop implements LockStep: on every device the debugger observes    *)
(* each creation and each destruction before the next one.                 *)
THEOREM EachIsObserved == Spec => ObservesEach
<1>1. IInv /\ (Deliver \/ Terminating \/ UNCHANGED vars) => UNCHANGED Abstract!vars
  BY DEF Deliver, Terminating, vars, debugger, Abstract!vars, seen, totalNumCQs
<1>2. IInv /\ [Next]_vars => [Abstract!Next]_(Abstract!vars)
  BY <1>1, DebuggerRefines, ApplicationRefines DEF Next
<1> QED
  BY <1>2, InitRefines, Invariant, PTL DEF Spec, ObservesEach, Abstract!Spec
=============================================================================
