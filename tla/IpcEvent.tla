------------------------------- MODULE IpcEvent -------------------------------
(***************************************************************************)
(* run_ipc_event_test and run_ipc_event_test_opaque (test_ipc_event.cpp),  *)
(* the program they launch (test_ipc_event_helper.cpp), both of            *)
(* conformance_tests/core/test_ipc/src, and the socket they use            *)
(* (utils/net/include/net/test_ipc_comm.hpp).                              *)
(*                                                                         *)
(* The tests of one process run one after another.  Each launches a child, *)
(* creates an event pool with one event, writes what the child has to do   *)
(* to a shared memory segment of a fixed name and hands it the pool's IPC  *)
(* handle, over a socket or in the segment.  One side signals the event    *)
(* and the other observes it.  The child polls for the segment and copies  *)
(* it as soon as it exists, which may be before the parent has written it. *)
(*                                                                         *)
(* The parent's steps between two points where the child can tell the      *)
(* difference are one action, and so are the child's.  Regular and         *)
(* immediate command lists differ only in how a device is told to signal   *)
(* or wait, and the mode is left out.  The driver is external: an event of *)
(* an opened pool is the parent's event.  boost::process::child terminates *)
(* the child when the test leaves its scope.                               *)
(***************************************************************************)
EXTENDS Integers

CONSTANTS Tests,        \* the tests that may run
          MaxRuns,      \* bound on how many do
          MaxConnects,  \* CONNECTION_TIMEOUT / CONNECTION_WAIT
          MaxOpens      \* `retries`

VARIABLES
    test, run,          \* the current test and its number
    outcome,            \* what is known of its result
    parent,             \* where the parent is
    connects,           \* failed calls of connect
    hIpcEventPool,      \* the handle of the pool
    devices,            \* number of devices of the machine
    child, opens,       \* where the child is; its failed attempts to open the segment
    shared_data,        \* its copy of the segment
    early,              \* it was made before the segment was written
    handle,             \* the child's hIpcEventPool
    pool,               \* the handle by which it opened the pool
    exit_code,
    segment,            \* "ipc_event_test"
    semaphore,          \* "ipc_event_test_semaphore"
    listening, sent,    \* the child's socket and what was sent to it
    signaled, stamp     \* the event and its kernel time stamps

request == <<test, run, devices>>
files == <<segment, semaphore, listening, sent>>
event == <<signaled, stamp>>
parentVars == <<outcome, parent, connects, hIpcEventPool>>
work == <<opens, shared_data, early, handle, pool, exit_code>>
childVars == <<child, work>>
vars == <<request, files, event, parentVars, childVars>>

EventReads == {"host_reads", "device_reads", "device2_reads", "multi_device_reads"}
TimestampReads == {"host_timestamp_reads", "device_timestamp_reads",
                   "host_mapped_timestamp_reads"}

Type(p, c, multi) == [parent |-> p, child |-> c, multi_device |-> multi]

(* What the tests of both suites ask for.                                  *)
Types ==
    {Type(p, c, FALSE) : p \in {"host_signals", "device_signals"},
                         c \in {"host_reads", "device_reads"}}
    \cup {Type("host_launches_kernel", c, FALSE) : c \in TimestampReads}
    \cup {Type("query_event_status", "query_event_status", FALSE)}
    \cup {Type("device_signals", "device2_reads", TRUE)}
    \cup {Type(p, "multi_device_reads", TRUE) : p \in {"host_signals", "device_signals"}}

AllTests == [type : Types, sock : BOOLEAN]

ASSUME TestsAssumption == Tests \subseteq AllTests
ASSUME BoundsAssumption == MaxRuns \in Nat /\ MaxConnects \in Nat /\ MaxOpens \in Nat \ {0}

(* Handles are the numbers of the tests that created the pool; time stamps *)
(* likewise.  zeEventPoolGetIpcHandle may leave a handle unwritten.        *)
Null == 0
Unwritten == -1

(* An object that was created and not yet written.  0 is TEST_SOCK,        *)
(* PARENT_TEST_HOST_SIGNALS and CHILD_TEST_HOST_READS.                     *)
NoSegment == [exists |-> FALSE]
Zeros == [type |-> Type("host_signals", "host_reads", FALSE), sock |-> TRUE,
          ipc_handle |-> Null, time |-> 0]
test_data == [type |-> test.type, sock |-> test.sock,
              ipc_handle |-> IF test.sock THEN Null ELSE hIpcEventPool, time |-> 0]

(* What a copy may hold while the parent's memcpy is under way.            *)
Mixtures == {[type |-> t, sock |-> s, ipc_handle |-> h, time |-> 0] :
                t \in {Zeros.type, test_data.type}, s \in {Zeros.sock, test_data.sock},
                h \in {Zeros.ipc_handle, test_data.ipc_handle}}

Init ==
    /\ test \in Tests /\ run = 0 /\ devices \in 1..2
    /\ outcome = "none" /\ parent = "idle" /\ connects = 0 /\ hIpcEventPool = Null
    /\ child = "off" /\ opens = 0 /\ shared_data = Zeros /\ early = FALSE
    /\ handle = Null /\ pool = Null /\ exit_code = 0
    /\ segment = NoSegment /\ semaphore = 0 /\ listening = FALSE /\ sent = Null
    /\ signaled = FALSE /\ stamp = 0

-----------------------------------------------------------------------------
(* The parent.                                                             *)

(* The objects of an earlier test are removed before the child is started. *)
LeftOverKept == segment
LeftOver == NoSegment

StartTest(t) ==
    /\ parent = "idle" /\ run < MaxRuns
    /\ test' = t /\ run' = run + 1
    /\ semaphore' = 0 /\ segment' = LeftOver
    /\ listening' = FALSE /\ sent' = Null
    /\ outcome' = "running" /\ parent' = "zeInit" /\ connects' = 0 /\ hIpcEventPool' = Null
    /\ child' = "open" /\ opens' = 0 /\ shared_data' = Zeros /\ early' = FALSE
    /\ handle' = Null /\ pool' = Null /\ exit_code' = 0
    /\ UNCHANGED <<devices, event>>

(* The test leaves its scope, which ends the child.                        *)
Leave(result) ==
    /\ outcome' = result /\ parent' = "idle"
    /\ child' = "off"

Skip ==
    /\ parent = "zeInit" /\ test.type.multi_device /\ devices < 2
    /\ Leave("skipped")
    /\ UNCHANGED <<request, files, event, connects, hIpcEventPool, work>>

(* get_event_pool and zeEventPoolGetIpcHandle.  The test goes on when the  *)
(* latter fails: EXPECT_ZE_RESULT_SUCCESS is no fatal failure.             *)
CreateEventPool ==
    /\ parent = "zeInit" /\ (test.type.multi_device => devices >= 2)
    /\ signaled' = FALSE /\ stamp' = 0
    /\ \/ hIpcEventPool' = run /\ UNCHANGED outcome
       \/ hIpcEventPool' = Unwritten /\ outcome' = "failing"
    /\ parent' = "createSegment"
    /\ UNCHANGED <<request, files, connects, childVars>>

CreateSegment ==
    /\ parent = "createSegment"
    /\ segment' = Zeros
    /\ parent' = "populate"
    /\ UNCHANGED <<request, semaphore, listening, sent, event, outcome, connects, hIpcEventPool,
                   childVars>>

Populate ==
    /\ parent = "populate"
    /\ segment' = test_data
    /\ parent' = IF test.sock THEN "connect" ELSE "signal"
    /\ UNCHANGED <<request, semaphore, listening, sent, event, outcome, connects, hIpcEventPool,
                   childVars>>

(* send_ipc_handle: connect is tried until the child listens or the        *)
(* attempts are used up.  Sending what is no descriptor fails.             *)
Connect ==
    /\ parent = "connect" /\ listening
    /\ \/ /\ hIpcEventPool # Unwritten
          /\ sent' = hIpcEventPool /\ parent' = "signal"
          /\ UNCHANGED <<outcome, child>>
       \/ /\ hIpcEventPool = Unwritten
          /\ Leave("failed") /\ UNCHANGED sent
    /\ UNCHANGED <<request, segment, semaphore, listening, event, connects, hIpcEventPool, work>>

OutOfTime(n) == n > MaxConnects

ConnectFails ==
    /\ parent = "connect" /\ ~listening
    /\ connects' = connects + 1
    /\ \/ ~OutOfTime(connects') /\ UNCHANGED <<outcome, parent, child>>
       \/ OutOfTime(connects') /\ Leave("failed")
    /\ UNCHANGED <<request, files, event, hIpcEventPool, work>>

(* parent_host_signals and parent_device_signals.                          *)
SignalEvent ==
    /\ parent = "signal" /\ test.type.parent \in {"host_signals", "device_signals"}
    /\ signaled' = TRUE
    /\ parent' = "wait"
    /\ UNCHANGED <<request, files, stamp, outcome, connects, hIpcEventPool, childVars>>

(* run_workload: the kernel's event is signaled with the time stamps; then *)
(* the child may read them.                                                *)
RunKernel ==
    /\ parent = "signal" /\ test.type.parent = "host_launches_kernel"
    /\ signaled' = TRUE /\ stamp' = run
    /\ parent' = "post"
    /\ UNCHANGED <<request, files, outcome, connects, hIpcEventPool, childVars>>

NotPosted == semaphore
Posted == semaphore + 1

PostSemaphore ==
    /\ parent = "post"
    /\ semaphore' = Posted
    /\ parent' = "wait"
    /\ UNCHANGED <<request, segment, listening, sent, event, outcome, connects, hIpcEventPool, childVars>>

LeaveItToChild ==
    /\ parent = "signal" /\ test.type.parent = "query_event_status"
    /\ parent' = "wait"
    /\ UNCHANGED <<request, files, event, outcome, connects, hIpcEventPool, childVars>>

(* c.wait and the checks.  A failed child ends the test without cleanup.   *)
ExitCodeIgnored == TRUE
ChildSucceeded == exit_code = 0

ChildFailed ==
    /\ parent = "wait" /\ child = "exited" /\ ~ChildSucceeded
    /\ Leave("failed")
    /\ UNCHANGED <<request, files, event, connects, hIpcEventPool, work>>

ResultIsRight ==
    /\ test.type.parent = "query_event_status" => signaled
    /\ test.type.parent = "host_launches_kernel" => segment.time = stamp

CheckAndCleanUp ==
    /\ parent = "wait" /\ child = "exited" /\ ChildSucceeded
    /\ Leave(IF outcome = "running" /\ ResultIsRight THEN "passed" ELSE "failed")
    /\ segment' = NoSegment
    /\ UNCHANGED <<request, semaphore, listening, sent, event, connects, hIpcEventPool, work>>

-----------------------------------------------------------------------------
(* The child.                                                              *)

Exit(code) == child' = "exited" /\ exit_code' = code

OpenSegment ==
    /\ child = "open" /\ segment # NoSegment
    /\ child' = "copy"
    /\ UNCHANGED <<request, files, event, parentVars, work>>

(* After `retries` failures the exception is thrown on.                    *)
OpenFails ==
    /\ child = "open" /\ segment = NoSegment
    /\ opens' = opens + 1
    /\ \/ opens' < MaxOpens /\ UNCHANGED <<child, exit_code>>
       \/ opens' >= MaxOpens /\ Exit(1)
    /\ UNCHANGED <<request, files, event, parentVars, shared_data, early, handle, pool>>

CopySegment ==
    /\ child = "copy"
    /\ early' = (parent = "populate")
    /\ shared_data' \in (IF early' THEN Mixtures ELSE {segment})
    /\ handle' = IF shared_data'.sock THEN Null ELSE shared_data'.ipc_handle
    /\ child' = IF shared_data'.sock THEN "listen" ELSE "openPool"
    /\ UNCHANGED <<request, files, event, parentVars, opens, pool, exit_code>>

(* receive_ipc_handle.                                                     *)
Listen ==
    /\ child = "listen"
    /\ listening' = TRUE
    /\ child' = "receive"
    /\ UNCHANGED <<request, segment, semaphore, sent, event, parentVars, work>>

Receive ==
    /\ child = "receive" /\ sent # Null
    /\ handle' = sent
    /\ listening' = FALSE /\ sent' = Null
    /\ child' = "openPool"
    /\ UNCHANGED <<request, segment, semaphore, event, parentVars,
                   opens, shared_data, early, pool, exit_code>>

(* open_ipc_event_handle; the driver opens the pool of this test only.     *)
AfterOpening == IF shared_data.type.parent = "host_launches_kernel" THEN "semaphore" ELSE "test"

OpenPool ==
    /\ child = "openPool"
    /\ \/ /\ handle = run
          /\ pool' = run /\ child' = AfterOpening /\ UNCHANGED exit_code
       \/ /\ handle # run
          /\ Exit(1) /\ UNCHANGED pool
    /\ UNCHANGED <<request, files, event, parentVars, opens, shared_data, early, handle>>

WaitSemaphore ==
    /\ child = "semaphore" /\ semaphore > 0
    /\ semaphore' = semaphore - 1
    /\ child' = "test"
    /\ UNCHANGED <<request, segment, listening, sent, event, parentVars, work>>

(* child_host_reads, child_device_reads, child_device2_reads and           *)
(* child_multi_device_reads wait without a limit.                          *)
ReadEvent ==
    /\ child = "test" /\ signaled
    /\ shared_data.type.child \in EventReads
    /\ Exit(0)
    /\ UNCHANGED <<request, files, event, parentVars, opens, shared_data, early, handle, pool>>

(* child_host_query_timestamp and child_device_query_timestamp; the copy   *)
(* is written back.                                                        *)
NotWrittenBack == segment
WrittenBack == [shared_data EXCEPT !.time = stamp]

ReadTimestamp ==
    /\ child = "test" /\ signaled
    /\ shared_data.type.child \in TimestampReads
    /\ shared_data' = [shared_data EXCEPT !.time = stamp]
    /\ segment' = WrittenBack
    /\ Exit(IF stamp > 0 THEN 0 ELSE 1)
    /\ UNCHANGED <<request, semaphore, listening, sent, event, parentVars,
                   opens, early, handle, pool>>

(* child_query_event_status: not ready, signal, ready.                     *)
QueryAndSignal ==
    /\ child = "test" /\ shared_data.type.child = "query_event_status"
    /\ signaled' = TRUE
    /\ Exit(IF signaled THEN 1 ELSE 0)
    /\ UNCHANGED <<request, files, stamp, parentVars, opens, shared_data, early, handle, pool>>

-----------------------------------------------------------------------------
Parent ==
    \/ Skip \/ CreateEventPool \/ CreateSegment \/ Populate
    \/ Connect \/ ConnectFails \/ SignalEvent \/ RunKernel \/ PostSemaphore \/ LeaveItToChild
    \/ ChildFailed \/ CheckAndCleanUp

Child ==
    \/ OpenSegment \/ OpenFails \/ CopySegment \/ Listen \/ Receive \/ OpenPool
    \/ WaitSemaphore \/ ReadEvent \/ ReadTimestamp \/ QueryAndSignal

Next == (\E t \in Tests : StartTest(t)) \/ Parent \/ Child

(* Both processes are scheduled; nothing makes another test start.         *)
Spec == Init /\ [][Next]_vars /\ WF_vars(Parent) /\ WF_vars(Child)

-----------------------------------------------------------------------------
SharedData == [type : Types, sock : BOOLEAN, ipc_handle : Unwritten..MaxRuns, time : 0..MaxRuns]

TypeOK ==
    /\ test \in Tests /\ run \in 0..MaxRuns /\ devices \in 1..2
    /\ outcome \in {"none", "running", "failing", "passed", "failed", "skipped"}
    /\ parent \in {"idle", "zeInit", "createSegment", "populate", "connect", "signal",
                   "post", "wait"}
    /\ connects \in 0..MaxConnects + 1
    /\ hIpcEventPool \in Unwritten..MaxRuns
    /\ child \in {"off", "open", "copy", "listen", "receive", "openPool", "semaphore",
                  "test", "exited"}
    /\ opens \in 0..MaxOpens
    /\ shared_data \in SharedData
    /\ early \in BOOLEAN /\ handle \in Unwritten..MaxRuns /\ pool \in 0..MaxRuns /\ exit_code \in 0..1
    /\ segment \in SharedData \cup {NoSegment}
    /\ semaphore \in 0..1 /\ listening \in BOOLEAN /\ sent \in Unwritten..MaxRuns
    /\ signaled \in BOOLEAN /\ stamp \in 0..MaxRuns

(* A child that does not copy the segment while the parent still writes it *)
(* runs what this test asks for, whatever an earlier test left behind.     *)
ReadsThisRequest ==
    child \notin {"off", "open", "copy"} /\ opens < MaxOpens /\ ~early
        => shared_data.type = test.type /\ shared_data.sock = test.sock

(* When a test passes, an event that one process signaled was observed by  *)
(* the other in the pool that this test created.                           *)
PassedMeansCrossed == outcome = "passed" => pool = run /\ signaled

(* A test fails only because the pool gave no handle, because one process  *)
(* came too late for the other's retries, or because the child copied the  *)
(* segment too early.                                                      *)
FailsOnlyForCause ==
    outcome \in {"failing", "failed"} =>
        \/ hIpcEventPool = Unwritten
        \/ connects > MaxConnects
        \/ opens = MaxOpens
        \/ early

(* What each process waits for before its next step.                       *)
ParentMayGoOn == parent # "idle" /\ (parent = "wait" => child = "exited")

ChildMayGoOn ==
    /\ child \notin {"off", "exited"}
    /\ child = "receive" => sent # Null
    /\ child = "semaphore" => semaphore > 0
    /\ child = "test" /\ shared_data.type.child # "query_event_status" => signaled

(* While a test runs one of its processes has something to do, unless the  *)
(* child copied the segment too early.                                     *)
NothingStalls == parent # "idle" /\ ~early => ParentMayGoOn \/ ChildMayGoOn

(* Every test ends, unless the child copied the segment too early.         *)
EveryTestEnds == parent # "idle" ~> parent = "idle" \/ early
=============================================================================
