---------------------------- MODULE IpcEventProofs ----------------------------
(***************************************************************************)
(* For any tests, in any order and number, and for any number of retries:  *)
(* the child runs what the test asks for, a test that passes has carried   *)
(* an event from one process to the other, and a test fails for a cause.   *)
(*                                                                         *)
(* The invariant says how far the child can be for each place of the       *)
(* parent, what the segment, the socket and the event hold there, and      *)
(* where the child's copy, handle and exit code come from.                 *)
(***************************************************************************)
EXTENDS IpcEvent, TLAPS

Populated == parent \in {"connect", "signal", "post", "wait"}

(* The test's answer to what is in the segment, but for the time stamps.   *)
Asks(data) == data.type = test.type /\ data.sock = test.sock
              /\ data.ipc_handle = IF test.sock THEN Null ELSE hIpcEventPool

(* The two processes: a child lives while its test runs, and gets past the *)
(* opening of the segment only once the parent has created it.             *)
InStep ==
    /\ parent = "idle" <=> child = "off"
    /\ child \notin {"off", "open", "exited"} => parent = "populate" \/ Populated
    /\ child \notin {"off", "exited"} => opens < MaxOpens /\ exit_code = 0
    /\ child = "exited" /\ opens < MaxOpens => parent = "populate" \/ Populated
    /\ parent # "idle" => run > 0 /\ connects <= MaxConnects
    /\ parent \notin {"idle", "wait"} => semaphore = 0

(* What the parent has put where.                                          *)
Shared ==
    /\ parent \in {"zeInit", "createSegment"} => segment = NoSegment
    /\ parent = "populate" => segment = Zeros
    /\ Populated => segment \in SharedData /\ (early \/ Asks(segment))
    /\ parent \notin {"idle", "zeInit"} => hIpcEventPool \in {run, Unwritten}
    /\ parent # "idle" /\ sent # Null => parent # "zeInit" /\ sent = hIpcEventPool

(* What the child has taken from there.                                    *)
Taken ==
    /\ child \notin {"off", "open", "copy"} /\ opens < MaxOpens =>
          /\ shared_data.type \in {Zeros.type, test.type}
          /\ ~early => Populated /\ Asks(shared_data)
    /\ child \in {"open", "copy"} => ~early
    /\ child = "openPool" => early \/ handle = hIpcEventPool
    /\ child \in {"semaphore", "test"} => pool = run

(* Who has signaled the event.                                             *)
Signals ==
    /\ parent \in {"createSegment", "populate", "connect", "signal"} /\ signaled =>
          test.type.parent = "query_event_status" /\ child = "exited"
    /\ parent # "idle" /\ test.type.parent = "query_event_status" /\ signaled =>
          parent = "zeInit" \/ child = "exited"
    /\ parent \in {"post", "wait"} /\ test.type.parent = "host_launches_kernel" => stamp = run

(* What its exit code tells.                                               *)
Exited ==
    child = "exited" =>
        /\ exit_code = 0 => pool = run /\ signaled /\ opens < MaxOpens /\ parent # "zeInit"
        /\ exit_code = 0 /\ shared_data.type.child \in TimestampReads => segment.time = stamp
        /\ exit_code # 0 => hIpcEventPool = Unwritten \/ opens = MaxOpens \/ early

Outcomes ==
    /\ outcome = "failing" => hIpcEventPool = Unwritten
    /\ outcome \in {"running", "failing"} <=> parent # "idle"
    /\ parent = "zeInit" => outcome = "running"

IInv == TypeOK /\ InStep /\ Shared /\ Taken /\ Signals /\ Exited /\ Outcomes
        /\ PassedMeansCrossed /\ FailsOnlyForCause

LEMMA KnownTypes ==
    /\ Zeros.type \in Types /\ Zeros \in SharedData /\ Zeros.type.child = "host_reads"
    /\ \A t \in Types :
          /\ t.child \in TimestampReads <=> t.parent = "host_launches_kernel"
          /\ t.child = "query_event_status" <=> t.parent = "query_event_status"
  BY BoundsAssumption DEF Zeros, SharedData, Types, Type, TimestampReads, Null, Unwritten

LEMMA TestTypes == TypeOK => test.type \in Types /\ test.sock \in BOOLEAN
  BY TestsAssumption DEF TypeOK, AllTests

LEMMA HandlesTyped ==
    /\ Null \in 0..MaxRuns /\ Null \in Unwritten..MaxRuns /\ Unwritten \in Unwritten..MaxRuns
    /\ \A n \in 0..MaxRuns : n \in Unwritten..MaxRuns
  BY BoundsAssumption DEF Null, Unwritten

LEMMA TestDataTyped == TypeOK => test_data \in SharedData
  BY TestTypes, BoundsAssumption DEF TypeOK, test_data, SharedData, Null, Unwritten

LEMMA TimeTyped ==
    ASSUME NEW data \in SharedData, NEW n \in 0..MaxRuns
    PROVE  /\ [data EXCEPT !.time = n] \in SharedData
           /\ [data EXCEPT !.time = n].time = n
           /\ [data EXCEPT !.time = n].type = data.type
           /\ [data EXCEPT !.time = n].sock = data.sock
           /\ [data EXCEPT !.time = n].ipc_handle = data.ipc_handle
  BY DEF SharedData

LEMMA MixturesTyped ==
    ASSUME TypeOK, NEW d \in Mixtures
    PROVE  d \in SharedData /\ d.type \in {Zeros.type, test.type}
<1>1. PICK t \in {Zeros.type, test_data.type}, b \in {Zeros.sock, test_data.sock},
           h \in {Zeros.ipc_handle, test_data.ipc_handle} :
           d = [type |-> t, sock |-> b, ipc_handle |-> h, time |-> 0]
  BY DEF Mixtures
<1>2. t \in Types /\ b \in BOOLEAN /\ h \in Unwritten..MaxRuns
  BY TestDataTyped, KnownTypes DEF SharedData
<1>3. d \in SharedData
  BY <1>1, <1>2, BoundsAssumption DEF SharedData
<1>4. d.type \in {Zeros.type, test.type}
  BY <1>1 DEF test_data
<1> QED  BY <1>3, <1>4

LEMMA CopyTyped ==
    ASSUME IInv, CopySegment
    PROVE  shared_data' \in SharedData /\ handle' \in Unwritten..MaxRuns
<1>1. shared_data' \in SharedData
  <2>1. CASE parent = "populate"
    BY <2>1, MixturesTyped DEF IInv, CopySegment
  <2>2. CASE parent # "populate"
    BY <2>2 DEF IInv, CopySegment, InStep, Shared
  <2> QED  BY <2>1, <2>2
<1>2. handle' \in Unwritten..MaxRuns
  BY <1>1, HandlesTyped DEF CopySegment, SharedData
<1> QED  BY <1>1, <1>2

(***************************************************************************)
(* One lemma per action: it keeps the invariant.                           *)
(***************************************************************************)
LEMMA StartTestStep ==
    ASSUME IInv, NEW t \in Tests, StartTest(t)
    PROVE  IInv'
<1> USE DEF StartTest, LeftOver, request, files, event, parentVars, childVars, work
<1>1. TypeOK'
  <2>1. test' \in Tests /\ devices' \in 1..2
    BY DEF IInv, TypeOK
  <2>2. run' \in 0..MaxRuns /\ connects' \in 0..MaxConnects + 1
    BY BoundsAssumption DEF IInv, TypeOK
  <2>3. /\ hIpcEventPool' \in Unwritten..MaxRuns /\ handle' \in Unwritten..MaxRuns
        /\ sent' \in Unwritten..MaxRuns /\ pool' \in 0..MaxRuns /\ stamp' \in 0..MaxRuns
    BY HandlesTyped DEF IInv, TypeOK
  <2>4. opens' \in 0..MaxOpens /\ exit_code' \in 0..1 /\ semaphore' \in 0..1
    BY BoundsAssumption DEF IInv, TypeOK
  <2>5. listening' \in BOOLEAN /\ signaled' \in BOOLEAN /\ early' \in BOOLEAN
    BY DEF IInv, TypeOK
  <2>6. shared_data' \in SharedData /\ segment' \in SharedData \cup {NoSegment}
    BY KnownTypes DEF IInv, TypeOK
  <2>7. /\ outcome' \in {"none", "running", "failing", "passed", "failed", "skipped"}
        /\ parent' \in {"idle", "zeInit", "createSegment", "populate", "connect", "signal",
                        "post", "wait"}
        /\ child' \in {"off", "open", "copy", "listen", "receive", "openPool", "semaphore",
                       "test", "exited"}
    BY DEF IInv, TypeOK
  <2> QED  BY <2>1, <2>2, <2>3, <2>4, <2>5, <2>6, <2>7 DEF TypeOK
<1>2. InStep'
  BY BoundsAssumption DEF IInv, TypeOK, InStep
<1>3. Shared'
  BY DEF IInv, Populated, Shared
<1>4. Taken'
  BY DEF IInv, Taken
<1>5. Signals'
  BY DEF IInv, Signals
<1>6. Exited'
  BY DEF IInv, Exited
<1>7. Outcomes'
  BY DEF IInv, Outcomes
<1>8. PassedMeansCrossed'
  BY DEF IInv, PassedMeansCrossed
<1>9. FailsOnlyForCause'
  BY DEF IInv, FailsOnlyForCause
<1> QED  BY <1>1, <1>2, <1>3, <1>4, <1>5, <1>6, <1>7, <1>8, <1>9 DEF IInv

LEMMA SkipStep ==
    ASSUME IInv, Skip
    PROVE  IInv'
<1> USE DEF Skip, Leave, request, files, event, parentVars, childVars, work
<1>1. TypeOK'
  BY DEF IInv, TypeOK
<1>2. InStep'
  BY DEF IInv, InStep
<1>3. Shared'
  BY DEF IInv, Populated, Shared
<1>4. Taken'
  BY DEF IInv, Taken
<1>5. Signals'
  BY DEF IInv, Signals
<1>6. Exited'
  BY DEF IInv, Exited
<1>7. Outcomes'
  BY DEF IInv, Outcomes
<1>8. PassedMeansCrossed'
  BY DEF IInv, PassedMeansCrossed
<1>9. FailsOnlyForCause'
  BY DEF IInv, FailsOnlyForCause
<1> QED  BY <1>1, <1>2, <1>3, <1>4, <1>5, <1>6, <1>7, <1>8, <1>9 DEF IInv

LEMMA CreateEventPoolStep ==
    ASSUME IInv, CreateEventPool
    PROVE  IInv'
<1> USE DEF CreateEventPool, request, files, event, parentVars, childVars, work
<1>1. TypeOK'
  <2>1. test' \in Tests /\ devices' \in 1..2
    BY DEF IInv, TypeOK
  <2>2. run' \in 0..MaxRuns /\ connects' \in 0..MaxConnects + 1
    BY BoundsAssumption DEF IInv, TypeOK
  <2>3. /\ hIpcEventPool' \in Unwritten..MaxRuns /\ handle' \in Unwritten..MaxRuns
        /\ sent' \in Unwritten..MaxRuns /\ pool' \in 0..MaxRuns /\ stamp' \in 0..MaxRuns
    BY HandlesTyped, BoundsAssumption DEF IInv, TypeOK
  <2>4. opens' \in 0..MaxOpens /\ exit_code' \in 0..1 /\ semaphore' \in 0..1
    BY BoundsAssumption DEF IInv, TypeOK
  <2>5. listening' \in BOOLEAN /\ signaled' \in BOOLEAN /\ early' \in BOOLEAN
    BY DEF IInv, TypeOK
  <2>6. shared_data' \in SharedData /\ segment' \in SharedData \cup {NoSegment}
    BY KnownTypes DEF IInv, TypeOK
  <2>7. /\ outcome' \in {"none", "running", "failing", "passed", "failed", "skipped"}
        /\ parent' \in {"idle", "zeInit", "createSegment", "populate", "connect", "signal",
                        "post", "wait"}
        /\ child' \in {"off", "open", "copy", "listen", "receive", "openPool", "semaphore",
                       "test", "exited"}
    BY DEF IInv, TypeOK
  <2> QED  BY <2>1, <2>2, <2>3, <2>4, <2>5, <2>6, <2>7 DEF TypeOK
<1>2. InStep'
  BY DEF IInv, Populated, InStep
<1>3. Shared'
  BY DEF IInv, Populated, Shared
<1>4. Taken'
  BY DEF IInv, InStep, Populated, Taken
<1>5. Signals'
  BY DEF IInv, Signals
<1>6. Exited'
  BY BoundsAssumption DEF IInv, TypeOK, InStep, Populated, Exited
<1>7. Outcomes'
  BY DEF IInv, Outcomes
<1>8. PassedMeansCrossed'
  BY DEF IInv, Outcomes, PassedMeansCrossed
<1>9. FailsOnlyForCause'
  BY DEF IInv, Outcomes, FailsOnlyForCause
<1> QED  BY <1>1, <1>2, <1>3, <1>4, <1>5, <1>6, <1>7, <1>8, <1>9 DEF IInv

LEMMA CreateSegmentStep ==
    ASSUME IInv, CreateSegment
    PROVE  IInv'
<1> USE DEF CreateSegment, request, files, event, parentVars, childVars, work
<1>1. TypeOK'
  BY TestTypes, KnownTypes DEF IInv, TypeOK, InStep, Populated, Taken, Signals,
     TimestampReads, EventReads
<1>2. InStep'
  BY DEF IInv, InStep
<1>3. Shared'
  BY DEF IInv, Populated, Shared
<1>4. Taken'
  BY DEF IInv, Populated, Taken
<1>5. Signals'
  BY DEF IInv, Signals
<1>6. Exited'
  BY DEF IInv, InStep, Populated, Exited
<1>7. Outcomes'
  BY DEF IInv, Outcomes
<1>8. PassedMeansCrossed'
  BY DEF IInv, PassedMeansCrossed
<1>9. FailsOnlyForCause'
  BY DEF IInv, FailsOnlyForCause
<1> QED  BY <1>1, <1>2, <1>3, <1>4, <1>5, <1>6, <1>7, <1>8, <1>9 DEF IInv

LEMMA PopulateStep ==
    ASSUME IInv, Populate
    PROVE  IInv'
<1> USE DEF Populate, test_data, request, files, event, parentVars, childVars, work
<1>1. TypeOK'
  BY TestDataTyped DEF IInv, TypeOK, Populate, request, files, event, parentVars, childVars, work
<1>2. InStep'
  BY DEF IInv, Populated, InStep
<1>3. Shared'
  BY TestDataTyped DEF IInv, TypeOK, Shared, Populate, Populated, Asks, test_data, request,
     files, event, parentVars, childVars, work
<1>4. Taken'
  BY DEF IInv, Populated, Taken
<1>5. Signals'
  BY DEF IInv, Signals
<1>6. Exited'
  BY TestTypes, KnownTypes DEF IInv, TypeOK, InStep, Populated, Taken, Signals,
     TimestampReads, EventReads, Exited
<1>7. Outcomes'
  BY DEF IInv, Outcomes
<1>8. PassedMeansCrossed'
  BY DEF IInv, PassedMeansCrossed
<1>9. FailsOnlyForCause'
  BY DEF IInv, FailsOnlyForCause
<1> QED  BY <1>1, <1>2, <1>3, <1>4, <1>5, <1>6, <1>7, <1>8, <1>9 DEF IInv

LEMMA ConnectStep ==
    ASSUME IInv, Connect
    PROVE  IInv'
<1> USE DEF Connect, Leave, request, files, event, parentVars, childVars, work
<1>1. TypeOK'
  BY DEF IInv, TypeOK
<1>2. InStep'
  BY DEF IInv, Populated, InStep
<1>3. Shared'
  BY DEF IInv, InStep, Populated, Shared, Asks
<1>4. Taken'
  BY DEF IInv, InStep, Populated, Shared, Asks, Taken
<1>5. Signals'
  BY DEF IInv, Signals
<1>6. Exited'
  BY DEF IInv, Exited
<1>7. Outcomes'
  BY DEF IInv, Outcomes
<1>8. PassedMeansCrossed'
  BY DEF IInv, PassedMeansCrossed
<1>9. FailsOnlyForCause'
  BY DEF IInv, FailsOnlyForCause
<1> QED  BY <1>1, <1>2, <1>3, <1>4, <1>5, <1>6, <1>7, <1>8, <1>9 DEF IInv

LEMMA ConnectFailsStep ==
    ASSUME IInv, ConnectFails
    PROVE  IInv'
<1> USE DEF ConnectFails, Leave, OutOfTime, request, files, event, parentVars, childVars, work
<1>1. TypeOK'
  BY BoundsAssumption DEF IInv, TypeOK, InStep, Populated
<1>2. InStep'
  BY BoundsAssumption DEF IInv, TypeOK, InStep, Populated
<1>3. Shared'
  BY DEF IInv, InStep, Populated, Shared, Asks
<1>4. Taken'
  BY DEF IInv, InStep, Populated, Shared, Asks, Taken
<1>5. Signals'
  BY DEF IInv, Signals
<1>6. Exited'
  BY DEF IInv, Exited
<1>7. Outcomes'
  BY DEF IInv, Outcomes
<1>8. PassedMeansCrossed'
  BY DEF IInv, PassedMeansCrossed
<1>9. FailsOnlyForCause'
  BY DEF IInv, Outcomes, FailsOnlyForCause
<1> QED  BY <1>1, <1>2, <1>3, <1>4, <1>5, <1>6, <1>7, <1>8, <1>9 DEF IInv

LEMMA SignalEventStep ==
    ASSUME IInv, SignalEvent
    PROVE  IInv'
<1> USE DEF SignalEvent, request, files, event, parentVars, childVars, work
<1>1. TypeOK'
  BY DEF IInv, TypeOK
<1>2. InStep'
  BY DEF IInv, Populated, InStep
<1>3. Shared'
  BY DEF IInv, InStep, Populated, Shared, Asks
<1>4. Taken'
  BY DEF IInv, InStep, Populated, Shared, Asks, Taken
<1>5. Signals'
  BY DEF IInv, Signals
<1>6. Exited'
  BY DEF IInv, Exited
<1>7. Outcomes'
  BY DEF IInv, Outcomes
<1>8. PassedMeansCrossed'
  BY DEF IInv, PassedMeansCrossed
<1>9. FailsOnlyForCause'
  BY DEF IInv, FailsOnlyForCause
<1> QED  BY <1>1, <1>2, <1>3, <1>4, <1>5, <1>6, <1>7, <1>8, <1>9 DEF IInv

LEMMA RunKernelStep ==
    ASSUME IInv, RunKernel
    PROVE  IInv'
<1> USE DEF RunKernel, request, files, event, parentVars, childVars, work
<1>1. TypeOK'
  BY DEF IInv, TypeOK
<1>2. InStep'
  BY DEF IInv, Populated, InStep
<1>3. Shared'
  BY DEF IInv, InStep, Populated, Shared, Asks
<1>4. Taken'
  BY DEF IInv, InStep, Populated, Shared, Asks, Taken
<1>5. Signals'
  BY DEF IInv, Signals
<1>6. Exited'
  BY DEF IInv, InStep, Signals, Populated, Exited
<1>7. Outcomes'
  BY DEF IInv, Outcomes
<1>8. PassedMeansCrossed'
  BY DEF IInv, PassedMeansCrossed
<1>9. FailsOnlyForCause'
  BY DEF IInv, FailsOnlyForCause
<1> QED  BY <1>1, <1>2, <1>3, <1>4, <1>5, <1>6, <1>7, <1>8, <1>9 DEF IInv

LEMMA PostSemaphoreStep ==
    ASSUME IInv, PostSemaphore
    PROVE  IInv'
<1> USE DEF PostSemaphore, Posted, request, files, event, parentVars, childVars, work
<1>1. TypeOK'
  BY DEF IInv, InStep, TypeOK
<1>2. InStep'
  BY DEF IInv, Populated, InStep
<1>3. Shared'
  BY DEF IInv, InStep, Populated, Shared, Asks
<1>4. Taken'
  BY DEF IInv, InStep, Populated, Shared, Asks, Taken
<1>5. Signals'
  BY DEF IInv, Signals
<1>6. Exited'
  BY DEF IInv, Exited
<1>7. Outcomes'
  BY DEF IInv, Outcomes
<1>8. PassedMeansCrossed'
  BY DEF IInv, PassedMeansCrossed
<1>9. FailsOnlyForCause'
  BY DEF IInv, FailsOnlyForCause
<1> QED  BY <1>1, <1>2, <1>3, <1>4, <1>5, <1>6, <1>7, <1>8, <1>9 DEF IInv

LEMMA LeaveItToChildStep ==
    ASSUME IInv, LeaveItToChild
    PROVE  IInv'
<1> USE DEF LeaveItToChild, request, files, event, parentVars, childVars, work
<1>1. TypeOK'
  BY DEF IInv, TypeOK
<1>2. InStep'
  BY DEF IInv, Populated, InStep
<1>3. Shared'
  BY DEF IInv, InStep, Populated, Shared, Asks
<1>4. Taken'
  BY DEF IInv, InStep, Populated, Shared, Asks, Taken
<1>5. Signals'
  BY DEF IInv, Signals
<1>6. Exited'
  BY DEF IInv, Exited
<1>7. Outcomes'
  BY DEF IInv, Outcomes
<1>8. PassedMeansCrossed'
  BY DEF IInv, PassedMeansCrossed
<1>9. FailsOnlyForCause'
  BY DEF IInv, FailsOnlyForCause
<1> QED  BY <1>1, <1>2, <1>3, <1>4, <1>5, <1>6, <1>7, <1>8, <1>9 DEF IInv

LEMMA ChildFailedStep ==
    ASSUME IInv, ChildFailed
    PROVE  IInv'
<1> USE DEF ChildFailed, Leave, ChildSucceeded, request, files, event, parentVars, childVars, work
<1>1. TypeOK'
  BY DEF IInv, TypeOK
<1>2. InStep'
  BY DEF IInv, InStep
<1>3. Shared'
  BY DEF IInv, Populated, Shared
<1>4. Taken'
  BY DEF IInv, Taken
<1>5. Signals'
  BY DEF IInv, Signals
<1>6. Exited'
  BY DEF IInv, Exited
<1>7. Outcomes'
  BY DEF IInv, Outcomes
<1>8. PassedMeansCrossed'
  BY DEF IInv, PassedMeansCrossed
<1>9. FailsOnlyForCause'
  BY DEF IInv, InStep, Exited, FailsOnlyForCause
<1> QED  BY <1>1, <1>2, <1>3, <1>4, <1>5, <1>6, <1>7, <1>8, <1>9 DEF IInv

LEMMA CheckAndCleanUpStep ==
    ASSUME IInv, CheckAndCleanUp
    PROVE  IInv'
<1> USE DEF CheckAndCleanUp, Leave, ChildSucceeded, ResultIsRight, request, files, event,
   parentVars, childVars, work
<1>1. TypeOK'
  BY DEF IInv, TypeOK
<1>2. InStep'
  BY DEF IInv, InStep
<1>3. Shared'
  BY DEF IInv, Populated, Shared
<1>4. Taken'
  BY DEF IInv, Taken
<1>5. Signals'
  BY DEF IInv, Signals
<1>6. Exited'
  BY DEF IInv, Exited
<1>7. Outcomes'
  BY DEF IInv, Outcomes
<1>8. PassedMeansCrossed'
  BY DEF IInv, InStep, Exited, PassedMeansCrossed
<1>9. FailsOnlyForCause'
  BY TestTypes, KnownTypes, BoundsAssumption DEF IInv, TypeOK, InStep, Shared, Populated,
     Taken, Signals, Exited, Outcomes, Asks, Null, Unwritten, TimestampReads, EventReads,
     FailsOnlyForCause
<1> QED  BY <1>1, <1>2, <1>3, <1>4, <1>5, <1>6, <1>7, <1>8, <1>9 DEF IInv

LEMMA OpenSegmentStep ==
    ASSUME IInv, OpenSegment
    PROVE  IInv'
<1> USE DEF OpenSegment, request, files, event, parentVars, childVars, work
<1>1. TypeOK'
  BY DEF IInv, TypeOK
<1>2. InStep'
  BY BoundsAssumption DEF IInv, TypeOK, InStep, Populated, Shared, Asks, Null, Unwritten
<1>3. Shared'
  BY DEF IInv, InStep, Populated, Shared, Asks
<1>4. Taken'
  BY DEF IInv, Taken
<1>5. Signals'
  BY DEF IInv, Signals
<1>6. Exited'
  BY DEF IInv, Exited
<1>7. Outcomes'
  BY DEF IInv, Outcomes
<1>8. PassedMeansCrossed'
  BY DEF IInv, PassedMeansCrossed
<1>9. FailsOnlyForCause'
  BY DEF IInv, FailsOnlyForCause
<1> QED  BY <1>1, <1>2, <1>3, <1>4, <1>5, <1>6, <1>7, <1>8, <1>9 DEF IInv

LEMMA OpenFailsStep ==
    ASSUME IInv, OpenFails
    PROVE  IInv'
<1> USE DEF OpenFails, Exit, request, files, event, parentVars, childVars, work
<1>1. TypeOK'
  BY BoundsAssumption DEF IInv, TypeOK, InStep, Populated
<1>2. InStep'
  BY BoundsAssumption DEF IInv, TypeOK, InStep
<1>3. Shared'
  BY DEF IInv, InStep, Populated, Shared, Asks
<1>4. Taken'
  BY BoundsAssumption DEF IInv, TypeOK, Taken
<1>5. Signals'
  BY DEF IInv, Signals
<1>6. Exited'
  BY BoundsAssumption DEF IInv, TypeOK, InStep, Populated, Exited
<1>7. Outcomes'
  BY DEF IInv, Outcomes
<1>8. PassedMeansCrossed'
  BY DEF IInv, PassedMeansCrossed
<1>9. FailsOnlyForCause'
  BY BoundsAssumption DEF IInv, TypeOK, InStep, Populated, FailsOnlyForCause
<1> QED  BY <1>1, <1>2, <1>3, <1>4, <1>5, <1>6, <1>7, <1>8, <1>9 DEF IInv

LEMMA CopySegmentStep ==
    ASSUME IInv, CopySegment
    PROVE  IInv'
<1> USE DEF CopySegment, request, files, event, parentVars, childVars, work
<1>1. TypeOK'
  BY CopyTyped DEF IInv, TypeOK, CopySegment, request, files, event, parentVars, childVars, work
<1>2. InStep'
  BY DEF IInv, Populated, InStep
<1>3. Shared'
  BY BoundsAssumption DEF IInv, TypeOK, InStep, Populated, Shared, Asks, Taken, Null, Unwritten
<1>4. Taken'
  <2>1. /\ shared_data'.type \in {Zeros.type, test.type}
        /\ ~early' => Populated /\ Asks(shared_data')
    <3>1. CASE parent = "populate"
      BY <3>1, MixturesTyped DEF IInv, CopySegment
    <3>2. CASE parent # "populate"
      BY <3>2 DEF IInv, CopySegment, InStep, Shared, Taken, Asks
    <3> QED  BY <3>1, <3>2
  <2>2. child' = "openPool" => early' \/ handle' = hIpcEventPool'
    BY <2>1, TestTypes DEF IInv, CopySegment, Asks, parentVars
  <2> QED
    BY <2>1, <2>2 DEF IInv, InStep, Taken, CopySegment, Populated, Asks, request, files,
       event, parentVars, childVars, work
<1>5. Signals'
  BY DEF IInv, Signals
<1>6. Exited'
  BY DEF IInv, Exited
<1>7. Outcomes'
  BY DEF IInv, Outcomes
<1>8. PassedMeansCrossed'
  BY DEF IInv, PassedMeansCrossed
<1>9. FailsOnlyForCause'
  BY DEF IInv, InStep, Signals, Taken, Populated, FailsOnlyForCause
<1> QED  BY <1>1, <1>2, <1>3, <1>4, <1>5, <1>6, <1>7, <1>8, <1>9 DEF IInv

LEMMA ListenStep ==
    ASSUME IInv, Listen
    PROVE  IInv'
<1> USE DEF Listen, request, files, event, parentVars, childVars, work
<1>1. TypeOK'
  BY DEF IInv, TypeOK
<1>2. InStep'
  BY DEF IInv, Populated, InStep
<1>3. Shared'
  BY DEF IInv, InStep, Populated, Shared, Asks
<1>4. Taken'
  BY DEF IInv, InStep, Populated, Shared, Asks, Taken
<1>5. Signals'
  BY DEF IInv, Signals
<1>6. Exited'
  BY DEF IInv, Exited
<1>7. Outcomes'
  BY DEF IInv, Outcomes
<1>8. PassedMeansCrossed'
  BY DEF IInv, PassedMeansCrossed
<1>9. FailsOnlyForCause'
  BY DEF IInv, FailsOnlyForCause
<1> QED  BY <1>1, <1>2, <1>3, <1>4, <1>5, <1>6, <1>7, <1>8, <1>9 DEF IInv

LEMMA ReceiveStep ==
    ASSUME IInv, Receive
    PROVE  IInv'
<1> USE DEF Receive, request, files, event, parentVars, childVars, work
<1>1. TypeOK'
  BY HandlesTyped DEF IInv, TypeOK, Receive, request, files, event, parentVars, childVars, work
<1>2. InStep'
  BY DEF IInv, Populated, InStep
<1>3. Shared'
  BY DEF IInv, InStep, Populated, Shared, Asks
<1>4. Taken'
  BY DEF IInv, InStep, Populated, Shared, Asks, Taken
<1>5. Signals'
  BY DEF IInv, Signals
<1>6. Exited'
  BY DEF IInv, Exited
<1>7. Outcomes'
  BY DEF IInv, Outcomes
<1>8. PassedMeansCrossed'
  BY DEF IInv, PassedMeansCrossed
<1>9. FailsOnlyForCause'
  BY DEF IInv, FailsOnlyForCause
<1> QED  BY <1>1, <1>2, <1>3, <1>4, <1>5, <1>6, <1>7, <1>8, <1>9 DEF IInv

LEMMA OpenPoolStep ==
    ASSUME IInv, OpenPool
    PROVE  IInv'
<1> USE DEF OpenPool, Exit, AfterOpening, request, files, event, parentVars, childVars, work
<1>1. TypeOK'
  BY DEF IInv, TypeOK
<1>2. InStep'
  BY DEF IInv, Populated, InStep
<1>3. Shared'
  BY DEF IInv, InStep, Populated, Shared, Asks
<1>4. Taken'
  BY DEF IInv, InStep, Populated, Shared, Asks, Taken
<1>5. Signals'
  BY DEF IInv, Signals
<1>6. Exited'
  BY BoundsAssumption DEF IInv, TypeOK, InStep, Populated, Shared, Asks, Taken, Null,
     Unwritten, Exited
<1>7. Outcomes'
  BY DEF IInv, Outcomes
<1>8. PassedMeansCrossed'
  BY DEF IInv, PassedMeansCrossed
<1>9. FailsOnlyForCause'
  BY DEF IInv, FailsOnlyForCause
<1> QED  BY <1>1, <1>2, <1>3, <1>4, <1>5, <1>6, <1>7, <1>8, <1>9 DEF IInv

LEMMA WaitSemaphoreStep ==
    ASSUME IInv, WaitSemaphore
    PROVE  IInv'
<1> USE DEF WaitSemaphore, request, files, event, parentVars, childVars, work
<1>1. TypeOK'
  BY DEF IInv, TypeOK
<1>2. InStep'
  BY DEF IInv, Populated, InStep
<1>3. Shared'
  BY DEF IInv, InStep, Populated, Shared, Asks
<1>4. Taken'
  BY DEF IInv, InStep, Populated, Shared, Asks, Taken
<1>5. Signals'
  BY DEF IInv, Signals
<1>6. Exited'
  BY DEF IInv, Exited
<1>7. Outcomes'
  BY DEF IInv, Outcomes
<1>8. PassedMeansCrossed'
  BY DEF IInv, PassedMeansCrossed
<1>9. FailsOnlyForCause'
  BY DEF IInv, FailsOnlyForCause
<1> QED  BY <1>1, <1>2, <1>3, <1>4, <1>5, <1>6, <1>7, <1>8, <1>9 DEF IInv

LEMMA ReadEventStep ==
    ASSUME IInv, ReadEvent
    PROVE  IInv'
<1> USE DEF ReadEvent, Exit, request, files, event, parentVars, childVars, work
<1>1. TypeOK'
  BY DEF IInv, TypeOK
<1>2. InStep'
  BY DEF IInv, Populated, InStep
<1>3. Shared'
  BY DEF IInv, InStep, Populated, Shared, Asks
<1>4. Taken'
  BY DEF IInv, InStep, Populated, Shared, Asks, Taken
<1>5. Signals'
  BY DEF IInv, Signals
<1>6. Exited'
  BY TestTypes, KnownTypes DEF IInv, TypeOK, InStep, Populated, Taken, Signals,
     TimestampReads, EventReads, Exited
<1>7. Outcomes'
  BY DEF IInv, Outcomes
<1>8. PassedMeansCrossed'
  BY DEF IInv, PassedMeansCrossed
<1>9. FailsOnlyForCause'
  BY DEF IInv, FailsOnlyForCause
<1> QED  BY <1>1, <1>2, <1>3, <1>4, <1>5, <1>6, <1>7, <1>8, <1>9 DEF IInv

LEMMA ReadTimestampStep ==
    ASSUME IInv, ReadTimestamp
    PROVE  IInv'
<1> USE DEF ReadTimestamp, Exit, WrittenBack, request, files, event, parentVars, childVars, work
<1>1. TypeOK'
  BY TimeTyped DEF IInv, TypeOK, InStep, ReadTimestamp, WrittenBack, Exit, request, files,
     event, parentVars, childVars, work
<1>2. InStep'
  BY DEF IInv, Populated, InStep
<1>3. Shared'
  <2>1. parent \in {"post", "wait"}
    BY KnownTypes, TestTypes DEF IInv, InStep, Taken, Signals, ReadTimestamp, Populated
  <2>2. segment' \in SharedData /\ (early \/ Asks(segment'))
    BY <2>1, TimeTyped DEF IInv, TypeOK, InStep, Taken, ReadTimestamp, WrittenBack, Asks
  <2> QED
    BY <2>1, <2>2 DEF IInv, Shared, ReadTimestamp, Populated, Asks, request, files, event,
       parentVars, childVars, work
<1>4. Taken'
  BY DEF IInv, InStep, Populated, Shared, Asks, Taken
<1>5. Signals'
  BY DEF IInv, Signals
<1>6. Exited'
  BY TestTypes, KnownTypes DEF IInv, TypeOK, InStep, Populated, Taken, Signals,
     TimestampReads, EventReads, Exited
<1>7. Outcomes'
  BY DEF IInv, Outcomes
<1>8. PassedMeansCrossed'
  BY DEF IInv, PassedMeansCrossed
<1>9. FailsOnlyForCause'
  BY DEF IInv, FailsOnlyForCause
<1> QED  BY <1>1, <1>2, <1>3, <1>4, <1>5, <1>6, <1>7, <1>8, <1>9 DEF IInv

LEMMA QueryAndSignalStep ==
    ASSUME IInv, QueryAndSignal
    PROVE  IInv'
<1> USE DEF QueryAndSignal, Exit, request, files, event, parentVars, childVars, work
<1>1. TypeOK'
  BY DEF IInv, TypeOK
<1>2. InStep'
  BY DEF IInv, Populated, InStep
<1>3. Shared'
  BY DEF IInv, InStep, Populated, Shared, Asks
<1>4. Taken'
  BY DEF IInv, InStep, Populated, Shared, Asks, Taken
<1>5. Signals'
  BY TestTypes, KnownTypes DEF IInv, TypeOK, InStep, Populated, Taken, Signals,
     TimestampReads, EventReads
<1>6. Exited'
  BY TestTypes, KnownTypes DEF IInv, TypeOK, InStep, Populated, Taken, Signals,
     TimestampReads, EventReads, Exited
<1>7. Outcomes'
  BY DEF IInv, Outcomes
<1>8. PassedMeansCrossed'
  BY DEF IInv, PassedMeansCrossed
<1>9. FailsOnlyForCause'
  BY DEF IInv, FailsOnlyForCause
<1> QED  BY <1>1, <1>2, <1>3, <1>4, <1>5, <1>6, <1>7, <1>8, <1>9 DEF IInv

LEMMA InitiallyTrue == Init => IInv
<1> SUFFICES ASSUME Init PROVE IInv
  OBVIOUS
<1>1. TypeOK
  <2>1. test \in Tests /\ devices \in 1..2
    BY DEF Init, Null
  <2>2. run \in 0..MaxRuns /\ connects \in 0..MaxConnects + 1
    BY BoundsAssumption DEF Init, Null
  <2>3. /\ hIpcEventPool \in Unwritten..MaxRuns /\ handle \in Unwritten..MaxRuns
        /\ sent \in Unwritten..MaxRuns /\ pool \in 0..MaxRuns /\ stamp \in 0..MaxRuns
    BY HandlesTyped DEF Init, Null
  <2>4. opens \in 0..MaxOpens /\ exit_code \in 0..1 /\ semaphore \in 0..1
    BY BoundsAssumption DEF Init, Null
  <2>5. listening \in BOOLEAN /\ signaled \in BOOLEAN /\ early \in BOOLEAN
    BY DEF Init, Null
  <2>6. shared_data \in SharedData /\ segment \in SharedData \cup {NoSegment}
    BY KnownTypes DEF Init, Null
  <2>7. /\ outcome \in {"none", "running", "failing", "passed", "failed", "skipped"}
        /\ parent \in {"idle", "zeInit", "createSegment", "populate", "connect", "signal",
                        "post", "wait"}
        /\ child \in {"off", "open", "copy", "listen", "receive", "openPool", "semaphore",
                       "test", "exited"}
    BY DEF Init, Null
  <2> QED  BY <2>1, <2>2, <2>3, <2>4, <2>5, <2>6, <2>7 DEF TypeOK
<1>2. InStep /\ Shared /\ Taken
  BY DEF Init, InStep, Shared, Taken, Populated, Null
<1>3. Signals /\ Exited /\ Outcomes
  BY DEF Init, Signals, Exited, Outcomes
<1>4. PassedMeansCrossed /\ FailsOnlyForCause
  BY DEF Init, PassedMeansCrossed, FailsOnlyForCause
<1> QED  BY <1>1, <1>2, <1>3, <1>4 DEF IInv

LEMMA StepKeeps == IInv /\ [Next]_vars => IInv'
<1> SUFFICES ASSUME IInv, [Next]_vars PROVE IInv'
  OBVIOUS
<1>1. CASE \E t \in Tests : StartTest(t)
  BY <1>1, StartTestStep
<1>2. CASE Parent
  BY <1>2, SkipStep, CreateEventPoolStep, CreateSegmentStep, PopulateStep,
     ConnectStep, ConnectFailsStep, SignalEventStep, RunKernelStep,
     PostSemaphoreStep, LeaveItToChildStep, ChildFailedStep,
     CheckAndCleanUpStep DEF Parent
<1>3. CASE Child
  BY <1>3, OpenSegmentStep, OpenFailsStep, CopySegmentStep, ListenStep, ReceiveStep,
     OpenPoolStep, WaitSemaphoreStep, ReadEventStep, ReadTimestampStep,
     QueryAndSignalStep DEF Child
<1>4. CASE UNCHANGED vars
  BY <1>4 DEF vars, request, files, event, parentVars, childVars, work, IInv, TypeOK, InStep,
     Shared, Taken, Signals, Exited, Outcomes, PassedMeansCrossed, FailsOnlyForCause,
     Populated, Asks
<1> QED  BY <1>1, <1>2, <1>3, <1>4 DEF Next

LEMMA Invariance == Spec => []IInv
  BY InitiallyTrue, StepKeeps, PTL DEF Spec

(***************************************************************************)
(* Every variable keeps its type: connect is retried as often as           *)
(* send_ipc_handle allows, the semaphore is never posted twice, and what   *)
(* the child copies is a request, even half-written.                       *)
(***************************************************************************)
THEOREM TypeCorrect == Spec => []TypeOK
<1>1. IInv => TypeOK
  BY DEF IInv
<1> QED  BY <1>1, Invariance, PTL

(***************************************************************************)
(* The name of the segment is the same for all tests, and a failed test    *)
(* leaves its segment behind (test_ipc_event.cpp:278).  A child that does  *)
(* not overtake the parent's memcpy still takes this test's request.       *)
(***************************************************************************)
THEOREM RequestsAreCurrent == Spec => []ReadsThisRequest
<1>1. IInv => ReadsThisRequest
  BY DEF IInv, Taken, Asks, ReadsThisRequest
<1> QED  BY <1>1, Invariance, PTL

(***************************************************************************)
(* A test that passes did what it is for: the child opened the pool that   *)
(* this test created, and the event that one side signaled was seen by the *)
(* other.                                                                  *)
(***************************************************************************)
THEOREM PassedTestsCrossed == Spec => []PassedMeansCrossed
<1>1. IInv => PassedMeansCrossed
  BY DEF IInv
<1> QED  BY <1>1, Invariance, PTL

(***************************************************************************)
(* With a pool that gives its handle, patient retries and a child that     *)
(* does not overtake the memcpy, no test fails: whatever the order of the  *)
(* two processes, the time stamps agree and the status is as expected.     *)
(***************************************************************************)
THEOREM FailuresHaveCauses == Spec => []FailsOnlyForCause
<1>1. IInv => FailsOnlyForCause
  BY DEF IInv
<1> QED  BY <1>1, Invariance, PTL

(***************************************************************************)
(* What a process may wait for is there or still comes: the handle, once   *)
(* the parent is past connect; the semaphore, once it waits for the child; *)
(* the event, once it has signaled.                                        *)
(***************************************************************************)
Given ==
    /\ listening /\ child # "off" => child = "receive"
    /\ child \in {"listen", "receive"} => shared_data.sock
    /\ child = "semaphore" => shared_data.type.parent = "host_launches_kernel"
    /\ test.sock /\ parent \in {"signal", "post", "wait"} =>
          child \notin {"open", "copy", "listen"} /\ (child = "receive" => sent # Null)
    /\ parent = "wait" /\ test.type.parent = "host_launches_kernel" =>
          child \in {"test", "exited"} \/ semaphore > 0
    /\ parent \in {"post", "wait"} /\ test.type.parent # "query_event_status" => signaled

LEMMA GivenInit == Init => Given
  BY DEF Init, Given

LEMMA GivenStep == IInv /\ Given /\ [Next]_vars => Given'
<1> SUFFICES ASSUME IInv, Given, [Next]_vars PROVE Given'
  OBVIOUS
<1> USE DEF Given, request, files, event, parentVars, childVars, work
<1>1. CASE \E t \in Tests : StartTest(t)
  BY <1>1 DEF StartTest
<1>2. CASE Skip \/ ChildFailed \/ CheckAndCleanUp
  BY <1>2 DEF Skip, ChildFailed, CheckAndCleanUp, Leave
<1>3. CASE CreateEventPool \/ CreateSegment \/ Populate
  BY <1>3 DEF CreateEventPool, CreateSegment, Populate
<1>4. CASE Connect
  <2>1. /\ child = "receive"
        /\ hIpcEventPool \in {run, Unwritten} /\ run > 0 /\ run \in Nat
    BY <1>4, BoundsAssumption DEF Connect, IInv, TypeOK, InStep, Shared
  <2> QED
    BY <1>4, <2>1 DEF Connect, Leave, Null
<1>5. CASE ConnectFails
  BY <1>5 DEF ConnectFails, Leave
<1>6. CASE SignalEvent \/ RunKernel \/ LeaveItToChild
  BY <1>6 DEF SignalEvent, RunKernel, LeaveItToChild
<1>7. CASE PostSemaphore
  BY <1>7 DEF PostSemaphore, Posted, IInv, InStep
<1>8. CASE OpenSegment \/ OpenFails
  BY <1>8 DEF OpenSegment, OpenFails, Exit
<1>9. CASE CopySegment
  <2>1. /\ child' \in {"listen", "openPool"} /\ (child' = "listen" => shared_data'.sock)
        /\ UNCHANGED <<request, files, event, parentVars>> /\ child = "copy"
    BY <1>9 DEF CopySegment
  <2> QED
    BY <2>1
<1>10. CASE Listen \/ Receive
  BY <1>10 DEF Listen, Receive
<1>11. CASE OpenPool
  BY <1>11 DEF OpenPool, AfterOpening, Exit
<1>12. CASE WaitSemaphore
  BY <1>12 DEF WaitSemaphore
<1>13. CASE ReadEvent \/ QueryAndSignal
  BY <1>13 DEF ReadEvent, QueryAndSignal, Exit
<1>14. CASE ReadTimestamp
  BY <1>14 DEF ReadTimestamp, Exit
<1>15. CASE UNCHANGED vars
  BY <1>15 DEF vars
<1> QED
  BY <1>1, <1>2, <1>3, <1>4, <1>5, <1>6, <1>7, <1>8, <1>9, <1>10, <1>11, <1>12, <1>13, <1>14, <1>15
  DEF Next, Parent, Child

LEMMA GivenGoesOn == IInv /\ Given => NothingStalls
<1> SUFFICES ASSUME IInv, Given, parent = "wait", ~early, child # "exited"
             PROVE  ChildMayGoOn
  BY DEF NothingStalls, ParentMayGoOn
<1>1. child # "off" /\ opens < MaxOpens
  BY DEF IInv, InStep
<1>2. child \notin {"open", "copy"} => shared_data.type = test.type /\ shared_data.sock = test.sock
  BY <1>1 DEF IInv, Taken, Asks
<1>3. child = "receive" => sent # Null
  BY <1>2 DEF Given
<1>4. child = "semaphore" => semaphore > 0
  BY <1>2 DEF Given
<1>5. child = "test" /\ shared_data.type.child # "query_event_status" => signaled
  BY <1>2, KnownTypes, TestTypes DEF Given, IInv
<1> QED
  BY <1>1, <1>3, <1>4, <1>5 DEF ChildMayGoOn

(***************************************************************************)
(* While a test runs, the parent or the child has a step to take: neither  *)
(* c.wait, nor accept, nor the semaphore, nor the wait for the event is    *)
(* left unanswered, unless the child copied the segment too early.         *)
(***************************************************************************)
THEOREM TestsNeverStall == Spec => []NothingStalls
<1>1. IInv /\ Given /\ [Next]_vars => Given'
  BY GivenStep
<1> QED  BY <1>1, GivenInit, GivenGoesOn, Invariance, PTL DEF Spec

=============================================================================
