# level-zero-tests in TLA+

Level Zero Tests is a suite of conformance, performance and stress programs for
a GPU driver. Most conformance tests call the driver and compare the answer. What
can go wrong by itself is, first, the part in which the suite coordinates its own
actors: threads that meet at hand-made barriers, a debugger and the application
it debugs that signal each other through shared memory, a test and its helper
program that share an event, and the pool of events that all tests draw from;
and second, the benchmarks, each a long sequence of calls that has to keep
several engines busy, wait for the right ones at the right time, and count exactly
the work that was done while it measured. These modules
model both, check them with TLC and prove their safety properties with TLAPS.

Contents: [the system](#the-system), [what is modelled](#what-is-modelled),
[the modules](#the-modules), [the runs](#the-runs),
[fairness](#fairness), [proofs](#proofs), [findings](#findings),
[hazards without a property](#hazards-without-a-property),
[not modelled](#not-modelled), [plan](#plan).

## The system

Paths are below `src/`. `CT` is `conformance_tests/core`, `DBG` is
`conformance_tests/tools/debug/src`.

| Component | State of its own | Operations | Hard behaviour |
|---|---|---|---|
| `CT/test_multithread`: indirect access | `num_count`, `mtx`, `cv` (globals of the process), one list per thread | `indirect_access_Kernel` in every thread; two test cases run it | barrier on globals that outlive a test case; spurious wake-ups; a worker that returns early |
| `CT/test_multithread`: shared events | two flags, a counter and a mutex; events and a command queue shared by all threads | `ThreadSharedEventSync` | device, host and n threads act on the same events; events are reset and reused in every half of an iteration |
| `DBG/test_debug_common.hpp`: `process_synchro` | mutex, condition variable, two flags, three values in shared memory | notify, wait and clear for either side, update and get of the values | notification after the unlock; an unlocked check; helpers that are terminated at any point |
| `DBG`: entry and exit events | loop counters on both sides, the driver's event queue | `run_proc_entry_exit_test` with `loop_create_destroy_multiple_cq_immcl` | a handshake of 6 N steps per device; reads that must find nothing |
| `DBG`: one application on two devices | one address field shared for two addresses, two event threads | `run_multidevice_single_application_test` with `use_two_devices` | clear after notify; a busy loop that tests a pointer |
| `DBG`: events in a thread of their own | `module_loaded`, `interrupt_sent` (globals), `gpu_buffer_va` passed by pointer | `run_read_events_in_separate_thread_test` with `run_long_kernel` | flags that keep their values for the next device; bounded reads against a fixed sleep |
| `DBG`: other scenarios | sessions, sets of stopped threads | attach and detach, thread control, registers, memory, new debugger, separate debuggers | a terminated debugger leaves its shared segment; counters of attempts |
| `utils/test_harness`: event pool | the vector of free indices and the map from events to indices | `InitEventPool`, `create_event`, `destroy_event`, `get_timestamp_time` | full pools, failed creations, a clock that wraps |
| `utils/test_harness`: everything else | none between calls | one driver call each, with its check | - |
| `CT/test_ipc`: events | shared segment and semaphore of fixed names, a socket | `run_ipc_event_test`, `run_ipc_event_test_opaque` and `test_ipc_event_helper` | polling for a segment that is still being written; left-overs of failed tests; retries on both sides |
| `CT/test_ipc`: memory, peers, put handle | the same objects with memory in the place of the event | `test_ipc_memory`, `test_ipc_p2p_memory`, `test_ipc_put_handle`, ... | as above |
| `CT/test_multiprocess`, `stress_tests/test_multiprocess` | success flags in shared memory | start children, wait for all | a fork that fails half-way |
| the rest of `CT`, `conformance_tests/sysman`, `negative_tests` | none | one property of the driver per test | - |
| `conformance_tests/tools/metrics`, `layer_tests/tracing` | tracer state, callback counters | enable, read, disable, destroy | order of these calls; threads that trace during destruction |
| `perf_tests/common` | driver, device and module handles | `ZeApp`, `Timer` | - |
| `perf_tests/ze_peer` | engines with a queue, an immediate list and three lists each; a buffer per device; one event that gates all copies | one-way and both-way copies to one, several and paired targets, over regular and immediate lists, in one process or two | the same lists and event serve every phase; copies start only at the event's signal; two processes exchange a memory handle |
| `perf_tests/ze_peak` | modules, kernels, a queue or immediate list per (sub-)device | bandwidth, compute, transfer and latency benchmarks | warm-up against measurement, one event for every iteration |
| `perf_tests/ze_bandwidth`, `ze_image_copy`, `ze_pingpong` | lists, queues, buffers or images, events | copies between host and devices, chains of copies, a counter that host and device add to in turn | lists recorded once and executed many times; results validated at the end |
| `stress_tests` | buffers | allocate up to a limit | - |
| `utils/{image,logging,net,random,utils}`, `zesysman`, `scripts` | none that matters | pure functions, text and I/O | - |

How they interact:

* A *debug test* (the debugger) creates a `process_synchro`, launches
  `test_debug_helper` (the application) with the name of a scenario, attaches to it through the
  driver, and from then on the two only meet in the flags of `process_synchro`
  and in the debug events the driver queues for the session. Two tests also
  start threads that share globals with the main thread.
* An *IPC event test* launches `test_ipc_event_helper` (the child), writes what the
  child has to do to a shared segment, and hands over the handle of its event
  pool there or through a socket (`utils/net/include/net/test_ipc_comm.hpp`). They meet again in the event
  itself, a semaphore, and the child's exit code.
* The *multithread tests* share globals and driver objects within a process;
  gtest runs several test cases in the same process, so what one leaves in a
  global is what the next one finds.
* Most tests create their events through `zeEventPool` of the harness.
* A *benchmark* is one host thread and the engines of its devices, which meet in
  queues, events and memory. Only `ze_peer --ipc` has more processes: a parent
  that forks a server and a client for every size.

What makes each correct: a barrier lets nobody through early and everybody
through in the end; an event is reset only when nobody waits for it and no
signal for it is under way; a notification is neither lost nor taken for an
earlier one; a process reads what was written for it and not what an earlier
test or device left behind; a bounded wait or retry that runs out is the only
reason for a failure; two living events never share a slot of a pool; a
benchmark waits for its own work before it uses, reports or frees anything that
this work touches.

## What is modelled

| Module | Code | Abstract specification | Proofs |
|---|---|---|---|
| `IndirectAccess` | `indirect_access_Kernel` and its test cases | | `IndirectAccessProofs` |
| `SharedEventSync` | `ThreadSharedEventSync` and its test case | | `SharedEventSyncProofs` |
| `ProcessSynchro` | class `process_synchro` | `Signals` | `ProcessSynchroProofs` |
| `QueueLoop` | `run_proc_entry_exit_test`, `loop_create_destroy_multiple_cq_immcl` | `LockStep` | `QueueLoopProofs` |
| `TwoDevices` | `run_multidevice_single_application_test`, `wait_for_events_interrupt_and_resume`, `use_two_devices` | | `DebugTestProofs` |
| `EventReader` | `run_read_events_in_separate_thread_test`, its event thread, `run_long_kernel` | | `DebugTestProofs` |
| `EventPool` | `zeEventPool`, `get_timestamp_time` | | `EventPoolProofs` |
| `IpcEvent` | `run_ipc_event_test`, `run_ipc_event_test_opaque`, `test_ipc_event_helper`, `send_ipc_handle`, `receive_ipc_handle` | | `IpcEventProofs` |
| `HostCalls`, `LevelZero` | `ZeApp`, `Timer`; the driver and the engines (external) | `HostView` | `LevelZeroProofs` |
| `PeerCommon`, `PeerParallel`, `PeerIpc`, `Peer` | `ze_peer` | | |
| `PeakCommon`, `Peak`, `PeakTransfer` | `ze_peak` | | |
| `Bandwidth`, `ImageCopy`, `PingPong` | `ze_bandwidth`, `ze_image_copy`, `ze_pingpong` | | |

`MC<Module>` instantiates a module for TLC. `ProcessSynchro` shows that every
call of `process_synchro` is atomic; `QueueLoop`, `TwoDevices` and
`EventReader`, which use it, take each call as one step for that reason.
`LevelZero` is the machine on which all benchmarks run; `MCBenchmarks` has the
programs.

The driver is external everywhere. It is modelled as what the tests take for
granted: an in-order queue runs its lists in order, a synchronize returns when
the work submitted before it is done, debug events are delivered in the order
in which they are raised and after any delay, a module's creation returns
once its load event is acknowledged, an interrupt stops a running kernel some
time later, an IPC handle opens the pool it was made from and no other. Where a
test handles the driver's failure, the driver may fail. For the benchmarks it is
modelled in more detail, in `LevelZero`.

## The modules

### IndirectAccess

`pc[t]` is where a worker is; `num_count`, `mtx` and `blocked` are the globals
`num_count`, `mtx` and the wait set of `cv`; `inflight` are the kernels on the
device; `value` is the increment a kernel applied to the list. `Allocate`,
`Launch`, `Synchronize` and `Check` are the worker's loop, `Arrive`, `Wake` and
`Free` its barrier and clean-up, with the mutex held from the barrier to the end of the
function. `Check` of a wrong value is `ASSERT_EQ`, which leaves the
worker. `NextTest` joins the threads and starts the second test case on the
same globals. `SpuriousWakeup` is the condition variable's right.

Left out: the contents of the list and the command list's mode.

### SharedEventSync

One action per access of a thread to the shared flags, counter, events and
queue; `queue` holds the lists submitted and not complete, `behind[t]` is what
a synchronize of `t` still waits for. `DeviceSignal` and `DeviceWait` run the
head of the queue one event at a time. A thread in one of the long critical
sections (`reset1`, `hostSignal`, `reset2`) holds `event_mutex` over several
steps; the other sections are one step. `DeviceYetToSignal` and `HostYetToSignal`
are the events that a half has claimed or may still claim and not signaled;
`NoStaleSignal` says that these carry no signal of an earlier half. Two do by design: event 0 is
signaled to open the next iteration (`test_event_multithread.cpp:433`) and also satisfies the
host's wait for it there (`:387`); the last event opens the host half (`:402`) and also satisfies
the device's wait (`:408`).

### Signals and ProcessSynchro

`Signals` says what the users of `process_synchro` rely on: each call takes
effect at one instant between its invocation and its return, a wait at an
instant at which its signal is set. `ProcessSynchro` has the mutex, the
condition variable, the signal or value, and a place per process; one step is
one access to shared state. `notify_all` comes after the unlock, as in the
code. The three shared values have the same accessors and are one. `Terminate`
ends a helper at any point, with the mutex left `Abandoned` if it was held;
`SetUp` is the next test's constructor, which removes and creates the shared
objects. The refinement maps a place to the stage of the call (`StageOf`).

### LockStep and QueueLoop

`LockStep` is the intent of the entry-and-exit test: the application operates
on one queue, the debugger observes it, in turns. `QueueLoop` has both programs
with one step per call of `process_synchro`, per queue operation and per event
read; the driver raises `PROCESS_ENTRY` and `PROCESS_EXIT` and delivers them
later (`raised`, `events`). A failed EXPECT sets `unexpected`.
The refinement maps `turn` to whether the debugger has seen as many queues as exist.

### TwoDevices

The debugger's main thread (`at`), its two event threads (`reader`), the
application (`pc`), and the state of each device's kernel. The waiting loop
`while (!address_valid)` tests a pointer and is no wait, so it has no guard in
`WriteAndResume`. Time is not modelled: an interrupt after a fixed sleep may
come before the kernel runs, and fails then; the search for stopped threads may
also give up on a kernel that was stopped (`test_debug_utils.cpp:690`). The byte
written is read back: if it is not 0, always so at address 0 and otherwise the
driver's choice, the event thread leaves (`:717`) before it resumes. What it
resumes is the thread of an event that was never assigned (`:709`), so a resume may
leave the kernel stopped as well. In each of these outcomes `LeftStopped` holds and
the application's synchronize waits for ever. The two events an event thread waits
for are taken to come in time.

### EventReader

As TwoDevices, with one device after another, the driver's queue of events, and
the bounded reads of `find_stopped_threads` (`attempts`). `module_loaded` and
`interrupt_sent` are not reset by `LaunchAndAttach`, which is the point of the
module. `interrupted` is a history variable: the device the main thread last
interrupted. A wait on one of the two flags with its predicate is one step,
since the flag is set under its mutex.

### EventPool

`pool_indexes_available_` and `handle_to_index_map_` as in the class, `live`
for what the driver knows. `create_event` begins with `InitEventPool`, and its
form with a descriptor (`CreateEventWithIndex`) takes any available index. A
failed creation registers the null handle. In a full pool the index not found
is used to write past the vector, after which nothing is said (`overrun`).
`MeasureKernel` reads the two time stamps of a kernel off a clock that counts
modulo 2^kernelTimestampValidBits; the modulus is a constant between 1 and
`Word`, which stands for 2^64. The shift by 64 is undefined in C++ and yields 0
or the largest word.

Left out: contexts and devices of the pool, which do not change what is kept.

### IpcEvent

The parent's steps (`parent`) from the removal of old shared objects to the
checks, the child's (`child`) from polling for the segment to its exit code,
the segment, semaphore and socket. What the parent writes to the segment with
one `memcpy` after creating it, a child that is quick enough copies before it
is there or half-way: `CopySegment` then takes any mixture of zeros and
the request, and `early` remembers it. A pool that gives no IPC
handle does not end the test (`EXPECT_ZE_RESULT_SUCCESS`), it only fails it.
Leaving the test's scope terminates the child.

Left out: regular or immediate command lists, and
the pool flags (see the hazards below).

### HostCalls and LevelZero

Once its options are read, a benchmark is straight-line code: the host makes one
call after another and never branches on an answer, except to end on an error. So a
function of a benchmark becomes an operator of the same name whose value is the
sequence of calls it makes; a loop is a `Repeat` or `ForEach`, an `if` on an
option an `If`. `HostCalls` has one operator per call (most are functions of
`ZeApp`), `LevelZero` executes them: `Programs` maps a name to the scripts of
its processes, `todo[p]` is what process `p` has yet to call, and each kind of call is one action.

The engines are where the interleaving comes from. `ExecuteList` copies the
commands of a list to `pending[q]`; `Complete` runs any command that is
`Ready`: its events are signaled and no barrier or in-order command before it is
still pending, which are the only orders the specification of Level Zero
gives. Two commands of a list without a barrier between them run in either order. A
command touches memory, counts as work for a running timer, and signals or
resets its events in one step; it may be pending for as long as that takes, and
`NothingInUseIsDestroyed` and `HostAccessIsAlone` speak of pending commands, so a
command that would be half-way is covered.

Memory is a sequence of parts (the chunks into which an engine's share is cut); a
part holds `Junk`, `Data` or, in ze_pingpong, a number. `mem` knows what is
alive, `lost` what was alive when its handle was overwritten.

### HostView

What a host may do without asking its engines. A view is what the calls made so
far tell, whatever the engines did meanwhile: exactly what the host has
done, which commands *may* be pending (`sent`), which events *may* and *must* be
signaled, and what the timer will have counted if all that is left completes.
`ViewAfter` is the view after a call: only a synchronize of a queue, or an
event that was awaited, says that commands have completed. A call is safe
(`SafeSubmit` to `SafeData`) if it does no harm in any state of the engines
that the view allows, for instance if memory is read only when no command that may
be pending uses it. `Disciplined(scripts)`: a program's calls lead
through safe views only. `HostView` does not know `LevelZero`; that discipline
is enough is a theorem about both.

`SafeTimer` asks the host to know the work that is left when the timer starts
and stops. It does while all work is waiting for an event nobody can have
signaled (`still`, with `queued` the contents of the queues): `ze_peer` submits its
copies, starts the timer and only then signals the event that gates them.

`SafeData` asks that the order in which the engines run unordered commands makes no
difference to memory. The view says what every part of memory `holds` once all that
was submitted has ended, and what each command `finds` where it reads: the next view
computes both as if the commands ran one after the other, and the discipline
requires, part by part, that this is so in every order. A command that reads a part
must be ordered with every other that writes it (`FindsIt`, `SparesReader`); of the
commands that write it, each must leave the final value or be followed by
another (`EndsAs`). `Follows` and `FollowsSent` are the two orders there are: an
event, and a barrier or in-order command of the same queue. Copies of different
chunks, or of the same data twice, need no order at all.

`SafeWait` asks that no wait is in vain. The view collects the events that submitted
commands wait for and nothing submitted before will signal (`gates`): only the host
opens those. Some process must always be able to go on, and if it waits for a queue
or an event there may be no gate left, and a command that signals the event must have been
submitted (`IsAnswered`). That is where an image copy whose chain begins with the wrong event, or a
synchronize before the gate is opened, would be caught.

### PeerCommon, PeerParallel, PeerIpc and Peer

`PeerCommon` has the constructor, the set-up and tear-down of buffers, and the
one-way and both-way copy between two devices; `PeerParallel` the copies to
one target by several engines, to several targets, and in pairs; `PeerIpc` the
server and the client with the exchange of the handle; `Peer` the loops over sizes and
directions. The parameter `o` is a record of the options. `PeerParallel` keeps the
code's indices: a list or queue is picked by an index that advances with
every append, and where the code forgets to set it back so does the model.

### PeakCommon, Peak and PeakTransfer

`PeakCommon` has the context, `run_kernel` in each of its five kinds of
timing, and `setup_function`; `Peak` the kernel benchmarks, each in the
parts prepare, run and release of its function; `PeakTransfer` the copies by
engine, by host and through shared memory, and `main`. It has the path with shared system memory too, which
no program takes (see the hazards below).

### Bandwidth, ImageCopy and PingPong

One operator per function. `Bandwidth` records its lists once and executes
them for every size. `ImageCopy` chains its copies by events. `PingPong` lets
host and device add to one number in turn, in device, host and shared memory, and checks the sum.

Left out of all benchmarks: parsing of options, printing, the values of times, sizes in
bytes.

## The runs

| Run | Instance | States | What it shows |
|---|---|---:|---|
| `indirect_access` | 3 threads, 2 launches, 2 nodes, 2 cases, one thread may fail | 6169 | first case: nobody frees early; no lost wake-up; all cases end or a thread failed |
| `indirect_second_case` | 2 threads, 1 launch, 1 node, 2 cases | 99 to the violation | second case: somebody frees early |
| `shared_events` | 3 threads, 4 events, 2 iterations | 14570 | reset alone and without late signals; queries find signals; no stale signals but the two that open a half; all finish |
| `process_synchro` | a debugger, a helper, one address, 4 calls each | 89125 | implements `Signals`; mutual exclusion; no lost wake-up; calls return |
| `queue_events` | 3 devices with 1, 3, 2 queues, 3 loops | 379 | implements `LockStep`; each read finds what it expects; the test passes |
| `two_devices` | 2 devices, as in the code | 469 | addresses are kept apart; the only hangs are the lost signal and a kernel left stopped |
| `two_devices_signal` | as above | 469 | the finding |
| `separate_reader` | 2 devices | 932 | no interrupt before the module is loaded, no foreign buffer; the first device's part ends |
| `separate_reader_interrupt` | 2 devices | 174 | the finding |
| `event_pool` | 4 events, pools of 1 to 3, clocks of 2, 4 and 8 ticks with words of 8 | 11088 | no index shared; overruns only when full; exact measurement |
| `ipc_events` | all 22 tests, 2 after one another, 2 refused connections, 3 attempts to open | 35508 | the request is this test's; passing means crossing; failures have causes; tests end |
| `benchmarks` | 40 programs, up to 3 devices with 2 engines each, 1 warm-up and 2 measured iterations | 6467 | nothing in use is destroyed; lists, events and host memory are used in turn; measurements count their own work; validations find the data; handles are current; nothing leaks; programs end; every one of these programs keeps the discipline of `HostView` |

Why the bounds are enough:

* Two threads can race; the third shows what happens to a thread that is
  neither first nor last at a barrier. Two launches or iterations are the least for a
  flag or an event to be reused, and two test cases for a global to be.
* With four events each half of an iteration has more than one event to wait
  for on either side.
* With four calls each, a process can set, clear and set a signal while the
  other waits, wakes up and looks again.
* `totalNumCQs` of 1, 2 and 3 covers first = last, no middle and a middle
  queue; a device with fewer queues after one with more and the reverse
  shows what is left over.
* Two devices are what TwoDevices has in the code, and the least with a device
  before in EventReader.
* Four handles overfill a pool of three, and a pool of one and one of two are full at once;
  clocks of 2, 4 and 8 with a word of 8 have valid bits below and at the width.
* Two IPC tests in a row are what left-overs need. Retries are bounded in the
  code; two or three attempts let them end or not.
* The benchmarks have no data-dependent control, so a program is covered by
  running it once in every order of its engines; the 40 programs take every
  mode, regular and immediate lists, both directions, with and without
  validation. They do not take the paths listed under
  [hazards without a property](#hazards-without-a-property), where the code itself breaks
  what is checked or the model says nothing; shared system memory in ze_peak is one of them. Two engines and two iterations are the least for work to be
  left over from one to the next; three devices the least for several targets.
  Two sizes show what one leaves for the next.

Bounds that are not in the code: `MaxCalls` in ProcessSynchro (calls and
spurious wake-ups), `MaxRuns` in IpcEvent (tests), the number of test cases and
devices, and the `warm`, `iters`, `size` and `widths` of the programs in
`MCBenchmarks`. `MaxConnects` (60) and `MaxOpens` (1000) are the code's limits,
lowered. `Loops` is 3 and `MaxAttempts` 5 as in the code.

Symmetry is used in `event_pool` only, which has no liveness property.
`CHECK_DEADLOCK FALSE` is set where the program may stop or wait for ever, and
each configuration says why; where all must finish a liveness property says so.

## Fairness

Weak fairness of each thread and process stands for the scheduler of the
operating system: whoever can take a step takes one in the end. A thread that
waits for a mutex has no strong fairness; where the properties need that a
mutex is obtained, the competitors call a bounded number of times or go on to
wait for something else. Weak fairness of the device (`Device`, `Deliver`,
`DeviceStep`, `KernelEnds`) stands for a driver that makes progress: submitted
lists run, raised events are delivered, kernels end (the kernels of the debug
tests count to a `loop_max`). In `LevelZero` the host makes its next call
if it is not blocked, and an engine with a command it may run runs one
(`WF_vars(Host)`, `WF_vars(Engine)`, each over all processes or queues together: a host's
script is finite and a queue's work too, so neither can starve another for
ever). Nothing has to start: calls of `process_synchro`, tests after the first, spurious wake-ups and the termination
of helpers have no fairness.

Liveness is stated with its exceptions, and each exception is a weakness of
the code: a worker that leaves at `ASSERT_EQ`, a mutex abandoned by a
terminated helper, the cleared signal of TwoDevices and the kernel its event thread leaves
stopped, the early copy of IpcEvent. An exception is not a hazard that is covered: the
property says that nothing but the exceptions goes wrong.

## Proofs

`<Module>Proofs` holds the theorems of a module, and `DebugTestProofs` those of
`EventReader` and `TwoDevices`, for all values of the
constants under the assumptions named in the module (threads finite and not
empty, bounds and numbers of devices positive, special values distinct). The
theorems about `LevelZero` assume that the programs keep the discipline of `HostView`.

| Theorem | Property |
|---|---|
| `IndirectAccessProofs!TypeCorrect`, `WakeupsAreNotLost`, `BarrierIsSafe` | `TypeOK`, `NoLostWakeup`, `FirstCaseFreesAfterAllDone` |
| `SharedEventSyncProofs!TypeCorrect`, `ResetIsAlone`, `SignalsAreNotLate`, `QueriesFindSignals`, `SignalsAreFresh` | `TypeOK`, `ResetAlone`, `NoLateSignal`, `QueryFindsSignal`, `NoStaleSignal` |
| `ProcessSynchroProofs!TypeCorrect`, `SectionsExclude`, `WakeupsAreNotLost`, `CheckedAddressStays`, `CallsAreAtomic` | `TypeOK`, `MutualExclusion`, `NoLostWakeup`, `CheckedAddressIsSet`, `Implements` |
| `QueueLoopProofs!TypeCorrect`, `ReadsAreQuiet`, `EventsComeAsExpected`, `SignalsAreNotLost`, `EachIsObserved` | `TypeOK`, `QuietReadsAreQuiet`, `ExpectedEventComes`, `NoSignalIsLost`, `ObservesEach` |
| `DebugTestProofs!TwoDevicesTypeCorrect`, `AddressesAreKeptApart` | `TypeOK`, `AddressesKeptApart` of `TwoDevices` |
| `DebugTestProofs!TypeCorrect`, `InterruptsAreOfLoadedModules`, `BuffersAreOfThisDevice` | `TypeOK`, `InterruptsLoadedModule`, `NotAnotherBuffer` of `EventReader` |
| `EventPoolProofs!TypeCorrect`, `IndicesAreNotShared`, `FullPoolsOverrun`, `MeasuresAreExact` | `TypeOK`, `NoIndexIsShared`, `OverrunOnlyWhenFull`, `MeasuredIsElapsed` |
| `IpcEventProofs!TypeCorrect`, `RequestsAreCurrent`, `PassedTestsCrossed`, `FailuresHaveCauses` | `TypeOK`, `ReadsThisRequest`, `PassedMeansCrossed`, `FailsOnlyForCause` |
| `LevelZeroProofs!ViewsAreRight` | the invariant: a safe view always represents the state |
| `LevelZeroProofs!UsedObjectsAreAlive`, `ListsTakeTurns`, `EventsAreIdleWhenReset`, `HostHasMemoryAlone` | `NothingInUseIsDestroyed`, `ListsAreUsedInTurn`, `EventsAreResetIdle`, `HostAccessIsAlone` |
| `LevelZeroProofs!MeasurementsAreExact`, `ValidationsSucceed` | `MeasuresItsOwnWork`, `ValidationFindsTheData` |
| `LevelZeroProofs!HandlesAreCurrent`, `ProgramsLeakNothing` | `HandleIsCurrent`, `NothingLeaks` |
| `LevelZeroProofs!ProgramsNeverStall` | `NothingStalls`, the safety half of `ProgramEnds` |
| `IndirectAccessProofs!NobodyIsLeftWaiting` | `NothingStalls`, the safety half of `AllCasesEnd` |
| `SharedEventSyncProofs!WorkersNeverStall` | `NothingStalls`, the safety half of `AllThreadsFinish` |
| `ProcessSynchroProofs!CallsNeverStall` | `NothingStalls`, the safety half of `CallsReturn` |
| `QueueLoopProofs!TestNeverStalls`, `EachStepNearsTheEnd` | `NothingStalls` and `EachStepIsNearer`, the safety part of `Passes` |
| `DebugTestProofs!OnlyLostSignalOrStoppedKernelStalls` | `NothingElseStalls` of `TwoDevices`, the safety half of `EndsUnlessLostOrStopped` |
| `DebugTestProofs!FirstDeviceNeverStalls` | `NothingStalls` of `EventReader`, the safety half of `FirstDeviceEnds` |
| `IpcEventProofs!TestsNeverStall` | `NothingStalls`, the safety half of `EveryTestEnds` |

The arguments:

* **IndirectAccess.** The property says nothing of the counter, so the
  invariant has to: in the first case `num_count` is the number of threads that
  arrived, hence a thread past the barrier has seen them all, and a kernel runs
  only for a thread that waits for it. `num_count = num_threads` at the wake-up
  is what the second case lacks.
* **SharedEventSync.** `thread_count` is the number of threads that counted in
  this half; the thread that counts last finds all others waiting for the event
  that opens the next half. A synchronize covers all lists of its caller, and
  everybody drains the queue before counting, so nothing of the half is left to
  arrive. Which half the threads are in is told by `signal_host_event` and the last event.
  For the queries (`SignaledInv`): a thread that finds the host flag taken goes on
  without waiting, so whoever took the flag has signalled everything when the
  mutex is free again. For stale signals (`FreshInv`): from the reset of a half until its
  flag is claimed again none of its events is signaled, but for the one that opens the
  other half; while they are being signaled, in order, only those before the index are.
  For the waits (`IterationInv`): in the host half all threads are in the
  same iteration, in the device half those still at the end of the last are one behind.
* **ProcessSynchro.** `NoLostWakeup` alone is not inductive: the notification that is due
  might come from a helper about to be terminated. The invariant says that it comes
  from the process that set the signal, and that the debugger, which alone
  terminates helpers, is then inside its own call. The refinement follows: the step
  that decides a call is the step in which it takes effect.
* **QueueLoop.** For every place of the debugger the invariant says where
  the application can be, which signal is set and which event is pending: the
  application runs only while the debugger waits. Everything else, the refinement
  of `LockStep` included, is read off it.
* **TwoDevices.** No lock guards the shared address. `Handshake` says where the
  debugger can be for every place of the application, hence the second
  address is written only after the first was taken (`Field`, `BothTaken`). That the
  application may clear the debugger's answer does no harm here: it then
  writes nothing.
* **EventReader.** With flags left over from the device before, the waits on
  them say nothing. `Turns` says instead that both programs are on the same
  device and which of them is past the notification of the address; `Loaded`
  and `Passed` follow the module and the address through it; the event thread may be anywhere.
* **EventPool.** The map knows exactly the living events and perhaps one failed
  creation; an index is available exactly if it belongs to none (`Registered`,
  `Exact`). The measurement is arithmetic modulo `Word`.
* **IpcEvent.** For every place of the parent, how far the child can be and
  what segment, socket, semaphore and event hold (`InStep`, `Shared`, `Taken`,
  `Signals`), where an exit code comes from (`Exited`), and what the outcome
  says of the handle. One lemma per action.

* **Benchmarks.** None of the properties of `LevelZero` is inductive: whether a
  buffer may be freed next depends on every call before. A theorem about each
  program would be an induction over the sequences that `FlattenSeq` builds,
  which is out of reach. So the theorems are about all programs at once,
  under one assumption, `ProgramsAreDisciplined`: each program keeps the discipline of
  `HostView`. The assumption speaks of calls only, never of an engine; TLC
  decides it for the 40 programs in one walk through their views
  (`KeepsDiscipline`). What is proved is the concurrent part: for any
  disciplined programs, numbers of processes, queues, lists and events, and any
  order in which the engines run what they may.
  The invariant (`IInv`) says that some view out of a closed set of safe ones
  `Represents` the state: `Exact` about the host; everything pending is in
  `sent` (`UnderWay`) and has what it needs (`Provided`); the signaled events
  lie between `must` and `may` (`SignaledBetween`); an event is not signaled
  before its only command has run (`SignalsToCome`, `SignalsAreUnique`), which is why
  an awaited event tells that a command has completed. A host step leads to a
  state that the next view represents (`CallsKeepInvariant`, one lemma per
  part); an engine's step is represented by the same view
  (`EnginesKeepInvariant`); and what is safe for a view is safe for what it represents.
  For the timer (`Timed`): what it has counted and what is left to count add
  up to the view's count, which an engine's step does not change
  (`WorkIsRemoved`) and a call changes by what it submits (`WorkIsAdded`). While a view
  is `still` no engine can begin (`NothingBegins`), so the work left at the
  start and at the stop is known exactly.
  For the data (`Foreseen`): what memory holds after a queue has run is the
  composition of its commands' effects, but the invariant needs no induction over
  the queue. It says of each part and the set of commands that have yet to write it:
  if there are none it holds its final value; if there are, each leaves that
  value or has another of them behind it (`EndsIn`); and the same of the commands in
  front of one that reads it. A command that may start is behind no other
  (`ReadyIsBehindNone`), so it finds what was foreseen, and the sets without it
  still say the same (`EnginesKeepForeseen`). A submission adds commands at new places
  (`SubmittedPlaces`, `SubmitsKeepForeseen`); the host changes only memory that
  nothing pending uses (`HostKeepsForeseen`).
  For the waits (`NothingStalls`): what is pending was submitted in an order in which
  nobody waits for a later one, but the invariant keeps no record of it. It says
  (`Answerable`) of every set of pending commands that one of them is first in its queue and waits
  only for signals that are there, that the host will give, or that commands outside of
  the set give. A completed command leaves the set and has signaled (`EnginesKeepAnswers`,
  with `RemovedPlaces`); of a set of new commands the first submitted will do
  (`SubmitsKeepAnswers`); the host takes no signal away from one that waits (`OthersKeepAnswers`).
  Without gates the set of all pending commands yields one that is `Ready`
  (`SomethingIsReady`). `SignaledInTheEnd` tells that an awaited event, whose command is no
  longer pending, is signaled. Every step uses up a call of a finite script or a
  command that was submitted, so with fairness a program that never stalls ends; this
  last step is not formal, and `ProgramEnds` is checked by TLC.

* **Waits.** A module's `NothingStalls` says that until its work is done some
  actor can take a step; which steps wait, and for what, is written out in `MayGoOn`
  (and its like), because ENABLED is beyond the prover. For the configurations of the
  runs TLC finds that `MayGoOn` and ENABLED of the actor's steps agree.
  * *IndirectAccess*: `num_count` counts the arrivals of the running case, or an earlier case
    left it at `num_threads` or above, and then nobody waits (`CountInv`). So the barrier that
    protects nothing in the second case at least holds nobody back, in any case.
  * *SharedEventSync*: each wait has its answer under way. The list of device signals is being submitted, on the
    queue, run, or already being reset once the flag is taken (`SubmittedInv`); when all have counted, one
    is about to open the next half (`OpeningInv`); the mutex is held only inside a locked section (`WaitInv`).
  * *ProcessSynchro*: the holder of the mutex is inside its section or a terminated helper
    (`HolderInside`), and a sleeper whose signal is set is yet to be notified (the invariant of
    `WakeupsAreNotLost`).
  * *QueueLoop*: read off the invariant. The order of `EachStepIsNearer` counts devices, loops, the debugger's
    places in the loop, the application's steps to its next wait and the undelivered events.
  * *TwoDevices*: an event thread leaves its events exactly when the module is loaded, and a kernel is stopped
    only while its event thread is about to write or is through (`Modules`); the debugger's wait for the second
    address ends (`Answered`). What remains is `Lost`, and the second of these as `LeftStopped`.
  * *EventReader*: for the first device only, as is the liveness property: later the flags are left over, and the event
    thread may end with the kernel stopped. With fresh flags (`Flags`) the
    queue holds exactly the events the event thread is about to take (`Queue`), and a kernel is stopped only while
    the event thread is on its way to resume it (`Kernel`).
  * *IpcEvent*: the parent is past `connect` only when the child has accepted, waits for the child
    only after it has posted and signaled (`Given`).

Only model-checked: all liveness properties (fairness and ENABLED are beyond
the prover: what is proved of them is above, what is left is that an actor that
can take a step does), and `KeepsDiscipline`, which computes with the programs' sequences. `TypeOK`
of all modules is proved and, being implied by nothing deeper, not repeated in a run.

## Findings

* `indirect_second_case`: `num_count` is never reset, so in the second test case of a
  process the barrier lets everybody through
  (`test_allocation_residency_multithread.cpp:203`).
* `two_devices_signal`: the application clears `debugger_signal` after it has
  notified the debugger, and may clear the answer
  (`test_debug_helper.cpp:891`); both then wait for good.
* `separate_reader_interrupt`: `interrupt_sent` keeps its value
  (`test_debug.cpp:1025`), so on the second device the event thread does not
  wait for the interrupt.

## Hazards without a property

| Where | What | Why |
|---|---|---|
| `test_allocation_residency_multithread.cpp:192` | a worker that fails leaves the others at the barrier | an exception in `AllCasesEnd` |
| `test_debug.cpp:1013` | a failing event thread never sets `module_loaded` | the first two events always come |
| `test_debug_utils.cpp:699` | `while (!address_valid)` tests a pointer, so the event thread may write to address 0, find that nothing was written (`:717`) and leave before it resumes (`:722`); the kernel stays stopped, and the application and then the debugger wait for ever. The comment at `:696` says it waits for the address | the code goes wrong: the step is in the model, and this outcome is the exception `LeftStopped` of `EndsUnlessLostOrStopped` |
| `test_harness_event.cpp:240` | `InitEventPool` replaces the context of a pool that exists | the context is not read afterwards |
| `test_ipc_event.cpp:65` | a device-only test changes the global pool descriptor for all later tests | what a driver does with host calls on such events is not said here |
| `transfer_bw.cpp:123` | ze_peak with shared system memory: the advice is taken back in a list that is closed (`:96`) | the code goes wrong: with `sharedSystem` set, `ListsAreUsedInTurn` and `KeepsDiscipline` fail at this call, so no program sets it. It is the only such call of the path: without it the same program passes |
| `ze_peer_parallel_multiple_targets.cpp:464` | the index of the queue advances at the append and again at the wait: with two queues the host waits for the wrong engine | the programs name one queue where this happens |
| `ze_peer_parallel_multiple_targets.cpp:106` | with fewer queues than targets the work is done several times and counted once; with more, a list is executed that was never closed | the programs name as many queues as targets |
| `ze_peer.cpp:197`, `:503`, `:713` | the remainder of a division among engines is not copied; without options a device is local and remote and gets its buffers twice; engines are counted on the first device | sizes that divide, disjoint and equal devices |
| `ze_peer.cpp:140` | the exit status of server and client is ignored | processes do not crash in the model |
| `ze_peak.cpp:961`, `:1700` | with explicit scaling the timer starts again for every sub-device; all kernels but one are lost | no program measures kernels on sub-devices |
| `ze_peak.cpp:1334` | a wrap of a time stamp is computed with the wrong width | times are not modelled |
| `ze_bandwidth.cpp:155`, `ze_image_copy.cpp:400` | the time of a later device includes the wait for earlier ones; serial results count one image | only the common timer; the work the program counts |
| `test_debug.cpp:507` | the parent may open the segment of the debugger it terminated | planned |
| `test_harness_debug.cpp:60` | attach with retries | planned |
| `test_debug_utils.cpp:608` | one counter of attempts for all threads | planned |
| `test_debug.cpp:1839`, `:1920` | the search for a thread that does not run; events after a fixed sleep | planned |
| `stress_tests/test_multiprocess.cpp:287` | a fork that fails half-way | planned |

## Not modelled

* Tests that make single calls of the driver and compare (most of `CT`,
  `sysman`, `negative_tests`): they keep no state, and what could go wrong is in
  the driver.
* In `perf_tests`: `ze_nano`, which measures single calls of the API in a hardware
  harness; `ze_cabe` and `cl_image_copy`, which have an OpenCL twin of each
  workload; the parsing of options, the printing, `ze_peer`'s query of peer access and its
  endless mode, `ze_bandwidth`'s timers of single devices.
* Sizes near a device's limits (`stress_tests`),
  text and I/O (`scripts`, `zesysman`, `utils`), and DirectX interoperability.
* Within modelled code: log messages, data patterns, time (a bounded wait may
  run out or not where both are possible; a wait the tests take to be long
  enough, such as the two minutes of `check_event`, does not run out).

## Plan

Done: the components of the table above, in its order.

Next, in this order:

1. `ThreadControl`: `zetDebugThreadControlTest` (`test_debug.cpp:1396-1933`)
   with `get_stopped_threads`, `find_stopped_threads` and
   `find_multi_event_stopped_threads` (`test_debug_utils.cpp:478-660`).
   Properties: only running threads are interrupted and only stopped ones resumed; nothing
   stays stopped; the search for a thread that does not run stays in range.
2. `Reattach`: `run_new_debugger_attach_test` with `child_debugger.cpp`, on top
   of `Signals` with two segments, and the retries of `debug_attach`.
3. `run_multidevice_single_application_separate_debuggers_test` and the other
   debug scenarios, as variants of TwoDevices and EventReader.
4. `IpcMemory`: the memory and put-handle tests as variants of IpcEvent, and the
   statement that a test runs what it is named for, which the early copy breaks.
5. The children of the stress test, with success flags and failing forks.
6. The metric tracer and the tracing threads.

Theorems to add: the safety of `ThreadControl` and `Reattach`.

There is one run per question. New benchmarks are further programs of `MCBenchmarks`.
