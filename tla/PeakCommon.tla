------------------------------ MODULE PeakCommon ------------------------------
(***************************************************************************)
(* ze_peak (perf_tests/ze_peak/src/ze_peak.cpp): the context all its       *)
(* benchmarks share, and run_kernel, which times a kernel in five ways.    *)
(*                                                                         *)
(* An options record o stands for the command line and the device:         *)
(*   sub            sub-devices used (-x); 0: the device itself            *)
(*   copyEngine     a copy-only engine was found                           *)
(*   eventTimer     -e: time stamps of an event instead of the host's time *)
(*   sharedSystem   the device reads and writes system memory              *)
(*   fp64           the device computes with doubles                       *)
(*   warm, iters    warmup_iterations and iters                            *)
(*   widths         vector widths measured (the code's are 5)              *)
(*   size           parts of the memory that is transferred                *)
(*   runs           set of the benchmarks to run (-t)                      *)
(* A device or sub-device is known by a number: 0 is the device.           *)
(***************************************************************************)
EXTENDS HostCalls

Subs(o) == IF o.sub = 0 THEN <<0>> ELSE [i \in 1..o.sub |-> i]

command_queue(s) == <<"queue", s>>
command_list(s) == <<"list", s>>
immediate_command_list(s) == <<"immediate", s>>
copy_command_queue == <<"copy queue">>
copy_command_list == <<"copy list">>
context == <<"context">>
module(s) == <<"module", s>>
inputBuf(s) == <<"input", s>>
outputBuf(s) == <<"output", s>>
kernel(s, i) == <<"kernel", s, i>>
event == <<"event">>
event_pool == <<"event pool">>

\* Creates or releases an object of each (sub-)device.
CreateEach(o, Object(_)) == ForEach(Subs(o), LAMBDA s : memoryAlloc(Object(s), 1))
DestroyEach(o, Object(_)) == ForEach(Subs(o), LAMBDA s : Destroy(Object(s)))

-----------------------------------------------------------------------------
(* The context.                                                            *)

init_compute(o) ==
    ForEach(Subs(o), LAMBDA s :
        commandListCreate(command_list(s))
        \o immediateCommandListCreate(immediate_command_list(s))
        \o commandQueueCreate(command_queue(s)))

init_copy(o) ==
    If(o.copyEngine, commandListCreate(copy_command_list)
                     \o commandQueueCreate(copy_command_queue))

init_xe(o) == Create(context, <<>>) \o init_compute(o) \o init_copy(o)

clean_xe(o) ==
    DestroyEach(o, command_queue)
    \o DestroyEach(o, command_list)
    \o DestroyEach(o, immediate_command_list)
    \o If(o.copyEngine, Destroy(copy_command_queue) \o Destroy(copy_command_list))
    \o Destroy(context)

create_module(o) == ForEach(Subs(o), LAMBDA s : Create(module(s), <<>>))

\* With sub-devices a kernel is created from every one of their modules, all
\* into the one handle.
setup_function(o, k) == Repeat(Len(Subs(o)), LAMBDA i : Create(k, <<>>))

execute_commandlist_and_sync(o) ==
    ForEach(Subs(o), LAMBDA s :
        commandListClose(command_list(s))
        \o commandQueueExecuteCommandList(command_queue(s), command_list(s))
        \o commandQueueSynchronize(command_queue(s))
        \o commandListReset(command_list(s)))

-----------------------------------------------------------------------------
(* run_kernel on the (sub-)device s.  With sub-devices the function is     *)
(* called for one after the other; the last call waits for all of them.    *)

run_command_queue(s) == commandQueueExecuteCommandList(command_queue(s), command_list(s))
synchronize_command_queue(s) == commandQueueSynchronize(command_queue(s))

IsFirst(s) == s \in {0, 1}
IsLast(o, s) == s = o.sub
SynchronizeAll(o, s) ==
    If(IsLast(o, s), ForEach(Subs(o), LAMBDA t : synchronize_command_queue(t)))

single_event_pool_create == Create(event_pool, <<>>)
single_event_create == Create(event, <<>>)
DestroyEvent == Destroy(event) \o Destroy(event_pool)

\* The i-th kernel of a benchmark on these buffers; it comes from the module
\* created last.
Launch(o, s, i, buffers) == Kernel({kernel(s, i), module(o.sub)} \cup buffers)

AppendAndClose(s, c) ==
    commandListAppend(command_list(s), c) \o commandListClose(command_list(s))
WithBarrier(s, c) ==
    commandListAppend(command_list(s), c) \o commandListAppend(command_list(s), Barrier)

\* A sub-device runs all iterations as one list, and is not waited for before
\* the last one has been given its own.  The caller adds up the times.
run_bandwidth(o, s, c) ==
    LET start == IF IsFirst(s) THEN timerStart ELSE timerResume
        once == run_command_queue(s) \o synchronize_command_queue(s)
        reset(t) == commandListReset(command_list(t))
    IN  If(IsFirst(s), ForEach(Subs(o), reset))
        \o (IF s = 0 THEN commandListAppend(command_list(s), c) ELSE WithBarrier(s, c))
        \o commandListClose(command_list(s))
        \o Times(o.warm, once)
        \o If(s # 0, reset(s) \o Times(o.iters, WithBarrier(s, c))
                     \o commandListClose(command_list(s)))
        \o start
        \o (IF s = 0 THEN Times(o.iters, once)
            ELSE run_command_queue(s) \o SynchronizeAll(o, s))
        \o timerStop
        \o If(IsLast(o, s), report(o.iters * Len(Subs(o))))

run_bandwidth_event_timing(o, s, c) ==
    single_event_pool_create \o single_event_create
    \o commandListReset(command_list(s)) \o AppendAndClose(s, Signals(event, c))
    \o Times(o.warm, run_command_queue(s) \o hostSynchronize(event)
                     \o synchronize_command_queue(s) \o hostEventReset(event))
    \o Times(o.iters, run_command_queue(s) \o hostSynchronize(event)
                      \o queryTimestamp(event) \o SynchronizeAll(o, s)
                      \o hostEventReset(event))
    \o DestroyEvent

launch_latency_setup(s, c) ==
    single_event_pool_create \o single_event_create
    \o commandListReset(command_list(s)) \o AppendAndClose(s, Signals(event, c))
\* Nothing but the event tells the host that it may run the list again.
launch_latency_loops(o, s) ==
    Times(o.warm + o.iters, run_command_queue(s) \o hostSynchronize(event)
                            \o queryTimestamp(event) \o hostEventReset(event))
    \o SynchronizeAll(o, s) \o DestroyEvent
run_kernel_launch_latency(o, s, c) ==
    launch_latency_setup(s, c) \o launch_latency_loops(o, s)

immediate_latency_setup(s) ==
    single_event_pool_create \o single_event_create \o commandListReset(command_list(s))
immediate_latency_loops(o, s, c) ==
    Times(o.warm + o.iters,
          appendImmediate(immediate_command_list(s), Signals(event, c))
          \o hostSynchronize(event) \o queryTimestamp(event) \o hostEventReset(event))
    \o SynchronizeAll(o, s) \o DestroyEvent
run_immediate_launch_latency(o, s, c) ==
    immediate_latency_setup(s) \o immediate_latency_loops(o, s, c)

\* The list is not reset first: the measurement before this one did that.
run_kernel_complete_runtime(o, s, c) ==
    single_event_pool_create \o single_event_create
    \o AppendAndClose(s, Signals(event, c))
    \o Times(o.warm, run_command_queue(s) \o hostSynchronize(event)
                     \o hostEventReset(event))
    \o synchronize_command_queue(s)
    \o Times(o.iters, run_command_queue(s) \o synchronize_command_queue(s)
                      \o hostSynchronize(event) \o queryTimestamp(event)
                      \o hostEventReset(event))
    \o DestroyEvent

\* reset_command_list: the last of the (sub-)devices resets all lists.
final_reset(o, s) ==
    If(IsLast(o, s), ForEach(Subs(o), LAMBDA t : commandListReset(command_list(t))))

\* The i-th kernel, measured on all sub-devices in turn with the event timer
\* or without it.
run_kernels(o, i, buffers) ==
    ForEach(Subs(o), LAMBDA s :
        (IF o.eventTimer
         THEN run_bandwidth_event_timing(o, s, Launch(o, s, i, buffers[s]))
         ELSE run_bandwidth(o, s, Launch(o, s, i, buffers[s])))
        \o final_reset(o, s))
=============================================================================
