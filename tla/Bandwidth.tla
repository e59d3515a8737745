------------------------------- MODULE Bandwidth -------------------------------
(***************************************************************************)
(* ze_bandwidth (perf_tests/ze_bandwidth/src/ze_bandwidth.cpp): copies     *)
(* between the host and one or more devices at once, in one direction and  *)
(* in both.  All copies of an iteration wait for wait_event; an immediate  *)
(* list reports the end of each with an event of its own.                  *)
(*                                                                         *)
(* An options record o stands for the command line:                        *)
(*   device_ids     the devices to use                                     *)
(*   immediate      use_immediate_command_list                             *)
(*   verify         compare what arrived; then one iteration, no warm-up   *)
(*   query          only ask for the engines                               *)
(*   runs           set of "host2dev", "dev2host", "bidirectional"         *)
(*   transfer_size  sequence of the sizes (parts of a buffer)              *)
(*   warm, iters    warmup_iterations and number_iterations                *)
(* The time of each device, taken between the waits, is left out.          *)
(***************************************************************************)
EXTENDS HostCalls

command_queue(d) == <<"queue", d>>
command_queue1(d) == <<"queue1", d>>
command_list(d) == <<"list", d>>
command_list1(d) == <<"list1", d>>
command_queue_verify == <<"queue verify">>
command_list_verify == <<"list verify">>
event(d) == <<"event", d>>
event1(d) == <<"event1", d>>
wait_event == <<"wait event">>
event_pool == <<"event pool">>

\* One of the kinds of buffers each device has; the ones that are verified.
buffer(kind, d) == <<kind, d>>
device_buffers == "device buffer"
host_buffers == "host buffer"
device_buffers_bidir == "device buffer bidir"
host_buffers_bidir == "host buffer bidir"
host_buffer_verify == <<"verify">>
host_buffer_verify1 == <<"verify1">>

Each(o, Do(_)) == ForEach(o.device_ids, Do)

-----------------------------------------------------------------------------
(* Construction and destruction.                                           *)

CreateQueues(o) ==
    LET regular(d) ==
            commandQueueCreate(command_queue(d)) \o commandListCreate(command_list(d))
            \o commandQueueCreate(command_queue1(d)) \o commandListCreate(command_list1(d))
        immediate(d) ==
            immediateCommandListCreate(command_list(d))
            \o immediateCommandListCreate(command_list1(d))
    IN  Each(o, LAMBDA d : IF o.immediate THEN immediate(d) ELSE regular(d))

CreateVerifyAndEvents(o) ==
    If(o.verify, commandQueueCreate(command_queue_verify)
                 \o commandListCreate(command_list_verify))
    \o Create(event_pool, <<>>)
    \o Each(o, LAMBDA d : Create(event(d), <<>>) \o Create(event1(d), <<>>))
    \o Create(wait_event, <<>>)

ze_bandwidth_query_engines(o) == CreateQueues(o) \o CreateVerifyAndEvents(o)

\* A program that only asks for the engines destroys none of it.
DestroyZeBandwidth(o) ==
    LET device(d) ==
            Destroy(command_list(d)) \o Destroy(command_list1(d))
            \o If(~o.immediate, Destroy(command_queue(d)) \o Destroy(command_queue1(d)))
            \o Destroy(event(d)) \o Destroy(event1(d))
        all == If(o.verify, Destroy(command_list_verify) \o Destroy(command_queue_verify))
               \o Each(o, device) \o Destroy(wait_event) \o Destroy(event_pool)
    IN  If(~o.query, all)

-----------------------------------------------------------------------------
(* One direction, between buffers of the kinds dst and src.                *)

\* A copy on the list of the first device that is waited for.
RunVerify(c) ==
    commandListAppend(command_list_verify, c) \o commandListClose(command_list_verify)
    \o commandQueueExecuteCommandList(command_queue_verify, command_list_verify)
    \o commandQueueSynchronize(command_queue_verify)
    \o commandListReset(command_list_verify)

GatedCopy(dst, src, d, size) ==
    WaitsFor(wait_event, Copy(buffer(dst, d), buffer(src, d), 1..size))

transfer_initialize(o, size, src) ==
    memoryAlloc(host_buffer_verify1, size) \o hostDo(Fill(host_buffer_verify1, Data))
    \o Each(o, LAMBDA d : RunVerify(Copy(buffer(src, d), host_buffer_verify1, 1..size)))

transfer_regular(o, size, dst, src) ==
    LET execute(d) == commandQueueExecuteCommandList(command_queue(d), command_list(d))
        await(d) == commandQueueSynchronize(command_queue(d))
        once == Each(o, execute) \o hostEventSignal(wait_event) \o Each(o, await)
                \o hostEventReset(wait_event)
    IN  Each(o, LAMBDA d :
            commandListAppend(command_list(d), GatedCopy(dst, src, d, size)))
        \o Each(o, LAMBDA d : commandListClose(command_list(d)))
        \o Times(o.warm, once)
        \o timerStart \o Times(o.iters, once)
        \o timerEnd(o.iters * Len(o.device_ids) * size)
        \o Each(o, LAMBDA d : commandListReset(command_list(d)))

transfer_immediate(o, size, dst, src) ==
    LET append(d) ==
            hostEventReset(event(d))
            \o appendImmediate(command_list(d),
                               Signals(event(d), GatedCopy(dst, src, d, size)))
        await(d) == hostSynchronize(event(d))
        once == Each(o, append) \o hostEventSignal(wait_event) \o Each(o, await)
                \o hostEventReset(wait_event)
    IN  Times(o.warm, once)
        \o timerStart \o Times(o.iters, once)
        \o timerEnd(o.iters * Len(o.device_ids) * size)

transfer_verify(o, size, dst) ==
    memoryAlloc(host_buffer_verify, size)
    \o Each(o, LAMBDA d :
           RunVerify(Copy(host_buffer_verify, buffer(dst, d), 1..size))
           \o hostExpect(host_buffer_verify, Data))
    \o Destroy(host_buffer_verify1) \o Destroy(host_buffer_verify)

transfer_size_test(o, size, dst, src) ==
    If(o.verify, transfer_initialize(o, size, src))
    \o (IF o.immediate THEN transfer_immediate(o, size, dst, src)
        ELSE transfer_regular(o, size, dst, src))
    \o If(o.verify, transfer_verify(o, size, dst))

-----------------------------------------------------------------------------
(* Both directions: to the device on the first queue of each, back on the  *)
(* second.  Nothing is verified.                                           *)

There(d, size) == GatedCopy(device_buffers, host_buffers, d, size)
Back(d, size) == GatedCopy(host_buffers_bidir, device_buffers_bidir, d, size)

\* The order of the two queues differs between the warm-up and the timed part.
bidir_regular(o, size) ==
    LET execute(d) == commandQueueExecuteCommandList(command_queue(d), command_list(d))
        execute1(d) == commandQueueExecuteCommandList(command_queue1(d), command_list1(d))
        await(d) == commandQueueSynchronize(command_queue(d))
        await1(d) == commandQueueSynchronize(command_queue1(d))
        warmUp == Each(o, LAMBDA d : execute(d) \o execute1(d))
                  \o hostEventSignal(wait_event)
                  \o Each(o, LAMBDA d : await(d) \o await1(d))
                  \o hostEventReset(wait_event)
        timed == Each(o, LAMBDA d : execute1(d) \o execute(d))
                 \o hostEventSignal(wait_event)
                 \o Each(o, LAMBDA d : await1(d) \o await(d))
                 \o hostEventReset(wait_event)
    IN  Each(o, LAMBDA d : commandListAppend(command_list(d), There(d, size)))
        \o Each(o, LAMBDA d : commandListClose(command_list(d)))
        \o Each(o, LAMBDA d : commandListAppend(command_list1(d), Back(d, size)))
        \o Each(o, LAMBDA d : commandListClose(command_list1(d)))
        \o Times(o.warm, warmUp)
        \o timerStart \o Times(o.iters, timed)
        \o timerEnd(o.iters * Len(o.device_ids) * 2 * size)
        \o Each(o, LAMBDA d : commandListReset(command_list(d))
                              \o commandListReset(command_list1(d)))

bidir_immediate(o, size) ==
    LET append(d) ==
            hostEventReset(event(d)) \o hostEventReset(event1(d))
            \o appendImmediate(command_list(d), Signals(event(d), There(d, size)))
            \o appendImmediate(command_list1(d), Signals(event1(d), Back(d, size)))
        await(d) == hostSynchronize(event(d)) \o hostSynchronize(event1(d))
        once == Each(o, append) \o hostEventSignal(wait_event) \o Each(o, await)
                \o hostEventReset(wait_event)
    IN  Times(o.warm, once)
        \o timerStart \o Times(o.iters, once)
        \o timerEnd(o.iters * Len(o.device_ids) * 2 * size)

transfer_bidir_size_test(o, size) ==
    IF o.immediate THEN bidir_immediate(o, size) ELSE bidir_regular(o, size)

-----------------------------------------------------------------------------
(* The tests.                                                              *)

\* A buffer of each of these kinds, for every device.
AllocateKinds(o, kinds, size) ==
    Each(o, LAMBDA d : ForEach(kinds, LAMBDA kind : memoryAlloc(buffer(kind, d), size)))
FreeKinds(o, kinds) ==
    Each(o, LAMBDA d : ForEach(kinds, LAMBDA kind : Destroy(buffer(kind, d))))

OneWayKinds == <<device_buffers, host_buffers>>
AllocateBuffers(o, size) == AllocateKinds(o, OneWayKinds, size)
FreeBuffers(o) == FreeKinds(o, OneWayKinds)

test_host2device(o) ==
    ForEach(o.transfer_size, LAMBDA size :
        AllocateBuffers(o, size)
        \o transfer_size_test(o, size, device_buffers, host_buffers) \o FreeBuffers(o))

test_device2host(o) ==
    ForEach(o.transfer_size, LAMBDA size :
        AllocateBuffers(o, size)
        \o transfer_size_test(o, size, host_buffers, device_buffers) \o FreeBuffers(o))

\* The buffers of all devices are allocated on the first one.
BothWaysKinds == OneWayKinds \o <<device_buffers_bidir, host_buffers_bidir>>
test_bidir(o) ==
    ForEach(o.transfer_size, LAMBDA size :
        AllocateKinds(o, BothWaysKinds, size)
        \o transfer_bidir_size_test(o, size)
        \o FreeKinds(o, BothWaysKinds))

main(options) ==
    LET o == [options EXCEPT !.iters = IF options.verify THEN 1 ELSE @,
                             !.warm = IF options.verify THEN 0 ELSE @]
        tests == If("host2dev" \in o.runs, test_host2device(o))
                 \o If("dev2host" \in o.runs, test_device2host(o))
                 \o If("bidirectional" \in o.runs, test_bidir(o))
    IN  ze_bandwidth_query_engines(o) \o If(~o.query, tests) \o DestroyZeBandwidth(o)
=============================================================================
