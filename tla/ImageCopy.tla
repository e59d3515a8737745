------------------------------ MODULE ImageCopy -------------------------------
(***************************************************************************)
(* ze_image_copy (perf_tests/ze_image_copy/src/ze_image_copy.cpp): copies  *)
(* of an image from the host to the device and back.  "Parallel" copies    *)
(* are not ordered; "serial" ones form a chain of events whose first one   *)
(* the host signals.                                                       *)
(*                                                                         *)
(* An options record o stands for one ZeImageCopy object:                  *)
(*   id            its number; main has two                                *)
(*   copies        num_image_copies (--noofimg)                            *)
(*   warm, iters   warm_up_iterations and num_iterations                   *)
(*   validate      data_validation                                         *)
(* An image and the buffers have one part.                                 *)
(***************************************************************************)
EXTENDS HostCalls

command_queue(o) == <<"queue", o.id>>
command_list(o) == <<"list", o.id>>
command_list_a(o) == <<"list a", o.id>>
command_list_b(o) == <<"list b", o.id>>
image(o) == <<"image", o.id>>
srcBuffer(o) == <<"src", o.id>>
dstBuffer(o) == <<"dst", o.id>>
event_pool(o) == <<"event pool", o.id>>
hdevice_event(o, i) == <<"event", o.id, i>>

CommandLists(o) == <<command_list(o), command_list_a(o), command_list_b(o)>>
num_wait_events(o) == o.copies + 1
EachEvent(o, Do(_)) == Repeat(num_wait_events(o), LAMBDA i : Do(hdevice_event(o, i)))

CopyToImage(o) == Copy(image(o), srcBuffer(o), {1})
CopyFromImage(o) == Copy(dstBuffer(o), image(o), {1})

ZeImageCopy(o) ==
    commandQueueCreate(command_queue(o)) \o ForEach(CommandLists(o), commandListCreate)
DestroyZeImageCopy(o) == Destroy(command_queue(o)) \o ForEach(CommandLists(o), Destroy)

reset_all_events(o) == EachEvent(o, hostEventReset)

test_initialize(o) ==
    memoryAlloc(srcBuffer(o), 1) \o memoryAlloc(dstBuffer(o), 1)
    \o hostDo(Fill(srcBuffer(o), Data)) \o hostDo(Fill(dstBuffer(o), 0))
    \o memoryAlloc(image(o), 1)
    \o Create(event_pool(o), <<>>)
    \o EachEvent(o, LAMBDA e : Create(e, <<>>) \o hostEventReset(e))

test_cleanup(o) ==
    Destroy(srcBuffer(o)) \o Destroy(dstBuffer(o)) \o Destroy(image(o))
    \o EachEvent(o, Destroy) \o Destroy(event_pool(o))

validate_data_buffer(o) == If(o.validate, hostExpect(dstBuffer(o), Data))

-----------------------------------------------------------------------------
(* The measurements.                                                       *)

RunList(o, l) ==
    commandQueueExecuteCommandList(command_queue(o), l)
    \o commandQueueSynchronize(command_queue(o))

\* The list runs this many times, and the timer only while it does.
TimeList(o, l) ==
    Repeat(o.iters, LAMBDA i :
        (IF i = 1 THEN timerStart ELSE timerResume) \o RunList(o, l) \o timerStop)

\* A list that is filled and closed; one that is reset before.
Record(l, commands) ==
    ForEach(commands, LAMBDA c : commandListAppend(l, c)) \o commandListClose(l)
Refill(l, commands) == commandListReset(l) \o Record(l, commands)

\* command_list is not reset first: it is used once.
measureHost2Device2Host(o) ==
    test_initialize(o)
    \o Record(command_list(o), <<CopyToImage(o), Barrier, CopyFromImage(o)>>)
    \o Times(o.warm, RunList(o, command_list(o)))
    \o TimeList(o, command_list(o)) \o report(2 * o.iters)
    \o validate_data_buffer(o) \o test_cleanup(o)

\* The warm-up is one run of each list.
measureParallelHost2Device(o) ==
    LET a == command_list_a(o)
        b == command_list_b(o)
    IN  test_initialize(o)
        \o Refill(a, [i \in 1..o.copies |-> CopyToImage(o)])
        \o Refill(b, <<CopyFromImage(o)>>)
        \o RunList(o, a) \o RunList(o, b)
        \o TimeList(o, a) \o RunList(o, b) \o report(o.copies * o.iters)
        \o validate_data_buffer(o) \o test_cleanup(o)

measureParallelDevice2Host(o) ==
    LET a == command_list_a(o)
        b == command_list_b(o)
    IN  test_initialize(o)
        \o Refill(a, <<CopyToImage(o)>>)
        \o Refill(b, [i \in 1..o.copies |-> CopyFromImage(o)])
        \o RunList(o, a) \o RunList(o, b)
        \o TimeList(o, b) \o report(o.copies * o.iters)
        \o validate_data_buffer(o) \o test_cleanup(o)

\* A wait for an event, and the copies each of which signals the next one.
WaitOnEvents(e) == InOrder(WaitsFor(e, NoEffect))
\* As it would be if a copy signaled the event it was started by.
ChainOneBehind(o, copy) ==
    <<WaitOnEvents(hdevice_event(o, 1))>>
    \o FlattenSeq([i \in 1..o.copies |->
           <<Signals(hdevice_event(o, i), copy),
             WaitOnEvents(hdevice_event(o, i + 1))>>])

Chain(o, copy) ==
    <<WaitOnEvents(hdevice_event(o, 1))>>
    \o FlattenSeq([i \in 1..o.copies |->
           <<Signals(hdevice_event(o, i + 1), copy),
             WaitOnEvents(hdevice_event(o, i + 1))>>])

SignalChain(o) ==
    hostEventSignal(hdevice_event(o, 1))
    \o hostSynchronize(hdevice_event(o, num_wait_events(o)))

WarmUpChain(o, l) ==
    Times(o.warm, commandQueueExecuteCommandList(command_queue(o), l) \o SignalChain(o)
                  \o commandQueueSynchronize(command_queue(o)) \o reset_all_events(o))

\* The bandwidth counts one copy per iteration, however many there are.
TimeChain(o, l) ==
    Repeat(o.iters, LAMBDA i :
        commandQueueExecuteCommandList(command_queue(o), l)
        \o (IF i = 1 THEN timerStart ELSE timerResume) \o SignalChain(o) \o timerStop
        \o commandQueueSynchronize(command_queue(o)) \o reset_all_events(o))

measureSerialHost2Device(o) ==
    LET a == command_list_a(o)
        b == command_list_b(o)
    IN  test_initialize(o)
        \o commandListReset(a) \o commandListReset(b)
        \o Record(a, Chain(o, CopyToImage(o)))
        \o Record(b, <<CopyFromImage(o)>>)
        \o WarmUpChain(o, a) \o TimeChain(o, a)
        \o RunList(o, b) \o report(o.iters)
        \o validate_data_buffer(o) \o test_cleanup(o)

measureSerialDevice2Host(o) ==
    LET a == command_list_a(o)
        b == command_list_b(o)
    IN  test_initialize(o)
        \o commandListReset(a) \o commandListReset(b)
        \o Record(a, <<CopyToImage(o)>>) \o RunList(o, a)
        \o Record(b, Chain(o, CopyFromImage(o)))
        \o WarmUpChain(o, b) \o TimeChain(o, b) \o report(o.iters)
        \o validate_data_buffer(o) \o test_cleanup(o)

-----------------------------------------------------------------------------
(* The program.                                                            *)

measure_bandwidth_Host2Device2Host(o) == measureHost2Device2Host(o)
measure_bandwidth_Host2Device(o) ==
    measureParallelHost2Device(o) \o measureSerialHost2Device(o)
measure_bandwidth_Device2Host(o) ==
    measureParallelDevice2Host(o) \o measureSerialDevice2Host(o)
measure_bandwidth(o) ==
    measure_bandwidth_Host2Device2Host(o) \o measure_bandwidth_Host2Device(o)
    \o measure_bandwidth_Device2Host(o)

measure_latency_Host2Device(o) == measureParallelHost2Device(o)
measure_latency_Device2Host(o) == measureParallelDevice2Host(o)
measure_latency(o) == measure_latency_Host2Device(o) \o measure_latency_Device2Host(o)

\* The options of the command line are those of the first object only; both
\* objects live until main returns.
main(o, defaults) ==
    ZeImageCopy(o) \o measure_bandwidth(o)
    \o ZeImageCopy(defaults) \o measure_latency(defaults)
    \o DestroyZeImageCopy(defaults) \o DestroyZeImageCopy(o)
=============================================================================
