------------------------------ MODULE PeerCommon ------------------------------
(***************************************************************************)
(* ze_peer (perf_tests/ze_peer/src): copies between two devices, in one    *)
(* direction and in both; the parts every mode of it shares.               *)
(*                                                                         *)
(* An options record o stands for the command line and what it leads to:   *)
(*   devices, engines   devices of the machine, engines of each            *)
(*   local, remote      device lists (-s, -d); pairs for the pair mode     *)
(*   queues             the engines to use (-u), as indexes from 1         *)
(*   write              PEER_WRITE (otherwise PEER_READ)                   *)
(*   immediate          immediate command lists (not --regular_cmdlist)    *)
(*   both               -b, in the parallel modes                          *)
(*   divide, inDest     --divide_buffers, -x dst                           *)
(*   size               parts of a buffer                                  *)
(*   warm, iters        warm_up_iterations and number_iterations           *)
(*   validate           -v                                                 *)
(* What is printed and the peer capability check are left out.             *)
(***************************************************************************)
EXTENDS HostCalls

queueOf(d, e) == <<"queue", d, e>>
listOf(d, e) == <<"list", d, e>>
src(d) == <<"src", d>>
dst(d) == <<"dst", d>>
host_buffer == <<"host_buffer">>
validate_buffer == <<"validate_buffer">>
event == <<"event">>

Engines(o) == [e \in 1..o.engines |-> e]
AllParts(o) == 1..o.size

-----------------------------------------------------------------------------
(* Construction, buffers and validation.                                   *)

\* One queue and list, or one immediate list, for every engine; one event.
CreateEngines(o) ==
    ForEach(o.devices, LAMBDA d : ForEach(Engines(o), LAMBDA e :
        IF o.immediate THEN immediateCommandListCreate(listOf(d, e))
        ELSE commandQueueCreate(queueOf(d, e)) \o commandListCreate(listOf(d, e))))
ZePeer(o) == CreateEngines(o) \o Create(<<"event_pool">>, <<>>) \o Create(event, <<>>)

DestroyEngines(o) ==
    ForEach(o.devices, LAMBDA d : ForEach(Engines(o), LAMBDA e :
        If(~o.immediate, Destroy(queueOf(d, e))) \o Destroy(listOf(d, e))))
DestroyZePeer(o) == DestroyEngines(o) \o Destroy(event) \o Destroy(<<"event_pool">>)

set_up(o) ==
    ForEach(o.local \o o.remote, LAMBDA d :
        memoryAlloc(src(d), o.size) \o memoryAlloc(dst(d), o.size))
    \o memoryAlloc(host_buffer, o.size) \o memoryAlloc(validate_buffer, o.size)

\* As it would be if only the buffers of the local devices were freed.
TearDownLocal(o) ==
    ForEach(o.local, LAMBDA d : Destroy(dst(d)) \o Destroy(src(d)))
    \o Destroy(host_buffer) \o Destroy(validate_buffer)

\* A device that is local and remote is freed once: the pointers are reset.
tear_down(o) ==
    LET freed == o.local \o SelectSeq(o.remote, LAMBDA d : d \notin ToSet(o.local))
    IN  ForEach(freed, LAMBDA d : Destroy(dst(d)) \o Destroy(src(d)))
        \o Destroy(host_buffer) \o Destroy(validate_buffer)

\* A copy on the list of an engine that is waited for.
RunAlone(o, d, e, c) ==
    IF o.immediate
    THEN appendInOrder(listOf(d, e), c) \o commandQueueSynchronize(listOf(d, e))
    ELSE commandListAppend(listOf(d, e), c) \o commandListClose(listOf(d, e))
         \o commandQueueExecuteCommandList(queueOf(d, e), listOf(d, e))
         \o commandQueueSynchronize(queueOf(d, e))
         \o commandListReset(listOf(d, e))

initialize_src_buffer(o, d) ==
    RunAlone(o, d, 1, Copy(src(d), host_buffer, AllParts(o)))

initialize_buffers(o) ==
    hostDo(Fill(host_buffer, Data))
    \o ForEach(o.remote \o o.local, LAMBDA d : initialize_src_buffer(o, d))

\* Copies what arrived to the host on the engine e of d and compares it.
validateBuffer(o, d, e, buffer) ==
    RunAlone(o, d, e, Copy(validate_buffer, buffer, AllParts(o)))
    \o hostExpect(validate_buffer, Data)

-----------------------------------------------------------------------------
(* One direction.                                                          *)

\* Where the data goes and where it comes from, seen from the local device.
Target(o, l, r) == IF o.write THEN dst(r) ELSE dst(l)
Source(o, l, r) == IF o.write THEN src(l) ELSE src(r)
CopyBetween(o, l, r, parts) == Copy(Target(o, l, r), Source(o, l, r), parts)

perform_copy(o, l, e, c) ==
    LET once == commandQueueExecuteCommandList(queueOf(l, e), listOf(l, e))
                \o commandQueueSynchronize(queueOf(l, e))
    IN  commandListAppend(listOf(l, e), c) \o commandListClose(listOf(l, e))
        \o Times(o.warm, once)
        \o timerStart \o Times(o.iters, once) \o timerEnd(o.iters * o.size)
        \o commandListReset(listOf(l, e))

\* As it would be if the warm-up were not waited for.
WarmUpNotAwaited(o, l, e, c) ==
    LET append == appendInOrder(listOf(l, e), c)
    IN  Times(o.warm, append)
        \o timerStart \o Times(o.iters, append \o commandQueueSynchronize(listOf(l, e)))
        \o timerEnd(o.iters * o.size)

\* The immediate list is also reset, which changes nothing of it.
perform_copy_immediate(o, l, e, c) ==
    LET once == appendInOrder(listOf(l, e), c) \o commandQueueSynchronize(listOf(l, e))
    IN  Times(o.warm, once)
        \o timerStart \o Times(o.iters, once) \o timerEnd(o.iters * o.size)

bandwidth_latency(o) ==
    LET l == o.local[1]
        r == o.remote[1]
        e == o.queues[1]
        c == CopyBetween(o, l, r, AllParts(o))
    IN  set_up(o) \o initialize_buffers(o)
        \o (IF o.immediate THEN perform_copy_immediate(o, l, e, c)
            ELSE perform_copy(o, l, e, c))
        \o If(o.validate, validateBuffer(o, l, e, Target(o, l, r)))
        \o tear_down(o)

-----------------------------------------------------------------------------
(* Both directions: the copies of an iteration wait for the one event, and *)
(* the host signals it when all of them are submitted.                     *)

\* The two copies between l and r, each appended to the list of the engine e of
\* its device.
BothWays(o, l, r, e, parts) ==
    LET append(list, c) == IF o.immediate THEN appendInOrder(list, c)
                           ELSE commandListAppend(list, c)
        there == WaitsFor(event, Copy(dst(r), src(l), parts))
        back == WaitsFor(event, Copy(dst(l), src(r), parts))
    IN  IF o.write THEN append(listOf(l, e), there) \o append(listOf(r, e), back)
        ELSE append(listOf(l, e), back) \o append(listOf(r, e), there)

ExecuteBoth(l, r, e) ==
    commandQueueExecuteCommandList(queueOf(l, e), listOf(l, e))
    \o commandQueueExecuteCommandList(queueOf(r, e), listOf(r, e))
SynchronizeBoth(l, r, e) ==
    commandQueueSynchronize(queueOf(l, e)) \o commandQueueSynchronize(queueOf(r, e))
SynchronizeBothLists(l, r, e) ==
    commandQueueSynchronize(listOf(l, e)) \o commandQueueSynchronize(listOf(r, e))

\* As it would be if the event were reset before the queues are waited for.
ResetBeforeSynchronize(o, l, r, e) ==
    BothWays(o, l, r, e, AllParts(o))
    \o commandListClose(listOf(l, e)) \o commandListClose(listOf(r, e))
    \o Times(o.iters, ExecuteBoth(l, r, e) \o timerStart \o hostEventSignal(event)
                      \o hostEventReset(event)
                      \o SynchronizeBoth(l, r, e) \o timerEnd(2 * o.size))
    \o commandListReset(listOf(l, e)) \o commandListReset(listOf(r, e))

bidirectional_perform_copy(o, l, r, e) ==
    BothWays(o, l, r, e, AllParts(o))
    \o commandListClose(listOf(l, e)) \o commandListClose(listOf(r, e))
    \o Times(o.warm, hostEventSignal(event) \o ExecuteBoth(l, r, e)
                     \o SynchronizeBoth(l, r, e) \o hostEventReset(event))
    \o Times(o.iters, ExecuteBoth(l, r, e) \o timerStart \o hostEventSignal(event)
                      \o SynchronizeBoth(l, r, e) \o timerEnd(2 * o.size)
                      \o hostEventReset(event))
    \o commandListReset(listOf(l, e)) \o commandListReset(listOf(r, e))

bidirectional_perform_copy_immediate(o, l, r, e) ==
    LET append == BothWays(o, l, r, e, AllParts(o))
    IN  Times(o.warm, append \o hostEventSignal(event)
                      \o SynchronizeBothLists(l, r, e) \o hostEventReset(event))
        \o Times(o.iters, append \o timerStart \o hostEventSignal(event)
                          \o SynchronizeBothLists(l, r, e) \o timerEnd(2 * o.size)
                          \o hostEventReset(event))

bidirectional_bandwidth_latency(o) ==
    LET l == o.local[1]
        r == o.remote[1]
        e == o.queues[1]
    IN  set_up(o) \o initialize_buffers(o)
        \o (IF o.immediate THEN bidirectional_perform_copy_immediate(o, l, r, e)
            ELSE bidirectional_perform_copy(o, l, r, e))
        \o If(o.validate,
              validateBuffer(o, r, 1, dst(r)) \o hostDo(Fill(validate_buffer, 5))
              \o validateBuffer(o, l, 1, dst(l)))
        \o tear_down(o)
=============================================================================
