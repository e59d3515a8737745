----------------------------- MODULE PeakTransfer -----------------------------
(***************************************************************************)
(* The transfer benchmark of ze_peak (perf_tests/ze_peak/src/              *)
(* transfer_bw.cpp) and the program as a whole (main of ze_peak.cpp).      *)
(*                                                                         *)
(* The memory that is transferred is in parts; a sub-device transfers the  *)
(* first of them, as many as its share.                                    *)
(***************************************************************************)
EXTENDS Peak

local_memory == <<"local memory">>
system_memory == <<"system memory">>
device_buffer(s) == <<"device buffer", s>>
shared_buffer(s) == <<"shared buffer", s>>
temp_cmd_list == <<"temporary list">>

Share(o) == o.size \div Len(Subs(o))
Transfer(o, to, from) == Copy(to, from, 1..Share(o))

\* The list and queue a copy uses.
CopyList(o, s) == IF o.copyEngine THEN copy_command_list ELSE command_list(s)
CopyQueue(o, s) == IF o.copyEngine THEN copy_command_queue ELSE command_queue(s)

\* As it would be if it relied on the caller to reset the list.
TransferWithoutReset(o, s, to, from) ==
    commandListAppend(CopyList(o, s), Transfer(o, to, from))
    \o commandListClose(CopyList(o, s))
    \o timerStart
    \o Times(o.iters, commandQueueExecuteCommandList(CopyQueue(o, s), CopyList(o, s))
                      \o commandQueueSynchronize(CopyQueue(o, s)))
    \o timerEnd(o.iters * Share(o))

\* Resets the list first and leaves it closed.
_transfer_bw_gpu_copy(o, s, to, from) ==
    LET once == commandQueueExecuteCommandList(CopyQueue(o, s), CopyList(o, s))
                \o commandQueueSynchronize(CopyQueue(o, s))
    IN  commandListReset(CopyList(o, s))
        \o commandListAppend(CopyList(o, s), Transfer(o, to, from))
        \o commandListClose(CopyList(o, s))
        \o Times(o.warm, once)
        \o timerStart \o Times(o.iters, once) \o timerEnd(o.iters * Share(o))

\* The host touches the system's side between two copies.  The advice about
\* its place is part of the list; it is taken back (:123) in a list that is
\* closed (:96), which no program of MCBenchmarks does.
_transfer_bw_gpu_copy_with_shared_system(o, s, to, from, advice) ==
    LET once == commandQueueExecuteCommandList(CopyQueue(o, s), CopyList(o, s))
                \o commandQueueSynchronize(CopyQueue(o, s))
        advise == If(advice, commandListAppend(CopyList(o, s), NoEffect))
    IN  commandListReset(CopyList(o, s)) \o advise
        \o commandListAppend(CopyList(o, s), Transfer(o, to, from))
        \o commandListClose(CopyList(o, s))
        \o Times(o.warm, once)
        \o timerStart
        \o Times(o.iters, once \o hostDo(Fill(system_memory, 0)))
        \o timerEnd(o.iters * Share(o))
        \o advise

\* As it would be on an asynchronous list.
appendAsynchronous(l, c) == appendImmediate(l, c)

\* The list is synchronous: a call returns when its command has run.
appendSynchronous(l, c) == appendImmediate(l, c) \o commandQueueSynchronize(l)

\* A fill brings the shared buffer to the device, then the host copies; only
\* the host's copies are timed.
_transfer_bw_host_copy(o, s, to, from) ==
    LET toDevice == appendSynchronous(temp_cmd_list, Fill(shared_buffer(s), 0))
        copy == hostDo(Transfer(o, to, from))
    IN  immediateCommandListCreate(temp_cmd_list)
        \o appendSynchronous(temp_cmd_list, NoEffect)
        \o Times(o.warm, toDevice \o copy)
        \o Repeat(o.iters, LAMBDA i :
               toDevice \o (IF i = 1 THEN timerStart ELSE timerResume)
               \o copy \o timerStop)
        \o report(o.iters * Share(o))
        \o Destroy(temp_cmd_list)

_transfer_bw_shared_memory(o) ==
    LET each(Do(_)) == ForEach(Subs(o), Do)
    IN  each(LAMBDA s : memoryAlloc(shared_buffer(s), Share(o)))
        \o each(LAMBDA s : _transfer_bw_gpu_copy(o, s, shared_buffer(s), local_memory))
        \o each(LAMBDA s : _transfer_bw_gpu_copy(o, s, local_memory, shared_buffer(s)))
        \o each(LAMBDA s : _transfer_bw_host_copy(o, s, shared_buffer(s), local_memory))
        \o each(LAMBDA s : _transfer_bw_host_copy(o, s, local_memory, shared_buffer(s)))
        \o DestroyEach(o, shared_buffer)

transfer_with_system(o) ==
    LET each(Do(_)) == ForEach(Subs(o), Do)
        there(advice) == each(LAMBDA s : _transfer_bw_gpu_copy_with_shared_system(
                                  o, s, device_buffer(s), system_memory, advice))
        back(advice) == each(LAMBDA s : _transfer_bw_gpu_copy_with_shared_system(
                                 o, s, system_memory, device_buffer(s), advice))
    IN  memoryAlloc(system_memory, o.size)
        \o hostDo(Copy(system_memory, local_memory, 1..o.size))
        \o there(FALSE) \o back(FALSE) \o there(TRUE) \o back(TRUE)
        \o Destroy(system_memory)

ze_peak_transfer_bw(o) ==
    LET each(Do(_)) == ForEach(Subs(o), Do)
    IN  memoryAlloc(local_memory, o.size) \o hostDo(Fill(local_memory, Data))
        \o each(LAMBDA s : memoryAlloc(device_buffer(s), Share(o)))
        \o each(LAMBDA s : _transfer_bw_gpu_copy(o, s, device_buffer(s), local_memory))
        \o each(LAMBDA s : _transfer_bw_gpu_copy(o, s, local_memory, device_buffer(s)))
        \o If(o.sharedSystem, transfer_with_system(o))
        \o _transfer_bw_shared_memory(o)
        \o DestroyEach(o, device_buffer)
        \o Destroy(local_memory)

\* Which benchmarks run, always in this order.
peak_main(o) ==
    init_xe(o)
    \o If("global_bw" \in o.runs, ze_peak_global_bw(o))
    \o If("hp_compute" \in o.runs, ze_peak_hp_compute(o))
    \o If("sp_compute" \in o.runs, ze_peak_sp_compute(o))
    \o If("dp_compute" \in o.runs, ze_peak_dp_compute(o))
    \o If("int_compute" \in o.runs, ze_peak_int_compute(o))
    \o If("transfer_bw" \in o.runs, ze_peak_transfer_bw(o))
    \o If("kernel_lat" \in o.runs, ze_peak_kernel_latency(o))
    \o clean_xe(o)
=============================================================================
