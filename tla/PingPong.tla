------------------------------- MODULE PingPong -------------------------------
(***************************************************************************)
(* ze_pingpong (perf_tests/ze_pingpong/src/ze_pingpong.cpp): the host and  *)
(* a kernel that adds one to a number take turns, num_execute times, on    *)
(* device memory, host memory and shared memory.  The host takes one off   *)
(* again, so the number it finds at the end is 0.                          *)
(***************************************************************************)
EXTENDS HostCalls

CONSTANT num_execute

context == <<"context">>
command_list == <<"list">>
command_queue == <<"queue">>
device_input == <<"device input">>
host_output == <<"host output">>
shared_output == <<"shared output">>
module == <<"module">>
function == <<"function">>

-----------------------------------------------------------------------------

init ==
    Create(context, <<>>) \o commandListCreate(command_list)
    \o commandQueueCreate(command_queue)
    \o memoryAlloc(device_input, 1) \o memoryAlloc(host_output, 1)
    \o memoryAlloc(shared_output, 1)

destroy ==
    Destroy(command_queue) \o Destroy(command_list)
    \o Destroy(device_input) \o Destroy(host_output) \o Destroy(shared_output)
    \o Destroy(context)

create_module == Create(module, <<>>)

\* The queue is synchronous: the call returns when the list has run.
run_command_queue ==
    commandQueueExecuteCommandList(command_queue, command_list)
    \o commandQueueSynchronize(command_queue)

reset_commandlist == commandListReset(command_list)

verify_result == hostExpect(host_output, 0)

\* The kernel with the argument that set_argument_value gave it; a loop counts
\* as one piece of work, that of its kernel.
kPingPong(buffer) == [Add(buffer, 1) EXCEPT !.touches = @ \cup {function, module}]
Uncounted(c) == [c EXCEPT !.work = 0]
Move(to, from) == Uncounted(Copy(to, from, {1}))

\* Only DEVICE_MEM_XFER copies the number to the device and back.
setup_commandlist(test, buffer) ==
    LET append(c) == commandListAppend(command_list, c)
        transfer == append(Move(buffer, host_output)) \o append(Barrier)
                    \o append(kPingPong(buffer)) \o append(Barrier)
                    \o append(Move(host_output, buffer))
        kernelOnly == If(test = "SHARED_MEM_MAP", append(NoEffect))
                      \o append(kPingPong(buffer))
    IN  (IF test = "DEVICE_MEM_XFER" THEN transfer ELSE kernelOnly)
        \o commandListClose(command_list)

measure_benchmark(test) ==
    LET decrement == hostDo(Uncounted(Add(host_output, -1)))
        mapped == hostDo(Move(shared_output, host_output)) \o run_command_queue
                  \o hostDo(Move(host_output, shared_output)) \o decrement
        kernelOnly == test \in {"DEVICE_MEM_KERNEL_ONLY", "HOST_MEM_KERNEL_ONLY",
                                "SHARED_MEM_KERNEL_ONLY"}
        loop == IF kernelOnly THEN run_command_queue
                ELSE IF test = "SHARED_MEM_MAP" THEN mapped
                ELSE run_command_queue \o decrement
    IN  hostDo(Fill(host_output, 0))
        \o timerStart \o Times(num_execute, loop) \o timerEnd(num_execute)
        \o If(~kernelOnly, verify_result)

run_test ==
    LET setup(test, buffer) == setup_commandlist(test, buffer)
        measure(test, buffer) == setup(test, buffer) \o measure_benchmark(test)
    IN  create_module \o Create(function, <<>>)
        \o setup("DEVICE_MEM_KERNEL_ONLY", device_input)
        \o Times(num_execute \div 2, run_command_queue) \o reset_commandlist
        \o measure("DEVICE_MEM_KERNEL_ONLY", device_input) \o reset_commandlist
        \o measure("HOST_MEM_KERNEL_ONLY", host_output) \o reset_commandlist
        \o measure("SHARED_MEM_KERNEL_ONLY", shared_output) \o reset_commandlist
        \o measure("SHARED_MEM_MAP", shared_output) \o reset_commandlist
        \o measure("DEVICE_MEM_XFER", device_input) \o reset_commandlist
        \o measure("HOST_MEM_NO_XFER", host_output)
        \o Destroy(function) \o Destroy(module)

main == init \o run_test \o destroy
=============================================================================
