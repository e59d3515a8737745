--------------------------------- MODULE Peak ---------------------------------
(***************************************************************************)
(* The benchmarks of ze_peak (perf_tests/ze_peak/src): memory bandwidth,   *)
(* computing in four precisions, transfers, latency of kernels.  They run  *)
(* one after the other on the context's lists, and each relies on the      *)
(* state the one before has left these in.                                 *)
(***************************************************************************)
EXTENDS PeakCommon

\* The buffers a kernel works on, for every (sub-)device.
Input(o) == [s \in ToSet(Subs(o)) |-> {inputBuf(s), outputBuf(s)}]
NoInput(o) == [s \in ToSet(Subs(o)) |-> {outputBuf(s)}]
host_input == <<"host input">>

\* The kernels of a benchmark: one handle per (sub-)device and number.
CreateKernels(o, n) ==
    ForEach(Subs(o), LAMBDA s : Repeat(n, LAMBDA i : setup_function(o, kernel(s, i))))
DestroyKernels(o, n) ==
    Repeat(n, LAMBDA i : ForEach(Subs(o), LAMBDA s : Destroy(kernel(s, i))))
MeasureKernels(o, n, buffers) == Repeat(n, LAMBDA i : run_kernels(o, i, buffers))

\* Module and buffers; then the input is copied to these (sub-)devices.
Prepare(o, copied) ==
    create_module(o)
    \o CreateEach(o, inputBuf) \o CreateEach(o, outputBuf)
    \o memoryAlloc(host_input, 1)
    \o ForEach(copied, LAMBDA s :
           commandListAppend(command_list(s), Copy(inputBuf(s), host_input, {1})))
    \o ForEach(Subs(o), LAMBDA s : commandListAppend(command_list(s), Barrier))
    \o execute_commandlist_and_sync(o)

Release(o) ==
    DestroyEach(o, inputBuf) \o DestroyEach(o, outputBuf)
    \o DestroyEach(o, module)
    \o Destroy(host_input)

-----------------------------------------------------------------------------
(* Global memory: two kernels for every vector width.                      *)

global_bw_prepare(o) == Prepare(o, Subs(o))
global_bw_kernels(o) == CreateKernels(o, 2 * o.widths)
global_bw_run(o) == MeasureKernels(o, 2 * o.widths, Input(o))
global_bw_destroy_kernels(o) == DestroyKernels(o, 2 * o.widths)
global_bw_release(o) == Release(o)

ze_peak_global_bw(o) ==
    global_bw_prepare(o) \o global_bw_kernels(o) \o global_bw_run(o)
    \o global_bw_destroy_kernels(o) \o global_bw_release(o)

-----------------------------------------------------------------------------
(* Computing: one kernel for every vector width.  The loop over the        *)
(* sub-devices that copies the input counts twice per turn, and every      *)
(* second one is left out.                                                 *)

Counted2(o) == SelectSeq(Subs(o), LAMBDA s : s = 0 \/ s % 2 = 1)

sp_prepare(o) == Prepare(o, Counted2(o))
sp_kernels(o) == CreateKernels(o, o.widths)
sp_run(o) == MeasureKernels(o, o.widths, Input(o))
sp_release(o) == DestroyKernels(o, o.widths) \o Release(o)
ze_peak_sp_compute(o) == sp_prepare(o) \o sp_kernels(o) \o sp_run(o) \o sp_release(o)

dp_prepare(o) == Prepare(o, Counted2(o))
dp_kernels(o) == CreateKernels(o, o.widths)
dp_run(o) == MeasureKernels(o, o.widths, Input(o))
dp_release(o) == DestroyKernels(o, o.widths) \o Release(o)
ze_peak_dp_compute(o) ==
    If(o.fp64, dp_prepare(o) \o dp_kernels(o) \o dp_run(o) \o dp_release(o))

int_prepare(o) == Prepare(o, Counted2(o))
int_kernels(o) == CreateKernels(o, o.widths)
int_run(o) == MeasureKernels(o, o.widths, Input(o))
int_release(o) == DestroyKernels(o, o.widths) \o Release(o)
ze_peak_int_compute(o) == int_prepare(o) \o int_kernels(o) \o int_run(o) \o int_release(o)

\* The input is an argument of the kernel: there is no copy.
hp_prepare(o) ==
    create_module(o) \o CreateEach(o, outputBuf) \o CreateKernels(o, o.widths)
hp_run(o) == MeasureKernels(o, o.widths, NoInput(o))
hp_release(o) ==
    DestroyKernels(o, o.widths) \o DestroyEach(o, outputBuf) \o DestroyEach(o, module)
ze_peak_hp_compute(o) == hp_prepare(o) \o hp_run(o) \o hp_release(o)

-----------------------------------------------------------------------------
(* Latency of a kernel.                                                    *)

kernel_latency_prepare(o) ==
    create_module(o) \o CreateEach(o, inputBuf) \o CreateEach(o, outputBuf)
    \o CreateKernels(o, 1)

\* On the device itself the last measurement leaves its list closed.
kernel_latency_run(o) ==
    LET k(s) == Launch(o, s, 1, Input(o)[s])
        each(Do(_)) == ForEach(Subs(o), Do)
    IN  each(LAMBDA s : run_kernel_launch_latency(o, s, k(s)) \o final_reset(o, s))
        \o each(LAMBDA s : run_immediate_launch_latency(o, s, k(s)) \o final_reset(o, s))
        \o each(LAMBDA s : run_kernel_complete_runtime(o, s, k(s))
                           \o If(s # 0, final_reset(o, s)))

kernel_latency_release(o) ==
    DestroyKernels(o, 1) \o DestroyEach(o, inputBuf) \o DestroyEach(o, outputBuf)
    \o DestroyEach(o, module)

ze_peak_kernel_latency(o) ==
    kernel_latency_prepare(o) \o kernel_latency_run(o) \o kernel_latency_release(o)
=============================================================================
