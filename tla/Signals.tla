-------------------------------- MODULE Signals --------------------------------
(***************************************************************************)
(* What class process_synchro of conformance_tests/tools/debug/src/        *)
(* test_debug_common.hpp promises to the debugger and the applications     *)
(* that share it: every call takes effect at one instant between its       *)
(* invocation and its return, and a wait takes effect only at an instant   *)
(* at which its signal is set.  ProcessSynchro implements this with a      *)
(* mutex and a condition variable in shared memory.                        *)
(***************************************************************************)
EXTENDS Naturals

CONSTANTS
    Debugger,         \* the test process
    Helpers,          \* the processes it launches
    Addresses,        \* what update_gpu_buffer_address may be called with
    NoAddress         \* 0

Procs == Helpers \cup {Debugger}

VARIABLES
    signal,           \* debugger_signal and debugee_signal
    address,          \* gpu_buffer_address, standing for the other shared values as well
    op,               \* the call of each process
    arg,              \* its argument
    result,           \* what get_app_gpu_buffer_address got
    stage             \* how far the call is

vars == <<signal, address, op, arg, result, stage>>

SignalNames == {"debugger_signal", "debugee_signal"}

(* The calls, by who makes them.                                           *)
DebuggerOps == {"notify_application", "wait_for_application_signal", "clear_application_signal",
                "clear_debugger_signal", "get_app_gpu_buffer_address"}
HelperOps == {"notify_debugger", "wait_for_debugger_signal", "clear_debugger_signal",
              "update_gpu_buffer_address"}

OpsOf(p) == IF p = Debugger THEN DebuggerOps ELSE HelperOps
Ops == DebuggerOps \cup HelperOps

SetOps == {"notify_application", "notify_debugger"}
ClearOps == {"clear_debugger_signal", "clear_application_signal"}
WaitOps == {"wait_for_debugger_signal", "wait_for_application_signal"}

SignalOf(o) ==
    IF o \in {"notify_application", "wait_for_debugger_signal", "clear_debugger_signal"}
    THEN "debugger_signal" ELSE "debugee_signal"

Init ==
    /\ signal = [s \in SignalNames |-> FALSE]
    /\ address = NoAddress
    /\ op \in [Procs -> Ops]
    /\ arg \in [Procs -> Addresses]
    /\ result = [p \in Procs |-> NoAddress]
    /\ stage = [p \in Procs |-> IF p = Debugger THEN "idle" ELSE "dead"]

Call(p) ==
    /\ stage[p] = "idle"
    /\ \E o \in OpsOf(p), a \in Addresses :
          op' = [op EXCEPT ![p] = o] /\ arg' = [arg EXCEPT ![p] = a]
    /\ stage' = [stage EXCEPT ![p] = "called"]
    /\ UNCHANGED <<signal, address, result>>

TakeEffect(p) ==
    /\ stage[p] = "called"
    /\ stage' = [stage EXCEPT ![p] = "done"]
    /\ UNCHANGED <<op, arg>>

Set(p) ==
    /\ TakeEffect(p)
    /\ op[p] \in SetOps
    /\ signal' = [signal EXCEPT ![SignalOf(op[p])] = TRUE]
    /\ UNCHANGED <<address, result>>

Clear(p) ==
    /\ TakeEffect(p)
    /\ op[p] \in ClearOps
    /\ signal' = [signal EXCEPT ![SignalOf(op[p])] = FALSE]
    /\ UNCHANGED <<address, result>>

Wait(p) ==
    /\ TakeEffect(p)
    /\ op[p] \in WaitOps
    /\ signal[SignalOf(op[p])]
    /\ UNCHANGED <<signal, address, result>>

Update(p) ==
    /\ TakeEffect(p)
    /\ op[p] = "update_gpu_buffer_address"
    /\ address' = arg[p]
    /\ UNCHANGED <<signal, result>>

Get(p) ==
    /\ TakeEffect(p)
    /\ op[p] = "get_app_gpu_buffer_address"
    /\ result' = [result EXCEPT ![p] = address]
    /\ UNCHANGED <<signal, address>>

Return(p) ==
    /\ stage[p] = "done"
    /\ stage' = [stage EXCEPT ![p] = "idle"]
    /\ UNCHANGED <<signal, address, op, arg, result>>

(* The debugger, between two calls, terminates a helper, whose call then   *)
(* never returns, and launches another.                                    *)
Terminate(p) ==
    /\ p \in Helpers
    /\ stage[p] # "dead"
    /\ stage[Debugger] = "idle"
    /\ stage' = [stage EXCEPT ![p] = "dead"]
    /\ UNCHANGED <<signal, address, op, arg, result>>

Launch(p) ==
    /\ stage[p] = "dead"
    /\ stage[Debugger] = "idle"
    /\ stage' = [stage EXCEPT ![p] = "idle"]
    /\ UNCHANGED <<signal, address, op, arg, result>>

(* The next test's SetUp starts over when no helper is left.               *)
SetUp ==
    /\ \A p \in Helpers : stage[p] = "dead"
    /\ stage[Debugger] = "idle"
    /\ signal' = [s \in SignalNames |-> FALSE]
    /\ address' = NoAddress
    /\ UNCHANGED <<op, arg, result, stage>>

Next ==
    \/ \E p \in Procs :
          \/ Call(p) \/ Set(p) \/ Clear(p) \/ Wait(p) \/ Update(p) \/ Get(p) \/ Return(p)
          \/ Terminate(p) \/ Launch(p)
    \/ SetUp

Spec == Init /\ [][Next]_vars
=============================================================================
