---------------------------- MODULE ProcessSynchro -----------------------------
(***************************************************************************)
(* Class process_synchro of conformance_tests/tools/debug/src/             *)
(* test_debug_common.hpp: a mutex, a condition variable and a few values   *)
(* in shared memory, through which a debugger and the applications it      *)
(* debugs signal each other.  One step is one access to shared state.      *)
(* The debugger may terminate an application at any moment, also inside a  *)
(* critical section: the mutex then stays locked until a later SetUp       *)
(* creates everything anew.  Mutex and condition variable are those of     *)
(* Boost.Interprocess; a sleeper may also wake up for no reason.           *)
(***************************************************************************)
EXTENDS Naturals

CONSTANTS
    Debugger, Helpers,
    Addresses, NoAddress,
    MaxCalls,         \* bound on the calls and spurious wakeups of one process
    NoProc,           \* the mutex when it is free
    Abandoned         \* the mutex when its holder has been terminated

VARIABLES
    signal, address, op, arg, result,   \* as in Signals
    pc,               \* where each process is in its call
    mutex,
    left              \* calls and spurious wakeups still allowed

vars == <<signal, address, op, arg, result, pc, mutex, left>>
shared == <<signal, address>>
call == <<op, arg, left>>

(* How far a call is for its caller: not yet, or already, in effect.       *)
StageOf(l) ==
    IF l \in {"check", "lock", "inside", "asleep"} THEN "called"
    ELSE IF l \in {"unlock", "notify", "return"} THEN "done" ELSE l

stage == [p \in Helpers \cup {Debugger} |-> StageOf(pc[p])]

Abstract == INSTANCE Signals

Procs == Abstract!Procs
SignalOf(o) == Abstract!SignalOf(o)

ASSUME ConstantsAssumption ==
    /\ Debugger \notin Helpers
    /\ NoAddress \notin Addresses
    /\ NoProc \notin Procs /\ Abandoned \notin Procs /\ NoProc # Abandoned
    /\ MaxCalls \in Nat

NotifyingOpsWithoutSet == Abstract!ClearOps
NotifyingOps == Abstract!SetOps \cup Abstract!ClearOps

Go(p, l) == pc' = [pc EXCEPT ![p] = l]

InitialAddress == NoAddress

Init ==
    /\ signal = [s \in Abstract!SignalNames |-> FALSE]
    /\ address = InitialAddress
    /\ op = [p \in Procs |-> "clear_debugger_signal"]
    /\ arg \in [Procs -> Addresses]
    /\ result = [p \in Procs |-> NoAddress]
    /\ pc = [p \in Procs |-> IF p = Debugger THEN "idle" ELSE "dead"]
    /\ mutex = NoProc
    /\ left = [p \in Procs |-> MaxCalls]

Call(p) ==
    /\ pc[p] = "idle"
    /\ left[p] > 0
    /\ \E o \in Abstract!OpsOf(p), a \in Addresses :
          /\ op' = [op EXCEPT ![p] = o]
          /\ arg' = [arg EXCEPT ![p] = a]
          /\ Go(p, IF o = "get_app_gpu_buffer_address" THEN "check" ELSE "lock")
    /\ left' = [left EXCEPT ![p] = @ - 1]
    /\ UNCHANGED <<shared, result, mutex>>

CheckAddressSkipped(p) == pc[p] = "check" /\ Go(p, "lock") /\ UNCHANGED <<shared, call, result, mutex>>

(* The getter looks whether there is an address before it takes the mutex. *)
CheckAddress(p) ==
    /\ pc[p] = "check"
    /\ Go(p, IF address = NoAddress THEN "return" ELSE "lock")
    /\ result' = [result EXCEPT ![p] = IF address = NoAddress THEN NoAddress ELSE @]
    /\ UNCHANGED <<shared, call, mutex>>

LockIgnored(p) == pc[p] = "lock" /\ mutex' = p /\ Go(p, "inside") /\ UNCHANGED <<shared, call, result>>
Lock(p) ==
    /\ pc[p] = "lock"
    /\ mutex = NoProc
    /\ mutex' = p
    /\ Go(p, "inside")
    /\ UNCHANGED <<shared, call, result>>

-----------------------------------------------------------------------------
(* Inside the critical section.                                            *)

NotifyApplication(p) ==
    /\ pc[p] = "inside" /\ op[p] = "notify_application"
    /\ signal' = [signal EXCEPT !["debugger_signal"] = TRUE]
    /\ Go(p, "unlock")
    /\ UNCHANGED <<address, call, result, mutex>>

NotifyDebugger(p) ==
    /\ pc[p] = "inside" /\ op[p] = "notify_debugger"
    /\ signal' = [signal EXCEPT !["debugee_signal"] = TRUE]
    /\ Go(p, "unlock")
    /\ UNCHANGED <<address, call, result, mutex>>

ClearDebuggerSignal(p) ==
    /\ pc[p] = "inside" /\ op[p] = "clear_debugger_signal"
    /\ signal' = [signal EXCEPT !["debugger_signal"] = FALSE]
    /\ Go(p, "unlock")
    /\ UNCHANGED <<address, call, result, mutex>>

ClearApplicationSignal(p) ==
    /\ pc[p] = "inside" /\ op[p] = "clear_application_signal"
    /\ signal' = [signal EXCEPT !["debugee_signal"] = FALSE]
    /\ Go(p, "unlock")
    /\ UNCHANGED <<address, call, result, mutex>>

UpdateAddress(p) ==
    /\ pc[p] = "inside" /\ op[p] = "update_gpu_buffer_address"
    /\ address' = arg[p]
    /\ Go(p, "unlock")
    /\ UNCHANGED <<signal, call, result, mutex>>

GetAddress(p) ==
    /\ pc[p] = "inside" /\ op[p] = "get_app_gpu_buffer_address"
    /\ result' = [result EXCEPT ![p] = address]
    /\ Go(p, "unlock")
    /\ UNCHANGED <<shared, call, mutex>>

WaitIsOverUntested(p) ==
    /\ pc[p] = "inside" /\ op[p] \in Abstract!WaitOps
    /\ Go(p, "unlock")
    /\ UNCHANGED <<shared, call, result, mutex>>

(* condition->wait(lock, pred): the predicate holds and the wait is over,  *)
(* or the process frees the mutex and sleeps, in one step.                 *)
WaitIsOver(p) ==
    /\ pc[p] = "inside" /\ op[p] \in Abstract!WaitOps
    /\ signal[SignalOf(op[p])]
    /\ Go(p, "unlock")
    /\ UNCHANGED <<shared, call, result, mutex>>

Sleep(p) ==
    /\ pc[p] = "inside" /\ op[p] \in Abstract!WaitOps
    /\ ~signal[SignalOf(op[p])]
    /\ mutex' = NoProc
    /\ Go(p, "asleep")
    /\ UNCHANGED <<shared, call, result>>

SpuriousWakeup(p) ==
    /\ pc[p] = "asleep"
    /\ left[p] > 0
    /\ left' = [left EXCEPT ![p] = @ - 1]
    /\ Go(p, "lock")
    /\ UNCHANGED <<shared, op, arg, result, mutex>>

Unlock(p) ==
    /\ pc[p] = "unlock"
    /\ mutex' = NoProc
    /\ Go(p, IF op[p] \in NotifyingOps THEN "notify" ELSE "return")
    /\ UNCHANGED <<shared, call, result>>

-----------------------------------------------------------------------------
Woken == {q \in Procs : pc[q] = "asleep"}

NotifyAll(p) ==
    /\ pc[p] = "notify"
    /\ pc' = [q \in Procs |-> IF q \in Woken THEN "lock" ELSE IF q = p THEN "return" ELSE pc[q]]
    /\ UNCHANGED <<shared, call, result, mutex>>

Return(p) ==
    /\ pc[p] = "return"
    /\ Go(p, "idle")
    /\ UNCHANGED <<shared, call, result, mutex>>

-----------------------------------------------------------------------------
(* The debugger terminates a helper, wherever that is, and launches one.   *)

Terminate(p) ==
    /\ p \in Helpers
    /\ pc[p] # "dead"
    /\ pc[Debugger] = "idle"
    /\ Go(p, "dead")
    /\ mutex' = IF mutex = p THEN Abandoned ELSE mutex
    /\ UNCHANGED <<shared, call, result>>

Launch(p) ==
    /\ pc[p] = "dead"
    /\ pc[Debugger] = "idle"
    /\ Go(p, "idle")
    /\ UNCHANGED <<shared, call, result, mutex>>

NoHelperLeft == \A p \in Helpers : pc[p] = "dead"

(* TearDown and the next SetUp: process_synchro(true, true) removes the    *)
(* shared objects by name and creates new ones.                            *)
SetUp ==
    /\ NoHelperLeft
    /\ pc[Debugger] = "idle"
    /\ signal' = [s \in Abstract!SignalNames |-> FALSE]
    /\ address' = InitialAddress
    /\ mutex' = NoProc
    /\ UNCHANGED <<op, arg, result, pc, left>>

Step(p) ==
    \/ CheckAddress(p) \/ Lock(p)
    \/ NotifyApplication(p) \/ NotifyDebugger(p)
    \/ ClearDebuggerSignal(p) \/ ClearApplicationSignal(p)
    \/ UpdateAddress(p) \/ GetAddress(p)
    \/ WaitIsOver(p) \/ Sleep(p)
    \/ Unlock(p) \/ NotifyAll(p) \/ Return(p)

Next ==
    \/ \E p \in Procs : Call(p) \/ Step(p) \/ SpuriousWakeup(p) \/ Terminate(p) \/ Launch(p)
    \/ SetUp

(* A process runs until its call returns; nobody has to make a call, and   *)
(* a spurious wakeup need not happen.                                      *)
Spec == Init /\ [][Next]_vars /\ \A p \in Procs : WF_vars(Step(p))

-----------------------------------------------------------------------------
PCs == {"idle", "check", "lock", "inside", "asleep", "unlock", "notify", "return", "dead"}

TypeOK ==
    /\ signal \in [Abstract!SignalNames -> BOOLEAN]
    /\ address \in Addresses \cup {NoAddress}
    /\ op \in [Procs -> Abstract!Ops]
    /\ arg \in [Procs -> Addresses]
    /\ result \in [Procs -> Addresses \cup {NoAddress}]
    /\ pc \in [Procs -> PCs]
    /\ mutex \in Procs \cup {NoProc, Abandoned}
    /\ left \in [Procs -> 0..MaxCalls]

(* One process at a time is in the critical section, and none while the    *)
(* mutex is abandoned.                                                     *)
MutualExclusion == \A p \in Procs : pc[p] \in {"inside", "unlock"} => mutex = p

(* A process sleeps on a signal that is set only while somebody is about   *)
(* to notify it: no wakeup is lost, although notify_all is called after    *)
(* the mutex is released.                                                  *)
NoLostWakeup ==
    \A p \in Procs :
        (pc[p] = "asleep" /\ signal[SignalOf(op[p])]) =>
            \E q \in Procs : pc[q] \in {"unlock", "notify"} /\ op[q] \in NotifyingOps

(* get_app_gpu_buffer_address checks the address without the mutex and     *)
(* reads it later: what it returns to the test is never 0.                 *)
CheckedAddressIsSet ==
    \A p \in Procs :
        (op[p] = "get_app_gpu_buffer_address" /\ pc[p] \in {"lock", "inside"}) => address # NoAddress

(* Every call takes effect atomically, and a wait only while its signal    *)
(* is set.                                                                 *)
Implements == Abstract!Spec

InCall(p) == pc[p] \notin {"idle", "dead"}

(* What a process does next waits at most for the mutex.                   *)
MayGoOn(p) ==
    \/ pc[p] \in {"check", "inside", "unlock", "notify", "return"}
    \/ pc[p] = "lock" /\ mutex = NoProc

(* Every call in progress goes on, or queues for a mutex whose holder goes *)
(* on, or sleeps until its signal is set or until the process that set it  *)
(* has notified it; only an abandoned mutex stops a call for good.         *)
NothingStalls ==
    \A p \in Procs : InCall(p) =>
        \/ MayGoOn(p)
        \/ pc[p] = "lock" /\ (mutex = Abandoned \/ (mutex \in Procs /\ MayGoOn(mutex)))
        \/ /\ pc[p] = "asleep"
           /\ signal[SignalOf(op[p])] =>
                  \E q \in Procs : MayGoOn(q) /\ SignalOf(op[q]) = SignalOf(op[p])

(* No call hangs: it returns unless it waits for a signal that is cleared, *)
(* or a helper was terminated with the mutex locked.                       *)
CallsReturn ==
    \A p \in Procs :
        InCall(p) ~>
            \/ ~InCall(p)
            \/ op[p] \in Abstract!WaitOps /\ ~signal[SignalOf(op[p])]
            \/ mutex = Abandoned
=============================================================================
