-------------------------- MODULE ProcessSynchroProofs -------------------------
(***************************************************************************)
(* The invariants of ProcessSynchro, and that it implements Signals, for   *)
(* any number of helpers, addresses and calls.                             *)
(***************************************************************************)
EXTENDS ProcessSynchro, TLAPS

(* A call is one its process may make.                                     *)
Roles == \A p \in Procs : InCall(p) => op[p] \in Abstract!OpsOf(p)

(* Only the getter has something to check, and only waiting calls sleep.   *)
Checkers == \A p \in Procs : pc[p] = "check" => op[p] = "get_app_gpu_buffer_address"

SleepersWait == \A p \in Procs : pc[p] = "asleep" => op[p] \in Abstract!WaitOps

(* The notification that is due comes from the process that set the        *)
(* signal; hence a helper that sleeps keeps the debugger, which alone may  *)
(* terminate a helper, inside its call.                                    *)
SetterNotifies ==
    \A p \in Procs :
        (pc[p] = "asleep" /\ signal[SignalOf(op[p])]) =>
            \E q \in Procs : /\ pc[q] \in {"unlock", "notify"}
                             /\ op[q] \in Abstract!SetOps
                             /\ SignalOf(op[q]) = SignalOf(op[p])

IInv ==
    /\ TypeOK
    /\ Roles
    /\ Checkers
    /\ SleepersWait
    /\ MutualExclusion
    /\ SetterNotifies
    /\ CheckedAddressIsSet

USE DEF Procs, SignalOf, Abstract!Procs, Abstract!SignalOf

LEMMA TypeInit == Init => TypeOK
  BY ConstantsAssumption DEF Init, TypeOK, InitialAddress, PCs, Abstract!Ops, Abstract!DebuggerOps

LEMMA TypeStep == TypeOK /\ [Next]_vars => TypeOK'
<1> SUFFICES ASSUME TypeOK, [Next]_vars PROVE TypeOK'
  OBVIOUS
<1> USE ConstantsAssumption
<1>0. CASE UNCHANGED vars
  BY <1>0 DEF TypeOK, vars
<1>1. ASSUME NEW p \in Procs, Call(p) PROVE TypeOK'
  <2>1. PICK o \in Abstract!OpsOf(p), a \in Addresses :
           /\ op' = [op EXCEPT ![p] = o]
           /\ arg' = [arg EXCEPT ![p] = a]
           /\ Go(p, IF o = "get_app_gpu_buffer_address" THEN "check" ELSE "lock")
    BY <1>1 DEF Call
  <2>2. o \in Abstract!Ops
    BY DEF Abstract!Ops, Abstract!OpsOf
  <2>3. op' \in [Procs -> Abstract!Ops] /\ arg' \in [Procs -> Addresses] /\ pc' \in [Procs -> PCs]
    BY <2>1, <2>2 DEF TypeOK, Go, PCs
  <2>4. left' \in [Procs -> 0..MaxCalls]
    BY <1>1 DEF Call, TypeOK
  <2> QED
    BY <1>1, <2>3, <2>4 DEF Call, TypeOK, shared
<1>2. ASSUME NEW p \in Procs, Step(p) PROVE TypeOK'
  <2> USE DEF TypeOK, Go, PCs, shared, call
  <2>1. CASE CheckAddress(p)
    BY <2>1 DEF CheckAddress
  <2>2. CASE Lock(p)
    BY <2>2 DEF Lock
  <2>3. CASE NotifyApplication(p) \/ NotifyDebugger(p) \/ ClearDebuggerSignal(p) \/ ClearApplicationSignal(p)
    <3>1. PICK s \in Abstract!SignalNames, v \in BOOLEAN : signal' = [signal EXCEPT ![s] = v]
      BY <2>3 DEF NotifyApplication, NotifyDebugger, ClearDebuggerSignal, ClearApplicationSignal,
                  Abstract!SignalNames
    <3>2. signal' \in [Abstract!SignalNames -> BOOLEAN]
      BY <3>1
    <3>3. pc' \in [Procs -> PCs] /\ UNCHANGED <<address, call, result, mutex>>
      BY <2>3 DEF NotifyApplication, NotifyDebugger, ClearDebuggerSignal, ClearApplicationSignal
    <3> QED
      BY <3>2, <3>3
  <2>5. CASE UpdateAddress(p) \/ GetAddress(p)
    BY <2>5 DEF UpdateAddress, GetAddress
  <2>6. CASE WaitIsOver(p) \/ Sleep(p)
    BY <2>6 DEF WaitIsOver, Sleep
  <2>7. CASE Unlock(p)
    BY <2>7 DEF Unlock
  <2>8. CASE NotifyAll(p)
    BY <2>8 DEF NotifyAll
  <2>9. CASE Return(p)
    BY <2>9 DEF Return
  <2> QED
    BY <1>2, <2>1, <2>2, <2>3, <2>5, <2>6, <2>7, <2>8, <2>9 DEF Step
<1>3. ASSUME NEW p \in Procs, SpuriousWakeup(p) PROVE TypeOK'
  BY <1>3 DEF SpuriousWakeup, TypeOK, Go, PCs, shared
<1>4. ASSUME NEW p \in Procs, Terminate(p) \/ Launch(p) PROVE TypeOK'
  BY <1>4 DEF Terminate, Launch, TypeOK, Go, PCs, shared, call
<1>5. CASE SetUp
  BY <1>5 DEF SetUp, InitialAddress, TypeOK
<1> QED
  BY <1>0, <1>1, <1>2, <1>3, <1>4, <1>5 DEF Next

(* Types of the shared values and of each process's call, whatever happens. *)
THEOREM TypeCorrect == Spec => []TypeOK
  BY TypeInit, TypeStep, PTL DEF Spec

-----------------------------------------------------------------------------
(* One lemma per invariant.                                                *)

LEMMA RolesStep == TypeOK /\ Roles /\ SleepersWait /\ [Next]_vars => Roles' /\ SleepersWait'
<1> SUFFICES ASSUME TypeOK, Roles, SleepersWait, [Next]_vars PROVE Roles' /\ SleepersWait'
  OBVIOUS
<1> USE ConstantsAssumption DEF Roles, SleepersWait, InCall, TypeOK, Go
<1>0. CASE UNCHANGED vars
  BY <1>0 DEF vars
<1>1. ASSUME NEW p \in Procs, Call(p) PROVE Roles' /\ SleepersWait'
  <2>1. PICK o \in Abstract!OpsOf(p) :
           /\ op' = [op EXCEPT ![p] = o]
           /\ Go(p, IF o = "get_app_gpu_buffer_address" THEN "check" ELSE "lock")
    BY <1>1 DEF Call
  <2>2. op'[p] = o /\ pc'[p] # "asleep" /\ \A q \in Procs \ {p} : op'[q] = op[q] /\ pc'[q] = pc[q]
    BY <2>1
  <2> QED
    BY <2>1, <2>2
<1>2. ASSUME NEW p \in Procs, Step(p) PROVE Roles' /\ SleepersWait'
  <2>1. op' = op
    BY <1>2 DEF Step, CheckAddress, Lock, NotifyApplication, NotifyDebugger, ClearDebuggerSignal,
                ClearApplicationSignal, UpdateAddress, GetAddress, WaitIsOver, Sleep, Unlock, NotifyAll,
                Return, call
  <2>2. InCall(p)
    BY <1>2 DEF Step, CheckAddress, Lock, NotifyApplication, NotifyDebugger, ClearDebuggerSignal,
                ClearApplicationSignal, UpdateAddress, GetAddress, WaitIsOver, Sleep, Unlock, NotifyAll,
                Return
  <2>3. pc'[p] = "asleep" => op[p] \in Abstract!WaitOps
    BY <1>2 DEF Step, CheckAddress, Lock, NotifyApplication, NotifyDebugger, ClearDebuggerSignal,
                ClearApplicationSignal, UpdateAddress, GetAddress, WaitIsOver, Sleep, Unlock, NotifyAll,
                Return, Woken
  <2>4. \A q \in Procs \ {p} : pc'[q] # pc[q] => pc[q] = "asleep" /\ pc'[q] = "lock"
    BY <1>2 DEF Step, CheckAddress, Lock, NotifyApplication, NotifyDebugger, ClearDebuggerSignal,
                ClearApplicationSignal, UpdateAddress, GetAddress, WaitIsOver, Sleep, Unlock, NotifyAll,
                Return, Woken
  <2> QED
    BY <2>1, <2>2, <2>3, <2>4
<1>3. ASSUME NEW p \in Procs, SpuriousWakeup(p) PROVE Roles' /\ SleepersWait'
  BY <1>3 DEF SpuriousWakeup
<1>4. ASSUME NEW p \in Procs, Terminate(p) \/ Launch(p) PROVE Roles' /\ SleepersWait'
  BY <1>4 DEF Terminate, Launch, call
<1>5. CASE SetUp
  BY <1>5 DEF SetUp
<1> QED
  BY <1>0, <1>1, <1>2, <1>3, <1>4, <1>5 DEF Next

LEMMA CheckersStep == TypeOK /\ Checkers /\ [Next]_vars => Checkers'
<1> SUFFICES ASSUME TypeOK, Checkers, [Next]_vars PROVE Checkers'
  OBVIOUS
<1> USE ConstantsAssumption DEF Checkers, TypeOK, Go
<1>0. CASE UNCHANGED vars
  BY <1>0 DEF vars
<1>1. ASSUME NEW p \in Procs, Call(p) PROVE Checkers'
  <2>1. PICK o \in Abstract!OpsOf(p) :
           /\ op' = [op EXCEPT ![p] = o]
           /\ Go(p, IF o = "get_app_gpu_buffer_address" THEN "check" ELSE "lock")
    BY <1>1 DEF Call
  <2> QED
    BY <2>1
<1>2. ASSUME NEW p \in Procs, Step(p) PROVE Checkers'
  <2>1. op' = op
    BY <1>2 DEF Step, CheckAddress, Lock, NotifyApplication, NotifyDebugger, ClearDebuggerSignal,
                ClearApplicationSignal, UpdateAddress, GetAddress, WaitIsOver, Sleep, Unlock, NotifyAll,
                Return, call
  <2>2. \A q \in Procs : pc'[q] = "check" => pc[q] = "check"
    BY <1>2 DEF Step, CheckAddress, Lock, NotifyApplication, NotifyDebugger, ClearDebuggerSignal,
                ClearApplicationSignal, UpdateAddress, GetAddress, WaitIsOver, Sleep, Unlock, NotifyAll,
                Return
  <2> QED
    BY <2>1, <2>2
<1>3. ASSUME NEW p \in Procs, SpuriousWakeup(p) PROVE Checkers'
  BY <1>3 DEF SpuriousWakeup
<1>4. ASSUME NEW p \in Procs, Terminate(p) \/ Launch(p) PROVE Checkers'
  BY <1>4 DEF Terminate, Launch, call
<1>5. CASE SetUp
  BY <1>5 DEF SetUp
<1> QED
  BY <1>0, <1>1, <1>2, <1>3, <1>4, <1>5 DEF Next

LEMMA MutualExclusionStep == TypeOK /\ MutualExclusion /\ [Next]_vars => MutualExclusion'
<1> SUFFICES ASSUME TypeOK, MutualExclusion, [Next]_vars PROVE MutualExclusion'
  OBVIOUS
<1> USE ConstantsAssumption DEF MutualExclusion, TypeOK, Go
<1>0. CASE UNCHANGED vars
  BY <1>0 DEF vars
<1>1. ASSUME NEW p \in Procs, Call(p) PROVE MutualExclusion'
  <2>1. pc'[p] \in {"check", "lock"} /\ mutex' = mutex /\ \A q \in Procs \ {p} : pc'[q] = pc[q]
    BY <1>1 DEF Call
  <2> QED
    BY <2>1
<1>2. ASSUME NEW p \in Procs, Step(p) PROVE MutualExclusion'
  <2>1. CASE CheckAddress(p) \/ Return(p)
    BY <2>1 DEF CheckAddress, Return
  <2>2. CASE Lock(p)
    BY <2>2 DEF Lock
  <2>3. CASE \/ NotifyApplication(p) \/ NotifyDebugger(p) \/ ClearDebuggerSignal(p)
             \/ ClearApplicationSignal(p) \/ UpdateAddress(p) \/ GetAddress(p) \/ WaitIsOver(p)
    BY <2>3 DEF NotifyApplication, NotifyDebugger, ClearDebuggerSignal, ClearApplicationSignal,
                UpdateAddress, GetAddress, WaitIsOver
  <2>4. CASE Sleep(p) \/ Unlock(p)
    BY <2>4 DEF Sleep, Unlock
  <2>5. CASE NotifyAll(p)
    BY <2>5 DEF NotifyAll, Woken
  <2> QED
    BY <1>2, <2>1, <2>2, <2>3, <2>4, <2>5 DEF Step
<1>3. ASSUME NEW p \in Procs, SpuriousWakeup(p) PROVE MutualExclusion'
  BY <1>3 DEF SpuriousWakeup
<1>4. ASSUME NEW p \in Procs, Terminate(p) \/ Launch(p) PROVE MutualExclusion'
  BY <1>4 DEF Terminate, Launch
<1>5. CASE SetUp
  BY <1>5 DEF SetUp, NoHelperLeft
<1> QED
  BY <1>0, <1>1, <1>2, <1>3, <1>4, <1>5 DEF Next

(* p sleeps on a set signal and q is about to notify it.                   *)
Notifies(q, p) ==
    /\ pc[q] \in {"unlock", "notify"}
    /\ op[q] \in Abstract!SetOps
    /\ SignalOf(op[q]) = SignalOf(op[p])

LEMMA SleepingHelperNeedsDebugger ==
  ASSUME TypeOK, Roles, SleepersWait,
         NEW p \in Helpers, pc[p] = "asleep", NEW q \in Procs, Notifies(q, p)
  PROVE  q = Debugger
<1> USE ConstantsAssumption
<1>1. op[p] = "wait_for_debugger_signal"
  BY DEF Roles, SleepersWait, InCall, Abstract!OpsOf, Abstract!WaitOps, Abstract!HelperOps
<1>2. op[q] = "notify_application" /\ InCall(q)
  BY <1>1 DEF Notifies, Abstract!SetOps, InCall
<1> QED
  BY <1>2 DEF Roles, Abstract!OpsOf, Abstract!HelperOps

LEMMA SetterNotifiesStep ==
  TypeOK /\ Roles /\ SleepersWait /\ SetterNotifies /\ [Next]_vars => SetterNotifies'
<1> SUFFICES ASSUME TypeOK, Roles, SleepersWait, SetterNotifies, [Next]_vars,
                    NEW p \in Procs, (pc[p] = "asleep")', signal'[SignalOf(op'[p])]
             PROVE  \E q \in Procs : Notifies(q, p)'
  BY DEF SetterNotifies, Notifies
<1> USE ConstantsAssumption DEF TypeOK, Go
<1>a. ASSUME pc[p] = "asleep", signal[SignalOf(op[p])]
      PROVE  \E q \in Procs : Notifies(q, p)
  BY <1>a DEF SetterNotifies, Notifies
<1>0. CASE UNCHANGED vars
  BY <1>0, <1>a DEF vars, Notifies
<1>1. ASSUME NEW r \in Procs, Call(r) PROVE \E q \in Procs : Notifies(q, p)'
  <2>1. PICK o \in Abstract!OpsOf(r) :
           /\ op' = [op EXCEPT ![r] = o]
           /\ Go(r, IF o = "get_app_gpu_buffer_address" THEN "check" ELSE "lock")
    BY <1>1 DEF Call
  <2>2. pc[r] = "idle" /\ pc'[r] # "asleep" /\ UNCHANGED signal
        /\ \A q \in Procs \ {r} : op'[q] = op[q] /\ pc'[q] = pc[q]
    BY <1>1, <2>1 DEF Call, shared
  <2>3. PICK q \in Procs : Notifies(q, p)
    BY <2>2, <1>a
  <2>4. p # r /\ q # r
    BY <2>2, <2>3 DEF Notifies
  <2> QED
    BY <2>2, <2>3, <2>4 DEF Notifies
<1>2. ASSUME NEW r \in Procs, Step(r) PROVE \E q \in Procs : Notifies(q, p)'
  <2>1. CASE CheckAddress(r) \/ Lock(r) \/ Return(r) \/ UpdateAddress(r) \/ GetAddress(r) \/ WaitIsOver(r)
    <3>1. pc[r] \notin {"unlock", "notify"} /\ pc'[r] # "asleep" /\ UNCHANGED <<signal, op>>
          /\ \A q \in Procs \ {r} : pc'[q] = pc[q]
      BY <2>1 DEF CheckAddress, Lock, Return, UpdateAddress, GetAddress, WaitIsOver, shared, call
    <3>2. PICK q \in Procs : Notifies(q, p)
      BY <3>1, <1>a
    <3> QED
      BY <3>1, <3>2 DEF Notifies
  <2>2. CASE NotifyApplication(r) \/ NotifyDebugger(r)
    <3>1. pc[r] = "inside" /\ pc'[r] = "unlock" /\ op[r] \in Abstract!SetOps /\ UNCHANGED op
          /\ \A q \in Procs \ {r} : pc'[q] = pc[q]
      BY <2>2 DEF NotifyApplication, NotifyDebugger, call, Abstract!SetOps
    <3>2. \A s \in Abstract!SignalNames \ {SignalOf(op[r])} : signal'[s] = signal[s]
      BY <2>2 DEF NotifyApplication, NotifyDebugger, Abstract!SignalNames
    <3>3. CASE SignalOf(op[p]) = SignalOf(op[r])
      BY <3>1, <3>3 DEF Notifies
    <3>4. CASE SignalOf(op[p]) # SignalOf(op[r])
      <4>1. signal[SignalOf(op[p])]
        BY <3>1, <3>2, <3>4 DEF Abstract!SignalNames
      <4>2. PICK q \in Procs : Notifies(q, p)
        BY <3>1, <4>1, <1>a
      <4> QED
        BY <3>1, <4>2 DEF Notifies
    <3> QED
      BY <3>3, <3>4
  <2>3. CASE ClearDebuggerSignal(r) \/ ClearApplicationSignal(r)
    <3>1. pc[r] = "inside" /\ pc'[r] = "unlock" /\ UNCHANGED op /\ \A q \in Procs \ {r} : pc'[q] = pc[q]
      BY <2>3 DEF ClearDebuggerSignal, ClearApplicationSignal, call
    <3>2. signal'[SignalOf(op[p])] => signal[SignalOf(op[p])]
      BY <2>3 DEF ClearDebuggerSignal, ClearApplicationSignal, Abstract!SignalNames
    <3>3. PICK q \in Procs : Notifies(q, p)
      BY <3>1, <3>2, <1>a
    <3> QED
      BY <3>1, <3>3 DEF Notifies
  <2>4. CASE Sleep(r)
    <3>1. p # r
      BY <2>4 DEF Sleep, shared, call
    <3>2. PICK q \in Procs : Notifies(q, p)
      BY <2>4, <3>1, <1>a DEF Sleep, shared, call
    <3> QED
      BY <2>4, <3>1, <3>2 DEF Sleep, Notifies, shared, call
  <2>5. CASE Unlock(r)
    <3>1. PICK q \in Procs : Notifies(q, p)
      BY <2>5, <1>a DEF Unlock, shared, call
    <3>2. op[q] \in NotifyingOps
      BY <3>1 DEF Notifies, NotifyingOps
    <3> QED
      BY <2>5, <3>1, <3>2 DEF Unlock, Notifies, shared, call
  <2>6. CASE NotifyAll(r)
    BY <2>6 DEF NotifyAll, Woken
  <2> QED
    BY <1>2, <2>1, <2>2, <2>3, <2>4, <2>5, <2>6 DEF Step
<1>3. ASSUME NEW r \in Procs, SpuriousWakeup(r) PROVE \E q \in Procs : Notifies(q, p)'
  <2>1. p # r
    BY <1>3 DEF SpuriousWakeup
  <2>2. PICK q \in Procs : Notifies(q, p)
    BY <1>3, <2>1, <1>a DEF SpuriousWakeup, shared
  <2> QED
    BY <1>3, <2>1, <2>2 DEF SpuriousWakeup, Notifies, shared
<1>4. ASSUME NEW r \in Procs, Terminate(r) \/ Launch(r) PROVE \E q \in Procs : Notifies(q, p)'
  <2>1. pc[Debugger] = "idle" /\ p # r /\ pc[p] = "asleep" /\ UNCHANGED <<signal, op>>
    BY <1>4 DEF Terminate, Launch, shared, call
  <2>2. PICK q \in Procs : Notifies(q, p)
    BY <2>1, <1>a
  <2>3. q = Debugger
    BY <2>1, <2>2, SleepingHelperNeedsDebugger
  <2> QED
    BY <2>1, <2>2, <2>3 DEF Notifies
<1>5. CASE SetUp
  BY <1>5 DEF SetUp, Abstract!SignalNames
<1> QED
  BY <1>0, <1>1, <1>2, <1>3, <1>4, <1>5 DEF Next

LEMMA CheckedAddressStep ==
  TypeOK /\ Roles /\ SleepersWait /\ CheckedAddressIsSet /\ [Next]_vars => CheckedAddressIsSet'
<1> SUFFICES ASSUME TypeOK, Roles, SleepersWait, CheckedAddressIsSet, [Next]_vars PROVE CheckedAddressIsSet'
  OBVIOUS
<1> USE ConstantsAssumption DEF CheckedAddressIsSet, TypeOK, Go
<1>a. \A p \in Procs : pc[p] = "asleep" => op[p] # "get_app_gpu_buffer_address"
  BY DEF SleepersWait, Abstract!WaitOps
<1>0. CASE UNCHANGED vars
  BY <1>0 DEF vars
<1>1. ASSUME NEW p \in Procs, Call(p) PROVE CheckedAddressIsSet'
  <2>1. PICK o \in Abstract!OpsOf(p) :
           /\ op' = [op EXCEPT ![p] = o]
           /\ Go(p, IF o = "get_app_gpu_buffer_address" THEN "check" ELSE "lock")
    BY <1>1 DEF Call
  <2>2. ~(op'[p] = "get_app_gpu_buffer_address" /\ pc'[p] \in {"lock", "inside"})
        /\ UNCHANGED address /\ \A q \in Procs \ {p} : op'[q] = op[q] /\ pc'[q] = pc[q]
    BY <1>1, <2>1 DEF Call, shared
  <2> QED
    BY <2>2
<1>2. ASSUME NEW p \in Procs, Step(p) PROVE CheckedAddressIsSet'
  <2>1. CASE CheckAddress(p)
    BY <2>1 DEF CheckAddress, shared, call
  <2>2. CASE UpdateAddress(p)
    <3>1. address' # NoAddress
      BY <2>2 DEF UpdateAddress
    <3> QED
      BY <3>1
  <2>3. CASE NotifyAll(p)
    <3>1. /\ UNCHANGED <<address, op>>
          /\ \A q \in Procs : pc'[q] \in {"lock", "inside"} => pc[q] \in {"asleep", "lock", "inside"}
      BY <2>3 DEF NotifyAll, Woken, shared, call
    <3> QED
      BY <3>1, <1>a
  <2> QED
    BY <1>2, <2>1, <2>2, <2>3
    DEF Step, Lock, Return, GetAddress, WaitIsOver, NotifyApplication, NotifyDebugger,
        ClearDebuggerSignal, ClearApplicationSignal, Sleep, Unlock, shared, call
<1>3. ASSUME NEW p \in Procs, SpuriousWakeup(p) PROVE CheckedAddressIsSet'
  BY <1>3, <1>a DEF SpuriousWakeup, shared
<1>4. ASSUME NEW p \in Procs, Terminate(p) \/ Launch(p) PROVE CheckedAddressIsSet'
  BY <1>4 DEF Terminate, Launch, shared, call
<1>5. CASE SetUp
  BY <1>5 DEF SetUp, NoHelperLeft
<1> QED
  BY <1>0, <1>1, <1>2, <1>3, <1>4, <1>5 DEF Next

-----------------------------------------------------------------------------
LEMMA Inductive == (Init => IInv) /\ (IInv /\ [Next]_vars => IInv')
<1>1. Init => IInv
  <2> SUFFICES ASSUME Init PROVE IInv
    OBVIOUS
  <2>1. TypeOK
    BY TypeInit
  <2>2. \A p \in Procs : pc[p] \in {"idle", "dead"}
    BY DEF Init
  <2> QED
    BY <2>1, <2>2 DEF IInv, Roles, Checkers, SleepersWait, MutualExclusion, SetterNotifies, CheckedAddressIsSet, InCall
<1>2. IInv /\ [Next]_vars => IInv'
  BY TypeStep, RolesStep, CheckersStep, MutualExclusionStep, SetterNotifiesStep, CheckedAddressStep DEF IInv
<1> QED
  BY <1>1, <1>2

LEMMA Invariant == Spec => []IInv
  BY Inductive, PTL DEF Spec

(* The critical sections exclude each other, also when helpers are         *)
(* terminated inside them.                                                 *)
THEOREM SectionsExclude == Spec => []MutualExclusion
<1>1. IInv => MutualExclusion
  BY DEF IInv
<1> QED
  BY <1>1, Invariant, PTL

(* notify_all after the mutex is released loses no wakeup, also when       *)
(* helpers are terminated before they call it.                             *)
THEOREM WakeupsAreNotLost == Spec => []NoLostWakeup
<1>1. IInv => NoLostWakeup
  BY DEF IInv, SetterNotifies, NoLostWakeup, NotifyingOps
<1> QED
  BY <1>1, Invariant, PTL

(* The mutex is held from the lock to the unlock or the sleep of a call.   *)
HolderInside == mutex \in Procs => pc[mutex] \in {"inside", "unlock"}

LEMMA HolderInsideStep == TypeOK /\ HolderInside /\ [Next]_vars => HolderInside'
<1> SUFFICES ASSUME TypeOK, HolderInside, [Next]_vars PROVE HolderInside'
  OBVIOUS
<1> USE ConstantsAssumption DEF HolderInside, TypeOK, Go
<1>0. CASE UNCHANGED vars
  BY <1>0 DEF vars
<1>1. ASSUME NEW p \in Procs, Call(p) PROVE HolderInside'
  <2>1. pc[p] = "idle" /\ mutex' = mutex /\ \A q \in Procs \ {p} : pc'[q] = pc[q]
    BY <1>1 DEF Call
  <2> QED
    BY <2>1
<1>2. ASSUME NEW p \in Procs, Step(p) PROVE HolderInside'
  <2>1. CASE CheckAddress(p) \/ Return(p)
    BY <2>1 DEF CheckAddress, Return
  <2>2. CASE Lock(p)
    BY <2>2 DEF Lock
  <2>3. CASE \/ NotifyApplication(p) \/ NotifyDebugger(p) \/ ClearDebuggerSignal(p)
             \/ ClearApplicationSignal(p) \/ UpdateAddress(p) \/ GetAddress(p) \/ WaitIsOver(p)
    BY <2>3 DEF NotifyApplication, NotifyDebugger, ClearDebuggerSignal, ClearApplicationSignal,
                UpdateAddress, GetAddress, WaitIsOver
  <2>4. CASE Sleep(p) \/ Unlock(p)
    BY <2>4 DEF Sleep, Unlock
  <2>5. CASE NotifyAll(p)
    BY <2>5 DEF NotifyAll, Woken
  <2> QED
    BY <1>2, <2>1, <2>2, <2>3, <2>4, <2>5 DEF Step
<1>3. ASSUME NEW p \in Procs, SpuriousWakeup(p) PROVE HolderInside'
  BY <1>3 DEF SpuriousWakeup
<1>4. ASSUME NEW p \in Procs, Terminate(p) \/ Launch(p) PROVE HolderInside'
  BY <1>4 DEF Terminate, Launch
<1>5. CASE SetUp
  BY <1>5 DEF SetUp
<1> QED
  BY <1>0, <1>1, <1>2, <1>3, <1>4, <1>5 DEF Next

(* No call waits for something nobody is about to do, except for a signal  *)
(* that nobody has set and for a mutex its holder was terminated with.     *)
THEOREM CallsNeverStall == Spec => []NothingStalls
<1>1. Init => HolderInside
  BY ConstantsAssumption DEF Init, HolderInside
<1>2. IInv /\ HolderInside /\ [Next]_vars => HolderInside'
  BY HolderInsideStep DEF IInv
<1>3. IInv /\ HolderInside => NothingStalls
  <2> SUFFICES ASSUME IInv, HolderInside, NEW p \in Procs, InCall(p), ~MayGoOn(p)
               PROVE  \/ pc[p] = "lock" /\ (mutex = Abandoned \/ (mutex \in Procs /\ MayGoOn(mutex)))
                      \/ /\ pc[p] = "asleep"
                         /\ signal[SignalOf(op[p])] =>
                                \E q \in Procs : MayGoOn(q) /\ SignalOf(op[q]) = SignalOf(op[p])
    BY DEF NothingStalls
  <2>1. pc[p] = "asleep" \/ (pc[p] = "lock" /\ mutex # NoProc)
    BY DEF MayGoOn, InCall, IInv, TypeOK, PCs
  <2>2. CASE pc[p] = "lock" /\ mutex # NoProc
    BY <2>2 DEF IInv, TypeOK, HolderInside, MayGoOn
  <2>3. CASE pc[p] = "asleep"
    BY <2>3 DEF IInv, SetterNotifies, MayGoOn
  <2> QED
    BY <2>1, <2>2, <2>3
<1> QED
  BY Invariant, <1>1, <1>2, <1>3, PTL DEF Spec

(* Between the unlocked check of the address and its locked read the       *)
(* address cannot become 0 again.                                          *)
THEOREM CheckedAddressStays == Spec => []CheckedAddressIsSet
<1>1. IInv => CheckedAddressIsSet
  BY DEF IInv
<1> QED
  BY <1>1, Invariant, PTL

-----------------------------------------------------------------------------
(* Refinement: the step that decides a call is the step in which it takes  *)
(* effect, all others change nothing Signals sees.                         *)

LEMMA InitRefines == Init => Abstract!Init
<1> SUFFICES ASSUME Init PROVE Abstract!Init
  OBVIOUS
<1>1. stage = [p \in Procs |-> IF p = Debugger THEN "idle" ELSE "dead"]
  BY DEF Init, stage, StageOf
<1> QED
  BY <1>1 DEF Init, InitialAddress, Abstract!Init, Abstract!Ops, Abstract!DebuggerOps

LEMMA StageMoves ==
  ASSUME TypeOK, NEW p \in Procs, NEW l \in PCs, pc' = [pc EXCEPT ![p] = l]
  PROVE  stage' = [stage EXCEPT ![p] = StageOf(l)]
  BY DEF TypeOK, stage

LEMMA StageStays ==
  ASSUME TypeOK, pc' \in [Procs -> PCs], \A p \in Procs : StageOf(pc'[p]) = StageOf(pc[p])
  PROVE  stage' = stage
  BY DEF TypeOK, stage

LEMMA StepRefines == TypeOK /\ Checkers /\ [Next]_vars => [Abstract!Next]_(Abstract!vars)
<1> SUFFICES ASSUME TypeOK, Checkers, [Next]_vars PROVE Abstract!Next \/ UNCHANGED Abstract!vars
  OBVIOUS
<1> USE DEF Abstract!vars, Go
<1>0. CASE UNCHANGED vars
  BY <1>0 DEF vars, stage
<1>1. ASSUME NEW p \in Procs, Call(p) PROVE Abstract!Call(p)
  <2>1. PICK o \in Abstract!OpsOf(p), a \in Addresses :
           /\ op' = [op EXCEPT ![p] = o]
           /\ arg' = [arg EXCEPT ![p] = a]
           /\ Go(p, IF o = "get_app_gpu_buffer_address" THEN "check" ELSE "lock")
    BY <1>1 DEF Call
  <2>2. PICK l \in {"check", "lock"} : pc' = [pc EXCEPT ![p] = l]
    BY <2>1
  <2>3. l \in PCs /\ StageOf(l) = "called" /\ pc[p] = "idle"
    BY <1>1, <2>2 DEF PCs, StageOf, Call
  <2>4. stage' = [stage EXCEPT ![p] = "called"] /\ stage[p] = "idle"
    BY <2>2, <2>3, StageMoves DEF stage, StageOf
  <2> QED
    BY <1>1, <2>1, <2>4 DEF Call, shared, Abstract!Call
<1>2. ASSUME NEW p \in Procs, Step(p)
      PROVE  Abstract!Next \/ UNCHANGED Abstract!vars
  <2>1. CASE Lock(p) \/ Sleep(p) \/ Unlock(p)
    <3>1. pc' \in [Procs -> PCs] /\ \A q \in Procs : StageOf(pc'[q]) = StageOf(pc[q])
      BY <2>1 DEF Lock, Sleep, Unlock, TypeOK, PCs, StageOf
    <3>2. stage' = stage
      BY <3>1, StageStays
    <3> QED
      BY <2>1, <3>2 DEF Lock, Sleep, Unlock, shared, call
  <2>2. CASE NotifyAll(p)
    <3>1. pc' \in [Procs -> PCs] /\ \A q \in Procs : StageOf(pc'[q]) = StageOf(pc[q])
      BY <2>2 DEF NotifyAll, Woken, TypeOK, PCs, StageOf
    <3>2. stage' = stage
      BY <3>1, StageStays
    <3> QED
      BY <2>2, <3>2 DEF NotifyAll, shared, call
  <2>3. CASE Return(p)
    <3>1. stage' = [stage EXCEPT ![p] = "idle"] /\ stage[p] = "done"
      BY <2>3, StageMoves DEF Return, PCs, StageOf, stage
    <3>2. Abstract!Return(p)
      BY <2>3, <3>1 DEF Return, shared, call, Abstract!Return
    <3> QED
      BY <3>2 DEF Abstract!Next
  <2>4. CASE CheckAddress(p)
    <3>1. pc[p] = "check" /\ UNCHANGED <<shared, call>>
      BY <2>4 DEF CheckAddress
    <3>2. CASE address = NoAddress
      <4>1. stage' = [stage EXCEPT ![p] = "done"] /\ stage[p] = "called"
        BY <2>4, <3>2, StageMoves DEF CheckAddress, PCs, StageOf, stage
      <4>2. result' = [result EXCEPT ![p] = address]
        BY <2>4, <3>2 DEF CheckAddress
      <4>3. op[p] = "get_app_gpu_buffer_address"
        BY <3>1 DEF Checkers
      <4>4. Abstract!Get(p)
        BY <3>1, <4>1, <4>2, <4>3 DEF shared, call, Abstract!Get, Abstract!TakeEffect
      <4> QED
        BY <4>4 DEF Abstract!Next
    <3>3. CASE address # NoAddress
      <4>1. stage' = [stage EXCEPT ![p] = "called"] /\ stage[p] = "called"
        BY <2>4, <3>3, StageMoves DEF CheckAddress, PCs, StageOf, stage
      <4>2. stage' = stage
        BY <4>1 DEF stage
      <4>3. result' = result
        BY <2>4, <3>3 DEF CheckAddress, TypeOK
      <4> QED
        BY <3>1, <4>2, <4>3 DEF shared, call
    <3> QED
      BY <3>2, <3>3
  <2>5. CASE \/ NotifyApplication(p) \/ NotifyDebugger(p) \/ ClearDebuggerSignal(p)
             \/ ClearApplicationSignal(p) \/ UpdateAddress(p) \/ GetAddress(p) \/ WaitIsOver(p)
    <3>1. pc[p] = "inside" /\ pc' = [pc EXCEPT ![p] = "unlock"] /\ UNCHANGED call
      BY <2>5 DEF NotifyApplication, NotifyDebugger, ClearDebuggerSignal, ClearApplicationSignal,
                  UpdateAddress, GetAddress, WaitIsOver
    <3>2. stage' = [stage EXCEPT ![p] = "done"] /\ stage[p] = "called"
      BY <3>1, StageMoves DEF PCs, StageOf, stage
    <3>3. Abstract!TakeEffect(p)
      BY <3>1, <3>2 DEF call, Abstract!TakeEffect
    <3>4. CASE NotifyApplication(p) \/ NotifyDebugger(p)
      BY <3>3, <3>4 DEF NotifyApplication, NotifyDebugger, Abstract!Set, Abstract!SetOps, Abstract!Next
    <3>5. CASE ClearDebuggerSignal(p) \/ ClearApplicationSignal(p)
      BY <3>3, <3>5 DEF ClearDebuggerSignal, ClearApplicationSignal, Abstract!Clear, Abstract!ClearOps, Abstract!Next
    <3>6. CASE UpdateAddress(p)
      BY <3>3, <3>6 DEF UpdateAddress, Abstract!Update, Abstract!Next
    <3>7. CASE GetAddress(p)
      BY <3>3, <3>7 DEF GetAddress, shared, Abstract!Get, Abstract!Next
    <3>8. CASE WaitIsOver(p)
      BY <3>3, <3>8 DEF WaitIsOver, shared, Abstract!Wait, Abstract!Next
    <3> QED
      BY <2>5, <3>4, <3>5, <3>6, <3>7, <3>8
  <2> QED
    BY <1>2, <2>1, <2>2, <2>3, <2>4, <2>5 DEF Step
<1>3. ASSUME NEW p \in Procs, SpuriousWakeup(p) PROVE UNCHANGED Abstract!vars
  <2>1. pc' \in [Procs -> PCs] /\ \A q \in Procs : StageOf(pc'[q]) = StageOf(pc[q])
    BY <1>3 DEF SpuriousWakeup, TypeOK, PCs, StageOf
  <2>2. stage' = stage
    BY <2>1, StageStays
  <2> QED
    BY <1>3, <2>2 DEF SpuriousWakeup, shared
<1>4. ASSUME NEW p \in Procs, Terminate(p) PROVE Abstract!Terminate(p)
  <2>1. stage' = [stage EXCEPT ![p] = "dead"] /\ stage[p] # "dead" /\ stage[Debugger] = "idle"
    BY <1>4, StageMoves DEF Terminate, PCs, StageOf, stage, TypeOK
  <2> QED
    BY <1>4, <2>1 DEF Terminate, shared, call, Abstract!Terminate
<1>5. ASSUME NEW p \in Procs, Launch(p) PROVE Abstract!Launch(p)
  <2>1. stage' = [stage EXCEPT ![p] = "idle"] /\ stage[p] = "dead" /\ stage[Debugger] = "idle"
    BY <1>5, StageMoves DEF Launch, PCs, StageOf, stage
  <2> QED
    BY <1>5, <2>1 DEF Launch, shared, call, Abstract!Launch
<1>6. CASE SetUp
  BY <1>6 DEF SetUp, NoHelperLeft, InitialAddress, stage, StageOf, Abstract!SetUp, Abstract!Next
<1> QED
  BY <1>0, <1>1, <1>2, <1>3, <1>4, <1>5, <1>6 DEF Next, Abstract!Next

(* ProcessSynchro implements Signals: every call takes effect at one       *)
(* instant, a wait only while its signal is set, and a getter returns the  *)
(* address of one instant although it looks twice.                         *)
THEOREM CallsAreAtomic == Spec => Implements
<1>1. IInv /\ [Next]_vars => [Abstract!Next]_(Abstract!vars)
  BY StepRefines DEF IInv
<1> QED
  BY <1>1, InitRefines, Invariant, PTL DEF Spec, Implements, Abstract!Spec
=============================================================================
