---------------------------- MODULE SharedEventSync ----------------------------
(***************************************************************************)
(* ThreadSharedEventSync of conformance_tests/core/test_multithread/src/   *)
(* test_event_multithread.cpp: threads that share one in-order command     *)
(* queue and num_events events meet twice per iteration.                   *)
(*                                                                         *)
(* In the device half one of them makes the device signal every event but  *)
(* the last; all wait for those on the host and count themselves in        *)
(* thread_count; the last to count resets them and signals the last event, *)
(* which opens the second half.  In the host half every thread makes the   *)
(* device wait for every event but the first, one of them signals these    *)
(* from the host, all count, and the last resets them, rearms both flags   *)
(* and signals event 0, which opens the next iteration.                    *)
(*                                                                         *)
(* The driver is external: a queue executes its lists in order, and a      *)
(* synchronize returns when what was pending at the call is done.          *)
(***************************************************************************)
EXTENDS Integers, Sequences, FiniteSets

CONSTANTS
    Threads,          \* num_threads of them
    num_events,
    num_iterations,
    NoThread          \* event_mutex when nobody holds it

ASSUME ThreadsAssumption == IsFiniteSet(Threads) /\ Threads # {} /\ NoThread \notin Threads
ASSUME BoundsAssumption == num_events \in Nat /\ num_events >= 2 /\ num_iterations \in Nat \ {0}

VARIABLES
    pc,                     \* where each thread is
    iter,                   \* i of the thread's loop
    idx,                    \* index of the thread's innermost loop
    behind,                 \* submissions the thread's synchronize still waits for
    signaled,               \* events in the signalled state
    queue,                  \* lists submitted to cmd_queue and not complete
    signal_device_event, signal_host_event, thread_count, event_mutex

vars == <<pc, iter, idx, behind, signaled, queue,
          signal_device_event, signal_host_event, thread_count, event_mutex>>
globals == <<signal_device_event, signal_host_event, thread_count, event_mutex>>
locals == <<iter, idx, behind>>

num_threads == Cardinality(Threads)
last == num_events - 1

Events == 0..last
DeviceEvents == 0..last - 1     \* signalled by the device, waited for by the host
HostEvents == 1..last           \* signalled by the host, waited for by the device

PCs == {"deviceHalf", "execute", "hostWait", "sync1", "drain1", "count1", "reset1", "waitLast",
        "executeWait", "hostHalf", "hostSignal", "sync2", "drain2", "count2", "reset2", "waitFirst",
        "sync3", "drain3", "done"}

(* A submitted list: signal commands still to run (from next on), or one   *)
(* wait for HostEvents.  An empty list completes at once and is left out.  *)
Lists == [op : {"signal", "wait"}, by : Threads, next : Events]

Go(t, p) == pc' = [pc EXCEPT ![t] = p]

Init ==
    /\ pc = [t \in Threads |-> "deviceHalf"]
    /\ iter = [t \in Threads |-> 0]
    /\ idx = [t \in Threads |-> 0]
    /\ behind = [t \in Threads |-> 0]
    /\ signaled = {}
    /\ queue = <<>>
    /\ signal_device_event = TRUE
    /\ signal_host_event = TRUE
    /\ thread_count = 0
    /\ event_mutex = NoThread

-----------------------------------------------------------------------------
(* The device half.                                                        *)

(* The thread that finds the flag set appends the signals to its list.     *)
ClaimDeviceSignal(t) ==
    /\ pc[t] = "deviceHalf"
    /\ event_mutex = NoThread
    /\ Go(t, IF signal_device_event THEN "execute" ELSE "hostWait")
    /\ signal_device_event' = FALSE
    /\ idx' = [idx EXCEPT ![t] = 0]
    /\ UNCHANGED <<iter, behind, signaled, queue, signal_host_event, thread_count, event_mutex>>

ExecuteSignals(t) ==
    /\ pc[t] = "execute"
    /\ queue' = Append(queue, [op |-> "signal", by |-> t, next |-> 0])
    /\ Go(t, "hostWait")
    /\ UNCHANGED <<locals, signaled, globals>>

(* One zeEventHostSynchronize of the loop over DeviceEvents.               *)
HostWait(t) ==
    /\ pc[t] = "hostWait"
    /\ idx[t] \in signaled
    /\ idx' = [idx EXCEPT ![t] = @ + 1]
    /\ Go(t, IF idx[t] = last - 1 THEN "sync1" ELSE "hostWait")
    /\ UNCHANGED <<iter, behind, signaled, queue, globals>>

-----------------------------------------------------------------------------
(* zeCommandQueueSynchronize at its three places in the loop.              *)

SyncPoints == {"sync1", "sync2", "sync3"}
DrainOf == [sync1 |-> "drain1", sync2 |-> "drain2", sync3 |-> "drain3"]
AfterDrain == [drain1 |-> "count1", drain2 |-> "count2"]

DrainedNotAwaited(t) == TRUE
Drained(t) == behind[t] = 0

SyncCall(t) ==
    /\ pc[t] \in SyncPoints
    /\ Go(t, DrainOf[pc[t]])
    /\ behind' = [behind EXCEPT ![t] = Len(queue)]
    /\ UNCHANGED <<iter, idx, signaled, queue, globals>>

SyncReturn(t) ==
    /\ pc[t] \in DOMAIN AfterDrain
    /\ Drained(t)
    /\ Go(t, AfterDrain[pc[t]])
    /\ UNCHANGED <<locals, signaled, queue, globals>>

(* After the third one the list is destroyed and the loop goes round.      *)
NextIteration(t) ==
    /\ pc[t] = "drain3"
    /\ Drained(t)
    /\ iter' = [iter EXCEPT ![t] = @ + 1]
    /\ Go(t, IF iter[t] + 1 < num_iterations THEN "deviceHalf" ELSE "done")
    /\ UNCHANGED <<idx, behind, signaled, queue, globals>>

-----------------------------------------------------------------------------
(* Counting: the last thread keeps the mutex and resets the events of the  *)
(* half, the others go on to wait for the event that opens the next half.  *)

AllCountedTooEarly(n) == n >= num_threads - 1
AllCounted(n) == n = num_threads

ZeroCount == thread_count' = 0

RearmOneFlag == signal_device_event' = TRUE /\ UNCHANGED signal_host_event
Rearm == signal_device_event' = TRUE /\ signal_host_event' = TRUE

Count(t, at, reset, first, wait) ==
    /\ pc[t] = at
    /\ event_mutex = NoThread
    /\ thread_count' = thread_count + 1
    /\ \/ /\ AllCounted(thread_count')
          /\ Go(t, reset) /\ event_mutex' = t /\ idx' = [idx EXCEPT ![t] = first]
       \/ /\ ~AllCounted(thread_count')
          /\ Go(t, wait) /\ UNCHANGED <<event_mutex, idx>>
    /\ UNCHANGED <<iter, behind, signaled, queue, signal_device_event, signal_host_event>>

CountDeviceHalf(t) == Count(t, "count1", "reset1", 0, "waitLast")
CountHostHalfFromZero(t) == Count(t, "count2", "reset2", 0, "waitFirst")
CountHostHalfFromTwo(t) == Count(t, "count2", "reset2", 2, "waitFirst")
CountHostHalf(t) == Count(t, "count2", "reset2", 1, "waitFirst")

(* One turn of the reset loop; the query before it expects "signalled".    *)
ResetOne(t) ==
    /\ \/ pc[t] = "reset1" /\ idx[t] < last
       \/ pc[t] = "reset2" /\ idx[t] <= last
    /\ signaled' = signaled \ {idx[t]}
    /\ idx' = [idx EXCEPT ![t] = @ + 1]
    /\ UNCHANGED <<pc, iter, behind, queue, globals>>

OpenHostHalf(t) ==
    /\ pc[t] = "reset1" /\ idx[t] = last
    /\ ZeroCount
    /\ signaled' = signaled \cup {last}
    /\ event_mutex' = NoThread
    /\ Go(t, "waitLast")
    /\ UNCHANGED <<locals, queue, signal_device_event, signal_host_event>>

OpenNextIteration(t) ==
    /\ pc[t] = "reset2" /\ idx[t] = num_events
    /\ Rearm
    /\ ZeroCount
    /\ signaled' = signaled \cup {0}
    /\ event_mutex' = NoThread
    /\ Go(t, "waitFirst")
    /\ UNCHANGED <<locals, queue>>

WaitLast(t) ==
    /\ pc[t] = "waitLast"
    /\ last \in signaled
    /\ Go(t, "executeWait")
    /\ UNCHANGED <<locals, signaled, queue, globals>>

WaitFirst(t) ==
    /\ pc[t] = "waitFirst"
    /\ 0 \in signaled
    /\ Go(t, "sync3")
    /\ UNCHANGED <<locals, signaled, queue, globals>>

-----------------------------------------------------------------------------
(* The host half.                                                          *)

ExecuteWait(t) ==
    /\ pc[t] = "executeWait"
    /\ queue' = Append(queue, [op |-> "wait", by |-> t, next |-> 1])
    /\ Go(t, "hostHalf")
    /\ UNCHANGED <<locals, signaled, globals>>

ClaimHostSignal(t) ==
    /\ pc[t] = "hostHalf"
    /\ event_mutex = NoThread
    /\ \/ signal_host_event /\ Go(t, "hostSignal") /\ event_mutex' = t
       \/ ~signal_host_event /\ Go(t, "sync2") /\ UNCHANGED event_mutex
    /\ signal_host_event' = FALSE
    /\ idx' = [idx EXCEPT ![t] = 1]
    /\ UNCHANGED <<iter, behind, signaled, queue, signal_device_event, thread_count>>

HostSignal(t) ==
    /\ pc[t] = "hostSignal"
    /\ signaled' = signaled \cup {idx[t]}
    /\ idx' = [idx EXCEPT ![t] = @ + 1]
    /\ \/ idx[t] = last /\ Go(t, "sync2") /\ event_mutex' = NoThread
       \/ idx[t] # last /\ UNCHANGED <<pc, event_mutex>>
    /\ UNCHANGED <<iter, behind, queue, signal_device_event, signal_host_event, thread_count>>

-----------------------------------------------------------------------------
(* The driver: the list at the head of the queue runs.                     *)

Retire ==
    /\ queue' = Tail(queue)
    /\ behind' = [t \in Threads |-> IF behind[t] > 0 THEN behind[t] - 1 ELSE 0]

DeviceSignal ==
    /\ queue # <<>>
    /\ queue[1].op = "signal"
    /\ signaled' = signaled \cup {queue[1].next}
    /\ \/ queue[1].next = last - 1 /\ Retire
       \/ /\ queue[1].next # last - 1
          /\ queue' = [queue EXCEPT ![1].next = @ + 1]
          /\ UNCHANGED behind
    /\ UNCHANGED <<pc, iter, idx, globals>>

DeviceWait ==
    /\ queue # <<>>
    /\ queue[1].op = "wait"
    /\ HostEvents \subseteq signaled
    /\ Retire
    /\ UNCHANGED <<pc, iter, idx, signaled, globals>>

-----------------------------------------------------------------------------
Terminating == (\A t \in Threads : pc[t] = "done") /\ UNCHANGED vars

ThreadStep(t) ==
    \/ ClaimDeviceSignal(t) \/ ExecuteSignals(t) \/ HostWait(t)
    \/ SyncCall(t) \/ SyncReturn(t) \/ NextIteration(t)
    \/ CountDeviceHalf(t) \/ CountHostHalf(t)
    \/ ResetOne(t) \/ OpenHostHalf(t) \/ OpenNextIteration(t) \/ WaitLast(t) \/ WaitFirst(t)
    \/ ExecuteWait(t) \/ ClaimHostSignal(t) \/ HostSignal(t)

Device == DeviceSignal \/ DeviceWait

Next == (\E t \in Threads : ThreadStep(t)) \/ Device \/ Terminating

(* Every thread that can run does in the end, and so does the device.      *)
Fairness == (\A t \in Threads : WF_vars(ThreadStep(t))) /\ WF_vars(Device)

Spec == Init /\ [][Next]_vars /\ Fairness

-----------------------------------------------------------------------------
TypeOK ==
    /\ pc \in [Threads -> PCs]
    /\ iter \in [Threads -> Nat]
    /\ idx \in [Threads -> 0..num_events]
    /\ behind \in [Threads -> Nat]
    /\ signaled \subseteq Events
    /\ queue \in Seq(Lists)
    /\ signal_device_event \in BOOLEAN
    /\ signal_host_event \in BOOLEAN
    /\ thread_count \in 0..num_threads
    /\ event_mutex \in Threads \cup {NoThread}

(* A thread resets the events of a half only when every other thread has   *)
(* counted itself and waits for the event that opens the next half, so no  *)
(* thread can still be waiting for an event that is being reset.           *)
ResetAlone ==
    \A t, u \in Threads : t # u =>
        /\ pc[t] = "reset1" => pc[u] = "waitLast"
        /\ pc[t] = "reset2" => pc[u] = "waitFirst"

(* While events are being reset no list is pending on the shared queue, so *)
(* no signal of this half can arrive after the reset and be taken for one  *)
(* of the next (the code synchronizes the queue before it counts).         *)
NoLateSignal == (\E t \in Threads : pc[t] \in {"reset1", "reset2"}) => queue = <<>>

(* query_event, called on each event before its reset, expects it to be    *)
(* signalled.                                                              *)
QueryFindsSignal ==
    \A t \in Threads :
        /\ pc[t] = "reset1" => idx[t]..last - 1 \subseteq signaled
        /\ pc[t] = "reset2" => idx[t]..last \subseteq signaled

(* What each half has yet to signal.                                       *)
DeviceYetToSignal(e) ==
    \/ e \in DeviceEvents /\ (signal_device_event \/ \E t \in Threads : pc[t] = "execute")
    \/ \E i \in 1..Len(queue) : queue[i].op = "signal" /\ e \in queue[i].next..last - 1

HostYetToSignal(e) ==
    \/ e \in HostEvents /\ signal_host_event /\ \E t \in Threads : pc[t] \in {"executeWait", "hostHalf"}
    \/ \E t \in Threads : pc[t] = "hostSignal" /\ e \in idx[t]..last

(* An event that a half has yet to signal still has no signal of an        *)
(* earlier half, so a wait for it is answered by its own half.  The two    *)
(* exceptions are in the code: the signals that open a half, of event 0    *)
(* (:433) and of the last event (:402), are left set and also satisfy the  *)
(* host's wait for event 0 (:387) and the device's for the last (:408).    *)
NoStaleSignal ==
    \A e \in signaled : (DeviceYetToSignal(e) => e = 0) /\ (HostYetToSignal(e) => e = last)

(* What a thread's next call waits for: the mutex, an event, the queue.    *)
MayGoOn(t) ==
    /\ pc[t] # "done"
    /\ pc[t] \in {"deviceHalf", "count1", "hostHalf", "count2"} => event_mutex = NoThread
    /\ pc[t] = "hostWait" => idx[t] \in signaled
    /\ pc[t] \in {"drain1", "drain2", "drain3"} => Drained(t)
    /\ pc[t] = "waitLast" => last \in signaled
    /\ pc[t] = "waitFirst" => 0 \in signaled

DeviceMayGoOn ==
    /\ queue # <<>>
    /\ queue[1].op = "wait" => HostEvents \subseteq signaled

(* Until every thread has run all its iterations, some thread's wait is    *)
(* over or the device can go on with the list at the head of the queue.    *)
NothingStalls ==
    \/ \A t \in Threads : pc[t] = "done" /\ iter[t] = num_iterations
    \/ \E t \in Threads : MayGoOn(t)
    \/ DeviceMayGoOn

(* Every thread runs all its iterations: no wait of the host or of the     *)
(* device is left without its signal.                                      *)
AllThreadsFinish == <>(\A t \in Threads : pc[t] = "done" /\ iter[t] = num_iterations)
=============================================================================
