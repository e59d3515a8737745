---------------------------- MODULE IndirectAccess ----------------------------
(***************************************************************************)
(* The worker indirect_access_Kernel of                                    *)
(* conformance_tests/core/test_multithread/src/                            *)
(* test_allocation_residency_multithread.cpp and the gtest cases that run  *)
(* it.  Every thread builds a linked list in shared memory, launches a     *)
(* kernel that reaches the list only through indirect access (so every     *)
(* shared allocation of the context must stay mapped while any kernel      *)
(* runs), and then meets the other threads at a barrier made of the        *)
(* globals num_count, mtx and cv before it frees its nodes.                *)
(*                                                                         *)
(* The globals belong to the process: two gtest cases run the worker, one  *)
(* after the other, on the same num_count, which nothing resets.           *)
(***************************************************************************)
EXTENDS Integers, FiniteSets

CONSTANTS
    Threads,        \* the threads a test case spawns (num_threads of them)
    thread_iters,   \* kernel launches per thread
    Nodes,          \* allocations per thread, size + 1 in the source
    Tests,          \* gtest cases that run the worker in one process
    Faulty,         \* threads whose kernel the driver may run wrongly
    NoThread        \* mtx when nobody holds it

ASSUME ThreadsAssumption == IsFiniteSet(Threads) /\ Threads # {} /\ NoThread \notin Threads
ASSUME BoundsAssumption == thread_iters \in Nat \ {0} /\ Nodes \in Nat \ {0} /\ Tests \in Nat \ {0}
ASSUME FaultyAssumption == Faulty \subseteq Threads

VARIABLES
    test,       \* number of the running gtest case
    pc,         \* where each thread of the running case is
    iter,       \* the launch loop's counter, per thread
    value,      \* increments the kernel has applied to the thread's list
    nodes,      \* nodes of the thread's list that are allocated
    inflight,   \* threads whose kernel is executing on the device
    num_count,  \* global: arrivals at the barrier since the process started
    mtx,        \* global: the holder of the mutex
    blocked     \* global: threads asleep in cv.wait

vars == <<test, pc, iter, value, nodes, inflight, num_count, mtx, blocked>>
barrier == <<num_count, mtx, blocked>>

num_threads == Cardinality(Threads)

PCs == {"alloc", "launch", "sync", "check", "arrive", "wait", "free", "done", "failed"}

(* The launch loop goes round once more.                                   *)
MoreIterations(i) == i < thread_iters

(* This arrival, the n-th, need not wait for another.                      *)
LastArrivalTooEarly(n) == n >= num_threads - 1
LastArrival(n) == n >= num_threads

NotifyAllForgotten == blocked' = blocked
NotifyAll == blocked' = {}

(* The threads that may still touch allocations through a kernel.          *)
Accessing == {t \in Threads : pc[t] \in {"alloc", "launch", "sync", "check"}}

Init ==
    /\ test = 1
    /\ pc = [t \in Threads |-> "alloc"]
    /\ iter = [t \in Threads |-> 0]
    /\ value = [t \in Threads |-> 0]
    /\ nodes = [t \in Threads |-> 0]
    /\ inflight = {}
    /\ num_count = 0
    /\ mtx = NoThread
    /\ blocked = {}

Allocate(t) ==
    /\ pc[t] = "alloc"
    /\ nodes' = [nodes EXCEPT ![t] = Nodes]
    /\ value' = [value EXCEPT ![t] = 0]
    /\ pc' = [pc EXCEPT ![t] = "launch"]
    /\ UNCHANGED <<test, iter, inflight, barrier>>

(* Create the bundle and the kernel, append, close and execute.            *)
Launch(t) ==
    /\ pc[t] = "launch"
    /\ inflight' = inflight \cup {t}
    /\ pc' = [pc EXCEPT ![t] = "sync"]
    /\ UNCHANGED <<test, iter, value, nodes, barrier>>

(* The device finishes a kernel; a faulty one does not update the list.    *)
KernelCompletes(t) ==
    /\ t \in inflight
    /\ inflight' = inflight \ {t}
    /\ \/ value' = [value EXCEPT ![t] = @ + 1]
       \/ t \in Faulty /\ UNCHANGED value
    /\ UNCHANGED <<test, pc, iter, nodes, barrier>>

Synchronize(t) ==
    /\ pc[t] = "sync"
    /\ t \notin inflight
    /\ pc' = [pc EXCEPT ![t] = "check"]
    /\ UNCHANGED <<test, iter, value, nodes, inflight, barrier>>

(* ASSERT_EQ leaves the worker at once: no arrival, no cleanup.            *)
Check(t) ==
    /\ pc[t] = "check"
    /\ \/ /\ value[t] = iter[t] + 1
          /\ iter' = [iter EXCEPT ![t] = @ + 1]
          /\ pc' = [pc EXCEPT ![t] = IF MoreIterations(iter'[t]) THEN "launch" ELSE "arrive"]
       \/ /\ value[t] # iter[t] + 1
          /\ pc' = [pc EXCEPT ![t] = "failed"]
          /\ UNCHANGED iter
    /\ UNCHANGED <<test, value, nodes, inflight, barrier>>

(* Lock, count, and either sleep (which unlocks) or wake everybody and     *)
(* go on with the mutex held.                                              *)
Arrive(t) ==
    /\ pc[t] = "arrive"
    /\ mtx = NoThread
    /\ num_count' = num_count + 1
    /\ \/ /\ ~LastArrival(num_count')
          /\ blocked' = blocked \cup {t}
          /\ pc' = [pc EXCEPT ![t] = "wait"]
          /\ UNCHANGED mtx
       \/ /\ LastArrival(num_count')
          /\ NotifyAll
          /\ mtx' = t
          /\ pc' = [pc EXCEPT ![t] = "free"]
    /\ UNCHANGED <<test, iter, value, nodes, inflight>>

(* A woken thread takes the mutex back and looks at the predicate again.   *)
Wake(t) ==
    /\ pc[t] = "wait"
    /\ t \notin blocked
    /\ mtx = NoThread
    /\ \/ /\ num_count = num_threads
          /\ mtx' = t
          /\ pc' = [pc EXCEPT ![t] = "free"]
          /\ UNCHANGED blocked
       \/ /\ num_count # num_threads
          /\ blocked' = blocked \cup {t}
          /\ UNCHANGED <<mtx, pc>>
    /\ UNCHANGED <<test, iter, value, nodes, inflight, num_count>>

(* A condition variable may wake a thread nobody notified.                 *)
SpuriousWakeup(t) ==
    /\ t \in blocked
    /\ blocked' = blocked \ {t}
    /\ UNCHANGED <<test, pc, iter, value, nodes, inflight, num_count, mtx>>

(* Free the list node by node; the unique_lock goes with the function.     *)
Free(t) ==
    /\ pc[t] = "free"
    /\ \/ /\ nodes[t] > 0
          /\ nodes' = [nodes EXCEPT ![t] = @ - 1]
          /\ UNCHANGED <<pc, mtx>>
       \/ /\ nodes[t] = 0
          /\ mtx' = NoThread
          /\ pc' = [pc EXCEPT ![t] = "done"]
          /\ UNCHANGED nodes
    /\ UNCHANGED <<test, iter, value, inflight, num_count, blocked>>

AllJoined == \A t \in Threads : pc[t] \in {"done", "failed"}

(* The case joins its threads; the next one spawns new ones.  The globals  *)
(* keep their values.                                                      *)
NextTest ==
    /\ AllJoined
    /\ test < Tests
    /\ test' = test + 1
    /\ pc' = [t \in Threads |-> "alloc"]
    /\ iter' = [t \in Threads |-> 0]
    /\ nodes' = [t \in Threads |-> 0]
    /\ UNCHANGED <<value, inflight, barrier>>

Terminating == AllJoined /\ test = Tests /\ UNCHANGED vars

ThreadStep(t) ==
    \/ Allocate(t) \/ Launch(t) \/ KernelCompletes(t) \/ Synchronize(t) \/ Check(t)
    \/ Arrive(t) \/ Wake(t) \/ Free(t)

Next ==
    \/ \E t \in Threads : ThreadStep(t) \/ SpuriousWakeup(t)
    \/ NextTest
    \/ Terminating

(* Threads are preempted but run again, kernels finish, and a free mutex   *)
(* goes in the end to a thread that keeps asking for it.                   *)
Fairness ==
    /\ \A t \in Threads : WF_vars(ThreadStep(t))
    /\ WF_vars(NextTest)

Spec == Init /\ [][Next]_vars /\ Fairness

-----------------------------------------------------------------------------
(* The type invariant of the worker's locals and of the barrier's globals. *)
TypeOK ==
    /\ test \in 1..Tests
    /\ pc \in [Threads -> PCs]
    /\ iter \in [Threads -> 0..thread_iters]
    /\ value \in [Threads -> Nat]
    /\ nodes \in [Threads -> 0..Nodes]
    /\ inflight \subseteq Threads
    /\ num_count \in Nat
    /\ mtx \in Threads \cup {NoThread}
    /\ blocked \subseteq Threads

(* What the comment at the barrier promises ("wait until all the threads   *)
(* are done accessing allocations indirectly via kernel"): while a thread  *)
(* frees its list, no thread can be running or about to run a kernel.      *)
FreeAfterAllDone ==
    (\E t \in Threads : pc[t] = "free") => Accessing = {} /\ inflight = {}

(* In the first test case of the process the barrier keeps the promise.    *)
FirstCaseFreesAfterAllDone == test = 1 => FreeAfterAllDone

(* No wake-up is lost: once the predicate of cv.wait is true nobody sleeps *)
(* on it, whatever the order of the last arrival and spurious wake-ups.    *)
NoLostWakeup == num_count = num_threads => blocked = {}

(* A thread can do more than fall asleep again.                            *)
MayGoOn(t) ==
    \/ pc[t] \in {"alloc", "launch", "check", "free"}
    \/ pc[t] = "sync" /\ t \notin inflight
    \/ t \in inflight
    \/ pc[t] = "arrive" /\ mtx = NoThread
    \/ pc[t] = "wait" /\ t \notin blocked /\ mtx = NoThread /\ num_count = num_threads

(* Unless a thread has failed its check, nobody is left at the barrier:    *)
(* all have freed their lists, which ends the case, or some thread goes on.*)
NothingStalls ==
    \/ \E t \in Threads : pc[t] = "failed" \/ MayGoOn(t)
    \/ AllJoined /\ \A t \in Threads : nodes[t] = 0

(* Every case ends with all its threads joined and all their lists freed,  *)
(* unless a thread fails its check and leaves the others at the barrier.   *)
AllCasesEnd ==
    <>(\/ test = Tests /\ AllJoined /\ \A t \in Threads : nodes[t] = 0
       \/ \E t \in Threads : pc[t] = "failed")
=============================================================================
