------------------------- MODULE IndirectAccessProofs -------------------------
(***************************************************************************)
(* Proofs about IndirectAccess, for any set of threads, any number of      *)
(* launches and any thread whose kernel misbehaves.                        *)
(*                                                                         *)
(* In the first case num_count counts the arrivals (BarrierInv).  A later  *)
(* case starts from zero or from num_threads (CountInv); in the second way *)
(* nobody waits at the barrier, which then protects nothing but also holds *)
(* nobody back.                                                            *)
(***************************************************************************)
EXTENDS IndirectAccess, FiniteSetTheorems, TLAPS

(* A thread that may still launch or check has iterations left.            *)
LoopInv == \A t \in Accessing : iter[t] < thread_iters

TypeInv == TypeOK /\ LoopInv

(* Threads that have counted themselves at the barrier.                    *)
Arrived == {t \in Threads : pc[t] \in {"wait", "free", "done"}}

(* In the first test case num_count counts exactly the arrived threads, a  *)
(* thread past the barrier has seen them all, and a kernel runs only for a *)
(* thread that waits for it.                                               *)
BarrierInv ==
    /\ num_count = Cardinality(Arrived)
    /\ (\E t \in Threads : pc[t] \in {"free", "done"}) => Arrived = Threads
    /\ \A t \in inflight : pc[t] = "sync"

-----------------------------------------------------------------------------
(* Initially every variable has its type.                                  *)
LEMMA TypeInit == Init => TypeInv
  BY BoundsAssumption DEF Init, TypeInv, TypeOK, LoopInv, Accessing, PCs

(* Every step of every case keeps the types and the loop bound.            *)
LEMMA TypeStep == TypeInv /\ [Next]_vars => TypeInv'
<1> SUFFICES ASSUME TypeInv, [Next]_vars PROVE TypeInv'
  OBVIOUS
<1> USE BoundsAssumption DEF MoreIterations, TypeInv, TypeOK, LoopInv, Accessing, PCs
<1>1. ASSUME NEW t \in Threads, Allocate(t) PROVE TypeInv'
  BY <1>1 DEF Allocate, barrier
<1>2. ASSUME NEW t \in Threads, Launch(t) PROVE TypeInv'
  BY <1>2 DEF Launch, barrier
<1>3. ASSUME NEW t \in Threads, KernelCompletes(t) PROVE TypeInv'
  BY <1>3 DEF KernelCompletes, barrier
<1>4. ASSUME NEW t \in Threads, Synchronize(t) PROVE TypeInv'
  BY <1>4 DEF Synchronize, barrier
<1>5. ASSUME NEW t \in Threads, Check(t) PROVE TypeInv'
  BY <1>5 DEF Check, barrier
<1>6. ASSUME NEW t \in Threads, Arrive(t) PROVE TypeInv'
  BY <1>6 DEF Arrive, NotifyAll
<1>7. ASSUME NEW t \in Threads, Wake(t) PROVE TypeInv'
  BY <1>7 DEF Wake
<1>8. ASSUME NEW t \in Threads, SpuriousWakeup(t) PROVE TypeInv'
  BY <1>8 DEF SpuriousWakeup
<1>9. ASSUME NEW t \in Threads, Free(t) PROVE TypeInv'
  BY <1>9 DEF Free
<1>10. CASE NextTest
  BY <1>10 DEF NextTest, barrier
<1>11. CASE UNCHANGED vars
  BY <1>11 DEF vars
<1> QED
  BY <1>1, <1>2, <1>3, <1>4, <1>5, <1>6, <1>7, <1>8, <1>9, <1>10, <1>11
     DEF Next, ThreadStep, Terminating

(* The type invariant of the worker holds in every case, for every number  *)
(* of threads, launches, nodes and cases.                                  *)
THEOREM TypeCorrect == Spec => []TypeOK
<1>1. TypeInv => TypeOK
  BY DEF TypeInv
<1> QED
  BY TypeInit, TypeStep, <1>1, PTL DEF Spec

-----------------------------------------------------------------------------
(* No wake-up is lost: the last arrival clears the set of sleepers, and a  *)
(* thread goes back to sleep only while the predicate is false.            *)
THEOREM WakeupsAreNotLost == Spec => []NoLostWakeup
<1>1. Init => NoLostWakeup
  BY DEF Init, NoLostWakeup
<1>2. TypeOK /\ NoLostWakeup /\ [Next]_vars => NoLostWakeup'
  <2> SUFFICES ASSUME TypeOK, NoLostWakeup, [Next]_vars PROVE NoLostWakeup'
    OBVIOUS
  <2> USE DEF NoLostWakeup, num_threads, TypeOK
  <2>1. ASSUME NEW t \in Threads, Arrive(t) PROVE NoLostWakeup'
    <3>1. Cardinality(Threads) \in Nat
      BY ThreadsAssumption, FS_CardinalityType
    <3> QED
      BY <2>1, <3>1 DEF Arrive, LastArrival, NotifyAll
  <2>2. ASSUME NEW t \in Threads, Wake(t) PROVE NoLostWakeup'
    BY <2>2 DEF Wake
  <2>3. ASSUME NEW t \in Threads, SpuriousWakeup(t) PROVE NoLostWakeup'
    BY <2>3 DEF SpuriousWakeup
  <2>4. ASSUME UNCHANGED <<num_count, blocked>> PROVE NoLostWakeup'
    BY <2>4
  <2> QED
    BY <2>1, <2>2, <2>3, <2>4
       DEF Next, ThreadStep, Terminating, vars, barrier, Allocate, Launch,
           KernelCompletes, Synchronize, Check, Free, NextTest
<1> QED
  BY TypeCorrect, <1>1, <1>2, PTL DEF Spec

-----------------------------------------------------------------------------
(* A step that leaves the barrier's program counters, the count and the    *)
(* kernels alone keeps the invariant.                                      *)
LEMMA BarrierFrame ==
    ASSUME BarrierInv, Arrived' = Arrived, num_count' = num_count,
           inflight' \subseteq inflight,
           \A t \in Threads : pc[t] \in {"free", "done"} <=> pc'[t] \in {"free", "done"},
           \A t \in inflight' : pc'[t] = "sync"
    PROVE  BarrierInv'
  BY DEF BarrierInv

(* A set of threads as large as the set of all threads is all of them.     *)
LEMMA CountedAll ==
    ASSUME NEW S \in SUBSET Threads, Cardinality(S) >= num_threads
    PROVE  S = Threads
<1>1. Cardinality(S) <= Cardinality(Threads)
  BY ThreadsAssumption, FS_Subset
<1>2. Cardinality(S) \in Nat /\ Cardinality(Threads) \in Nat
  BY ThreadsAssumption, FS_Subset, FS_CardinalityType
<1>3. Cardinality(Threads) = Cardinality(S)
  BY <1>1, <1>2 DEF num_threads
<1> QED
  BY <1>3, ThreadsAssumption, FS_Subset

(* While the first case runs, the barrier counts every arrival exactly     *)
(* once.                                                                   *)
LEMMA BarrierStep ==
    ASSUME TypeInv, BarrierInv, [Next]_vars, test = 1, test' = 1
    PROVE  BarrierInv'
<1> USE DEF TypeInv, TypeOK, PCs
<1>1. ASSUME NEW t \in Threads, Allocate(t) PROVE BarrierInv'
  BY <1>1, BarrierFrame DEF Allocate, barrier, Arrived, BarrierInv
<1>2. ASSUME NEW t \in Threads, Launch(t) PROVE BarrierInv'
  BY <1>2 DEF Launch, barrier, Arrived, BarrierInv
<1>3. ASSUME NEW t \in Threads, KernelCompletes(t) PROVE BarrierInv'
  BY <1>3, BarrierFrame DEF KernelCompletes, barrier, Arrived, BarrierInv
<1>4. ASSUME NEW t \in Threads, Synchronize(t) PROVE BarrierInv'
  BY <1>4, BarrierFrame DEF Synchronize, barrier, Arrived, BarrierInv
<1>5. ASSUME NEW t \in Threads, Check(t) PROVE BarrierInv'
  BY <1>5, BarrierFrame DEF Check, barrier, Arrived, BarrierInv
<1>6. ASSUME NEW t \in Threads, Arrive(t) PROVE BarrierInv'
  <2>1. Arrived' = Arrived \cup {t} /\ t \notin Arrived
    BY <1>6 DEF Arrive, Arrived
  <2>2. IsFiniteSet(Arrived)
    BY ThreadsAssumption, FS_Subset DEF Arrived
  <2>3. num_count' = Cardinality(Arrived')
    BY <1>6, <2>1, <2>2, FS_AddElement DEF Arrive, BarrierInv
  <2>4. \A u \in inflight' : pc'[u] = "sync"
    BY <1>6 DEF Arrive, BarrierInv
  <2>5. Arrived # Threads
    BY <2>1
  <2>6. CASE pc' = [pc EXCEPT ![t] = "wait"]
    <3>1. \A u \in Threads : pc'[u] \notin {"free", "done"}
      BY <2>5, <2>6 DEF BarrierInv
    <3> QED
      BY <2>3, <2>4, <3>1 DEF BarrierInv
  <2>7. CASE num_count' >= num_threads
    <3>1. Arrived' \in SUBSET Threads
      BY DEF Arrived
    <3>2. Arrived' = Threads
      BY <2>3, <2>7, <3>1, CountedAll
    <3> QED
      BY <2>3, <2>4, <3>2 DEF BarrierInv
  <2> QED
    BY <1>6, <2>6, <2>7 DEF Arrive, LastArrival
<1>7. ASSUME NEW t \in Threads, Wake(t) PROVE BarrierInv'
  <2>1. Arrived' = Arrived /\ num_count' = num_count /\ inflight' = inflight
    BY <1>7 DEF Wake, Arrived
  <2>2. \A u \in inflight' : pc'[u] = "sync"
    BY <1>7 DEF Wake, BarrierInv
  <2>3. CASE num_count = num_threads
    <3>1. Cardinality(Threads) \in Nat
      BY ThreadsAssumption, FS_CardinalityType
    <3>2. Arrived \in SUBSET Threads /\ Cardinality(Arrived) >= num_threads
      BY <2>3, <3>1 DEF Arrived, BarrierInv, num_threads
    <3> QED
      BY <2>1, <2>2, <3>2, CountedAll DEF BarrierInv
  <2>4. CASE num_count # num_threads
    BY <1>7, <2>1, <2>2, <2>4 DEF Wake, BarrierInv
  <2> QED
    BY <2>3, <2>4
<1>8. ASSUME NEW t \in Threads, SpuriousWakeup(t) PROVE BarrierInv'
  BY <1>8, BarrierFrame DEF SpuriousWakeup, Arrived, BarrierInv
<1>9. ASSUME NEW t \in Threads, Free(t) PROVE BarrierInv'
  BY <1>9, BarrierFrame DEF Free, Arrived, BarrierInv
<1>10. ~NextTest
  BY BoundsAssumption DEF NextTest
<1>11. CASE UNCHANGED vars
  BY <1>11, BarrierFrame DEF vars, Arrived, BarrierInv
<1> QED
  BY <1>1, <1>2, <1>3, <1>4, <1>5, <1>6, <1>7, <1>8, <1>9, <1>10, <1>11
     DEF Next, ThreadStep, Terminating

(* In the first test case of a process no thread frees its list before     *)
(* every thread is done with its kernels: the comment at the barrier.      *)
THEOREM BarrierIsSafe == Spec => []FirstCaseFreesAfterAllDone
<1> DEFINE FirstCase == test = 1 => BarrierInv
<1>1. Init => FirstCase
  <2> SUFFICES ASSUME Init PROVE BarrierInv
    OBVIOUS
  <2>1. Arrived = {}
    BY DEF Init, Arrived
  <2> QED
    BY <2>1, FS_EmptySet DEF Init, BarrierInv
<1>2. TypeInv /\ FirstCase /\ [Next]_vars => FirstCase'
  <2> SUFFICES ASSUME TypeInv, FirstCase, [Next]_vars, test' = 1 PROVE BarrierInv'
    OBVIOUS
  <2>1. test = 1
    <3>1. CASE NextTest
      BY <3>1 DEF NextTest, TypeInv, TypeOK
    <3>2. CASE test' = test
      BY <3>2
    <3> QED
      BY <3>1, <3>2
         DEF Next, ThreadStep, Terminating, vars, Allocate, Launch, KernelCompletes,
             Synchronize, Check, Arrive, Wake, SpuriousWakeup, Free
  <2> QED
    BY <2>1, BarrierStep
<1>3. TypeInv /\ FirstCase => FirstCaseFreesAfterAllDone
  BY DEF TypeInv, TypeOK, BarrierInv, FirstCaseFreesAfterAllDone, FreeAfterAllDone, Arrived, Accessing
<1> HIDE DEF FirstCase
<1> QED
  BY TypeInit, TypeStep, <1>1, <1>2, <1>3, PTL DEF Spec

-----------------------------------------------------------------------------
(* Over all cases: num_count counts the arrivals of the running case from  *)
(* zero, when no case before it got past its barrier, or it had reached    *)
(* num_threads before, and then nobody waits any more.                     *)
CountInv ==
    \/ /\ num_count = Cardinality(Arrived)
       /\ (\E t \in Threads : pc[t] \in {"free", "done"}) => Arrived = Threads
    \/ /\ num_count >= num_threads + Cardinality(Arrived)
       /\ \A t \in Threads : pc[t] # "wait"

(* The mutex is kept only by a thread that frees its list, and a thread    *)
(* leaves with an empty list.                                              *)
HoldInv ==
    /\ mtx # NoThread => pc[mtx] = "free"
    /\ \A t \in Threads : pc[t] = "done" => nodes[t] = 0

LEMMA ArrivedFacts ==
    /\ Arrived \in SUBSET Threads /\ IsFiniteSet(Arrived) /\ Cardinality(Arrived) \in Nat
    /\ num_threads \in Nat
    /\ Arrived = Threads => Cardinality(Arrived) = num_threads
<1>1. Arrived \in SUBSET Threads
  BY DEF Arrived
<1> QED
  BY <1>1, ThreadsAssumption, FS_Subset, FS_CardinalityType DEF num_threads

(* A step that moves nobody to or past the barrier.                        *)
LEMMA CountFrame ==
    ASSUME CountInv, num_count' = num_count, NEW t \in Threads,
           \A u \in Threads : u # t => pc'[u] = pc[u],
           \/ pc'[t] = pc[t]
           \/ pc[t] \notin {"wait", "free", "done"} /\ pc'[t] \notin {"wait", "free", "done"}
           \/ pc[t] = "free" /\ pc'[t] = "done"
    PROVE  CountInv'
<1>1. Arrived' = Arrived
  BY DEF Arrived
<1> QED
  BY <1>1 DEF CountInv

LEMMA CountStep ==
    ASSUME TypeInv, CountInv, [Next]_vars
    PROVE  CountInv'
<1> USE DEF TypeInv, TypeOK, PCs
<1>1. ASSUME NEW t \in Threads, Allocate(t) \/ Launch(t) \/ KernelCompletes(t) \/ Synchronize(t)
      PROVE  CountInv'
  BY <1>1, CountFrame DEF Allocate, Launch, KernelCompletes, Synchronize, barrier
<1>2. ASSUME NEW t \in Threads, Check(t) PROVE CountInv'
  BY <1>2, CountFrame DEF Check, barrier
<1>3. ASSUME NEW t \in Threads, Arrive(t) PROVE CountInv'
  <2>1. Arrived' = Arrived \cup {t} /\ t \notin Arrived
    BY <1>3 DEF Arrive, Arrived
  <2>2. Cardinality(Arrived') = Cardinality(Arrived) + 1
    BY <2>1, ArrivedFacts, FS_AddElement
  <2>3. /\ pc'[t] \in {"wait", "free"} /\ num_count' = num_count + 1
        /\ \A u \in Threads : u # t => pc'[u] = pc[u]
        /\ pc'[t] = "free" <=> num_count' >= num_threads
    BY <1>3 DEF Arrive, LastArrival
  <2>4. CASE /\ num_count = Cardinality(Arrived)
             /\ (\E u \in Threads : pc[u] \in {"free", "done"}) => Arrived = Threads
    <3>1. \A u \in Threads : pc[u] \notin {"free", "done"}
      BY <2>1, <2>4
    <3>2. num_count' = Cardinality(Arrived')
      BY <2>2, <2>3, <2>4
    <3>3. ASSUME pc'[t] = "free" PROVE Arrived' = Threads
      <4>1. Arrived' \in SUBSET Threads
        BY DEF Arrived
      <4> QED
        BY <2>3, <3>2, <3>3, <4>1, CountedAll
    <3> QED
      BY <2>3, <3>1, <3>2, <3>3 DEF CountInv
  <2>5. CASE num_count >= num_threads + Cardinality(Arrived) /\ \A u \in Threads : pc[u] # "wait"
    <3>1. num_count' >= num_threads + Cardinality(Arrived') /\ num_count' >= num_threads
      BY <2>2, <2>3, <2>5, ArrivedFacts
    <3> QED
      BY <2>3, <2>5, <3>1 DEF CountInv
  <2> QED
    BY <2>4, <2>5 DEF CountInv
<1>4. ASSUME NEW t \in Threads, Wake(t) PROVE CountInv'
  <2>1. Arrived' = Arrived /\ num_count' = num_count /\ pc[t] = "wait"
    BY <1>4 DEF Wake, Arrived
  <2>2. num_count = Cardinality(Arrived) /\ ((\E u \in Threads : pc[u] \in {"free", "done"}) => Arrived = Threads)
    BY <2>1 DEF CountInv
  <2>3. CASE num_count = num_threads
    <3>1. Arrived = Threads
      <4>1. Arrived \in SUBSET Threads /\ Cardinality(Arrived) >= num_threads
        BY <2>2, <2>3, ArrivedFacts
      <4> QED
        BY <4>1, CountedAll
    <3> QED
      BY <2>1, <2>2, <3>1 DEF CountInv
  <2>4. CASE num_count # num_threads
    BY <1>4, <2>1, <2>2, <2>4 DEF Wake, CountInv
  <2> QED
    BY <2>3, <2>4
<1>5. ASSUME NEW t \in Threads, SpuriousWakeup(t) \/ Free(t) PROVE CountInv'
  BY <1>5, CountFrame DEF SpuriousWakeup, Free
<1>6. CASE NextTest
  <2>1. Arrived' = {} /\ Cardinality({}) = 0
    BY <1>6, FS_EmptySet DEF NextTest, Arrived
  <2>2. num_count' = num_count /\ \A t \in Threads : pc'[t] = "alloc"
    BY <1>6 DEF NextTest, barrier
  <2>3. CASE \E t \in Threads : pc[t] = "done"
    <3>1. num_count >= num_threads
      BY <2>3, ArrivedFacts DEF CountInv
    <3> QED
      BY <2>1, <2>2, <3>1, ArrivedFacts DEF CountInv
  <2>4. CASE \A t \in Threads : pc[t] # "done"
    <3>1. Arrived = {}
      BY <1>6, <2>4 DEF NextTest, AllJoined, Arrived
    <3> QED
      BY <2>1, <2>2, <3>1 DEF CountInv
  <2> QED
    BY <2>3, <2>4
<1>7. CASE UNCHANGED vars
  BY <1>7 DEF vars, CountInv, Arrived
<1> QED
  BY <1>1, <1>2, <1>3, <1>4, <1>5, <1>6, <1>7 DEF Next, ThreadStep, Terminating

LEMMA HoldStep ==
    ASSUME TypeInv, HoldInv, [Next]_vars
    PROVE  HoldInv'
<1> USE ThreadsAssumption DEF TypeInv, TypeOK, PCs, HoldInv, barrier
<1>1. ASSUME NEW t \in Threads, Allocate(t) \/ Launch(t) \/ KernelCompletes(t) \/ Synchronize(t)
      PROVE  HoldInv'
  BY <1>1 DEF Allocate, Launch, KernelCompletes, Synchronize
<1>2. ASSUME NEW t \in Threads, Check(t) PROVE HoldInv'
  BY <1>2 DEF Check
<1>3. ASSUME NEW t \in Threads, Arrive(t) PROVE HoldInv'
  BY <1>3 DEF Arrive
<1>4. ASSUME NEW t \in Threads, Wake(t) PROVE HoldInv'
  BY <1>4 DEF Wake
<1>5. ASSUME NEW t \in Threads, SpuriousWakeup(t) PROVE HoldInv'
  BY <1>5 DEF SpuriousWakeup
<1>6. ASSUME NEW t \in Threads, Free(t) PROVE HoldInv'
  BY <1>6 DEF Free
<1>7. CASE NextTest
  BY <1>7 DEF NextTest, AllJoined
<1>8. CASE UNCHANGED vars
  BY <1>8 DEF vars
<1> QED
  BY <1>1, <1>2, <1>3, <1>4, <1>5, <1>6, <1>7, <1>8 DEF Next, ThreadStep, Terminating

(* In every case of the process, nobody is left at the barrier unless a    *)
(* thread has failed its check: the count the cases before have left       *)
(* behind lets threads past the barrier too early, but strands none.       *)
THEOREM NobodyIsLeftWaiting == Spec => []NothingStalls
<1>1. Init => CountInv /\ HoldInv
  <2> SUFFICES ASSUME Init PROVE CountInv /\ HoldInv
    OBVIOUS
  <2>1. Arrived = {}
    BY DEF Init, Arrived
  <2> QED
    BY <2>1, FS_EmptySet DEF Init, CountInv, HoldInv
<1>2. TypeInv /\ CountInv /\ HoldInv /\ [Next]_vars => CountInv' /\ HoldInv'
  BY CountStep, HoldStep
<1>3. TypeInv /\ CountInv /\ HoldInv /\ NoLostWakeup => NothingStalls
  <2> SUFFICES ASSUME TypeInv, CountInv, HoldInv, NoLostWakeup,
                      \A t \in Threads : pc[t] # "failed" /\ ~MayGoOn(t)
               PROVE  AllJoined /\ \A t \in Threads : nodes[t] = 0
    BY DEF NothingStalls
  <2>1. mtx = NoThread
    BY DEF HoldInv, MayGoOn, TypeInv, TypeOK
  <2>2. \A t \in Threads : pc[t] \in {"wait", "done"}
    BY <2>1 DEF MayGoOn, TypeInv, TypeOK, PCs
  <2>3. \A t \in Threads : pc[t] # "wait"
    <3> SUFFICES ASSUME NEW t \in Threads, pc[t] = "wait" PROVE FALSE
      OBVIOUS
    <3>1. Arrived = Threads
      BY <2>2 DEF Arrived
    <3>2. num_count = num_threads
      BY <3>1, ArrivedFacts DEF CountInv
    <3> QED
      BY <2>1, <3>2 DEF NoLostWakeup, MayGoOn
  <2> QED
    BY <2>2, <2>3 DEF AllJoined, HoldInv
<1> QED
  BY TypeInit, TypeStep, WakeupsAreNotLost, <1>1, <1>2, <1>3, PTL DEF Spec

=============================================================================
