------------------------ MODULE SharedEventSyncProofs ------------------------
(***************************************************************************)
(* Proofs about SharedEventSync for any number of threads, events and      *)
(* iterations.                                                             *)
(*                                                                         *)
(* The argument: signal_host_event and the last event tell in which half   *)
(* the threads are (DeviceHalf).  In each half thread_count is the number  *)
(* of threads that have counted themselves, the thread that counts last    *)
(* therefore finds all others waiting for the event that opens the next    *)
(* half, and because every thread drains the queue before it counts,       *)
(* nothing of the half is then left for the device to do.  On top of that, *)
(* SignaledInv says which events are signalled at each place of a thread,  *)
(* FreshInv which are not, and IterationInv which threads are still at the *)
(* end of the iteration before.                                            *)
(*                                                                         *)
(* Nothing stalls because each wait has its answer under way (WaitInv,     *)
(* OpeningInv, SubmittedInv): the device events are on the queue once the  *)
(* flag is taken, the host events are signalled before the mutex is let    *)
(* go, and when all have counted one of them is about to open the next     *)
(* half.                                                                   *)
(***************************************************************************)
EXTENDS SharedEventSync, SequenceTheorems, FiniteSetTheorems, TLAPS

(* The sections of the worker that hold event_mutex across several steps.  *)
Locked == {"reset1", "hostSignal", "reset2"}

Typing ==
    /\ pc \in [Threads -> PCs]
    /\ iter \in [Threads -> Nat]
    /\ idx \in [Threads -> 0..num_events]
    /\ behind \in [Threads -> Nat]
    /\ signaled \subseteq Events
    /\ queue \in Seq(Lists)
    /\ signal_device_event \in BOOLEAN
    /\ signal_host_event \in BOOLEAN
    /\ thread_count \in Nat
    /\ event_mutex \in Threads \cup {NoThread}

(* A thread in a locked section holds the mutex; loop indices are in range.*)
SectionInv ==
    \A t \in Threads :
        /\ pc[t] \in Locked => event_mutex = t
        /\ pc[t] \in {"execute", "hostWait"} => idx[t] < last
        /\ pc[t] = "reset1" => idx[t] <= last
        /\ pc[t] = "hostSignal" => idx[t] \in HostEvents
        /\ pc[t] = "reset2" => idx[t] >= 1

(* A list on the queue belongs to a thread that has not counted since it   *)
(* submitted it, and a synchronize covers every list of its caller.        *)
ListInv ==
    \A i \in 1..Len(queue) :
        LET l == queue[i]
            t == l.by IN
        /\ l.op = "signal" => l.next < last /\ pc[t] \in {"hostWait", "sync1", "drain1"}
        /\ l.op = "wait" => pc[t] \in {"hostHalf", "hostSignal", "sync2", "drain2"}
        /\ pc[t] \in {"drain1", "drain2"} => i <= behind[t]

(* The device half lasts until the last event opens the host half, and     *)
(* begins again when the host flag is rearmed.                             *)
InDeviceHalf == signal_host_event /\ last \notin signaled

Counted1 == {t \in Threads : pc[t] \in {"waitLast", "reset1"}}
Counted2 == {t \in Threads : pc[t] \in {"waitFirst", "reset2"}}

DeviceHalfPCs == {"deviceHalf", "execute", "hostWait", "sync1", "drain1", "count1", "reset1",
                  "waitLast", "waitFirst", "sync3", "drain3", "done"}
HostHalfPCs == {"waitLast", "executeWait", "hostHalf", "hostSignal", "sync2", "drain2", "count2",
                "reset2", "waitFirst"}

DeviceHalfInv ==
    InDeviceHalf =>
        /\ \A t \in Threads : pc[t] \in DeviceHalfPCs
        /\ thread_count = Cardinality(Counted1)
        /\ \A t \in Threads : pc[t] = "reset1" => Counted1 = Threads /\ (idx[t] > 0 => 0 \notin signaled)
        /\ (\E t \in Threads : pc[t] = "waitFirst") => 0 \in signaled

HostHalfInv ==
    ~InDeviceHalf =>
        /\ \A t \in Threads : pc[t] \in HostHalfPCs
        /\ thread_count = Cardinality(Counted2)
        /\ \A t \in Threads : pc[t] = "reset2" => Counted2 = Threads /\ (idx[t] > last => last \notin signaled)
        /\ 0 \notin signaled
        /\ \A t \in Threads : pc[t] \in {"hostSignal", "sync2", "drain2", "count2", "reset2", "waitFirst"} =>
               ~signal_host_event

IInv == Typing /\ SectionInv /\ ListInv /\ DeviceHalfInv /\ HostHalfInv

-----------------------------------------------------------------------------
(* The constants give at least two events.                                 *)
LEMMA LastFacts == /\ num_events \in Nat
                   /\ last \in Nat /\ last >= 1 /\ num_events = last + 1
                   /\ Cardinality(Threads) \in Nat
  BY BoundsAssumption, ThreadsAssumption, FS_CardinalityType DEF last

(* Submitting a list appends it, retiring one removes the head.            *)
LEMMA Submitted ==
    ASSUME queue \in Seq(Lists), NEW l \in Lists, queue' = Append(queue, l)
    PROVE  /\ queue' \in Seq(Lists)
           /\ Len(queue') = Len(queue) + 1
           /\ \A i \in 1..Len(queue) : queue'[i] = queue[i]
           /\ queue'[Len(queue) + 1] = l
  BY AppendProperties

LEMMA Retired ==
    ASSUME queue \in Seq(Lists), queue # <<>>, queue' = Tail(queue)
    PROVE  /\ queue' \in Seq(Lists)
           /\ Len(queue) \in Nat /\ Len(queue') = Len(queue) - 1
           /\ \A i \in 1..Len(queue') : queue'[i] = queue[i + 1]
  BY HeadTailProperties, LenProperties

LEMMA HeadIsList ==
    ASSUME queue \in Seq(Lists), queue # <<>>
    PROVE  Len(queue) \in Nat /\ Len(queue) >= 1 /\ queue[1] \in Lists
  BY ElementOfSeq, LenProperties, EmptySeq

(* Initially every variable has its type, all threads are in the device    *)
(* half and nobody has counted.                                            *)
LEMMA IInvInit == Init => IInv
<1> SUFFICES ASSUME Init PROVE IInv
  OBVIOUS
<1>1. Typing
  BY LastFacts DEF Init, Typing, PCs, Lists
<1>2. SectionInv /\ ListInv
  BY LastFacts DEF Init, SectionInv, ListInv, Locked
<1>3. InDeviceHalf
  BY DEF Init, InDeviceHalf
<1>4. Counted1 = {}
  BY DEF Init, Counted1
<1> QED
  BY <1>1, <1>2, <1>3, <1>4, FS_EmptySet
     DEF Init, IInv, DeviceHalfInv, HostHalfInv, DeviceHalfPCs

LEMMA CountTyping ==
    ASSUME Typing, NEW t \in Threads, NEW at, NEW reset \in PCs, NEW wait \in PCs,
           NEW first \in 0..num_events, Count(t, at, reset, first, wait)
    PROVE  Typing'
<1>1. pc' \in [Threads -> PCs]
  BY DEF Count, Go, Typing
<1>2. idx' \in [Threads -> 0..num_events] /\ event_mutex' \in Threads \cup {NoThread}
  BY DEF Count, Typing
<1>3. thread_count' \in Nat
  BY DEF Count, Typing
<1> QED
  BY <1>1, <1>2, <1>3 DEF Count, Typing

(* Every step keeps the types.                                             *)
LEMMA TypingStep ==
    ASSUME Typing, SectionInv, ListInv, [Next]_vars
    PROVE  Typing'
<1>0. 0 \in 0..num_events /\ 1 \in 0..num_events /\ 0 \in Events /\ last \in Events
  BY LastFacts DEF Events
<1>00. \A t \in Threads, p \in PCs : Go(t, p) => pc' \in [Threads -> PCs]
  BY DEF Go, Typing
<1> USE DEF Typing, PCs, Go, locals, globals
<1>1. ASSUME NEW t \in Threads, ClaimDeviceSignal(t) PROVE Typing'
  BY <1>1, <1>0 DEF ClaimDeviceSignal
<1>2. ASSUME NEW t \in Threads, ExecuteSignals(t) PROVE Typing'
  <2>1. [op |-> "signal", by |-> t, next |-> 0] \in Lists
    BY <1>0, LastFacts DEF Lists, Events
  <2>2. queue' \in Seq(Lists)
    BY <1>2, <2>1, Submitted DEF ExecuteSignals
  <2> QED
    BY <1>2, <2>2 DEF ExecuteSignals
<1>3. ASSUME NEW t \in Threads, HostWait(t) PROVE Typing'
  BY <1>3, LastFacts DEF HostWait, SectionInv
<1>4. ASSUME NEW t \in Threads, SyncCall(t) PROVE Typing'
  BY <1>4, LenProperties DEF SyncCall, SyncPoints, DrainOf
<1>5. ASSUME NEW t \in Threads, SyncReturn(t) PROVE Typing'
  BY <1>5 DEF SyncReturn, AfterDrain
<1>6. ASSUME NEW t \in Threads, NextIteration(t) PROVE Typing'
  BY <1>6 DEF NextIteration
<1>7. ASSUME NEW t \in Threads, CountDeviceHalf(t) PROVE Typing'
  BY <1>7, <1>0, CountTyping DEF CountDeviceHalf
<1>8. ASSUME NEW t \in Threads, CountHostHalf(t) PROVE Typing'
  BY <1>8, <1>0, CountTyping DEF CountHostHalf
<1>9. ASSUME NEW t \in Threads, ResetOne(t) PROVE Typing'
  BY <1>9, LastFacts DEF ResetOne
<1>10. ASSUME NEW t \in Threads, OpenHostHalf(t) PROVE Typing'
  BY <1>10, <1>0 DEF OpenHostHalf, ZeroCount
<1>11. ASSUME NEW t \in Threads, OpenNextIteration(t) PROVE Typing'
  BY <1>11, <1>0 DEF OpenNextIteration, ZeroCount, Rearm
<1>12. ASSUME NEW t \in Threads, WaitLast(t) PROVE Typing'
  BY <1>12 DEF WaitLast
<1>13. ASSUME NEW t \in Threads, WaitFirst(t) PROVE Typing'
  BY <1>13 DEF WaitFirst
<1>14. ASSUME NEW t \in Threads, ExecuteWait(t) PROVE Typing'
  <2>1. [op |-> "wait", by |-> t, next |-> 1] \in Lists
    BY <1>0, LastFacts DEF Lists, Events
  <2>2. queue' \in Seq(Lists)
    BY <1>14, <2>1, Submitted DEF ExecuteWait
  <2> QED
    BY <1>14, <2>2 DEF ExecuteWait
<1>15. ASSUME NEW t \in Threads, ClaimHostSignal(t) PROVE Typing'
  BY <1>15, <1>0 DEF ClaimHostSignal
<1>16. ASSUME NEW t \in Threads, HostSignal(t) PROVE Typing'
  <2>1. idx[t] \in HostEvents
    BY <1>16 DEF HostSignal, SectionInv
  <2>2. idx[t] \in Events /\ idx[t] + 1 \in 0..num_events
    BY <2>1, LastFacts DEF HostEvents, Events
  <2> QED
    BY <1>16, <2>2 DEF HostSignal
<1>17. CASE DeviceSignal
  <2>1. queue[1] \in Lists /\ queue[1].next \in Events /\ queue[1].next < last
    <3>1. 1 \in 1..Len(queue) /\ queue[1] \in Lists /\ queue[1].op = "signal"
      BY <1>17, HeadIsList DEF DeviceSignal
    <3> QED
      BY <3>1 DEF ListInv, Lists, Events
  <2>2. CASE Retire
    <3>1. queue' \in Seq(Lists)
      BY <1>17, <2>2, Retired DEF Retire, DeviceSignal
    <3> QED
      BY <1>17, <2>1, <2>2, <3>1 DEF DeviceSignal, Retire
  <2>3. CASE /\ queue[1].next # last - 1
             /\ queue' = [queue EXCEPT ![1].next = @ + 1]
             /\ UNCHANGED behind
    <3>1. [queue[1] EXCEPT !.next = @ + 1] \in Lists
      <4>1. \A l \in Lists : l.next < last => [l EXCEPT !.next = @ + 1] \in Lists
        <5> SUFFICES ASSUME NEW l \in Lists, l.next < last
                     PROVE  [l EXCEPT !.next = @ + 1] \in Lists
          OBVIOUS
        <5>1. l.next + 1 \in Events
          BY LastFacts DEF Lists, Events
        <5> QED
          BY <5>1 DEF Lists
      <4> QED
        BY <2>1, <4>1
    <3>2. 1 \in 1..Len(queue)
      BY <1>17, HeadIsList DEF DeviceSignal
    <3>3. queue' = [queue EXCEPT ![1] = [queue[1] EXCEPT !.next = @ + 1]]
      BY <2>3
    <3>4. queue' \in Seq(Lists)
      BY <3>1, <3>2, <3>3, ExceptSeq
    <3> QED
      BY <1>17, <2>1, <2>3, <3>4 DEF DeviceSignal
  <2> QED
    BY <1>17, <2>2, <2>3 DEF DeviceSignal
<1>18. CASE DeviceWait
  <2>1. queue' \in Seq(Lists)
    BY <1>18, Retired DEF Retire, DeviceWait
  <2> QED
    BY <1>18, <2>1 DEF DeviceWait, Retire
<1>19. CASE UNCHANGED vars
  BY <1>19 DEF vars
<1> QED
  BY <1>1, <1>2, <1>3, <1>4, <1>5, <1>6, <1>7, <1>8, <1>9, <1>10, <1>11, <1>12, <1>13, <1>14,
     <1>15, <1>16, <1>17, <1>18, <1>19 DEF Next, ThreadStep, Device, Terminating

-----------------------------------------------------------------------------
(* Only a thread that finds the mutex free enters a locked section, and    *)
(* only the thread in it gives the mutex back.                             *)
LEMMA SectionStep ==
    ASSUME Typing, SectionInv, [Next]_vars
    PROVE  SectionInv'
<1> USE DEF Typing, SectionInv, Locked, Go, locals, globals
<1>0. last \in Nat /\ last >= 1 /\ num_events = last + 1
  BY LastFacts
<1>1. ASSUME NEW t \in Threads, ClaimDeviceSignal(t) PROVE SectionInv'
  BY <1>1, <1>0 DEF ClaimDeviceSignal
<1>2. ASSUME NEW t \in Threads, ExecuteSignals(t) PROVE SectionInv'
  BY <1>2 DEF ExecuteSignals
<1>3. ASSUME NEW t \in Threads, HostWait(t) PROVE SectionInv'
  BY <1>3, <1>0 DEF HostWait
<1>4. ASSUME NEW t \in Threads, SyncCall(t) PROVE SectionInv'
  BY <1>4 DEF SyncCall, SyncPoints, DrainOf
<1>5. ASSUME NEW t \in Threads, SyncReturn(t) PROVE SectionInv'
  BY <1>5 DEF SyncReturn, AfterDrain
<1>6. ASSUME NEW t \in Threads, NextIteration(t) PROVE SectionInv'
  BY <1>6 DEF NextIteration
<1>7. ASSUME NEW t \in Threads, CountDeviceHalf(t) PROVE SectionInv'
  <2>1. \A u \in Threads : pc[u] \notin Locked
    BY <1>7, ThreadsAssumption DEF CountDeviceHalf, Count
  <2> QED
    BY <1>7, <1>0, <2>1 DEF CountDeviceHalf, Count
<1>8. ASSUME NEW t \in Threads, CountHostHalf(t) PROVE SectionInv'
  <2>1. \A u \in Threads : pc[u] \notin Locked
    BY <1>8, ThreadsAssumption DEF CountHostHalf, Count
  <2> QED
    BY <1>8, <1>0, <2>1 DEF CountHostHalf, Count
<1>9. ASSUME NEW t \in Threads, ResetOne(t) PROVE SectionInv'
  BY <1>9, <1>0 DEF ResetOne
<1>10. ASSUME NEW t \in Threads, OpenHostHalf(t) PROVE SectionInv'
  <2>1. \A u \in Threads : u # t => pc[u] \notin Locked
    BY <1>10 DEF OpenHostHalf
  <2> QED
    BY <1>10, <2>1 DEF OpenHostHalf
<1>11. ASSUME NEW t \in Threads, OpenNextIteration(t) PROVE SectionInv'
  <2>1. \A u \in Threads : u # t => pc[u] \notin Locked
    BY <1>11 DEF OpenNextIteration
  <2> QED
    BY <1>11, <2>1 DEF OpenNextIteration
<1>12. ASSUME NEW t \in Threads, WaitLast(t) PROVE SectionInv'
  BY <1>12 DEF WaitLast
<1>13. ASSUME NEW t \in Threads, WaitFirst(t) PROVE SectionInv'
  BY <1>13 DEF WaitFirst
<1>14. ASSUME NEW t \in Threads, ExecuteWait(t) PROVE SectionInv'
  BY <1>14 DEF ExecuteWait
<1>15. ASSUME NEW t \in Threads, ClaimHostSignal(t) PROVE SectionInv'
  <2>1. \A u \in Threads : pc[u] \notin Locked
    BY <1>15, ThreadsAssumption DEF ClaimHostSignal
  <2> QED
    BY <1>15, <1>0, <2>1 DEF ClaimHostSignal, HostEvents
<1>16. ASSUME NEW t \in Threads, HostSignal(t) PROVE SectionInv'
  <2>1. \A u \in Threads : u # t => pc[u] \notin Locked
    BY <1>16 DEF HostSignal
  <2>2. idx[t] # last => idx[t] + 1 \in HostEvents
    BY <1>16, <1>0 DEF HostSignal, HostEvents
  <2> QED
    BY <1>16, <2>1, <2>2 DEF HostSignal
<1>17. CASE DeviceSignal
  BY <1>17 DEF DeviceSignal
<1>18. CASE DeviceWait
  BY <1>18 DEF DeviceWait
<1>19. CASE UNCHANGED vars
  BY <1>19 DEF vars
<1> QED
  BY <1>1, <1>2, <1>3, <1>4, <1>5, <1>6, <1>7, <1>8, <1>9, <1>10, <1>11, <1>12, <1>13, <1>14,
     <1>15, <1>16, <1>17, <1>18, <1>19 DEF Next, ThreadStep, Device, Terminating

-----------------------------------------------------------------------------
(* The program counters at which a thread may own a list on the queue.     *)
OwnerPCs == {"hostWait", "sync1", "drain1", "hostHalf", "hostSignal", "sync2", "drain2"}

(* Every list on the queue has its fields and an owner at such a place.    *)
LEMMA ListFacts ==
    ASSUME Typing, ListInv, NEW i \in 1..Len(queue)
    PROVE  queue[i] \in Lists /\ queue[i].by \in Threads /\ pc[queue[i].by] \in OwnerPCs
<1>1. queue[i] \in Lists
  BY ElementOfSeq DEF Typing
<1> QED
  BY <1>1 DEF ListInv, Lists, OwnerPCs

(* A thread that owns no list may move to any place that waits for none.   *)
LEMMA ListFrame ==
    ASSUME Typing, ListInv, NEW t \in Threads, pc[t] \notin OwnerPCs,
           \A u \in Threads : u # t => pc'[u] = pc[u] /\ behind'[u] = behind[u],
           queue' = queue
    PROVE  ListInv'
<1>1. \A i \in 1..Len(queue) : queue[i].by \in Threads /\ queue[i].by # t
  BY ListFacts
<1> QED
  BY <1>1 DEF ListInv

(* Every step keeps the lists with their owners: submitting one puts its   *)
(* owner before the next synchronize, and no thread leaves a synchronize   *)
(* while a list of its own is pending.                                     *)
LEMMA ListStep ==
    ASSUME Typing, SectionInv, ListInv, [Next]_vars
    PROVE  ListInv'
<1> USE DEF Go, locals, globals
<1>0. Len(queue) \in Nat
  BY LenProperties DEF Typing
<1>1. ASSUME NEW t \in Threads, ClaimDeviceSignal(t) PROVE ListInv'
  BY <1>1, ListFrame DEF ClaimDeviceSignal, OwnerPCs, Typing
<1>2. ASSUME NEW t \in Threads, ExecuteSignals(t) PROVE ListInv'
  <2> DEFINE l == [op |-> "signal", by |-> t, next |-> 0]
  <2>1. l \in Lists
    BY LastFacts DEF Lists, Events
  <2>2. /\ Len(queue') = Len(queue) + 1
        /\ \A i \in 1..Len(queue) : queue'[i] = queue[i]
        /\ queue'[Len(queue) + 1] = l
    BY <1>2, <2>1, Submitted DEF ExecuteSignals, Typing
  <2>3. \A i \in 1..Len(queue) : queue[i].by \in Threads /\ queue[i].by # t
    BY <1>2, ListFacts DEF ExecuteSignals, OwnerPCs
  <2>4. ASSUME NEW i \in 1..Len(queue') PROVE i \in 1..Len(queue) \/ i = Len(queue) + 1
    BY <2>2, <2>4, <1>0
  <2> QED
    BY <1>2, <2>2, <2>3, <2>4, LastFacts DEF ExecuteSignals, ListInv, Typing
<1>3. ASSUME NEW t \in Threads, HostWait(t) PROVE ListInv'
  <2>1. pc'[t] \in {"hostWait", "sync1"} /\ pc[t] = "hostWait"
    BY <1>3 DEF HostWait, Typing
  <2> QED
    BY <1>3, <2>1 DEF HostWait, ListInv, Typing
<1>4. ASSUME NEW t \in Threads, SyncCall(t) PROVE ListInv'
  BY <1>4, <1>0 DEF SyncCall, SyncPoints, DrainOf, ListInv, Typing
<1>5. ASSUME NEW t \in Threads, SyncReturn(t) PROVE ListInv'
  <2>1. \A i \in 1..Len(queue) : queue[i].by # t
    BY <1>5, ListFacts DEF SyncReturn, AfterDrain, Drained, ListInv
  <2> QED
    BY <1>5, <2>1, ListFacts DEF SyncReturn, ListInv, Typing
<1>6. ASSUME NEW t \in Threads, NextIteration(t) PROVE ListInv'
  BY <1>6, ListFrame DEF NextIteration, OwnerPCs, Typing
<1>7. ASSUME NEW t \in Threads, CountDeviceHalf(t) PROVE ListInv'
  BY <1>7, ListFrame DEF CountDeviceHalf, Count, OwnerPCs, Typing
<1>8. ASSUME NEW t \in Threads, CountHostHalf(t) PROVE ListInv'
  BY <1>8, ListFrame DEF CountHostHalf, Count, OwnerPCs, Typing
<1>9. ASSUME NEW t \in Threads, ResetOne(t) PROVE ListInv'
  BY <1>9 DEF ResetOne, ListInv
<1>10. ASSUME NEW t \in Threads, OpenHostHalf(t) PROVE ListInv'
  BY <1>10, ListFrame DEF OpenHostHalf, OwnerPCs, Typing
<1>11. ASSUME NEW t \in Threads, OpenNextIteration(t) PROVE ListInv'
  BY <1>11, ListFrame DEF OpenNextIteration, OwnerPCs, Typing
<1>12. ASSUME NEW t \in Threads, WaitLast(t) PROVE ListInv'
  BY <1>12, ListFrame DEF WaitLast, OwnerPCs, Typing
<1>13. ASSUME NEW t \in Threads, WaitFirst(t) PROVE ListInv'
  BY <1>13, ListFrame DEF WaitFirst, OwnerPCs, Typing
<1>14. ASSUME NEW t \in Threads, ExecuteWait(t) PROVE ListInv'
  <2> DEFINE l == [op |-> "wait", by |-> t, next |-> 1]
  <2>1. l \in Lists
    BY LastFacts DEF Lists, Events
  <2>2. /\ Len(queue') = Len(queue) + 1
        /\ \A i \in 1..Len(queue) : queue'[i] = queue[i]
        /\ queue'[Len(queue) + 1] = l
    BY <1>14, <2>1, Submitted DEF ExecuteWait, Typing
  <2>3. \A i \in 1..Len(queue) : queue[i].by \in Threads /\ queue[i].by # t
    BY <1>14, ListFacts DEF ExecuteWait, OwnerPCs
  <2>4. ASSUME NEW i \in 1..Len(queue') PROVE i \in 1..Len(queue) \/ i = Len(queue) + 1
    BY <2>2, <2>4, <1>0
  <2> QED
    BY <1>14, <2>2, <2>3, <2>4 DEF ExecuteWait, ListInv, Typing
<1>15. ASSUME NEW t \in Threads, ClaimHostSignal(t) PROVE ListInv'
  BY <1>15, ListFacts DEF ClaimHostSignal, ListInv, Typing
<1>16. ASSUME NEW t \in Threads, HostSignal(t) PROVE ListInv'
  BY <1>16, ListFacts DEF HostSignal, ListInv, Typing
<1>17. ASSUME queue # <<>>, Retire, UNCHANGED pc PROVE ListInv'
  <2>1. /\ Len(queue') = Len(queue) - 1
        /\ \A i \in 1..Len(queue') : queue'[i] = queue[i + 1]
    BY <1>17, Retired DEF Retire, Typing
  <2>2. ASSUME NEW i \in 1..Len(queue')
        PROVE  /\ i + 1 \in 1..Len(queue) /\ queue'[i] = queue[i + 1]
               /\ queue[i + 1].by \in Threads
               /\ i + 1 <= behind[queue[i + 1].by] => i <= behind'[queue[i + 1].by]
    <3>1. i + 1 \in 1..Len(queue) /\ queue'[i] = queue[i + 1]
      BY <2>1, <2>2, <1>0
    <3>2. queue[i + 1].by \in Threads
      BY <3>1, ListFacts
    <3> QED
      BY <1>17, <2>2, <3>1, <3>2 DEF Retire, Typing
  <2> QED
    BY <1>17, <2>2 DEF ListInv
<1>18. ASSUME DeviceSignal, queue' = [queue EXCEPT ![1].next = @ + 1], queue[1].next # last - 1,
              UNCHANGED behind
       PROVE  ListInv'
  <2>1. 1 \in 1..Len(queue) /\ queue[1] \in Lists
    BY <1>18, HeadIsList DEF DeviceSignal, Typing
  <2>2. queue \in [1..Len(queue) -> Lists]
    BY LenProperties DEF Typing
  <2>3. Len(queue') = Len(queue)
    BY <1>18, <2>2, <1>0
  <2>4. \A i \in 1..Len(queue) :
          /\ i # 1 => queue'[i] = queue[i]
          /\ queue'[i].op = queue[i].op /\ queue'[i].by = queue[i].by
    BY <1>18, <2>1, <2>2 DEF Lists
  <2>5. queue'[1].next = queue[1].next + 1 /\ queue[1].next < last
    BY <1>18, <2>1, <2>2 DEF Lists, ListInv, DeviceSignal
  <2>6. queue'[1].next < last
    BY <1>18, <2>1, <2>5, LastFacts DEF Lists, Events
  <2> QED
    BY <1>18, <2>3, <2>4, <2>6 DEF DeviceSignal, ListInv
<1>19. CASE UNCHANGED vars
  BY <1>19 DEF vars, ListInv
<1> QED
  BY <1>1, <1>2, <1>3, <1>4, <1>5, <1>6, <1>7, <1>8, <1>9, <1>10, <1>11, <1>12, <1>13, <1>14,
     <1>15, <1>16, <1>17, <1>18, <1>19
     DEF Next, ThreadStep, Device, DeviceSignal, DeviceWait, Terminating

-----------------------------------------------------------------------------
PhaseInv == DeviceHalfInv /\ HostHalfInv

(* The places a thread can be at in one half only.                         *)
DeviceOnly == DeviceHalfPCs \ {"waitLast", "waitFirst"}
HostOnly == HostHalfPCs \ {"waitLast", "waitFirst"}

LEMMA WhichHalf ==
    ASSUME Typing, PhaseInv, NEW t \in Threads
    PROVE  /\ pc[t] \in DeviceOnly => InDeviceHalf
           /\ pc[t] \in HostOnly => ~InDeviceHalf
  BY DEF PhaseInv, DeviceHalfInv, HostHalfInv, DeviceOnly, HostOnly, DeviceHalfPCs, HostHalfPCs

(* One more thread counted; when as many are counted as there are threads, *)
(* all are.                                                                *)
LEMMA CountOneMore ==
    ASSUME NEW S \in SUBSET Threads, NEW t \in Threads, t \notin S
    PROVE  /\ Cardinality(S \cup {t}) = Cardinality(S) + 1
           /\ Cardinality(S \cup {t}) = num_threads => S \cup {t} = Threads
<1>1. IsFiniteSet(S)
  BY ThreadsAssumption, FS_Subset
<1>2. Cardinality(S \cup {t}) = Cardinality(S) + 1
  BY <1>1, FS_AddElement
<1>3. S \cup {t} \in SUBSET Threads
  OBVIOUS
<1>4. Cardinality(S \cup {t}) = num_threads => S \cup {t} = Threads
  BY <1>3, ThreadsAssumption, FS_Subset DEF num_threads
<1> QED
  BY <1>2, <1>4

(* A move within the device half by a thread that does not count.          *)
LEMMA DeviceHalfFrame ==
    ASSUME Typing, PhaseInv, InDeviceHalf, InDeviceHalf', NEW t \in Threads,
           \A u \in Threads : u # t => pc'[u] = pc[u],
           pc[t] \notin {"waitLast", "reset1"},
           pc'[t] \in DeviceHalfPCs \ {"waitLast", "reset1", "waitFirst"},
           thread_count' = thread_count, 0 \in signaled => 0 \in signaled'
    PROVE  PhaseInv'
<1>1. Counted1' = Counted1
  BY DEF Counted1
<1>2. \A u \in Threads : pc[u] # "reset1"
  BY DEF PhaseInv, DeviceHalfInv, Counted1
<1> QED
  BY <1>1, <1>2 DEF PhaseInv, DeviceHalfInv, HostHalfInv

(* A move within the host half by a thread that does not count.            *)
LEMMA HostHalfFrame ==
    ASSUME Typing, PhaseInv, ~InDeviceHalf, ~InDeviceHalf', NEW t \in Threads,
           \A u \in Threads : u # t => pc'[u] = pc[u],
           pc[t] \notin {"reset2", "waitFirst"},
           pc'[t] \in HostHalfPCs \ {"reset2", "waitFirst"},
           thread_count' = thread_count, 0 \notin signaled',
           signal_host_event' => signal_host_event,
           pc'[t] \in {"hostSignal", "sync2", "drain2", "count2"} => ~signal_host_event'
    PROVE  PhaseInv'
<1>1. Counted2' = Counted2
  BY DEF Counted2
<1>2. \A u \in Threads : pc[u] # "reset2"
  BY DEF PhaseInv, HostHalfInv, Counted2
<1> QED
  BY <1>1, <1>2 DEF PhaseInv, DeviceHalfInv, HostHalfInv

(* The threads change half together: see the comment of InDeviceHalf.      *)
LEMMA PhaseStep ==
    ASSUME Typing, SectionInv, ListInv, PhaseInv, [Next]_vars
    PROVE  PhaseInv'
<1> USE DEF Go, locals, globals
<1>0. last \in Nat /\ last >= 1 /\ num_events = last + 1
  BY LastFacts
<1>1. ASSUME NEW t \in Threads, ClaimDeviceSignal(t) PROVE PhaseInv'
  <2>1. InDeviceHalf
    BY <1>1, WhichHalf DEF ClaimDeviceSignal, DeviceOnly, DeviceHalfPCs
  <2> QED
    BY <1>1, <2>1, DeviceHalfFrame DEF ClaimDeviceSignal, InDeviceHalf, DeviceHalfPCs, Typing
<1>2. ASSUME NEW t \in Threads, ExecuteSignals(t) PROVE PhaseInv'
  <2>1. InDeviceHalf
    BY <1>2, WhichHalf DEF ExecuteSignals, DeviceOnly, DeviceHalfPCs
  <2> QED
    BY <1>2, <2>1, DeviceHalfFrame DEF ExecuteSignals, InDeviceHalf, DeviceHalfPCs, Typing
<1>3. ASSUME NEW t \in Threads, HostWait(t) PROVE PhaseInv'
  <2>1. InDeviceHalf
    BY <1>3, WhichHalf DEF HostWait, DeviceOnly, DeviceHalfPCs
  <2> QED
    BY <1>3, <2>1, DeviceHalfFrame DEF HostWait, InDeviceHalf, DeviceHalfPCs, Typing
<1>4. ASSUME NEW t \in Threads, SyncCall(t) PROVE PhaseInv'
  <2>1. CASE pc[t] \in {"sync1", "sync3"}
    <3>1. InDeviceHalf
      BY <2>1, WhichHalf DEF DeviceOnly, DeviceHalfPCs
    <3>3. pc'[t] \in {"drain1", "drain3"} /\ \A u \in Threads : u # t => pc'[u] = pc[u]
      BY <1>4, <2>1 DEF SyncCall, DrainOf, Typing
    <3> QED
      BY <1>4, <2>1, <3>1, <3>3, DeviceHalfFrame DEF SyncCall, InDeviceHalf, DeviceHalfPCs
  <2>2. CASE pc[t] = "sync2"
    <3>1. ~InDeviceHalf
      BY <2>2, WhichHalf DEF HostOnly, HostHalfPCs
    <3>2. ~signal_host_event /\ 0 \notin signaled
      BY <2>2, <3>1 DEF PhaseInv, HostHalfInv
    <3>3. pc'[t] \in {"drain2"} /\ \A u \in Threads : u # t => pc'[u] = pc[u]
      BY <1>4, <2>2 DEF SyncCall, DrainOf, Typing
    <3> QED
      BY <1>4, <2>2, <3>1, <3>2, <3>3, HostHalfFrame DEF SyncCall, InDeviceHalf, HostHalfPCs
  <2> QED
    BY <1>4, <2>1, <2>2 DEF SyncCall, SyncPoints
<1>5. ASSUME NEW t \in Threads, SyncReturn(t) PROVE PhaseInv'
  <2>1. CASE pc[t] = "drain1"
    <3>1. InDeviceHalf
      BY <2>1, WhichHalf DEF DeviceOnly, DeviceHalfPCs
    <3>3. pc'[t] \in {"count1"} /\ \A u \in Threads : u # t => pc'[u] = pc[u]
      BY <1>5, <2>1 DEF SyncReturn, AfterDrain, Typing
    <3> QED
      BY <1>5, <2>1, <3>1, <3>3, DeviceHalfFrame DEF SyncReturn, InDeviceHalf, DeviceHalfPCs
  <2>2. CASE pc[t] = "drain2"
    <3>1. ~InDeviceHalf
      BY <2>2, WhichHalf DEF HostOnly, HostHalfPCs
    <3>2. ~signal_host_event /\ 0 \notin signaled
      BY <2>2, <3>1 DEF PhaseInv, HostHalfInv
    <3>3. pc'[t] \in {"count2"} /\ \A u \in Threads : u # t => pc'[u] = pc[u]
      BY <1>5, <2>2 DEF SyncReturn, AfterDrain, Typing
    <3> QED
      BY <1>5, <2>2, <3>1, <3>2, <3>3, HostHalfFrame DEF SyncReturn, InDeviceHalf, HostHalfPCs
  <2> QED
    BY <1>5, <2>1, <2>2 DEF SyncReturn, AfterDrain
<1>6. ASSUME NEW t \in Threads, NextIteration(t) PROVE PhaseInv'
  <2>1. InDeviceHalf
    BY <1>6, WhichHalf DEF NextIteration, DeviceOnly, DeviceHalfPCs
  <2> QED
    BY <1>6, <2>1, DeviceHalfFrame DEF NextIteration, InDeviceHalf, DeviceHalfPCs, Typing
<1>7. ASSUME NEW t \in Threads, CountDeviceHalf(t) PROVE PhaseInv'
  <2>1. InDeviceHalf /\ InDeviceHalf' /\ pc[t] = "count1"
    BY <1>7, WhichHalf DEF CountDeviceHalf, Count, DeviceOnly, DeviceHalfPCs, InDeviceHalf
  <2>2. Counted1' = Counted1 \cup {t} /\ t \notin Counted1
    BY <1>7, <2>1 DEF CountDeviceHalf, Count, Counted1, Typing
  <2>3. thread_count' = Cardinality(Counted1')
        /\ (thread_count' = num_threads => Counted1' = Threads)
    BY <1>7, <2>1, <2>2, CountOneMore DEF CountDeviceHalf, Count, Counted1, PhaseInv, DeviceHalfInv
  <2>4. \A u \in Threads : pc[u] # "reset1"
    BY <2>1, <2>2 DEF PhaseInv, DeviceHalfInv
  <2>5. \A u \in Threads : u # t => pc'[u] = pc[u]
    BY <1>7 DEF CountDeviceHalf, Count, Typing
  <2>6. \/ thread_count' = num_threads /\ pc'[t] = "reset1" /\ idx'[t] = 0
        \/ pc'[t] = "waitLast"
    BY <1>7 DEF CountDeviceHalf, Count, AllCounted, Typing
  <2>7. signaled' = signaled
    BY <1>7 DEF CountDeviceHalf, Count
  <2> QED
    BY <2>1, <2>3, <2>4, <2>5, <2>6, <2>7 DEF PhaseInv, DeviceHalfInv, HostHalfInv, DeviceHalfPCs
<1>8. ASSUME NEW t \in Threads, CountHostHalf(t) PROVE PhaseInv'
  <2>1. ~InDeviceHalf /\ ~InDeviceHalf' /\ pc[t] = "count2"
    BY <1>8, WhichHalf DEF CountHostHalf, Count, HostOnly, HostHalfPCs, InDeviceHalf
  <2>2. Counted2' = Counted2 \cup {t} /\ t \notin Counted2
    BY <1>8, <2>1 DEF CountHostHalf, Count, Counted2, Typing
  <2>3. thread_count' = Cardinality(Counted2')
        /\ (thread_count' = num_threads => Counted2' = Threads)
    BY <1>8, <2>1, <2>2, CountOneMore DEF CountHostHalf, Count, Counted2, PhaseInv, HostHalfInv
  <2>4. \A u \in Threads : pc[u] # "reset2"
    BY <2>1, <2>2 DEF PhaseInv, HostHalfInv
  <2>5. \A u \in Threads : u # t => pc'[u] = pc[u]
    BY <1>8 DEF CountHostHalf, Count, Typing
  <2>6. \/ thread_count' = num_threads /\ pc'[t] = "reset2" /\ idx'[t] = 1
        \/ pc'[t] = "waitFirst"
    BY <1>8 DEF CountHostHalf, Count, AllCounted, Typing
  <2>7. signaled' = signaled /\ signal_host_event' = signal_host_event
    BY <1>8 DEF CountHostHalf, Count
  <2> QED
    BY <1>0, <2>1, <2>3, <2>4, <2>5, <2>6, <2>7 DEF PhaseInv, DeviceHalfInv, HostHalfInv, HostHalfPCs
<1>9. ASSUME NEW t \in Threads, ResetOne(t) PROVE PhaseInv'
  <2>1. Counted1' = Counted1 /\ Counted2' = Counted2
    BY <1>9 DEF ResetOne, Counted1, Counted2
  <2>2. \A u \in Threads : u # t => pc[u] \notin Locked
    BY <1>9 DEF ResetOne, SectionInv, Locked
  <2>3. CASE pc[t] = "reset1"
    <3>1. InDeviceHalf /\ InDeviceHalf'
      BY <1>9, <2>3, WhichHalf DEF ResetOne, InDeviceHalf, DeviceOnly, DeviceHalfPCs
    <3>2. \A u \in Threads : pc[u] # "waitFirst"
      BY <2>3, <3>1 DEF PhaseInv, DeviceHalfInv, Counted1
    <3>3. idx'[t] > 0 => 0 \notin signaled'
      BY <1>9, <2>3, <3>1 DEF ResetOne, Typing, PhaseInv, DeviceHalfInv
    <3> QED
      BY <1>9, <2>1, <2>2, <2>3, <3>1, <3>2, <3>3 DEF ResetOne, PhaseInv, DeviceHalfInv, HostHalfInv, Locked
  <2>4. CASE pc[t] = "reset2"
    <3>1. ~InDeviceHalf /\ ~signal_host_event
      BY <2>4, WhichHalf DEF HostOnly, HostHalfPCs, PhaseInv, HostHalfInv
    <3>2. ~InDeviceHalf' /\ 0 \notin signaled'
      BY <1>9, <3>1 DEF ResetOne, InDeviceHalf, PhaseInv, HostHalfInv
    <3>3. idx'[t] > last => last \notin signaled'
      BY <1>9, <1>0, <2>4, <3>1 DEF ResetOne, Typing, PhaseInv, HostHalfInv
    <3> QED
      BY <1>9, <2>1, <2>2, <2>4, <3>1, <3>2, <3>3 DEF ResetOne, PhaseInv, DeviceHalfInv, HostHalfInv, Locked
  <2> QED
    BY <1>9, <2>3, <2>4 DEF ResetOne
<1>10. ASSUME NEW t \in Threads, OpenHostHalf(t) PROVE PhaseInv'
  <2>1. InDeviceHalf /\ Counted1 = Threads /\ 0 \notin signaled
    BY <1>10, <1>0, WhichHalf DEF OpenHostHalf, DeviceOnly, DeviceHalfPCs, PhaseInv, DeviceHalfInv
  <2>2. \A u \in Threads : u # t => pc[u] \notin Locked
    BY <1>10 DEF OpenHostHalf, SectionInv, Locked
  <2>3. \A u \in Threads : pc'[u] = "waitLast"
    BY <1>10, <2>1, <2>2 DEF OpenHostHalf, Counted1, Locked, Typing
  <2>4. Counted2' = {}
    BY <2>3 DEF Counted2
  <2>5. ~InDeviceHalf' /\ 0 \notin signaled' /\ thread_count' = 0
    BY <1>10, <1>0, <2>1 DEF OpenHostHalf, InDeviceHalf, ZeroCount
  <2> QED
    BY <2>3, <2>4, <2>5, FS_EmptySet DEF PhaseInv, DeviceHalfInv, HostHalfInv, HostHalfPCs
<1>11. ASSUME NEW t \in Threads, OpenNextIteration(t) PROVE PhaseInv'
  <2>1. Counted2 = Threads /\ last \notin signaled
    BY <1>11, <1>0, WhichHalf DEF OpenNextIteration, HostOnly, HostHalfPCs, PhaseInv, HostHalfInv
  <2>2. \A u \in Threads : u # t => pc[u] \notin Locked
    BY <1>11 DEF OpenNextIteration, SectionInv, Locked
  <2>3. \A u \in Threads : pc'[u] = "waitFirst"
    BY <1>11, <2>1, <2>2 DEF OpenNextIteration, Counted2, Locked, Typing
  <2>4. Counted1' = {}
    BY <2>3 DEF Counted1
  <2>5. InDeviceHalf' /\ 0 \in signaled' /\ thread_count' = 0
    BY <1>11, <1>0, <2>1 DEF OpenNextIteration, InDeviceHalf, ZeroCount, Rearm
  <2> QED
    BY <2>3, <2>4, <2>5, FS_EmptySet DEF PhaseInv, DeviceHalfInv, HostHalfInv, DeviceHalfPCs
<1>12. ASSUME NEW t \in Threads, WaitLast(t) PROVE PhaseInv'
  <2>1. ~InDeviceHalf /\ ~InDeviceHalf' /\ 0 \notin signaled
    BY <1>12 DEF WaitLast, InDeviceHalf, PhaseInv, HostHalfInv
  <2> QED
    BY <1>12, <2>1, HostHalfFrame DEF WaitLast, HostHalfPCs, Typing
<1>13. ASSUME NEW t \in Threads, WaitFirst(t) PROVE PhaseInv'
  <2>1. InDeviceHalf /\ InDeviceHalf'
    BY <1>13 DEF WaitFirst, InDeviceHalf, PhaseInv, HostHalfInv
  <2> QED
    BY <1>13, <2>1, DeviceHalfFrame DEF WaitFirst, DeviceHalfPCs, Typing
<1>14. ASSUME NEW t \in Threads, ExecuteWait(t) PROVE PhaseInv'
  <2>1. ~InDeviceHalf /\ ~InDeviceHalf' /\ 0 \notin signaled
    BY <1>14, WhichHalf DEF ExecuteWait, HostOnly, HostHalfPCs, InDeviceHalf, PhaseInv, HostHalfInv
  <2> QED
    BY <1>14, <2>1, HostHalfFrame DEF ExecuteWait, HostHalfPCs, Typing
<1>15. ASSUME NEW t \in Threads, ClaimHostSignal(t) PROVE PhaseInv'
  <2>1. ~InDeviceHalf /\ ~InDeviceHalf' /\ 0 \notin signaled
    BY <1>15, WhichHalf DEF ClaimHostSignal, HostOnly, HostHalfPCs, InDeviceHalf, PhaseInv, HostHalfInv
  <2> QED
    BY <1>15, <2>1, HostHalfFrame DEF ClaimHostSignal, HostHalfPCs, Typing
<1>16. ASSUME NEW t \in Threads, HostSignal(t) PROVE PhaseInv'
  <2>1. ~InDeviceHalf /\ ~signal_host_event /\ 0 \notin signaled
    BY <1>16, WhichHalf DEF HostSignal, HostOnly, HostHalfPCs, PhaseInv, HostHalfInv
  <2>2. 0 \notin signaled'
    BY <1>16, <1>0, <2>1 DEF HostSignal, SectionInv, HostEvents
  <2>3. pc'[t] \in {"hostSignal", "sync2"} /\ ~InDeviceHalf'
    BY <1>16, <2>1 DEF HostSignal, InDeviceHalf, Typing
  <2> QED
    BY <1>16, <2>1, <2>2, <2>3, HostHalfFrame DEF HostSignal, HostHalfPCs, Typing
<1>17. CASE DeviceSignal
  <2> DEFINE t == queue[1].by
  <2>1. 1 \in 1..Len(queue) /\ t \in Threads /\ pc[t] \in {"hostWait", "sync1", "drain1"}
        /\ queue[1].next < last
    BY <1>17, HeadIsList, ListFacts DEF DeviceSignal, ListInv, Typing
  <2>2. InDeviceHalf
    BY <2>1, WhichHalf DEF DeviceOnly, DeviceHalfPCs
  <2>3. InDeviceHalf'
    BY <1>17, <2>1, <2>2, <1>0 DEF DeviceSignal, InDeviceHalf
  <2> QED
    BY <1>17, <2>1, <2>2, <2>3, DeviceHalfFrame DEF DeviceSignal, DeviceHalfPCs
<1>18. CASE DeviceWait
  BY <1>18 DEF DeviceWait, PhaseInv, DeviceHalfInv, HostHalfInv, InDeviceHalf, Counted1, Counted2
<1>19. CASE UNCHANGED vars
  BY <1>19 DEF vars, PhaseInv, DeviceHalfInv, HostHalfInv, InDeviceHalf, Counted1, Counted2
<1> QED
  BY <1>1, <1>2, <1>3, <1>4, <1>5, <1>6, <1>7, <1>8, <1>9, <1>10, <1>11, <1>12, <1>13, <1>14,
     <1>15, <1>16, <1>17, <1>18, <1>19 DEF Next, ThreadStep, Device, Terminating

-----------------------------------------------------------------------------
LEMMA Invariant == Spec => []IInv
<1>1. IInv /\ [Next]_vars => IInv'
  BY TypingStep, SectionStep, ListStep, PhaseStep DEF IInv, PhaseInv
<1> QED
  BY IInvInit, <1>1, PTL DEF Spec

(* The type invariant, with thread_count never above num_threads.          *)
THEOREM TypeCorrect == Spec => []TypeOK
<1>1. IInv => TypeOK
  <2> SUFFICES ASSUME IInv PROVE TypeOK
    OBVIOUS
  <2>1. Counted1 \in SUBSET Threads /\ Counted2 \in SUBSET Threads
    BY DEF Counted1, Counted2
  <2>2. /\ Cardinality(Counted1) <= Cardinality(Threads)
        /\ Cardinality(Counted2) <= Cardinality(Threads)
    BY <2>1, ThreadsAssumption, FS_Subset
  <2>3. thread_count <= num_threads
    BY <2>2 DEF IInv, DeviceHalfInv, HostHalfInv, num_threads
  <2>4. num_threads \in Nat
    BY LastFacts DEF num_threads
  <2> QED
    BY <2>3, <2>4 DEF IInv, Typing, TypeOK
<1> QED
  BY Invariant, <1>1, PTL

(* A thread resets the events of a half only when all the others have      *)
(* counted themselves and wait for the event that opens the next one.      *)
THEOREM ResetIsAlone == Spec => []ResetAlone
<1>1. IInv => ResetAlone
  <2> SUFFICES ASSUME IInv, NEW t \in Threads, NEW u \in Threads, t # u
               PROVE  /\ pc[t] = "reset1" => pc[u] = "waitLast"
                      /\ pc[t] = "reset2" => pc[u] = "waitFirst"
    BY DEF ResetAlone
  <2>1. pc[t] \in Locked => pc[u] \notin Locked
    BY DEF IInv, SectionInv
  <2>2. ASSUME pc[t] = "reset1" PROVE pc[u] = "waitLast"
    BY <2>1, <2>2 DEF IInv, DeviceHalfInv, HostHalfInv, HostHalfPCs, Counted1, Locked
  <2>3. ASSUME pc[t] = "reset2" PROVE pc[u] = "waitFirst"
    BY <2>1, <2>3 DEF IInv, DeviceHalfInv, HostHalfInv, DeviceHalfPCs, Counted2, Locked
  <2> QED
    BY <2>2, <2>3
<1> QED
  BY Invariant, <1>1, PTL

(* The shared queue is empty while events are being reset.                 *)
THEOREM SignalsAreNotLate == Spec => []NoLateSignal
<1>1. IInv /\ ResetAlone => NoLateSignal
  <2> SUFFICES ASSUME IInv, ResetAlone, NEW t \in Threads, pc[t] \in {"reset1", "reset2"}, queue # <<>>
               PROVE  FALSE
    BY DEF NoLateSignal
  <2>1. 1 \in 1..Len(queue)
    BY HeadIsList DEF IInv, Typing
  <2>2. queue[1].by \in Threads /\ pc[queue[1].by] \in OwnerPCs
    BY <2>1, ListFacts DEF IInv
  <2> QED
    BY <2>2 DEF ResetAlone, OwnerPCs
<1> QED
  BY Invariant, ResetIsAlone, <1>1, PTL

-----------------------------------------------------------------------------
(* What each place of a thread says of the events: those it has waited for *)
(* are signalled, and so are those it has yet to reset.                    *)
SignaledAt(t) ==
    /\ pc[t] \in {"execute", "hostWait"} => 0..idx[t] - 1 \subseteq signaled
    /\ pc[t] \in {"sync1", "drain1", "count1"} => DeviceEvents \subseteq signaled
    /\ pc[t] = "reset1" => idx[t]..last - 1 \subseteq signaled
    /\ pc[t] = "hostSignal" => 1..idx[t] - 1 \subseteq signaled
    /\ pc[t] \in {"sync2", "drain2", "count2"} => HostEvents \subseteq signaled
    /\ pc[t] = "reset2" => idx[t]..last \subseteq signaled

(* A thread that finds the host flag taken goes on without a wait, so the  *)
(* thread that took it must have signalled everything before it let go of  *)
(* the mutex.                                                              *)
Claimed == ~signal_host_event /\ event_mutex = NoThread
SignaledInv ==
    /\ \A t \in Threads : SignaledAt(t)
    /\ Claimed => HostEvents \subseteq signaled

(* Only the place of one thread changes, and no event is reset.            *)
LEMMA SignaledFrame ==
    ASSUME SignaledInv, NEW t \in Threads,
           \A u \in Threads : u # t => pc'[u] = pc[u] /\ idx'[u] = idx[u],
           signaled \subseteq signaled', SignaledAt(t)',
           Claimed' => Claimed \/ HostEvents \subseteq signaled'
    PROVE  SignaledInv'
  BY DEF SignaledInv, SignaledAt, DeviceEvents, HostEvents

LEMMA SignaledInit == Init => SignaledInv
  BY LastFacts DEF Init, SignaledInv, SignaledAt, Claimed

(* An event is reset by the one thread that counted last; nobody else is   *)
(* then at a place that says anything of the events.                       *)
LEMMA SignaledReset ==
    ASSUME IInv, SignaledInv, NEW t \in Threads, ResetOne(t)
    PROVE  SignaledInv'
<1>0. last \in Nat /\ last >= 1 /\ num_events = last + 1 /\ idx[t] \in Nat
  BY LastFacts DEF IInv, Typing
<1>1. event_mutex = t /\ pc[t] \in Locked
  BY DEF ResetOne, IInv, SectionInv, Locked
<1>2. \A u \in Threads : u # t => pc[u] \in {"waitLast", "waitFirst"}
  <2> SUFFICES ASSUME NEW u \in Threads, u # t PROVE pc[u] \in {"waitLast", "waitFirst"}
    OBVIOUS
  <2>1. pc[u] \notin Locked
    BY <1>1 DEF IInv, SectionInv
  <2>2. u \in Counted1 \/ u \in Counted2
    BY DEF ResetOne, IInv, DeviceHalfInv, HostHalfInv, DeviceHalfPCs, HostHalfPCs
  <2> QED
    BY <2>1, <2>2 DEF Counted1, Counted2, Locked
<1>3. SignaledAt(t)'
  <2>1. idx'[t] = idx[t] + 1 /\ pc' = pc /\ signaled' = signaled \ {idx[t]}
    BY DEF ResetOne, IInv, Typing
  <2>2. CASE pc[t] = "reset1"
    BY <1>0, <2>1, <2>2 DEF SignaledInv, SignaledAt
  <2>3. CASE pc[t] = "reset2"
    BY <1>0, <2>1, <2>3 DEF SignaledInv, SignaledAt
  <2> QED
    BY <2>2, <2>3 DEF ResetOne
<1>4. ~Claimed'
  BY <1>1, ThreadsAssumption DEF ResetOne, globals, Claimed
<1> QED
  BY <1>2, <1>3, <1>4 DEF ResetOne, SignaledInv, SignaledAt

LEMMA SignaledStep ==
    ASSUME IInv, SignaledInv, [Next]_vars
    PROVE  SignaledInv'
<1> USE DEF Go, locals, globals
<1>0. /\ last \in Nat /\ last >= 1 /\ num_events = last + 1
      /\ pc \in [Threads -> PCs] /\ idx \in [Threads -> 0..num_events] /\ signaled \subseteq Events
  BY LastFacts DEF IInv, Typing
<1>1. ASSUME NEW t \in Threads, ClaimDeviceSignal(t) PROVE SignaledInv'
  BY <1>0, <1>1, SignaledFrame DEF ClaimDeviceSignal, SignaledAt, Claimed
<1>2. ASSUME NEW t \in Threads, ExecuteSignals(t) PROVE SignaledInv'
  <2>1. SignaledAt(t)'
    BY <1>0, <1>2 DEF ExecuteSignals, SignaledInv, SignaledAt
  <2> QED
    BY <1>0, <1>2, <2>1, SignaledFrame DEF ExecuteSignals, Claimed
<1>3. ASSUME NEW t \in Threads, HostWait(t) PROVE SignaledInv'
  <2>1. SignaledAt(t)'
    <3>1. idx[t] \in Nat /\ idx'[t] = idx[t] + 1 /\ 0..idx[t] \subseteq signaled
      BY <1>0, <1>3 DEF HostWait, SignaledInv, SignaledAt
    <3> QED
      BY <1>0, <1>3, <3>1 DEF HostWait, SignaledAt, DeviceEvents
  <2> QED
    BY <1>0, <1>3, <2>1, SignaledFrame DEF HostWait, Claimed
<1>4. ASSUME NEW t \in Threads, SyncCall(t) PROVE SignaledInv'
  <2>1. SignaledAt(t)'
    BY <1>0, <1>4 DEF SyncCall, SyncPoints, DrainOf, SignaledInv, SignaledAt
  <2> QED
    BY <1>0, <1>4, <2>1, SignaledFrame DEF SyncCall, Claimed
<1>5. ASSUME NEW t \in Threads, SyncReturn(t) PROVE SignaledInv'
  <2>1. SignaledAt(t)'
    BY <1>0, <1>5 DEF SyncReturn, AfterDrain, SignaledInv, SignaledAt
  <2> QED
    BY <1>0, <1>5, <2>1, SignaledFrame DEF SyncReturn, Claimed
<1>6. ASSUME NEW t \in Threads, NextIteration(t) PROVE SignaledInv'
  BY <1>0, <1>6, SignaledFrame DEF NextIteration, SignaledAt, Claimed
<1>7. ASSUME NEW t \in Threads, CountDeviceHalf(t) PROVE SignaledInv'
  <2>1. SignaledAt(t)'
    BY <1>0, <1>7 DEF CountDeviceHalf, Count, SignaledInv, SignaledAt, DeviceEvents
  <2> QED
    BY <1>0, <1>7, <2>1, SignaledFrame DEF CountDeviceHalf, Count, Claimed
<1>8. ASSUME NEW t \in Threads, CountHostHalf(t) PROVE SignaledInv'
  <2>1. SignaledAt(t)'
    BY <1>0, <1>8 DEF CountHostHalf, Count, SignaledInv, SignaledAt, HostEvents
  <2> QED
    BY <1>0, <1>8, <2>1, SignaledFrame DEF CountHostHalf, Count, Claimed
<1>9. ASSUME NEW t \in Threads, ResetOne(t) PROVE SignaledInv'
  BY <1>9, SignaledReset
<1>10. ASSUME NEW t \in Threads, OpenHostHalf(t) PROVE SignaledInv'
  <2>1. signal_host_event
    BY <1>10 DEF OpenHostHalf, IInv, HostHalfInv, HostHalfPCs, InDeviceHalf
  <2> QED
    BY <1>0, <1>10, <2>1, SignaledFrame DEF OpenHostHalf, SignaledAt, Claimed
<1>11. ASSUME NEW t \in Threads, OpenNextIteration(t) PROVE SignaledInv'
  BY <1>0, <1>11, SignaledFrame DEF OpenNextIteration, Rearm, SignaledAt, Claimed
<1>12. ASSUME NEW t \in Threads, WaitLast(t) PROVE SignaledInv'
  BY <1>0, <1>12, SignaledFrame DEF WaitLast, SignaledAt, Claimed
<1>13. ASSUME NEW t \in Threads, WaitFirst(t) PROVE SignaledInv'
  BY <1>0, <1>13, SignaledFrame DEF WaitFirst, SignaledAt, Claimed
<1>14. ASSUME NEW t \in Threads, ExecuteWait(t) PROVE SignaledInv'
  BY <1>0, <1>14, SignaledFrame DEF ExecuteWait, SignaledAt, Claimed
<1>15. ASSUME NEW t \in Threads, ClaimHostSignal(t) PROVE SignaledInv'
  <2>1. CASE signal_host_event
    BY <1>0, <1>15, <2>1, ThreadsAssumption, SignaledFrame DEF ClaimHostSignal, SignaledAt, Claimed
  <2>2. CASE ~signal_host_event
    <3>1. HostEvents \subseteq signaled
      BY <1>15, <2>2 DEF ClaimHostSignal, SignaledInv, Claimed
    <3> QED
      BY <1>0, <1>15, <2>2, <3>1, SignaledFrame DEF ClaimHostSignal, SignaledAt, Claimed
  <2> QED
    BY <2>1, <2>2
<1>16. ASSUME NEW t \in Threads, HostSignal(t) PROVE SignaledInv'
  <2>1. idx[t] \in HostEvents /\ event_mutex = t
    BY <1>16 DEF HostSignal, IInv, SectionInv, Locked
  <2>2. idx'[t] = idx[t] + 1 /\ 1..idx[t] \subseteq signaled'
    BY <1>0, <1>16, <2>1 DEF HostSignal, SignaledInv, SignaledAt, HostEvents
  <2>3. SignaledAt(t)'
    BY <1>0, <1>16, <2>1, <2>2 DEF HostSignal, SignaledAt, HostEvents
  <2>4. Claimed' => HostEvents \subseteq signaled'
    BY <1>0, <1>16, <2>1, <2>2, ThreadsAssumption DEF HostSignal, Claimed, HostEvents
  <2> QED
    BY <1>0, <1>16, <2>3, <2>4, SignaledFrame DEF HostSignal
<1>17. CASE Device
  BY <1>17 DEF Device, DeviceSignal, DeviceWait, SignaledInv, SignaledAt, Claimed
<1>18. CASE UNCHANGED vars
  BY <1>18 DEF vars, SignaledInv, SignaledAt, Claimed
<1> QED
  BY <1>1, <1>2, <1>3, <1>4, <1>5, <1>6, <1>7, <1>8, <1>9, <1>10, <1>11, <1>12, <1>13, <1>14,
     <1>15, <1>16, <1>17, <1>18 DEF Next, ThreadStep, Terminating

(* query_event before each reset finds the event signalled.                *)
THEOREM QueriesFindSignals == Spec => []QueryFindsSignal
<1>1. SignaledInv => QueryFindsSignal
  BY DEF SignaledInv, SignaledAt, QueryFindsSignal
<1>2. IInv /\ SignaledInv /\ [Next]_vars => SignaledInv'
  BY SignaledStep
<1> QED
  BY Invariant, SignaledInit, <1>1, <1>2, PTL DEF Spec

-----------------------------------------------------------------------------
(* In the device half some threads may still be at the end of the          *)
(* iteration before, and these are one iteration behind; in the host half  *)
(* all are in the same one.                                                *)
Lagging == {"waitFirst", "sync3", "drain3"}
Behind(u, t) == InDeviceHalf /\ pc[u] \in Lagging /\ pc[t] \notin Lagging

IterationInv ==
    \A t, u \in Threads :
        /\ Behind(u, t) => iter[t] = iter[u] + 1
        /\ ~Behind(u, t) /\ ~Behind(t, u) => iter[t] = iter[u]

LEMMA IterationInit == Init => IterationInv
  BY DEF Init, IterationInv, Behind, Lagging

(* A step that neither changes the half nor moves a thread into or out of  *)
(* the end of an iteration.                                                *)
LEMMA IterationFrame ==
    ASSUME IterationInv, iter' = iter, InDeviceHalf' <=> InDeviceHalf,
           \A u \in Threads : (pc'[u] \in Lagging <=> pc[u] \in Lagging) \/ ~InDeviceHalf
    PROVE  IterationInv'
  BY DEF IterationInv, Behind

LEMMA IterationStep ==
    ASSUME IInv, IterationInv, [Next]_vars
    PROVE  IterationInv'
<1> USE DEF Go, locals, globals, Lagging
<1>0. /\ last \in Nat /\ last >= 1 /\ num_events = last + 1
      /\ pc \in [Threads -> PCs] /\ iter \in [Threads -> Nat] /\ idx \in [Threads -> 0..num_events]
  BY LastFacts DEF IInv, Typing
<1>1. ASSUME NEW t \in Threads, ClaimDeviceSignal(t) PROVE IterationInv'
  BY <1>0, <1>1, IterationFrame DEF ClaimDeviceSignal, InDeviceHalf
<1>2. ASSUME NEW t \in Threads, ExecuteSignals(t) \/ ExecuteWait(t) PROVE IterationInv'
  BY <1>0, <1>2, IterationFrame DEF ExecuteSignals, ExecuteWait, InDeviceHalf
<1>3. ASSUME NEW t \in Threads, HostWait(t) \/ WaitLast(t) PROVE IterationInv'
  BY <1>0, <1>3, IterationFrame DEF HostWait, WaitLast, InDeviceHalf
<1>4. ASSUME NEW t \in Threads, SyncCall(t) PROVE IterationInv'
  BY <1>0, <1>4, IterationFrame DEF SyncCall, SyncPoints, DrainOf, InDeviceHalf
<1>5. ASSUME NEW t \in Threads, SyncReturn(t) PROVE IterationInv'
  BY <1>0, <1>5, IterationFrame DEF SyncReturn, AfterDrain, InDeviceHalf
<1>6. ASSUME NEW t \in Threads, NextIteration(t) PROVE IterationInv'
  <2>1. InDeviceHalf /\ InDeviceHalf'
    BY <1>6 DEF NextIteration, InDeviceHalf, IInv, HostHalfInv, HostHalfPCs
  <2>2. /\ iter'[t] = iter[t] + 1 /\ pc'[t] \notin Lagging /\ pc[t] \in Lagging
        /\ \A u \in Threads : u # t => pc'[u] = pc[u] /\ iter'[u] = iter[u]
    BY <1>0, <1>6 DEF NextIteration
  <2> QED
    BY <1>0, <2>1, <2>2 DEF IterationInv, Behind
<1>7. ASSUME NEW t \in Threads, CountDeviceHalf(t) PROVE IterationInv'
  BY <1>0, <1>7, IterationFrame DEF CountDeviceHalf, Count, InDeviceHalf
<1>8. ASSUME NEW t \in Threads, CountHostHalf(t) PROVE IterationInv'
  <2>1. ~InDeviceHalf
    BY <1>8 DEF CountHostHalf, Count, InDeviceHalf, IInv, DeviceHalfInv, DeviceHalfPCs
  <2> QED
    BY <1>8, <2>1, IterationFrame DEF CountHostHalf, Count, InDeviceHalf
<1>9. ASSUME NEW t \in Threads, ResetOne(t) PROVE IterationInv'
  <2>1. CASE pc[t] = "reset1"
    <3>1. InDeviceHalf
      BY <2>1 DEF InDeviceHalf, IInv, HostHalfInv, HostHalfPCs
    <3>2. InDeviceHalf'
      BY <1>9, <2>1, <3>1 DEF ResetOne, InDeviceHalf
    <3> QED
      BY <1>9, <3>1, <3>2, IterationFrame DEF ResetOne
  <2>2. CASE pc[t] = "reset2"
    <3>1. ~InDeviceHalf /\ ~signal_host_event
      BY <2>2 DEF InDeviceHalf, IInv, HostHalfInv, DeviceHalfInv, DeviceHalfPCs
    <3> QED
      BY <1>9, <3>1, IterationFrame DEF ResetOne, InDeviceHalf
  <2> QED
    BY <1>9, <2>1, <2>2 DEF ResetOne
<1>10. ASSUME NEW t \in Threads, OpenHostHalf(t) PROVE IterationInv'
  <2>1. InDeviceHalf
    BY <1>10 DEF OpenHostHalf, InDeviceHalf, IInv, HostHalfInv, HostHalfPCs
  <2>2. \A u \in Threads : pc[u] \in {"waitLast", "reset1"}
    BY <1>10, <2>1 DEF OpenHostHalf, IInv, DeviceHalfInv, Counted1
  <2>3. ~InDeviceHalf' /\ iter' = iter
    BY <1>10 DEF OpenHostHalf, InDeviceHalf
  <2> QED
    BY <2>2, <2>3 DEF IterationInv, Behind
<1>11. ASSUME NEW t \in Threads, OpenNextIteration(t) PROVE IterationInv'
  <2>1. ~InDeviceHalf
    BY <1>11 DEF OpenNextIteration, InDeviceHalf, IInv, DeviceHalfInv, DeviceHalfPCs
  <2>2. \A u \in Threads : pc'[u] \in {"waitFirst", "reset2"}
    BY <1>0, <1>11, <2>1 DEF OpenNextIteration, IInv, HostHalfInv, Counted2
  <2>3. \A u \in Threads : u # t => pc[u] # "reset2"
    BY <1>11 DEF OpenNextIteration, IInv, SectionInv, Locked
  <2>4. \A u \in Threads : pc'[u] = "waitFirst"
    BY <1>0, <1>11, <2>2, <2>3 DEF OpenNextIteration
  <2> QED
    BY <1>11, <2>1, <2>4 DEF OpenNextIteration, IterationInv, Behind
<1>12. ASSUME NEW t \in Threads, WaitFirst(t) PROVE IterationInv'
  BY <1>0, <1>12, IterationFrame DEF WaitFirst, InDeviceHalf
<1>13. ASSUME NEW t \in Threads, ClaimHostSignal(t) PROVE IterationInv'
  <2>1. ~InDeviceHalf /\ ~InDeviceHalf'
    BY <1>13 DEF ClaimHostSignal, InDeviceHalf, IInv, DeviceHalfInv, DeviceHalfPCs
  <2> QED
    BY <1>13, <2>1, IterationFrame DEF ClaimHostSignal
<1>14. ASSUME NEW t \in Threads, HostSignal(t) PROVE IterationInv'
  <2>1. ~InDeviceHalf /\ ~signal_host_event
    BY <1>14 DEF HostSignal, InDeviceHalf, IInv, DeviceHalfInv, HostHalfInv, DeviceHalfPCs
  <2> QED
    BY <1>14, <2>1, IterationFrame DEF HostSignal, InDeviceHalf
<1>15. CASE DeviceSignal
  <2>1. queue[1].next \in Nat /\ queue[1].next < last
    <3>1. 1 \in 1..Len(queue) /\ queue[1] \in Lists
      BY <1>15, HeadIsList DEF DeviceSignal, IInv, Typing
    <3>2. queue[1].next < last
      BY <1>15, <3>1 DEF DeviceSignal, IInv, ListInv
    <3> QED
      BY <1>0, <3>1, <3>2 DEF Lists, Events
  <2>2. InDeviceHalf' <=> InDeviceHalf
    BY <1>0, <1>15, <2>1 DEF DeviceSignal, InDeviceHalf
  <2> QED
    BY <1>15, <2>2, IterationFrame DEF DeviceSignal
<1>16. CASE DeviceWait
  BY <1>16, IterationFrame DEF DeviceWait, InDeviceHalf
<1>17. CASE UNCHANGED vars
  BY <1>17 DEF vars, IterationInv, Behind, InDeviceHalf
<1> QED
  BY <1>1, <1>2, <1>3, <1>4, <1>5, <1>6, <1>7, <1>8, <1>9, <1>10, <1>11, <1>12, <1>13, <1>14,
     <1>15, <1>16, <1>17 DEF Next, ThreadStep, Device, Terminating

-----------------------------------------------------------------------------
(* Which events may be signalled.  Only one thread per device half takes   *)
(* the flag and submits the signals, and until it does nothing but the     *)
(* opening event 0 is signalled; the device signals one event after the    *)
(* other.  The thread that counts last resets them all, so that the host   *)
(* half begins with the last event alone; likewise the other way round.    *)
PastClaim == {"execute", "hostWait", "sync1", "drain1", "count1", "waitLast", "reset1"}

FreshDevice ==
    /\ signal_device_event =>
           queue = <<>> /\ signaled \subseteq {0} /\ \A t \in Threads : pc[t] \notin PastClaim
    /\ \A t \in Threads : pc[t] = "execute" =>
           queue = <<>> /\ signaled \subseteq {0} /\ \A u \in Threads : pc[u] = "execute" => u = t
    /\ Len(queue) <= 1
    /\ queue # <<>> => signaled \cap queue[1].next..last \subseteq {0}
    /\ \A t \in Threads : pc[t] = "reset1" => signaled \subseteq idx[t]..last - 1

FreshHost ==
    /\ ~signal_device_event
    /\ signal_host_event => signaled \subseteq {last}
    /\ \A t \in Threads : pc[t] = "hostSignal" => signaled \subseteq (1..idx[t] - 1) \cup {last}
    /\ \A t \in Threads : pc[t] = "reset2" => signaled \subseteq idx[t]..last

FreshInv == (InDeviceHalf => FreshDevice) /\ (~InDeviceHalf => FreshHost)

LEMMA FreshInit == Init => FreshInv
  BY LastFacts, LenProperties, EmptySeq DEF Init, FreshInv, FreshDevice, InDeviceHalf, PastClaim

(* A step that touches neither events, flags nor queue and brings no       *)
(* thread to a place where signals are submitted, given or taken back.     *)
LEMMA FreshFrame ==
    ASSUME FreshInv, UNCHANGED <<signaled, queue, signal_device_event, signal_host_event>>,
           \A u \in Threads :
               /\ pc'[u] \in PastClaim => pc[u] \in PastClaim
               /\ pc'[u] \in {"execute", "reset1", "hostSignal", "reset2"} =>
                      pc'[u] = pc[u] /\ idx'[u] = idx[u]
    PROVE  FreshInv'
<1>1. InDeviceHalf' <=> InDeviceHalf
  BY DEF InDeviceHalf
<1>2. FreshDevice => FreshDevice'
  BY DEF FreshDevice
<1>3. FreshHost => FreshHost'
  BY DEF FreshHost
<1> QED
  BY <1>1, <1>2, <1>3 DEF FreshInv

LEMMA FreshStep ==
    ASSUME IInv, FreshInv, [Next]_vars
    PROVE  FreshInv'
<1> USE DEF Go, locals, globals
<1>0. /\ last \in Nat /\ last >= 1 /\ num_events = last + 1
      /\ pc \in [Threads -> PCs] /\ idx \in [Threads -> 0..num_events] /\ signaled \subseteq Events
      /\ queue \in Seq(Lists) /\ Len(queue) \in Nat
  BY LastFacts, LenProperties DEF IInv, Typing
<1>1. ASSUME NEW t \in Threads, ClaimDeviceSignal(t) PROVE FreshInv'
  <2>1. InDeviceHalf /\ InDeviceHalf'
    BY <1>1 DEF ClaimDeviceSignal, InDeviceHalf, IInv, HostHalfInv, HostHalfPCs
  <2>2. FreshDevice'
    <3>1. FreshDevice
      BY <2>1 DEF FreshInv
    <3>2. CASE signal_device_event
      BY <1>0, <1>1, <3>1, <3>2 DEF ClaimDeviceSignal, FreshDevice, PastClaim
    <3>3. CASE ~signal_device_event
      BY <1>0, <1>1, <3>1, <3>3 DEF ClaimDeviceSignal, FreshDevice
    <3> QED
      BY <3>2, <3>3
  <2> QED
    BY <2>1, <2>2 DEF FreshInv
<1>2. ASSUME NEW t \in Threads, ExecuteSignals(t) PROVE FreshInv'
  <2>1. InDeviceHalf /\ InDeviceHalf'
    BY <1>2 DEF ExecuteSignals, InDeviceHalf, IInv, HostHalfInv, HostHalfPCs
  <2>2. FreshDevice /\ queue = <<>> /\ signaled \subseteq {0} /\ ~signal_device_event
    BY <1>2, <2>1 DEF ExecuteSignals, FreshInv, FreshDevice, PastClaim
  <2>3. queue' = <<[op |-> "signal", by |-> t, next |-> 0]>> /\ Len(queue') = 1
    BY <1>2, <2>2 DEF ExecuteSignals
  <2>4. \A u \in Threads : pc'[u] # "execute" /\ (pc'[u] = "reset1" => pc[u] = "reset1")
    BY <1>0, <1>2, <2>2 DEF ExecuteSignals, FreshDevice
  <2>5. FreshDevice'
    BY <1>0, <1>2, <2>2, <2>3, <2>4 DEF ExecuteSignals, FreshDevice
  <2> QED
    BY <2>1, <2>5 DEF FreshInv
<1>3. ASSUME NEW t \in Threads,
             HostWait(t) \/ SyncCall(t) \/ SyncReturn(t) \/ NextIteration(t) \/ WaitLast(t) \/ WaitFirst(t)
      PROVE  FreshInv'
  <2>1. /\ UNCHANGED <<signaled, queue, signal_device_event, signal_host_event>>
        /\ pc'[t] \notin {"execute", "reset1", "hostSignal", "reset2"}
        /\ pc'[t] \in PastClaim => pc[t] \in PastClaim
        /\ \A u \in Threads : u # t => pc'[u] = pc[u] /\ idx'[u] = idx[u]
    BY <1>0, <1>3 DEF HostWait, SyncCall, SyncReturn, NextIteration, WaitLast, WaitFirst,
                      SyncPoints, DrainOf, AfterDrain, PastClaim
  <2> QED
    BY <2>1, FreshFrame
<1>4. ASSUME NEW t \in Threads, CountDeviceHalf(t) PROVE FreshInv'
  <2>0. InDeviceHalf /\ InDeviceHalf'
    BY <1>4 DEF CountDeviceHalf, Count, InDeviceHalf, IInv, HostHalfInv, HostHalfPCs
  <2>1. signaled \subseteq 0..last - 1
    BY <1>0, <2>0 DEF InDeviceHalf, Events
  <2>2. /\ UNCHANGED <<signaled, queue, signal_device_event>>
        /\ pc[t] \in PastClaim /\ pc'[t] # "execute" /\ (pc'[t] = "reset1" => idx'[t] = 0)
        /\ \A u \in Threads : u # t => pc'[u] = pc[u] /\ idx'[u] = idx[u]
    BY <1>0, <1>4 DEF CountDeviceHalf, Count, PastClaim
  <2> QED
    BY <2>0, <2>1, <2>2 DEF FreshInv, FreshDevice
<1>5. ASSUME NEW t \in Threads, CountHostHalf(t) PROVE FreshInv'
  <2>0. ~InDeviceHalf /\ ~InDeviceHalf'
    BY <1>5 DEF CountHostHalf, Count, InDeviceHalf, IInv, DeviceHalfInv, DeviceHalfPCs
  <2>1. signaled \subseteq 1..last
    <3>1. 0 \notin signaled
      BY <2>0 DEF IInv, HostHalfInv
    <3> QED
      BY <1>0, <3>1 DEF Events
  <2>2. /\ UNCHANGED <<signaled, queue, signal_device_event, signal_host_event>>
        /\ pc'[t] # "hostSignal" /\ (pc'[t] = "reset2" => idx'[t] = 1)
        /\ \A u \in Threads : u # t => pc'[u] = pc[u] /\ idx'[u] = idx[u]
    BY <1>0, <1>5 DEF CountHostHalf, Count
  <2> QED
    BY <2>0, <2>1, <2>2 DEF FreshInv, FreshHost
<1>6. ASSUME NEW t \in Threads, ResetOne(t) PROVE FreshInv'
  <2>0. /\ UNCHANGED <<pc, queue, signal_device_event, signal_host_event>>
        /\ signaled' = signaled \ {idx[t]} /\ idx'[t] = idx[t] + 1 /\ idx[t] \in Nat
        /\ \A u \in Threads : u # t => idx'[u] = idx[u] /\ pc[u] \notin {"reset1", "reset2", "hostSignal"}
    BY <1>0, <1>6 DEF ResetOne, IInv, SectionInv, Locked
  <2>1. CASE pc[t] = "reset1"
    <3>1. InDeviceHalf /\ InDeviceHalf'
      BY <2>0, <2>1 DEF InDeviceHalf, IInv, HostHalfInv, HostHalfPCs
    <3> QED
      BY <1>0, <2>0, <2>1, <3>1 DEF FreshInv, FreshDevice
  <2>2. CASE pc[t] = "reset2"
    <3>1. ~signal_host_event
      BY <2>2 DEF InDeviceHalf, IInv, HostHalfInv, DeviceHalfInv, DeviceHalfPCs
    <3>2. ~InDeviceHalf /\ ~InDeviceHalf'
      BY <2>0, <3>1 DEF InDeviceHalf
    <3> QED
      BY <1>0, <2>0, <2>2, <3>1, <3>2 DEF FreshInv, FreshHost
  <2> QED
    BY <1>6, <2>1, <2>2 DEF ResetOne
<1>7. ASSUME NEW t \in Threads, OpenHostHalf(t) PROVE FreshInv'
  <2>1. InDeviceHalf /\ ~InDeviceHalf'
    BY <1>7 DEF OpenHostHalf, InDeviceHalf, IInv, HostHalfInv, HostHalfPCs
  <2>2. signaled' \subseteq {last} /\ ~signal_device_event'
    <3>1. pc[t] \in {"reset1"} /\ queue' = queue /\ signaled \subseteq last..last - 1
      BY <1>7, <2>1 DEF OpenHostHalf, FreshInv, FreshDevice
    <3>2. ~signal_device_event
      BY <1>7, <2>1 DEF OpenHostHalf, FreshInv, FreshDevice, PastClaim
    <3> QED
      BY <1>0, <1>7, <3>1, <3>2 DEF OpenHostHalf
  <2>3. \A u \in Threads : pc'[u] = "waitLast"
    BY <1>0, <1>7, <2>1 DEF OpenHostHalf, IInv, DeviceHalfInv, SectionInv, Locked, Counted1
  <2> QED
    BY <2>1, <2>2, <2>3 DEF FreshInv, FreshHost
<1>8. ASSUME NEW t \in Threads, OpenNextIteration(t) PROVE FreshInv'
  <2>1. ~InDeviceHalf
    BY <1>8 DEF OpenNextIteration, InDeviceHalf, IInv, DeviceHalfInv, DeviceHalfPCs
  <2>2. \A u \in Threads : pc'[u] = "waitFirst" /\ pc[u] \in {"waitFirst", "reset2"}
    BY <1>0, <1>8, <2>1 DEF OpenNextIteration, IInv, HostHalfInv, SectionInv, Locked, Counted2
  <2>3. signaled' \subseteq {0}
    BY <1>0, <1>8, <2>1 DEF OpenNextIteration, FreshInv, FreshHost
  <2>4. queue = <<>> /\ queue' = <<>>
    <3>1. ~(1 \in 1..Len(queue))
      BY <2>2, ListFacts DEF IInv, OwnerPCs
    <3>2. queue = <<>>
      BY <1>0, <3>1, EmptySeq
    <3> QED
      BY <1>8, <3>2 DEF OpenNextIteration
  <2>5. InDeviceHalf'
    BY <1>0, <1>8, <2>3 DEF OpenNextIteration, Rearm, InDeviceHalf
  <2>6. Len(queue') = 0
    BY <2>4
  <2> QED
    BY <2>2, <2>3, <2>4, <2>5, <2>6 DEF FreshInv, FreshDevice, PastClaim
<1>9. ASSUME NEW t \in Threads, ExecuteWait(t) PROVE FreshInv'
  <2>1. ~InDeviceHalf /\ ~InDeviceHalf'
    BY <1>9 DEF ExecuteWait, InDeviceHalf, IInv, DeviceHalfInv, DeviceHalfPCs
  <2>2. FreshHost
    BY <2>1 DEF FreshInv
  <2>3. FreshHost'
    BY <1>0, <1>9, <2>2 DEF ExecuteWait, FreshHost
  <2> QED
    BY <2>1, <2>3 DEF FreshInv
<1>10. ASSUME NEW t \in Threads, ClaimHostSignal(t) PROVE FreshInv'
  <2>1. ~InDeviceHalf /\ ~InDeviceHalf'
    BY <1>10 DEF ClaimHostSignal, InDeviceHalf, IInv, DeviceHalfInv, DeviceHalfPCs
  <2>2. FreshHost
    BY <2>1 DEF FreshInv
  <2>3. FreshHost'
    BY <1>0, <1>10, <2>2 DEF ClaimHostSignal, FreshHost
  <2> QED
    BY <2>1, <2>3 DEF FreshInv
<1>11. ASSUME NEW t \in Threads, HostSignal(t) PROVE FreshInv'
  <2>1. ~InDeviceHalf /\ ~signal_host_event
    BY <1>11 DEF HostSignal, InDeviceHalf, IInv, DeviceHalfInv, HostHalfInv, DeviceHalfPCs
  <2>2. ~InDeviceHalf' /\ FreshHost
    BY <1>11, <2>1 DEF HostSignal, InDeviceHalf, FreshInv
  <2>3. /\ idx[t] \in HostEvents /\ idx'[t] = idx[t] + 1 /\ signaled' = signaled \cup {idx[t]}
        /\ \A u \in Threads : u # t => pc'[u] = pc[u] /\ pc[u] \notin {"hostSignal", "reset2"}
        /\ pc'[t] # "reset2" /\ UNCHANGED <<signal_device_event, signal_host_event>>
    BY <1>0, <1>11 DEF HostSignal, IInv, SectionInv, Locked
  <2>4. FreshHost'
    BY <1>0, <1>11, <2>1, <2>2, <2>3 DEF HostSignal, FreshHost, HostEvents
  <2> QED
    BY <2>2, <2>4 DEF FreshInv
<1>12. CASE DeviceSignal
  <2>1. 1 \in 1..Len(queue) /\ queue[1] \in Lists /\ queue[1].by \in Threads /\ queue[1].next < last
        /\ pc[queue[1].by] \in {"hostWait", "sync1", "drain1"}
    <3>1. 1 \in 1..Len(queue) /\ queue[1] \in Lists /\ queue[1].op = "signal"
      BY <1>0, <1>12, HeadIsList DEF DeviceSignal
    <3> QED
      BY <3>1 DEF IInv, ListInv, Lists
  <2>2. InDeviceHalf /\ queue[1].next \in Nat
    BY <1>0, <2>1 DEF IInv, HostHalfInv, HostHalfPCs, Lists, Events
  <2>3. InDeviceHalf'
    BY <1>0, <1>12, <2>1, <2>2 DEF DeviceSignal, InDeviceHalf
  <2>4. /\ FreshDevice /\ Len(queue) <= 1 /\ ~signal_device_event
        /\ \A u \in Threads : pc[u] \notin {"execute", "reset1"}
    <3>1. FreshDevice /\ queue # <<>>
      BY <1>12, <2>2 DEF DeviceSignal, FreshInv
    <3>2. ASSUME NEW u \in Threads, pc[u] = "reset1" PROVE FALSE
      <4>1. queue[1].by \in Counted1
        BY <2>1, <2>2, <3>2 DEF IInv, DeviceHalfInv
      <4> QED
        BY <2>1, <4>1 DEF Counted1
    <3>3. Len(queue) <= 1
      BY <3>1 DEF FreshDevice
    <3>4. ~signal_device_event
      BY <3>1 DEF FreshDevice
    <3>5. \A u \in Threads : pc[u] # "execute"
      BY <3>1 DEF FreshDevice
    <3> QED
      BY <3>1, <3>2, <3>3, <3>4, <3>5
  <2>5. CASE queue[1].next = last - 1
    <3>1. queue' = <<>>
      BY <1>0, <1>12, <2>4, <2>5, Retired, EmptySeq DEF DeviceSignal, Retire
    <3> QED
      BY <1>12, <2>3, <2>4, <3>1 DEF DeviceSignal, FreshInv, FreshDevice
  <2>6. CASE queue[1].next # last - 1
    <3>1. queue' = [queue EXCEPT ![1].next = @ + 1]
      BY <1>12, <2>6 DEF DeviceSignal
    <3>2. Len(queue') <= 1 /\ queue'[1].next = queue[1].next + 1
      BY <1>0, <2>1, <2>4, <3>1 DEF Lists
    <3> QED
      BY <1>0, <1>12, <2>2, <2>3, <2>4, <3>2 DEF DeviceSignal, FreshInv, FreshDevice
  <2> QED
    BY <2>5, <2>6
<1>13. CASE DeviceWait
  <2>1. 1 \in 1..Len(queue) /\ queue[1].by \in Threads
        /\ pc[queue[1].by] \in {"hostHalf", "hostSignal", "sync2", "drain2"}
    BY <1>13, HeadIsList DEF DeviceWait, IInv, Typing, ListInv, Lists
  <2>2. ~InDeviceHalf /\ ~InDeviceHalf'
    BY <1>13, <2>1 DEF DeviceWait, InDeviceHalf, IInv, DeviceHalfInv, DeviceHalfPCs
  <2> QED
    BY <1>13, <2>2 DEF DeviceWait, FreshInv, FreshHost
<1>14. CASE UNCHANGED vars
  BY <1>14, FreshFrame DEF vars
<1> QED
  BY <1>1, <1>2, <1>3, <1>4, <1>5, <1>6, <1>7, <1>8, <1>9, <1>10, <1>11, <1>12, <1>13, <1>14
     DEF Next, ThreadStep, Device, Terminating

(* No event that a half has yet to signal is left with a signal of an      *)
(* earlier half, but for the two that open a half: event 0 (:433) for the  *)
(* device half, the last event (:402) for the host half.                   *)
THEOREM SignalsAreFresh == Spec => []NoStaleSignal
<1>1. IInv /\ FreshInv => NoStaleSignal
  <2> SUFFICES ASSUME IInv, FreshInv, NEW e \in signaled
               PROVE  (DeviceYetToSignal(e) => e = 0) /\ (HostYetToSignal(e) => e = last)
    BY DEF NoStaleSignal
  <2>0. last \in Nat /\ e \in Events /\ queue \in Seq(Lists) /\ Len(queue) \in Nat
    BY LastFacts, LenProperties DEF IInv, Typing
  <2>1. CASE InDeviceHalf
    <3>1. FreshDevice /\ \A t \in Threads : pc[t] \in DeviceHalfPCs
      BY <2>1 DEF FreshInv, IInv, DeviceHalfInv
    <3>2. ~HostYetToSignal(e)
      BY <3>1 DEF HostYetToSignal, DeviceHalfPCs
    <3>3. ASSUME NEW i \in 1..Len(queue), e \in queue[i].next..last - 1 PROVE e = 0
      <4>1. i = 1 /\ queue # <<>>
        BY <2>0, <3>1 DEF FreshDevice
      <4>2. e \in signaled \cap queue[1].next..last
        BY <2>0, <3>3, <4>1, HeadIsList DEF Lists, Events
      <4> QED
        BY <3>1, <4>1, <4>2 DEF FreshDevice
    <3> QED
      BY <3>1, <3>2, <3>3 DEF DeviceYetToSignal, FreshDevice
  <2>2. CASE ~InDeviceHalf
    <3>1. FreshHost /\ \A t \in Threads : pc[t] \in HostHalfPCs
      BY <2>2 DEF FreshInv, IInv, HostHalfInv
    <3>2. \A i \in 1..Len(queue) : queue[i].op # "signal"
      <4> SUFFICES ASSUME NEW i \in 1..Len(queue), queue[i].op = "signal" PROVE FALSE
        OBVIOUS
      <4>1. queue[i].by \in Threads
        BY ListFacts DEF IInv
      <4>2. pc[queue[i].by] \in {"hostWait", "sync1", "drain1"}
        BY DEF IInv, ListInv
      <4> QED
        BY <3>1, <4>1, <4>2 DEF HostHalfPCs
    <3>3. ~DeviceYetToSignal(e)
      BY <3>1, <3>2 DEF DeviceYetToSignal, FreshHost, HostHalfPCs
    <3>4. ASSUME NEW t \in Threads, pc[t] = "hostSignal", e \in idx[t]..last PROVE e = last
      <4>1. idx[t] \in Nat
        BY <2>0, LastFacts DEF IInv, Typing
      <4> QED
        BY <2>0, <3>1, <3>4, <4>1 DEF FreshHost, Events
    <3> QED
      BY <3>1, <3>3, <3>4 DEF HostYetToSignal, FreshHost
  <2> QED
    BY <2>1, <2>2
<1>2. IInv /\ FreshInv /\ [Next]_vars => FreshInv'
  BY FreshStep
<1> QED
  BY Invariant, FreshInit, <1>1, <1>2, PTL DEF Spec

-----------------------------------------------------------------------------
(* Every wait has its answer under way.  The mutex is held by a thread in  *)
(* a locked section, a synchronize waits for lists that are still on the   *)
(* queue, and a thread is done when it has run all its iterations.         *)
WaitInv ==
    /\ event_mutex # NoThread => pc[event_mutex] \in Locked
    /\ \A t \in Threads : behind[t] <= Len(queue)
    /\ \A t \in Threads : iter[t] <= num_iterations /\ (pc[t] = "done" <=> iter[t] = num_iterations)

(* Once all have counted, one of them has found itself the last and is     *)
(* about to open the next half; only it resets the last event.             *)
OpeningInv ==
    /\ InDeviceHalf /\ Counted1 = Threads => \E t \in Threads : pc[t] = "reset1"
    /\ ~InDeviceHalf /\ Counted2 = Threads => \E t \in Threads : pc[t] = "reset2"
    /\ ~InDeviceHalf /\ last \notin signaled => Counted2 = Threads

(* In the device half a thread is past the claim only when the flag has    *)
(* been taken, and then the list of signals is about to be submitted, is   *)
(* on the queue, or has run.                                               *)
Submitting == \E t \in Threads : pc[t] = "execute"
OnTheQueue == \E i \in 1..Len(queue) : queue[i].op = "signal" /\ 0..queue[i].next - 1 \subseteq signaled
Resetting == \E t \in Threads : pc[t] = "reset1"
UnderWay == Submitting \/ OnTheQueue \/ DeviceEvents \subseteq signaled \/ Resetting

SubmittedInv ==
    InDeviceHalf =>
        /\ (\E t \in Threads : pc[t] \in PastClaim) => ~signal_device_event
        /\ ~signal_device_event => UnderWay

LEMMA WaitInit == Init => WaitInv
  BY LastFacts, BoundsAssumption, LenProperties DEF Init, WaitInv

(* A synchronize waits for what is on the queue, so both shrink together;  *)
(* the mutex is taken together with a locked section and left with it.     *)
LEMMA WaitStep ==
    ASSUME IInv, WaitInv, [Next]_vars
    PROVE  WaitInv'
<1> USE DEF Go, locals, globals, Locked, WaitInv
<1>0. /\ pc \in [Threads -> PCs] /\ iter \in [Threads -> Nat] /\ idx \in [Threads -> 0..num_events]
      /\ behind \in [Threads -> Nat] /\ queue \in Seq(Lists) /\ Len(queue) \in Nat
      /\ event_mutex \in Threads \cup {NoThread} /\ NoThread \notin Threads
      /\ num_iterations \in Nat
  BY LenProperties, ThreadsAssumption, BoundsAssumption DEF IInv, Typing
<1>1. ASSUME NEW t \in Threads, ClaimDeviceSignal(t) PROVE WaitInv'
  BY <1>0, <1>1 DEF ClaimDeviceSignal
<1>2. ASSUME NEW t \in Threads, ExecuteSignals(t) PROVE WaitInv'
  <2>1. [op |-> "signal", by |-> t, next |-> 0] \in Lists
    BY LastFacts DEF Lists, Events
  <2>2. Len(queue') = Len(queue) + 1
    BY <1>0, <1>2, <2>1, Submitted DEF ExecuteSignals
  <2> QED
    BY <1>0, <1>2, <2>2 DEF ExecuteSignals
<1>3. ASSUME NEW t \in Threads, HostWait(t) PROVE WaitInv'
  BY <1>0, <1>3 DEF HostWait
<1>4. ASSUME NEW t \in Threads, SyncCall(t) PROVE WaitInv'
  BY <1>0, <1>4 DEF SyncCall, SyncPoints, DrainOf
<1>5. ASSUME NEW t \in Threads, SyncReturn(t) PROVE WaitInv'
  BY <1>0, <1>5 DEF SyncReturn, AfterDrain
<1>6. ASSUME NEW t \in Threads, NextIteration(t) PROVE WaitInv'
  BY <1>0, <1>6 DEF NextIteration
<1>7. ASSUME NEW t \in Threads, CountDeviceHalf(t) PROVE WaitInv'
  BY <1>0, <1>7 DEF CountDeviceHalf, Count
<1>8. ASSUME NEW t \in Threads, CountHostHalf(t) PROVE WaitInv'
  BY <1>0, <1>8 DEF CountHostHalf, Count
<1>9. ASSUME NEW t \in Threads, ResetOne(t) PROVE WaitInv'
  BY <1>0, <1>9 DEF ResetOne
<1>10. ASSUME NEW t \in Threads, OpenHostHalf(t) \/ OpenNextIteration(t) PROVE WaitInv'
  BY <1>0, <1>10 DEF OpenHostHalf, OpenNextIteration
<1>11. ASSUME NEW t \in Threads, WaitLast(t) \/ WaitFirst(t) PROVE WaitInv'
  BY <1>0, <1>11 DEF WaitLast, WaitFirst
<1>12. ASSUME NEW t \in Threads, ExecuteWait(t) PROVE WaitInv'
  <2>1. [op |-> "wait", by |-> t, next |-> 1] \in Lists
    BY LastFacts DEF Lists, Events
  <2>2. Len(queue') = Len(queue) + 1
    BY <1>0, <1>12, <2>1, Submitted DEF ExecuteWait
  <2> QED
    BY <1>0, <1>12, <2>2 DEF ExecuteWait
<1>13. ASSUME NEW t \in Threads, ClaimHostSignal(t) PROVE WaitInv'
  BY <1>0, <1>13 DEF ClaimHostSignal
<1>14. ASSUME NEW t \in Threads, HostSignal(t) PROVE WaitInv'
  BY <1>0, <1>14 DEF HostSignal
<1>15. CASE Device
  <2>1. queue # <<>> /\ UNCHANGED <<pc, iter, event_mutex>>
    BY <1>15 DEF Device, DeviceSignal, DeviceWait
  <2>2. CASE Retire
    <3>1. Len(queue') = Len(queue) - 1
      BY <1>0, <2>1, <2>2, Retired DEF Retire
    <3>2. \A t \in Threads : behind'[t] = IF behind[t] > 0 THEN behind[t] - 1 ELSE 0
      BY <2>2 DEF Retire
    <3>3. Len(queue) >= 1
      BY <1>0, <2>1, HeadIsList
    <3> QED
      BY <1>0, <2>1, <3>1, <3>2, <3>3
  <2>3. CASE queue' = [queue EXCEPT ![1].next = @ + 1] /\ UNCHANGED behind
    <3>1. Len(queue') = Len(queue)
      BY <1>0, <2>3
    <3> QED
      BY <1>0, <2>1, <2>3, <3>1
  <2> QED
    BY <1>15, <2>2, <2>3 DEF Device, DeviceSignal, DeviceWait
<1>16. CASE UNCHANGED vars
  BY <1>16 DEF vars
<1> QED
  BY <1>1, <1>2, <1>3, <1>4, <1>5, <1>6, <1>7, <1>8, <1>9, <1>10, <1>11, <1>12, <1>13, <1>14,
     <1>15, <1>16 DEF Next, ThreadStep, Terminating

-----------------------------------------------------------------------------
(* Away from the two waits its place tells which half a thread is in.      *)
LEMMA HalfOf ==
    ASSUME IInv, NEW t \in Threads
    PROVE  /\ pc[t] \in {"deviceHalf", "execute", "hostWait", "sync1", "drain1", "count1", "reset1",
                        "sync3", "drain3"} => InDeviceHalf
           /\ pc[t] \in {"executeWait", "hostHalf", "hostSignal", "sync2", "drain2", "count2", "reset2"} =>
                  ~InDeviceHalf
  BY DEF IInv, DeviceHalfInv, HostHalfInv, DeviceHalfPCs, HostHalfPCs

(* The half changes only where a thread that counted last opens the next.  *)
LEMMA HalfKept ==
    ASSUME IInv, [Next]_vars,
           \A t \in Threads : ~OpenHostHalf(t) /\ ~OpenNextIteration(t)
    PROVE  InDeviceHalf' <=> InDeviceHalf
<1> USE DEF Go, locals, globals, InDeviceHalf
<1>0. last \in Nat /\ last >= 1 /\ num_events = last + 1
  BY LastFacts
<1>1. ASSUME NEW t \in Threads,
             \/ ClaimDeviceSignal(t) \/ ExecuteSignals(t) \/ HostWait(t) \/ SyncCall(t) \/ SyncReturn(t)
             \/ NextIteration(t) \/ CountDeviceHalf(t) \/ CountHostHalf(t) \/ WaitLast(t)
             \/ WaitFirst(t) \/ ExecuteWait(t)
      PROVE  InDeviceHalf' <=> InDeviceHalf
  <2>1. UNCHANGED <<signaled, signal_host_event>>
    BY <1>1 DEF ClaimDeviceSignal, ExecuteSignals, HostWait, SyncCall, SyncReturn, NextIteration,
                CountDeviceHalf, CountHostHalf, Count, WaitLast, WaitFirst, ExecuteWait
  <2> QED
    BY <2>1
<1>2. ASSUME NEW t \in Threads, ResetOne(t) PROVE InDeviceHalf' <=> InDeviceHalf
  <2>1. CASE pc[t] = "reset1"
    BY <1>0, <1>2, <2>1 DEF ResetOne
  <2>2. CASE pc[t] = "reset2"
    <3>1. ~signal_host_event
      BY <2>2, HalfOf DEF IInv, HostHalfInv
    <3> QED
      BY <1>2, <3>1 DEF ResetOne
  <2> QED
    BY <1>2, <2>1, <2>2 DEF ResetOne
<1>3. ASSUME NEW t \in Threads, ClaimHostSignal(t) PROVE InDeviceHalf' <=> InDeviceHalf
  BY <1>3, HalfOf DEF ClaimHostSignal
<1>4. ASSUME NEW t \in Threads, HostSignal(t) PROVE InDeviceHalf' <=> InDeviceHalf
  BY <1>4, HalfOf DEF HostSignal, IInv, HostHalfInv
<1>5. CASE DeviceSignal
  <2>1. 1 \in 1..Len(queue) /\ queue[1] \in Lists
    BY <1>5, HeadIsList DEF DeviceSignal, IInv, Typing
  <2>2. queue[1].next \in Nat /\ queue[1].next < last
    BY <1>0, <1>5, <2>1 DEF DeviceSignal, IInv, ListInv, Lists, Events
  <2> QED
    BY <1>0, <1>5, <2>2 DEF DeviceSignal
<1>6. CASE DeviceWait \/ UNCHANGED vars
  BY <1>6 DEF DeviceWait, vars
<1> QED
  BY <1>1, <1>2, <1>3, <1>4, <1>5, <1>6 DEF Next, ThreadStep, Device, Terminating

(* The thread that opens a half finds all others waiting for it to do so.  *)
LEMMA HalfOpened ==
    ASSUME IInv, NEW t \in Threads
    PROVE  /\ OpenHostHalf(t) => ~InDeviceHalf' /\ last \in signaled' /\ \A u \in Threads : pc'[u] = "waitLast"
           /\ OpenNextIteration(t) => \A u \in Threads : pc'[u] = "waitFirst"
<1> USE DEF Go, locals, globals
<1>1. ASSUME pc[t] \in Locked, NEW u \in Threads, u # t PROVE pc[u] \notin Locked
  BY <1>1 DEF IInv, SectionInv
<1>2. ASSUME OpenHostHalf(t)
      PROVE  ~InDeviceHalf' /\ last \in signaled' /\ \A u \in Threads : pc'[u] = "waitLast"
  <2>1. Counted1 = Threads
    BY <1>2, HalfOf DEF OpenHostHalf, IInv, DeviceHalfInv
  <2> QED
    BY <1>1, <1>2, <2>1 DEF OpenHostHalf, InDeviceHalf, Counted1, Locked, IInv, Typing
<1>3. ASSUME OpenNextIteration(t) PROVE \A u \in Threads : pc'[u] = "waitFirst"
  <2>1. Counted2 = Threads
    BY <1>3, HalfOf DEF OpenNextIteration, IInv, HostHalfInv
  <2> QED
    BY <1>1, <1>3, <2>1 DEF OpenNextIteration, Counted2, Locked, IInv, Typing
<1> QED
  BY <1>2, <1>3

-----------------------------------------------------------------------------
LEMMA OpeningInit == Init => OpeningInv
  BY ThreadsAssumption, LastFacts DEF Init, OpeningInv, InDeviceHalf, Counted1

(* A step within a half that neither counts nor moves a thread that has    *)
(* counted, and does not reset the last event.                             *)
LEMMA OpeningFrame ==
    ASSUME OpeningInv, InDeviceHalf' <=> InDeviceHalf,
           ~InDeviceHalf /\ last \in signaled => last \in signaled',
           \A u \in Threads :
               \/ pc'[u] = pc[u]
               \/ InDeviceHalf /\ {pc[u], pc'[u]} \cap {"waitLast", "reset1"} = {}
               \/ ~InDeviceHalf /\ {pc[u], pc'[u]} \cap {"waitFirst", "reset2"} = {}
    PROVE  OpeningInv'
<1>1. InDeviceHalf => Counted1' = Counted1 /\ \A u \in Threads : pc[u] = "reset1" => pc'[u] = "reset1"
  BY DEF Counted1
<1>2. ~InDeviceHalf => Counted2' = Counted2 /\ \A u \in Threads : pc[u] = "reset2" => pc'[u] = "reset2"
  BY DEF Counted2
<1> QED
  BY <1>1, <1>2 DEF OpeningInv

(* The thread that counts last goes on to the reset.                       *)
LEMMA OpeningCount ==
    ASSUME IInv, IInv', OpeningInv, InDeviceHalf' <=> InDeviceHalf, NEW t \in Threads,
           \/ CountDeviceHalf(t) /\ InDeviceHalf
           \/ CountHostHalf(t) /\ ~InDeviceHalf
    PROVE  OpeningInv'
<1> USE DEF Go
<1>1. CASE CountDeviceHalf(t) /\ InDeviceHalf
  <2>1. Counted1' = Threads => AllCounted(thread_count')
    BY <1>1 DEF IInv, DeviceHalfInv, AllCounted, num_threads
  <2>2. AllCounted(thread_count') => pc'[t] = "reset1"
    BY <1>1 DEF CountDeviceHalf, Count, IInv, Typing
  <2> QED
    BY <1>1, <2>1, <2>2 DEF OpeningInv
<1>2. CASE CountHostHalf(t) /\ ~InDeviceHalf
  <2>1. Counted2' = Threads => AllCounted(thread_count')
    BY <1>2 DEF IInv, HostHalfInv, AllCounted, num_threads
  <2>2. AllCounted(thread_count') => pc'[t] = "reset2"
    BY <1>2 DEF CountHostHalf, Count, IInv, Typing
  <2>3. pc[t] \notin {"waitFirst", "reset2"} /\ signaled' = signaled
    BY <1>2 DEF CountHostHalf, Count
  <2>4. last \in signaled'
    BY <1>2, <2>3 DEF OpeningInv, Counted2
  <2> QED
    BY <1>2, <2>1, <2>2, <2>4 DEF OpeningInv
<1> QED
  BY <1>1, <1>2

LEMMA OpeningStep ==
    ASSUME IInv, IInv', OpeningInv, [Next]_vars
    PROVE  OpeningInv'
<1> USE DEF Go, locals, globals
<1>0. /\ last \in Nat /\ last >= 1 /\ num_events = last + 1 /\ pc \in [Threads -> PCs]
  BY LastFacts DEF IInv, Typing
<1>1. ASSUME NEW t \in Threads, OpenHostHalf(t) PROVE OpeningInv'
  BY <1>1, HalfOpened DEF OpeningInv, Counted2
<1>2. ASSUME NEW t \in Threads, OpenNextIteration(t) PROVE OpeningInv'
  <2>1. InDeviceHalf'
    <3>1. last \in Nat /\ last >= 1 /\ ~InDeviceHalf /\ signal_host_event'
      BY <1>0, <1>2, HalfOf DEF OpenNextIteration, Rearm
    <3>2. last \notin signaled'
      BY <1>0, <1>2, <3>1 DEF OpenNextIteration, IInv, HostHalfInv, Typing
    <3> QED
      BY <3>1, <3>2 DEF InDeviceHalf
  <2> QED
    BY <1>2, <2>1, HalfOpened DEF OpeningInv, Counted1
<1> SUFFICES ASSUME \A t \in Threads : ~OpenHostHalf(t) /\ ~OpenNextIteration(t)
             PROVE  OpeningInv'
  BY <1>1, <1>2
<1>3. InDeviceHalf' <=> InDeviceHalf
  BY HalfKept
<1>4. ASSUME NEW t \in Threads, ClaimDeviceSignal(t) \/ ExecuteSignals(t) PROVE OpeningInv'
  BY <1>0, <1>3, <1>4, OpeningFrame, HalfOf DEF ClaimDeviceSignal, ExecuteSignals
<1>5. ASSUME NEW t \in Threads, HostWait(t) PROVE OpeningInv'
  BY <1>0, <1>3, <1>5, OpeningFrame, HalfOf DEF HostWait
<1>6. ASSUME NEW t \in Threads, SyncCall(t) PROVE OpeningInv'
  <2>1. pc[t] \in {"sync1", "sync2", "sync3"} /\ pc'[t] \in {"drain1", "drain2", "drain3"}
    BY <1>0, <1>6 DEF SyncCall, SyncPoints, DrainOf
  <2> QED
    BY <1>0, <1>3, <1>6, <2>1, OpeningFrame DEF SyncCall
<1>7. ASSUME NEW t \in Threads, SyncReturn(t) PROVE OpeningInv'
  <2>1. pc[t] \in {"drain1", "drain2"} /\ pc'[t] \in {"count1", "count2"}
    BY <1>0, <1>7 DEF SyncReturn, AfterDrain
  <2> QED
    BY <1>0, <1>3, <1>7, <2>1, OpeningFrame DEF SyncReturn
<1>8. ASSUME NEW t \in Threads, NextIteration(t) \/ WaitFirst(t) PROVE OpeningInv'
  <2>1. pc[t] = "drain3" => InDeviceHalf
    BY HalfOf
  <2>2. 0 \in signaled => InDeviceHalf
    BY DEF IInv, HostHalfInv
  <2> QED
    BY <1>0, <1>3, <1>8, <2>1, <2>2, OpeningFrame DEF NextIteration, WaitFirst
<1>9. ASSUME NEW t \in Threads, CountDeviceHalf(t) \/ CountHostHalf(t) PROVE OpeningInv'
  <2>1. (pc[t] = "count1" => InDeviceHalf) /\ (pc[t] = "count2" => ~InDeviceHalf)
    BY HalfOf
  <2>2. (CountDeviceHalf(t) => pc[t] = "count1") /\ (CountHostHalf(t) => pc[t] = "count2")
    BY DEF CountDeviceHalf, CountHostHalf, Count
  <2> QED
    BY <1>3, <1>9, <2>1, <2>2, OpeningCount
<1>10. ASSUME NEW t \in Threads, ResetOne(t) PROVE OpeningInv'
  <2>1. CASE pc[t] = "reset1"
    BY <1>0, <1>3, <1>10, <2>1, OpeningFrame, HalfOf DEF ResetOne
  <2>2. CASE pc[t] = "reset2"
    <3>1. ~InDeviceHalf /\ Counted2 = Threads
      BY <2>2, HalfOf DEF IInv, HostHalfInv
    <3> QED
      BY <1>3, <1>10, <2>2, <3>1 DEF ResetOne, OpeningInv, Counted2
  <2> QED
    BY <1>10, <2>1, <2>2 DEF ResetOne
<1>11. ASSUME NEW t \in Threads, WaitLast(t) PROVE OpeningInv'
  <2>1. ~InDeviceHalf
    BY <1>11 DEF WaitLast, InDeviceHalf
  <2> QED
    BY <1>0, <1>3, <1>11, <2>1, OpeningFrame DEF WaitLast
<1>12. ASSUME NEW t \in Threads, ExecuteWait(t) \/ ClaimHostSignal(t) \/ HostSignal(t) PROVE OpeningInv'
  <2>1. ~InDeviceHalf
    BY <1>0, <1>12, HalfOf DEF ExecuteWait, ClaimHostSignal, HostSignal
  <2> QED
    BY <1>0, <1>3, <1>12, <2>1, OpeningFrame DEF ExecuteWait, ClaimHostSignal, HostSignal
<1>13. CASE Device \/ UNCHANGED vars
  <2>1. pc' = pc /\ signaled \subseteq signaled'
    BY <1>13 DEF Device, DeviceSignal, DeviceWait, vars
  <2> QED
    BY <1>3, <2>1, OpeningFrame
<1> QED
  BY <1>4, <1>5, <1>6, <1>7, <1>8, <1>9, <1>10, <1>11, <1>12, <1>13 DEF Next, ThreadStep, Terminating

-----------------------------------------------------------------------------
LEMMA SubmittedInit == Init => SubmittedInv
  BY DEF Init, SubmittedInv, PastClaim

(* A thread moves without submitting or resetting, and only a thread that  *)
(* was past the claim before is so after the step.                         *)
LEMMA SubmittedFrame ==
    ASSUME SubmittedInv, InDeviceHalf' => InDeviceHalf, NEW t \in Threads,
           pc[t] \notin {"execute", "reset1"}, pc'[t] \in PastClaim => pc[t] \in PastClaim,
           \A u \in Threads : u # t => pc'[u] = pc[u],
           signaled \subseteq signaled', queue' = queue, signal_device_event' = signal_device_event
    PROVE  SubmittedInv'
<1>1. UnderWay => UnderWay'
  BY DEF UnderWay, Submitting, OnTheQueue, Resetting
<1>2. (\E u \in Threads : pc'[u] \in PastClaim) => \E u \in Threads : pc[u] \in PastClaim
  OBVIOUS
<1> QED
  BY <1>1, <1>2 DEF SubmittedInv

(* A list of signals leaves the queue when it has signalled them all.      *)
LEMMA SubmittedRuns ==
    ASSUME IInv, SubmittedInv, DeviceSignal, InDeviceHalf' => InDeviceHalf
    PROVE  SubmittedInv'
<1>0. /\ last \in Nat /\ last >= 1 /\ queue \in Seq(Lists) /\ Len(queue) \in Nat
      /\ 1 \in 1..Len(queue) /\ queue[1] \in Lists /\ queue[1].next \in Nat
  BY LastFacts, HeadIsList, LenProperties DEF DeviceSignal, IInv, Typing, Lists, Events
<1>1. UNCHANGED <<pc, signal_device_event>> /\ signaled' = signaled \cup {queue[1].next}
  BY DEF DeviceSignal, globals
<1>2. ASSUME OnTheQueue PROVE OnTheQueue' \/ DeviceEvents \subseteq signaled'
  <2>1. PICK i \in 1..Len(queue) : queue[i].op = "signal" /\ 0..queue[i].next - 1 \subseteq signaled
    BY <1>2 DEF OnTheQueue
  <2>2. CASE queue[1].next = last - 1 /\ Retire
    <3>1. Len(queue') = Len(queue) - 1 /\ \A j \in 1..Len(queue') : queue'[j] = queue[j + 1]
      BY <1>0, <2>2, Retired DEF Retire, DeviceSignal
    <3>2. CASE i = 1
      BY <1>0, <1>1, <2>1, <2>2, <3>2 DEF DeviceEvents
    <3>3. CASE i # 1
      <4>1. i - 1 \in 1..Len(queue') /\ queue'[i - 1] = queue[i]
        BY <1>0, <3>1, <3>3
      <4> QED
        BY <1>1, <2>1, <4>1 DEF OnTheQueue
    <3> QED
      BY <3>2, <3>3
  <2>3. CASE queue' = [queue EXCEPT ![1].next = @ + 1]
    <3>1. Len(queue') = Len(queue) /\ \A j \in 1..Len(queue) : j # 1 => queue'[j] = queue[j]
      BY <1>0, <2>3
    <3>2. queue'[1] = [queue[1] EXCEPT !.next = @ + 1]
      BY <1>0, <2>3
    <3>3. queue'[1].op = queue[1].op /\ queue'[1].next = queue[1].next + 1
      BY <1>0, <3>2 DEF Lists
    <3>4. CASE i = 1
      BY <1>0, <1>1, <2>1, <3>1, <3>3, <3>4 DEF OnTheQueue
    <3>5. CASE i # 1
      BY <1>1, <2>1, <3>1, <3>5 DEF OnTheQueue
    <3> QED
      BY <3>4, <3>5
  <2> QED
    BY <2>2, <2>3 DEF DeviceSignal
<1>3. UnderWay => UnderWay'
  BY <1>1, <1>2 DEF UnderWay, Submitting, Resetting
<1> QED
  BY <1>1, <1>3 DEF SubmittedInv

LEMMA SubmittedStep ==
    ASSUME IInv, IInv', SubmittedInv, [Next]_vars
    PROVE  SubmittedInv'
<1> USE DEF Go, locals, globals, PastClaim
<1>0. /\ last \in Nat /\ last >= 1 /\ pc \in [Threads -> PCs] /\ Len(queue) \in Nat
  BY LastFacts, LenProperties DEF IInv, Typing
<1>1. ASSUME NEW t \in Threads, OpenHostHalf(t) PROVE SubmittedInv'
  BY <1>1, HalfOpened DEF SubmittedInv
<1>2. ASSUME NEW t \in Threads, OpenNextIteration(t) PROVE SubmittedInv'
  BY <1>2, HalfOpened DEF OpenNextIteration, Rearm, SubmittedInv
<1> SUFFICES ASSUME \A t \in Threads : ~OpenHostHalf(t) /\ ~OpenNextIteration(t)
             PROVE  SubmittedInv'
  BY <1>1, <1>2
<1>3. InDeviceHalf' => InDeviceHalf
  BY HalfKept
<1>4. ASSUME NEW t \in Threads, ClaimDeviceSignal(t) PROVE SubmittedInv'
  <2>1. CASE signal_device_event
    BY <1>0, <1>4, <2>1 DEF ClaimDeviceSignal, SubmittedInv, UnderWay, Submitting
  <2>2. CASE ~signal_device_event
    <3>0. pc[t] = "deviceHalf" => InDeviceHalf
      BY HalfOf
    <3>1. InDeviceHalf /\ UnderWay
      BY <1>4, <2>2, <3>0 DEF ClaimDeviceSignal, SubmittedInv
    <3>2. UnderWay'
      BY <1>0, <1>4, <3>1 DEF ClaimDeviceSignal, UnderWay, Submitting, OnTheQueue, Resetting
    <3> QED
      BY <1>4, <3>2 DEF ClaimDeviceSignal, SubmittedInv
  <2> QED
    BY <2>1, <2>2 DEF IInv, Typing
<1>5. ASSUME NEW t \in Threads, ExecuteSignals(t) PROVE SubmittedInv'
  <2> DEFINE l == [op |-> "signal", by |-> t, next |-> 0]
  <2>1. l \in Lists
    BY <1>0 DEF Lists, Events
  <2>2. Len(queue') = Len(queue) + 1 /\ queue'[Len(queue) + 1] = l
    BY <1>5, <2>1, Submitted DEF ExecuteSignals, IInv, Typing
  <2>3. OnTheQueue'
    BY <1>0, <2>2 DEF OnTheQueue
  <2>4. pc[t] = "execute" => InDeviceHalf
    BY HalfOf
  <2>5. ~signal_device_event
    BY <1>5, <2>4 DEF ExecuteSignals, SubmittedInv
  <2> QED
    BY <1>5, <2>3, <2>5 DEF ExecuteSignals, SubmittedInv, UnderWay
<1>6. ASSUME NEW t \in Threads, HostWait(t) PROVE SubmittedInv'
  BY <1>0, <1>3, <1>6, SubmittedFrame DEF HostWait
<1>7. ASSUME NEW t \in Threads, SyncCall(t) PROVE SubmittedInv'
  <2>1. /\ pc[t] \in {"sync1", "sync2", "sync3"} /\ pc'[t] \in {"drain1", "drain2", "drain3"}
        /\ pc'[t] = "drain1" => pc[t] = "sync1"
    BY <1>0, <1>7 DEF SyncCall, SyncPoints, DrainOf
  <2> QED
    BY <1>0, <1>3, <1>7, <2>1, SubmittedFrame DEF SyncCall
<1>8. ASSUME NEW t \in Threads, SyncReturn(t) PROVE SubmittedInv'
  <2>1. /\ pc[t] \in {"drain1", "drain2"} /\ pc'[t] \in {"count1", "count2"}
        /\ pc'[t] = "count1" => pc[t] = "drain1"
    BY <1>0, <1>8 DEF SyncReturn, AfterDrain
  <2> QED
    BY <1>0, <1>3, <1>8, <2>1, SubmittedFrame DEF SyncReturn
<1>9. ASSUME NEW t \in Threads,
             \/ NextIteration(t) \/ WaitFirst(t) \/ WaitLast(t) \/ ClaimHostSignal(t) \/ HostSignal(t)
      PROVE  SubmittedInv'
  BY <1>0, <1>3, <1>9, SubmittedFrame
     DEF NextIteration, WaitFirst, WaitLast, ClaimHostSignal, HostSignal
<1>10. ASSUME NEW t \in Threads, CountDeviceHalf(t) \/ CountHostHalf(t) PROVE SubmittedInv'
  <2>1. CASE CountHostHalf(t)
    BY <1>0, <1>3, <2>1, SubmittedFrame DEF CountHostHalf, Count
  <2>2. CASE CountDeviceHalf(t)
    BY <1>0, <1>3, <2>2, SubmittedFrame DEF CountDeviceHalf, Count
  <2> QED
    BY <1>10, <2>1, <2>2
<1>11. ASSUME NEW t \in Threads, ResetOne(t) PROVE SubmittedInv'
  <2>1. CASE pc[t] = "reset1"
    BY <1>0, <1>11, <2>1, HalfOf DEF ResetOne, SubmittedInv, UnderWay, Resetting
  <2>2. CASE pc[t] = "reset2"
    BY <1>0, <1>3, <2>2, HalfOf DEF SubmittedInv
  <2> QED
    BY <1>11, <2>1, <2>2 DEF ResetOne
<1>12. ASSUME NEW t \in Threads, ExecuteWait(t) PROVE SubmittedInv'
  BY <1>0, <1>3, <1>12, HalfOf DEF ExecuteWait, SubmittedInv
<1>13. CASE DeviceSignal
  BY <1>3, <1>13, SubmittedRuns
<1>14. CASE DeviceWait
  <2>1. 1 \in 1..Len(queue)
    BY <1>14, HeadIsList DEF DeviceWait, IInv, Typing
  <2>2. queue[1].by \in Threads /\ pc[queue[1].by] \in {"hostHalf", "hostSignal", "sync2", "drain2"}
    BY <1>14, <2>1, ListFacts DEF DeviceWait, IInv, ListInv
  <2> QED
    BY <1>0, <1>3, <2>2, HalfOf DEF SubmittedInv
<1>15. CASE UNCHANGED vars
  BY <1>15 DEF vars, SubmittedInv, InDeviceHalf, UnderWay, Submitting, OnTheQueue, Resetting
<1> QED
  BY <1>4, <1>5, <1>6, <1>7, <1>8, <1>9, <1>10, <1>11, <1>12, <1>13, <1>14, <1>15
     DEF Next, ThreadStep, Device, Terminating

-----------------------------------------------------------------------------
(* In the device half only lists of signals are on the queue, in the host  *)
(* half only waits.                                                        *)
LEMMA HeadOfHalf ==
    ASSUME IInv, queue # <<>>
    PROVE  queue[1].op \in {"signal", "wait"} /\ (queue[1].op = "signal" <=> InDeviceHalf)
<1>1. 1 \in 1..Len(queue) /\ queue[1] \in Lists
  BY HeadIsList DEF IInv, Typing
<1>2. queue[1].op \in {"signal", "wait"} /\ queue[1].by \in Threads
  BY <1>1 DEF Lists
<1>3. /\ queue[1].op = "signal" => pc[queue[1].by] \in {"hostWait", "sync1", "drain1"}
      /\ queue[1].op = "wait" => pc[queue[1].by] \in {"hostHalf", "hostSignal", "sync2", "drain2"}
  BY <1>1 DEF IInv, ListInv
<1> QED
  BY <1>2, <1>3, HalfOf

(* Where everybody waits: at an event, or for the queue.                   *)
LEMMA StalledPlaces ==
    ASSUME IInv, WaitInv, \A t \in Threads : ~MayGoOn(t)
    PROVE  /\ \A t \in Threads : pc[t] \in {"hostWait", "drain1", "drain2", "drain3",
                                           "waitLast", "waitFirst", "done"}
           /\ \A t \in Threads : pc[t] \in {"drain1", "drain2", "drain3"} => queue # <<>>
<1>1. \A t \in Threads : pc[t] \notin Locked
  BY DEF MayGoOn, Locked
<1>2. event_mutex = NoThread
  BY <1>1 DEF WaitInv, IInv, Typing
<1>3. \A t \in Threads : pc[t] \in PCs
  BY DEF IInv, Typing
<1>4. \A t \in Threads : pc[t] \in {"hostWait", "drain1", "drain2", "drain3", "waitLast", "waitFirst", "done"}
  BY <1>1, <1>2, <1>3 DEF MayGoOn, PCs, Locked
<1>5. ASSUME NEW t \in Threads, pc[t] \in {"drain1", "drain2", "drain3"}, queue = <<>> PROVE FALSE
  <2>1. behind[t] # 0
    BY <1>5 DEF MayGoOn, Drained
  <2>2. behind[t] \in Nat /\ behind[t] <= 0
    BY <1>5, EmptySeq DEF IInv, Typing, WaitInv
  <2> QED
    BY <2>1, <2>2
<1> QED
  BY <1>4, <1>5

(* In the device half an empty queue leaves only threads that wait for the *)
(* device events, which have been signalled, for the last event, which the *)
(* thread that counted last signals, and threads that are done.            *)
LEMMA DeviceHalfGoesOn ==
    ASSUME IInv, WaitInv, OpeningInv, SubmittedInv, IterationInv, InDeviceHalf, ~DeviceMayGoOn,
           \A t \in Threads : ~MayGoOn(t)
    PROVE  \A t \in Threads : pc[t] = "done"
<1>1. queue = <<>>
  BY HeadOfHalf DEF DeviceMayGoOn
<1>2. \A t \in Threads : pc[t] \in {"hostWait", "waitLast", "done"}
  <2>1. \A t \in Threads : pc[t] \in {"hostWait", "waitLast", "waitFirst", "done"}
    BY <1>1, StalledPlaces
  <2>2. \A t \in Threads : pc[t] # "waitFirst"
    BY DEF MayGoOn, IInv, DeviceHalfInv
  <2> QED
    BY <2>1, <2>2
<1>3. \A t \in Threads : pc[t] # "hostWait"
  <2> SUFFICES ASSUME NEW t \in Threads, pc[t] = "hostWait" PROVE FALSE
    OBVIOUS
  <2>1. UnderWay
    BY DEF SubmittedInv, PastClaim
  <2>2. DeviceEvents \subseteq signaled
    BY <1>1, <1>2, <2>1, EmptySeq DEF UnderWay, Submitting, OnTheQueue, Resetting
  <2>3. idx[t] \in DeviceEvents
    BY LastFacts DEF DeviceEvents, IInv, Typing, SectionInv
  <2> QED
    BY <2>2, <2>3 DEF MayGoOn
<1>4. PICK u \in Threads : pc[u] = "done"
  <2>1. Counted1 # Threads
    BY <1>2 DEF OpeningInv
  <2> QED
    BY <1>2, <1>3, <2>1 DEF Counted1
<1>5. \A t \in Threads : iter[t] = iter[u]
  BY <1>2, <1>4 DEF IterationInv, Behind, Lagging
<1> QED
  BY <1>4, <1>5 DEF WaitInv

(* In the host half a thread that waits for the queue comes after the      *)
(* claim, so the events the device waits for are signalled; and not every  *)
(* thread waits for event 0 unless one is about to signal it.              *)
LEMMA HostHalfGoesOn ==
    ASSUME IInv, WaitInv, OpeningInv, SignaledInv, ~InDeviceHalf, ~DeviceMayGoOn,
           \A t \in Threads : ~MayGoOn(t)
    PROVE  FALSE
<1>1. \A t \in Threads : pc[t] \in {"drain2", "waitLast", "waitFirst"}
  BY StalledPlaces DEF IInv, HostHalfInv, HostHalfPCs
<1>2. ASSUME NEW t \in Threads, pc[t] = "drain2" PROVE FALSE
  <2>1. HostEvents \subseteq signaled /\ queue # <<>>
    BY <1>2, StalledPlaces DEF SignaledInv, SignaledAt
  <2> QED
    BY <2>1 DEF DeviceMayGoOn
<1>3. PICK t \in Threads : pc[t] = "waitLast"
  <2>1. Counted2 # Threads
    BY <1>1 DEF OpeningInv
  <2> QED
    BY <1>1, <1>2, <2>1 DEF Counted2
<1>4. last \in signaled
  BY <1>3 DEF OpeningInv, Counted2
<1> QED
  BY <1>3, <1>4 DEF MayGoOn

(* Nobody waits forever for somebody who waits too: until every thread has *)
(* run all its iterations, some thread's wait is over or the device can go *)
(* on with the list at the head of the queue.                              *)
THEOREM WorkersNeverStall == Spec => []NothingStalls
<1> DEFINE Inv == IInv /\ SignaledInv /\ IterationInv /\ WaitInv /\ OpeningInv /\ SubmittedInv
<1>1. Init => Inv
  BY IInvInit, SignaledInit, IterationInit, WaitInit, OpeningInit, SubmittedInit
<1>2. Inv /\ [Next]_vars /\ IInv' => Inv'
  BY SignaledStep, IterationStep, WaitStep, OpeningStep, SubmittedStep
<1>3. Inv => NothingStalls
  <2> SUFFICES ASSUME Inv, ~DeviceMayGoOn, \A t \in Threads : ~MayGoOn(t)
               PROVE  \A t \in Threads : pc[t] = "done" /\ iter[t] = num_iterations
    BY DEF NothingStalls
  <2>1. \A t \in Threads : pc[t] = "done"
    BY DeviceHalfGoesOn, HostHalfGoesOn
  <2> QED
    BY <2>1 DEF WaitInv
<1> HIDE DEF Inv
<1> QED
  BY Invariant, <1>1, <1>2, <1>3, PTL DEF Spec

=============================================================================
