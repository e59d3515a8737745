------------------------------- MODULE EventPool ------------------------------
(***************************************************************************)
(* zeEventPool and get_timestamp_time of                                   *)
(* utils/test_harness/src/test_harness_event.cpp: the pool of events that  *)
(* the conformance tests share.                                            *)
(*                                                                         *)
(* The pool hands out an index to every event it creates and takes it back *)
(* when the event is destroyed.  Nothing checks that an index was found or *)
(* that the driver created the event: a failed creation registers the null *)
(* handle, and in a full pool the bookkeeping writes past the end of       *)
(* pool_indexes_available_.                                                *)
(*                                                                         *)
(* A kernel that signals an event leaves the device's clock at its start   *)
(* and its end there, whose difference get_timestamp_time takes.  The      *)
(* clock counts modulo 2^kernelTimestampValidBits; here the modulus is any *)
(* number, and Word stands for 2^64.                                       *)
(***************************************************************************)
EXTENDS Integers, Functions

CONSTANTS
    Handles,        \* handles the driver gives to events, again after their destruction
    NullEvent,      \* nullptr
    Counts,         \* sizes with which the pool is initialised
    DefaultCount,   \* the size create_event gives to a pool without one
    Moduli, Word

ASSUME HandlesAssumption == NullEvent \notin Handles
ASSUME CountsAssumption == Counts \cup {DefaultCount} \subseteq Nat \ {0}
ASSUME ModuliAssumption == Word \in Nat \ {0} /\ Moduli \subseteq 1..Word

VARIABLES
    count,                      \* 0 while there is no pool
    pool_indexes_available_,
    handle_to_index_map_,
    live,                       \* the driver's events: the index each occupies
    failed,                     \* indices given to creations that failed, until returned
    overrun,                    \* a write past the vector: undefined from here on
    modulus, clock,             \* the device's
    ticks, measured             \* of the last kernel: how long it ran, and what was read

pool == <<count, pool_indexes_available_, handle_to_index_map_, live, failed, overrun>>
timing == <<clock, ticks, measured>>
vars == <<pool, modulus, timing>>

Indices == 0..(count - 1)
AllAvailable(n) == [i \in 0..(n - 1) |-> TRUE]
NoEvents == [h \in {} |-> 0]

Init ==
    /\ count = 0 /\ pool_indexes_available_ = AllAvailable(0)
    /\ handle_to_index_map_ = NoEvents /\ live = NoEvents
    /\ failed = {} /\ overrun = FALSE
    /\ modulus \in Moduli /\ clock \in 0..(modulus - 1)
    /\ ticks = 0 /\ measured = 0

-----------------------------------------------------------------------------
(* The pool.  All of InitEventPool's variants do nothing to an existing one. *)
InitEventPool ==
    /\ count = 0
    /\ \E n \in Counts \cup {DefaultCount} :
         count' = n /\ pool_indexes_available_' = AllAvailable(n)
    /\ UNCHANGED <<handle_to_index_map_, live, failed, overrun, modulus, timing>>

(* What create_event works on: it starts with InitEventPool.                *)
Size == IF count = 0 THEN DefaultCount ELSE count
Available == IF count = 0 THEN AllAvailable(DefaultCount) ELSE pool_indexes_available_

(* Each event of the pool is registered: its index taken, its handle kept.  *)
TakenForgotten(i) == Available
Taken(i) == [Available EXCEPT ![i] = FALSE]

Register(h, i) ==
    /\ pool_indexes_available_' = Taken(i)
    /\ handle_to_index_map_' = [x \in DOMAIN handle_to_index_map_ \cup {h} |->
                                   IF x = h THEN i ELSE handle_to_index_map_[x]]

(* find_index: the first available index.                                  *)
Found(i) == i \in 0..(Size - 1) /\ Available[i]
              /\ \A j \in 0..(Size - 1) : j < i => ~Available[j]

(* zeEventCreate gives a handle no living event has, or fails; then event  *)
(* stays nullptr, which is registered like any other.                      *)
CreateAt(i) ==
    \/ \E h \in Handles \ DOMAIN live :
         /\ Register(h, i)
         /\ live' = [x \in DOMAIN live \cup {h} |-> IF x = h THEN i ELSE live[x]]
         /\ UNCHANGED <<failed, overrun>>
    \/ /\ Register(NullEvent, i)
       /\ failed' = failed \cup {i}
       /\ UNCHANGED <<live, overrun>>

CreateEvent ==
    /\ ~overrun
    /\ count' = Size
    /\ \E i \in 0..Size : Found(i) /\ CreateAt(i)
    /\ UNCHANGED <<modulus, timing>>

(* The form that bypasses find_index and needs a pool.  Its callers choose *)
(* an available index, and set event to nullptr themselves.                *)
CreateEventWithIndex ==
    /\ count > 0 /\ ~overrun
    /\ \E i \in Indices : pool_indexes_available_[i] /\ CreateAt(i)
    /\ UNCHANGED <<count, modulus, timing>>

(* find_index returns 0xFFFFFFFF, the driver refuses it, and               *)
(* pool_indexes_available_[0xFFFFFFFF] = false is written nevertheless.    *)
CreateEventInFullPool ==
    /\ count > 0 /\ ~overrun
    /\ \A i \in 0..Size : ~Found(i)
    /\ overrun' = TRUE
    /\ UNCHANGED <<count, pool_indexes_available_, handle_to_index_map_, live, failed, modulus, timing>>

FreedForgotten(i) == pool_indexes_available_
Freed(i) == [pool_indexes_available_ EXCEPT ![i] = TRUE]

(* Its callers pass what create_event gave them.  zeEventDestroy does      *)
(* nothing for nullptr but return an error.                                *)
DestroyEvent(h) ==
    /\ ~overrun
    /\ h \in DOMAIN handle_to_index_map_
    /\ pool_indexes_available_' = Freed(handle_to_index_map_[h])
    /\ handle_to_index_map_' = Restrict(handle_to_index_map_, DOMAIN handle_to_index_map_ \ {h})
    /\ live' = Restrict(live, DOMAIN live \ {h})
    /\ failed' = IF h = NullEvent THEN failed \ {handle_to_index_map_[h]} ELSE failed
    /\ UNCHANGED <<count, overrun, modulus, timing>>

(* The destructor, and a new zeEventPool for the next test.                *)
NextPool ==
    /\ count > 0 /\ ~overrun
    /\ DOMAIN live = {}
    /\ count' = 0 /\ pool_indexes_available_' = AllAvailable(0)
    /\ handle_to_index_map_' = NoEvents /\ failed' = {}
    /\ UNCHANGED <<live, overrun, modulus, timing>>

-----------------------------------------------------------------------------
(* get_timestamp_time, in ticks.  timestamp_max_val is modulus - 1; for 64 *)
(* valid bits the shift is undefined and yields 0 or the largest word.     *)
TimestampMaxVals == IF modulus < Word THEN {modulus - 1} ELSE {Word - 1, 0}

WrappedWithoutOne(max, start, end) == ((max - start) + end) % Word
Wrapped(max, start, end) == ((max - start) + end + 1) % Word

Elapsed(max, start, end) ==
    IF end >= start THEN end - start ELSE Wrapped(max, start, end)

(* A kernel that takes less than a turn of the clock signals an event.     *)
MeasureKernel ==
    /\ ~overrun
    /\ DOMAIN live # {}
    /\ ticks' \in 0..(modulus - 1)
    /\ clock' = (clock + ticks') % modulus
    /\ \E max \in TimestampMaxVals : measured' = Elapsed(max, clock, clock')
    /\ UNCHANGED <<pool, modulus>>

Next ==
    \/ InitEventPool \/ CreateEvent \/ CreateEventWithIndex \/ CreateEventInFullPool
    \/ \E h \in Handles \cup {NullEvent} : DestroyEvent(h)
    \/ NextPool \/ MeasureKernel

Spec == Init /\ [][Next]_vars

-----------------------------------------------------------------------------
TypeOK ==
    /\ count \in Nat
    /\ pool_indexes_available_ \in [Indices -> BOOLEAN]
    /\ DOMAIN handle_to_index_map_ \subseteq Handles \cup {NullEvent}
    /\ handle_to_index_map_ \in [DOMAIN handle_to_index_map_ -> Indices]
    /\ DOMAIN live \subseteq Handles /\ live \in [DOMAIN live -> Indices]
    /\ failed \subseteq Indices /\ overrun \in BOOLEAN
    /\ modulus \in Moduli /\ clock \in 0..(modulus - 1)
    /\ ticks \in 0..(modulus - 1) /\ measured \in 0..(Word - 1)

(* Two living events never share an index of the pool, through any order   *)
(* of creations, failed creations and destructions.                        *)
NoIndexIsShared ==
    \A g, h \in DOMAIN live : g # h => live[g] # live[h]

(* An index is lost only to a creation that failed: when create_event      *)
(* writes past the vector, every index belongs to a living event or to     *)
(* such a failure.                                                         *)
OverrunOnlyWhenFull ==
    overrun => \A i \in Indices : i \in failed \/ \E h \in DOMAIN live : live[h] = i

(* What is read off the timestamps is how long the kernel ran, also across *)
(* a wrap of the clock; with 64 valid bits it can be one tick more.        *)
MeasuredIsElapsed ==
    IF modulus < Word THEN measured = ticks
    ELSE measured \in {ticks, (ticks + 1) % Word}
=============================================================================
