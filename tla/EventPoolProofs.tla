---------------------------- MODULE EventPoolProofs ---------------------------
(***************************************************************************)
(* Proofs about EventPool, for any handles, pool sizes and clocks.         *)
(***************************************************************************)
EXTENDS EventPool, WellFoundedInduction, TLAPS

(* The map knows the living events, each at its index, and the last failed *)
(* creation; an index is available exactly if it belongs to none.          *)
Registered ==
    /\ DOMAIN live \subseteq DOMAIN handle_to_index_map_
    /\ DOMAIN handle_to_index_map_ \subseteq DOMAIN live \cup {NullEvent}
    /\ \A h \in DOMAIN live : handle_to_index_map_[h] = live[h]
    /\ NullEvent \in DOMAIN handle_to_index_map_ => handle_to_index_map_[NullEvent] \in failed

Held(i) == \E h \in DOMAIN live : live[h] = i

Exact ==
    /\ \A i \in Indices : pool_indexes_available_[i] <=> ~Held(i) /\ i \notin failed
    /\ \A h \in DOMAIN live : live[h] \notin failed

PoolType ==
    /\ count \in Nat
    /\ pool_indexes_available_ \in [Indices -> BOOLEAN]
    /\ handle_to_index_map_ \in [DOMAIN handle_to_index_map_ -> Indices]
    /\ DOMAIN live \subseteq Handles /\ live \in [DOMAIN live -> Indices]
    /\ failed \subseteq Indices /\ overrun \in BOOLEAN /\ (overrun => count # 0)

TimeType ==
    /\ modulus \in Moduli /\ clock \in 0..(modulus - 1)
    /\ ticks \in 0..(modulus - 1) /\ measured \in 0..(Word - 1)

PoolInv == PoolType /\ Registered /\ Exact /\ NoIndexIsShared /\ OverrunOnlyWhenFull

-----------------------------------------------------------------------------
(* A creation at an available index keeps the invariant, whether the       *)
(* driver creates the event or not.                                        *)
LEMMA CreateKeeps ==
    ASSUME PoolInv, ~overrun, NEW i \in 0..(Size - 1), Available[i],
           CreateAt(i), count' = Size
    PROVE  PoolInv'
<1> USE HandlesAssumption
<1> DEFINE S == 0..(Size - 1)
<1>1. /\ Size \in Nat /\ Available \in [S -> BOOLEAN] /\ Indices' = S
      /\ handle_to_index_map_ \in [DOMAIN handle_to_index_map_ -> S]
      /\ live \in [DOMAIN live -> S] /\ failed \subseteq S
      /\ \A j \in S : Available[j] <=> ~Held(j) /\ j \notin failed
  <2>1. CASE count = 0
    <3>1. DefaultCount \in Nat
      BY CountsAssumption
    <3>2. Indices = {}
      BY <2>1 DEF Indices
    <3>3. DOMAIN live = {} /\ failed = {} /\ DOMAIN handle_to_index_map_ = {}
      BY <3>2 DEF PoolInv, PoolType
    <3> QED
      BY <2>1, <3>1, <3>3 DEF Size, Available, AllAvailable, Indices, Held, PoolInv, PoolType
  <2>2. CASE count # 0
    BY <2>2 DEF Size, Available, Indices, PoolInv, PoolType, Exact
  <2> QED
    BY <2>1, <2>2
<1>2. i \in S /\ Available[i] /\ ~Held(i) /\ i \notin failed
  BY <1>1
<1>3. DOMAIN live \subseteq Handles /\ \A h \in DOMAIN live : live[h] \in S /\ live[h] \notin failed
  BY <1>1 DEF PoolInv, PoolType, Exact
<1>4. count' \in Nat /\ pool_indexes_available_' \in [S -> BOOLEAN]
      /\ \A j \in S : pool_indexes_available_'[j] <=> Available[j] /\ j # i
  BY <1>1, <1>2 DEF CreateAt, Register, Taken
<1> HIDE DEF S
<1>5. ASSUME NEW h \in Handles \ DOMAIN live, Register(h, i),
             live' = [x \in DOMAIN live \cup {h} |-> IF x = h THEN i ELSE live[x]],
             UNCHANGED <<failed, overrun>>
      PROVE  PoolInv'
  <2> USE <1>5
  <2>1. PoolType'
    <3>1. live' \in [DOMAIN live' -> S] /\ DOMAIN live' \subseteq Handles
      BY <1>1, <1>2, <1>3
    <3>2. handle_to_index_map_' \in [DOMAIN handle_to_index_map_' -> S]
      BY <1>1, <1>2 DEF Register
    <3> QED
      BY <1>1, <1>4, <3>1, <3>2 DEF PoolType, PoolInv
  <2>2. Registered'
    BY DEF Register, Registered, PoolInv
  <2>3. \A j \in S : Held(j)' <=> Held(j) \/ j = i
    BY DEF Held
  <2>4. \A j \in S : pool_indexes_available_'[j] <=> ~Held(j)' /\ j \notin failed'
    BY <1>1, <1>4, <2>3
  <2>5. \A g \in DOMAIN live' : live'[g] \notin failed'
    BY <1>2, <1>3
  <2>6. NoIndexIsShared'
    BY <1>2 DEF NoIndexIsShared, Held, PoolInv
  <2> QED
    BY <1>1, <2>1, <2>2, <2>4, <2>5, <2>6 DEF PoolInv, Exact, OverrunOnlyWhenFull
<1>6. ASSUME Register(NullEvent, i), failed' = failed \cup {i}, UNCHANGED <<live, overrun>>
      PROVE  PoolInv'
  <2> USE <1>6
  <2>1. PoolType'
    <3>1. handle_to_index_map_' \in [DOMAIN handle_to_index_map_' -> S]
      BY <1>1, <1>2 DEF Register
    <3> QED
      BY <1>1, <1>2, <1>4, <3>1 DEF PoolType, PoolInv
  <2>2. Registered'
    BY DEF Register, Registered, PoolInv, PoolType
  <2>3. \A j \in S : Held(j)' <=> Held(j)
    BY DEF Held
  <2>4. \A j \in S : pool_indexes_available_'[j] <=> ~Held(j)' /\ j \notin failed'
    BY <1>1, <1>4, <2>3
  <2>5. \A g \in DOMAIN live' : live'[g] \notin failed'
    BY <1>2, <1>3 DEF Held
  <2> QED
    BY <1>1, <2>1, <2>2, <2>4, <2>5 DEF PoolInv, Exact, NoIndexIsShared, OverrunOnlyWhenFull
<1> QED
  BY <1>5, <1>6 DEF CreateAt

(* The destruction of a registered event, or of nullptr, frees an index    *)
(* that no living event occupies any more.                                 *)
LEMMA DestroyKeeps ==
    ASSUME PoolInv, NEW h \in Handles \cup {NullEvent}, DestroyEvent(h)
    PROVE  PoolInv'
<1> USE HandlesAssumption
<1> USE DEF PoolInv, PoolType, Indices
<1> DEFINE i == handle_to_index_map_[h]
<1>1. i \in Indices /\ h \in DOMAIN handle_to_index_map_
  BY DEF DestroyEvent
<1>2. DOMAIN live' = DOMAIN live \ {h} /\ \A g \in DOMAIN live' : live'[g] = live[g]
  BY DEF DestroyEvent, Restrict
<1>3. DOMAIN handle_to_index_map_' = DOMAIN handle_to_index_map_ \ {h}
      /\ \A g \in DOMAIN handle_to_index_map_' : handle_to_index_map_'[g] = handle_to_index_map_[g]
  BY DEF DestroyEvent, Restrict
<1>4. PoolType'
  <2>1. live' \in [DOMAIN live' -> Indices]
    BY DEF DestroyEvent, Restrict
  <2>2. handle_to_index_map_' \in [DOMAIN handle_to_index_map_' -> Indices]
    BY DEF DestroyEvent, Restrict
  <2> QED
    BY <1>1, <1>2, <2>1, <2>2 DEF DestroyEvent, Freed
<1>5. Registered'
  BY <1>2, <1>3 DEF Registered, DestroyEvent, Exact
<1>6. NoIndexIsShared'
  BY <1>2 DEF NoIndexIsShared
<1>7. failed' \subseteq failed
  BY DEF DestroyEvent
<1>8. \A j \in Indices : Held(j)' \/ j \in failed' <=> (Held(j) \/ j \in failed) /\ j # i
  <2>1. CASE h = NullEvent
    <3>1. h \notin DOMAIN live /\ i \in failed /\ failed' = failed \ {i}
      BY <2>1, <1>1 DEF DestroyEvent, Registered
    <3>2. ~Held(i)
      BY <3>1 DEF Held, Exact
    <3>3. \A j \in Indices : Held(j)' <=> Held(j)
      BY <1>2, <3>1 DEF Held
    <3> QED
      BY <3>1, <3>2, <3>3
  <2>2. CASE h # NullEvent
    <3>1. h \in DOMAIN live /\ live[h] = i /\ failed' = failed
      BY <2>2, <1>1 DEF DestroyEvent, Registered
    <3>2. i \notin failed
      BY <3>1 DEF Exact
    <3>3. \A j \in Indices : Held(j)' <=> Held(j) /\ j # i
      BY <1>2, <3>1 DEF Held, NoIndexIsShared
    <3> QED
      BY <3>1, <3>2, <3>3
  <2> QED
    BY <2>1, <2>2
<1>9. Exact'
  <2>1. Indices' = Indices
    BY DEF DestroyEvent
  <2>2. \A j \in Indices : pool_indexes_available_'[j] <=> pool_indexes_available_[j] \/ j = i
    BY <1>1 DEF DestroyEvent, Freed
  <2>3. \A j \in Indices : pool_indexes_available_'[j] <=> ~Held(j)' /\ j \notin failed'
    BY <1>8, <2>2 DEF Exact
  <2>4. \A g \in DOMAIN live' : live'[g] \notin failed'
    BY <1>2, <1>7 DEF Exact
  <2> QED
    BY <2>1, <2>3, <2>4 DEF Exact
<1> QED
  BY <1>4, <1>5, <1>6, <1>9 DEF DestroyEvent, OverrunOnlyWhenFull

-----------------------------------------------------------------------------
(* Every set of natural numbers has a least one.                           *)
LEMMA LeastOf ==
    ASSUME NEW T \in SUBSET Nat, T # {}
    PROVE  \E m \in T : \A k \in T : ~(k < m)
<1> DEFINE R == OpToRel(<, Nat)
<1>1. IsWellFoundedOn(R, Nat)
  BY NatLessThanWellFounded
<1>2. \A k, m \in Nat : k < m => <<k, m>> \in R
  BY DEF OpToRel
<1> HIDE DEF R
<1>3. PICK m \in T : \A k \in T : ~(<<k, m>> \in R)
  BY <1>1, WFMin
<1> QED
  BY <1>2, <1>3

(* While an index is available find_index finds one.                       *)
LEMMA LeastAvailable ==
    ASSUME Size \in Nat, NEW i \in 0..(Size - 1), Available[i]
    PROVE  \E j \in 0..Size : Found(j)
<1> DEFINE T == {j \in 0..(Size - 1) : Available[j]}
<1>1. T \in SUBSET Nat /\ T # {}
  OBVIOUS
<1>2. PICK m \in T : \A k \in T : ~(k < m)
  BY <1>1, LeastOf
<1>3. m \in 0..Size
  BY <1>2
<1> QED
  BY <1>2, <1>3 DEF Found

-----------------------------------------------------------------------------
(* The pool starts, and starts again, with nothing registered.             *)
LEMMA EmptyPool ==
    ASSUME count = 0, pool_indexes_available_ = AllAvailable(0),
           handle_to_index_map_ = NoEvents, live = NoEvents,
           failed = {}, overrun = FALSE
    PROVE  PoolInv
  BY DEF PoolInv, PoolType, Registered, Exact, Held, NoIndexIsShared, OverrunOnlyWhenFull,
         AllAvailable, NoEvents, Indices

(* Every step of the tests keeps the pool's invariant.                     *)
LEMMA PoolStep == PoolInv /\ [Next]_vars => PoolInv'
<1> SUFFICES ASSUME PoolInv, [Next]_vars PROVE PoolInv'
  OBVIOUS
<1>1. CASE InitEventPool
  <2>1. PICK n \in Counts \cup {DefaultCount} :
          count' = n /\ pool_indexes_available_' = AllAvailable(n)
    BY <1>1 DEF InitEventPool
  <2>2. n \in Nat
    BY CountsAssumption
  <2>3. DOMAIN live = {} /\ failed = {} /\ ~overrun
    <3>1. Indices = {} /\ count = 0
      BY <1>1 DEF InitEventPool, Indices
    <3> QED
      BY <3>1 DEF PoolInv, PoolType
  <2>4. PoolType'
    BY <1>1, <2>1, <2>2, <2>3
       DEF InitEventPool, PoolInv, PoolType, Indices, AllAvailable, Registered
  <2> QED
    BY <1>1, <2>1, <2>2, <2>3, <2>4
       DEF InitEventPool, PoolInv, PoolType, Registered, Exact, Held, NoIndexIsShared,
           OverrunOnlyWhenFull, AllAvailable, Indices
<1>2. CASE CreateEvent
  <2>1. PICK i \in 0..Size : Found(i) /\ CreateAt(i)
    BY <1>2 DEF CreateEvent
  <2>2. i \in 0..(Size - 1) /\ Available[i]
    BY <2>1 DEF Found
  <2> QED
    BY <1>2, <2>1, <2>2, CreateKeeps DEF CreateEvent
<1>3. CASE CreateEventWithIndex
  <2>1. count # 0 /\ Size = count /\ Available = pool_indexes_available_
    BY <1>3 DEF CreateEventWithIndex, Size, Available
  <2>2. PICK i \in Indices : pool_indexes_available_[i] /\ CreateAt(i)
    BY <1>3 DEF CreateEventWithIndex
  <2>3. i \in 0..(Size - 1) /\ Available[i]
    BY <2>1, <2>2 DEF Indices
  <2> QED
    BY <1>3, <2>1, <2>2, <2>3, CreateKeeps DEF CreateEventWithIndex
<1>4. CASE CreateEventInFullPool
  <2>1. \A i \in Indices : ~pool_indexes_available_[i]
    <3>1. SUFFICES ASSUME NEW i \in Indices, pool_indexes_available_[i] PROVE FALSE
      OBVIOUS
    <3>2. Size = count /\ Available = pool_indexes_available_ /\ Size \in Nat
      BY <1>4 DEF CreateEventInFullPool, Size, Available, PoolInv, PoolType
    <3>3. i \in 0..(Size - 1) /\ Available[i]
      BY <3>1, <3>2 DEF Indices
    <3> QED
      BY <1>4, <3>2, <3>3, LeastAvailable DEF CreateEventInFullPool
  <2>2. OverrunOnlyWhenFull'
    BY <1>4, <2>1 DEF CreateEventInFullPool, PoolInv, Exact, Held, OverrunOnlyWhenFull, Indices
  <2> QED
    BY <1>4, <2>2
       DEF CreateEventInFullPool, PoolInv, PoolType, Registered, Exact, Held, NoIndexIsShared, Indices
<1>5. ASSUME NEW h \in Handles \cup {NullEvent}, DestroyEvent(h) PROVE PoolInv'
  BY <1>5, DestroyKeeps
<1>6. CASE NextPool
  BY <1>6
     DEF NextPool, PoolInv, PoolType, Registered, Exact, Held, NoIndexIsShared, OverrunOnlyWhenFull,
         AllAvailable, NoEvents, Indices
<1>7. CASE UNCHANGED pool
  BY <1>7 DEF pool, PoolInv, PoolType, Registered, Exact, Held, NoIndexIsShared,
              OverrunOnlyWhenFull, Indices
<1> QED
  BY <1>1, <1>2, <1>3, <1>4, <1>5, <1>6, <1>7 DEF Next, MeasureKernel, vars

(* No index of the pool is ever shared by two living events.               *)
THEOREM IndicesAreNotShared == Spec => []NoIndexIsShared
<1>1. Init => PoolInv
  BY EmptyPool DEF Init
<1>2. PoolInv => NoIndexIsShared
  BY DEF PoolInv
<1> QED
  BY PoolStep, <1>1, <1>2, PTL DEF Spec

(* Nothing but failed creations loses an index: the pool is really full    *)
(* when create_event finds no index and writes past the vector.            *)
THEOREM FullPoolsOverrun == Spec => []OverrunOnlyWhenFull
<1>1. Init => PoolInv
  BY EmptyPool DEF Init
<1>2. PoolInv => OverrunOnlyWhenFull
  BY DEF PoolInv
<1> QED
  BY PoolStep, <1>1, <1>2, PTL DEF Spec

-----------------------------------------------------------------------------
(* Remainders of numbers that are less than one turn away from their range. *)
LEMMA Remainder ==
    ASSUME NEW m \in Int, NEW n \in Int, 0 < m, -m <= n, n < 2 * m
    PROVE  n % m = IF n < 0 THEN n + m ELSE IF n < m THEN n ELSE n - m
  OBVIOUS

(* Where the clock m is after t ticks from c.                              *)
LEMMA ClockTurns ==
    ASSUME NEW m \in Nat \ {0}, NEW c \in 0..(m - 1), NEW t \in 0..(m - 1)
    PROVE  (c + t) % m = IF c + t < m THEN c + t ELSE c + t - m
<1>1. m \in Int /\ c + t \in Int /\ 0 < m /\ 0 <= c + t /\ c + t < 2 * m
  OBVIOUS
<1>2. -m <= c + t /\ ~(c + t < 0)
  BY <1>1
<1> QED
  BY <1>1, <1>2, Remainder

(* get_timestamp_time inverts that for a clock of fewer values than a word *)
(* has, with the largest value of the clock as timestamp_max_val.          *)
LEMMA ElapsedIsExact ==
    ASSUME NEW m \in 1..Word, NEW c \in 0..(m - 1), NEW t \in 0..(m - 1),
           NEW e \in 0..(m - 1), e = IF c + t < m THEN c + t ELSE c + t - m
    PROVE  Elapsed(m - 1, c, e) = t
<1>1. Word \in Nat \ {0}
  BY ModuliAssumption
<1>2. CASE c + t < m
  BY <1>1, <1>2 DEF Elapsed
<1>3. CASE c + t >= m
  <2>1. e < c /\ ((m - 1) - c) + e + 1 = t
    BY <1>1, <1>3
  <2>2. t % Word = t
    <3>1. Word \in Int /\ t \in Int /\ 0 < Word /\ 0 <= t /\ t < Word
      BY <1>1
    <3>2. -Word <= t /\ t < 2 * Word /\ ~(t < 0)
      BY <3>1
    <3> QED
      BY <3>1, <3>2, Remainder
  <2> QED
    BY <1>1, <2>1, <2>2 DEF Elapsed, Wrapped
<1> QED
  BY <1>1, <1>2, <1>3

(* With timestamp_max_val 0 and a clock of a whole word it counts a wrap   *)
(* as one tick too many.                                                   *)
LEMMA ElapsedIsOneMore ==
    ASSUME NEW c \in 0..(Word - 1), NEW t \in 0..(Word - 1),
           NEW e \in 0..(Word - 1), e = IF c + t < Word THEN c + t ELSE c + t - Word
    PROVE  Elapsed(0, c, e) \in {t, (t + 1) % Word}
<1>1. Word \in Nat \ {0}
  BY ModuliAssumption
<1>2. CASE c + t < Word
  BY <1>1, <1>2 DEF Elapsed
<1>3. CASE c + t >= Word
  <2>1. e < c /\ (0 - c) + e + 1 = t + 1 - Word
    BY <1>1, <1>3
  <2>2. (t + 1 - Word) % Word = (t + 1) % Word
    <3> DEFINE n == t + 1
    <3>1. Word \in Int /\ n \in Int /\ n - Word \in Int /\ 0 < Word /\ 0 < n /\ n <= Word
      BY <1>1
    <3> HIDE DEF n
    <3>2. -Word <= n /\ n < 2 * Word /\ -Word <= n - Word /\ n - Word < 2 * Word
      BY <3>1
    <3>3. n % Word = IF n < Word THEN n ELSE n - Word
      <4>1. ~(n < 0)
        BY <3>1
      <4> QED
        BY <3>1, <3>2, <4>1, Remainder
    <3>4. (n - Word) % Word = IF n < Word THEN n ELSE 0
      <4>1. (n - Word) % Word = IF n - Word < 0 THEN n - Word + Word
                                ELSE IF n - Word < Word THEN n - Word ELSE n - Word - Word
        BY <3>1, <3>2, Remainder
      <4> QED
        BY <3>1, <4>1
    <3>5. n % Word = (n - Word) % Word
      BY <3>1, <3>3, <3>4
    <3> QED
      BY <1>1, <3>1, <3>5 DEF n
  <2> QED
    BY <1>1, <2>1, <2>2 DEF Elapsed, Wrapped
<1> QED
  BY <1>1, <1>2, <1>3

(* What is read after t ticks from c to e, of a clock of m values.         *)
Accurate(m, t, e, read) ==
    /\ e \in 0..(m - 1)
    /\ read \in 0..(Word - 1)
    /\ IF m < Word THEN read = t ELSE read \in {t, (t + 1) % Word}

(* A kernel that runs for less than a turn of the clock is measured as it  *)
(* ran, or as one tick more.                                               *)
LEMMA Measures ==
    ASSUME NEW m \in 1..Word, NEW c \in 0..(m - 1), NEW t \in 0..(m - 1),
           NEW max, max = m - 1 \/ (m = Word /\ max = 0)
    PROVE  Accurate(m, t, (c + t) % m, Elapsed(max, c, (c + t) % m))
<1> DEFINE e == (c + t) % m
<1> USE DEF Accurate
<1>1. Word \in Int /\ 0 < Word /\ m \in Int /\ 0 < m /\ m <= Word
  BY ModuliAssumption
<1>2. m \in Nat \ {0}
  BY <1>1
<1>3. e = IF c + t < m THEN c + t ELSE c + t - m
  BY <1>2, ClockTurns
<1> SUFFICES Accurate(m, t, e, Elapsed(max, c, e))
  OBVIOUS
<1> HIDE DEF e
<1>4. e \in 0..(m - 1)
  BY <1>1, <1>3
<1>5. t \in 0..(Word - 1)
  BY <1>1
<1>6. CASE max = m - 1
  <2>1. Elapsed(max, c, e) = t
    BY <1>3, <1>4, <1>6, ElapsedIsExact
  <2> QED
    BY <1>4, <1>5, <2>1
<1>7. CASE m = Word /\ max = 0
  <2>1. Elapsed(max, c, e) \in {t, (t + 1) % Word}
    BY <1>3, <1>4, <1>7, ElapsedIsOneMore
  <2>2. (t + 1) % Word \in 0..(Word - 1)
    BY <1>1
  <2>3. ~(m < Word)
    BY <1>1, <1>7
  <2> QED
    BY <1>4, <1>5, <2>1, <2>2, <2>3
<1> QED
  BY <1>6, <1>7

(* So does every measurement of the model.                                 *)
LEMMA MeasureStep ==
    ASSUME modulus \in Moduli, clock \in 0..(modulus - 1), MeasureKernel
    PROVE  /\ clock' \in 0..(modulus - 1) /\ ticks' \in 0..(modulus - 1)
           /\ measured' \in 0..(Word - 1)
           /\ MeasuredIsElapsed'
<1>1. modulus \in 1..Word /\ Word \in Int
  BY ModuliAssumption
<1> DEFINE m == modulus
<1>2. ticks' \in 0..(modulus - 1) /\ modulus' = modulus /\ clock' = (clock + ticks') % modulus
  BY DEF MeasureKernel
<1>3. PICK max \in TimestampMaxVals : measured' = Elapsed(max, clock, clock')
  BY DEF MeasureKernel
<1>4. max = m - 1 \/ (m = Word /\ max = 0)
  <2>1. max \in IF m < Word THEN {m - 1} ELSE {Word - 1, 0}
    BY <1>3 DEF TimestampMaxVals
  <2> HIDE DEF m
  <2>2. m \in 1..Word
    BY <1>1 DEF m
  <2> QED
    BY <1>1, <2>1, <2>2
<1>5. m \in 1..Word /\ clock \in 0..(m - 1) /\ ticks' \in 0..(m - 1)
  BY <1>1, <1>2
<1>6. Accurate(m, ticks', (clock + ticks') % m, Elapsed(max, clock, (clock + ticks') % m))
  BY <1>4, <1>5, Measures
<1>7. Accurate(modulus, ticks', clock', measured')
  BY <1>2, <1>3, <1>6
<1> QED
  BY <1>2, <1>7 DEF Accurate, MeasuredIsElapsed

TimeInv == TimeType /\ MeasuredIsElapsed

(* At the start no time has passed and nothing is measured.                *)
LEMMA TimeStart == Init => TimeInv
<1> SUFFICES ASSUME Init PROVE TimeInv
  OBVIOUS
<1>1. modulus \in 1..Word /\ Word \in Int
  BY ModuliAssumption DEF Init
<1>2. 0 \in 0..(modulus - 1) /\ 0 \in 0..(Word - 1)
  BY <1>1
<1> QED
  BY <1>2 DEF Init, TimeInv, TimeType, MeasuredIsElapsed

(* Nothing but a measurement touches clock and result.                     *)
LEMMA TimeStep == TimeInv /\ [Next]_vars => TimeInv'
<1> SUFFICES ASSUME TimeInv, [Next]_vars PROVE TimeInv'
  OBVIOUS
<1>1. CASE MeasureKernel
  BY <1>1, MeasureStep DEF TimeInv, TimeType, MeasureKernel
<1>2. CASE UNCHANGED <<modulus, timing>>
  BY <1>2 DEF timing, TimeInv, TimeType, MeasuredIsElapsed
<1> QED
  BY <1>1, <1>2
     DEF Next, vars, InitEventPool, CreateEvent, CreateEventWithIndex, CreateEventInFullPool,
         DestroyEvent, NextPool

(* get_timestamp_time is exact for every clock of less than 64 valid bits, *)
(* and at most one tick off for one of 64, whatever the shift yields.      *)
THEOREM MeasuresAreExact == Spec => []MeasuredIsElapsed
<1>1. Init => TimeInv
  BY TimeStart
<1>2. TimeInv => MeasuredIsElapsed
  BY DEF TimeInv
<1> QED
  BY TimeStep, <1>1, <1>2, PTL DEF Spec

(* Every variable has its type in every state.                             *)
THEOREM TypeCorrect == Spec => []TypeOK
<1>1. Init => PoolInv /\ TimeInv
  BY EmptyPool, TimeStart DEF Init
<1>2. PoolInv /\ TimeInv => TypeOK
  BY DEF PoolInv, PoolType, Registered, TimeInv, TimeType, TypeOK
<1> QED
  BY PoolStep, TimeStep, <1>1, <1>2, PTL DEF Spec
=============================================================================
