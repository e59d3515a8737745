---------------------------- MODULE LevelZeroProofs ----------------------------
(***************************************************************************)
(* LevelZero for every set of programs that keep the discipline of         *)
(* HostView, and every order in which the engines run their commands.      *)
(*                                                                         *)
(* The properties of LevelZero are not inductive: whether a buffer may be  *)
(* freed next depends on all calls before.  What the program could know of *)
(* the engines, its view, is that history in short.  The invariant says    *)
(* that some view represents the state: it is exact about the host, holds  *)
(* every command that is under way, bounds the signaled events from both   *)
(* sides, counts the work of the timer and the work that is left together, *)
(* and foresees what memory holds in the end, and what each command reads, *)
(* because whatever could change that is ordered; and that it is one of a  *)
(* set of safe views which no call leaves. A call takes a state to one the *)
(* next view represents, an engine's step leaves the view as it is, and in *)
(* a state that a safe view represents the program's next calls do no      *)
(* harm.                                                                   *)
(*                                                                         *)
(* That a program keeps the discipline is a question about its calls       *)
(* alone, which TLC answers for each program of MCBenchmarks               *)
(* (KeepsDiscipline).                                                      *)
(***************************************************************************)
EXTENDS LevelZero, HostView, SequenceTheorems, FiniteSetTheorems, WellFoundedInduction,
        TLAPS

-----------------------------------------------------------------------------
(* The invariant.                                                          *)

\* Memory is a function, and the lists hold sequences of commands.
Typed ==
    /\ mem = [x \in DOMAIN mem |-> mem[x]]
    /\ \A l \in DOMAIN lists :
        \E S : lists[l] \in [commands : Seq(S), closed : BOOLEAN]

\* What the view says of the host is exact.
Exact(v) ==
    /\ todo = v.todo /\ started = v.started /\ lost = v.lost
    /\ lists = v.lists /\ mail = v.mail /\ DOMAIN mem = v.alive

\* Only what the view holds possible is under way.
UnderWay(v) ==
    /\ DOMAIN pending = DOMAIN v.sent
    /\ \A q \in DOMAIN pending : pending[q] \in Seq(v.sent[q])

\* What may be under way has what it needs, and does not reset an event the host
\* counts on.
Provided(v) ==
    \A q \in DOMAIN v.sent : \A d \in v.sent[q] :
        /\ Needs(d, q) \subseteq v.alive
        /\ d.signals \subseteq v.may
        /\ d.resets \cap v.must = {}
        /\ d.work \in Nat

SignaledBetween(v) == v.must \subseteq signaled /\ signaled \subseteq v.may

\* An event is not signaled before its command, the only one that signals it.
SignalsToCome ==
    \A q \in DOMAIN pending : \A i \in DOMAIN pending[q] :
        pending[q][i].signals \cap signaled = {}
SignalsAreUnique ==
    \A q, r \in DOMAIN pending : \A i \in DOMAIN pending[q], j \in DOMAIN pending[r] :
        <<q, i>> # <<r, j>> => pending[q][i].signals \cap pending[r][j].signals = {}

\* Once it has ended, its events are signaled.
SignaledInTheEnd(v) ==
    \A q \in DOMAIN v.sent : \A d \in v.sent[q] :
        d.signals \subseteq signaled \/ \E i \in DOMAIN pending[q] : pending[q][i] = d

\* While nothing can begin the queues hold what the view says.
Still(v) ==
    /\ pending = [q \in DOMAIN pending |-> pending[q]]
    /\ v.still => pending = v.queued /\ ~CanBegin(v.queued, v.may)

\* A running timer and the work that is left add up to the view's count.
Timed(v) ==
    /\ timer \in [on : BOOLEAN, done : Nat] /\ timer.on = v.on
    /\ IsFiniteSet(UnitsIn(pending))
    /\ v.count = timer.done + (IF v.on THEN Cardinality(UnitsIn(pending)) ELSE 0)

\* The places of the commands that are under way, and the command at one.
Places == UNION {{q} \X DOMAIN pending[q] : q \in DOMAIN pending}
At(x) == pending[x[1]][x[2]]
WritersOf(o, i) == {x \in Places : Writes(At(x), o, i)}

\* The command at y cannot start before the one at x has ended.
Behind(x, y) ==
    \/ WaitsOn(At(y), At(x))
    \/ /\ x[1] = y[1] /\ x[2] < y[2]
       /\ \E m \in (x[2] + 1)..y[2] : pending[x[1]][m].ordered

\* Once the commands at W have ended, part i of object o is h, unless others write it.
EndsIn(finds, W, o, i, h) ==
    IF W = {} THEN mem[o][i] = h
    ELSE \A x \in W : Result(finds, At(x), i) = h \/ \E y \in W : Behind(x, y)

\* What the command at y reads there is in order with all that write it, and then is
\* what the view foresees.
ReadIsForeseen(v, y, o, i) ==
    /\ \A x \in WritersOf(o, i) \ {y} : Behind(x, y) \/ Behind(y, x)
    /\ EndsIn(v.finds, {x \in WritersOf(o, i) : Behind(x, y)}, o, i, v.finds[At(y)][i])

\* So is what every part of memory holds in the end.
Foreseen(v) ==
    /\ DOMAIN mem = DOMAIN v.holds
    /\ \A x \in Places : Fits(At(x), v.holds)
    /\ \A o \in DOMAIN mem :
        /\ DOMAIN mem[o] = DOMAIN v.holds[o]
        /\ \A i \in DOMAIN mem[o] :
            /\ EndsIn(v.finds, WritersOf(o, i), o, i, v.holds[o][i])
            /\ \A y \in Places : Reads(At(y), o, i) => ReadIsForeseen(v, y, o, i)

\* Of any commands under way one is first in its queue, and waits for none of the
\* others: its events are signaled, or will be by the host or by yet other commands.
Answerable(v) ==
    \A S \in SUBSET Places :
        S # {} =>
            \E y \in S :
                /\ \A x \in S : x[1] = y[1] => y[2] <= x[2]
                /\ \A e \in At(y).waits :
                    \/ e \in signaled \cup v.gates
                    \/ \E x \in Places \ S : e \in At(x).signals

Represents(v) ==
    /\ Typed /\ Exact(v) /\ UnderWay(v) /\ Provided(v) /\ SignaledBetween(v)
    /\ SignalsToCome /\ SignalsAreUnique /\ SignaledInTheEnd(v) /\ Answerable(v)
    /\ Still(v) /\ Timed(v) /\ Foreseen(v)

IInv == \E views : ClosedViews(views) /\ \E v \in views : Represents(v)

\* What the theorems ask of the programs.
ProgramsAreDisciplined == \A program \in DOMAIN Programs : Disciplined(Programs[program])

-----------------------------------------------------------------------------
(* Sequences.                                                              *)

LEMMA SeqOfMore ==
    ASSUME NEW S, NEW T, S \subseteq T, NEW s \in Seq(S)
    PROVE  s \in Seq(T)
  OBVIOUS

\* A sequence is one over the elements it has.
LEMMA SeqOfElements ==
    ASSUME NEW S, NEW s \in Seq(S)
    PROVE  s \in Seq(ToSet(s))
  BY DEF ToSet

LEMMA SeqOfFewer ==
    ASSUME NEW S, NEW T, NEW s \in Seq(S), \A i \in DOMAIN s : s[i] \notin T
    PROVE  s \in Seq(S \ T)
  BY \A i \in 1..Len(s) : s[i] \in S \ T

LEMMA Appended ==
    ASSUME NEW S, NEW s \in Seq(S), NEW e
    PROVE  /\ Append(s, e) \in Seq(S \cup {e})
           /\ \A i \in DOMAIN s : Append(s, e)[i] = s[i]
           /\ \A i \in DOMAIN Append(s, e) \ DOMAIN s : Append(s, e)[i] = e /\ i = Len(s) + 1
  BY SeqOfMore

LEMMA Concatenated ==
    ASSUME NEW S, NEW T, NEW s \in Seq(S), NEW t \in Seq(T)
    PROVE  /\ s \o t \in Seq(S \cup T)
           /\ \A i \in DOMAIN s : (s \o t)[i] = s[i]
           /\ \A i \in DOMAIN (s \o t) \ DOMAIN s :
                i - Len(s) \in DOMAIN t /\ (s \o t)[i] = t[i - Len(s)]
<1>1. s \in Seq(S \cup T) /\ t \in Seq(S \cup T)
  BY SeqOfMore
<1> QED
  BY <1>1

\* What is left of a sequence without its i-th element, and where it was.
LEMMA Removed ==
    ASSUME NEW S, NEW s \in Seq(S), NEW i \in DOMAIN s
    PROVE  /\ RemoveAt(s, i) \in Seq(S) /\ Len(RemoveAt(s, i)) = Len(s) - 1
           /\ \A j \in DOMAIN RemoveAt(s, i) :
                LET k == IF j < i THEN j ELSE j + 1
                IN  k \in DOMAIN s \ {i} /\ RemoveAt(s, i)[j] = s[k]
<1> DEFINE before == SubSeq(s, 1, i - 1)
           after == SubSeq(s, i + 1, Len(s))
<1>1. i \in 1..Len(s)
  OBVIOUS
<1>2. /\ before \in Seq(S) /\ Len(before) = i - 1
      /\ \A j \in 1..(i - 1) : before[j] = s[j]
  <2>1. \A j \in 1..(i - 1) : s[j] \in S
    BY <1>1
  <2> QED
    BY <1>1, <2>1
<1>3. /\ after \in Seq(S) /\ Len(after) = Len(s) - i
      /\ \A j \in 1..(Len(s) - i) : after[j] = s[i + j]
  <2>1. \A j \in (i + 1)..Len(s) : s[j] \in S
    BY <1>1
  <2> QED
    BY <1>1, <2>1
<1> HIDE DEF before, after
<1>4. /\ before \o after \in Seq(S) /\ Len(before \o after) = Len(s) - 1
      /\ \A j \in 1..(Len(s) - 1) :
            (before \o after)[j] = IF j < i THEN s[j] ELSE s[j + 1]
  BY <1>1, <1>2, <1>3
<1>5. RemoveAt(s, i) = before \o after
  BY DEF RemoveAt, before, after
<1>6. ASSUME NEW j \in DOMAIN RemoveAt(s, i)
      PROVE  LET k == IF j < i THEN j ELSE j + 1
             IN  k \in DOMAIN s \ {i} /\ RemoveAt(s, i)[j] = s[k]
  <2>1. j \in 1..(Len(s) - 1)
    BY <1>4, <1>5
  <2>2. RemoveAt(s, i)[j] = IF j < i THEN s[j] ELSE s[j + 1]
    BY <2>1, <1>4, <1>5
  <2>3. DOMAIN s = 1..Len(s) /\ Len(s) \in Nat
    OBVIOUS
  <2>4. (IF j < i THEN j ELSE j + 1) \in 1..Len(s) \ {i}
    BY <2>1, <2>3, <1>1
  <2> QED
    BY <2>2, <2>3, <2>4
<1> QED
  BY <1>4, <1>5, <1>6

-----------------------------------------------------------------------------
(* The work in the queues.                                                 *)

\* The k-th unit of work of the i-th command of a queue.
UnitAt(queues, q, i, k) ==
    q \in DOMAIN queues /\ i \in DOMAIN queues[q] /\ k \in 1..queues[q][i].work

LEMMA UnitsAreCounted ==
    ASSUME NEW queues, NEW u
    PROVE  u \in UnitsIn(queues) <=> \E q, i, k : UnitAt(queues, q, i, k) /\ u = <<q, <<i, k>>>>
  BY DEF UnitsIn, UnitsOf, UnitAt

\* A sequence of commands is a finite amount of work.
LEMMA UnitsAreFinite ==
    ASSUME NEW S, NEW s \in Seq(S), \A d \in S : d.work \in Nat
    PROVE  IsFiniteSet(UnitsOf(s)) /\ Cardinality(UnitsOf(s)) \in Nat
<1> DEFINE U(i) == {i} \X (1..s[i].work)
           all == {U(i) : i \in DOMAIN s}
           f == [i \in DOMAIN s |-> U(i)]
<1>1. IsFiniteSet(DOMAIN s)
  BY FS_Interval
<1>2. f \in Surjection(DOMAIN s, all)
  BY DEF Surjection
<1>3. IsFiniteSet(all)
  BY <1>1, <1>2, FS_Surjection
<1>4. ASSUME NEW i \in DOMAIN s
      PROVE  IsFiniteSet(U(i))
  <2>1. s[i].work \in Nat
    OBVIOUS
  <2> DEFINE w == s[i].work
  <2>2. IsFiniteSet(1..w)
    <3>1. w \in Int /\ 1 \in Int
      BY <2>1
    <3> HIDE DEF w
    <3> QED
      BY <3>1, FS_Interval
  <2>3. IsFiniteSet({i})
    BY FS_Singleton
  <2> QED
    BY <2>2, <2>3, FS_Product
<1>5. IsFiniteSet(UNION all)
  BY <1>3, <1>4, FS_UNION
<1>6. UnitsOf(s) = UNION all
  BY DEF UnitsOf
<1> QED
  BY <1>5, <1>6, FS_CardinalityType

\* Work that is appended to a queue is added to what is left.
LEMMA WorkIsAdded ==
    ASSUME NEW queues, IsFiniteSet(UnitsIn(queues)), NEW q \in DOMAIN queues,
           NEW S, queues[q] \in Seq(S),
           NEW T, NEW new \in Seq(T), \A d \in T : d.work \in Nat,
           NEW after, DOMAIN after = DOMAIN queues,
           after[q] = queues[q] \o new,
           \A r \in DOMAIN queues \ {q} : after[r] = queues[r]
    PROVE  /\ IsFiniteSet(UnitsIn(after))
           /\ Cardinality(UnitsIn(after)) = Cardinality(UnitsIn(queues)) + Cardinality(UnitsOf(new))
<1> DEFINE n == Len(queues[q])
           U == UnitsOf(new)
           f == [u \in U |-> <<q, <<u[1] + n, u[2]>>>>]
           V == {f[u] : u \in U}
<1>1. /\ n \in Nat /\ DOMAIN queues[q] = 1..n /\ DOMAIN new = 1..Len(new) /\ Len(new) \in Nat
      /\ DOMAIN after[q] = 1..(n + Len(new))
      /\ \A i \in 1..n : after[q][i] = queues[q][i]
      /\ \A i \in 1..Len(new) : after[q][i + n] = new[i]
  OBVIOUS
<1>2. ASSUME NEW u
      PROVE  u \in U <=> \E i \in 1..Len(new) : \E k \in 1..new[i].work : u = <<i, k>>
  BY <1>1 DEF UnitsOf
<1>3. ASSUME NEW u
      PROVE  u \in V <=> \E i \in 1..Len(new) : \E k \in 1..new[i].work : u = <<q, <<i + n, k>>>>
  <2>1. ASSUME NEW i \in 1..Len(new), NEW k \in 1..new[i].work
        PROVE  <<i, k>> \in U /\ f[<<i, k>>] = <<q, <<i + n, k>>>>
    BY <1>2
  <2>2. \A t : t \in V <=> \E x \in U : t = f[x]
    OBVIOUS
  <2> HIDE DEF U, V, f
  <2>3. ASSUME u \in V
        PROVE  \E i \in 1..Len(new) : \E k \in 1..new[i].work : u = <<q, <<i + n, k>>>>
    <3>1. PICK x \in U : u = f[x]
      BY <2>2, <2>3
    <3>2. PICK i, k : i \in 1..Len(new) /\ k \in 1..new[i].work /\ x = <<i, k>>
      BY <1>2
    <3> QED
      BY <2>1, <3>1, <3>2
  <2>4. ASSUME NEW i \in 1..Len(new), NEW k \in 1..new[i].work, u = <<q, <<i + n, k>>>>
        PROVE  u \in V
    BY <2>1, <2>2, <2>4
  <2> QED
    BY <2>3, <2>4
<1>4. UnitsIn(after) = UnitsIn(queues) \cup V
  <2>1. ASSUME NEW u \in UnitsIn(after)
        PROVE  u \in UnitsIn(queues) \cup V
    <3>1. PICK r, i, k : UnitAt(after, r, i, k) /\ u = <<r, <<i, k>>>>
      BY UnitsAreCounted DEF UnitAt
    <3>2. CASE r # q \/ i \in 1..n
      <4>1. r \in DOMAIN queues /\ i \in DOMAIN queues[r] /\ after[r][i] = queues[r][i]
        BY <3>1, <3>2, <1>1 DEF UnitAt
      <4> QED
        BY <3>1, <4>1, UnitsAreCounted DEF UnitAt
    <3>3. CASE r = q /\ i \notin 1..n
      <4>1. i - n \in 1..Len(new) /\ i = (i - n) + n
        BY <3>1, <3>3, <1>1 DEF UnitAt
      <4>2. after[q][i] = new[i - n]
        BY <4>1, <1>1
      <4> QED
        <5>1. k \in 1..new[i - n].work /\ u = <<q, <<(i - n) + n, k>>>>
          BY <3>1, <3>3, <4>1, <4>2 DEF UnitAt
        <5> HIDE DEF V
        <5> QED
          BY <4>1, <5>1, <1>3
    <3> QED
      BY <3>2, <3>3
  <2>2. ASSUME NEW u \in UnitsIn(queues)
        PROVE  u \in UnitsIn(after)
    <3>1. PICK r, i, k : UnitAt(queues, r, i, k) /\ u = <<r, <<i, k>>>>
      BY UnitsAreCounted DEF UnitAt
    <3>2. r \in DOMAIN after /\ i \in DOMAIN after[r] /\ after[r][i] = queues[r][i]
      <4>1. CASE r = q
        <5>1. i \in 1..n
          BY <1>1, <3>1, <4>1 DEF UnitAt
        <5>2. i \in 1..(n + Len(new))
          BY <1>1, <5>1
        <5> QED
          BY <1>1, <4>1, <5>1, <5>2
      <4>2. CASE r # q
        BY <3>1, <4>2 DEF UnitAt
      <4> QED
        BY <4>1, <4>2
    <3>3. UnitAt(after, r, i, k)
      BY <3>1, <3>2 DEF UnitAt
    <3> QED
      BY <3>1, <3>3, UnitsAreCounted
  <2>3. ASSUME NEW u \in V
        PROVE  u \in UnitsIn(after)
    <3>1. PICK i, k : i \in 1..Len(new) /\ k \in 1..new[i].work /\ u = <<q, <<i + n, k>>>>
      BY <1>3
    <3>2. i + n \in DOMAIN after[q] /\ after[q][i + n] = new[i]
      BY <1>1, <3>1 DEF UnitAt
    <3> QED
      BY <3>1, <3>2, UnitsAreCounted DEF UnitAt
  <2> QED
    BY <2>1, <2>2, <2>3
<1>5. UnitsIn(queues) \cap V = {}
  <2> SUFFICES ASSUME NEW u \in UnitsIn(queues), u \in V PROVE FALSE
    OBVIOUS
  <2>1. PICK r, i, k : UnitAt(queues, r, i, k) /\ u = <<r, <<i, k>>>>
    BY UnitsAreCounted DEF UnitAt
  <2>2. PICK j, l : j \in 1..Len(new) /\ l \in 1..new[j].work /\ u = <<q, <<j + n, l>>>>
    BY <1>3
  <2>3. r = q /\ i = j + n
    BY <2>1, <2>2
  <2> QED
    BY <2>1, <2>2, <2>3, <1>1 DEF UnitAt
<1>6. IsFiniteSet(U)
  BY UnitsAreFinite
<1>7. f \in Bijection(U, V)
  <2>1. f \in [U -> V]
    OBVIOUS
  <2>2. ASSUME NEW u \in U, NEW w \in U, f[u] = f[w]
        PROVE  u = w
    <3>1. PICK i, k : i \in 1..Len(new) /\ k \in 1..new[i].work /\ u = <<i, k>>
      BY <1>2
    <3>2. PICK j, l : j \in 1..Len(new) /\ l \in 1..new[j].work /\ w = <<j, l>>
      BY <1>2
    <3>3. f[u] = <<q, <<i + n, k>>>> /\ f[w] = <<q, <<j + n, l>>>>
      BY <3>1, <3>2
    <3>4. i + n = j + n /\ k = l
      BY <2>2, <3>3
    <3> QED
      BY <3>1, <3>2, <3>4, <1>1
  <2>3. \A t \in V : \E u \in U : f[u] = t
    OBVIOUS
  <2> HIDE DEF f, V, U
  <2> QED
    BY <2>1, <2>2, <2>3 DEF Bijection, Injection, Surjection, IsInjective
<1> HIDE DEF V, U, f
<1>8. IsFiniteSet(V) /\ Cardinality(V) = Cardinality(U)
  BY <1>6, <1>7, FS_Bijection DEF ExistsBijection
<1>9. Cardinality(UnitsIn(queues) \cap V) = 0
  BY <1>5, FS_EmptySet
<1>10. Cardinality(UnitsIn(queues)) \in Nat /\ Cardinality(V) \in Nat
  BY <1>8, FS_CardinalityType
<1>11. /\ IsFiniteSet(UnitsIn(queues) \cup V)
       /\ Cardinality(UnitsIn(queues) \cup V) =
            Cardinality(UnitsIn(queues)) + Cardinality(V) - Cardinality(UnitsIn(queues) \cap V)
  BY <1>8, FS_Union
<1>12. Cardinality(V) = Cardinality(UnitsOf(new))
  BY <1>8 DEF U
<1> QED
  BY <1>4, <1>9, <1>10, <1>11, <1>12

\* A command that completes takes its work away.
LEMMA WorkIsRemoved ==
    ASSUME NEW queues, IsFiniteSet(UnitsIn(queues)), NEW q \in DOMAIN queues,
           NEW S, queues[q] \in Seq(S), NEW i \in DOMAIN queues[q], queues[q][i].work \in Nat
    PROVE  LET after == [queues EXCEPT ![q] = RemoveAt(@, i)]
           IN  /\ IsFiniteSet(UnitsIn(after))
               /\ Cardinality(UnitsIn(queues)) =
                      Cardinality(UnitsIn(after)) + queues[q][i].work
<1> DEFINE after == [queues EXCEPT ![q] = RemoveAt(@, i)]
           w == queues[q][i].work
           was(r, j) == IF r # q \/ j < i THEN j ELSE j + 1
           f == [u \in UnitsIn(after) |-> <<u[1], <<was(u[1], u[2][1]), u[2][2]>>>>]
           gone == UnitsIn(queues) \ {f[u] : u \in UnitsIn(after)}
           g == [k \in 1..w |-> <<q, <<i, k>>>>]
<1>1. /\ RemoveAt(queues[q], i) \in Seq(S) /\ Len(RemoveAt(queues[q], i)) = Len(queues[q]) - 1
      /\ \A j \in DOMAIN RemoveAt(queues[q], i) :
            /\ was(q, j) \in DOMAIN queues[q] \ {i}
            /\ RemoveAt(queues[q], i)[j] = queues[q][was(q, j)]
  BY Removed
<1>2. i \in 1..Len(queues[q]) /\ Len(queues[q]) \in Nat /\ DOMAIN queues[q] = 1..Len(queues[q])
  OBVIOUS
<1>3. ASSUME NEW r, NEW j, NEW k, UnitAt(after, r, j, k)
      PROVE  /\ UnitAt(queues, r, was(r, j), k) /\ <<r, was(r, j)>> # <<q, i>>
             /\ f[<<r, <<j, k>>>>] = <<r, <<was(r, j), k>>>>
  <2>1. <<r, <<j, k>>>> \in UnitsIn(after)
    BY <1>3, UnitsAreCounted
  <2>2. CASE r = q
    BY <1>1, <1>3, <2>1, <2>2 DEF UnitAt
  <2>3. CASE r # q
    BY <1>3, <2>1, <2>3 DEF UnitAt
  <2> QED
    BY <2>2, <2>3
<1>4. ASSUME NEW r, NEW j, NEW k, UnitAt(queues, r, j, k), <<r, j>> # <<q, i>>
      PROVE  \E u \in UnitsIn(after) : f[u] = <<r, <<j, k>>>>
  <2> DEFINE m == IF r # q \/ j < i THEN j ELSE j - 1
  <2>1. UnitAt(after, r, m, k) /\ was(r, m) = j
    <3>1. CASE r # q
      BY <1>4, <3>1 DEF UnitAt
    <3>2. CASE r = q
      <4>1. j \in 1..Len(queues[q]) /\ j # i
        BY <1>2, <1>4, <3>2 DEF UnitAt
      <4>2. m \in 1..(Len(queues[q]) - 1) /\ was(q, m) = j
        BY <4>1, <1>2, <3>2
      <4>3. m \in DOMAIN RemoveAt(queues[q], i)
        BY <1>1, <1>2, <4>2
      <4> HIDE DEF m
      <4>4. after[q] = RemoveAt(queues[q], i) /\ after[q][m] = queues[q][j]
        BY <1>1, <4>2, <4>3
      <4> QED
        BY <1>4, <3>2, <4>2, <4>3, <4>4 DEF UnitAt
    <3> QED
      BY <3>1, <3>2
  <2> HIDE DEF m
  <2>2. <<r, <<m, k>>>> \in UnitsIn(after)
    BY <2>1, UnitsAreCounted
  <2> QED
    BY <1>3, <2>1, <2>2
<1> HIDE DEF f, after, was
<1>5. ASSUME NEW u
      PROVE  u \in gone <=> \E k \in 1..w : u = <<q, <<i, k>>>>
  <2>1. ASSUME u \in gone
        PROVE  \E k \in 1..w : u = <<q, <<i, k>>>>
    <3>1. PICK r, j, k : UnitAt(queues, r, j, k) /\ u = <<r, <<j, k>>>>
      BY <2>1, UnitsAreCounted
    <3>2. ASSUME <<r, j>> # <<q, i>> PROVE FALSE
      <4>1. \E x \in UnitsIn(after) : f[x] = u
        <5> HIDE DEF gone, g, w
        <5>1. \E x \in UnitsIn(after) : f[x] = <<r, <<j, k>>>>
          BY ONLY <1>4, <3>1, <3>2
        <5> QED
          BY <3>1, <5>1
      <4> QED
        BY <2>1, <4>1
    <3> QED
      BY <3>1, <3>2 DEF UnitAt
  <2>2. ASSUME NEW k \in 1..w, u = <<q, <<i, k>>>>
        PROVE  u \in gone
    <3>1. u \in UnitsIn(queues)
      BY <2>2, UnitsAreCounted DEF UnitAt
    <3>2. ASSUME NEW x \in UnitsIn(after), u = f[x]
          PROVE  FALSE
      <4>1. PICK r, j, l : UnitAt(after, r, j, l) /\ x = <<r, <<j, l>>>>
        BY UnitsAreCounted
      <4>2. <<r, was(r, j)>> # <<q, i>> /\ f[<<r, <<j, l>>>>] = <<r, <<was(r, j), l>>>>
        BY ONLY <1>3, <4>1
      <4> QED
        BY <2>2, <3>2, <4>1, <4>2
    <3> QED
      BY <3>1, <3>2
  <2> QED
    BY <2>1, <2>2
<1>6. ASSUME NEW x \in UnitsIn(after), NEW y \in UnitsIn(after), f[x] = f[y]
      PROVE  x = y
  <2>1. PICK r, j, k : UnitAt(after, r, j, k) /\ x = <<r, <<j, k>>>>
    BY UnitsAreCounted
  <2>2. PICK s, l, m : UnitAt(after, s, l, m) /\ y = <<s, <<l, m>>>>
    BY UnitsAreCounted
  <2>3. <<r, <<was(r, j), k>>>> = <<s, <<was(s, l), m>>>>
    BY <1>3, <1>6, <2>1, <2>2
  <2>4. r = s /\ k = m /\ was(r, j) = was(r, l)
    BY <2>3
  <2>5. j = l
    <3>1. CASE r # q
      BY <2>4, <3>1 DEF was
    <3>2. CASE r = q
      <4>1. j \in Nat /\ l \in Nat /\ i \in Nat
        BY <1>1, <1>2, <2>1, <2>2, <2>4, <3>2 DEF UnitAt, after
      <4> QED
        BY <2>4, <3>2, <4>1 DEF was
    <3> QED
      BY <3>1, <3>2
  <2> QED
    BY <2>1, <2>2, <2>4, <2>5
<1>7. ASSUME NEW x \in UnitsIn(after)
      PROVE  f[x] \in UnitsIn(queues)
  <2>1. PICK r, j, k : UnitAt(after, r, j, k) /\ x = <<r, <<j, k>>>>
    BY UnitsAreCounted
  <2>2. UnitAt(queues, r, was(r, j), k) /\ f[x] = <<r, <<was(r, j), k>>>>
    BY <1>3, <2>1
  <2> QED
    BY <2>2, UnitsAreCounted
<1> DEFINE kept == {f[u] : u \in UnitsIn(after)}
<1>8. UnitsIn(queues) = kept \cup gone /\ kept \cap gone = {} /\ kept \subseteq UnitsIn(queues)
  BY <1>7
<1>9. f \in Injection(UnitsIn(after), kept) /\ f \in Surjection(UnitsIn(after), kept)
  BY <1>6 DEF f, Injection, Surjection, IsInjective
<1>10. g \in Injection(1..w, gone) /\ g \in Surjection(1..w, gone)
  <2>1. g \in [1..w -> gone]
    BY <1>5
  <2>2. \A t \in gone : \E k \in 1..w : g[k] = t
    BY <1>5
  <2>3. \A j, k \in 1..w : g[j] = g[k] => j = k
    OBVIOUS
  <2> HIDE DEF g, gone
  <2> QED
    BY <2>1, <2>2, <2>3 DEF Injection, Surjection, IsInjective
<1> HIDE DEF kept, gone, g
<1>11. IsFiniteSet(kept)
  BY <1>8, FS_Subset
<1>12. IsFiniteSet(UnitsIn(after)) /\ Cardinality(UnitsIn(after)) = Cardinality(kept)
  BY <1>9, <1>11, FS_Injection
<1>13. IsFiniteSet(1..w) /\ Cardinality(1..w) = w
  <2>1. w \in Nat /\ w \in Int /\ 1 \in Int
    OBVIOUS
  <2> HIDE DEF w
  <2>2. /\ IsFiniteSet(1..w)
        /\ Cardinality(1..w) = IF 1 > w THEN 0 ELSE w - 1 + 1
    BY <2>1, FS_Interval
  <2> QED
    BY <2>1, <2>2
<1>14. IsFiniteSet(gone) /\ Cardinality(gone) = w
  BY <1>10, <1>13, FS_Surjection
<1>15. Cardinality(kept \cap gone) = 0
  BY <1>8, FS_EmptySet
<1>16. Cardinality(UnitsIn(queues)) = Cardinality(kept) + Cardinality(gone) - Cardinality(kept \cap gone)
  BY <1>8, <1>11, <1>14, FS_Union
<1>17. Cardinality(kept) \in Nat
  BY <1>11, FS_CardinalityType
<1> QED
  BY <1>12, <1>14, <1>15, <1>16, <1>17 DEF after

\* Commands that count for nothing leave nothing to count.
LEMMA NoWorkIsLeft ==
    ASSUME NEW queues,
           \A q \in DOMAIN queues : \A i \in DOMAIN queues[q] : queues[q][i].work = 0
    PROVE  IsFiniteSet(UnitsIn(queues)) /\ Cardinality(UnitsIn(queues)) = 0
<1>1. ASSUME NEW u \in UnitsIn(queues) PROVE FALSE
  BY UnitsAreCounted DEF UnitAt
<1> QED
  BY <1>1, FS_EmptySet

\* A new queue has nothing to do.
LEMMA NewQueueHasNoWork ==
    ASSUME NEW queues, NEW q, q \in DOMAIN queues => queues[q] = <<>>
    PROVE  UnitsIn(Put(queues, q, <<>>)) = UnitsIn(queues)
<1> DEFINE after == Put(queues, q, <<>>)
<1>1. ASSUME NEW r, NEW i, NEW k
      PROVE  UnitAt(after, r, i, k) <=> UnitAt(queues, r, i, k)
  BY DEF UnitAt, Put
<1> HIDE DEF after
<1>2. ASSUME NEW u
      PROVE  u \in UnitsIn(after) <=> u \in UnitsIn(queues)
  BY <1>1, UnitsAreCounted
<1> QED
  <2>1. UnitsIn(after) = UnitsIn(queues)
    <3> HIDE DEF UnitsIn
    <3> QED
      BY <1>2
  <2> QED
    BY <2>1 DEF after

-----------------------------------------------------------------------------
(* The calls of the host.                                                  *)

PendingAfter(c) ==
    IF c.op = "createQueue" THEN Put(pending, c.object, <<>>)
    ELSE IF c.op = "execute"
    THEN [pending EXCEPT ![c.object] = @ \o lists[c.list].commands]
    ELSE IF c.op = "submit" THEN [pending EXCEPT ![c.object] = Append(@, c.command)]
    ELSE pending

MemAfter(c) ==
    IF c.op = "create" THEN Put(mem, c.object, c.contents)
    ELSE IF c.op \in {"createList", "createQueue"} THEN Put(mem, c.object, <<>>)
    ELSE IF c.op = "destroy" THEN [x \in DOMAIN mem \ {c.object} |-> mem[x]]
    ELSE IF c.op = "touch" THEN Effect(mem, c.command)
    ELSE mem

TimerAfter(c) ==
    IF c.op = "start" THEN [on |-> TRUE, done |-> IF c.fresh THEN 0 ELSE timer.done]
    ELSE IF c.op = "stop" THEN [timer EXCEPT !.on = FALSE]
    ELSE IF c.op = "touch" THEN Counted(c.command)
    ELSE timer

\* What a call does to each variable, and what it waited for.
CallEffect(v, p) ==
    LET c == Current(p)
    IN  /\ Calls(p)
        /\ todo' = [todo EXCEPT ![p] = Tail(@)]
        /\ started' = started \cup (IF c.op = "fork" THEN {c.child} ELSE {})
        /\ lost' = lost \cup (Created(c) \cap DOMAIN mem)
        /\ lists' = ListsAfter(v, c)
        /\ mail' = MailAfter(v, c)
        /\ mem' = MemAfter(c)
        /\ DOMAIN mem' = (DOMAIN mem \cup Created(c)) \ ObjectOf(c, {"destroy"})
        /\ mem' = [x \in DOMAIN mem' |-> mem'[x]]
        /\ pending' = PendingAfter(c)
        /\ signaled' = (signaled \cup ObjectOf(c, {"signal"}))
                           \ ObjectOf(c, {"reset", "destroy"})
        /\ timer' = TimerAfter(c)
        /\ c.op = "synchronize" => pending[c.object] = <<>>
        /\ c.op = "await" => c.object \in signaled
        /\ c.op = "wait" => todo[c.child] = <<>>
        /\ c.op = "receive" => mail.box # <<>>

\* Every step of the host is a call with the effect of its kind.
LEMMA CallsHaveEffects ==
    ASSUME NEW v, lists = v.lists, mail = v.mail, mem = [x \in DOMAIN mem |-> mem[x]],
           NEW p, HostStep(p)
    PROVE  CallEffect(v, p)
<1> USE DEF CallEffect, Makes, Current, ObjectOf, Created, ListsAfter, MailAfter,
            PendingAfter, MemAfter, TimerAfter, Put, memory, device
<1>1. CASE CreateObject(p)
  BY <1>1 DEF CreateObject, Born
<1>2. CASE CreateList(p)
  BY <1>2 DEF CreateList, Born
<1>3. CASE CreateQueue(p)
  BY <1>3 DEF CreateQueue, Born
<1>4. CASE DestroyObject(p)
  BY <1>4 DEF DestroyObject
<1>5. CASE TouchMemory(p)
  BY <1>5 DEF TouchMemory, Effect
<1>6. CASE ExpectMemory(p)
  BY <1>6 DEF ExpectMemory
<1>7. CASE AppendCommand(p)
  BY <1>7 DEF AppendCommand
<1>8. CASE CloseList(p)
  BY <1>8 DEF CloseList
<1>9. CASE ResetList(p)
  BY <1>9 DEF ResetList
<1>10. CASE ExecuteList(p)
  BY <1>10 DEF ExecuteList
<1>11. CASE SubmitCommand(p)
  BY <1>11 DEF SubmitCommand
<1>12. CASE SynchronizeQueue(p)
  BY <1>12 DEF SynchronizeQueue
<1>13. CASE SignalEvent(p)
  BY <1>13 DEF SignalEvent
<1>14. CASE ResetEvent(p)
  BY <1>14 DEF ResetEvent
<1>15. CASE AwaitEvent(p)
  BY <1>15 DEF AwaitEvent
<1>16. CASE QueryEvent(p)
  BY <1>16 DEF QueryEvent
<1>17. CASE StartTimer(p)
  BY <1>17 DEF StartTimer
<1>18. CASE StopTimer(p)
  BY <1>18 DEF StopTimer
<1>19. CASE ReportResult(p)
  BY <1>19 DEF ReportResult
<1>20. CASE ForkProcess(p)
  BY <1>20 DEF ForkProcess
<1>21. CASE WaitForProcess(p)
  BY <1>21 DEF WaitForProcess, Ended
<1>22. CASE SendHandle(p)
  BY <1>22 DEF SendHandle
<1>23. CASE ReceiveHandle(p)
  BY <1>23 DEF ReceiveHandle
<1> QED
  BY <1>1, <1>2, <1>3, <1>4, <1>5, <1>6, <1>7, <1>8, <1>9, <1>10, <1>11, <1>12, <1>13, <1>14, <1>15, <1>16, <1>17, <1>18, <1>19, <1>20, <1>21, <1>22, <1>23 DEF HostStep

\* A call is the one the view expects, at a time the view allows.
LEMMA CallsAreExpected ==
    ASSUME NEW v, Exact(v), NEW p, CallEffect(v, p)
    PROVE  /\ HasCall(v, p) /\ MayCall(v, p)
           /\ Current(p) = NextCall(v, p)
  BY DEF Exact, CallEffect, HasCall, MayCall, NextCall, Current, Calls

\* The view stays exact.
LEMMA ViewStaysExact ==
    ASSUME NEW v, Exact(v), NEW p, CallEffect(v, p)
    PROVE  Exact(ViewAfter(v, p))'
<1> DEFINE c == NextCall(v, p)
<1>1. c = Current(p)
  BY CallsAreExpected
<1>2. todo' = ViewAfter(v, p).todo /\ started' = ViewAfter(v, p).started
  BY <1>1 DEF Exact, CallEffect, ViewAfter
<1>3. lost' = ViewAfter(v, p).lost /\ DOMAIN mem' = ViewAfter(v, p).alive
  BY <1>1 DEF Exact, CallEffect, ViewAfter
<1>4. lists' = ViewAfter(v, p).lists /\ mail' = ViewAfter(v, p).mail
  BY <1>1 DEF Exact, CallEffect, ViewAfter
<1> QED
  BY <1>2, <1>3, <1>4 DEF Exact

\* Lists hold sequences of commands.
LEMMA CallsKeepTypes ==
    ASSUME Typed, NEW v, lists = v.lists, NEW p, CallEffect(v, p)
    PROVE  Typed'
<1> DEFINE c == Current(p)
<1> SUFFICES ASSUME NEW l \in DOMAIN lists'
             PROVE  \E S : lists'[l] \in [commands : Seq(S), closed : BOOLEAN]
  BY DEF Typed, CallEffect
<1>0. lists' = ListsAfter(v, c)
  BY DEF CallEffect
<1>1. CASE c.op = "createList"
  <2>1. lists'[l] = [commands |-> <<>>, closed |-> FALSE] \/ (l \in DOMAIN lists /\ lists'[l] = lists[l])
    BY <1>0, <1>1 DEF ListsAfter, Put
  <2>2. [commands |-> <<>>, closed |-> FALSE] \in [commands : Seq({}), closed : BOOLEAN]
    OBVIOUS
  <2> QED
    BY <2>1, <2>2 DEF Typed
<1>2. CASE c.op = "append"
  <2>1. PICK S : lists[l] \in [commands : Seq(S), closed : BOOLEAN]
    BY <1>0, <1>2 DEF ListsAfter, Typed
  <2>2. lists'[l] \in [commands : Seq(S \cup {c.command}), closed : BOOLEAN]
    <3>1. lists[l].commands \in Seq(S) /\ lists[l].closed \in BOOLEAN
      BY <2>1
    <3>2. /\ lists[l].commands \in Seq(S \cup {c.command})
          /\ Append(lists[l].commands, c.command) \in Seq(S \cup {c.command})
      BY <3>1, SeqOfMore
    <3>3. lists'[l] = lists[l]
          \/ lists'[l] = [lists[l] EXCEPT !.commands = Append(@, c.command)]
      BY <1>0, <1>2 DEF ListsAfter
    <3> QED
      BY <2>1, <3>1, <3>2, <3>3
  <2> QED
    BY <2>2
<1>3. CASE c.op = "close"
  <2>1. PICK S : lists[l] \in [commands : Seq(S), closed : BOOLEAN]
    BY <1>0, <1>3 DEF ListsAfter, Typed
  <2>2. lists'[l] \in [commands : Seq(S), closed : BOOLEAN]
    BY <1>0, <1>3, <2>1 DEF ListsAfter
  <2> QED
    BY <2>2
<1>4. CASE c.op = "resetList"
  <2>1. lists'[l] = [commands |-> <<>>, closed |-> FALSE] \/ (l \in DOMAIN lists /\ lists'[l] = lists[l])
    BY <1>0, <1>4 DEF ListsAfter
  <2>2. [commands |-> <<>>, closed |-> FALSE] \in [commands : Seq({}), closed : BOOLEAN]
    OBVIOUS
  <2> QED
    BY <2>1, <2>2 DEF Typed
<1>5. CASE c.op \notin {"createList", "append", "close", "resetList"}
  BY <1>0, <1>5 DEF ListsAfter, Typed
<1> QED
  BY <1>1, <1>2, <1>3, <1>4, <1>5

\* What a call submits is a sequence, and goes to the end of the queue.
LEMMA SubmitsGoToTheEnd ==
    ASSUME Typed, NEW v, Exact(v), UnderWay(v), NEW p, CallEffect(v, p),
           SafeSubmit(v, NextCall(v, p)), Current(p).op \in {"execute", "submit"}
    PROVE  LET c == NextCall(v, p)
               new == Submits(v, c)
           IN  /\ new \in Seq(ToSet(new))
               /\ DOMAIN pending' = DOMAIN pending
               /\ \A q \in DOMAIN pending :
                    pending'[q] = IF q = c.object THEN pending[q] \o new ELSE pending[q]
<1> DEFINE c == Current(p)
           new == Submits(v, c)
<1>1. c = NextCall(v, p)
  BY CallsAreExpected
<1>2. lists = v.lists
  BY DEF Exact
<1>3. pending' = PendingAfter(c)
  BY DEF CallEffect
<1>4. CASE c.op = "execute"
  <2>1. new = lists[c.list].commands /\ c.list \in DOMAIN lists
    BY <1>1, <1>2, <1>4 DEF Submits, SafeSubmit
  <2>2. PICK S : new \in Seq(S)
    BY <2>1 DEF Typed
  <2>3. new \in Seq(ToSet(new))
    BY <2>2, SeqOfElements
  <2>4. pending' = [pending EXCEPT ![c.object] = @ \o new]
    BY <1>3, <1>4, <2>1 DEF PendingAfter
  <2> QED
    BY <1>1, <2>3, <2>4
<1>5. CASE c.op = "submit"
  <2>1. new = <<c.command>>
    BY <1>5 DEF Submits
  <2>2. new \in Seq(ToSet(new))
    <3>1. new \in Seq({c.command})
      BY <2>1
    <3> QED
      BY <3>1, SeqOfElements
  <2>3. pending' = [pending EXCEPT ![c.object] = Append(@, c.command)]
    BY <1>3, <1>5 DEF PendingAfter
  <2>4. ASSUME NEW q \in DOMAIN pending
        PROVE  Append(pending[q], c.command) = pending[q] \o new
    BY <2>1 DEF UnderWay
  <2> QED
    BY <1>1, <2>2, <2>3, <2>4
<1> QED
  BY <1>4, <1>5

\* Calls that submit nothing leave what is under way alone.
LEMMA OtherCallsSubmitNothing ==
    ASSUME NEW v, NEW p, CallEffect(v, p),
           Current(p).op \notin {"execute", "submit", "createQueue"}
    PROVE  /\ pending' = pending
           /\ ToSet(Submits(v, Current(p))) = {}
<1>1. Submits(v, Current(p)) = <<>>
  BY DEF Submits
<1>2. ToSet(<<>>) = {}
  BY DEF ToSet
<1> QED
  BY <1>1, <1>2 DEF CallEffect, PendingAfter

LEMMA CallsKeepUnderWay ==
    ASSUME Typed, NEW v, Exact(v), UnderWay(v), SignalsToCome, NEW p, CallEffect(v, p),
           SafeSubmit(v, NextCall(v, p))
    PROVE  UnderWay(ViewAfter(v, p))'
<1> DEFINE c == Current(p)
           new == Submits(v, c)
           sent == SentAfter(v, c)
<1>1. c = NextCall(v, p)
  BY CallsAreExpected
<1>2. ViewAfter(v, p).sent = sent
  BY <1>1 DEF ViewAfter
<1> SUFFICES /\ DOMAIN pending' = DOMAIN sent
             /\ \A q \in DOMAIN pending' : pending'[q] \in Seq(sent[q])
  BY <1>2 DEF UnderWay
<1>3. CASE c.op = "createQueue"
  <2>1. pending' = Put(pending, c.object, <<>>) /\ sent = Put(v.sent, c.object, {})
    BY <1>3 DEF CallEffect, PendingAfter, SentAfter
  <2>2. DOMAIN pending' = DOMAIN sent
    BY <2>1 DEF Put, UnderWay
  <2>3. ASSUME NEW q \in DOMAIN pending'
        PROVE  pending'[q] \in Seq(sent[q])
    <3>1. CASE q = c.object
      <4>1. pending'[q] = <<>> /\ <<>> \in Seq(sent[q])
        BY <2>1, <3>1 DEF Put
      <4> QED
        BY <4>1
    <3>2. CASE q # c.object
      BY <2>1, <3>2 DEF Put, UnderWay
    <3> QED
      BY <3>1, <3>2
  <2> QED
    BY <2>2, <2>3
<1>4. CASE c.op \in {"execute", "submit"}
  <2>1. /\ new \in Seq(ToSet(new)) /\ DOMAIN pending' = DOMAIN pending
        /\ \A q \in DOMAIN pending :
                pending'[q] = IF q = c.object THEN pending[q] \o new ELSE pending[q]
    BY <1>1, <1>4, SubmitsGoToTheEnd
  <2>2. /\ DOMAIN sent = DOMAIN v.sent
        /\ \A q \in DOMAIN v.sent :
                sent[q] = v.sent[q] \cup (IF q = c.object THEN ToSet(new) ELSE {})
    <3>1. ASSUME NEW q
          PROVE  KnownDone(v, c, q) = {}
      BY <1>4 DEF KnownDone
    <3>2. sent = [q \in DOMAIN v.sent |->
                    (v.sent[q] \ KnownDone(v, c, q))
                    \cup (IF c.object = q THEN ToSet(new) ELSE {})]
      BY <1>4 DEF SentAfter
    <3> HIDE DEF sent
    <3> QED
      BY <3>1, <3>2
  <2>3. ASSUME NEW q \in DOMAIN pending
        PROVE  pending'[q] \in Seq(sent[q])
    <3>1. CASE q = c.object
      <4>1. pending[q] \in Seq(v.sent[q]) /\ new \in Seq(ToSet(new))
        BY <2>1 DEF UnderWay
      <4>2. pending[q] \o new \in Seq(v.sent[q] \cup ToSet(new))
        BY <4>1, Concatenated
      <4> QED
        BY <2>1, <2>2, <3>1, <4>2 DEF UnderWay
    <3>2. CASE q # c.object
      BY <2>1, <2>2, <3>2 DEF UnderWay
    <3> QED
      BY <3>1, <3>2
  <2> QED
    BY <2>1, <2>2, <2>3 DEF UnderWay
<1>5. CASE c.op \notin {"execute", "submit", "createQueue"}
  <2>1. pending' = pending /\ DOMAIN sent = DOMAIN v.sent
    BY <1>5, OtherCallsSubmitNothing DEF SentAfter
  <2>2. ASSUME NEW q \in DOMAIN pending
        PROVE  pending[q] \in Seq(v.sent[q] \ KnownDone(v, c, q))
    <3>1. pending[q] \in Seq(v.sent[q])
      BY DEF UnderWay
    <3>2. ASSUME NEW i \in DOMAIN pending[q]
          PROVE  pending[q][i] \notin KnownDone(v, c, q)
      BY <3>2 DEF KnownDone, CallEffect, SignalsToCome
    <3> QED
      BY <3>1, <3>2, SeqOfFewer
  <2>3. \A q \in DOMAIN v.sent : sent[q] = v.sent[q] \ KnownDone(v, c, q)
    BY <1>5 DEF SentAfter
  <2> QED
    BY <2>1, <2>2, <2>3 DEF UnderWay
<1> QED
  BY <1>3, <1>4, <1>5

\* What may be under way after a call may have been before, or is submitted by it.
LEMMA SentBefore ==
    ASSUME NEW v, NEW c, NEW q \in DOMAIN SentAfter(v, c), NEW d \in SentAfter(v, c)[q]
    PROVE  \/ q \in DOMAIN v.sent /\ d \in v.sent[q]
           \/ /\ c.op \in {"execute", "submit"} /\ q = c.object
              /\ \E i \in DOMAIN Submits(v, c) : d = Submits(v, c)[i]
<1>1. CASE c.op = "createQueue"
  BY <1>1 DEF SentAfter, Put
<1>2. CASE c.op # "createQueue"
  BY <1>2 DEF SentAfter, ToSet
<1> QED
  BY <1>1, <1>2

LEMMA CallsKeepProvided ==
    ASSUME NEW v, Provided(v), NEW p,
           LET c == NextCall(v, p)
           IN  SafeSubmit(v, c) /\ SafeDestroy(v, c) /\ SafeEvent(v, c)
    PROVE  Provided(ViewAfter(v, p))
<1> DEFINE c == NextCall(v, p)
           new == Submits(v, c)
           w == ViewAfter(v, p)
<1> SUFFICES ASSUME NEW q \in DOMAIN SentAfter(v, c), NEW d \in SentAfter(v, c)[q]
             PROVE  /\ Needs(d, q) \subseteq w.alive
                    /\ d.signals \subseteq w.may
                    /\ d.resets \cap w.must = {}
                    /\ d.work \in Nat
  BY DEF Provided, ViewAfter
<1>1. CASE q \in DOMAIN v.sent /\ d \in v.sent[q]
  <2>1. /\ Needs(d, q) \subseteq v.alive /\ d.signals \subseteq v.may
        /\ d.resets \cap v.must = {} /\ d \in AllSent(v) /\ d.work \in Nat
    BY <1>1 DEF Provided, AllSent
  <2>2. c.op = "destroy" => c.object \notin Needs(d, q)
    BY <1>1 DEF SafeDestroy
  <2>3. c.op \in {"reset", "destroy"} => c.object \notin d.signals
    BY <2>1, <2>2 DEF SafeEvent, SignaledBy, Needs
  <2>4. Needs(d, q) \subseteq w.alive
    BY <2>1, <2>2 DEF ViewAfter, ObjectOf
  <2>5. d.signals \subseteq w.may
    BY <2>1, <2>3 DEF ViewAfter, ObjectOf
  <2>6. d.resets \subseteq ResetBy(AllSent(v))
    BY <2>1 DEF ResetBy
  <2>7. d.resets \cap w.must = {}
    BY <2>1, <2>6 DEF ViewAfter
  <2> QED
    BY <2>1, <2>4, <2>5, <2>7
<1>2. CASE /\ c.op \in {"execute", "submit"} /\ q = c.object
           /\ \E i \in DOMAIN new : d = new[i]
  <2>1. Needs(d, q) \subseteq v.alive /\ d \in ToSet(new) /\ d.work \in Nat
    BY <1>2 DEF SafeSubmit, MaySubmit, ToSet
  <2>2. /\ ObjectOf(c, {"destroy"}) = {} /\ ObjectOf(c, {"reset", "destroy"}) = {}
    BY <1>2 DEF ObjectOf
  <2>3. d.signals \subseteq SignaledBy(ToSet(new)) /\ d.resets \subseteq ResetBy(ToSet(new))
    BY <2>1 DEF SignaledBy, ResetBy
  <2>4. Needs(d, q) \subseteq w.alive
    BY <2>1, <2>2 DEF ViewAfter
  <2>5. d.signals \subseteq w.may /\ d.resets \cap w.must = {}
    BY <2>2, <2>3 DEF ViewAfter
  <2> QED
    BY <2>1, <2>4, <2>5
<1> QED
  BY <1>1, <1>2, SentBefore

LEMMA CallsKeepSignaledBetween ==
    ASSUME NEW v, Exact(v), UnderWay(v), SignaledBetween(v), SignalsToCome,
           SignaledInTheEnd(v), NEW p, CallEffect(v, p)
    PROVE  SignaledBetween(ViewAfter(v, p))'
<1> DEFINE c == NextCall(v, p)
           w == ViewAfter(v, p)
           ended == SignaledBy(UNION {KnownDone(v, c, q) : q \in DOMAIN v.sent})
<1>1. c = Current(p)
  BY CallsAreExpected
<1>2. /\ signaled' = (signaled \cup ObjectOf(c, {"signal"})) \ ObjectOf(c, {"reset", "destroy"})
      /\ c.op = "await" => c.object \in signaled
  BY <1>1 DEF CallEffect
<1>3. ObjectOf(c, {"signal", "await"}) \subseteq signaled \cup ObjectOf(c, {"signal"})
  BY <1>2 DEF ObjectOf
<1>4. w.must \subseteq (v.must \cup ObjectOf(c, {"signal", "await"}) \cup ended)
                        \ ObjectOf(c, {"reset", "destroy"})
  BY DEF ViewAfter
<1>5. w.may = (v.may \cup SignaledBy(ToSet(Submits(v, c))) \cup ObjectOf(c, {"signal"}))
                \ ObjectOf(c, {"reset", "destroy"})
  BY DEF ViewAfter
<1>6. ended \subseteq signaled
  <2> SUFFICES ASSUME NEW q \in DOMAIN v.sent, NEW d \in KnownDone(v, c, q)
               PROVE  d.signals \subseteq signaled
    BY DEF SignaledBy
  <2>1. d \in v.sent[q] /\ q \in DOMAIN pending
    BY DEF KnownDone, UnderWay
  <2>2. ASSUME NEW i \in DOMAIN pending[q], pending[q][i] = d
        PROVE  FALSE
    <3>1. pending[q] # <<>> /\ d.signals \cap signaled = {}
      BY <2>1, <2>2 DEF SignalsToCome
    <3> QED
      BY <1>1, <3>1 DEF KnownDone, CallEffect
  <2> QED
    BY <2>1, <2>2 DEF SignaledInTheEnd
<1> HIDE DEF w, c, ended
<1>7. w.must \subseteq signaled' /\ signaled' \subseteq w.may
  BY <1>2, <1>3, <1>4, <1>5, <1>6 DEF SignaledBetween
<1> QED
  BY <1>7 DEF SignaledBetween, w

\* What is under way after a call was before, at the same place, or is submitted by it.
LEMMA PendingBefore ==
    ASSUME Typed, NEW v, Exact(v), UnderWay(v), NEW p, CallEffect(v, p),
           SafeSubmit(v, NextCall(v, p)),
           NEW q \in DOMAIN pending', NEW i \in DOMAIN pending'[q]
    PROVE  LET c == NextCall(v, p)
               new == Submits(v, c)
           IN  \/ /\ q \in DOMAIN pending /\ i \in DOMAIN pending[q]
                  /\ pending'[q][i] = pending[q][i]
               \/ /\ c.op \in {"execute", "submit"}
                  /\ q \in DOMAIN pending /\ q = c.object
                  /\ i - Len(pending[q]) \in DOMAIN new
                  /\ i \in Nat /\ Len(pending[q]) \in Nat
                  /\ pending'[q][i] = new[i - Len(pending[q])]
<1> DEFINE c == Current(p)
           new == Submits(v, c)
<1>1. c = NextCall(v, p)
  BY CallsAreExpected
<1>2. CASE c.op = "createQueue"
  <2>1. pending' = Put(pending, c.object, <<>>)
    BY <1>2 DEF CallEffect, PendingAfter
  <2>2. q # c.object
    BY <2>1 DEF Put
  <2> QED
    BY <2>1, <2>2 DEF Put
<1>3. CASE c.op \in {"execute", "submit"}
  <2>1. /\ new \in Seq(ToSet(new)) /\ DOMAIN pending' = DOMAIN pending
        /\ \A r \in DOMAIN pending :
                pending'[r] = IF r = c.object THEN pending[r] \o new ELSE pending[r]
    BY <1>1, <1>3, SubmitsGoToTheEnd
  <2>2. pending[q] \in Seq(v.sent[q])
    BY <2>1 DEF UnderWay
  <2>3. CASE q = c.object /\ i \notin DOMAIN pending[q]
    <3>1. /\ i - Len(pending[q]) \in DOMAIN new
          /\ pending'[q][i] = new[i - Len(pending[q])]
      BY <2>1, <2>2, <2>3, Concatenated
    <3>2. i \in Nat /\ Len(pending[q]) \in Nat
      BY <2>1, <2>2, <2>3
    <3> QED
      BY <1>1, <1>3, <2>1, <2>3, <3>1, <3>2
  <2>4. CASE q = c.object /\ i \in DOMAIN pending[q]
    BY <2>1, <2>2, <2>4, Concatenated
  <2> QED
    BY <2>1, <2>3, <2>4
<1>4. CASE c.op \notin {"execute", "submit", "createQueue"}
  BY <1>4, OtherCallsSubmitNothing
<1> QED
  BY <1>2, <1>3, <1>4

\* What is under way may be.
LEMMA UnderWayIsSent ==
    ASSUME NEW v, UnderWay(v), NEW q \in DOMAIN pending, NEW i \in DOMAIN pending[q]
    PROVE  pending[q][i] \in v.sent[q] /\ pending[q][i] \in AllSent(v)
<1>1. pending[q] \in Seq(v.sent[q]) /\ q \in DOMAIN v.sent
  BY DEF UnderWay
<1>2. pending[q][i] \in v.sent[q]
  BY <1>1
<1> QED
  BY <1>1, <1>2 DEF AllSent

LEMMA CallsKeepSignals ==
    ASSUME Typed, NEW v, Exact(v), UnderWay(v), SignaledBetween(v),
           SignalsToCome, SignalsAreUnique, NEW p, CallEffect(v, p),
           SafeSubmit(v, NextCall(v, p)), SafeEvent(v, NextCall(v, p))
    PROVE  SignalsToCome' /\ SignalsAreUnique'
<1> DEFINE c == NextCall(v, p)
           new == Submits(v, c)
           Old(q, i) == q \in DOMAIN pending /\ i \in DOMAIN pending[q]
           New(q, i) == /\ c.op \in {"execute", "submit"} /\ q \in DOMAIN pending
                        /\ q = c.object /\ i - Len(pending[q]) \in DOMAIN new
                        /\ i \in Nat /\ Len(pending[q]) \in Nat
<1>1. c = Current(p)
  BY CallsAreExpected
<1>2. ASSUME NEW q \in DOMAIN pending', NEW i \in DOMAIN pending'[q]
      PROVE  \/ Old(q, i) /\ pending'[q][i] = pending[q][i]
             \/ New(q, i) /\ pending'[q][i] = new[i - Len(pending[q])]
  BY PendingBefore
<1>3. ASSUME NEW q, NEW i, Old(q, i)
      PROVE  /\ pending[q][i].signals \subseteq SignaledBy(AllSent(v))
             /\ pending[q][i].signals \cap signaled = {}
  BY <1>3, UnderWayIsSent DEF SignaledBy, SignalsToCome
<1>4. ASSUME NEW q, NEW i, New(q, i)
      PROVE  /\ new[i - Len(pending[q])].signals \cap v.may = {}
             /\ new[i - Len(pending[q])].signals \cap SignaledBy(AllSent(v)) = {}
  BY <1>4 DEF SafeSubmit, MaySubmit
<1>5. signaled' = (signaled \cup ObjectOf(c, {"signal"})) \ ObjectOf(c, {"reset", "destroy"})
  BY <1>1 DEF CallEffect
<1>6. SignalsToCome'
  <2> SUFFICES ASSUME NEW q \in DOMAIN pending', NEW i \in DOMAIN pending'[q]
               PROVE  pending'[q][i].signals \cap signaled' = {}
    BY DEF SignalsToCome
  <2>1. CASE Old(q, i) /\ pending'[q][i] = pending[q][i]
    <3>1. ObjectOf(c, {"signal"}) \cap SignaledBy(AllSent(v)) = {}
      BY DEF SafeEvent, ObjectOf
    <3>2. /\ pending[q][i].signals \subseteq SignaledBy(AllSent(v))
          /\ pending[q][i].signals \cap signaled = {}
      BY <1>3, <2>1
    <3> QED
      BY <1>5, <2>1, <3>1, <3>2
  <2>2. CASE New(q, i) /\ pending'[q][i] = new[i - Len(pending[q])]
    <3>1. ObjectOf(c, {"signal"}) = {}
      BY <2>2 DEF ObjectOf
    <3>2. new[i - Len(pending[q])].signals \cap v.may = {}
      BY <1>4, <2>2
    <3> QED
      BY <1>5, <2>2, <3>1, <3>2 DEF SignaledBetween
  <2> QED
    BY <1>2, <2>1, <2>2
<1>7. SignalsAreUnique'
  <2> SUFFICES ASSUME NEW q \in DOMAIN pending', NEW r \in DOMAIN pending',
                      NEW i \in DOMAIN pending'[q], NEW j \in DOMAIN pending'[r],
                      <<q, i>> # <<r, j>>
               PROVE  pending'[q][i].signals \cap pending'[r][j].signals = {}
    BY DEF SignalsAreUnique
  <2>1. CASE /\ Old(q, i) /\ pending'[q][i] = pending[q][i]
             /\ Old(r, j) /\ pending'[r][j] = pending[r][j]
    BY <2>1 DEF SignalsAreUnique
  <2>2. CASE /\ Old(q, i) /\ pending'[q][i] = pending[q][i]
             /\ New(r, j) /\ pending'[r][j] = new[j - Len(pending[r])]
    <3>1. pending[q][i].signals \subseteq SignaledBy(AllSent(v))
      BY <1>3, <2>2
    <3>2. new[j - Len(pending[r])].signals \cap SignaledBy(AllSent(v)) = {}
      BY <1>4, <2>2
    <3> QED
      BY <2>2, <3>1, <3>2
  <2>3. CASE /\ New(q, i) /\ pending'[q][i] = new[i - Len(pending[q])]
             /\ Old(r, j) /\ pending'[r][j] = pending[r][j]
    <3>1. pending[r][j].signals \subseteq SignaledBy(AllSent(v))
      BY <1>3, <2>3
    <3>2. new[i - Len(pending[q])].signals \cap SignaledBy(AllSent(v)) = {}
      BY <1>4, <2>3
    <3> QED
      BY <2>3, <3>1, <3>2
  <2>4. CASE /\ New(q, i) /\ pending'[q][i] = new[i - Len(pending[q])]
             /\ New(r, j) /\ pending'[r][j] = new[j - Len(pending[r])]
    <3>1. q = r /\ i # j
      BY <2>4
    <3>2. i - Len(pending[q]) # j - Len(pending[r])
      BY <2>4, <3>1
    <3> QED
      BY <2>4, <3>2 DEF SafeSubmit, MaySubmit
  <2> QED
    BY <1>2, <2>1, <2>2, <2>3, <2>4
<1> QED
  BY <1>6, <1>7

-----------------------------------------------------------------------------
(* What is left for the timer to count.                                    *)

\* Where the view knows what is left, that is what is left.
LEMMA WorkLeftIsLeft ==
    ASSUME NEW v, UnderWay(v), Still(v), WorkIsKnown(v)
    PROVE  Cardinality(UnitsIn(pending)) = WorkLeft(v)
<1>1. CASE v.still
  BY <1>1 DEF Still, WorkLeft
<1>2. CASE ~v.still
  <2>1. \A q \in DOMAIN pending : \A i \in DOMAIN pending[q] : pending[q][i].work = 0
    BY <1>2, UnderWayIsSent DEF WorkIsKnown
  <2> QED
    BY <1>2, <2>1, NoWorkIsLeft DEF WorkLeft
<1> QED
  BY <1>1, <1>2

\* What is left after a call is what was left and what it submits.
LEMMA CallsAddWork ==
    ASSUME Typed, NEW v, Exact(v), UnderWay(v), NEW p, CallEffect(v, p),
           SafeSubmit(v, NextCall(v, p)), SafeTimer(v, NextCall(v, p)),
           IsFiniteSet(UnitsIn(pending))
    PROVE  LET new == UnitsOf(Submits(v, NextCall(v, p)))
           IN  /\ IsFiniteSet(UnitsIn(pending'))
               /\ Cardinality(new) \in Nat
               /\ Cardinality(UnitsIn(pending')) = Cardinality(UnitsIn(pending)) + Cardinality(new)
<1> DEFINE c == NextCall(v, p)
           new == Submits(v, c)
           left == Cardinality(UnitsIn(pending))
<1>1. c = Current(p)
  BY CallsAreExpected
<1>2. left \in Nat
  BY FS_CardinalityType
<1>3. CASE c.op \in {"execute", "submit"}
  <2>1. /\ new \in Seq(ToSet(new)) /\ DOMAIN pending' = DOMAIN pending
        /\ \A r \in DOMAIN pending :
                pending'[r] = IF r = c.object THEN pending[r] \o new ELSE pending[r]
    BY <1>1, <1>3, SubmitsGoToTheEnd
  <2>2. \A d \in ToSet(new) : d.work \in Nat
    BY <1>3 DEF SafeSubmit, MaySubmit, ToSet
  <2>3. Cardinality(UnitsOf(new)) \in Nat
    BY <2>1, <2>2, UnitsAreFinite
  <2>4. c.object \in DOMAIN pending /\ pending[c.object] \in Seq(v.sent[c.object])
    BY <1>3 DEF SafeSubmit, UnderWay
  <2> DEFINE q == c.object
             after == pending'
  <2>5. /\ q \in DOMAIN pending /\ DOMAIN after = DOMAIN pending
        /\ after[q] = pending[q] \o new
        /\ \A r \in DOMAIN pending \ {q} : after[r] = pending[r]
    BY <2>1, <2>4
  <2> HIDE DEF new, q, after
  <2>6. /\ IsFiniteSet(UnitsIn(after))
        /\ Cardinality(UnitsIn(after)) = left + Cardinality(UnitsOf(new))
    <3> DEFINE S == v.sent[q]
               T == ToSet(new)
    <3>1. pending[q] \in Seq(S) /\ new \in Seq(T) /\ \A d \in T : d.work \in Nat
      BY <2>1, <2>2, <2>4 DEF q
    <3>2. IsFiniteSet(UnitsIn(pending))
      OBVIOUS
    <3> HIDE DEF c, S, T
    <3> QED
      BY ONLY <2>5, <3>1, <3>2, WorkIsAdded DEF left
  <2> QED
    BY <2>3, <2>6 DEF after, new
<1>4. CASE c.op \notin {"execute", "submit"}
  <2>1. UnitsOf(new) = {}
    BY <1>4 DEF Submits, UnitsOf
  <2>2. Cardinality(UnitsOf(new)) = 0
    BY <2>1, FS_EmptySet
  <2>3. UnitsIn(pending') = UnitsIn(pending)
    <3>1. CASE c.op = "createQueue"
      <4>1. pending' = Put(pending, c.object, <<>>)
        BY <1>1, <3>1 DEF CallEffect, PendingAfter
      <4>2. c.object \in DOMAIN pending => pending[c.object] = <<>>
        BY <3>1 DEF SafeTimer, UnderWay
      <4> QED
        BY <4>1, <4>2, NewQueueHasNoWork
    <3>2. CASE c.op # "createQueue"
      BY <1>1, <1>4, <3>2 DEF CallEffect, PendingAfter
    <3> QED
      BY <3>1, <3>2
  <2> QED
    BY <1>2, <2>2, <2>3
<1> QED
  BY <1>3, <1>4

\* The timer and what is left still add up.
LEMMA CallsKeepTimed ==
    ASSUME Typed, NEW v, Exact(v), UnderWay(v), Still(v), Timed(v), NEW p, CallEffect(v, p),
           SafeSubmit(v, NextCall(v, p)), SafeTimer(v, NextCall(v, p))
    PROVE  Timed(ViewAfter(v, p))'
<1> DEFINE c == NextCall(v, p)
           new == Cardinality(UnitsOf(Submits(v, c)))
           left == Cardinality(UnitsIn(pending))
           w == ViewAfter(v, p)
<1>1. c = Current(p) /\ timer' = TimerAfter(c)
  BY CallsAreExpected DEF CallEffect
<1>2. w.on = (c.op = "start" \/ (v.on /\ c.op # "stop")) /\ w.count = CountAfter(v, c)
  BY DEF ViewAfter
<1>3. IsFiniteSet(UnitsIn(pending')) /\ new \in Nat /\ Cardinality(UnitsIn(pending')) = left + new
  BY CallsAddWork DEF Timed
<1>4. left \in Nat
  BY FS_CardinalityType DEF Timed
<1>5. /\ timer \in [on : BOOLEAN, done : Nat] /\ timer.on = v.on /\ v.on \in BOOLEAN
      /\ v.count = timer.done + (IF v.on THEN left ELSE 0)
  BY DEF Timed
<1>6. WorkIsKnown(v) => WorkLeft(v) = left
  BY WorkLeftIsLeft
<1>7. c.op \in {"start", "stop", "touch"} => new = 0
  <2>1. c.op \in {"start", "stop", "touch"} => UnitsOf(Submits(v, c)) = {}
    BY DEF Submits, UnitsOf
  <2> QED
    BY <2>1, FS_EmptySet
<1>8. SafeTimer(v, c)
  OBVIOUS
<1> HIDE DEF c, new, left, w
<1>9. /\ timer' = [on |-> timer'.on, done |-> timer'.done] /\ timer'.done \in Nat
      /\ timer'.on = w.on /\ w.on \in BOOLEAN
      /\ w.count = timer'.done + (IF w.on THEN left + new ELSE 0)
  <2>1. CASE c.op = "start"
    <3>1. timer' = [on |-> TRUE, done |-> IF c.fresh THEN 0 ELSE timer.done]
      BY <1>1, <2>1 DEF TimerAfter
    <3>2. w.on = TRUE /\ ~v.on /\ w.count = (IF c.fresh THEN 0 ELSE v.count) + left /\ new = 0
      BY <1>2, <1>6, <1>7, <1>8, <2>1 DEF SafeTimer, CountAfter
    <3>3. v.count = timer.done /\ timer.done \in Nat
      BY <1>5, <3>2
    <3>4. timer'.on = TRUE /\ timer'.done = IF c.fresh THEN 0 ELSE timer.done
      BY <3>1
    <3>5. timer'.done \in Nat /\ w.count = timer'.done + left
      BY <1>4, <3>2, <3>3, <3>4
    <3>6. timer' = [on |-> timer'.on, done |-> timer'.done]
      BY <3>1, <3>4
    <3>7. w.on \in BOOLEAN /\ timer'.on = w.on
      BY <3>2, <3>4
    <3>8. w.count = timer'.done + (IF w.on THEN left + new ELSE 0)
      BY <1>4, <3>2, <3>5
    <3> QED
      BY <3>5, <3>6, <3>7, <3>8
  <2>2. CASE c.op = "stop"
    <3>1. timer' = [on |-> FALSE, done |-> timer.done]
      BY <1>1, <1>5, <2>2 DEF TimerAfter
    <3>2. w.on = FALSE /\ v.on /\ w.count = v.count - left
      BY <1>2, <1>6, <1>8, <2>2 DEF SafeTimer, CountAfter
    <3>3. v.count = timer.done + left /\ timer.done \in Nat
      BY <1>5, <3>2
    <3>4. timer'.on = FALSE /\ timer'.done = timer.done
      BY <3>1
    <3>5. w.count = timer'.done
      BY <1>4, <3>2, <3>3, <3>4
    <3>6. timer' = [on |-> timer'.on, done |-> timer'.done]
      BY <3>1, <3>4
    <3>7. w.on \in BOOLEAN /\ timer'.on = w.on
      BY <3>2, <3>4
    <3>8. timer'.done \in Nat /\ w.count = timer'.done + (IF w.on THEN left + new ELSE 0)
      BY <3>2, <3>3, <3>4, <3>5
    <3> QED
      BY <3>6, <3>7, <3>8
  <2>3. CASE c.op = "touch"
    <3>1. timer' = [on |-> timer.on,
                    done |-> IF timer.on THEN timer.done + c.command.work ELSE timer.done]
      BY <1>1, <1>5, <2>3 DEF TimerAfter, Counted
    <3>2. w.on = v.on /\ new = 0 /\ c.command.work \in Nat
      BY <1>2, <1>5, <1>7, <1>8, <2>3 DEF SafeTimer
    <3>3. w.count = IF v.on THEN v.count + c.command.work ELSE v.count
      BY <1>2, <2>3 DEF CountAfter
    <3>4. timer.done \in Nat /\ timer.on = v.on /\ v.on \in BOOLEAN
      BY <1>5
    <3>5. /\ timer'.on = v.on
          /\ timer'.done = IF v.on THEN timer.done + c.command.work ELSE timer.done
      BY <3>1, <3>4
    <3>6. timer'.done \in Nat /\ w.count = timer'.done + (IF v.on THEN left ELSE 0)
      BY <1>4, <1>5, <3>2, <3>3, <3>4, <3>5
    <3> QED
      BY <1>4, <3>1, <3>2, <3>4, <3>5, <3>6
  <2>4. CASE c.op \notin {"start", "stop", "touch"}
    <3>1. timer' = timer
      BY <1>1, <2>4 DEF TimerAfter
    <3>2. w.on = v.on /\ w.count = IF v.on THEN v.count + new ELSE v.count
      BY <1>2, <1>5, <2>4 DEF CountAfter, new
    <3>3. timer' = [on |-> timer'.on, done |-> timer'.done]
      BY <1>5, <3>1
    <3>4. timer'.done = timer.done /\ timer'.on = timer.on
      BY <3>1
    <3> QED
      BY <1>3, <1>4, <1>5, <3>2, <3>3, <3>4
  <2> QED
    BY <2>1, <2>2, <2>3, <2>4
<1> QED
  BY <1>3, <1>9 DEF Timed, w

\* While nothing can begin, the queues hold what calls have put there.
LEMMA CallsKeepStill ==
    ASSUME Typed, NEW v, Exact(v), UnderWay(v), Still(v), SignalsToCome, NEW p, CallEffect(v, p),
           SafeSubmit(v, NextCall(v, p))
    PROVE  Still(ViewAfter(v, p))'
<1> DEFINE c == NextCall(v, p)
           new == Submits(v, c)
           w == ViewAfter(v, p)
           sent == SentAfter(v, c)
           idle == \A q \in DOMAIN sent : sent[q] = {}
<1>1. c = Current(p)
  BY CallsAreExpected
<1>2. pending' = PendingAfter(c)
  BY <1>1 DEF CallEffect
<1>3. pending' = [q \in DOMAIN pending' |-> pending'[q]]
  BY <1>2 DEF PendingAfter, Put, Still
<1>4. /\ w.sent = sent
      /\ w.queued = IF idle THEN [q \in DOMAIN sent |-> <<>>] ELSE QueuedAfter(v, c)
      /\ w.still = (idle \/ (v.still /\ ~CanBegin(w.queued, w.may)))
  BY DEF ViewAfter
<1>5. DOMAIN pending' = DOMAIN sent /\ \A q \in DOMAIN pending' : pending'[q] \in Seq(sent[q])
  BY <1>4, CallsKeepUnderWay DEF UnderWay
<1>6. CASE idle
  <2>1. \A q \in DOMAIN pending' : pending'[q] = <<>>
    BY <1>5, <1>6
  <2>2. pending' = w.queued
    BY <1>3, <1>4, <1>5, <1>6, <2>1
  <2>3. ~CanBegin(w.queued, w.may)
    BY <1>4, <1>6 DEF CanBegin
  <2> HIDE DEF w
  <2> QED
    BY <1>3, <2>2, <2>3 DEF Still, w
<1>7. CASE ~idle /\ v.still
  <2>1. pending = v.queued /\ w.queued = QueuedAfter(v, c)
    BY <1>4, <1>7 DEF Still
  <2>2. pending' = QueuedAfter(v, c)
    <3>1. CASE c.op = "submit"
      <4>1. new = <<c.command>>
        BY <3>1 DEF Submits
      <4>2. \A q \in DOMAIN pending : Append(pending[q], c.command) = pending[q] \o new
        BY <4>1 DEF UnderWay
      <4> QED
        BY <1>2, <2>1, <3>1, <4>2 DEF PendingAfter, QueuedAfter
    <3>2. CASE c.op = "execute"
      BY <1>2, <2>1, <3>2 DEF PendingAfter, QueuedAfter, Submits, Exact
    <3>3. CASE c.op \notin {"execute", "submit"}
      BY <1>2, <2>1, <3>3 DEF PendingAfter, QueuedAfter
    <3> QED
      BY <3>1, <3>2, <3>3
  <2>3. w.still => ~CanBegin(w.queued, w.may)
    BY <1>4, <1>7
  <2> HIDE DEF w
  <2> QED
    BY <1>3, <2>1, <2>2, <2>3 DEF Still, w
<1>8. CASE ~idle /\ ~v.still
  <2>1. ~w.still
    BY <1>4, <1>8
  <2> HIDE DEF w
  <2> QED
    BY <1>3, <2>1 DEF Still, w
<1> QED
  BY <1>6, <1>7, <1>8

-----------------------------------------------------------------------------
(* What memory will hold, and what is read from it.                        *)

\* The effect of a command, part by part.
LEMMA EffectOnParts ==
    ASSUME NEW contents, NEW c
    PROVE  /\ DOMAIN Effect(contents, c) = DOMAIN contents
           /\ \A o \in DOMAIN contents :
                /\ DOMAIN Effect(contents, c)[o] = DOMAIN contents[o]
                /\ \A i \in DOMAIN contents[o] :
                    Effect(contents, c)[o][i] =
                        IF ~Writes(c, o, i) THEN contents[o][i]
                        ELSE IF c.do = "fill" THEN c.by
                        ELSE IF c.do = "add" THEN contents[o][i] + c.by
                        ELSE contents[c.src][i]
<1>1. CASE c.do = "copy"
  BY <1>1 DEF Effect, Writes
<1>2. CASE c.do = "add"
  BY <1>2 DEF Effect, Writes
<1>3. CASE c.do = "fill"
  BY <1>3 DEF Effect, Writes
<1>4. CASE c.do \notin {"copy", "add", "fill"}
  BY <1>4 DEF Effect, Writes
<1> QED
  BY <1>1, <1>2, <1>3, <1>4

\* A place is a queue and a position in it.
PlacesHavePairs ==
    /\ \A x \in Places : /\ x = <<x[1], x[2]>> /\ x[1] \in DOMAIN pending
                         /\ x[2] \in DOMAIN pending[x[1]]
    /\ \A q \in DOMAIN pending : \A i \in DOMAIN pending[q] : <<q, i>> \in Places
LEMMA PlacesArePairs == PlacesHavePairs /\ PlacesHavePairs'
  BY DEF PlacesHavePairs, Places


\* Where the commands are that are submitted to the end of a queue, and what they
\* are behind.
LEMMA SubmittedPlaces ==
    ASSUME NEW v, UnderWay(v), NEW q \in DOMAIN pending, NEW n, n = Len(pending[q]),
           NEW T, NEW new \in Seq(T),
           DOMAIN pending' = DOMAIN pending, pending'[q] = pending[q] \o new,
           \A r \in DOMAIN pending \ {q} : pending'[r] = pending[r]
    PROVE  /\ \A x \in Places : x \in Places' /\ At(x)' = At(x)
           /\ \A k \in DOMAIN new : /\ <<q, n + k>> \in Places' \ Places
                                    /\ At(<<q, n + k>>)' = new[k]
           /\ \A x \in Places' \ Places : \E k \in DOMAIN new : x = <<q, n + k>>
           /\ \A x, y \in Places : Behind(x, y)' <=> Behind(x, y)
           /\ \A x \in Places : \A k \in DOMAIN new :
                /\ FollowsSent(x[1], At(x), q, new, k) => Behind(x, <<q, n + k>>)'
                /\ ~WaitsOn(At(x), new[k]) => ~Behind(<<q, n + k>>, x)'
           /\ \A j, k \in DOMAIN new :
                Behind(<<q, n + j>>, <<q, n + k>>)' <=> Follows(new, j, k)
<1>1. /\ n \in Nat /\ DOMAIN pending[q] = 1..n /\ DOMAIN new = 1..Len(new) /\ Len(new) \in Nat
      /\ DOMAIN pending'[q] = 1..(n + Len(new))
      /\ \A i \in 1..n : pending'[q][i] = pending[q][i]
      /\ \A i \in 1..Len(new) : pending'[q][n + i] = new[i]
  <2>1. pending[q] \in Seq(v.sent[q])
    BY DEF UnderWay
  <2> QED
    BY <2>1
<1>2. PlacesHavePairs /\ PlacesHavePairs'
  BY PlacesArePairs
<1>3. ASSUME NEW x \in Places
      PROVE  x \in Places' /\ At(x)' = At(x) /\ x[2] \in Nat /\ (x[1] = q => x[2] \in 1..n)
  <2>1. x = <<x[1], x[2]>> /\ x[1] \in DOMAIN pending /\ x[2] \in DOMAIN pending[x[1]]
    BY <1>2 DEF PlacesHavePairs
  <2>2. CASE x[1] = q
    <3>1. x[2] \in 1..n
      BY <1>1, <2>1, <2>2
    <3>2. x[2] \in DOMAIN pending'[q]
      BY <1>1, <3>1
    <3>3. x \in Places'
      BY <1>2, <2>1, <2>2, <3>2 DEF PlacesHavePairs
    <3> QED
      BY <1>1, <2>2, <3>1, <3>3 DEF At
  <2>3. CASE x[1] # q
    <3>1. pending'[x[1]] = pending[x[1]] /\ x[2] \in Nat
      BY <2>1, <2>3 DEF UnderWay
    <3>2. x \in Places'
      BY <1>2, <2>1, <3>1 DEF PlacesHavePairs
    <3> QED
      BY <2>3, <3>1, <3>2 DEF At
  <2> QED
    BY <2>2, <2>3
<1>4. ASSUME NEW k \in DOMAIN new
      PROVE  /\ <<q, n + k>> \in Places' \ Places
             /\ At(<<q, n + k>>)' = new[k] /\ k \in Nat \ {0}
  <2>1. n + k \in DOMAIN pending'[q] /\ n + k \notin 1..n /\ k \in Nat \ {0}
    BY <1>1
  <2>2. <<q, n + k>> \in Places'
    BY <1>2, <2>1 DEF PlacesHavePairs
  <2>3. <<q, n + k>> \notin Places
    BY <1>3, <2>1
  <2> QED
    BY <1>1, <2>1, <2>2, <2>3 DEF At
<1>5. ASSUME NEW x \in Places' \ Places
      PROVE  \E k \in DOMAIN new : x = <<q, n + k>>
  <2>1. x = <<x[1], x[2]>> /\ x[1] \in DOMAIN pending /\ x[2] \in DOMAIN pending'[x[1]]
    BY <1>2 DEF PlacesHavePairs
  <2>2. x[2] \notin DOMAIN pending[x[1]]
    BY <1>2, <2>1 DEF PlacesHavePairs
  <2>3. x[1] = q
    BY <2>1, <2>2
  <2>4. x[2] \in 1..(n + Len(new)) \ 1..n
    BY <1>1, <2>1, <2>2, <2>3
  <2>5. x[2] - n \in DOMAIN new /\ n + (x[2] - n) = x[2]
    BY <1>1, <2>4
  <2> QED
    BY <2>1, <2>3, <2>5
<1>6. ASSUME NEW x \in Places, NEW y \in Places
      PROVE  Behind(x, y)' <=> Behind(x, y)
  <2>1. \A m \in (x[2] + 1)..y[2] :
            x[1] = y[1] => pending'[x[1]][m] = pending[x[1]][m]
    <3>1. CASE x[1] = q /\ y[1] = q
      BY <1>1, <1>3, <3>1
    <3>2. CASE x[1] # q
      BY <1>2, <3>2 DEF PlacesHavePairs
    <3> QED
      BY <3>1, <3>2
  <2> QED
    BY <1>3, <2>1 DEF Behind
<1>7. ASSUME NEW x \in Places, NEW k \in DOMAIN new
      PROVE  /\ FollowsSent(x[1], At(x), q, new, k) => Behind(x, <<q, n + k>>)'
             /\ ~WaitsOn(At(x), new[k]) => ~Behind(<<q, n + k>>, x)'
  <2>1. /\ x[2] \in Nat /\ (x[1] = q => x[2] \in 1..n) /\ k \in Nat \ {0}
        /\ At(x)' = At(x) /\ At(<<q, n + k>>)' = new[k]
    BY <1>3, <1>4
  <2>2. ASSUME x[1] = q, NEW m \in 1..k, new[m].ordered
        PROVE  /\ x[2] < n + k /\ n + m \in (x[2] + 1)..(n + k)
               /\ pending'[q][n + m].ordered
    BY <1>1, <2>1, <2>2
  <2>3. x[1] = q => ~(n + k < x[2])
    BY <1>1, <2>1
  <2> QED
    BY <2>1, <2>2, <2>3 DEF Behind, FollowsSent
<1>8. ASSUME NEW j \in DOMAIN new, NEW k \in DOMAIN new
      PROVE  Behind(<<q, n + j>>, <<q, n + k>>)' <=> Follows(new, j, k)
  <2>1. /\ At(<<q, n + j>>)' = new[j] /\ At(<<q, n + k>>)' = new[k]
        /\ j \in Nat \ {0} /\ k \in Nat \ {0}
    BY <1>4
  <2>2. ASSUME NEW m \in (j + 1)..k, new[m].ordered
        PROVE  n + m \in (n + j + 1)..(n + k) /\ pending'[q][n + m].ordered
    BY <1>1, <2>1, <2>2
  <2>3. ASSUME NEW m \in (n + j + 1)..(n + k), pending'[q][m].ordered
        PROVE  m - n \in (j + 1)..k /\ new[m - n].ordered
    <3>1. m - n \in (j + 1)..k /\ m - n \in 1..Len(new) /\ n + (m - n) = m
      BY <1>1, <2>1
    <3> QED
      BY <1>1, <2>3, <3>1
  <2>4. n + j < n + k <=> j < k
    BY <1>1, <2>1
  <2> QED
    BY <2>1, <2>2, <2>3, <2>4 DEF Behind, Follows
<1> QED
  BY <1>3, <1>4, <1>5, <1>6, <1>7, <1>8

\* Commands that are submitted leave and find what the next view says.
LEMMA SubmitsKeepForeseen ==
    ASSUME NEW v, UnderWay(v), Foreseen(v), NEW q \in DOMAIN pending,
           NEW T, NEW new \in Seq(T),
           DOMAIN pending' = DOMAIN pending, pending'[q] = pending[q] \o new,
           \A r \in DOMAIN pending \ {q} : pending'[r] = pending[r],
           mem' = mem,
           NEW w, SafeEffects(v, q, new, w.holds, w.finds)
    PROVE  Foreseen(w)'
<1> PICK n : n = Len(pending[q])
  OBVIOUS
<1> DEFINE N(k) == <<q, n + k>>
<1>1. /\ \A x \in Places : x \in Places' /\ At(x)' = At(x)
      /\ \A k \in DOMAIN new : N(k) \in Places' \ Places /\ At(N(k))' = new[k]
      /\ \A x \in Places' \ Places : \E k \in DOMAIN new : x = N(k)
      /\ \A x, y \in Places : Behind(x, y)' <=> Behind(x, y)
  BY SubmittedPlaces
<1>2. /\ \A x \in Places : \A k \in DOMAIN new :
            /\ FollowsSent(x[1], At(x), q, new, k) => Behind(x, N(k))'
            /\ ~WaitsOn(At(x), new[k]) => ~Behind(N(k), x)'
      /\ \A j, k \in DOMAIN new : Behind(N(j), N(k))' <=> Follows(new, j, k)
  BY SubmittedPlaces
<1> HIDE DEF N
<1>3. ASSUME NEW x \in Places
      PROVE  /\ x[1] \in DOMAIN v.sent /\ At(x) \in v.sent[x[1]] /\ w.finds[At(x)] = v.finds[At(x)]
             /\ \A i : Result(w.finds, At(x), i) = Result(v.finds, At(x), i)
  <2>1. /\ x[1] \in DOMAIN v.sent /\ At(x) \in v.sent[x[1]] /\ At(x) \in AllSent(v)
    BY PlacesArePairs, UnderWayIsSent DEF PlacesHavePairs, At, UnderWay
  <2>2. w.finds[At(x)] = v.finds[At(x)]
    BY <2>1 DEF SafeEffects
  <2> QED
    BY <2>1, <2>2 DEF Result
<1>4. ASSUME NEW x \in Places'
      PROVE  x \in Places \/ \E k \in DOMAIN new : x = N(k)
  BY <1>1
<1>5. /\ DOMAIN w.holds = DOMAIN v.holds /\ DOMAIN mem' = DOMAIN w.holds
      /\ \A o \in DOMAIN mem : DOMAIN w.holds[o] = DOMAIN v.holds[o] /\ DOMAIN mem[o] = DOMAIN w.holds[o]
  BY DEF SafeEffects, Foreseen
<1>6. ASSUME NEW x \in Places' PROVE Fits(At(x)', w.holds)
  <2>1. Fits(At(x)', v.holds)
    BY <1>1, <1>4 DEF Foreseen, SafeEffects
  <2> QED
    BY <2>1 DEF Fits, SafeEffects
\* The writers of a part are those of before and some of the new ones.
<1>7. ASSUME NEW o, NEW i
      PROVE  WritersOf(o, i)' = WritersOf(o, i) \cup {N(k) : k \in Writers(new, o, i)}
  BY <1>1, <1>4 DEF WritersOf, Writers
\* What they end with.
<1>8. ASSUME NEW o \in DOMAIN mem, NEW i \in DOMAIN mem[o], NEW h,
             NEW W, W = WritersOf(o, i),
             NEW K \in SUBSET DOMAIN new, EndsAs(v, q, new, w.finds, K, o, i, h),
             NEW U, U = W \cup {N(k) : k \in K}
      PROVE  EndsIn(w.finds, U, o, i, h)'
  <2>1. CASE K = {}
    <3>1. U = W /\ h = v.holds[o][i]
      BY <1>8, <2>1 DEF EndsAs
    <3>2. EndsIn(v.finds, W, o, i, h)
      BY <1>8, <3>1 DEF Foreseen
    <3>3. CASE W = {}
      BY <3>1, <3>2, <3>3 DEF EndsIn
    <3>4. CASE W # {}
      <4>1. ASSUME NEW x \in W
            PROVE  \/ Result(w.finds, At(x)', i) = h
                   \/ \E y \in W : Behind(x, y)'
        <5>1. W \subseteq Places
          BY <1>8 DEF WritersOf
        <5>2. Result(v.finds, At(x), i) = h \/ \E y \in W : Behind(x, y)
          BY <3>2, <3>4 DEF EndsIn
        <5> QED
          BY <1>1, <1>3, <5>1, <5>2
      <4> QED
        BY <3>1, <3>4, <4>1 DEF EndsIn
    <3> QED
      BY <3>3, <3>4
  <2>2. CASE K # {}
    <3>1. ASSUME NEW x \in U
          PROVE  \/ Result(w.finds, At(x)', i) = h
                 \/ \E y \in U : Behind(x, y)'
      <4>1. CASE x \in W
        <5>1. x \in Places /\ Writes(At(x), o, i) /\ At(x)' = At(x)
          BY <1>1, <1>8, <4>1 DEF WritersOf
        <5>2. \/ Result(w.finds, At(x), i) = h
              \/ \E k \in K : FollowsSent(x[1], At(x), q, new, k)
          BY <1>3, <1>8, <2>2, <5>1 DEF EndsAs
        <5> QED
          BY <1>2, <1>8, <5>1, <5>2
      <4>2. CASE x \notin W
        <5>1. PICK j \in K : x = N(j)
          BY <1>8, <4>2
        <5>2. Result(w.finds, new[j], i) = h \/ \E k \in K : Follows(new, j, k)
          BY <1>8, <2>2 DEF EndsAs
        <5> QED
          BY <1>1, <1>2, <1>8, <5>1, <5>2
      <4> QED
        BY <4>1, <4>2
    <3>2. U # {}
      BY <1>8, <2>2
    <3> QED
      BY <3>1, <3>2 DEF EndsIn
  <2> QED
    BY <2>1, <2>2
<1>9. ASSUME NEW o \in DOMAIN mem', NEW i \in DOMAIN mem'[o]
      PROVE  EndsIn(w.finds, WritersOf(o, i), o, i, w.holds[o][i])'
  <2> PICK W : W = WritersOf(o, i)
    OBVIOUS
  <2> PICK U : U = WritersOf(o, i)'
    OBVIOUS
  <2> PICK K : K = Writers(new, o, i)
    OBVIOUS
  <2>1. EndsAs(v, q, new, w.finds, K, o, i, w.holds[o][i])
    BY <1>5 DEF SafeEffects
  <2>2. U = W \cup {N(k) : k \in K} /\ K \in SUBSET DOMAIN new
    BY <1>7 DEF Writers
  <2>3. EndsIn(w.finds, U, o, i, w.holds[o][i])'
    BY <1>8, <2>1, <2>2
  <2> QED
    BY <2>3
\* What is read.
<1>10. ASSUME NEW o \in DOMAIN mem', NEW i \in DOMAIN mem'[o], NEW y \in Places,
              Reads(At(y), o, i)
       PROVE  ReadIsForeseen(w, y, o, i)'
  <2>1. ReadIsForeseen(v, y, o, i)
    BY <1>10 DEF Foreseen
  <2>2. \A k \in Writers(new, o, i) : Behind(y, N(k))' /\ ~Behind(N(k), y)'
    <3>1. SparesReader(y[1], At(y), q, new, o, i)
      BY <1>3, <1>5, <1>10 DEF SafeEffects
    <3> QED
      BY <1>2, <3>1 DEF SparesReader, Writers
  <2> PICK W : W = {x \in WritersOf(o, i) : Behind(x, y)}
    OBVIOUS
  <2> PICK h : h = v.finds[At(y)][i]
    OBVIOUS
  <2>3. W = {x \in WritersOf(o, i) : Behind(x, y)}' /\ h = w.finds[At(y)'][i]
    BY <1>1, <1>3, <1>7, <2>2 DEF WritersOf
  <2>4. ASSUME NEW x \in WritersOf(o, i)' \ {y}
        PROVE  Behind(x, y)' \/ Behind(y, x)'
    <3>1. CASE x \in WritersOf(o, i)
      BY <1>1, <2>1, <3>1 DEF ReadIsForeseen, WritersOf
    <3>2. CASE x \notin WritersOf(o, i)
      BY <1>7, <2>2, <3>2
    <3> QED
      BY <3>1, <3>2
  <2>5. EndsIn(w.finds, W, o, i, h)'
    <3>1. EndsIn(v.finds, W, o, i, h) /\ W \subseteq Places
      BY <2>1 DEF ReadIsForeseen, WritersOf
    <3>2. CASE W = {}
      BY <3>1, <3>2 DEF EndsIn
    <3>3. CASE W # {}
      <4>1. ASSUME NEW x \in W
            PROVE  \/ Result(w.finds, At(x)', i) = h
                   \/ \E z \in W : Behind(x, z)'
        <5>1. Result(v.finds, At(x), i) = h \/ \E z \in W : Behind(x, z)
          BY <3>1, <3>3 DEF EndsIn
        <5> QED
          BY <1>1, <1>3, <3>1, <5>1
      <4> QED
        BY <3>3, <4>1 DEF EndsIn
    <3> QED
      BY <3>2, <3>3
  <2> QED
    BY <2>3, <2>4, <2>5 DEF ReadIsForeseen
<1>11. ASSUME NEW o \in DOMAIN mem', NEW i \in DOMAIN mem'[o], NEW l \in DOMAIN new,
              Reads(new[l], o, i)
       PROVE  ReadIsForeseen(w, N(l), o, i)'
  <2>1. FindsIt(v, q, new, w.finds, l, o, i)
    BY <1>5, <1>11 DEF SafeEffects
  <2> PICK W : W = WritersOf(o, i)
    OBVIOUS
  <2> PICK K : K = {k \in Writers(new, o, i) : Follows(new, k, l)}
    OBVIOUS
  <2> PICK U : U = W \cup {N(k) : k \in K}
    OBVIOUS
  <2>2. ASSUME NEW x \in W
        PROVE  Behind(x, N(l))'
    <3>1. x \in Places /\ Writes(At(x), o, i)
      BY DEF WritersOf
    <3> QED
      BY <1>2, <1>3, <2>1, <3>1 DEF FindsIt
  <2>3. U = {x \in WritersOf(o, i) : Behind(x, N(l))}'
    BY <1>2, <1>7, <2>2 DEF Writers
  <2>4. EndsIn(w.finds, U, o, i, w.finds[new[l]][i])'
    <3>1. EndsAs(v, q, new, w.finds, K, o, i, w.finds[new[l]][i]) /\ K \in SUBSET DOMAIN new
      BY <2>1 DEF FindsIt, Writers
    <3> QED
      BY <1>8, <3>1
  <2>5. ASSUME NEW x \in WritersOf(o, i)' \ {N(l)}
        PROVE  Behind(x, N(l))' \/ Behind(N(l), x)'
    <3>1. CASE x \in W
      BY <2>2, <3>1
    <3>2. CASE x \notin W
      <4>1. PICK k \in Writers(new, o, i) : x = N(k)
        BY <1>7, <3>2
      <4>2. Follows(new, k, l) \/ Follows(new, l, k)
        BY <2>1, <4>1 DEF FindsIt
      <4> QED
        BY <1>2, <4>1, <4>2 DEF Writers
    <3> QED
      BY <3>1, <3>2
  <2>6. At(N(l))' = new[l]
    BY <1>1
  <2> QED
    BY <2>3, <2>4, <2>5, <2>6 DEF ReadIsForeseen
<1>12. ASSUME NEW o \in DOMAIN mem', NEW i \in DOMAIN mem'[o], NEW y \in Places',
              Reads(At(y)', o, i)
       PROVE  ReadIsForeseen(w, y, o, i)'
  BY <1>1, <1>4, <1>10, <1>11, <1>12
<1> QED
  BY <1>5, <1>6, <1>9, <1>12 DEF Foreseen

\* Part i of object o is written or read by a command that is under way.
InUse(o, i) == \E x \in Places : Writes(At(x), o, i) \/ Reads(At(x), o, i)

\* What the queues hold and what it is behind are as before.
PlacesStay ==
    /\ Places' = Places
    /\ \A x \in Places : At(x)' = At(x)
    /\ \A x, y \in Places : Behind(x, y)' <=> Behind(x, y)

\* Memory that commands under way use is not changed by a call that submits nothing.
LEMMA HostKeepsForeseen ==
    ASSUME NEW v, Foreseen(v), PlacesStay, NEW w, w.finds = v.finds,
           DOMAIN mem' = DOMAIN w.holds,
           \A x \in Places : Fits(At(x), w.holds),
           \A o \in DOMAIN mem' :
                /\ DOMAIN mem'[o] = DOMAIN w.holds[o]
                /\ \A i \in DOMAIN mem'[o] :
                    \/ /\ o \in DOMAIN mem /\ i \in DOMAIN mem[o]
                       /\ mem'[o][i] = mem[o][i] /\ w.holds[o][i] = v.holds[o][i]
                    \/ ~InUse(o, i) /\ mem'[o][i] = w.holds[o][i]
    PROVE  Foreseen(w)'
<1>1. ASSUME NEW o, NEW i, NEW h, o \in DOMAIN mem, i \in DOMAIN mem[o], mem'[o][i] = mem[o][i],
             NEW W, W \subseteq Places, EndsIn(v.finds, W, o, i, h)
      PROVE  EndsIn(w.finds, W, o, i, h)'
  <2>1. CASE W = {}
    BY <1>1, <2>1 DEF EndsIn
  <2>2. CASE W # {}
    <3>1. ASSUME NEW x \in W
          PROVE  \/ Result(w.finds, At(x)', i) = h
                 \/ \E z \in W : Behind(x, z)'
      <4>1. Result(v.finds, At(x), i) = h \/ \E z \in W : Behind(x, z)
        BY <1>1, <2>2 DEF EndsIn
      <4> QED
        BY <1>1, <4>1 DEF PlacesStay
    <3> QED
      BY <2>2, <3>1 DEF EndsIn
  <2> QED
    BY <2>1, <2>2
<1>2. ASSUME NEW o, NEW i
      PROVE  WritersOf(o, i)' = WritersOf(o, i)
  BY DEF PlacesStay, WritersOf
<1>3. ASSUME NEW x \in Places' PROVE x \in Places /\ At(x)' = At(x) /\ Fits(At(x)', w.holds)
  BY DEF PlacesStay
<1>4. ASSUME NEW o \in DOMAIN mem', NEW i \in DOMAIN mem'[o],
             o \in DOMAIN mem, i \in DOMAIN mem[o], mem'[o][i] = mem[o][i],
             w.holds[o][i] = v.holds[o][i]
      PROVE  /\ EndsIn(w.finds, WritersOf(o, i), o, i, w.holds[o][i])'
             /\ \A y \in Places' : Reads(At(y)', o, i) => ReadIsForeseen(w, y, o, i)'
  <2>1. EndsIn(w.finds, WritersOf(o, i), o, i, w.holds[o][i])'
    <3> PICK W : W = WritersOf(o, i)
      OBVIOUS
    <3>1. W = WritersOf(o, i)' /\ W \subseteq Places
      BY <1>2 DEF WritersOf
    <3>2. EndsIn(v.finds, W, o, i, w.holds[o][i])
      BY <1>4 DEF Foreseen
    <3>3. EndsIn(w.finds, W, o, i, w.holds[o][i])'
      BY <1>1, <1>4, <3>1, <3>2
    <3> QED
      BY <3>1, <3>3
  <2>2. ASSUME NEW y \in Places', Reads(At(y)', o, i)
        PROVE  ReadIsForeseen(w, y, o, i)'
    <3>1. y \in Places /\ At(y)' = At(y) /\ ReadIsForeseen(v, y, o, i)
      BY <1>3, <1>4, <2>2 DEF Foreseen
    <3> PICK W : W = {x \in WritersOf(o, i) : Behind(x, y)}
      OBVIOUS
    <3> PICK h : h = v.finds[At(y)][i]
      OBVIOUS
    <3>2. /\ W = {x \in WritersOf(o, i) : Behind(x, y)}' /\ W \subseteq Places
          /\ h = w.finds[At(y)'][i]
      BY <1>2, <3>1 DEF PlacesStay, WritersOf
    <3>3. EndsIn(w.finds, W, o, i, h)'
      BY <1>1, <1>4, <3>1, <3>2 DEF ReadIsForeseen
    <3>4. \A x \in WritersOf(o, i)' \ {y} : Behind(x, y)' \/ Behind(y, x)'
      BY <1>2, <3>1 DEF ReadIsForeseen, PlacesStay, WritersOf
    <3> QED
      BY <3>2, <3>3, <3>4 DEF ReadIsForeseen
  <2> QED
    BY <2>1, <2>2
<1>5. ASSUME NEW o \in DOMAIN mem', NEW i \in DOMAIN mem'[o],
             ~InUse(o, i), mem'[o][i] = w.holds[o][i]
      PROVE  /\ EndsIn(w.finds, WritersOf(o, i), o, i, w.holds[o][i])'
             /\ \A y \in Places' : Reads(At(y)', o, i) => ReadIsForeseen(w, y, o, i)'
  <2>1. WritersOf(o, i)' = {}
    BY <1>2, <1>5 DEF InUse, WritersOf
  <2> QED
    BY <1>3, <1>5, <2>1 DEF InUse, EndsIn
<1>6. ASSUME NEW o \in DOMAIN mem', NEW i \in DOMAIN mem'[o]
      PROVE  /\ EndsIn(w.finds, WritersOf(o, i), o, i, w.holds[o][i])'
             /\ \A y \in Places' : Reads(At(y)', o, i) => ReadIsForeseen(w, y, o, i)'
  BY <1>4, <1>5
<1>7. DOMAIN mem' = DOMAIN w.holds /\ \A o \in DOMAIN mem' : DOMAIN mem'[o] = DOMAIN w.holds[o]
  OBVIOUS
<1> QED
  BY <1>3, <1>6, <1>7 DEF Foreseen

\* A call that submits nothing leaves the places as they are; a queue that is created
\* under the name of another finds that empty.
LEMMA PlacesStayElsewhere ==
    ASSUME NEW v, Exact(v), UnderWay(v), NEW p, CallEffect(v, p),
           SafeTimer(v, NextCall(v, p)), NextCall(v, p).op \notin {"execute", "submit"}
    PROVE  PlacesStay
<1> DEFINE c == NextCall(v, p)
<1>1. c = Current(p)
  BY CallsAreExpected
<1>2. CASE c.op # "createQueue"
  <2>1. pending' = pending
    BY <1>1, <1>2, OtherCallsSubmitNothing
  <2> QED
    BY <2>1 DEF PlacesStay, Places, At, Behind
<1>3. CASE c.op = "createQueue"
  <2>1. pending' = Put(pending, c.object, <<>>)
    BY <1>1, <1>3 DEF CallEffect, PendingAfter
  <2>2. c.object \in DOMAIN pending => pending[c.object] = <<>>
    BY <1>3 DEF SafeTimer, UnderWay
  <2>3. /\ DOMAIN pending' = DOMAIN pending \cup {c.object} /\ pending'[c.object] = <<>>
        /\ \A q \in DOMAIN pending : pending'[q] = pending[q]
    BY <2>1, <2>2 DEF Put
  <2>4. Places' = Places
    BY <2>3 DEF Places
  <2>5. \A x \in Places : x[1] \in DOMAIN pending
    BY PlacesArePairs DEF PlacesHavePairs
  <2>6. \A x \in Places : pending'[x[1]] = pending[x[1]]
    BY <2>3, <2>5
  <2>7. \A x \in Places : At(x)' = At(x)
    BY <2>6 DEF At
  <2> QED
    BY <2>4, <2>6, <2>7 DEF PlacesStay, Behind
<1> QED
  BY <1>2, <1>3

\* What no command touches is not in use.
LEMMA UntouchedIsUnused ==
    ASSUME NEW v, UnderWay(v), Foreseen(v), NEW o, \A d \in AllSent(v) : o \notin d.touches
    PROVE  /\ \A i : ~InUse(o, i)
           /\ \A x \in Places : o \notin At(x).touches
<1>1. ASSUME NEW x \in Places PROVE o \notin At(x).touches /\ Fits(At(x), v.holds)
  BY PlacesArePairs, UnderWayIsSent DEF PlacesHavePairs, At, Foreseen
<1> QED
  BY <1>1 DEF InUse, Fits, Writes, Reads

\* What is not in use holds what it will hold in the end.
LEMMA UnusedIsSettled ==
    ASSUME NEW v, Foreseen(v), NEW o \in DOMAIN mem, NEW i \in DOMAIN mem[o], ~InUse(o, i)
    PROVE  mem[o][i] = v.holds[o][i]
<1>1. WritersOf(o, i) = {}
  BY DEF InUse, WritersOf
<1>2. EndsIn(v.finds, WritersOf(o, i), o, i, v.holds[o][i])
  BY DEF Foreseen
<1> QED
  BY <1>1, <1>2 DEF EndsIn

\* What fits memory does so when there is other memory elsewhere.
LEMMA StillFits ==
    ASSUME NEW d, NEW holds, Fits(d, holds), NEW after, NEW o, o \notin d.touches,
           DOMAIN holds \subseteq DOMAIN after \cup {o},
           \A x \in DOMAIN holds \ {o} : DOMAIN after[x] = DOMAIN holds[x]
    PROVE  Fits(d, after)
  BY DEF Fits

\* A command of the host does to memory what it does to what memory will hold.
LEMMA HostCommandKeepsForeseen ==
    ASSUME NEW v, UnderWay(v), Foreseen(v), PlacesStay, NEW c, Fits(c, v.holds),
           \A d \in AllSent(v) : c.touches \cap d.touches = {},
           mem' = Effect(mem, c),
           NEW w, w.holds = Effect(v.holds, c), w.finds = v.finds
    PROVE  Foreseen(w)'
<1>1. /\ DOMAIN mem = DOMAIN v.holds
      /\ \A o \in DOMAIN mem : DOMAIN mem[o] = DOMAIN v.holds[o]
  BY DEF Foreseen
<1>2. ASSUME NEW o \in c.touches
      PROVE  \A i : ~InUse(o, i)
  BY UntouchedIsUnused
<1>3. ASSUME NEW o \in DOMAIN mem, NEW i \in DOMAIN mem[o], ~InUse(o, i)
      PROVE  mem[o][i] = v.holds[o][i]
  BY <1>3, UnusedIsSettled
<1>4. /\ DOMAIN mem' = DOMAIN mem /\ DOMAIN w.holds = DOMAIN v.holds
      /\ \A o \in DOMAIN mem : /\ DOMAIN mem'[o] = DOMAIN mem[o]
                               /\ DOMAIN w.holds[o] = DOMAIN v.holds[o]
  BY <1>1, EffectOnParts
<1>5. ASSUME NEW o \in DOMAIN mem, NEW i \in DOMAIN mem[o], Writes(c, o, i)
      PROVE  ~InUse(o, i) /\ mem'[o][i] = w.holds[o][i]
  <2>1. o \in c.touches /\ ~InUse(o, i)
    BY <1>2, <1>5 DEF Fits, Writes
  <2>2. mem[o][i] = v.holds[o][i]
    BY <1>3, <2>1
  <2>3. c.do = "copy" => mem[c.src][i] = v.holds[c.src][i]
    <3> SUFFICES ASSUME c.do = "copy" PROVE mem[c.src][i] = v.holds[c.src][i]
      OBVIOUS
    <3>1. c.src \in c.touches /\ c.src \in DOMAIN mem /\ i \in DOMAIN mem[c.src]
      BY <1>1, <1>5 DEF Fits, Writes
    <3> QED
      BY <1>2, <1>3, <3>1
  <2>4. /\ mem'[o][i] = IF c.do = "fill" THEN c.by
                        ELSE IF c.do = "add" THEN mem[o][i] + c.by
                        ELSE mem[c.src][i]
        /\ w.holds[o][i] = IF c.do = "fill" THEN c.by
                           ELSE IF c.do = "add" THEN v.holds[o][i] + c.by
                           ELSE v.holds[c.src][i]
    BY <1>1, <1>5, EffectOnParts
  <2>5. c.do \in {"copy", "add", "fill"}
    BY <1>5 DEF Writes
  <2> QED
    BY <2>1, <2>2, <2>3, <2>4, <2>5
<1>6. ASSUME NEW o \in DOMAIN mem, NEW i \in DOMAIN mem[o], ~Writes(c, o, i)
      PROVE  mem'[o][i] = mem[o][i] /\ w.holds[o][i] = v.holds[o][i]
  BY <1>1, <1>6, EffectOnParts
<1>7. ASSUME NEW x \in Places PROVE Fits(At(x), w.holds)
  <2>1. Fits(At(x), v.holds)
    BY DEF Foreseen
  <2> QED
    BY <1>1, <1>4, <2>1 DEF Fits
<1> QED
  BY <1>1, <1>4, <1>5, <1>6, <1>7, HostKeepsForeseen

\* What memory holds in the end, and what is read, stays foreseen.
LEMMA CallsKeepForeseen ==
    ASSUME Typed, NEW v, Exact(v), UnderWay(v), Foreseen(v), NEW p, CallEffect(v, p),
           SafeSubmit(v, NextCall(v, p)), SafeDestroy(v, NextCall(v, p)),
           SafeAccess(v, NextCall(v, p)), SafeTimer(v, NextCall(v, p)),
           SafeData(v, NextCall(v, p))
    PROVE  Foreseen(ViewAfter(v, p))'
<1> DEFINE c == NextCall(v, p)
           new == Submits(v, c)
           w == ViewAfter(v, p)
<1>1. /\ c = Current(p) /\ mem' = MemAfter(c)
      /\ w.holds = HoldsAfter(v, c) /\ w.finds = FindsAfter(v, c)
  BY CallsAreExpected DEF CallEffect, ViewAfter
<1>2. /\ DOMAIN mem = DOMAIN v.holds
      /\ \A o \in DOMAIN mem : DOMAIN mem[o] = DOMAIN v.holds[o]
      /\ \A x \in Places : Fits(At(x), v.holds)
  BY DEF Foreseen
<1>3. SafeSubmit(v, c) /\ SafeDestroy(v, c) /\ SafeAccess(v, c) /\ SafeTimer(v, c) /\ SafeData(v, c)
  OBVIOUS
<1>4. c.op \notin {"execute", "submit"} => PlacesStay /\ w.finds = v.finds
  BY <1>1, PlacesStayElsewhere DEF FindsAfter
<1>5. CASE c.op \in {"execute", "submit"}
  <2>1. /\ new \in Seq(ToSet(new)) /\ DOMAIN pending' = DOMAIN pending
        /\ \A q \in DOMAIN pending :
                pending'[q] = IF q = c.object THEN pending[q] \o new ELSE pending[q]
    BY <1>1, <1>5, SubmitsGoToTheEnd
  <2>2. c.object \in DOMAIN pending /\ mem' = mem
    BY <1>1, <1>3, <1>5 DEF SafeSubmit, UnderWay, MemAfter
  <2>3. SafeEffects(v, c.object, new, w.holds, w.finds)
    BY <1>1, <1>3, <1>5 DEF SafeData
  <2> HIDE DEF c, new, w
  <2>4. /\ pending'[c.object] = pending[c.object] \o new
        /\ \A r \in DOMAIN pending \ {c.object} : pending'[r] = pending[r]
    BY <2>1, <2>2
  <2> QED
    BY <2>1, <2>2, <2>3, <2>4, SubmitsKeepForeseen DEF w
<1>6. CASE c.op = "touch"
  <2>1. /\ mem' = Effect(mem, c.command) /\ w.holds = Effect(v.holds, c.command)
        /\ Fits(c.command, v.holds)
        /\ \A d \in AllSent(v) : c.command.touches \cap d.touches = {}
    BY <1>1, <1>3, <1>6 DEF MemAfter, HoldsAfter, SafeData, SafeAccess
  <2> HIDE DEF c, w
  <2> QED
    BY <1>4, <1>6, <2>1, HostCommandKeepsForeseen DEF w
<1>7. CASE c.op \in {"create", "createList", "createQueue"}
  <2> DEFINE contents == IF c.op = "create" THEN c.contents ELSE <<>>
  <2>1. mem' = Put(mem, c.object, contents) /\ w.holds = Put(v.holds, c.object, contents)
    BY <1>1, <1>7 DEF MemAfter, HoldsAfter
  <2> HIDE DEF contents
  <2>2. \A d \in AllSent(v) : c.object \notin d.touches
    BY <1>3, <1>7 DEF SafeData
  <2> HIDE DEF c, w
  <2>3. /\ \A i : ~InUse(c.object, i)
        /\ \A x \in Places : c.object \notin At(x).touches
    BY <2>2, UntouchedIsUnused
  <2>4. /\ DOMAIN mem' = DOMAIN mem \cup {c.object}
        /\ DOMAIN w.holds = DOMAIN v.holds \cup {c.object}
        /\ mem'[c.object] = contents /\ w.holds[c.object] = contents
        /\ \A x \in DOMAIN mem \ {c.object} : mem'[x] = mem[x] /\ w.holds[x] = v.holds[x]
    BY <1>2, <2>1 DEF Put
  <2>5. \A x \in Places : Fits(At(x), w.holds)
    <3>1. /\ DOMAIN v.holds \subseteq DOMAIN w.holds \cup {c.object}
          /\ \A x \in DOMAIN v.holds \ {c.object} : DOMAIN w.holds[x] = DOMAIN v.holds[x]
      BY <1>2, <2>4
    <3> QED
      BY <1>2, <2>3, <3>1, StillFits
  <2>6. ASSUME NEW o \in DOMAIN mem'
        PROVE  /\ DOMAIN mem'[o] = DOMAIN w.holds[o]
               /\ \A i \in DOMAIN mem'[o] :
                    \/ /\ o \in DOMAIN mem /\ i \in DOMAIN mem[o]
                       /\ mem'[o][i] = mem[o][i] /\ w.holds[o][i] = v.holds[o][i]
                    \/ ~InUse(o, i) /\ mem'[o][i] = w.holds[o][i]
    BY <1>2, <2>3, <2>4
  <2>7. DOMAIN mem' = DOMAIN w.holds /\ PlacesStay /\ w.finds = v.finds
    BY <1>2, <1>4, <1>7, <2>4
  <2> QED
    BY <2>5, <2>6, <2>7, HostKeepsForeseen DEF w
<1>8. CASE c.op = "destroy"
  <2>1. /\ mem' = [x \in DOMAIN mem \ {c.object} |-> mem[x]]
        /\ w.holds = [x \in DOMAIN v.holds \ {c.object} |-> v.holds[x]]
    BY <1>1, <1>8 DEF MemAfter, HoldsAfter
  <2>2. \A d \in AllSent(v) : c.object \notin d.touches
    BY <1>3, <1>8 DEF SafeDestroy, Needs, AllSent
  <2> HIDE DEF c, w
  <2>3. \A x \in Places : c.object \notin At(x).touches
    BY <2>2, UntouchedIsUnused
  <2>4. \A x \in Places : Fits(At(x), w.holds)
    <3>1. /\ DOMAIN v.holds \subseteq DOMAIN w.holds \cup {c.object}
          /\ \A x \in DOMAIN v.holds \ {c.object} : DOMAIN w.holds[x] = DOMAIN v.holds[x]
      BY <2>1
    <3> QED
      BY <1>2, <2>3, <3>1, StillFits
  <2>5. ASSUME NEW o \in DOMAIN mem'
        PROVE  /\ DOMAIN mem'[o] = DOMAIN w.holds[o]
               /\ \A i \in DOMAIN mem'[o] :
                    /\ o \in DOMAIN mem /\ i \in DOMAIN mem[o]
                    /\ mem'[o][i] = mem[o][i] /\ w.holds[o][i] = v.holds[o][i]
    BY <1>2, <2>1
  <2>6. DOMAIN mem' = DOMAIN w.holds /\ PlacesStay /\ w.finds = v.finds
    BY <1>2, <1>4, <1>8, <2>1
  <2> QED
    BY <2>4, <2>5, <2>6, HostKeepsForeseen DEF w
<1>9. CASE c.op \notin {"execute", "submit", "touch", "create", "createList", "createQueue", "destroy"}
  <2>1. mem' = mem /\ w.holds = v.holds
    BY <1>1, <1>9 DEF MemAfter, HoldsAfter
  <2> HIDE DEF c, w
  <2>2. PlacesStay /\ w.finds = v.finds
    BY <1>4, <1>9
  <2> QED
    BY <1>2, <2>1, <2>2, HostKeepsForeseen DEF w
<1> QED
  BY <1>5, <1>6, <1>7, <1>8, <1>9

\* Every set of natural numbers has a least one.
LEMMA LeastNumber ==
    ASSUME NEW T \in SUBSET Nat, T # {}
    PROVE  \E m \in T : \A k \in T : ~(k < m)
<1> DEFINE R == OpToRel(<, Nat)
<1>1. IsWellFoundedOn(R, Nat)
  BY NatLessThanWellFounded
<1>2. \A k, m \in Nat : k < m => <<k, m>> \in R
  BY DEF OpToRel
<1> HIDE DEF R
<1>3. PICK m \in T : \A k \in T : ~(<<k, m>> \in R)
  BY <1>1, WFMin
<1> QED
  BY <1>2, <1>3

\* An event that a command under way waits for stays a gate until the host signals it.
LEMMA GatesStay ==
    ASSUME NEW v, NEW p, UnderWay(ViewAfter(v, p))', NEW x \in Places', NEW e \in At(x)'.waits,
           LET c == NextCall(v, p)
           IN  \/ e \in v.gates /\ e \notin ObjectOf(c, {"signal"})
               \/ \E k \in DOMAIN Submits(v, c) : e \in Gates(v, Submits(v, c), k)
    PROVE  e \in ViewAfter(v, p).gates
<1> DEFINE c == NextCall(v, p)
           w == ViewAfter(v, p)
<1>1. w.sent = SentAfter(v, c) /\ w.gates = GatesAfter(v, c)
  BY DEF ViewAfter
<1>2. x[1] \in DOMAIN w.sent /\ At(x)' \in w.sent[x[1]]
  BY PlacesArePairs DEF PlacesHavePairs, UnderWay, At
<1> HIDE DEF w
<1> QED
  BY <1>1, <1>2 DEF GatesAfter, w

\* Commands that are submitted will signal their events, and have their answers.
LEMMA SubmitsKeepAnswers ==
    ASSUME Typed, NEW v, Exact(v), UnderWay(v), SignaledBetween(v), SignaledInTheEnd(v),
           Answerable(v), NEW p, CallEffect(v, p), SafeSubmit(v, NextCall(v, p)),
           NextCall(v, p).op \in {"execute", "submit"}, UnderWay(ViewAfter(v, p))'
    PROVE  SignaledInTheEnd(ViewAfter(v, p))' /\ Answerable(ViewAfter(v, p))'
<1> DEFINE c == NextCall(v, p)
           new == Submits(v, c)
           w == ViewAfter(v, p)
           q == c.object
<1> PICK n : n = Len(pending[q])
  OBVIOUS
<1>1. c = Current(p)
  BY CallsAreExpected
<1>2. /\ new \in Seq(ToSet(new)) /\ DOMAIN pending' = DOMAIN pending
      /\ \A r \in DOMAIN pending :
            pending'[r] = IF r = q THEN pending[r] \o new ELSE pending[r]
  BY <1>1, SubmitsGoToTheEnd
<1>3. q \in DOMAIN pending /\ signaled' = signaled
  BY <1>1 DEF SafeSubmit, UnderWay, CallEffect, ObjectOf
<1>4. /\ \A x \in Places : x \in Places' /\ At(x)' = At(x)
      /\ \A k \in DOMAIN new : /\ <<q, n + k>> \in Places' \ Places
                               /\ At(<<q, n + k>>)' = new[k]
      /\ \A x \in Places' \ Places : \E k \in DOMAIN new : x = <<q, n + k>>
  <2>1. /\ pending'[q] = pending[q] \o new /\ new \in Seq(ToSet(new))
        /\ \A r \in DOMAIN pending \ {q} : pending'[r] = pending[r]
    BY <1>2, <1>3
  <2> HIDE DEF q, new
  <2> QED
    BY <1>2, <1>3, <2>1, SubmittedPlaces
<1>5. n \in Nat /\ \A x \in Places : x[1] = q => x[2] \in 1..n
  BY <1>3, PlacesArePairs DEF PlacesHavePairs, UnderWay
<1>6. w.sent = SentAfter(v, c)
  BY DEF ViewAfter
<1>7. ObjectOf(c, {"signal"}) = {}
  BY DEF ObjectOf
<1>8. ASSUME NEW r \in DOMAIN v.sent, NEW d \in v.sent[r]
      PROVE  d.signals \subseteq signaled \/ \E x \in Places : x[1] = r /\ At(x) = d
  <2>1. ASSUME NEW i \in DOMAIN pending[r], pending[r][i] = d
        PROVE  <<r, i>> \in Places /\ At(<<r, i>>) = d
    BY <2>1, PlacesArePairs DEF PlacesHavePairs, UnderWay, At
  <2> QED
    BY <2>1 DEF SignaledInTheEnd
<1>9. SignaledInTheEnd(w)'
  <2> SUFFICES ASSUME NEW r \in DOMAIN SentAfter(v, c), NEW d \in SentAfter(v, c)[r]
               PROVE  \/ d.signals \subseteq signaled'
                      \/ \E j \in DOMAIN pending'[r] : pending'[r][j] = d
    BY <1>6 DEF SignaledInTheEnd
  <2>1. ASSUME NEW x \in Places', x[1] = r, At(x)' = d
        PROVE  \E j \in DOMAIN pending'[r] : pending'[r][j] = d
    BY <2>1, PlacesArePairs DEF PlacesHavePairs, At
  <2>2. CASE r \in DOMAIN v.sent /\ d \in v.sent[r]
    BY <1>3, <1>4, <1>8, <2>1, <2>2
  <2>3. CASE r = q /\ \E k \in DOMAIN new : d = new[k]
    BY <1>4, <2>1, <2>3
  <2> QED
    BY <2>2, <2>3, SentBefore
<1>10. Answerable(w)'
  <2> SUFFICES ASSUME NEW S \in SUBSET Places', S # {}
               PROVE  \E z \in S :
                        /\ \A x \in S : x[1] = z[1] => z[2] <= x[2]
                        /\ \A e \in At(z)'.waits :
                            \/ e \in signaled' \cup w.gates
                            \/ \E x \in Places' \ S : e \in At(x)'.signals
    BY DEF Answerable
  <2>1. CASE S \cap Places # {}
    <3>1. PICK z \in S \cap Places :
              /\ \A x \in S \cap Places : x[1] = z[1] => z[2] <= x[2]
              /\ \A e \in At(z).waits :
                  \/ e \in signaled \cup v.gates
                  \/ \E x \in Places \ (S \cap Places) : e \in At(x).signals
      BY <2>1 DEF Answerable
    <3>2. ASSUME NEW x \in S, x[1] = z[1]
          PROVE  z[2] <= x[2]
      <4>1. CASE x \notin Places
        <5>1. PICK k \in DOMAIN new : x = <<q, n + k>>
          BY <1>4, <4>1
        <5>2. k \in Nat \ {0}
          BY <1>2
        <5>3. z[2] \in 1..n
          BY <1>5, <3>2, <5>1
        <5> QED
          BY <1>5, <5>1, <5>2, <5>3
      <4> QED
        BY <3>1, <3>2, <4>1
    <3>3. ASSUME NEW e \in At(z)'.waits
          PROVE  \/ e \in signaled' \cup w.gates
                 \/ \E x \in Places' \ S : e \in At(x)'.signals
      <4>1. e \in At(z).waits
        BY <1>4
      <4>2. CASE e \in v.gates
        BY <1>7, <4>2, GatesStay
      <4>3. ASSUME NEW x \in Places \ (S \cap Places), e \in At(x).signals
            PROVE  x \in Places' \ S /\ e \in At(x)'.signals
        BY <1>4, <4>3
      <4> QED
        BY <1>3, <3>1, <4>1, <4>2, <4>3
    <3> QED
      BY <3>2, <3>3
  <2>2. CASE S \cap Places = {}
    <3> DEFINE K == {k \in DOMAIN new : <<q, n + k>> \in S}
    <3>1. \A x \in S : \E k \in K : x = <<q, n + k>>
      BY <1>4, <2>2
    <3>2. K \in SUBSET Nat /\ K # {}
      BY <1>2, <3>1
    <3>3. PICK k \in K : \A j \in K : ~(j < k)
      BY <3>2, LeastNumber
    <3>4. /\ <<q, n + k>> \in S /\ At(<<q, n + k>>)' = new[k] /\ k \in DOMAIN new
          /\ k \in 1..Len(new) /\ Len(new) \in Nat
      BY <1>2, <1>4
    <3>5. \A x \in S : n + k <= x[2]
      <4> SUFFICES ASSUME NEW x \in S PROVE n + k <= x[2]
        OBVIOUS
      <4>1. PICK j \in K : x = <<q, n + j>>
        BY <3>1
      <4>2. j \in Nat /\ k \in Nat /\ ~(j < k) /\ x[2] = n + j
        BY <3>2, <3>3, <4>1
      <4> QED
        BY <1>5, <4>2
    <3>6. ASSUME NEW e \in new[k].waits
          PROVE  \/ e \in signaled' \cup w.gates
                 \/ \E x \in Places' \ S : e \in At(x)'.signals
      <4>1. CASE e \in v.must
        BY <1>3, <4>1 DEF SignaledBetween
      <4>2. CASE e \in SignaledBy(AllSent(v))
        <5>1. PICK d, r : r \in DOMAIN v.sent /\ d \in v.sent[r] /\ e \in d.signals
          BY <4>2 DEF SignaledBy, AllSent
        <5>2. CASE d.signals \subseteq signaled
          BY <1>3, <5>1, <5>2
        <5>3. ASSUME NEW x \in Places, At(x) = d
              PROVE  x \in Places' \ S /\ e \in At(x)'.signals
          BY <1>4, <2>2, <5>1, <5>3
        <5> QED
          BY <1>8, <5>1, <5>2, <5>3
      <4>3. ASSUME NEW j \in 1..(k - 1), e \in new[j].signals
            PROVE  \E x \in Places' \ S : e \in At(x)'.signals
        <5>1. j \in DOMAIN new /\ j < k
          BY <1>2, <3>4
        <5>2. <<q, n + j>> \in Places' \ S /\ At(<<q, n + j>>)' = new[j]
          BY <1>4, <3>3, <5>1
        <5> QED
          BY <4>3, <5>2
      <4>4. CASE e \in Gates(v, new, k)
        BY <3>4, <4>4, GatesStay
      <4> QED
        BY <4>1, <4>2, <4>3, <4>4 DEF Gates
    <3> HIDE DEF K
    <3> QED
      BY <3>4, <3>5, <3>6
  <2> QED
    BY <2>1, <2>2
<1> QED
  BY <1>9, <1>10

\* A call that submits nothing takes no answer away: the host resets or destroys no
\* event that a command under way signals, or waits for and has.
LEMMA OthersKeepAnswers ==
    ASSUME NEW v, Exact(v), UnderWay(v), SignaledBetween(v), SignaledInTheEnd(v),
           Answerable(v), NEW p, CallEffect(v, p),
           LET c == NextCall(v, p)
           IN  SafeDestroy(v, c) /\ SafeEvent(v, c) /\ SafeTimer(v, c),
           NextCall(v, p).op \notin {"execute", "submit"}, UnderWay(ViewAfter(v, p))'
    PROVE  SignaledInTheEnd(ViewAfter(v, p))' /\ Answerable(ViewAfter(v, p))'
<1> DEFINE c == NextCall(v, p)
           w == ViewAfter(v, p)
<1>1. c = Current(p)
  BY CallsAreExpected
<1>2. /\ Places' = Places /\ \A x \in Places : At(x)' = At(x)
  BY PlacesStayElsewhere DEF PlacesStay
<1>3. signaled' = (signaled \cup ObjectOf(c, {"signal"})) \ ObjectOf(c, {"reset", "destroy"})
  BY <1>1 DEF CallEffect
<1>4. ASSUME NEW r \in DOMAIN v.sent, NEW d \in v.sent[r], NEW e \in signaled,
             e \in d.signals \cup d.waits
      PROVE  e \in signaled'
  <2>1. c.op = "destroy" => e # c.object
    BY <1>4 DEF SafeDestroy, Needs
  <2>2. c.op = "reset" => e # c.object
    BY <1>4 DEF SafeEvent, SignaledBy, AllSent, SignaledBetween
  <2> QED
    BY <1>3, <2>1, <2>2 DEF ObjectOf
<1>5. SignaledInTheEnd(w)'
  <2> SUFFICES ASSUME NEW r \in DOMAIN SentAfter(v, c), NEW d \in SentAfter(v, c)[r]
               PROVE  \/ d.signals \subseteq signaled'
                      \/ \E j \in DOMAIN pending'[r] : pending'[r][j] = d
    BY DEF SignaledInTheEnd, ViewAfter
  <2>1. r \in DOMAIN v.sent /\ d \in v.sent[r]
    BY SentBefore
  <2>2. CASE d.signals \subseteq signaled
    BY <1>4, <2>1, <2>2
  <2>3. ASSUME NEW j \in DOMAIN pending[r], pending[r][j] = d
        PROVE  j \in DOMAIN pending'[r] /\ pending'[r][j] = d
    <3>1. <<r, j>> \in Places /\ At(<<r, j>>) = d
      BY <2>1, <2>3, PlacesArePairs DEF PlacesHavePairs, UnderWay, At
    <3>2. <<r, j>> \in Places' /\ At(<<r, j>>)' = d
      BY <1>2, <3>1
    <3> QED
      BY <3>2, PlacesArePairs DEF PlacesHavePairs, At
  <2> QED
    BY <2>1, <2>2, <2>3 DEF SignaledInTheEnd
<1>6. ASSUME NEW x \in Places, NEW e \in At(x).waits, e \in signaled \cup v.gates
      PROVE  e \in signaled' \cup w.gates
  <2>1. CASE e \in signaled
    <3>1. x[1] \in DOMAIN v.sent /\ At(x) \in v.sent[x[1]]
      BY UnderWayIsSent, PlacesArePairs DEF PlacesHavePairs, UnderWay, At
    <3> QED
      BY <1>4, <2>1, <3>1
  <2>2. CASE e \in v.gates /\ e \notin ObjectOf(c, {"signal"})
    <3>1. x \in Places' /\ e \in At(x)'.waits
      BY <1>2
    <3> QED
      BY <2>2, <3>1, GatesStay
  <2>3. CASE e \in ObjectOf(c, {"signal"})
    BY <1>3, <2>3 DEF ObjectOf
  <2> QED
    BY <1>6, <2>1, <2>2, <2>3
<1>7. Answerable(w)'
  <2> SUFFICES ASSUME NEW S \in SUBSET Places, S # {}
               PROVE  \E z \in S :
                        /\ \A x \in S : x[1] = z[1] => z[2] <= x[2]
                        /\ \A e \in At(z)'.waits :
                            \/ e \in signaled' \cup w.gates
                            \/ \E x \in Places \ S : e \in At(x)'.signals
    BY <1>2 DEF Answerable
  <2>1. PICK z \in S : /\ \A x \in S : x[1] = z[1] => z[2] <= x[2]
                       /\ \A e \in At(z).waits :
                            \/ e \in signaled \cup v.gates
                            \/ \E x \in Places \ S : e \in At(x).signals
    BY DEF Answerable
  <2>2. z \in Places /\ At(z)' = At(z)
    BY <1>2
  <2> HIDE DEF w
  <2> QED
    BY <1>2, <1>6, <2>1, <2>2
<1> QED
  BY <1>5, <1>7

-----------------------------------------------------------------------------
(* The engines.                                                            *)

\* While nothing can begin, no engine takes a step.
LEMMA NothingBegins ==
    ASSUME NEW v, Represents(v), NEW q \in DOMAIN pending, NEW i \in Ready(q)
    PROVE  ~v.still
<1> SUFFICES ASSUME v.still PROVE FALSE
  OBVIOUS
<1>1. pending = v.queued /\ ~CanBegin(pending, v.may)
  BY DEF Represents, Still
<1>2. i \in DOMAIN pending[q] /\ pending[q][i].waits \subseteq signaled
  BY DEF Ready
<1>3. ASSUME NEW e \in pending[q][i].waits
      PROVE  /\ e \in v.may
             /\ \A r \in DOMAIN pending : \A j \in DOMAIN pending[r] : e \notin pending[r][j].signals
  BY <1>2 DEF Represents, SignaledBetween, SignalsToCome
<1> QED
  BY <1>1, <1>2, <1>3 DEF Ready, CanBegin

\* A command that may start is behind no other.
LEMMA ReadyIsBehindNone ==
    ASSUME NEW v, UnderWay(v), SignalsToCome, NEW q \in DOMAIN pending, NEW i \in Ready(q),
           NEW x \in Places
    PROVE  ~Behind(x, <<q, i>>)
<1>1. /\ i \in DOMAIN pending[q] /\ pending[q][i].waits \subseteq signaled
      /\ \A j \in 1..(i - 1) : ~pending[q][j].ordered
      /\ pending[q][i].ordered => i = 1
  BY DEF Ready
<1>2. x[1] \in DOMAIN pending /\ x[2] \in DOMAIN pending[x[1]]
  BY PlacesArePairs DEF PlacesHavePairs
<1>3. ~WaitsOn(At(<<q, i>>), At(x))
  BY <1>1, <1>2 DEF SignalsToCome, At, WaitsOn
<1>4. i \in Nat
  BY <1>1 DEF UnderWay
<1>5. ASSUME x[1] = q, x[2] < i, NEW m \in (x[2] + 1)..i, pending[q][m].ordered
      PROVE  FALSE
  <2>1. x[2] \in Nat \ {0}
    BY <1>2, <1>5 DEF UnderWay
  <2> QED
    BY <1>1, <1>4, <1>5, <2>1
<1> QED
  BY <1>3, <1>5 DEF Behind, At

\* The place that the command at x had before the i-th one of queue q completed.
Before(q, i, x) == <<x[1], IF x[1] # q \/ x[2] < i THEN x[2] ELSE x[2] + 1>>

\* When a command completes, all others keep a place, in the same order.
LEMMA RemovedPlaces ==
    ASSUME NEW v, UnderWay(v), NEW q \in DOMAIN pending, NEW i \in DOMAIN pending[q],
           pending' = [pending EXCEPT ![q] = RemoveAt(@, i)]
    PROVE  /\ \A x \in Places' : /\ Before(q, i, x) \in Places \ {<<q, i>>}
                               /\ At(x)' = At(Before(q, i, x)) /\ x[2] \in Nat
           /\ \A z \in Places \ {<<q, i>>} : \E x \in Places' : Before(q, i, x) = z
           /\ \A x, z \in Places' :
                x[1] = z[1] /\ Before(q, i, z)[2] <= Before(q, i, x)[2] => z[2] <= x[2]
<1> DEFINE y == <<q, i>>
           was(r, j) == IF r # q \/ j < i THEN j ELSE j + 1
           Old(x) == <<x[1], was(x[1], x[2])>>
<1>1. pending[q] \in Seq(v.sent[q]) /\ i \in Nat
  BY DEF UnderWay
<1>2. /\ DOMAIN pending' = DOMAIN pending /\ pending'[q] = RemoveAt(pending[q], i)
      /\ \A r \in DOMAIN pending \ {q} : pending'[r] = pending[r]
  OBVIOUS
<1>3. /\ RemoveAt(pending[q], i) \in Seq(v.sent[q])
      /\ Len(RemoveAt(pending[q], i)) = Len(pending[q]) - 1
      /\ \A j \in DOMAIN RemoveAt(pending[q], i) :
            /\ was(q, j) \in DOMAIN pending[q] \ {i}
            /\ RemoveAt(pending[q], i)[j] = pending[q][was(q, j)]
  BY <1>1, Removed
<1>4. ASSUME NEW x \in Places'
      PROVE  Old(x) \in Places \ {y} /\ At(x)' = At(Old(x)) /\ x[2] \in Nat
  <2>1. x[1] \in DOMAIN pending' /\ x[2] \in DOMAIN pending'[x[1]]
    BY PlacesArePairs DEF PlacesHavePairs
  <2>2. CASE x[1] = q
    <3>1. was(q, x[2]) \in DOMAIN pending[q] \ {i} /\ pending'[q][x[2]] = pending[q][was(q, x[2])]
      BY <1>2, <1>3, <2>1, <2>2
    <3>2. x[2] \in Nat
      BY <1>2, <1>3, <2>1, <2>2
    <3> QED
      BY <2>2, <3>1, <3>2, PlacesArePairs DEF PlacesHavePairs, At
  <2>3. CASE x[1] # q
    <3>1. x[2] \in Nat
      BY <1>2, <2>1, <2>3 DEF UnderWay
    <3> QED
      BY <1>2, <2>1, <2>3, <3>1, PlacesArePairs DEF PlacesHavePairs, At
  <2> QED
    BY <2>2, <2>3
<1>5. ASSUME NEW z \in Places \ {y}
      PROVE  \E x \in Places' : Old(x) = z
  <2> DEFINE r == z[1]
             j == z[2]
             m == IF r # q \/ j < i THEN j ELSE j - 1
  <2>1. z = <<r, j>> /\ r \in DOMAIN pending /\ j \in DOMAIN pending[r] /\ <<r, j>> # <<q, i>>
    BY PlacesArePairs DEF PlacesHavePairs
  <2> HIDE DEF r, j
  <2>2. r \in DOMAIN pending' /\ m \in DOMAIN pending'[r] /\ was(r, m) = j
    <3>1. CASE r # q
      BY <1>2, <2>1, <3>1
    <3>2. CASE r = q
      <4>1. j \in 1..Len(pending[q]) /\ j # i /\ Len(pending[q]) \in Nat
        BY <1>1, <2>1, <3>2
      <4>2. m \in 1..(Len(pending[q]) - 1) /\ was(q, m) = j
        BY <1>1, <4>1, <3>2
      <4> HIDE DEF m
      <4> QED
        BY <1>2, <1>3, <3>2, <4>1, <4>2
    <3> QED
      BY <3>1, <3>2
  <2> HIDE DEF m
  <2>3. <<r, m>> \in Places'
    BY <2>2, PlacesArePairs DEF PlacesHavePairs
  <2> QED
    BY <2>1, <2>2, <2>3
<1>6. ASSUME NEW x \in Places', NEW z \in Places', x[1] = z[1],
             Old(z)[2] <= Old(x)[2]
      PROVE  z[2] <= x[2]
  <2>1. was(x[1], z[2]) <= was(x[1], x[2])
    BY <1>6
  <2>2. x[2] \in Nat /\ z[2] \in Nat
    BY <1>4
  <2> QED
    BY <1>1, <2>1, <2>2
<1>7. \A x : Before(q, i, x) = Old(x)
  BY DEF Before
<1> HIDE DEF Old
<1> QED
  BY <1>4, <1>5, <1>6, <1>7

\* A completed command leaves what the view foresees.
LEMMA EnginesKeepForeseen ==
    ASSUME NEW v, UnderWay(v), SignalsToCome, Foreseen(v),
           NEW q \in DOMAIN pending, NEW i \in Ready(q),
           pending' = [pending EXCEPT ![q] = RemoveAt(@, i)],
           mem' = Effect(mem, pending[q][i])
    PROVE  Foreseen(v)'
<1> DEFINE c == pending[q][i]
           y == <<q, i>>
           was(r, j) == IF r # q \/ j < i THEN j ELSE j + 1
           Old(x) == <<x[1], was(x[1], x[2])>>
<1>1. /\ i \in DOMAIN pending[q] /\ pending[q] \in Seq(v.sent[q]) /\ i \in Nat
      /\ y \in Places /\ At(y) = c
  BY PlacesArePairs DEF PlacesHavePairs, Ready, UnderWay, At
<1>2. /\ DOMAIN pending' = DOMAIN pending /\ pending'[q] = RemoveAt(pending[q], i)
      /\ \A r \in DOMAIN pending \ {q} : pending'[r] = pending[r]
  OBVIOUS
<1>3. /\ RemoveAt(pending[q], i) \in Seq(v.sent[q])
      /\ Len(RemoveAt(pending[q], i)) = Len(pending[q]) - 1
      /\ \A j \in DOMAIN RemoveAt(pending[q], i) :
            /\ was(q, j) \in DOMAIN pending[q] \ {i}
            /\ RemoveAt(pending[q], i)[j] = pending[q][was(q, j)]
  BY <1>1, Removed
<1>4. ASSUME NEW x \in Places'
      PROVE  Old(x) \in Places \ {y} /\ At(x)' = At(Old(x)) /\ x[2] \in Nat
  BY <1>1, RemovedPlaces DEF Before
<1>5. ASSUME NEW z \in Places \ {y}
      PROVE  \E x \in Places' : Old(x) = z
  BY <1>1, RemovedPlaces DEF Before
<1>6. ASSUME NEW x \in Places PROVE ~Behind(x, y)
  BY ReadyIsBehindNone
<1>7. ASSUME NEW x \in Places', NEW z \in Places'
      PROVE  Behind(x, z)' <=> Behind(Old(x), Old(z))
  <2> DEFINE Between(j, k) == j < k /\ \E m \in (j + 1)..k : pending[x[1]][m].ordered
             BetweenAfter(j, k) == j < k /\ \E m \in (j + 1)..k : pending'[x[1]][m].ordered
  <2>1. /\ Behind(x, z)' <=> \/ WaitsOn(At(Old(z)), At(Old(x)))
                             \/ x[1] = z[1] /\ BetweenAfter(x[2], z[2])
        /\ Behind(Old(x), Old(z)) <=>
                             \/ WaitsOn(At(Old(z)), At(Old(x)))
                             \/ x[1] = z[1] /\ Between(was(x[1], x[2]), was(x[1], z[2]))
    BY <1>4 DEF Behind
  <2>2. ASSUME x[1] = z[1]
        PROVE  BetweenAfter(x[2], z[2]) <=> Between(was(x[1], x[2]), was(x[1], z[2]))
    <3>1. CASE x[1] # q
      <4>1. x[1] \in DOMAIN pending
        BY <1>2, PlacesArePairs DEF PlacesHavePairs
      <4> QED
        BY <1>2, <3>1, <4>1
    <3>2. CASE x[1] = q
      <4> DEFINE s == pending[q]
                 t == pending'[q]
                 j == x[2]
                 k == z[2]
      <4>1. /\ j \in DOMAIN t /\ k \in DOMAIN t
            /\ DOMAIN t = 1..(Len(s) - 1) /\ DOMAIN s = 1..Len(s) /\ Len(s) \in Nat
            /\ i \in 1..Len(s)
        <5>1. x[1] = q /\ z[1] = q
          BY <2>2, <3>2
        <5>2. j \in DOMAIN t /\ k \in DOMAIN t
          BY <5>1, PlacesArePairs DEF PlacesHavePairs
        <5>3. Len(s) \in Nat /\ DOMAIN s = 1..Len(s) /\ i \in 1..Len(s)
          BY <1>1
        <5>4. t = RemoveAt(s, i) /\ t \in Seq(v.sent[q]) /\ Len(t) = Len(s) - 1
          BY <1>2, <1>3
        <5>5. DOMAIN t = 1..(Len(s) - 1)
          BY <5>4
        <5> QED
          BY <5>2, <5>3, <5>5
      <4>2. \A m \in DOMAIN t : was(q, m) \in DOMAIN s \ {i} /\ t[m] = s[was(q, m)]
        BY <1>2, <1>3
      <4>3. s[i].ordered => i = 1
        BY DEF Ready
      <4> HIDE DEF s, t, j, k
      <4>4. ASSUME j < k, NEW m \in (j + 1)..k, t[m].ordered
            PROVE  /\ was(q, j) < was(q, k)
                   /\ was(q, m) \in (was(q, j) + 1)..was(q, k) /\ s[was(q, m)].ordered
        <5>1. m \in DOMAIN t
          BY <4>1, <4>4
        <5> QED
          BY <4>1, <4>2, <4>4, <5>1
      <4>5. ASSUME was(q, j) < was(q, k), NEW m \in (was(q, j) + 1)..was(q, k), s[m].ordered
            PROVE  j < k /\ \E n \in (j + 1)..k : t[n].ordered
        <5>1. m # i
          BY <4>1, <4>3, <4>5
        <5> DEFINE n == IF m < i THEN m ELSE m - 1
        <5>2. j < k /\ n \in (j + 1)..k /\ was(q, n) = m
          BY <4>1, <4>5, <5>1
        <5> HIDE DEF n
        <5>3. n \in DOMAIN t
          BY <4>1, <5>2
        <5> QED
          BY <4>2, <4>5, <5>2, <5>3
      <4> QED
        BY <3>2, <4>4, <4>5 DEF s, t, j, k
    <3> QED
      BY <3>1, <3>2
  <2> QED
    BY <2>1, <2>2
<1> HIDE DEF was, Old, y
\* What the command itself leaves.
<1>8. ASSUME NEW o \in DOMAIN mem, NEW j \in DOMAIN mem[o]
      PROVE  /\ o \in DOMAIN mem' /\ DOMAIN mem'[o] = DOMAIN mem[o] /\ j \in DOMAIN mem'[o]
             /\ mem'[o][j] = IF Writes(c, o, j) THEN Result(v.finds, c, j) ELSE mem[o][j]
  <2>1. /\ o \in DOMAIN mem' /\ DOMAIN mem'[o] = DOMAIN mem[o]
        /\ mem'[o][j] = IF ~Writes(c, o, j) THEN mem[o][j]
                        ELSE IF c.do = "fill" THEN c.by
                        ELSE IF c.do = "add" THEN mem[o][j] + c.by
                        ELSE mem[c.src][j]
    BY EffectOnParts
  <2>2. ASSUME NEW a \in DOMAIN mem, NEW k \in DOMAIN mem[a], Reads(c, a, k)
        PROVE  mem[a][k] = v.finds[c][k]
    <3>1. ReadIsForeseen(v, y, a, k)
      BY <1>1, <2>2 DEF Foreseen
    <3>2. {x \in WritersOf(a, k) : Behind(x, y)} = {}
      BY <1>6 DEF WritersOf
    <3> QED
      BY <1>1, <3>1, <3>2 DEF ReadIsForeseen, EndsIn
  <2>3. Fits(c, v.holds)
    BY <1>1 DEF Foreseen
  <2>4. CASE Writes(c, o, j) /\ c.do = "copy"
    <3>1. c.src \in DOMAIN mem /\ j \in DOMAIN mem[c.src] /\ Reads(c, c.src, j)
      BY <2>3, <2>4 DEF Fits, Writes, Reads, Foreseen
    <3> QED
      BY <2>1, <2>2, <2>4, <3>1 DEF Result
  <2>5. CASE Writes(c, o, j) /\ c.do = "add"
    <3>1. Reads(c, o, j)
      BY <2>5 DEF Writes, Reads
    <3> QED
      BY <2>1, <2>2, <2>5, <3>1 DEF Result
  <2>6. CASE Writes(c, o, j) /\ c.do \notin {"copy", "add"}
    BY <2>1, <2>6 DEF Writes, Result
  <2> QED
    BY <2>1, <2>4, <2>5, <2>6
\* What some commands end with, they end with when it has completed.
<1>9. ASSUME NEW o \in DOMAIN mem, NEW j \in DOMAIN mem[o], NEW h,
             NEW W \in SUBSET WritersOf(o, j), EndsIn(v.finds, W, o, j, h),
             Writes(c, o, j) => y \in W,
             NEW U, U = {x \in Places' : Old(x) \in W}
      PROVE  EndsIn(v.finds, U, o, j, h)'
  <2>1. CASE U = {}
    <3>1. W \subseteq {y}
      BY <1>5, <1>9, <2>1 DEF WritersOf
    <3>2. CASE W = {}
      BY <1>8, <1>9, <2>1, <3>2 DEF EndsIn
    <3>3. CASE W = {y}
      <4>1. Writes(c, o, j) /\ ~Behind(y, y)
        BY <1>1, <1>6, <1>9, <3>3 DEF WritersOf
      <4>2. Result(v.finds, c, j) = h
        BY <1>1, <1>9, <3>3, <4>1 DEF EndsIn
      <4> QED
        BY <1>8, <2>1, <4>1, <4>2 DEF EndsIn
    <3> QED
      BY <3>1, <3>2, <3>3
  <2>2. CASE U # {}
    <3> SUFFICES ASSUME NEW x \in U
                 PROVE  \/ Result(v.finds, At(x)', j) = h
                        \/ \E z \in U : Behind(x, z)'
      BY <2>2 DEF EndsIn
    <3>1. x \in Places' /\ Old(x) \in W /\ At(x)' = At(Old(x)) /\ Old(x) \in Places
      BY <1>4, <1>9
    <3>2. \/ Result(v.finds, At(Old(x)), j) = h
          \/ \E z \in W : Behind(Old(x), z)
      BY <1>9, <3>1 DEF EndsIn
    <3>3. ASSUME NEW z \in W, Behind(Old(x), z)
          PROVE  \E u \in U : Behind(x, u)'
      <4>1. z \in Places \ {y}
        BY <1>6, <1>9, <3>1, <3>3 DEF WritersOf
      <4>2. PICK u \in Places' : Old(u) = z
        BY <1>5, <4>1
      <4> QED
        BY <1>7, <1>9, <3>1, <3>3, <4>2
    <3> QED
      BY <3>1, <3>2, <3>3
  <2> QED
    BY <2>1, <2>2
<1>10. ASSUME NEW o, NEW j
       PROVE  WritersOf(o, j)' = {x \in Places' : Old(x) \in WritersOf(o, j)}
  BY <1>4 DEF WritersOf
<1>11. ASSUME NEW x \in Places' PROVE Fits(At(x)', v.holds)
  BY <1>4 DEF Foreseen
<1>12. ASSUME NEW o \in DOMAIN mem', NEW j \in DOMAIN mem'[o]
       PROVE  EndsIn(v.finds, WritersOf(o, j), o, j, v.holds[o][j])'
  <2>1. o \in DOMAIN mem /\ j \in DOMAIN mem[o]
    BY EffectOnParts
  <2>2. Writes(c, o, j) => y \in WritersOf(o, j)
    BY <1>1 DEF WritersOf
  <2>3. EndsIn(v.finds, WritersOf(o, j), o, j, v.holds[o][j])
    BY <2>1 DEF Foreseen
  <2>4. WritersOf(o, j)' = {x \in Places' : Old(x) \in WritersOf(o, j)}
    BY <1>10
  <2> QED
    BY <1>8, <1>9, <2>1, <2>2, <2>3, <2>4 DEF Foreseen
<1>13. ASSUME NEW o \in DOMAIN mem', NEW j \in DOMAIN mem'[o], NEW z \in Places',
              Reads(At(z)', o, j)
       PROVE  ReadIsForeseen(v, z, o, j)'
  <2>1. o \in DOMAIN mem /\ j \in DOMAIN mem[o]
    BY EffectOnParts
  <2>2. Old(z) \in Places \ {y} /\ At(z)' = At(Old(z)) /\ Reads(At(Old(z)), o, j)
    BY <1>4, <1>13
  <2> PICK W : W = {x \in WritersOf(o, j) : Behind(x, Old(z))}
    OBVIOUS
  <2> PICK U : U = {x \in Places' : Old(x) \in W}
    OBVIOUS
  <2> PICK h : h = v.finds[At(Old(z))][j]
    OBVIOUS
  <2>3. /\ \A x \in WritersOf(o, j) \ {Old(z)} : Behind(x, Old(z)) \/ Behind(Old(z), x)
        /\ EndsIn(v.finds, W, o, j, h)
    BY <2>1, <2>2 DEF Foreseen, ReadIsForeseen
  <2>4. Writes(c, o, j) => y \in W
    <3> SUFFICES ASSUME Writes(c, o, j) PROVE Behind(y, Old(z)) /\ y \in WritersOf(o, j)
      OBVIOUS
    <3>1. y \in WritersOf(o, j) \ {Old(z)}
      BY <1>1, <2>2 DEF WritersOf
    <3> QED
      BY <1>6, <2>2, <2>3, <3>1
  <2>5. U = {x \in WritersOf(o, j) : Behind(x, z)}'
    BY <1>4, <1>7 DEF WritersOf
  <2>6. EndsIn(v.finds, U, o, j, h)'
    <3>1. W \in SUBSET WritersOf(o, j)
      OBVIOUS
    <3> QED
      BY <1>9, <2>1, <2>3, <2>4, <3>1
  <2>7. ASSUME NEW x \in WritersOf(o, j)' \ {z}
        PROVE  Behind(x, z)' \/ Behind(z, x)'
    <3>1. x \in Places' /\ Old(x) \in WritersOf(o, j)
      BY <1>10
    <3>2. Old(x) # Old(z)
      <4>1. x = <<x[1], x[2]>> /\ z = <<z[1], z[2]>> /\ x[2] \in Nat /\ z[2] \in Nat
        BY <1>4, <3>1, PlacesArePairs DEF PlacesHavePairs
      <4>2. x[1] # z[1] \/ x[2] # z[2]
        BY <4>1
      <4> QED
        BY <1>1, <4>1, <4>2 DEF Old, was
    <3> QED
      BY <1>7, <2>3, <3>1, <3>2
  <2>8. h = v.finds[At(z)'][j]
    BY <2>2
  <2> QED
    BY <2>5, <2>6, <2>7, <2>8 DEF ReadIsForeseen
<1>14. /\ DOMAIN mem' = DOMAIN v.holds
       /\ \A o \in DOMAIN mem' : DOMAIN mem'[o] = DOMAIN v.holds[o]
  BY EffectOnParts DEF Foreseen
<1> QED
  BY <1>11, <1>12, <1>13, <1>14 DEF Foreseen

\* A completed command has signaled its events, and answers those that wait for it.
LEMMA EnginesKeepAnswers ==
    ASSUME NEW v, UnderWay(v), SafeWait(v), SignaledInTheEnd(v), Answerable(v),
           NEW q \in DOMAIN pending, NEW i \in Ready(q),
           pending' = [pending EXCEPT ![q] = RemoveAt(@, i)],
           signaled' = (signaled \cup pending[q][i].signals) \ pending[q][i].resets
    PROVE  SignaledInTheEnd(v)' /\ Answerable(v)'
<1> DEFINE c == pending[q][i]
           y == <<q, i>>
           Old(x) == Before(q, i, x)
<1>1. i \in DOMAIN pending[q] /\ c \in AllSent(v) /\ y \in Places /\ At(y) = c
  BY UnderWayIsSent, PlacesArePairs DEF PlacesHavePairs, Ready, At
<1>2. ASSUME NEW d \in AllSent(v), NEW e \in c.resets
      PROVE  e \notin d.signals /\ e \notin d.waits
  BY <1>1 DEF SafeWait
<1>3. ASSUME NEW x \in Places'
      PROVE  Old(x) \in Places \ {y} /\ At(x)' = At(Old(x))
  BY <1>1, RemovedPlaces
<1>4. ASSUME NEW z \in Places \ {y}
      PROVE  \E x \in Places' : Old(x) = z
  BY <1>1, RemovedPlaces
<1>5. ASSUME NEW x \in Places
      PROVE  At(x) \in AllSent(v)
  BY UnderWayIsSent, PlacesArePairs DEF PlacesHavePairs, At
<1>6. SignaledInTheEnd(v)'
  <2> SUFFICES ASSUME NEW r \in DOMAIN v.sent, NEW d \in v.sent[r]
               PROVE  d.signals \subseteq signaled' \/ \E j \in DOMAIN pending'[r] : pending'[r][j] = d
    BY DEF SignaledInTheEnd
  <2>1. \A e \in c.resets : e \notin d.signals
    BY <1>2 DEF AllSent
  <2>2. CASE d.signals \subseteq signaled
    BY <2>1, <2>2
  <2>3. ASSUME NEW j \in DOMAIN pending[r], pending[r][j] = d, <<r, j>> # y
        PROVE  \E k \in DOMAIN pending'[r] : pending'[r][k] = d
    <3>1. <<r, j>> \in Places /\ At(<<r, j>>) = d
      BY <2>3, PlacesArePairs DEF PlacesHavePairs, UnderWay, At
    <3>2. PICK x \in Places' : Old(x) = <<r, j>>
      BY <1>4, <2>3, <3>1
    <3>3. x[1] = r /\ At(x)' = d
      BY <1>3, <3>1, <3>2 DEF Before
    <3> QED
      BY <3>3, PlacesArePairs DEF PlacesHavePairs, At
  <2>4. ASSUME NEW j \in DOMAIN pending[r], pending[r][j] = d, <<r, j>> = y
        PROVE  d.signals \subseteq signaled'
    BY <2>1, <2>4
  <2> QED
    BY <2>2, <2>3, <2>4 DEF SignaledInTheEnd
<1>7. Answerable(v)'
  <2> SUFFICES ASSUME NEW S \in SUBSET Places', S # {}
               PROVE  \E z \in S :
                        /\ \A x \in S : x[1] = z[1] => z[2] <= x[2]
                        /\ \A e \in At(z)'.waits :
                            \/ e \in signaled' \cup v.gates
                            \/ \E x \in Places' \ S : e \in At(x)'.signals
    BY DEF Answerable
  <2> DEFINE T == {Old(x) : x \in S}
  <2>1. T \in SUBSET Places /\ T # {}
    BY <1>3
  <2>2. PICK t \in T : /\ \A x \in T : x[1] = t[1] => t[2] <= x[2]
                       /\ \A e \in At(t).waits :
                            \/ e \in signaled \cup v.gates
                            \/ \E x \in Places \ T : e \in At(x).signals
    BY <2>1 DEF Answerable
  <2>3. PICK z \in S : Old(z) = t
    OBVIOUS
  <2>4. z \in Places' /\ At(z)' = At(t)
    BY <1>3, <2>3
  <2>5. ASSUME NEW x \in S, x[1] = z[1]
        PROVE  z[2] <= x[2]
    <3>1. Old(x) \in T /\ x \in Places' /\ Old(x)[1] = t[1]
      BY <2>3, <2>5 DEF Before
    <3>2. Old(z)[2] <= Old(x)[2]
      BY <2>2, <2>3, <3>1
    <3> QED
      BY <1>1, <2>4, <2>5, <3>1, <3>2, RemovedPlaces
  <2>6. ASSUME NEW e \in At(z)'.waits
        PROVE  \/ e \in signaled' \cup v.gates
               \/ \E x \in Places' \ S : e \in At(x)'.signals
    <3>1. e \in At(t).waits /\ e \notin c.resets
      BY <1>2, <1>5, <2>1, <2>4
    <3>2. ASSUME NEW x \in Places \ T, e \in At(x).signals
          PROVE  e \in signaled' \/ \E u \in Places' \ S : e \in At(u)'.signals
      <4>1. CASE x = y
        BY <1>1, <3>1, <3>2, <4>1
      <4>2. CASE x # y
        <5>1. PICK u \in Places' : Old(u) = x
          BY <1>4, <4>2
        <5>2. u \notin S /\ At(u)' = At(x)
          BY <1>3, <5>1
        <5> QED
          BY <3>2, <5>1, <5>2
      <4> QED
        BY <4>1, <4>2
    <3> HIDE DEF T
    <3> QED
      BY <2>2, <3>1, <3>2
  <2> QED
    BY <2>5, <2>6
<1> QED
  BY <1>6, <1>7

LEMMA EnginesKeepInvariant ==
    ASSUME NEW v, Represents(v), SafeWait(v), NEW q \in DOMAIN pending, Complete(q)
    PROVE  Represents(v)'
<1> PICK i \in Ready(q) :
        LET c == pending[q][i]
        IN  /\ pending' = [pending EXCEPT ![q] = RemoveAt(@, i)]
            /\ mem' = Effect(mem, c)
            /\ signaled' = (signaled \cup c.signals) \ c.resets
            /\ timer' = Counted(c)
            /\ UNCHANGED <<todo, started, lost, lists, mail>>
  BY DEF Complete
<1> DEFINE c == pending[q][i]
           was(r, j) == IF r # q \/ j < i THEN j ELSE j + 1
<1>1. i \in DOMAIN pending[q] /\ pending[q] \in Seq(v.sent[q]) /\ q \in DOMAIN v.sent
  BY DEF Ready, Represents, UnderWay
<1>2. c \in v.sent[q]
  BY <1>1
<1>3. /\ RemoveAt(pending[q], i) \in Seq(v.sent[q])
      /\ \A j \in DOMAIN RemoveAt(pending[q], i) :
            /\ was(q, j) \in DOMAIN pending[q] \ {i}
            /\ RemoveAt(pending[q], i)[j] = pending[q][was(q, j)]
  BY <1>1, Removed
<1>4. ASSUME NEW r \in DOMAIN pending', NEW j \in DOMAIN pending'[r]
      PROVE  /\ r \in DOMAIN pending /\ was(r, j) \in DOMAIN pending[r]
             /\ <<r, was(r, j)>> # <<q, i>>
             /\ pending'[r][j] = pending[r][was(r, j)]
  <2>1. CASE r = q
    BY <2>1, <1>3, <1>4
  <2>2. CASE r # q
    BY <2>2, <1>4
  <2> QED
    BY <2>1, <2>2
<1>5. Typed' /\ Exact(v)'
  <2>1. DOMAIN mem' = DOMAIN mem /\ mem' = [x \in DOMAIN mem' |-> mem'[x]]
    BY DEF Effect, Represents, Typed
  <2> QED
    BY <2>1 DEF Represents, Typed, Exact
<1>6. UnderWay(v)'
  BY <1>1, <1>3 DEF Represents, UnderWay
<1>7. Provided(v)'
  BY DEF Represents, Provided
<1>8. SignaledBetween(v)'
  BY <1>1, <1>2 DEF Represents, Provided, SignaledBetween
<1>9. SignalsToCome'
  <2> SUFFICES ASSUME NEW r \in DOMAIN pending', NEW j \in DOMAIN pending'[r]
               PROVE  pending'[r][j].signals \cap signaled' = {}
    BY DEF SignalsToCome
  <2>1. pending[r][was(r, j)].signals \cap signaled = {}
    BY <1>4 DEF Represents, SignalsToCome
  <2>2. pending[r][was(r, j)].signals \cap c.signals = {}
    BY <1>1, <1>4 DEF Represents, SignalsAreUnique
  <2> QED
    BY <1>4, <2>1, <2>2
<1>10. SignalsAreUnique'
  <2> SUFFICES ASSUME NEW r \in DOMAIN pending', NEW s \in DOMAIN pending',
                      NEW j \in DOMAIN pending'[r], NEW k \in DOMAIN pending'[s],
                      <<r, j>> # <<s, k>>
               PROVE  pending'[r][j].signals \cap pending'[s][k].signals = {}
    BY DEF SignalsAreUnique
  <2>1. <<r, was(r, j)>> # <<s, was(s, k)>>
    <3>1. CASE r # s
      BY <3>1
    <3>2. CASE r = s /\ r # q
      BY <3>2
    <3>3. CASE r = s /\ r = q
      <4>1. j \in Nat /\ k \in Nat /\ i \in Nat /\ j # k
        BY <1>1, <1>3, <3>3
      <4> QED
        BY <3>3, <4>1
    <3> QED
      BY <3>1, <3>2, <3>3
  <2> QED
    BY <1>4, <2>1 DEF Represents, SignalsAreUnique
<1>11. Still(v)'
  BY NothingBegins DEF Still
<1>12. Timed(v)'
  <2> DEFINE w == c.work
             left == Cardinality(UnitsIn(pending))
  <2>1. w \in Nat
    BY <1>1, <1>2 DEF Represents, Provided
  <2>2. /\ IsFiniteSet(UnitsIn(pending')) /\ left = Cardinality(UnitsIn(pending')) + w
        /\ Cardinality(UnitsIn(pending')) \in Nat
    <3>1. /\ IsFiniteSet(UnitsIn([pending EXCEPT ![q] = RemoveAt(@, i)]))
          /\ left = Cardinality(UnitsIn([pending EXCEPT ![q] = RemoveAt(@, i)])) + w
      BY <1>1, <2>1, WorkIsRemoved DEF Represents, Timed
    <3> QED
      BY <3>1, FS_CardinalityType
  <2>3. /\ timer \in [on : BOOLEAN, done : Nat] /\ timer.on = v.on
        /\ v.count = timer.done + (IF v.on THEN left ELSE 0)
    BY DEF Represents, Timed
  <2>4. timer' = [on |-> timer.on, done |-> IF timer.on THEN timer.done + w ELSE timer.done]
    BY <2>3 DEF Counted
  <2> HIDE DEF w, left
  <2>5. /\ timer' \in [on : BOOLEAN, done : Nat] /\ timer'.on = v.on
        /\ timer'.done = IF v.on THEN timer.done + w ELSE timer.done
    BY <2>1, <2>3, <2>4
  <2>6. v.count = timer'.done + (IF v.on THEN Cardinality(UnitsIn(pending')) ELSE 0)
    BY <2>1, <2>2, <2>3, <2>5
  <2> QED
    BY <2>2, <2>5, <2>6 DEF Timed
<1>13. Foreseen(v)'
  BY EnginesKeepForeseen DEF Represents
<1>14. SignaledInTheEnd(v)' /\ Answerable(v)'
  BY EnginesKeepAnswers DEF Represents
<1> QED
  BY <1>5, <1>6, <1>7, <1>8, <1>9, <1>10, <1>11, <1>12, <1>13, <1>14 DEF Represents

-----------------------------------------------------------------------------
(* The invariant is inductive.                                             *)

LEMMA FirstViewRepresents ==
    ASSUME NEW program \in DOMAIN Programs, Init, todo = Programs[program]
    PROVE  Represents(FirstView(Programs[program]))
<1> DEFINE v == FirstView(Programs[program])
<1>1. Typed /\ Exact(v)
  BY DEF Init, Typed, Exact, FirstView
<1>2. UnderWay(v) /\ Provided(v)
  BY DEF Init, UnderWay, Provided, FirstView
<1>3. SignaledBetween(v) /\ SignalsToCome /\ SignalsAreUnique
  BY DEF Init, SignaledBetween, SignalsToCome, SignalsAreUnique, FirstView
<1>4. Still(v) /\ v.on = FALSE /\ v.count = 0
  BY DEF Init, Still, CanBegin, FirstView
<1>5. IsFiniteSet(UnitsIn(pending)) /\ Cardinality(UnitsIn(pending)) = 0
  BY NoWorkIsLeft DEF Init
<1>6. Timed(v)
  <2>1. timer = [on |-> FALSE, done |-> 0]
    BY DEF Init
  <2>2. timer \in [on : BOOLEAN, done : Nat] /\ timer.on = v.on /\ timer.done = 0
    BY <1>4, <2>1
  <2>3. v.count = timer.done + (IF v.on THEN Cardinality(UnitsIn(pending)) ELSE 0)
    BY <1>4, <2>2
  <2> QED
    BY <1>5, <2>2, <2>3 DEF Timed
<1>7. Foreseen(v)
  <2>1. Places = {} /\ DOMAIN mem = {} /\ DOMAIN v.holds = {}
    BY DEF Init, Places, FirstView
  <2> QED
    BY <2>1 DEF Foreseen
<1>8. SignaledInTheEnd(v) /\ Answerable(v)
  BY DEF Init, SignaledInTheEnd, Answerable, Places, FirstView
<1> QED
  BY <1>1, <1>2, <1>3, <1>4, <1>6, <1>7, <1>8 DEF Represents

LEMMA CallsKeepInvariant ==
    ASSUME NEW views, ClosedViews(views), NEW v \in views, Represents(v),
           NEW p \in Processes, HostStep(p)
    PROVE  ViewAfter(v, p) \in views /\ Represents(ViewAfter(v, p))'
<1> DEFINE c == NextCall(v, p)
<1>1. /\ Typed /\ Exact(v) /\ UnderWay(v) /\ Provided(v) /\ SignaledBetween(v)
      /\ SignalsToCome /\ SignalsAreUnique /\ SignaledInTheEnd(v) /\ Answerable(v)
      /\ Still(v) /\ Timed(v) /\ Foreseen(v)
  BY DEF Represents
<1>2. CallEffect(v, p)
  BY <1>1, CallsHaveEffects DEF Exact, Typed
<1>3. HasCall(v, p) /\ MayCall(v, p) /\ p \in DOMAIN v.todo
  BY <1>1, <1>2, CallsAreExpected DEF Exact, Processes
<1>4. /\ SafeSubmit(v, c) /\ SafeDestroy(v, c) /\ SafeAccess(v, c)
      /\ SafeEvent(v, c) /\ SafeTimer(v, c) /\ SafeData(v, c)
  BY <1>3 DEF ClosedViews, SafeView
<1>5. ViewAfter(v, p) \in views
  BY <1>3 DEF ClosedViews
<1>6. Typed' /\ Exact(ViewAfter(v, p))'
  BY <1>1, <1>2, CallsKeepTypes, ViewStaysExact DEF Exact
<1>7. UnderWay(ViewAfter(v, p))'
  BY <1>1, <1>2, <1>4, CallsKeepUnderWay
<1>8. Provided(ViewAfter(v, p))'
  <2>1. Provided(ViewAfter(v, p))
    BY <1>1, <1>4, CallsKeepProvided
  <2> QED
    BY <2>1 DEF Provided
<1>9. SignaledBetween(ViewAfter(v, p))'
  BY <1>1, <1>2, CallsKeepSignaledBetween
<1>10. SignalsToCome' /\ SignalsAreUnique'
  BY <1>1, <1>2, <1>4, CallsKeepSignals
<1>11. Still(ViewAfter(v, p))'
  BY <1>1, <1>2, <1>4, CallsKeepStill
<1>12. Timed(ViewAfter(v, p))'
  BY <1>1, <1>2, <1>4, CallsKeepTimed
<1>13. Foreseen(ViewAfter(v, p))'
  BY <1>1, <1>2, <1>4, CallsKeepForeseen
<1>14. SignaledInTheEnd(ViewAfter(v, p))' /\ Answerable(ViewAfter(v, p))'
  <2>1. CASE c.op \in {"execute", "submit"}
    BY <1>1, <1>2, <1>4, <1>7, <2>1, SubmitsKeepAnswers
  <2>2. CASE c.op \notin {"execute", "submit"}
    BY <1>1, <1>2, <1>4, <1>7, <2>2, OthersKeepAnswers
  <2> QED
    BY <2>1, <2>2
<1> QED
  BY <1>5, <1>6, <1>7, <1>8, <1>9, <1>10, <1>11, <1>12, <1>13, <1>14 DEF Represents

\* A program that keeps the discipline is, whatever the engines do, where one of
\* its views says: at the call the view expects, with the lists, objects and
\* handles of the view, and with nothing under way, and no event signaled, that
\* the view rules out.
THEOREM ViewsAreRight ==
    ASSUME ProgramsAreDisciplined
    PROVE  Spec => []IInv
<1>1. Init => IInv
  <2> SUFFICES ASSUME Init PROVE IInv
    OBVIOUS
  <2>1. PICK program \in DOMAIN Programs : todo = Programs[program]
    BY DEF Init
  <2>2. PICK views : Covers(views, Programs[program])
    BY DEF ProgramsAreDisciplined, Disciplined
  <2> QED
    BY <2>1, <2>2, FirstViewRepresents DEF IInv, Covers
<1>2. IInv /\ [Next]_vars => IInv'
  <2> SUFFICES ASSUME IInv, [Next]_vars PROVE IInv'
    OBVIOUS
  <2>1. PICK views : ClosedViews(views) /\ \E v \in views : Represents(v)
    BY DEF IInv
  <2>2. PICK v \in views : Represents(v)
    BY <2>1
  <2>3. CASE Host
    <3>1. PICK p \in Processes : HostStep(p)
      BY <2>3 DEF Host
    <3> QED
      BY <2>1, <2>2, <3>1, CallsKeepInvariant DEF IInv
  <2>4. CASE Engine
    <3>1. PICK q \in DOMAIN pending : Complete(q)
      BY <2>4 DEF Engine
    <3> QED
      BY <2>1, <2>2, <3>1, EnginesKeepInvariant DEF IInv, ClosedViews, SafeView
  <2>5. CASE UNCHANGED vars
    <3>1. Represents(v) /\ UNCHANGED <<todo, started, mem, lost, lists, pending, signaled, timer, mail>>
      BY <2>2, <2>5 DEF vars
    <3>2. /\ Typed' /\ Exact(v)' /\ UnderWay(v)' /\ Provided(v)' /\ SignaledBetween(v)'
          /\ SignalsToCome' /\ SignalsAreUnique' /\ Still(v)' /\ Timed(v)'
      BY <3>1 DEF Represents, Typed, Exact, UnderWay, Provided, SignaledBetween,
                  SignalsToCome, SignalsAreUnique, Still, Timed
    <3>3. /\ PlacesStay /\ \A x \in Places : Fits(At(x), v.holds)
          /\ DOMAIN mem' = DOMAIN v.holds
          /\ \A o \in DOMAIN mem' : DOMAIN mem'[o] = DOMAIN v.holds[o]
      BY <3>1 DEF Represents, Foreseen, PlacesStay, Places, At, Behind
    <3>4. Foreseen(v)'
      BY <3>1, <3>3, HostKeepsForeseen DEF Represents
    <3>5. SignaledInTheEnd(v)' /\ Answerable(v)'
      BY <3>1 DEF Represents, SignaledInTheEnd, Answerable, Places, At
    <3>6. Represents(v)'
      BY <3>2, <3>4, <3>5 DEF Represents
    <3> QED
      BY <2>1, <3>6 DEF IInv
  <2> QED
    BY <2>3, <2>4, <2>5 DEF Next
<1> QED
  BY <1>1, <1>2, PTL DEF Spec

-----------------------------------------------------------------------------
(* What a safe view means for the system it represents.                    *)

LEMMA SubmittedIsSent ==
    ASSUME NEW v, UnderWay(v)
    PROVE  Submitted \subseteq AllSent(v)
  BY UnderWayIsSent DEF Submitted, ToSet

LEMMA CallsAreSafe ==
    ASSUME NEW v, Exact(v), SafeView(v), NEW op, NEW p \in About(op)
    PROVE  LET c == Current(p)
           IN  /\ c.op = op /\ SafeSubmit(v, c) /\ SafeList(v, c)
               /\ SafeAccess(v, c) /\ SafeEvent(v, c) /\ SafeTimer(v, c) /\ SafeData(v, c)
  BY DEF About, Calls, Current, Exact, SafeView, HasCall, NextCall, Processes

LEMMA SafeViewsAreSafe ==
    ASSUME IInv
    PROVE  \E v : SafeView(v) /\ Represents(v)
  BY DEF IInv, ClosedViews

-----------------------------------------------------------------------------
(* The properties of LevelZero.                                            *)

\* Benchmarks free their buffers, events, lists and queues right after they have
\* measured.  Whatever the engines have left to do then, none of it needs what is
\* freed.
THEOREM UsedObjectsAreAlive ==
    ASSUME ProgramsAreDisciplined
    PROVE  Spec => []NothingInUseIsDestroyed
<1>1. IInv => NothingInUseIsDestroyed
  <2> SUFFICES ASSUME IInv, NEW q \in DOMAIN pending, NEW c \in ToSet(pending[q])
               PROVE  Needs(c, q) \subseteq DOMAIN mem
    BY DEF NothingInUseIsDestroyed, Needs
  <2>1. PICK v : Represents(v)
    BY SafeViewsAreSafe
  <2>2. c \in v.sent[q] /\ q \in DOMAIN v.sent
    BY <2>1, UnderWayIsSent DEF Represents, UnderWay, ToSet
  <2> QED
    BY <2>1, <2>2 DEF Represents, Provided, Exact
<1> QED
  BY <1>1, ViewsAreRight, PTL

\* All phases of a benchmark share the lists of an engine.  A list is appended to
\* while it is open, executed when it is closed, and neither these nor its reset
\* finds commands of it under way.
THEOREM ListsTakeTurns ==
    ASSUME ProgramsAreDisciplined
    PROVE  Spec => []ListsAreUsedInTurn
<1>1. IInv => ListsAreUsedInTurn
  <2> SUFFICES ASSUME IInv PROVE ListsAreUsedInTurn
    OBVIOUS
  <2>1. PICK v : SafeView(v) /\ Represents(v)
    BY SafeViewsAreSafe
  <2>2. Exact(v) /\ lists = v.lists
    BY <2>1 DEF Represents, Exact
  <2>3. ASSUME NEW l, SentOf(v, l) = {}
        PROVE  ~InFlight(l)
    BY <2>1, <2>3, SubmittedIsSent DEF Represents, InFlight, SentOf
  <2>4. ASSUME NEW p \in About("append")
        PROVE  ~lists[Current(p).object].closed /\ ~InFlight(Current(p).object)
    BY <2>1, <2>2, <2>3, CallsAreSafe DEF SafeList
  <2>5. ASSUME NEW p \in About("execute")
        PROVE  lists[Current(p).list].closed /\ ~InFlight(Current(p).list)
    BY <2>1, <2>2, <2>3, CallsAreSafe DEF SafeSubmit
  <2>6. ASSUME NEW p \in About("resetList")
        PROVE  ~InFlight(Current(p).object)
    BY <2>1, <2>2, <2>3, CallsAreSafe DEF SafeList
  <2> QED
    BY <2>4, <2>5, <2>6 DEF ListsAreUsedInTurn
<1> QED
  BY <1>1, ViewsAreRight, PTL

\* One event gates, or times, every iteration of a benchmark.  When it is reset, no
\* command is yet to signal it, and none it has released has yet to start; when
\* its time stamps are read it is signaled for good.
THEOREM EventsAreIdleWhenReset ==
    ASSUME ProgramsAreDisciplined
    PROVE  Spec => []EventsAreResetIdle
<1>1. IInv => EventsAreResetIdle
  <2> SUFFICES ASSUME IInv PROVE EventsAreResetIdle
    OBVIOUS
  <2>1. PICK v : SafeView(v) /\ Represents(v)
    BY SafeViewsAreSafe
  <2>2. Exact(v) /\ Submitted \subseteq AllSent(v) /\ SignaledBetween(v)
    BY <2>1, SubmittedIsSent DEF Represents
  <2>3. ASSUME NEW e, e \notin SignaledBy(AllSent(v)), NEW c \in Submitted
        PROVE  e \notin c.signals
    BY <2>2, <2>3 DEF SignaledBy
  <2>4. ASSUME NEW p \in About("reset"), NEW c \in Submitted
        PROVE  /\ Current(p).object \notin c.signals
               /\ Current(p).object \notin c.waits \cap signaled
    <3>1. SafeEvent(v, Current(p)) /\ Current(p).op = "reset"
      BY <2>1, <2>2, CallsAreSafe
    <3> QED
      BY <2>2, <2>3, <3>1 DEF SafeEvent, SignaledBetween
  <2>5. ASSUME NEW p \in About("query")
        PROVE  /\ Current(p).object \in signaled
               /\ \A c \in Submitted : Current(p).object \notin c.signals
    <3>1. SafeEvent(v, Current(p)) /\ Current(p).op = "query"
      BY <2>1, <2>2, CallsAreSafe
    <3> QED
      BY <2>2, <2>3, <3>1 DEF SafeEvent, SignaledBetween
  <2> QED
    BY <2>4, <2>5 DEF EventsAreResetIdle
<1> QED
  BY <1>1, ViewsAreRight, PTL

\* The host fills, zeroes and compares its buffers between the copies.  No command
\* that uses them is under way then.
THEOREM HostHasMemoryAlone ==
    ASSUME ProgramsAreDisciplined
    PROVE  Spec => []HostAccessIsAlone
<1>1. IInv => HostAccessIsAlone
  <2> SUFFICES ASSUME IInv, NEW c \in Submitted
               PROVE  /\ \A p \in About("touch") :
                            Current(p).command.touches \cap c.touches = {}
                      /\ \A p \in About("expect") : Current(p).object \notin c.touches
    BY DEF HostAccessIsAlone
  <2>1. PICK v : SafeView(v) /\ Represents(v)
    BY SafeViewsAreSafe
  <2>2. Exact(v) /\ c \in AllSent(v)
    BY <2>1, SubmittedIsSent DEF Represents
  <2> QED
    BY <2>1, <2>2, CallsAreSafe DEF SafeAccess
<1> QED
  BY <1>1, ViewsAreRight, PTL

\* A benchmark divides an amount of work by the time it took.  What was completed
\* while the timer ran is that amount: neither more, left from a warm-up or done
\* twice, nor less, still under way when the timer stopped.
THEOREM MeasurementsAreExact ==
    ASSUME ProgramsAreDisciplined
    PROVE  Spec => []MeasuresItsOwnWork
<1>1. IInv => MeasuresItsOwnWork
  <2> SUFFICES ASSUME IInv, NEW p \in About("report")
               PROVE  timer.done = Current(p).work
    BY DEF MeasuresItsOwnWork
  <2>1. PICK v : SafeView(v) /\ Represents(v)
    BY SafeViewsAreSafe
  <2>2. Exact(v) /\ timer.done \in Nat /\ v.count = timer.done + (IF v.on THEN
            Cardinality(UnitsIn(pending)) ELSE 0)
    BY <2>1 DEF Represents, Timed
  <2>3. ~v.on /\ v.count = Current(p).work
    BY <2>1, <2>2, CallsAreSafe DEF SafeTimer
  <2> QED
    BY <2>2, <2>3
<1> QED
  BY <1>1, ViewsAreRight, PTL

\* Benchmarks compare at the end what copies and kernels have left with what they
\* wrote at the beginning (validate_buffer, verify_result and the comparisons of
\* images).  In whatever order the engines ran the commands that nothing orders,
\* the comparison finds it.
THEOREM ValidationsSucceed ==
    ASSUME ProgramsAreDisciplined
    PROVE  Spec => []ValidationFindsTheData
<1>1. IInv => ValidationFindsTheData
  <2> SUFFICES ASSUME IInv, NEW p \in About("expect"), NEW i \in DOMAIN mem[Current(p).object]
               PROVE  mem[Current(p).object][i] = Current(p).value
    BY DEF ValidationFindsTheData
  <2> DEFINE o == Current(p).object
  <2>1. PICK v : SafeView(v) /\ Represents(v)
    BY SafeViewsAreSafe
  <2>2. UnderWay(v) /\ Foreseen(v) /\ Exact(v)
    BY <2>1 DEF Represents
  <2>3. /\ Current(p).op = "expect" /\ SafeAccess(v, Current(p)) /\ SafeData(v, Current(p))
    BY <2>1, <2>2, CallsAreSafe
  <2>4. \A d \in AllSent(v) : o \notin d.touches
    BY <2>3 DEF SafeAccess
  <2>5. o \in DOMAIN mem /\ i \in DOMAIN v.holds[o] /\ v.holds[o][i] = Current(p).value
    BY <2>2, <2>3 DEF SafeData, Foreseen
  <2>6. mem[o][i] = v.holds[o][i]
    BY <2>2, <2>4, <2>5, UntouchedIsUnused, UnusedIsSettled
  <2> QED
    BY <2>5, <2>6
<1> QED
  BY <1>1, ViewsAreRight, PTL

\* Server and client of ze_peer --ipc share a socket for all sizes.  A handle that
\* the client receives is that of the buffer of its own exchange.
THEOREM HandlesAreCurrent ==
    ASSUME ProgramsAreDisciplined
    PROVE  Spec => []HandleIsCurrent
<1>1. IInv => HandleIsCurrent
  BY SafeViewsAreSafe DEF Represents, Exact, SafeView, HandleIsCurrent
<1> QED
  BY <1>1, ViewsAreRight, PTL

\* A benchmark that has ended has freed what it created, and has overwritten no
\* handle of anything alive.
THEOREM ProgramsLeakNothing ==
    ASSUME ProgramsAreDisciplined
    PROVE  Spec => []NothingLeaks
<1>1. IInv => NothingLeaks
  <2> SUFFICES ASSUME IInv, \A p \in started : Ended(p)
               PROVE  mem = <<>> /\ lost = {}
    BY DEF NothingLeaks
  <2>1. PICK v : SafeView(v) /\ Represents(v)
    BY SafeViewsAreSafe
  <2>2. DOMAIN mem = {} /\ lost = {}
    BY <2>1 DEF Represents, Exact, Ended, SafeView, SafeEnd
  <2> QED
    BY <2>1, <2>2 DEF Represents, Typed
<1> QED
  BY <1>1, ViewsAreRight, PTL

\* Commands under way that wait for no signal of the host do not wait for each other:
\* one of them may take effect.
LEMMA SomethingIsReady ==
    ASSUME NEW v, UnderWay(v), Answerable(v), v.gates = {}, NEW x \in Places
    PROVE  \E q \in DOMAIN pending : Ready(q) # {}
<1>1. PICK y \in Places : /\ \A z \in Places : z[1] = y[1] => y[2] <= z[2]
                          /\ At(y).waits \subseteq signaled
  BY DEF Answerable
<1>2. /\ y[1] \in DOMAIN pending /\ y[2] \in DOMAIN pending[y[1]]
      /\ pending[y[1]] \in Seq(v.sent[y[1]])
  BY PlacesArePairs DEF PlacesHavePairs, UnderWay
<1>3. 1 \in DOMAIN pending[y[1]] /\ y[2] \in Nat \ {0}
  BY <1>2
<1>4. y[2] = 1
  <2>1. <<y[1], 1>> \in Places
    BY <1>2, <1>3, PlacesArePairs DEF PlacesHavePairs
  <2> QED
    BY <1>1, <1>3, <2>1
<1>5. 1 \in Ready(y[1])
  BY <1>1, <1>3, <1>4 DEF Ready, At
<1> QED
  BY <1>2, <1>5

\* The host waits for engines, its commands for events, and one process for another.
\* No benchmark comes to where all wait for each other: until its processes have
\* ended one of them can make its call, or an engine has a command to run.
THEOREM ProgramsNeverStall ==
    ASSUME ProgramsAreDisciplined
    PROVE  Spec => []NothingStalls
<1>1. IInv => NothingStalls
  <2> SUFFICES ASSUME IInv PROVE NothingStalls
    OBVIOUS
  <2>1. PICK v : SafeView(v) /\ Represents(v)
    BY SafeViewsAreSafe
  <2>2. /\ Exact(v) /\ UnderWay(v) /\ SignaledBetween(v) /\ SignaledInTheEnd(v)
        /\ Answerable(v) /\ SafeWait(v)
    BY <2>1 DEF Represents, SafeView
  <2>3. CASE \A p \in DOMAIN v.todo : v.todo[p] = <<>>
    BY <2>2, <2>3 DEF Exact, NothingStalls, Processes, Ended
  <2>4. ASSUME NEW p \in DOMAIN v.todo, MayCall(v, p), IsAnswered(v, NextCall(v, p))
        PROVE  NothingStalls
    <3> DEFINE c == NextCall(v, p)
    <3>1. /\ p \in Processes /\ Calls(p) /\ c = Current(p)
          /\ c.op = "wait" => Ended(c.child)
          /\ c.op = "receive" => mail.box # <<>>
      BY <2>2, <2>4 DEF Exact, MayCall, HasCall, NextCall, Processes, Calls, Current, Ended
    <3>2. c.op = "await" /\ c.object \in v.must => c.object \in signaled
      BY <2>2 DEF SignaledBetween
    <3>3. c.op = "await" /\ c.object \in SignaledBy(AllSent(v)) =>
              c.object \in signaled \/ Places # {}
      <4> SUFFICES ASSUME NEW q \in DOMAIN v.sent, NEW d \in v.sent[q], c.object \in d.signals
                   PROVE  c.object \in signaled \/ Places # {}
        BY DEF SignaledBy, AllSent
      <4>1. ASSUME NEW i \in DOMAIN pending[q]
            PROVE  Places # {}
        BY <2>2, PlacesArePairs DEF UnderWay, PlacesHavePairs
      <4> QED
        BY <2>2, <4>1 DEF SignaledInTheEnd
    <3>4. ASSUME Places = {}, c.op = "synchronize", c.object \in DOMAIN v.sent
          PROVE  pending[c.object] = <<>>
      <4>1. c.object \in DOMAIN pending
        BY <2>2, <3>4 DEF UnderWay
      <4>2. \A i \in DOMAIN pending[c.object] : FALSE
        BY <3>4, <4>1, PlacesArePairs DEF PlacesHavePairs
      <4>3. pending[c.object] \in Seq(v.sent[c.object])
        BY <2>2, <4>1 DEF UnderWay
      <4> HIDE DEF c
      <4>4. 1 \notin DOMAIN pending[c.object]
        BY <4>2
      <4> QED
        BY <4>3, <4>4
    <3>5. MayGoOn(p) \/ (v.gates = {} /\ Places # {})
      BY <2>4, <3>1, <3>2, <3>3, <3>4 DEF IsAnswered, MayGoOn
    <3> QED
      BY <2>2, <3>1, <3>5, SomethingIsReady DEF NothingStalls
  <2> QED
    BY <2>2, <2>3, <2>4 DEF SafeWait
<1> QED
  BY <1>1, ViewsAreRight, PTL
================================================================================
