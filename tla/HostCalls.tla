------------------------------ MODULE HostCalls -------------------------------
(***************************************************************************)
(* The calls a benchmark of perf_tests makes, as data.                     *)
(*                                                                         *)
(* The benchmarks are straight-line code once their options are known: the *)
(* host walks through a sequence of Level Zero calls and all the           *)
(* concurrency is between the host and the engines that run what it has    *)
(* submitted.  So a function of a benchmark is an operator that returns    *)
(* the sequence of calls it makes, and LevelZero executes the sequence.    *)
(* Most calls go through ZeApp (perf_tests/common/src/ze_app.cpp), whose   *)
(* functions only fill in a descriptor and end the program on an error.    *)
(*                                                                         *)
(* Objects (memory, lists, queues, events) are named by tuples.  Memory is *)
(* a sequence of parts; a copy moves some of them.                         *)
(***************************************************************************)
EXTENDS Integers, Sequences, SequencesExt

Nil == <<"nil">>

\* f with the value a at k, which may be new to it.
Put(f, k, a) == [x \in DOMAIN f \cup {k} |-> IF x = k THEN a ELSE f[x]]

\* What a part of fresh memory holds, and what the host fills a source with.
Junk == -1
Data == 7

-----------------------------------------------------------------------------
(* Commands.  `work` is what the command counts for in a measurement; a    *)
(* command that is `ordered` starts after everything submitted to its      *)
(* queue before it has ended, and nothing after it starts earlier.         *)

NoEffect == [do |-> "nothing", dst |-> Nil, src |-> Nil, parts |-> {}, by |-> 0,
             touches |-> {}, waits |-> {}, signals |-> {}, resets |-> {},
             ordered |-> FALSE, work |-> 0, list |-> Nil]

Copy(dst, src, parts) ==
    [NoEffect EXCEPT !.do = "copy", !.dst = dst, !.src = src, !.parts = parts,
                     !.touches = {dst, src}, !.work = Cardinality(parts)]

\* A kernel whose result nothing looks at.
Kernel(buffers) == [NoEffect EXCEPT !.touches = buffers, !.work = 1]

\* A kernel, or the host, that adds to the memory or sets it.
Add(buffer, n) == [NoEffect EXCEPT !.do = "add", !.dst = buffer, !.by = n,
                                   !.touches = {buffer}, !.work = 1]
Fill(buffer, v) == [NoEffect EXCEPT !.do = "fill", !.dst = buffer, !.by = v,
                                    !.touches = {buffer}]

Barrier == [NoEffect EXCEPT !.ordered = TRUE]
InOrder(c) == [c EXCEPT !.ordered = TRUE]
WaitsFor(e, c) == [c EXCEPT !.waits = {e}]
Signals(e, c) == [c EXCEPT !.signals = {e}]
ResetsEvent(e) == [NoEffect EXCEPT !.resets = {e}]

\* What the memory is once a command has had its effect.
Effect(contents, c) ==
    LET Write(F(_)) ==
            [contents EXCEPT ![c.dst] = [i \in DOMAIN @ |-> F(i)]]
    IN  IF c.do = "copy"
        THEN Write(LAMBDA i : IF i \in c.parts THEN contents[c.src][i] ELSE contents[c.dst][i])
        ELSE IF c.do = "add" THEN Write(LAMBDA i : contents[c.dst][i] + c.by)
        ELSE IF c.do = "fill" THEN Write(LAMBDA i : c.by)
        ELSE contents

-----------------------------------------------------------------------------
(* Calls.  Each operator is the sequence of the one call it names.         *)

Call(op, object) == [op |-> op, object |-> object]

Create(o, contents) == <<Call("create", o) @@ [contents |-> contents]>>
memoryAlloc(o, parts) == Create(o, [i \in 1..parts |-> Junk])
Destroy(o) == <<Call("destroy", o)>>

commandListCreate(l) == <<Call("createList", l)>>
commandQueueCreate(q) == <<Call("createQueue", q)>>
\* An immediate list is its own queue.
immediateCommandListCreate(l) == commandQueueCreate(l)

commandListAppend(l, c) ==
    <<Call("append", l) @@ [command |-> [c EXCEPT !.list = l]]>>
commandListClose(l) == <<Call("close", l)>>
commandListReset(l) == <<Call("resetList", l)>>

\* Appending to an immediate list submits the command at once.
appendImmediate(l, c) ==
    <<Call("submit", l) @@ [command |-> [c EXCEPT !.list = l]]>>
\* The immediate lists ZeApp creates on a queue are in order.
appendInOrder(l, c) == appendImmediate(l, InOrder(c))

commandQueueExecuteCommandList(q, l) == <<Call("execute", q) @@ [list |-> l]>>
\* Waits until a queue, or an immediate list, has nothing left to do.
commandQueueSynchronize(q) == <<Call("synchronize", q)>>

hostEventSignal(e) == <<Call("signal", e)>>
hostEventReset(e) == <<Call("reset", e)>>
hostSynchronize(e) == <<Call("await", e)>>
queryTimestamp(e) == <<Call("query", e)>>

\* The host touches memory itself, or compares it with a value.
hostDo(c) == <<Call("touch", c.dst) @@ [command |-> c]>>
hostExpect(b, v) == <<Call("expect", b) @@ [value |-> v]>>

\* Timer::start and Timer::end; a timer started again adds to the time it took
\* before.  A result is computed from the time and an amount of work.
timerStart == <<Call("start", Nil) @@ [fresh |-> TRUE]>>
timerResume == <<Call("start", Nil) @@ [fresh |-> FALSE]>>
timerStop == <<Call("stop", Nil)>>
report(work) == <<Call("report", Nil) @@ [work |-> work]>>
timerEnd(work) == timerStop \o report(work)

\* Processes: a child is started, ends, is waited for; a handle is sent.
fork(p) == <<Call("fork", Nil) @@ [child |-> p]>>
wait(p) == <<Call("wait", Nil) @@ [child |-> p]>>
sendHandle(b) == <<Call("send", b)>>
receiveHandle(b) == <<Call("receive", Nil) @@ [expected |-> b]>>

-----------------------------------------------------------------------------
(* Loops.                                                                  *)

Repeat(n, Body(_)) == FlattenSeq([i \in 1..n |-> Body(i)])
ForEach(s, Body(_)) == FlattenSeq([i \in DOMAIN s |-> Body(s[i])])
Times(n, body) == Repeat(n, LAMBDA i : body)
If(condition, calls) == IF condition THEN calls ELSE <<>>
=============================================================================
