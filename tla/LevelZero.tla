------------------------------ MODULE LevelZero -------------------------------
(***************************************************************************)
(* A machine that runs the benchmarks of perf_tests: host processes that   *)
(* make the calls of a program (HostCalls) and engines that run what they  *)
(* submit.                                                                 *)
(*                                                                         *)
(* The driver and the devices are external; this is what the benchmarks    *)
(* rely on.  The commands of a list, and of the lists given to one queue,  *)
(* are not ordered unless a barrier, an event or the list's in-order flag  *)
(* orders them.  A command whose events are not signaled waits.  A command *)
(* takes effect in one step.                                               *)
(***************************************************************************)
EXTENDS HostCalls

CONSTANT Programs   \* name |-> the scripts of its processes; the first one starts

VARIABLES
    todo,       \* process -> the calls it has yet to make
    started,    \* the processes that were started
    mem,        \* live object -> its contents (<<>> for what is not memory)
    lost,       \* objects still alive when their handle was overwritten
    lists,      \* command list -> its commands and whether it is closed
    pending,    \* queue or immediate list -> commands not yet completed
    signaled,   \* the events that are signaled
    timer,      \* whether it runs, and the work completed while it ran
    mail        \* handles sent and not received, the last received, its like

memory == <<mem, lost>>
device == <<lists, pending>>
vars == <<todo, started, mem, lost, lists, pending, signaled, timer, mail>>

Processes == DOMAIN todo

\* The call p is about to make.
Calls(p) == p \in started /\ todo[p] # <<>>
Current(p) == Head(todo[p])
Ended(p) == todo[p] = <<>>

Submitted == UNION {ToSet(pending[q]) : q \in DOMAIN pending}
InFlight(l) == \E c \in Submitted : c.list = l

-----------------------------------------------------------------------------

Init ==
    /\ \E program \in DOMAIN Programs : todo = Programs[program]
    /\ started = {1}
    /\ mem = <<>>
    /\ lost = {}
    /\ lists = <<>>
    /\ pending = <<>>
    /\ signaled = {}
    /\ timer = [on |-> FALSE, done |-> 0]
    /\ mail = [box |-> <<>>, got |-> Nil, expected |-> Nil]

-----------------------------------------------------------------------------
(* Memory.                                                                 *)

\* The timer once the work of a command was done.
Counted(c) == [timer EXCEPT !.done = IF timer.on THEN @ + c.work ELSE @]

\* A step of process p that makes a call of this kind.
Makes(p, op) ==
    /\ Calls(p)
    /\ Current(p).op = op
    /\ todo' = [todo EXCEPT ![p] = Tail(@)]
    /\ UNCHANGED started

Born(o, contents) ==
    /\ lost' = lost \cup ({o} \cap DOMAIN mem)
    /\ mem' = Put(mem, o, contents)

CreateObject(p) ==
    /\ Makes(p, "create")
    /\ Born(Current(p).object, Current(p).contents)
    /\ UNCHANGED <<device, signaled, timer, mail>>

CreateList(p) ==
    LET l == Current(p).object IN
    /\ Makes(p, "createList")
    /\ Born(l, <<>>)
    /\ lists' = Put(lists, l, [commands |-> <<>>, closed |-> FALSE])
    /\ UNCHANGED <<pending, signaled, timer, mail>>

CreateQueue(p) ==
    LET q == Current(p).object IN
    /\ Makes(p, "createQueue")
    /\ Born(q, <<>>)
    /\ pending' = Put(pending, q, <<>>)
    /\ UNCHANGED <<lists, signaled, timer, mail>>

DestroyObject(p) ==
    LET o == Current(p).object IN
    /\ Makes(p, "destroy")
    /\ mem' = [x \in DOMAIN mem \ {o} |-> mem[x]]
    /\ signaled' = signaled \ {o}
    /\ UNCHANGED <<lost, device, timer, mail>>

\* The host writes memory; or reads it and goes on whatever it finds.
TouchMemory(p) ==
    /\ Makes(p, "touch")
    /\ mem' = Effect(mem, Current(p).command)
    /\ timer' = Counted(Current(p).command)
    /\ UNCHANGED <<lost, device, signaled, mail>>

ExpectMemory(p) ==
    /\ Makes(p, "expect")
    /\ UNCHANGED <<memory, device, signaled, timer, mail>>

-----------------------------------------------------------------------------
(* Command lists and queues.                                               *)

AppendCommand(p) ==
    LET l == Current(p).object IN
    /\ Makes(p, "append")
    /\ lists' = [lists EXCEPT ![l].commands = Append(@, Current(p).command)]
    /\ UNCHANGED <<memory, pending, signaled, timer, mail>>

CloseList(p) ==
    /\ Makes(p, "close")
    /\ lists' = [lists EXCEPT ![Current(p).object].closed = TRUE]
    /\ UNCHANGED <<memory, pending, signaled, timer, mail>>

ResetList(p) ==
    /\ Makes(p, "resetList")
    /\ lists' = [lists EXCEPT ![Current(p).object] = [commands |-> <<>>, closed |-> FALSE]]
    /\ UNCHANGED <<memory, pending, signaled, timer, mail>>

ExecuteList(p) ==
    /\ Makes(p, "execute")
    /\ pending' = [pending EXCEPT ![Current(p).object] =
                       @ \o lists[Current(p).list].commands]
    /\ UNCHANGED <<memory, lists, signaled, timer, mail>>

SubmitCommand(p) ==
    /\ Makes(p, "submit")
    /\ pending' = [pending EXCEPT ![Current(p).object] = Append(@, Current(p).command)]
    /\ UNCHANGED <<memory, lists, signaled, timer, mail>>

SynchronizeQueue(p) ==
    /\ Makes(p, "synchronize")
    /\ pending[Current(p).object] = <<>>
    /\ UNCHANGED <<memory, device, signaled, timer, mail>>

-----------------------------------------------------------------------------
(* Events and time.                                                        *)

SignalEvent(p) ==
    /\ Makes(p, "signal")
    /\ signaled' = signaled \cup {Current(p).object}
    /\ UNCHANGED <<memory, device, timer, mail>>

ResetEvent(p) ==
    /\ Makes(p, "reset")
    /\ signaled' = signaled \ {Current(p).object}
    /\ UNCHANGED <<memory, device, timer, mail>>

AwaitEvent(p) ==
    /\ Makes(p, "await")
    /\ Current(p).object \in signaled
    /\ UNCHANGED <<memory, device, signaled, timer, mail>>

QueryEvent(p) ==
    /\ Makes(p, "query")
    /\ UNCHANGED <<memory, device, signaled, timer, mail>>

StartTimer(p) ==
    /\ Makes(p, "start")
    /\ timer' = [on |-> TRUE, done |-> IF Current(p).fresh THEN 0 ELSE timer.done]
    /\ UNCHANGED <<memory, device, signaled, mail>>

StopTimer(p) ==
    /\ Makes(p, "stop")
    /\ timer' = [timer EXCEPT !.on = FALSE]
    /\ UNCHANGED <<memory, device, signaled, mail>>

ReportResult(p) ==
    /\ Makes(p, "report")
    /\ UNCHANGED <<memory, device, signaled, timer, mail>>

-----------------------------------------------------------------------------
(* Processes.                                                              *)

ForkProcess(p) ==
    /\ Calls(p) /\ Current(p).op = "fork"
    /\ todo' = [todo EXCEPT ![p] = Tail(@)]
    /\ started' = started \cup {Current(p).child}
    /\ UNCHANGED <<memory, device, signaled, timer, mail>>

WaitForProcess(p) ==
    /\ Makes(p, "wait")
    /\ Ended(Current(p).child)
    /\ UNCHANGED <<memory, device, signaled, timer, mail>>

SendHandle(p) ==
    /\ Makes(p, "send")
    /\ mail' = [mail EXCEPT !.box = Append(@, Current(p).object)]
    /\ UNCHANGED <<memory, device, signaled, timer>>

ReceiveHandle(p) ==
    /\ Makes(p, "receive")
    /\ mail.box # <<>>
    /\ mail' = [box |-> Tail(mail.box), got |-> Head(mail.box),
                expected |-> Current(p).expected]
    /\ UNCHANGED <<memory, device, signaled, timer>>

-----------------------------------------------------------------------------
(* Engines.                                                                *)

\* The commands of a queue that may take effect now.
Ready(q) ==
    {i \in DOMAIN pending[q] :
        /\ pending[q][i].waits \subseteq signaled
        /\ \A j \in 1..(i - 1) : ~pending[q][j].ordered
        /\ pending[q][i].ordered => i = 1}

Complete(q) ==
    \E i \in Ready(q) :
        LET c == pending[q][i] IN
        /\ pending' = [pending EXCEPT ![q] = RemoveAt(@, i)]
        /\ mem' = Effect(mem, c)
        /\ signaled' = (signaled \cup c.signals) \ c.resets
        /\ timer' = Counted(c)
        /\ UNCHANGED <<todo, started, lost, lists, mail>>

HostStep(p) ==
    \/ CreateObject(p) \/ CreateList(p) \/ CreateQueue(p) \/ DestroyObject(p)
    \/ TouchMemory(p) \/ ExpectMemory(p)
    \/ AppendCommand(p) \/ CloseList(p) \/ ResetList(p) \/ ExecuteList(p)
    \/ SubmitCommand(p) \/ SynchronizeQueue(p)
    \/ SignalEvent(p) \/ ResetEvent(p) \/ AwaitEvent(p) \/ QueryEvent(p)
    \/ StartTimer(p) \/ StopTimer(p) \/ ReportResult(p)
    \/ ForkProcess(p) \/ WaitForProcess(p) \/ SendHandle(p) \/ ReceiveHandle(p)

Host == \E p \in Processes : HostStep(p)
Engine == \E q \in DOMAIN pending : Complete(q)

Next == Host \/ Engine

\* A host that is not blocked makes its next call, and an engine that has a
\* command it may run runs one.
Spec == Init /\ [][Next]_vars /\ WF_vars(Host) /\ WF_vars(Engine)
-----------------------------------------------------------------------------
(* What the benchmarks rely on.                                            *)

About(op) == {p \in Processes : Calls(p) /\ Current(p).op = op}

\* Nothing is freed or destroyed while it is needed: what a submitted command
\* reads, writes, waits for or signals, and the list and queue it came by,
\* are alive (tear_down, the destructors and clean_xe run right after the
\* measurements).
NothingInUseIsDestroyed ==
    \A q \in DOMAIN pending : \A c \in ToSet(pending[q]) :
        c.touches \cup c.waits \cup c.signals \cup c.resets \cup {q, c.list}
            \subseteq DOMAIN mem

\* A list is appended to while it is open, executed when it is closed, and
\* none of this, nor its reset, happens while commands of it are under way
\* (the lists of an engine are shared by all phases of a benchmark).
ListsAreUsedInTurn ==
    /\ \A p \in About("append") :
            ~lists[Current(p).object].closed /\ ~InFlight(Current(p).object)
    /\ \A p \in About("execute") :
            lists[Current(p).list].closed /\ ~InFlight(Current(p).list)
    /\ \A p \in About("resetList") : ~InFlight(Current(p).object)

\* An event is reset only when no command is yet to signal it and, if it is
\* signaled, none waits for it; its time stamps are read when it is signaled
\* and will not be signaled again (one event gates, or times, every iteration).
EventsAreResetIdle ==
    /\ \A p \in About("reset") : \A c \in Submitted :
            /\ Current(p).object \notin c.signals
            /\ Current(p).object \notin c.waits \cap signaled
    /\ \A p \in About("query") :
            /\ Current(p).object \in signaled
            /\ \A c \in Submitted : Current(p).object \notin c.signals

\* The host neither reads nor writes memory that a submitted command uses
\* (the host's buffers are filled again, compared and zeroed between copies).
HostAccessIsAlone ==
    \A c \in Submitted :
        /\ \A p \in About("touch") : Current(p).command.touches \cap c.touches = {}
        /\ \A p \in About("expect") : Current(p).object \notin c.touches

\* Exactly the work a result is computed from was completed while the timer
\* ran: no command left over from a warm-up, none still under way, none
\* done twice.
MeasuresItsOwnWork ==
    \A p \in About("report") : timer.done = Current(p).work

\* A comparison at the end of a benchmark finds what was written at its
\* beginning (validate_buffer, verify_result and the comparisons of images).
ValidationFindsTheData ==
    \A p \in About("expect") : \A i \in DOMAIN mem[Current(p).object] :
        mem[Current(p).object][i] = Current(p).value

\* A handle that is received belongs to the buffer of this exchange.
HandleIsCurrent == mail.got = mail.expected

\* A program that has ended has given back all it created, and never lost
\* the handle of anything.
NothingLeaks ==
    (\A p \in started : Ended(p)) => mem = <<>> /\ lost = {}

\* Process p can make the call it is about to make: what that waits for has come.
MayGoOn(p) ==
    /\ Calls(p)
    /\ LET c == Current(p)
       IN  /\ c.op = "synchronize" => pending[c.object] = <<>>
           /\ c.op = "await" => c.object \in signaled
           /\ c.op = "wait" => Ended(c.child)
           /\ c.op = "receive" => mail.box # <<>>

\* The processes and the engines never all wait for each other: before the program
\* has ended one of them can go on (a kernel may wait for an event that the host
\* signals later, and the host for a queue with that kernel).
NothingStalls ==
    \/ \A p \in Processes : Ended(p)
    \/ \E p \in Processes : MayGoOn(p)
    \/ \E q \in DOMAIN pending : Ready(q) # {}

\* Every wait of the host is answered: a program ends.
ProgramEnds == <>(\A p \in Processes : Ended(p))
=============================================================================
