------------------------------- MODULE HostView -------------------------------
(***************************************************************************)
(* What the host can know without asking the engines: a discipline for the *)
(* calls of a program.                                                     *)
(*                                                                         *)
(* A view is what follows from the calls made so far, whatever the engines *)
(* have done meanwhile:                                                    *)
(*   todo, started, lost, lists, mail   as in LevelZero, exactly           *)
(*   alive        the objects that are alive, exactly                      *)
(*   sent         queue -> the commands that may not have completed        *)
(*   may, must    the events that may be, and that must be, signaled       *)
(*   gates        the events that commands wait for and only the host will *)
(*                signal                                                   *)
(*   still        no engine can have started since the queues held queued  *)
(*   on, count    whether the timer runs, exactly, and what it counted;    *)
(*                while it runs, with what is still to be counted          *)
(*   holds        what memory holds once all that was submitted has ended  *)
(*   finds        command -> what it finds in the memory it reads          *)
(* Only a synchronize or an awaited event tells that a command has         *)
(* completed.  A program keeps the discipline if every call it comes to is *)
(* safe in every state of the engines that its view leaves open, and what  *)
(* it waits for is sure to come.  There is no engine here, so this takes   *)
(* one walk through the calls.                                             *)
(***************************************************************************)
EXTENDS HostCalls

FirstView(scripts) ==
    [todo |-> scripts, started |-> {1}, lost |-> {}, lists |-> <<>>,
     mail |-> [box |-> <<>>, got |-> Nil, expected |-> Nil],
     alive |-> {}, sent |-> <<>>, may |-> {}, must |-> {}, gates |-> {},
     still |-> TRUE, queued |-> <<>>, on |-> FALSE, count |-> 0,
     holds |-> <<>>, finds |-> <<>>]

\* Process p of the view has a call to make, and which.
HasCall(v, p) == p \in v.started /\ v.todo[p] # <<>>
NextCall(v, p) == Head(v.todo[p])

\* A call that waits for another process can be made once that has acted; a wait
\* for an engine is taken to return at any time.
MayCall(v, p) ==
    /\ HasCall(v, p)
    /\ NextCall(v, p).op = "wait" => v.todo[NextCall(v, p).child] = <<>>
    /\ NextCall(v, p).op = "receive" => v.mail.box # <<>>

AllSent(v) == UNION {v.sent[q] : q \in DOMAIN v.sent}
SentOf(v, l) == {d \in AllSent(v) : d.list = l}

\* What a command needs to be alive, of the queue it is submitted to.
Needs(c, q) == c.touches \cup c.waits \cup c.signals \cup c.resets \cup {q, c.list}

-----------------------------------------------------------------------------
(* The work that is left.  One command may be submitted several times and  *)
(* counts as often, so the units of work are told apart by their place.    *)

UnitsOf(commands) == UNION {{i} \X (1..commands[i].work) : i \in DOMAIN commands}
UnitsIn(queues) == UNION {{q} \X UnitsOf(queues[q]) : q \in DOMAIN queues}

\* It is known while nothing can have begun, or all that counts has ended.
WorkIsKnown(v) == v.still \/ \A d \in AllSent(v) : d.work = 0
WorkLeft(v) == IF v.still THEN Cardinality(UnitsIn(v.queued)) ELSE 0

\* An engine can begin, when queues hold this and at most these events, and those
\* that commands in the queues have yet to signal, may be signaled.
CanBegin(queues, may) ==
    \E q \in DOMAIN queues : \E i \in DOMAIN queues[q] :
        /\ \A e \in queues[q][i].waits :
            /\ e \in may
            /\ \A r \in DOMAIN queues : \A j \in DOMAIN queues[r] :
                    e \notin queues[r][j].signals
        /\ \A j \in 1..(i - 1) : ~queues[q][j].ordered
        /\ queues[q][i].ordered => i = 1

-----------------------------------------------------------------------------
(* What commands do to the parts of memory.                                *)

\* Command d writes, or reads, part i of object o.
Writes(d, o, i) ==
    d.dst = o /\ (d.do \in {"add", "fill"} \/ (d.do = "copy" /\ i \in d.parts))
Reads(d, o, i) ==
    \/ d.do = "copy" /\ d.src = o /\ i \in d.parts
    \/ d.do = "add" /\ d.dst = o

\* What d writes there, if finds says what each command finds where it reads.
Result(finds, d, i) ==
    IF d.do = "fill" THEN d.by
    ELSE IF d.do = "add" THEN finds[d][i] + d.by ELSE finds[d][i]

\* What d reads and writes is there.
Fits(d, holds) ==
    /\ d.do \in {"copy", "add", "fill"} => d.dst \in d.touches \cap DOMAIN holds
    /\ d.do = "copy" => /\ d.src \in d.touches \cap DOMAIN holds
                        /\ d.parts \subseteq DOMAIN holds[d.src] \cap DOMAIN holds[d.dst]

\* Command d waits for an event that command b signals.
WaitsOn(d, b) == b.signals \cap d.waits # {}

\* Of the commands of one queue the k-th cannot start before the j-th has ended.
Follows(commands, j, k) ==
    \/ WaitsOn(commands[k], commands[j])
    \/ j < k /\ \E m \in (j + 1)..k : commands[m].ordered

\* Nor can the k-th of the commands submitted to q before d, sent to r earlier.
FollowsSent(r, d, q, commands, k) ==
    \/ WaitsOn(commands[k], d)
    \/ r = q /\ \E m \in 1..k : commands[m].ordered

\* The contents of memory once the commands have run one after the other.
EffectOfAll(contents, commands) == FoldLeft(Effect, contents, commands)

-----------------------------------------------------------------------------
(* The view after a call c.                                                *)

\* The object of the call, if the call is one of these.
ObjectOf(c, ops) == {o \in {c.object} : c.op \in ops}
Created(c) == ObjectOf(c, {"create", "createList", "createQueue"})

\* The commands that a call submits.
Submits(v, c) ==
    IF c.op = "execute" THEN v.lists[c.list].commands
    ELSE IF c.op = "submit" THEN <<c.command>>
    ELSE <<>>

\* The commands of a queue that have completed once the call has returned.
KnownDone(v, c, q) ==
    {d \in v.sent[q] : \/ c.op = "synchronize" /\ c.object = q
                       \/ c.op = "await" /\ c.object \in d.signals}

SentAfter(v, c) ==
    IF c.op = "createQueue" THEN Put(v.sent, c.object, {})
    ELSE [q \in DOMAIN v.sent |->
             (v.sent[q] \ KnownDone(v, c, q))
             \cup (IF c.op \in {"execute", "submit"} /\ c.object = q
                   THEN ToSet(Submits(v, c)) ELSE {})]

ListsAfter(v, c) ==
    IF c.op = "createList"
    THEN Put(v.lists, c.object, [commands |-> <<>>, closed |-> FALSE])
    ELSE IF c.op = "append"
    THEN [v.lists EXCEPT ![c.object].commands = Append(@, c.command)]
    ELSE IF c.op = "close" THEN [v.lists EXCEPT ![c.object].closed = TRUE]
    ELSE IF c.op = "resetList"
    THEN [v.lists EXCEPT ![c.object] = [commands |-> <<>>, closed |-> FALSE]]
    ELSE v.lists

MailAfter(v, c) ==
    IF c.op = "send" THEN [v.mail EXCEPT !.box = Append(@, c.object)]
    ELSE IF c.op = "receive"
    THEN [box |-> Tail(v.mail.box), got |-> Head(v.mail.box), expected |-> c.expected]
    ELSE v.mail

\* What the queues hold, if the call is all that happened to them.
QueuedAfter(v, c) ==
    IF c.op = "createQueue" THEN Put(v.queued, c.object, <<>>)
    ELSE IF c.op \in {"execute", "submit"}
    THEN [v.queued EXCEPT ![c.object] = @ \o Submits(v, c)]
    ELSE v.queued

\* The timer counts what is left when it starts and all that is added to it; when
\* it stops, what is left by then does not count.
CountAfter(v, c) ==
    IF c.op = "start" THEN (IF c.fresh THEN 0 ELSE v.count) + WorkLeft(v)
    ELSE IF ~v.on THEN v.count
    ELSE IF c.op = "stop" THEN v.count - WorkLeft(v)
    ELSE IF c.op = "touch" THEN v.count + c.command.work
    ELSE v.count + Cardinality(UnitsOf(Submits(v, c)))

\* What memory will hold once all that was submitted has completed, and what the
\* commands that are not known to have completed find where they read.
HoldsAfter(v, c) ==
    IF c.op = "create" THEN Put(v.holds, c.object, c.contents)
    ELSE IF c.op \in {"createList", "createQueue"} THEN Put(v.holds, c.object, <<>>)
    ELSE IF c.op = "destroy" THEN [o \in DOMAIN v.holds \ {c.object} |-> v.holds[o]]
    ELSE IF c.op = "touch" THEN Effect(v.holds, c.command)
    ELSE IF c.op \in {"execute", "submit"} THEN EffectOfAll(v.holds, Submits(v, c))
    ELSE v.holds

FindsAfter(v, c) ==
    LET new == Submits(v, c)
        First(d) == CHOOSE k \in DOMAIN new : new[k] = d
        Found(d) == EffectOfAll(v.holds, SubSeq(new, 1, First(d) - 1))
                        [IF d.do = "add" THEN d.dst ELSE d.src]
    IN  IF c.op \in {"execute", "submit"}
        THEN [d \in AllSent(v) \cup ToSet(new) |->
                IF d.do \notin {"copy", "add"} THEN <<>>
                ELSE IF d \in ToSet(new) THEN Found(d) ELSE v.finds[d]]
        ELSE v.finds

\* The events that commands signal, or reset.
SignaledBy(commands) == UNION {d.signals : d \in commands}
ResetBy(commands) == UNION {d.resets : d \in commands}

\* The events that the k-th of the commands waits for, if they are not signaled nor
\* will be by a command submitted earlier.
Gates(v, commands, k) ==
    {e \in commands[k].waits :
        /\ e \notin v.must \cup SignaledBy(AllSent(v))
        /\ \A j \in 1..(k - 1) : e \notin commands[j].signals}

\* The gates, while a command that may not have completed waits for them.
GatesAfter(v, c) ==
    LET new == Submits(v, c)
        gates == (v.gates \ ObjectOf(c, {"signal"}))
                    \cup UNION {Gates(v, new, k) : k \in DOMAIN new}
    IN  {e \in gates : \E q \in DOMAIN SentAfter(v, c) :
                            \E d \in SentAfter(v, c)[q] : e \in d.waits}

ViewAfter(v, p) ==
    LET c == NextCall(v, p)
        new == Submits(v, c)
        ended == UNION {KnownDone(v, c, q) : q \in DOMAIN v.sent}
        cleared == ObjectOf(c, {"reset", "destroy"})
        sent == SentAfter(v, c)
        may == (v.may \cup SignaledBy(ToSet(new)) \cup ObjectOf(c, {"signal"})) \ cleared
        idle == \A q \in DOMAIN sent : sent[q] = {}
        queued == IF idle THEN [q \in DOMAIN sent |-> <<>>] ELSE QueuedAfter(v, c)
    IN  [todo |-> [v.todo EXCEPT ![p] = Tail(@)],
         started |-> v.started \cup (IF c.op = "fork" THEN {c.child} ELSE {}),
         lost |-> v.lost \cup (Created(c) \cap v.alive),
         lists |-> ListsAfter(v, c),
         mail |-> MailAfter(v, c),
         alive |-> (v.alive \cup Created(c)) \ ObjectOf(c, {"destroy"}),
         sent |-> sent,
         may |-> may,
         must |-> ((v.must \cup ((ObjectOf(c, {"signal", "await"}) \cup SignaledBy(ended))
                                        \ ResetBy(AllSent(v))))
                     \ ResetBy(ToSet(new))) \ cleared,
         gates |-> GatesAfter(v, c),
         still |-> idle \/ (v.still /\ ~CanBegin(queued, may)),
         queued |-> queued,
         on |-> c.op = "start" \/ (v.on /\ c.op # "stop"),
         count |-> CountAfter(v, c),
         holds |-> HoldsAfter(v, c),
         finds |-> FindsAfter(v, c)]

-----------------------------------------------------------------------------
(* The discipline.                                                         *)

\* The commands may go to queue q: all they need is alive, and the events they
\* signal are not signaled and signaled by no other command.
MaySubmit(v, q, commands) ==
    /\ \A i \in DOMAIN commands :
        /\ Needs(commands[i], q) \subseteq v.alive
        /\ commands[i].signals \cap v.may = {}
        /\ commands[i].signals \cap SignaledBy(AllSent(v)) = {}
        /\ commands[i].work \in Nat
    /\ \A i, j \in DOMAIN commands :
        i # j => commands[i].signals \cap commands[j].signals = {}

SafeSubmit(v, c) ==
    /\ c.op = "execute" => /\ c.list \in DOMAIN v.lists /\ v.lists[c.list].closed
                           /\ SentOf(v, c.list) = {}
    /\ c.op \in {"execute", "submit"} => /\ c.object \in DOMAIN v.sent
                                          /\ MaySubmit(v, c.object, Submits(v, c))

SafeList(v, c) ==
    /\ c.op = "append" => ~v.lists[c.object].closed
    /\ c.op \in {"append", "resetList"} => SentOf(v, c.object) = {}

SafeDestroy(v, c) ==
    c.op = "destroy" =>
        \A q \in DOMAIN v.sent : \A d \in v.sent[q] : c.object \notin Needs(d, q)

SafeAccess(v, c) ==
    /\ c.op = "touch" => \A d \in AllSent(v) : c.command.touches \cap d.touches = {}
    /\ c.op = "expect" => \A d \in AllSent(v) : c.object \notin d.touches

SafeEvent(v, c) ==
    /\ c.op \in {"signal", "reset", "query"} => c.object \notin SignaledBy(AllSent(v))
    /\ c.op = "reset" => \A d \in AllSent(v) : c.object \notin d.waits \cap v.may
    /\ c.op = "query" => c.object \in v.must

\* The work that is left when the timer starts and stops is known, and what it
\* counted is the work the result is computed from.
SafeTimer(v, c) ==
    /\ c.op = "createQueue" /\ c.object \in DOMAIN v.sent => v.sent[c.object] = {}
    /\ c.op = "touch" => c.command.work \in Nat
    /\ c.op = "start" => ~v.on /\ WorkIsKnown(v)
    /\ c.op = "stop" => v.on /\ WorkIsKnown(v)
    /\ c.op = "report" => ~v.on /\ v.count = c.work

\* The places of the commands that write part i of object o.
Writers(commands, o, i) == {k \in DOMAIN commands : Writes(commands[k], o, i)}

\* Commands `new` are submitted to q after those of the view.  If there part i of
\* object o is written by those at the places W only, it is h in the end.
EndsAs(v, q, new, finds, W, o, i, h) ==
    IF W = {} THEN h = v.holds[o][i]
    ELSE /\ \A r \in DOMAIN v.sent : \A d \in v.sent[r] :
                Writes(d, o, i) =>
                    \/ Result(finds, d, i) = h
                    \/ \E k \in W : FollowsSent(r, d, q, new, k)
         /\ \A j \in W :
                \/ Result(finds, new[j], i) = h
                \/ \E k \in W : Follows(new, j, k)

\* What the n-th of them reads there is in order with all that write it, and is
\* what they end with.
FindsIt(v, q, new, finds, n, o, i) ==
    /\ \A r \in DOMAIN v.sent : \A d \in v.sent[r] :
            Writes(d, o, i) => FollowsSent(r, d, q, new, n)
    /\ \A k \in Writers(new, o, i) \ {n} : Follows(new, k, n) \/ Follows(new, n, k)
    /\ EndsAs(v, q, new, finds, {k \in Writers(new, o, i) : Follows(new, k, n)},
              o, i, finds[new[n]][i])

\* None of them writes there before d, sent to r earlier, has read it.
SparesReader(r, d, q, new, o, i) ==
    \A k \in Writers(new, o, i) :
        FollowsSent(r, d, q, new, k) /\ ~WaitsOn(d, new[k])

\* The commands leave and find in memory what the next view says.
SafeEffects(v, q, new, holds, finds) ==
    /\ DOMAIN holds = DOMAIN v.holds
    /\ \A d \in AllSent(v) : finds[d] = v.finds[d]
    /\ \A k \in DOMAIN new : Fits(new[k], v.holds)
    /\ \A o \in DOMAIN holds :
        /\ DOMAIN holds[o] = DOMAIN v.holds[o]
        /\ \A i \in DOMAIN holds[o] :
            /\ EndsAs(v, q, new, finds, Writers(new, o, i), o, i, holds[o][i])
            /\ \A n \in DOMAIN new :
                Reads(new[n], o, i) => FindsIt(v, q, new, finds, n, o, i)
            /\ \A r \in DOMAIN v.sent : \A d \in v.sent[r] :
                Reads(d, o, i) => SparesReader(r, d, q, new, o, i)

SafeData(v, c) ==
    /\ c.op \in {"create", "createList", "createQueue"} =>
            \A d \in AllSent(v) : c.object \notin d.touches
    /\ c.op = "touch" => Fits(c.command, v.holds)
    /\ c.op = "expect" =>
            /\ c.object \in DOMAIN v.holds
            /\ \A i \in DOMAIN v.holds[c.object] : v.holds[c.object][i] = c.value
    /\ c.op \in {"execute", "submit"} =>
            SafeEffects(v, c.object, Submits(v, c), HoldsAfter(v, c), FindsAfter(v, c))

\* A wait for an engine ends: no command waits for the host then, and the event that
\* is awaited is, or will be, signaled.
IsAnswered(v, c) ==
    \/ c.op \notin {"synchronize", "await"}
    \/ c.op = "await" /\ c.object \in v.must
    \/ /\ v.gates = {}
       /\ c.op = "synchronize" => c.object \in DOMAIN v.sent
       /\ c.op = "await" => c.object \in SignaledBy(AllSent(v))

\* Some process can go on, and no command resets an event that one signals or waits
\* for.
SafeWait(v) ==
    /\ \/ \A p \in DOMAIN v.todo : v.todo[p] = <<>>
       \/ \E p \in DOMAIN v.todo : MayCall(v, p) /\ IsAnswered(v, NextCall(v, p))
    /\ \A d, b \in AllSent(v) : d.resets \cap (b.signals \cup b.waits) = {}

SafeEnd(v) == (\A p \in v.started : v.todo[p] = <<>>) => v.alive = {} /\ v.lost = {}

SafeView(v) ==
    /\ SafeEnd(v) /\ SafeWait(v)
    /\ v.mail.got = v.mail.expected
    /\ \A p \in DOMAIN v.todo :
        HasCall(v, p) =>
            LET c == NextCall(v, p)
            IN  /\ SafeSubmit(v, c) /\ SafeList(v, c) /\ SafeDestroy(v, c)
                /\ SafeAccess(v, c) /\ SafeEvent(v, c) /\ SafeTimer(v, c) /\ SafeData(v, c)

\* The views are safe, and no call leads out of them.
ClosedViews(views) ==
    \A v \in views :
        /\ SafeView(v)
        /\ \A p \in DOMAIN v.todo : MayCall(v, p) => ViewAfter(v, p) \in views

\* These views show that a program keeps the discipline.
Covers(views, scripts) == FirstView(scripts) \in views /\ ClosedViews(views)
Disciplined(scripts) == \E views : Covers(views, scripts)
===============================================================================
