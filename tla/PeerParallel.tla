----------------------------- MODULE PeerParallel -----------------------------
(***************************************************************************)
(* The parallel modes of ze_peer: one buffer divided among the engines     *)
(* (ze_peer_parallel_single_target.cpp), every local device with every     *)
(* remote one (ze_peer_parallel_multiple_targets.cpp), and given pairs     *)
(* (ze_peer_parallel_pair_targets.cpp).  All copies of an iteration wait   *)
(* for one event.  The timers of the single pairs, which are read between  *)
(* the calls, are left out; the one around all of them is kept.            *)
(***************************************************************************)
EXTENDS PeerCommon

NumQueues(o) == Len(o.queues)

\* As it would be with chunks that start one part too early.
ChunkFromZero(o, e) ==
    LET chunk == o.size \div NumQueues(o)
    IN  ((e - 1) * chunk)..(e * chunk - 1)

\* The e-th of the equal chunks of a buffer; what is left over is in none.
Chunk(o, e) ==
    LET chunk == o.size \div NumQueues(o)
    IN  ((e - 1) * chunk + 1)..(e * chunk)

\* An engine of a device and the parts of the buffer it copies.
Share(e, parts) == [engine |-> e, parts |-> parts]
Chunks(o) == [e \in 1..NumQueues(o) |-> Share(o.queues[e], Chunk(o, e))]

ExecuteOne(d, e) == commandQueueExecuteCommandList(queueOf(d, e), listOf(d, e))

-----------------------------------------------------------------------------
(* One target.                                                             *)

SingleBothSubmit(o, l, r) ==
    ForEach(Chunks(o), LAMBDA s :
        BothWays(o, l, r, s.engine, s.parts)
        \o commandListClose(listOf(l, s.engine)) \o commandListClose(listOf(r, s.engine)))

perform_bidirectional_parallel_copy_to_single_target(o, l, r) ==
    LET each(Do(_, _, _)) == ForEach(Chunks(o), LAMBDA s : Do(l, r, s.engine))
        warmUp == hostEventSignal(event)
                  \o ForEach(Chunks(o), LAMBDA s : ExecuteBoth(l, r, s.engine)
                                                   \o SynchronizeBoth(l, r, s.engine))
                  \o hostEventReset(event)
        timed == each(ExecuteBoth) \o hostEventSignal(event) \o each(SynchronizeBoth)
                 \o hostEventReset(event)
    IN  SingleBothSubmit(o, l, r)
        \o Times(o.warm, warmUp)
        \o timerStart \o Times(o.iters, timed) \o timerEnd(o.iters * 2 * o.size)
        \o ForEach(Chunks(o), LAMBDA s : commandListReset(listOf(l, s.engine))
                                         \o commandListReset(listOf(r, s.engine)))

\* The event is reset before an iteration and stays signaled after the last.
perform_bidirectional_parallel_copy_to_single_target_immediate(o, l, r) ==
    LET once == hostEventReset(event)
                \o ForEach(Chunks(o), LAMBDA s :
                       BothWays(o, l, r, s.engine, s.parts))
                \o hostEventSignal(event)
                \o ForEach(Chunks(o), LAMBDA s : SynchronizeBothLists(l, r, s.engine))
    IN  Times(o.warm, once)
        \o timerStart \o Times(o.iters, once) \o timerEnd(o.iters * 2 * o.size)

perform_parallel_copy_to_single_target(o, l, r) ==
    LET d == IF o.inDest THEN r ELSE l
        each(Do(_)) == ForEach(Chunks(o), Do)
        execute == each(LAMBDA s : ExecuteOne(d, s.engine))
        await == each(LAMBDA s : commandQueueSynchronize(queueOf(d, s.engine)))
    IN  each(LAMBDA s :
            commandListAppend(listOf(d, s.engine),
                              WaitsFor(event, CopyBetween(o, l, r, s.parts)))
            \o commandListClose(listOf(d, s.engine)))
        \o Times(o.warm, execute \o hostEventSignal(event) \o await
                         \o hostEventReset(event))
        \o Times(o.iters, execute \o timerStart \o hostEventSignal(event) \o await
                          \o timerEnd(o.size) \o hostEventReset(event))
        \o each(LAMBDA s : commandListReset(listOf(d, s.engine)))

\* In the warm-up the event is reset before the copy of every engine.
perform_parallel_copy_to_single_target_immediate(o, l, r) ==
    LET d == IF o.inDest THEN r ELSE l
        each(Do(_)) == ForEach(Chunks(o), Do)
        append(s) == appendInOrder(listOf(d, s.engine),
                                   WaitsFor(event, CopyBetween(o, l, r, s.parts)))
        await == each(LAMBDA s : commandQueueSynchronize(listOf(d, s.engine)))
    IN  Times(o.warm, each(LAMBDA s : hostEventReset(event) \o append(s))
                      \o hostEventSignal(event) \o await)
        \o Times(o.iters, hostEventReset(event) \o each(append)
                          \o timerStart \o hostEventSignal(event) \o await
                          \o timerEnd(o.size))

bandwidth_latency_parallel_to_single_target(o) ==
    LET l == o.local[1]
        r == o.remote[1]
    IN  set_up(o) \o initialize_buffers(o)
        \o (IF o.both
            THEN IF o.immediate
                 THEN perform_bidirectional_parallel_copy_to_single_target_immediate(o, l, r)
                 ELSE perform_bidirectional_parallel_copy_to_single_target(o, l, r)
            ELSE IF o.immediate
                 THEN perform_parallel_copy_to_single_target_immediate(o, l, r)
                 ELSE perform_parallel_copy_to_single_target(o, l, r))
        \o If(o.validate, validateBuffer(o, l, 1, Target(o, l, r)))
        \o tear_down(o)
-----------------------------------------------------------------------------
(* Several pairs.  queue_index_iter counts the pairs, and the counter      *)
(* picks the engine of a pair; a divided buffer uses all engines.          *)

\* The engines used for the n-th value of queue_index_iter.
Shares(o, n) ==
    IF o.divide THEN Chunks(o)
    ELSE <<Share(o.queues[((n - 1) % NumQueues(o)) + 1], AllParts(o))>>

\* For every pair, with the counter starting at n; and for every share of it.
OverPairs(o, pairs, n, Do(_, _, _)) ==
    FlattenSeq([k \in DOMAIN pairs |->
                    Do(pairs[k][1], pairs[k][2], Shares(o, n + k - 1))])
OverShares(o, pairs, Do(_, _, _)) ==
    OverPairs(o, pairs, 1, LAMBDA l, r, shares :
        ForEach(shares, LAMBDA s : Do(l, r, s)))

\* The device whose engines copy between l and r.
Copier(o, l, r) == IF o.inDest THEN r ELSE l
ListFor(o, l, r, s) == listOf(Copier(o, l, r), s.engine)
QueueFor(o, l, r, s) == queueOf(Copier(o, l, r), s.engine)
GatedCopy(o, l, r, s) == WaitsFor(event, CopyBetween(o, l, r, s.parts))

AppendBoth(o, pairs) ==
    OverShares(o, pairs, LAMBDA l, r, s :
        BothWays(o, l, r, s.engine, s.parts))
CloseBoth(o, pairs) ==
    OverShares(o, pairs, LAMBDA l, r, s :
        commandListClose(listOf(l, s.engine)) \o commandListClose(listOf(r, s.engine)))

\* A divided buffer is copied in both directions at once, another one first
\* by the local device.
WarmUpBoth(o, pairs) ==
    LET alone(d, e) == ExecuteOne(d, e) \o commandQueueSynchronize(queueOf(d, e))
    IN  OverPairs(o, pairs, 1, LAMBDA l, r, shares :
            hostEventSignal(event)
            \o ForEach(shares, LAMBDA s :
                   IF o.divide
                   THEN ExecuteBoth(l, r, s.engine) \o SynchronizeBoth(l, r, s.engine)
                   ELSE alone(l, s.engine) \o alone(r, s.engine))
            \o hostEventReset(event))

TimeBoth(o, pairs) ==
    timerStart
    \o Times(o.iters,
             OverShares(o, pairs, LAMBDA l, r, s : ExecuteBoth(l, r, s.engine))
             \o hostEventSignal(event)
             \o OverShares(o, pairs, LAMBDA l, r, s : SynchronizeBoth(l, r, s.engine))
             \o hostEventReset(event))
    \o timerEnd(o.iters * 2 * Len(pairs) * o.size)

TimeBothImmediate(o, pairs) ==
    timerStart
    \o Times(o.iters,
             hostEventReset(event)
             \o OverShares(o, pairs, LAMBDA l, r, s :
                    BothWays(o, l, r, s.engine, s.parts))
             \o hostEventSignal(event)
             \o OverShares(o, pairs, LAMBDA l, r, s :
                    SynchronizeBothLists(l, r, s.engine)))
    \o timerEnd(o.iters * 2 * Len(pairs) * o.size)

\* The counter goes up when a pair's copies are appended and again when they
\* are waited for, so that a pair's copies are waited for on another engine
\* when more than one is used.
WarmUpBothImmediate(o, pairs) ==
    FlattenSeq([k \in DOMAIN pairs |->
        LET l == pairs[k][1]
            r == pairs[k][2]
        IN  hostEventReset(event)
            \o ForEach(Shares(o, 2 * k - 1), LAMBDA s :
                   BothWays(o, l, r, s.engine, s.parts))
            \o hostEventSignal(event)
            \o ForEach(Shares(o, 2 * k), LAMBDA s :
                   SynchronizeBothLists(l, r, s.engine))])

AppendOneWay(o, pairs) ==
    OverShares(o, pairs, LAMBDA l, r, s :
        commandListAppend(ListFor(o, l, r, s), GatedCopy(o, l, r, s)))
CloseOneWay(o, pairs) ==
    OverShares(o, pairs, LAMBDA l, r, s : commandListClose(ListFor(o, l, r, s)))

WarmUpOneWay(o, pairs, n) ==
    OverPairs(o, pairs, n, LAMBDA l, r, shares :
        ForEach(shares, LAMBDA s : ExecuteOne(Copier(o, l, r), s.engine))
        \o hostEventSignal(event)
        \o ForEach(shares, LAMBDA s : commandQueueSynchronize(QueueFor(o, l, r, s)))
        \o hostEventReset(event))

TimeOneWay(o, pairs) ==
    timerStart
    \o Times(o.iters,
             OverShares(o, pairs, LAMBDA l, r, s : ExecuteOne(Copier(o, l, r), s.engine))
             \o hostEventSignal(event)
             \o OverShares(o, pairs, LAMBDA l, r, s :
                    commandQueueSynchronize(QueueFor(o, l, r, s)))
             \o hostEventReset(event))
    \o timerEnd(o.iters * Len(pairs) * o.size)

TimeOneWayImmediate(o, pairs) ==
    timerStart
    \o Times(o.iters,
             hostEventReset(event)
             \o OverShares(o, pairs, LAMBDA l, r, s :
                    appendInOrder(ListFor(o, l, r, s), GatedCopy(o, l, r, s)))
             \o hostEventSignal(event)
             \o OverShares(o, pairs, LAMBDA l, r, s :
                    commandQueueSynchronize(ListFor(o, l, r, s))))
    \o timerEnd(o.iters * Len(pairs) * o.size)

\* All lists of these devices, or those of the engines in use.
ResetAll(o, devices) ==
    ForEach(devices, LAMBDA d : ForEach(Engines(o), LAMBDA e : commandListReset(listOf(d, e))))
ResetUsed(o, devices) ==
    ForEach(devices, LAMBDA d : ForEach(o.queues, LAMBDA e : commandListReset(listOf(d, e))))

Validate(o, pairs) ==
    ForEach(pairs, LAMBDA p :
        validateBuffer(o, p[1], 1, Target(o, p[1], p[2]))
        \o hostDo(Fill(validate_buffer, 0)))

-----------------------------------------------------------------------------
(* Every local device with every remote one.                               *)

MultiPairs(o) ==
    FlattenSeq([i \in DOMAIN o.local |->
        LET others == SelectSeq(o.remote, LAMBDA d : d # o.local[i])
        IN  [j \in DOMAIN others |-> <<o.local[i], others[j]>>]])

MultiAppendBoth(o) == AppendBoth(o, MultiPairs(o))
MultiCloseBoth(o) == CloseBoth(o, MultiPairs(o))
MultiWarmUpBoth(o) == Times(o.warm, WarmUpBoth(o, MultiPairs(o)))
MultiTimeBoth(o) == TimeBoth(o, MultiPairs(o))
MultiResetBoth(o) == ResetAll(o, o.local \o o.remote)

perform_bidirectional_parallel_copy_to_multiple_targets(o) ==
    MultiAppendBoth(o) \o MultiCloseBoth(o) \o MultiWarmUpBoth(o)
    \o MultiTimeBoth(o) \o MultiResetBoth(o)

\* The warm-up reads, whatever is measured.
MultiWarmUpBothImmediate(o) ==
    Times(o.warm, WarmUpBothImmediate([o EXCEPT !.write = FALSE], MultiPairs(o)))
MultiTimeBothImmediate(o) == TimeBothImmediate(o, MultiPairs(o))

perform_bidirectional_parallel_copy_to_multiple_targets_immediate(o) ==
    MultiWarmUpBothImmediate(o) \o MultiTimeBothImmediate(o)

MultiAppend(o) == AppendOneWay(o, MultiPairs(o))
MultiClose(o) == CloseOneWay(o, MultiPairs(o))
\* The counter is not reset between two warm-ups.
MultiWarmUp(o) ==
    Repeat(o.warm, LAMBDA w :
        WarmUpOneWay(o, MultiPairs(o), (w - 1) * Len(MultiPairs(o)) + 1))
MultiTime(o) == TimeOneWay(o, MultiPairs(o))
MultiReset(o) ==
    IF o.divide THEN ResetUsed(o, o.local \o o.remote)
    ELSE ResetAll(o, o.local \o o.remote)

perform_parallel_copy_to_multiple_targets(o) ==
    MultiAppend(o) \o MultiClose(o) \o MultiWarmUp(o) \o MultiTime(o) \o MultiReset(o)

\* Each chunk is waited for on all engines before the next one is appended,
\* with the event still signaled.
MultiWarmUpImmediate(o) ==
    Repeat(o.warm, LAMBDA w :
        OverPairs(o, MultiPairs(o), (w - 1) * Len(MultiPairs(o)) + 1, LAMBDA l, r, shares :
            hostEventReset(event)
            \o ForEach(shares, LAMBDA s :
                   appendInOrder(ListFor(o, l, r, s), GatedCopy(o, l, r, s))
                   \o hostEventSignal(event)
                   \o ForEach(shares, LAMBDA t :
                          commandQueueSynchronize(ListFor(o, l, r, t))))))
MultiTimeImmediate(o) == TimeOneWayImmediate(o, MultiPairs(o))

perform_parallel_copy_to_multiple_targets_immediate(o) ==
    MultiWarmUpImmediate(o) \o MultiTimeImmediate(o)

bandwidth_latency_parallel_to_multiple_targets(o) ==
    set_up(o) \o initialize_buffers(o)
    \o (IF o.both
        THEN IF o.immediate
             THEN perform_bidirectional_parallel_copy_to_multiple_targets_immediate(o)
             ELSE perform_bidirectional_parallel_copy_to_multiple_targets(o)
        ELSE IF o.immediate
             THEN perform_parallel_copy_to_multiple_targets_immediate(o)
             ELSE perform_parallel_copy_to_multiple_targets(o))
    \o If(o.validate, Validate(o, MultiPairs(o)))
    \o tear_down(o)

-----------------------------------------------------------------------------
(* Given pairs.                                                            *)

Paired(o) == SelectSeq(o.pairs, LAMBDA p : p[1] # p[2])

PairAppendBoth(o) == AppendBoth(o, Paired(o))
PairCloseBoth(o) == CloseBoth(o, Paired(o))
PairWarmUpBoth(o) == Times(o.warm, WarmUpBoth(o, Paired(o)))
PairTimeBoth(o) == TimeBoth(o, Paired(o))
PairResetBoth(o) ==
    ForEach(o.pairs, LAMBDA p : IF o.divide THEN ResetUsed(o, p) ELSE ResetAll(o, p))

perform_bidirectional_parallel_copy_to_pair_targets(o) ==
    PairAppendBoth(o) \o PairCloseBoth(o) \o PairWarmUpBoth(o)
    \o PairTimeBoth(o) \o PairResetBoth(o)

PairWarmUpBothImmediate(o) == Times(o.warm, WarmUpBothImmediate(o, Paired(o)))
PairTimeBothImmediate(o) == TimeBothImmediate(o, Paired(o))

perform_bidirectional_parallel_copy_to_pair_targets_immediate(o) ==
    PairWarmUpBothImmediate(o) \o PairTimeBothImmediate(o)

PairAppend(o) == AppendOneWay(o, Paired(o))
PairClose(o) == CloseOneWay(o, Paired(o))
PairWarmUp(o) == Times(o.warm, WarmUpOneWay(o, Paired(o), 1))
PairTime(o) == TimeOneWay(o, Paired(o))
PairReset(o) ==
    ForEach(o.pairs, LAMBDA p : IF o.divide THEN ResetUsed(o, p) ELSE ResetAll(o, p))

perform_parallel_copy_to_pair_targets(o) ==
    PairAppend(o) \o PairClose(o) \o PairWarmUp(o) \o PairTime(o) \o PairReset(o)

\* The event is reset once per warm-up; the counter goes up twice per pair.
PairWarmUpImmediate(o) ==
    Times(o.warm,
        hostEventReset(event)
        \o FlattenSeq([k \in DOMAIN Paired(o) |->
               LET l == Paired(o)[k][1]
                   r == Paired(o)[k][2]
               IN  ForEach(Shares(o, 2 * k - 1), LAMBDA s :
                       appendInOrder(ListFor(o, l, r, s), GatedCopy(o, l, r, s)))
                   \o hostEventSignal(event)
                   \o ForEach(Shares(o, 2 * k), LAMBDA s :
                          commandQueueSynchronize(ListFor(o, l, r, s)))]))
PairTimeImmediate(o) == TimeOneWayImmediate(o, Paired(o))

perform_parallel_copy_to_pair_targets_immediate(o) ==
    PairWarmUpImmediate(o) \o PairTimeImmediate(o)

\* The devices of one side, each once.
Side(o, i) == FoldLeft(LAMBDA ds, p : IF p[i] \in ToSet(ds) THEN ds ELSE Append(ds, p[i]),
                       <<>>, o.pairs)

bandwidth_latency_parallel_to_pair_targets(options) ==
    LET o == [options EXCEPT !.local = Side(options, 1), !.remote = Side(options, 2)]
    IN  set_up(o) \o initialize_buffers(o)
        \o (IF o.both
            THEN IF o.immediate
                 THEN perform_bidirectional_parallel_copy_to_pair_targets_immediate(o)
                 ELSE perform_bidirectional_parallel_copy_to_pair_targets(o)
            ELSE IF o.immediate
                 THEN perform_parallel_copy_to_pair_targets_immediate(o)
                 ELSE perform_parallel_copy_to_pair_targets(o))
        \o If(o.validate, Validate(o, Paired(o)))
        \o tear_down(o)
=============================================================================
