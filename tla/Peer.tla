--------------------------------- MODULE Peer ---------------------------------
(***************************************************************************)
(* ze_peer as a program (run_test and main of ze_peer.cpp): which tests    *)
(* run, on which devices, engines and sizes.  The options have two more    *)
(* fields:                                                                 *)
(*   mode        "plain", "single", "multiple" or "pairs"                  *)
(*   sizes       sequence of the buffer sizes to run (-z, or all)          *)
(*   transfers   sequence of the transfers to run (-o): write or not       *)
(*   types       number of tests to run (-t): bandwidth, latency           *)
(* A test of latency makes the calls of one of bandwidth.                  *)
(***************************************************************************)
EXTENDS PeerParallel, PeerIpc

\* A new ZePeer for every size; without -u its queues are all engines.
OneSize(o, size) ==
    LET sized == [o EXCEPT !.size = size,
                           !.queues = IF @ = <<>> THEN Engines(o) ELSE @,
                           !.warm = IF o.validate THEN 0 ELSE @,
                           !.iters = IF o.validate THEN 1 ELSE @]
        test == If(o.mode = "multiple", bandwidth_latency_parallel_to_multiple_targets(sized))
                \o If(o.mode = "pairs", bandwidth_latency_parallel_to_pair_targets(sized))
                \o If(o.mode = "single", bandwidth_latency_parallel_to_single_target(sized))
                \o If(o.mode = "plain" /\ o.both, bidirectional_bandwidth_latency(sized))
                \o If(o.mode = "plain" /\ ~o.both, bandwidth_latency(sized))
    IN  ZePeer(sized) \o test \o DestroyZePeer(sized)

\* What the options must not be: an odd number of engines to divide a buffer
\* among, and several devices where one is the target.  It is found out when
\* the devices are set up, and ends the test.
Refused(o) ==
    LET odd == Len(o.queues) # 1 /\ Len(o.queues) % 2 = 1
    IN  \/ o.mode \in {"multiple", "pairs"} /\ o.divide /\ odd
        \/ o.mode = "single" /\ (Len(o.remote) > 1 \/ Len(o.local) > 1 \/ odd)

run_test(o) ==
    IF Refused(o) THEN ZePeer(o) \o DestroyZePeer(o)
    ELSE ForEach(o.sizes, LAMBDA size : OneSize(o, size))

-----------------------------------------------------------------------------

Transfers(o) ==
    Times(o.types, ForEach(o.transfers, LAMBDA write : run_test([o EXCEPT !.write = write])))

\* The devices of the default options are all devices, the first included.
ParallelMain(o) ==
    LET first == o.devices[1]
        local == IF o.local = <<>> THEN <<first>> ELSE o.local
        remote == IF o.remote # <<>> THEN o.remote
                  ELSE IF o.mode = "single" THEN <<first>>
                  ELSE IF o.mode = "multiple" THEN o.devices ELSE <<>>
        pairs == IF o.mode # "pairs" \/ o.pairs # <<>> THEN o.pairs
                 ELSE [i \in DOMAIN o.devices |-> <<first, o.devices[i]>>]
    IN  Transfers([o EXCEPT !.local = local, !.remote = remote, !.pairs = pairs])

\* Every pair of two devices, with the next of the engines for each.
PlainMain(o) ==
    LET local == IF o.local = <<>> THEN o.devices ELSE o.local
        remote == IF o.remote = <<>> THEN o.devices ELSE o.remote
        queues == IF o.queues = <<>> THEN <<1>> ELSE o.queues
        next == FlattenSeq([i \in DOMAIN local |->
            LET others == SelectSeq(remote, LAMBDA d : d # local[i])
            IN  [j \in DOMAIN others |-> <<local[i], others[j]>>]])
        queue(i) == queues[((i - 1) % Len(queues)) + 1]
    IN  FlattenSeq([i \in DOMAIN next |->
            Transfers([o EXCEPT !.local = <<next[i][1]>>, !.remote = <<next[i][2]>>,
                                !.queues = <<queue(i)>>])])

\* A first ZePeer counts the devices: it creates nothing and is not destroyed
\* before the end.
main(o) == IF o.mode = "plain" THEN PlainMain(o) ELSE ParallelMain(o)
=============================================================================
