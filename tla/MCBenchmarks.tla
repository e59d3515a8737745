----------------------------- MODULE MCBenchmarks -----------------------------
(***************************************************************************)
(* The programs TLC runs: every benchmark of perf_tests that is modelled,  *)
(* with the options that lead to its paths, on two devices with two        *)
(* engines.  Left out are the options under which the code itself breaks   *)
(* what is checked; each is a hazard of its own.                           *)
(***************************************************************************)
EXTENDS LevelZero, HostView

P == INSTANCE Peer
K == INSTANCE PeakTransfer
I == INSTANCE ImageCopy
B == INSTANCE Bandwidth
G == INSTANCE PingPong WITH num_execute <- 2

-----------------------------------------------------------------------------
(* ze_peer.                                                                *)

peerOptions ==
    [devices |-> <<1, 2>>, engines |-> 1, local |-> <<1>>, remote |-> <<2>>,
     pairs |-> <<>>, queues |-> <<1>>, write |-> TRUE, immediate |-> FALSE,
     both |-> FALSE, divide |-> FALSE, inDest |-> FALSE, size |-> 1, warm |-> 1,
     iters |-> 2, validate |-> FALSE, mode |-> "plain", sizes |-> <<1>>,
     transfers |-> <<TRUE>>, types |-> 1]

\* Regular and immediate lists, measured and validated.
plain == [peerOptions EXCEPT !.transfers = <<TRUE, FALSE>>]
immediatePlain == [plain EXCEPT !.immediate = TRUE]

plainOptions ==
       ("plain" :> plain)
    @@ ("plain immediate" :> immediatePlain)
    @@ ("plain validated" :> [plain EXCEPT !.validate = TRUE, !.sizes = <<1, 2>>])
    @@ ("plain both" :> [plain EXCEPT !.both = TRUE])
    @@ ("plain both immediate" :>
            [immediatePlain EXCEPT !.both = TRUE, !.validate = TRUE])

\* A buffer divided among two engines.
single == [peerOptions EXCEPT !.mode = "single", !.engines = 2, !.queues = <<1, 2>>,
                              !.sizes = <<2>>]
singleOptions ==
       ("single" :> single)
    @@ ("single immediate" :> [single EXCEPT !.immediate = TRUE])
    @@ ("single validated" :>
            [single EXCEPT !.validate = TRUE, !.inDest = TRUE])
    @@ ("single both" :> [single EXCEPT !.both = TRUE])
    @@ ("single both immediate" :>
            [single EXCEPT !.both = TRUE, !.immediate = TRUE])
    @@ ("single both validated" :>
            [single EXCEPT !.both = TRUE, !.immediate = TRUE, !.validate = TRUE,
                                    !.queues = <<>>])
    @@ ("single refused" :> [single EXCEPT !.queues = <<1, 2, 1>>])

\* One device with two others: regular lists use an engine for each of the
\* pairs, immediate ones can share one.
multiple == [peerOptions EXCEPT !.mode = "multiple", !.devices = <<1, 2, 3>>,
                                !.remote = <<2, 3>>, !.engines = 2, !.queues = <<1, 2>>]
oneEngine == [multiple EXCEPT !.engines = 1, !.queues = <<1>>, !.immediate = TRUE]
divided == [peerOptions EXCEPT !.engines = 2, !.queues = <<1, 2>>, !.divide = TRUE,
                               !.sizes = <<2>>, !.mode = "multiple"]
multipleOptions ==
       ("multiple" :> multiple)
    @@ ("multiple validated" :> [multiple EXCEPT !.validate = TRUE])
    @@ ("multiple immediate" :> oneEngine)
    @@ ("multiple both" :> [multiple EXCEPT !.both = TRUE])
    @@ ("multiple both immediate" :> [oneEngine EXCEPT !.both = TRUE])
    @@ ("multiple divided" :> [divided EXCEPT !.validate = TRUE])
    @@ ("multiple divided warm" :> divided)
    @@ ("multiple divided immediate" :> [divided EXCEPT !.immediate = TRUE])
    @@ ("multiple divided both" :> [divided EXCEPT !.both = TRUE])

pairs == [multiple EXCEPT !.mode = "pairs", !.pairs = <<<<1, 2>>, <<1, 3>>>>]
onePair == [divided EXCEPT !.mode = "pairs", !.pairs = <<<<1, 2>>>>]
pairOptions ==
       ("pairs" :> pairs)
    @@ ("pairs validated" :> [pairs EXCEPT !.validate = TRUE])
    @@ ("pairs immediate" :>
            [oneEngine EXCEPT !.mode = "pairs", !.pairs = pairs.pairs])
    @@ ("pairs both" :> [pairs EXCEPT !.both = TRUE])
    @@ ("pairs both immediate" :>
            [oneEngine EXCEPT !.mode = "pairs", !.pairs = pairs.pairs,
                                       !.both = TRUE])
    @@ ("pairs divided immediate" :> [onePair EXCEPT !.immediate = TRUE])

\* ze_peer with these options.
peer == plainOptions @@ singleOptions @@ multipleOptions @@ pairOptions
peerPrograms == [name \in DOMAIN peer |-> <<P!main(peer[name])>>]

\* Server and client processes for two sizes.
ipcValidated == [peerOptions EXCEPT !.validate = TRUE, !.warm = 0, !.iters = 1]
ipcPrograms ==
    LET ipc == ("ipc write" :> <<ipcValidated, 2>>)
            @@ ("ipc read" :> <<[ipcValidated EXCEPT !.write = FALSE, !.immediate = TRUE], 2>>)
            @@ ("ipc" :> <<peerOptions, 1>>)
    IN  [name \in DOMAIN ipc |-> P!run_ipc_test(ipc[name][1], ipc[name][2])]

-----------------------------------------------------------------------------
(* ze_peak.                                                                *)

\* No program has shared system memory: transfer_bw.cpp:123 would append to a
\* list that was closed at :96, against ListsAreUsedInTurn and KeepsDiscipline.
peakOptions ==
    [sub |-> 0, copyEngine |-> FALSE, eventTimer |-> FALSE, sharedSystem |-> FALSE,
     fp64 |-> TRUE, warm |-> 1, iters |-> 2, widths |-> 1, size |-> 2,
     runs |-> {"global_bw", "hp_compute", "sp_compute", "dp_compute", "int_compute",
               "transfer_bw", "kernel_lat"}]
peakPrograms ==
       ("peak" :> <<K!peak_main(peakOptions)>>)
    @@ ("peak events" :> <<K!peak_main([peakOptions EXCEPT !.eventTimer = TRUE,
                                            !.copyEngine = TRUE, !.widths = 2])>>)
    @@ ("peak sub-devices" :> <<K!peak_main([peakOptions EXCEPT !.sub = 2,
                                                 !.runs = {"transfer_bw"}])>>)

-----------------------------------------------------------------------------
(* ze_bandwidth, ze_image_copy and ze_pingpong.                            *)

bandwidthOptions ==
    [device_ids |-> <<1, 2>>, immediate |-> FALSE, verify |-> FALSE, query |-> FALSE,
     runs |-> {"host2dev", "dev2host", "bidirectional"}, transfer_size |-> <<1>>,
     warm |-> 1, iters |-> 2]
bandwidthPrograms ==
       ("bandwidth" :> <<B!main(bandwidthOptions)>>)
    @@ ("bandwidth immediate" :> <<B!main([bandwidthOptions EXCEPT !.immediate = TRUE])>>)
    @@ ("bandwidth verified" :> <<B!main([bandwidthOptions EXCEPT !.verify = TRUE,
                                              !.transfer_size = <<1, 2>>])>>)
    @@ ("bandwidth immediate verified" :>
            <<B!main([bandwidthOptions EXCEPT !.immediate = TRUE, !.verify = TRUE])>>)

\* The serial measurements count one copy, whatever their number.
image(id, copies) ==
    [id |-> id, copies |-> copies, warm |-> 1, iters |-> 2, validate |-> id = 1]
imagePrograms ==
       ("images" :> <<I!main(image(1, 1), image(2, 2))>>)
    @@ ("images in parallel" :>
            <<I!ZeImageCopy(image(1, 2)) \o I!measureParallelHost2Device(image(1, 2))
              \o I!measureParallelDevice2Host(image(1, 2))
              \o I!DestroyZeImageCopy(image(1, 2))>>)

MCPrograms ==
    peerPrograms @@ ipcPrograms
    @@ peakPrograms @@ bandwidthPrograms @@ imagePrograms @@ ("pingpong" :> <<G!main>>)

-----------------------------------------------------------------------------
(* The hypothesis of the theorems of LevelZeroProofs, for these programs.  *)

\* Calls lead from the new views to next ones, and so on, 2^n times.
RECURSIVE Walk(_, _)
Walk(n, views) ==
    IF views.new = {} THEN views
    ELSE IF n > 0 THEN Walk(n - 1, Walk(n - 1, views))
    ELSE LET known == views.known \cup views.new
             next == UNION {{ViewAfter(v, p) : p \in {x \in DOMAIN v.todo : MayCall(v, x)}} :
                            v \in views.new}
         IN  [known |-> known, new |-> next \ known]

\* No program makes more than 2^10 calls.
ViewsOf(scripts) == Walk(10, [known |-> {}, new |-> {FirstView(scripts)}]).known

\* Every program above makes its calls with the care that HostView describes:
\* it asks for nothing that is safe only because an engine happened to be quick.
\* For instance the host reads memory, resets an event or a list, or destroys a
\* buffer only after a synchronize that covers all that still uses it.
KeepsDiscipline ==
    Init => Covers(ViewsOf(todo), todo)
===============================================================================
