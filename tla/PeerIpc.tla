------------------------------- MODULE PeerIpc --------------------------------
(***************************************************************************)
(* ze_peer --ipc (perf_tests/ze_peer/src/ze_peer_ipc.cpp, run_ipc_test of  *)
(* ze_peer.cpp): a server and a client process for every buffer size.  The *)
(* server allocates a buffer on the remote device and sends its handle     *)
(* through a socket that all sizes share; the client copies between it and *)
(* a buffer of its own.  The first process waits for the server and the    *)
(* server for the client, its child.                                       *)
(*                                                                         *)
(* The processes of the k-th size are 2k (server) and 2k + 1 (client); the *)
(* devices and buffers of a process are named with its number.             *)
(***************************************************************************)
EXTENDS PeerCommon

Server(k) == 2 * k
Client(k) == 2 * k + 1

\* Device d as process p sees it, and the options of that process.
Seen(p, d) == <<p, d>>
Own(o, p) == [o EXCEPT !.devices = [i \in DOMAIN @ |-> Seen(p, @[i])]]

ze_buffer(p) == <<"buffer", p>>
ze_host_buffer(p) == <<"host_buffer", p>>
ze_host_validate_buffer(p) == <<"validate_buffer", p>>
opened(p) == <<"opened handle", p>>

set_up_ipc(o, p) ==
    memoryAlloc(ze_buffer(p), o.size)
    \o memoryAlloc(ze_host_buffer(p), o.size)
    \o memoryAlloc(ze_host_validate_buffer(p), o.size)

\* Fills the host's buffer and, for the side the data comes from, the device's.
initialize_buffers_ipc(o, p, d, isSource) ==
    hostDo(Fill(ze_host_buffer(p), Data)) \o hostDo(Fill(ze_host_validate_buffer(p), 0))
    \o If(isSource, RunAlone(o, Seen(p, d), 1,
                             Copy(ze_buffer(p), ze_host_buffer(p), AllParts(o))))

validate_buffer_ipc(o, p, d) ==
    RunAlone(o, Seen(p, d), 1,
             Copy(ze_host_validate_buffer(p), ze_buffer(p), AllParts(o)))
    \o hostExpect(ze_host_validate_buffer(p), Data)

FreeBuffers(p) ==
    Destroy(ze_buffer(p)) \o Destroy(ze_host_buffer(p))
    \o Destroy(ze_host_validate_buffer(p))

bandwidth_latency_ipc_client(o, k) ==
    LET p == Client(k)
        l == o.local[1]
        c == IF o.write THEN Copy(ze_buffer(Server(k)), ze_buffer(p), AllParts(o))
             ELSE Copy(ze_buffer(p), ze_buffer(Server(k)), AllParts(o))
    IN  set_up_ipc(o, p)
        \o initialize_buffers_ipc(o, p, l, o.write)
        \o receiveHandle(ze_buffer(Server(k))) \o Create(opened(p), <<>>)
        \o (IF o.immediate THEN perform_copy_immediate(o, Seen(p, l), 1, c)
            ELSE perform_copy(o, Seen(p, l), 1, c))
        \o If(~o.write /\ o.validate, validate_buffer_ipc(o, p, l))
        \o Destroy(opened(p)) \o FreeBuffers(p)

\* As it would be if the server did not wait for the client.
ServerDoesNotWait(o, k) ==
    LET p == Server(k)
    IN  set_up_ipc(o, p)
        \o initialize_buffers_ipc(o, p, o.remote[1], ~o.write)
        \o sendHandle(ze_buffer(p))
        \o FreeBuffers(p)

bandwidth_latency_ipc_server(o, k) ==
    LET p == Server(k)
        r == o.remote[1]
    IN  set_up_ipc(o, p)
        \o initialize_buffers_ipc(o, p, r, ~o.write)
        \o sendHandle(ze_buffer(p))
        \o wait(Client(k))
        \o If(o.write /\ o.validate, validate_buffer_ipc(o, p, r))
        \o FreeBuffers(p)

\* Both end with exit(0): no destructor runs, and the system takes back the
\* lists, queues and events of the process.
InProcess(o, p, calls) ==
    CreateEngines(Own(o, p)) \o Create(<<"event", p>>, <<>>) \o calls
    \o DestroyEngines(Own(o, p)) \o Destroy(<<"event", p>>)

ClientScript(o, k) == InProcess(o, Client(k), bandwidth_latency_ipc_client(o, k))
ServerScript(o, k) ==
    fork(Client(k)) \o InProcess(o, Server(k), bandwidth_latency_ipc_server(o, k))

\* As it would be if all sizes ran at once.
ParentDoesNotWait(sizes) == Repeat(sizes, LAMBDA k : fork(Server(k)))

ParentScript(sizes) ==
    Repeat(sizes, LAMBDA k : fork(Server(k)) \o wait(Server(k)))

\* The scripts of all processes, for this number of buffer sizes.
run_ipc_test(o, sizes) ==
    [p \in 1..(2 * sizes + 1) |->
        IF p = 1 THEN ParentScript(sizes)
        ELSE IF p % 2 = 0 THEN ServerScript(o, p \div 2)
        ELSE ClientScript(o, p \div 2)]
=============================================================================
