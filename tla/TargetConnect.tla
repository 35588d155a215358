---------------------------- MODULE TargetConnect ----------------------------
(***************************************************************************)
(* How a request gets its target: the client of                            *)
(* common/src/client_connection/authenticated.rs dials a proxy,            *)
(* authenticates and asks for the target; the server of proxy/src/server.rs*)
(* and connection/{auth,connect,responses,upstream}.rs checks the user,    *)
(* switches to the session key, connects to the target and answers.  In    *)
(* forward mode the proxy is itself a client of the next proxy, so that    *)
(* link l + 1 is opened by the server of link l; the client of link 1 is   *)
(* the agent.                                                              *)
(*                                                                         *)
(* A frame is [kind, ok, aes]; aes says whether it was encoded with the    *)
(* session key.  Frames are decoded when they are read.  A link is direct  *)
(* TCP or a Yamux stream with its session.  Timeouts may fire at any time. *)
(***************************************************************************)
EXTENDS Integers, Sequences

CONSTANTS HOPS,       \* proxies in the chain; all but the last are in forward mode
          Requests,   \* <<address, transport>>: "host", "ProxyDns" or "UdpRelay"; "tcp" or "udp"
          Remote,     \* addresses that a proxy's name resolves to, by family
          BIND,       \* the agent's bind_addr: a family or "none"
          MaxFaults   \* bound: links that break

ChainConstants == HOPS \in Nat \ {0} /\ Len(Remote) \in Nat

\* What the server finds: an unknown, expired or differently written user and a stale
\* timestamp are answered with an error, a key that cannot be decrypted is not.
Credentials == {"good", "refused", "undecryptable"}
Links == 1..HOPS

VARIABLES
    request,      \* what the agent asks for
    via, tries,   \* per link: "direct" or "yamux"; addresses tried
    client, caes, \* per link: the client's step; its cipher_state has the key
    server, saes, \* per link: the server's step; its cipher_state has the key
    cred,         \* per link: what is wrong with the client's credentials
    up, down,     \* per link: frames on their way
    broken,       \* per link
    target,       \* the last proxy's connection: "none", "open", "closed"
    faults

vars == <<request, via, tries, client, caes, server, saes, cred, up, down, broken, target, faults>>
fixed == <<request, via>>

ClientOver(l) == client[l] \in {"failed", "gone"}
ServerOver(l) == server[l] \in {"none", "done"}
addr == request[1]
transport == request[2]
Frame(kind, ok, aes) == [kind |-> kind, ok |-> ok, aes |-> aes]

\* UpstreamConnection::connect: TCP by a direct connection, UDP by Yamux.
upstream_via == IF transport = "tcp" THEN "direct" ELSE "yamux"

Init == /\ request \in Requests
        /\ via \in {[l \in Links |-> IF l = 1 THEN v ELSE upstream_via] : v \in {"direct", "yamux"}} /\ tries = [l \in Links |-> 0]
        /\ client = [l \in Links |-> "idle"] /\ caes = [l \in Links |-> FALSE]
        /\ server = [l \in Links |-> "none"] /\ saes = [l \in Links |-> FALSE]
        /\ cred \in [Links -> Credentials]
        /\ up = [l \in Links |-> <<>>] /\ down = [l \in Links |-> <<>>]
        /\ broken = [l \in Links |-> FALSE] /\ target = "none" /\ faults = 0

ClientGoes(l, s) == client' = [client EXCEPT ![l] = s]
ServerGoes(l, s) == server' = [server EXCEPT ![l] = s]

\* A server task ends, or is aborted: its target is closed and its client of the next
\* proxy is dropped.
ServerEnds(l) ==
    /\ ServerGoes(l, "done")
    /\ target' = IF l = HOPS /\ target = "open" THEN "closed" ELSE target
    /\ client' = IF l < HOPS /\ client[l + 1] # "idle" /\ ~ClientOver(l + 1) THEN [client EXCEPT ![l + 1] = "gone"] ELSE client

\* send_response: writing to a link that broke fails, to one that the client left may.
Sends(l, f) == /\ ~broken[l] /\ down' = [down EXCEPT ![l] = Append(@, f)]
-----------------------------------------------------------------------------
(* The client. *)

\* A request arrives at the agent, or at the server of the link before.
Ask(l) ==
    /\ client[l] = "idle" /\ (IF l = 1 THEN TRUE ELSE server[l - 1] = "upstream")
    /\ ClientGoes(l, "dial")
    /\ UNCHANGED <<fixed, tries, caes, server, saes, cred, up, down, broken, target, faults>>

\* connect_bound skips the addresses of another family; a forwarding proxy binds nothing.
usable(l, k) == l > 1 \/ BIND = "none" \/ Remote[k] = BIND

\* connect_tcp_stream: connect_bound and connect_unbound try the addresses in turn, and fail
\* after the last.
connect_tcp_stream(l) ==
    /\ client[l] = "dial"
    /\ \/ tries[l] < Len(Remote)
          /\ tries' = [tries EXCEPT ![l] = @ + 1]
          /\ \/ usable(l, tries'[l]) /\ ClientGoes(l, "dialled") /\ ServerGoes(l, "header")
             \/ UNCHANGED <<client, server>>
       \/ tries[l] = Len(Remote) /\ ClientGoes(l, "failed") /\ UNCHANGED <<tries, server>>
    /\ UNCHANGED <<fixed, caes, saes, cred, up, down, broken, target, faults>>

\* authenticate_stream: the private key is read and Auth sent in clear.
authenticate_stream(l) ==
    /\ client[l] = "dialled"
    /\ \/ ~broken[l] /\ ClientGoes(l, "auth") /\ up' = [up EXCEPT ![l] = Append(@, Frame("Auth", TRUE, caes[l]))]
       \/ ClientGoes(l, "failed") /\ UNCHANGED up
    /\ UNCHANGED <<fixed, tries, caes, server, saes, cred, down, broken, target, faults>>

\* The answer: from here on with the session key.
AuthResponse(l) ==
    /\ client[l] = "auth" /\ down[l] # <<>>
    /\ down' = [down EXCEPT ![l] = Tail(@)]
    /\ LET f == Head(down[l])
           ok == f.aes = caes[l] /\ f.kind = "Auth" /\ f.ok
       IN /\ ClientGoes(l, IF ok THEN "authenticated" ELSE "failed")
          /\ caes' = [caes EXCEPT ![l] = ok]
    /\ UNCHANGED <<fixed, tries, server, saes, cred, up, broken, target, faults>>

\* connect_to_target sends Connect ...
connect_to_target(l) ==
    /\ client[l] = "authenticated" /\ ~broken[l]
    /\ ClientGoes(l, "connect") /\ up' = [up EXCEPT ![l] = Append(@, Frame("Connect", TRUE, caes[l]))]
    /\ UNCHANGED <<fixed, tries, caes, server, saes, cred, down, broken, target, faults>>

\* ... and takes the answer.
ConnectResponse(l) ==
    /\ client[l] = "connect" /\ down[l] # <<>>
    /\ down' = [down EXCEPT ![l] = Tail(@)]
    /\ LET f == Head(down[l])
       IN ClientGoes(l, IF f.aes = caes[l] /\ f.kind = "Connect" /\ f.ok THEN "connected" ELSE "failed")
    /\ UNCHANGED <<fixed, tries, caes, server, saes, cred, up, broken, target, faults>>

\* The timeouts of the two answers, a closed link and a failed write: the stream is dropped.
ClientGivesUp(l) ==
    /\ client[l] \in {"auth", "authenticated", "connect"}
    /\ ClientGoes(l, "failed")
    /\ UNCHANGED <<fixed, tries, caes, server, saes, cred, up, down, broken, target, faults>>

\* The application behind the agent is done, or the agent's relay reads the end.
AgentLeaves ==
    /\ client[1] = "connected" /\ ClientGoes(1, "gone")
    /\ UNCHANGED <<fixed, tries, caes, server, saes, cred, up, down, broken, target, faults>>
-----------------------------------------------------------------------------
(* The server: the connection, its Yamux session and the protocol stream. *)

\* handle_connection: peek_connection_header decides between a direct connection and a
\* session; a session accepts the stream and spawns its task.
handle_connection(l) ==
    /\ server[l] = "header" /\ up[l] # <<>>
    /\ ServerGoes(l, "peek")
    /\ UNCHANGED <<fixed, tries, client, caes, saes, cred, up, down, broken, target, faults>>

\* The header's timeout and the auth_timeout, which covers everything up to the switch of
\* the key; Connect has a timeout of its own.
ServerGivesUp(l) ==
    /\ server[l] \in {"header", "peek", "lookup", "answered", "wait"}
    /\ ServerEnds(l)
    /\ UNCHANGED <<fixed, tries, caes, saes, cred, up, down, broken, faults>>

\* The stream ends where a frame is expected.
ServerReadsEnd(l) ==
    /\ server[l] \in {"header", "peek", "wait"} /\ up[l] = <<>> /\ (ClientOver(l) \/ broken[l])
    /\ ServerEnds(l)
    /\ UNCHANGED <<fixed, tries, caes, saes, cred, up, down, broken, faults>>

\* The session of a Yamux link ends: handle_connection aborts the task of the stream.
abort_stream_tasks(l) ==
    /\ via[l] = "yamux" /\ broken[l] /\ ~ServerOver(l)
    /\ ServerEnds(l)
    /\ UNCHANGED <<fixed, tries, caes, saes, cred, up, down, broken, faults>>

\* read_request: the first frame is Auth; peek_auth_username keeps it.
peek_auth_username(l) ==
    /\ server[l] = "peek" /\ up[l] # <<>>
    /\ up' = [up EXCEPT ![l] = Tail(@)]
    /\ IF Head(up[l]) = Frame("Auth", TRUE, saes[l])
       THEN ServerGoes(l, "lookup") /\ UNCHANGED <<client, target>>
       ELSE ServerEnds(l)
    /\ UNCHANGED <<fixed, tries, caes, saes, cred, down, broken, faults>>

\* get_user and authenticate refuse: with an answer, or without one when the key cannot be
\* decrypted.
send_auth_error(l) ==
    /\ server[l] = "lookup" /\ cred[l] # "good"
    /\ \/ cred[l] = "refused" /\ Sends(l, Frame("Auth", FALSE, saes[l]))
       \/ cred[l] = "undecryptable" /\ UNCHANGED down
       \/ broken[l] /\ UNCHANGED down
    /\ ServerEnds(l)
    /\ UNCHANGED <<fixed, tries, caes, saes, cred, up, broken, faults>>

\* Faulty variant: the key is switched on before the answer is sent.
authenticate_encrypted(l) ==
    /\ server[l] = "lookup" /\ cred[l] = "good" /\ Sends(l, Frame("Auth", TRUE, TRUE)) /\ ServerGoes(l, "answered")
    /\ UNCHANGED <<fixed, tries, client, caes, saes, cred, up, broken, target, faults>>

\* authenticate: the answer leaves in clear; the agent may use the key from now on ...
authenticate(l) ==
    /\ server[l] = "lookup" /\ cred[l] = "good"
    /\ \/ Sends(l, Frame("Auth", TRUE, saes[l])) /\ ServerGoes(l, "answered") /\ UNCHANGED <<client, target>>
       \/ broken[l] /\ ServerEnds(l) /\ UNCHANGED down
    /\ UNCHANGED <<fixed, tries, caes, saes, cred, up, broken, faults>>

\* ... and the server does before it reads again.
SetCipher(l) ==
    /\ server[l] = "answered" /\ ServerGoes(l, "wait") /\ saes' = [saes EXCEPT ![l] = TRUE]
    /\ UNCHANGED <<fixed, tries, client, caes, cred, up, down, broken, target, faults>>

\* Faulty variant: a forwarding proxy answers before its upstream has.
handle_connect_eager(l) ==
    IF l < HOPS THEN "success" ELSE IF addr = "UdpRelay" THEN "success" ELSE "target"

\* handle_connect: where the request goes.  target_addr_for_address has no address for
\* ProxyDns when no nameserver is known, and the stream is closed without an answer.
handle_connect(l) ==
    IF addr = "UdpRelay" /\ transport # "udp" THEN "error"
    ELSE IF l < HOPS THEN "upstream"
    ELSE IF addr = "UdpRelay" THEN "success" ELSE "target"

\* handle_connect_request: anything but Connect is ignored.
handle_connect_request(l) ==
    /\ server[l] = "wait" /\ up[l] # <<>>
    /\ up' = [up EXCEPT ![l] = Tail(@)]
    /\ IF Head(up[l]).aes # saes[l] THEN ServerEnds(l)
       ELSE \/ ServerGoes(l, IF Head(up[l]).kind = "Connect" THEN handle_connect(l) ELSE "wait") /\ UNCHANGED <<client, target>>
            \/ Head(up[l]).kind = "Connect" /\ handle_connect(l) = "target" /\ addr = "ProxyDns" /\ ServerEnds(l)
    /\ UNCHANGED <<fixed, tries, caes, saes, cred, down, broken, faults>>

\* handle_tcp_connect within connect_timeout, and handle_udp_connect.
handle_target(l) ==
    /\ server[l] = "target"
    /\ \/ ServerGoes(l, "success") /\ target' = "open"
       \/ ServerGoes(l, "error") /\ UNCHANGED target
    /\ UNCHANGED <<fixed, tries, client, caes, saes, cred, up, down, broken, faults>>

\* Faulty variant: a failed upstream is not reported.
handle_upstream_connect_deaf(l) ==
    /\ server[l] = "upstream" /\ client[l + 1] = "connected" /\ ServerGoes(l, "success")
    /\ UNCHANGED <<fixed, tries, client, caes, saes, cred, up, down, broken, target, faults>>

\* handle_upstream_connect: UpstreamConnection::connect has its stream, or has failed.
handle_upstream_connect(l) ==
    /\ server[l] = "upstream"
    /\ \/ client[l + 1] = "connected" /\ ServerGoes(l, "success")
       \/ client[l + 1] = "failed" /\ ServerGoes(l, "error")
    /\ UNCHANGED <<fixed, tries, client, caes, saes, cred, up, down, broken, target, faults>>

\* send_connect_success and then the relay; a failed write ends the task.
send_connect_success(l) ==
    /\ server[l] = "success"
    /\ \/ Sends(l, Frame("Connect", TRUE, saes[l])) /\ ServerGoes(l, "relay") /\ UNCHANGED <<client, target>>
       \/ (broken[l] \/ ClientOver(l)) /\ ServerEnds(l) /\ UNCHANGED down
    /\ UNCHANGED <<fixed, tries, caes, saes, cred, up, broken, faults>>

\* send_connect_error ends the task in any case.
send_connect_error(l) ==
    /\ server[l] = "error"
    /\ \/ Sends(l, Frame("Connect", FALSE, saes[l])) \/ ((broken[l] \/ ClientOver(l)) /\ UNCHANGED down)
    /\ ServerEnds(l)
    /\ UNCHANGED <<fixed, tries, caes, saes, cred, up, broken, faults>>

\* The relay, here only its end: the client's, the target's, the next proxy's, or by its
\* timers.
RelayEnds(l) ==
    /\ server[l] = "relay" /\ ServerEnds(l)
    /\ UNCHANGED <<fixed, tries, caes, saes, cred, up, down, broken, faults>>

\* The connection under a link breaks: frames on it are lost.
LinkBreaks(l) ==
    /\ faults < MaxFaults /\ faults' = faults + 1
    /\ client[l] \notin {"idle", "dial"} /\ ~broken[l] /\ broken' = [broken EXCEPT ![l] = TRUE]
    /\ up' = [up EXCEPT ![l] = <<>>] /\ down' = [down EXCEPT ![l] = <<>>]
    /\ UNCHANGED <<fixed, tries, client, caes, server, saes, cred, target>>

ClientStep(l) == \/ connect_tcp_stream(l) \/ authenticate_stream(l) \/ AuthResponse(l)
                 \/ connect_to_target(l) \/ ConnectResponse(l) \/ ClientGivesUp(l)
ServerStep(l) == \/ handle_connection(l) \/ ServerGivesUp(l) \/ ServerReadsEnd(l) \/ abort_stream_tasks(l)
                 \/ peek_auth_username(l) \/ send_auth_error(l) \/ authenticate(l) \/ SetCipher(l)
                 \/ handle_connect_request(l) \/ handle_target(l)
                 \/ (l < HOPS /\ handle_upstream_connect(l))
                 \/ send_connect_success(l) \/ send_connect_error(l)

Next == \/ \E l \in Links : Ask(l) \/ ClientStep(l) \/ ServerStep(l) \/ RelayEnds(l) \/ LinkBreaks(l)
        \/ AgentLeaves

\* Every wait of client and server has a timeout or an end (the resolver and writes to a
\* link that is up are taken to return); a forwarding server runs the client of the next
\* link.  A relay ends by its timers once its client is over.
WeaklyFair(i) ==
    LET l == 1 + (i - 1) \div 2
    IN /\ l \in Links
       /\ IF i % 2 = 1 THEN ClientStep(l) \/ (l > 1 /\ Ask(l))
                       ELSE ServerStep(l) \/ (ClientOver(l) /\ RelayEnds(l))

Spec == Init /\ [][Next]_vars /\ \A i \in 1..(2 * HOPS) : WF_vars(WeaklyFair(i))
-----------------------------------------------------------------------------
TypeOK == /\ request \in Requests
          /\ \A l \in Links : /\ tries[l] \in 0..Len(Remote) /\ Len(up[l]) <= 1 /\ Len(down[l]) <= 1
                              /\ caes[l] \in BOOLEAN /\ saes[l] \in BOOLEAN
          /\ target \in {"none", "open", "closed"}

\* Both sides switch to the session key in step, although the agent may answer the
\* AuthResponse before the proxy has stored the key: whoever reads a frame reads it with
\* the cipher it was written with (auth.rs authenticate, authenticated.rs
\* authenticate_stream).
FramesMatchCipher ==
    \A l \in Links :
        /\ server[l] \in {"peek", "wait"} /\ up[l] # <<>> => Head(up[l]).aes = saes[l]
        /\ client[l] \in {"auth", "connect"} /\ down[l] # <<>> => Head(down[l]).aes = caes[l]

\* An agent that was told "connected" got its target through every hop of the chain: the
\* last proxy did connect (or runs the shared UDP relay), and each hop had accepted its
\* client's credentials (connect.rs handle_upstream_connect).
ToldIsTrue ==
    client[1] = "connected" =>
        /\ addr # "UdpRelay" => target # "none"
        /\ \A l \in Links : cred[l] = "good" /\ server[l] \in {"relay", "done"}

\* A target is open only for a task that is alive and for credentials that were good at
\* every hop.
TargetHasOwner ==
    target = "open" => server[HOPS] \in {"success", "relay"} /\ \A l \in Links : cred[l] = "good"

\* A request ends, with its target or with an error, whatever a proxy of the chain does.
RequestIsAnswered == client[1] = "dial" ~> client[1] \in {"connected", "failed", "gone"}

\* When the agent is gone, by a timeout too, no proxy of the chain keeps its task or target.
ChainIsReleased == ClientOver(1) ~> \A l \in Links : ServerOver(l) /\ target # "open"
=============================================================================
