--------------------------- MODULE ServicesProofs --------------------------
(***************************************************************************)
(* Proofs about the modules of MCServices: a client that is told that it is*)
(* connected has its target through a chain of any length, and frames are  *)
(* read with the cipher they were written with (TargetConnect); however    *)
(* tasks fail, one generation of the network stack runs at a time          *)
(* (Netstack, TunMode, AndroidVpn); and every connection of the shared     *)
(* proxy is listed (AndroidProxy).                                         *)
(***************************************************************************)
EXTENDS MCServices, TLAPS

(***************************************************************************)
(* The chain of proxies.                                                   *)
(***************************************************************************)
Links == 1..HOPS
NoFrame == <<>>
AuthSent == <<Chain!Frame("Auth", TRUE, FALSE)>>
AuthRefused == <<Chain!Frame("Auth", FALSE, FALSE)>>
ConnectSent == <<Chain!Frame("Connect", TRUE, TRUE)>>
ConnectRefused == <<Chain!Frame("Connect", FALSE, TRUE)>>

ClientStates == {"idle", "dial", "dialled", "auth", "authenticated", "connect", "connected", "failed", "gone"}
ServerStates == {"none", "header", "peek", "lookup", "answered", "wait", "upstream", "target", "success",
                 "error", "relay", "done"}

ChainTyped ==
    /\ request \in Requests /\ tries \in [Links -> 0..Len(Remote)]
    /\ client \in [Links -> ClientStates] /\ connect_server \in [Links -> ServerStates]
    /\ caes \in [Links -> BOOLEAN] /\ saes \in [Links -> BOOLEAN] /\ broken \in [Links -> BOOLEAN]
    /\ cred \in [Links -> Chain!Credentials]
    /\ up \in [Links -> {NoFrame, AuthSent, ConnectSent}]
    /\ down \in [Links -> {NoFrame, AuthSent, AuthRefused, ConnectSent, ConnectRefused}]
    /\ target \in {"none", "open", "closed"}

\* A client (c, with key ce) and a server (s, with key se) of one link, and the frames u and d
\* between them: they take turns.
ClientTurn(c, ce, s, u, d) ==
    /\ c \in {"idle", "dial", "dialled", "auth"} => ~ce
    /\ c \in {"authenticated", "connect", "connected"} => ce
    /\ c \in {"idle", "dial"} => s = "none"
    /\ c = "dialled" => s \in {"header", "done"}
    /\ c \in {"idle", "dial", "dialled", "authenticated"} => u = NoFrame /\ d = NoFrame
    /\ c = "authenticated" => s \in {"answered", "wait", "done"}
    /\ c = "connect" => s \notin {"none", "header", "peek", "lookup"}
ServerTurn(c, s, se, u, d) ==
    /\ s \in {"none", "header", "peek", "lookup", "answered"} => ~se
    /\ s \in {"wait", "upstream", "target", "success", "error", "relay"} => se
    /\ s \in {"peek", "lookup"} => c \in {"auth", "failed", "gone"}
    /\ s \in {"upstream", "target", "success", "error"} => c \in {"connect", "failed", "gone"}
    /\ s \in {"none", "header", "peek", "lookup", "upstream", "target", "success", "error"} => d = NoFrame
    /\ s \in {"none", "lookup", "upstream", "target", "success", "error", "relay"} => u = NoFrame
FrameTurn(c, s, u, d) ==
    /\ u = AuthSent => c \in {"auth", "failed", "gone"} /\ s \in {"header", "peek", "done"}
    /\ u = ConnectSent => c \in {"connect", "failed", "gone"} /\ s \in {"answered", "wait", "done"} /\ d = NoFrame
    /\ d \in {AuthSent, AuthRefused} => c \in {"auth", "failed", "gone"} /\ u = NoFrame
    /\ d = AuthSent => s \in {"answered", "wait", "done"}
    /\ d \in {ConnectSent, ConnectRefused} => c \in {"connect", "failed", "gone"} /\ s \in {"relay", "done"}
GoodTurn(c, s, d) ==
    \/ s \in {"answered", "wait", "upstream", "target", "success", "error", "relay"}
    \/ c \in {"authenticated", "connect", "connected"} \/ d = AuthSent

LinkInv(l) ==
    /\ ClientTurn(client[l], caes[l], connect_server[l], up[l], down[l])
    /\ ServerTurn(client[l], connect_server[l], saes[l], up[l], down[l])
    /\ FrameTurn(client[l], connect_server[l], up[l], down[l])
    /\ GoodTurn(client[l], connect_server[l], down[l]) => cred[l] = "good"
    /\ connect_server[l] = "target" => l = HOPS

\* From link l on everything is connected, or was.
Through(l) ==
    /\ Chain!addr # "UdpRelay" => target # "none"
    /\ \A m \in Links : m >= l => cred[m] = "good" /\ connect_server[m] \in {"relay", "done"}

ChainInv ==
    /\ ChainTyped /\ \A l \in Links : LinkInv(l)
    /\ \A l \in Links : client[l] = "connected" \/ down[l] = ConnectSent \/ connect_server[l] = "relay" => Through(l)
    /\ \A l \in Links : connect_server[l] = "success" => Through(l + 1)
    /\ \A l \in Links : client[l] # "idle" => \A m \in Links : m < l => cred[m] = "good"
    /\ target = "open" => connect_server[HOPS] \in {"success", "relay"}

LEMMA Frames ==
    /\ NoFrame # AuthSent /\ NoFrame # AuthRefused /\ NoFrame # ConnectSent /\ NoFrame # ConnectRefused
    /\ AuthSent # AuthRefused /\ AuthSent # ConnectSent /\ AuthSent # ConnectRefused
    /\ AuthRefused # ConnectSent /\ AuthRefused # ConnectRefused /\ ConnectSent # ConnectRefused
    /\ Append(NoFrame, Chain!Frame("Auth", TRUE, FALSE)) = AuthSent
    /\ Append(NoFrame, Chain!Frame("Auth", FALSE, FALSE)) = AuthRefused
    /\ Append(NoFrame, Chain!Frame("Connect", TRUE, TRUE)) = ConnectSent
    /\ Append(NoFrame, Chain!Frame("Connect", FALSE, TRUE)) = ConnectRefused
    /\ Tail(AuthSent) = NoFrame /\ Tail(AuthRefused) = NoFrame
    /\ Tail(ConnectSent) = NoFrame /\ Tail(ConnectRefused) = NoFrame
  BY DEF NoFrame, AuthSent, AuthRefused, ConnectSent, ConnectRefused, Chain!Frame

LEMMA Heads ==
    /\ Head(AuthSent) = Chain!Frame("Auth", TRUE, FALSE)
    /\ Head(AuthSent).kind = "Auth" /\ Head(AuthSent).ok /\ Head(AuthSent).aes = FALSE
    /\ Head(AuthRefused).kind = "Auth" /\ ~Head(AuthRefused).ok /\ Head(AuthRefused).aes = FALSE
    /\ Head(ConnectSent).kind = "Connect" /\ Head(ConnectSent).ok /\ Head(ConnectSent).aes = TRUE
    /\ Head(ConnectRefused).kind = "Connect" /\ ~Head(ConnectRefused).ok /\ Head(ConnectRefused).aes = TRUE
    /\ Head(ConnectSent) # Chain!Frame("Auth", TRUE, FALSE)
  BY DEF AuthSent, AuthRefused, ConnectSent, ConnectRefused, Chain!Frame

\* A step of link l leaves the other links alone, except that the client of the next link goes
\* with the server that runs it.
Others(l) ==
    /\ request' = request /\ cred' = cred
    /\ \A m \in Links \ {l} :
          /\ caes'[m] = caes[m] /\ connect_server'[m] = connect_server[m] /\ saes'[m] = saes[m]
          /\ up'[m] = up[m] /\ down'[m] = down[m]
          /\ client'[m] = client[m] \/ (client'[m] = "gone" /\ client[m] # "idle")

\* What a step of link l can bring about, and from what.
Effect(l) ==
    /\ client'[l] = "connected" => client[l] = "connected" \/ down[l] = ConnectSent
    /\ down'[l] = ConnectSent => down[l] = ConnectSent \/ connect_server[l] = "success"
    /\ connect_server'[l] = "relay" => connect_server[l] \in {"relay", "success"}
    /\ connect_server'[l] = "success" =>
          \/ connect_server[l] = "success"
          \/ l \in Links /\ l + 1 \in Links /\ client[l + 1] = "connected"
          \/ l = HOPS /\ (Chain!addr = "UdpRelay" \/ target' = "open")
    /\ connect_server[l] \in {"relay", "done"} => connect_server'[l] \in {"relay", "done"}
    /\ client'[l] # "idle" => client[l] # "idle" \/ l = 1 \/ (l - 1 \in Links /\ connect_server[l - 1] = "upstream")
    /\ target # "none" => target' # "none"
    /\ target' = "open" =>
          \/ l = HOPS /\ connect_server'[l] = "success"
          \/ target = "open" /\ (l = HOPS /\ connect_server[l] \in {"success", "relay"} => connect_server'[l] \in {"success", "relay"})

Moved(l) == ChainTyped' /\ LinkInv(l)' /\ Others(l) /\ Effect(l)

\* ServerEnds, as the invariant sees it.
Ended(l) ==
    /\ connect_server' = [connect_server EXCEPT ![l] = "done"]
    /\ client' \in [Links -> ClientStates] /\ client'[l] = client[l]
    /\ \A m \in Links : client'[m] = client[m] \/ (client'[m] = "gone" /\ client[m] # "idle")
    /\ target' \in {"none", "open", "closed"} /\ (target # "none" => target' # "none")
    /\ target' = "open" => target = "open" /\ l # HOPS

LEMMA EndOfServer ==
    ASSUME ChainTyped, NEW l \in Links, Chain!ServerEnds(l), HOPS \in Nat
    PROVE  Ended(l)
  BY DEF Ended, ChainTyped, Links, ClientStates, Chain!ServerEnds, Chain!ServerGoes, Chain!ClientOver

LEMMA AskStep ==
    ASSUME Chain!ChainConstants, ChainTyped, NEW l \in Links, LinkInv(l), Chain!Ask(l)
    PROVE  Moved(l)
<1>0. HOPS \in Nat /\ Len(Remote) \in Nat
  BY DEF Chain!ChainConstants
<1>1. /\ client' = [client EXCEPT ![l] = "dial"] /\ client[l] = "idle"
      /\ l = 1 \/ connect_server[l - 1] = "upstream"
      /\ UNCHANGED <<request, tries, caes, connect_server, saes, cred, up, down, broken, target>>
  BY <1>0 DEF ChainTyped, Links, LinkInv, ClientTurn, ServerTurn, FrameTurn, Chain!Ask, Chain!fixed, Chain!ClientGoes
<1>2. ChainTyped'
  BY <1>0, <1>1, Frames DEF ChainTyped, ClientStates, ServerStates
<1>3. LinkInv(l)'
  BY <1>0, <1>1, Frames DEF ChainTyped, LinkInv, ClientTurn, ServerTurn, FrameTurn, GoodTurn
<1>4. Others(l)
  BY <1>0, <1>1, Frames DEF ChainTyped, Others
<1>5. Effect(l)
  BY <1>0, <1>1, Frames DEF ChainTyped, Links, Effect, LinkInv, ClientTurn, ServerTurn, FrameTurn
<1> QED
  BY <1>2, <1>3, <1>4, <1>5 DEF Moved

LEMMA DialStep ==
    ASSUME Chain!ChainConstants, ChainTyped, NEW l \in Links, LinkInv(l), Chain!connect_tcp_stream(l)
    PROVE  Moved(l)
<1>0. HOPS \in Nat /\ Len(Remote) \in Nat
  BY DEF Chain!ChainConstants
<1>p. tries' \in [Links -> 0..Len(Remote)] /\ client[l] = "dial"
  BY <1>0 DEF ChainTyped, Chain!connect_tcp_stream
<1>1. /\ client[l] = "dial"
      /\ tries' \in [Links -> 0..Len(Remote)]
      /\ \/ client' = [client EXCEPT ![l] = "dialled"] /\ connect_server' = [connect_server EXCEPT ![l] = "header"]
         \/ UNCHANGED <<client, connect_server>>
         \/ client' = [client EXCEPT ![l] = "failed"] /\ UNCHANGED connect_server
      /\ UNCHANGED <<request, caes, saes, cred, up, down, broken, target>>
  BY <1>0, <1>p DEF ChainTyped, Links, LinkInv, ClientTurn, ServerTurn, FrameTurn, Chain!connect_tcp_stream, Chain!fixed, Chain!ClientGoes, Chain!ServerGoes
<1>2. ChainTyped'
  BY <1>0, <1>1, Frames DEF ChainTyped, ClientStates, ServerStates
<1>3. LinkInv(l)'
  BY <1>0, <1>1, Frames, ZenonT(60) DEF ChainTyped, LinkInv, ClientTurn, ServerTurn, FrameTurn, GoodTurn
<1>4. Others(l)
  BY <1>0, <1>1, Frames DEF ChainTyped, Others
<1>5. Effect(l)
  BY <1>0, <1>1, Frames DEF ChainTyped, Links, Effect, LinkInv, ClientTurn, ServerTurn, FrameTurn
<1> QED
  BY <1>2, <1>3, <1>4, <1>5 DEF Moved

LEMMA AuthenticateStreamStep ==
    ASSUME Chain!ChainConstants, ChainTyped, NEW l \in Links, LinkInv(l), Chain!authenticate_stream(l)
    PROVE  Moved(l)
<1>0. HOPS \in Nat /\ Len(Remote) \in Nat
  BY DEF Chain!ChainConstants
<1>1. /\ client[l] = "dialled" /\ up[l] = NoFrame /\ caes[l] = FALSE
      /\ \/ client' = [client EXCEPT ![l] = "auth"] /\ up' = [up EXCEPT ![l] = AuthSent]
         \/ client' = [client EXCEPT ![l] = "failed"] /\ UNCHANGED up
      /\ UNCHANGED <<request, tries, caes, connect_server, saes, cred, down, broken, target>>
  BY <1>0, Frames DEF ChainTyped, Links, LinkInv, ClientTurn, ServerTurn, FrameTurn, Chain!authenticate_stream, Chain!fixed, Chain!ClientGoes
<1>2. ChainTyped'
  BY <1>0, <1>1, Frames DEF ChainTyped, ClientStates, ServerStates
<1>3. LinkInv(l)'
  BY <1>0, <1>1, Frames, ZenonT(60) DEF ChainTyped, LinkInv, ClientTurn, ServerTurn, FrameTurn, GoodTurn
<1>4. Others(l)
  BY <1>0, <1>1, Frames DEF ChainTyped, Others
<1>5. Effect(l)
  BY <1>0, <1>1, Frames DEF ChainTyped, Links, Effect, LinkInv, ClientTurn, ServerTurn, FrameTurn
<1> QED
  BY <1>2, <1>3, <1>4, <1>5 DEF Moved

LEMMA AuthResponseStep ==
    ASSUME Chain!ChainConstants, ChainTyped, NEW l \in Links, LinkInv(l), Chain!AuthResponse(l)
    PROVE  Moved(l)
<1>0. HOPS \in Nat /\ Len(Remote) \in Nat
  BY DEF Chain!ChainConstants
<1>p. down[l] \in {AuthSent, AuthRefused, ConnectSent, ConnectRefused}
  BY Frames DEF ChainTyped, NoFrame, Chain!AuthResponse
<1>q. client[l] = "auth" /\ caes[l] = FALSE /\ down[l] \in {AuthSent, AuthRefused} /\ Tail(down[l]) = NoFrame /\ Head(down[l]).aes = caes[l] /\ Head(down[l]).kind = "Auth" /\ (Head(down[l]).ok <=> down[l] = AuthSent)
  BY <1>p, Frames, Heads, ZenonT(60) DEF ChainTyped, LinkInv, ClientTurn, FrameTurn, Chain!AuthResponse
<1>1. /\ client[l] = "auth" /\ down[l] \in {AuthSent, AuthRefused} /\ caes[l] = FALSE
      /\ down' = [down EXCEPT ![l] = NoFrame]
      /\ \/ down[l] = AuthSent /\ client' = [client EXCEPT ![l] = "authenticated"] /\ caes' = [caes EXCEPT ![l] = TRUE]
         \/ client' = [client EXCEPT ![l] = "failed"] /\ caes' = [caes EXCEPT ![l] = FALSE]
      /\ UNCHANGED <<request, tries, connect_server, saes, cred, up, broken, target>>
  BY <1>0, <1>p, <1>q, Frames, Heads DEF ChainTyped, Links, Chain!AuthResponse, Chain!fixed, Chain!ClientGoes
<1>2. ChainTyped'
  BY <1>0, <1>1, Frames DEF ChainTyped, ClientStates, ServerStates
<1>3. LinkInv(l)'
  BY <1>0, <1>1, Frames, SMTT(60) DEF ChainTyped, LinkInv, ClientTurn, ServerTurn, FrameTurn, GoodTurn
<1>4. Others(l)
  BY <1>0, <1>1, Frames DEF ChainTyped, Others
<1>5. Effect(l)
  BY <1>0, <1>1, Frames DEF ChainTyped, Links, Effect, LinkInv, ClientTurn, ServerTurn, FrameTurn
<1> QED
  BY <1>2, <1>3, <1>4, <1>5 DEF Moved

LEMMA ConnectStep ==
    ASSUME Chain!ChainConstants, ChainTyped, NEW l \in Links, LinkInv(l), Chain!connect_to_target(l)
    PROVE  Moved(l)
<1>0. HOPS \in Nat /\ Len(Remote) \in Nat
  BY DEF Chain!ChainConstants
<1>1. /\ client[l] = "authenticated" /\ up[l] = NoFrame /\ caes[l] = TRUE
      /\ client' = [client EXCEPT ![l] = "connect"] /\ up' = [up EXCEPT ![l] = ConnectSent]
      /\ UNCHANGED <<request, tries, caes, connect_server, saes, cred, down, broken, target>>
  BY <1>0, Frames DEF ChainTyped, Links, LinkInv, ClientTurn, ServerTurn, FrameTurn, Chain!connect_to_target, Chain!fixed, Chain!ClientGoes
<1>2. ChainTyped'
  BY <1>0, <1>1, Frames DEF ChainTyped, ClientStates, ServerStates
<1>3. LinkInv(l)'
  BY <1>0, <1>1, Frames DEF ChainTyped, LinkInv, ClientTurn, ServerTurn, FrameTurn, GoodTurn
<1>4. Others(l)
  BY <1>0, <1>1, Frames DEF ChainTyped, Others
<1>5. Effect(l)
  BY <1>0, <1>1, Frames DEF ChainTyped, Links, Effect, LinkInv, ClientTurn, ServerTurn, FrameTurn
<1> QED
  BY <1>2, <1>3, <1>4, <1>5 DEF Moved

LEMMA ConnectResponseStep ==
    ASSUME Chain!ChainConstants, ChainTyped, NEW l \in Links, LinkInv(l), Chain!ConnectResponse(l)
    PROVE  Moved(l)
<1>0. HOPS \in Nat /\ Len(Remote) \in Nat
  BY DEF Chain!ChainConstants
<1>p. down[l] \in {AuthSent, AuthRefused, ConnectSent, ConnectRefused}
  BY Frames DEF ChainTyped, NoFrame, Chain!ConnectResponse
<1>1. /\ client[l] = "connect" /\ down[l] \in {ConnectSent, ConnectRefused}
      /\ down' = [down EXCEPT ![l] = NoFrame]
      /\ \/ down[l] = ConnectSent /\ client' = [client EXCEPT ![l] = "connected"]
         \/ client' = [client EXCEPT ![l] = "failed"]
      /\ UNCHANGED <<request, tries, caes, connect_server, saes, cred, up, broken, target>>
  BY <1>0, <1>p, Frames, Heads, ZenonT(60) DEF ChainTyped, Links, LinkInv, ClientTurn, ServerTurn, FrameTurn, Chain!ConnectResponse, Chain!fixed, Chain!ClientGoes
<1>2. ChainTyped'
  BY <1>0, <1>1, Frames DEF ChainTyped, ClientStates, ServerStates
<1>3. LinkInv(l)'
  BY <1>0, <1>1, Frames, ZenonT(60) DEF ChainTyped, LinkInv, ClientTurn, ServerTurn, FrameTurn, GoodTurn
<1>4. Others(l)
  BY <1>0, <1>1, Frames DEF ChainTyped, Others
<1>5. Effect(l)
  BY <1>0, <1>1, Frames DEF ChainTyped, Links, Effect, LinkInv, ClientTurn, ServerTurn, FrameTurn
<1> QED
  BY <1>2, <1>3, <1>4, <1>5 DEF Moved

LEMMA ClientGivesUpStep ==
    ASSUME Chain!ChainConstants, ChainTyped, NEW l \in Links, LinkInv(l), Chain!ClientGivesUp(l)
    PROVE  Moved(l)
<1>0. HOPS \in Nat /\ Len(Remote) \in Nat
  BY DEF Chain!ChainConstants
<1>1. /\ client[l] \in {"auth", "authenticated", "connect"}
      /\ client' = [client EXCEPT ![l] = "failed"]
      /\ UNCHANGED <<request, tries, caes, connect_server, saes, cred, up, down, broken, target>>
  BY <1>0 DEF ChainTyped, Links, LinkInv, ClientTurn, ServerTurn, FrameTurn, Chain!ClientGivesUp, Chain!fixed, Chain!ClientGoes
<1>2. ChainTyped'
  BY <1>0, <1>1, Frames DEF ChainTyped, ClientStates, ServerStates
<1>3. LinkInv(l)'
  BY <1>0, <1>1, Frames DEF ChainTyped, LinkInv, ClientTurn, ServerTurn, FrameTurn, GoodTurn
<1>4. Others(l)
  BY <1>0, <1>1, Frames DEF ChainTyped, Others
<1>5. Effect(l)
  BY <1>0, <1>1, Frames DEF ChainTyped, Links, Effect, LinkInv, ClientTurn, ServerTurn, FrameTurn
<1> QED
  BY <1>2, <1>3, <1>4, <1>5 DEF Moved

LEMMA AgentLeavesStep ==
    ASSUME Chain!ChainConstants, ChainTyped, NEW l \in Links, LinkInv(l), Chain!AgentLeaves, l = 1
    PROVE  Moved(l)
<1>0. HOPS \in Nat /\ Len(Remote) \in Nat
  BY DEF Chain!ChainConstants
<1>1. /\ client[l] = "connected" /\ client' = [client EXCEPT ![l] = "gone"]
      /\ UNCHANGED <<request, tries, caes, connect_server, saes, cred, up, down, broken, target>>
  BY <1>0 DEF ChainTyped, Links, LinkInv, ClientTurn, ServerTurn, FrameTurn, Chain!AgentLeaves, Chain!fixed, Chain!ClientGoes
<1>2. ChainTyped'
  BY <1>0, <1>1, Frames DEF ChainTyped, ClientStates, ServerStates
<1>3. LinkInv(l)'
  BY <1>0, <1>1, Frames DEF ChainTyped, LinkInv, ClientTurn, ServerTurn, FrameTurn, GoodTurn
<1>4. Others(l)
  BY <1>0, <1>1, Frames DEF ChainTyped, Others
<1>5. Effect(l)
  BY <1>0, <1>1, Frames DEF ChainTyped, Links, Effect, LinkInv, ClientTurn, ServerTurn, FrameTurn
<1> QED
  BY <1>2, <1>3, <1>4, <1>5 DEF Moved

LEMMA HandleConnectionStep ==
    ASSUME Chain!ChainConstants, ChainTyped, NEW l \in Links, LinkInv(l), Chain!handle_connection(l)
    PROVE  Moved(l)
<1>0. HOPS \in Nat /\ Len(Remote) \in Nat
  BY DEF Chain!ChainConstants
<1>p. up[l] \in {AuthSent, ConnectSent}
  BY Frames DEF ChainTyped, NoFrame, Chain!handle_connection
<1>1. /\ connect_server[l] = "header" /\ up[l] = AuthSent
      /\ connect_server' = [connect_server EXCEPT ![l] = "peek"]
      /\ UNCHANGED <<request, tries, client, caes, saes, cred, up, down, broken, target>>
  BY <1>0, <1>p, Frames DEF ChainTyped, Links, LinkInv, ClientTurn, ServerTurn, FrameTurn, Chain!handle_connection, Chain!fixed, Chain!ServerGoes
<1>2. ChainTyped'
  BY <1>0, <1>1, Frames DEF ChainTyped, ClientStates, ServerStates
<1>3. LinkInv(l)'
  BY <1>0, <1>1, Frames DEF ChainTyped, LinkInv, ClientTurn, ServerTurn, FrameTurn, GoodTurn
<1>4. Others(l)
  BY <1>0, <1>1, Frames DEF ChainTyped, Others
<1>5. Effect(l)
  BY <1>0, <1>1, Frames DEF ChainTyped, Links, Effect, LinkInv, ClientTurn, ServerTurn, FrameTurn
<1> QED
  BY <1>2, <1>3, <1>4, <1>5 DEF Moved

LEMMA ServerGivesUpStep ==
    ASSUME Chain!ChainConstants, ChainTyped, NEW l \in Links, LinkInv(l), Chain!ServerGivesUp(l)
    PROVE  Moved(l)
<1>0. HOPS \in Nat /\ Len(Remote) \in Nat
  BY DEF Chain!ChainConstants
<1>1. /\ Ended(l)
      /\ connect_server[l] \notin {"none", "done"}
      /\ UNCHANGED <<request, tries, caes, saes, cred, up, down, broken>>
  BY <1>0, EndOfServer DEF ChainTyped, Links, LinkInv, ClientTurn, ServerTurn, FrameTurn, Chain!ServerGivesUp, Chain!fixed
<1>2. ChainTyped'
  BY <1>0, <1>1, Frames DEF ChainTyped, ClientStates, ServerStates, Ended
<1>3. LinkInv(l)'
  BY <1>0, <1>1, Frames DEF ChainTyped, LinkInv, ClientTurn, ServerTurn, FrameTurn, GoodTurn, Ended
<1>4. Others(l)
  BY <1>0, <1>1, Frames DEF ChainTyped, Others, Ended
<1>5. Effect(l)
  BY <1>0, <1>1, Frames DEF ChainTyped, Links, Effect, LinkInv, ClientTurn, ServerTurn, FrameTurn, Ended
<1> QED
  BY <1>2, <1>3, <1>4, <1>5 DEF Moved

LEMMA ServerReadsEndStep ==
    ASSUME Chain!ChainConstants, ChainTyped, NEW l \in Links, LinkInv(l), Chain!ServerReadsEnd(l)
    PROVE  Moved(l)
<1>0. HOPS \in Nat /\ Len(Remote) \in Nat
  BY DEF Chain!ChainConstants
<1>1. /\ Ended(l)
      /\ connect_server[l] \notin {"none", "done"}
      /\ UNCHANGED <<request, tries, caes, saes, cred, up, down, broken>>
  BY <1>0, EndOfServer DEF ChainTyped, Links, LinkInv, ClientTurn, ServerTurn, FrameTurn, Chain!ServerReadsEnd, Chain!fixed
<1>2. ChainTyped'
  BY <1>0, <1>1, Frames DEF ChainTyped, ClientStates, ServerStates, Ended
<1>3. LinkInv(l)'
  BY <1>0, <1>1, Frames DEF ChainTyped, LinkInv, ClientTurn, ServerTurn, FrameTurn, GoodTurn, Ended
<1>4. Others(l)
  BY <1>0, <1>1, Frames DEF ChainTyped, Others, Ended
<1>5. Effect(l)
  BY <1>0, <1>1, Frames DEF ChainTyped, Links, Effect, LinkInv, ClientTurn, ServerTurn, FrameTurn, Ended
<1> QED
  BY <1>2, <1>3, <1>4, <1>5 DEF Moved

LEMMA AbortStep ==
    ASSUME Chain!ChainConstants, ChainTyped, NEW l \in Links, LinkInv(l), Chain!abort_stream_tasks(l)
    PROVE  Moved(l)
<1>0. HOPS \in Nat /\ Len(Remote) \in Nat
  BY DEF Chain!ChainConstants
<1>1. /\ Ended(l)
      /\ connect_server[l] \notin {"none", "done"}
      /\ UNCHANGED <<request, tries, caes, saes, cred, up, down, broken>>
  BY <1>0, EndOfServer DEF ChainTyped, Links, LinkInv, ClientTurn, ServerTurn, FrameTurn, Chain!abort_stream_tasks, Chain!fixed, Chain!ServerOver
<1>2. ChainTyped'
  BY <1>0, <1>1, Frames DEF ChainTyped, ClientStates, ServerStates, Ended
<1>3. LinkInv(l)'
  BY <1>0, <1>1, Frames DEF ChainTyped, LinkInv, ClientTurn, ServerTurn, FrameTurn, GoodTurn, Ended
<1>4. Others(l)
  BY <1>0, <1>1, Frames DEF ChainTyped, Others, Ended
<1>5. Effect(l)
  BY <1>0, <1>1, Frames DEF ChainTyped, Links, Effect, LinkInv, ClientTurn, ServerTurn, FrameTurn, Ended
<1> QED
  BY <1>2, <1>3, <1>4, <1>5 DEF Moved

LEMMA RelayEndsStep ==
    ASSUME Chain!ChainConstants, ChainTyped, NEW l \in Links, LinkInv(l), Chain!RelayEnds(l)
    PROVE  Moved(l)
<1>0. HOPS \in Nat /\ Len(Remote) \in Nat
  BY DEF Chain!ChainConstants
<1>1. /\ Ended(l)
      /\ connect_server[l] = "relay"
      /\ UNCHANGED <<request, tries, caes, saes, cred, up, down, broken>>
  BY <1>0, EndOfServer DEF ChainTyped, Links, LinkInv, ClientTurn, ServerTurn, FrameTurn, Chain!RelayEnds, Chain!fixed
<1>2. ChainTyped'
  BY <1>0, <1>1, Frames DEF ChainTyped, ClientStates, ServerStates, Ended
<1>3. LinkInv(l)'
  BY <1>0, <1>1, Frames DEF ChainTyped, LinkInv, ClientTurn, ServerTurn, FrameTurn, GoodTurn, Ended
<1>4. Others(l)
  BY <1>0, <1>1, Frames DEF ChainTyped, Others, Ended
<1>5. Effect(l)
  BY <1>0, <1>1, Frames DEF ChainTyped, Links, Effect, LinkInv, ClientTurn, ServerTurn, FrameTurn, Ended
<1> QED
  BY <1>2, <1>3, <1>4, <1>5 DEF Moved

LEMMA PeekStep ==
    ASSUME Chain!ChainConstants, ChainTyped, NEW l \in Links, LinkInv(l), Chain!peek_auth_username(l)
    PROVE  Moved(l)
<1>0. HOPS \in Nat /\ Len(Remote) \in Nat
  BY DEF Chain!ChainConstants
<1>p. up[l] \in {AuthSent, ConnectSent}
  BY Frames DEF ChainTyped, NoFrame, Chain!peek_auth_username
<1>1. /\ connect_server[l] = "peek" /\ up[l] = AuthSent
      /\ up' = [up EXCEPT ![l] = NoFrame] /\ connect_server' = [connect_server EXCEPT ![l] = "lookup"]
      /\ UNCHANGED <<request, tries, client, caes, saes, cred, down, broken, target>>
  BY <1>0, <1>p, Frames, Heads, ZenonT(60) DEF ChainTyped, Links, LinkInv, ClientTurn, ServerTurn, FrameTurn, Chain!peek_auth_username, Chain!fixed, Chain!ServerGoes
<1>2. ChainTyped'
  BY <1>0, <1>1, Frames DEF ChainTyped, ClientStates, ServerStates
<1>3. LinkInv(l)'
  BY <1>0, <1>1, Frames DEF ChainTyped, LinkInv, ClientTurn, ServerTurn, FrameTurn, GoodTurn
<1>4. Others(l)
  BY <1>0, <1>1, Frames DEF ChainTyped, Others
<1>5. Effect(l)
  BY <1>0, <1>1, Frames DEF ChainTyped, Links, Effect, LinkInv, ClientTurn, ServerTurn, FrameTurn
<1> QED
  BY <1>2, <1>3, <1>4, <1>5 DEF Moved

LEMMA RefuseStep ==
    ASSUME Chain!ChainConstants, ChainTyped, NEW l \in Links, LinkInv(l), Chain!send_auth_error(l)
    PROVE  Moved(l)
<1>0. HOPS \in Nat /\ Len(Remote) \in Nat
  BY DEF Chain!ChainConstants
<1>1. /\ connect_server[l] = "lookup" /\ saes[l] = FALSE /\ cred[l] # "good"
      /\ Ended(l)
      /\ UNCHANGED down \/ down' = [down EXCEPT ![l] = AuthRefused]
      /\ UNCHANGED <<request, tries, caes, saes, cred, up, broken>>
  BY <1>0, EndOfServer, Frames DEF ChainTyped, Links, LinkInv, ClientTurn, ServerTurn, FrameTurn, Chain!send_auth_error, Chain!fixed, Chain!Sends
<1>2. ChainTyped'
  BY <1>0, <1>1, Frames DEF ChainTyped, ClientStates, ServerStates, Ended
<1>3. LinkInv(l)'
  BY <1>0, <1>1, Frames DEF ChainTyped, LinkInv, ClientTurn, ServerTurn, FrameTurn, GoodTurn, Ended
<1>4. Others(l)
  BY <1>0, <1>1, Frames DEF ChainTyped, Others, Ended
<1>5. Effect(l)
  BY <1>0, <1>1, Frames DEF ChainTyped, Links, Effect, LinkInv, ClientTurn, ServerTurn, FrameTurn, Ended
<1> QED
  BY <1>2, <1>3, <1>4, <1>5 DEF Moved

LEMMA AuthenticateStep ==
    ASSUME Chain!ChainConstants, ChainTyped, NEW l \in Links, LinkInv(l), Chain!authenticate(l)
    PROVE  Moved(l)
<1>0. HOPS \in Nat /\ Len(Remote) \in Nat
  BY DEF Chain!ChainConstants
<1>1. /\ connect_server[l] = "lookup" /\ cred[l] = "good"
      /\ \/ down' = [down EXCEPT ![l] = AuthSent] /\ connect_server' = [connect_server EXCEPT ![l] = "answered"] /\ UNCHANGED <<client, target>>
         \/ Ended(l) /\ UNCHANGED down
      /\ UNCHANGED <<request, tries, caes, saes, cred, up, broken>>
  BY <1>0, EndOfServer, Frames DEF ChainTyped, Links, LinkInv, ClientTurn, ServerTurn, FrameTurn, Chain!authenticate, Chain!fixed, Chain!ServerGoes, Chain!Sends
<1>2. CASE down' = [down EXCEPT ![l] = AuthSent] /\ connect_server' = [connect_server EXCEPT ![l] = "answered"] /\ UNCHANGED <<client, target>>
  <2>2. ChainTyped'
    BY <1>0, <1>1, <1>2, Frames DEF ChainTyped, ClientStates, ServerStates
  <2>3. LinkInv(l)'
    BY <1>0, <1>1, <1>2, Frames DEF ChainTyped, LinkInv, ClientTurn, ServerTurn, FrameTurn, GoodTurn
  <2>4. Others(l)
    BY <1>0, <1>1, <1>2, Frames DEF ChainTyped, Others
  <2>5. Effect(l)
    BY <1>0, <1>1, <1>2, Frames DEF ChainTyped, Links, Effect, LinkInv, ClientTurn, ServerTurn, FrameTurn
  <2> QED
    BY <2>2, <2>3, <2>4, <2>5 DEF Moved
<1>3. CASE Ended(l) /\ UNCHANGED down
  <2>2. ChainTyped'
    BY <1>0, <1>1, <1>3, Frames DEF ChainTyped, ClientStates, ServerStates, Ended
  <2>3. LinkInv(l)'
    BY <1>0, <1>1, <1>3, Frames DEF ChainTyped, LinkInv, ClientTurn, ServerTurn, FrameTurn, GoodTurn, Ended
  <2>4. Others(l)
    BY <1>0, <1>1, <1>3, Frames DEF ChainTyped, Others, Ended
  <2>5. Effect(l)
    BY <1>0, <1>1, <1>3, Frames DEF ChainTyped, Links, Effect, LinkInv, ClientTurn, ServerTurn, FrameTurn, Ended
  <2> QED
    BY <2>2, <2>3, <2>4, <2>5 DEF Moved
<1> QED
  BY <1>1, <1>2, <1>3

LEMMA SetCipherStep ==
    ASSUME Chain!ChainConstants, ChainTyped, NEW l \in Links, LinkInv(l), Chain!SetCipher(l)
    PROVE  Moved(l)
<1>0. HOPS \in Nat /\ Len(Remote) \in Nat
  BY DEF Chain!ChainConstants
<1>1. /\ connect_server[l] = "answered"
      /\ connect_server' = [connect_server EXCEPT ![l] = "wait"] /\ saes' = [saes EXCEPT ![l] = TRUE]
      /\ UNCHANGED <<request, tries, client, caes, cred, up, down, broken, target>>
  BY <1>0 DEF ChainTyped, Links, LinkInv, ClientTurn, ServerTurn, FrameTurn, Chain!SetCipher, Chain!fixed, Chain!ServerGoes
<1>2. ChainTyped'
  BY <1>0, <1>1, Frames DEF ChainTyped, ClientStates, ServerStates
<1>3. LinkInv(l)'
  BY <1>0, <1>1, Frames DEF ChainTyped, LinkInv, ClientTurn, ServerTurn, FrameTurn, GoodTurn
<1>4. Others(l)
  BY <1>0, <1>1, Frames DEF ChainTyped, Others
<1>5. Effect(l)
  BY <1>0, <1>1, Frames DEF ChainTyped, Links, Effect, LinkInv, ClientTurn, ServerTurn, FrameTurn
<1> QED
  BY <1>2, <1>3, <1>4, <1>5 DEF Moved

LEMMA ConnectRequestStep ==
    ASSUME Chain!ChainConstants, ChainTyped, NEW l \in Links, LinkInv(l), Chain!handle_connect_request(l)
    PROVE  Moved(l)
<1>0. HOPS \in Nat /\ Len(Remote) \in Nat
  BY DEF Chain!ChainConstants
<1>p. up[l] \in {AuthSent, ConnectSent}
  BY Frames DEF ChainTyped, NoFrame, Chain!handle_connect_request
<1>q. connect_server[l] = "wait" /\ saes[l] = TRUE /\ up[l] = ConnectSent /\ Tail(up[l]) = NoFrame /\ Head(up[l]).aes = saes[l] /\ Head(up[l]).kind = "Connect"
  BY <1>p, Frames, Heads DEF ChainTyped, LinkInv, ServerTurn, FrameTurn, Chain!handle_connect_request
<1>r. \/ Chain!handle_connect(l) \in {"error", "upstream"} \/ (l = HOPS /\ Chain!addr = "UdpRelay" /\ Chain!handle_connect(l) = "success")
      \/ l = HOPS /\ Chain!handle_connect(l) = "target"
  BY <1>0 DEF Links, Chain!handle_connect
<1>1. /\ connect_server[l] = "wait" /\ up[l] = ConnectSent
      /\ up' = [up EXCEPT ![l] = NoFrame]
      /\ \/ Ended(l)
         \/ UNCHANGED <<client, target>> /\ connect_server' = [connect_server EXCEPT ![l] = "error"]
         \/ UNCHANGED <<client, target>> /\ connect_server' = [connect_server EXCEPT ![l] = "upstream"]
         \/ UNCHANGED <<client, target>> /\ l = HOPS /\ Chain!addr = "UdpRelay" /\ connect_server' = [connect_server EXCEPT ![l] = "success"]
         \/ UNCHANGED <<client, target>> /\ l = HOPS /\ connect_server' = [connect_server EXCEPT ![l] = "target"]
      /\ UNCHANGED <<request, tries, caes, saes, cred, down, broken>>
  BY <1>0, <1>p, <1>q, <1>r, EndOfServer DEF ChainTyped, Links, Chain!handle_connect_request, Chain!fixed, Chain!ServerGoes
<1>2. CASE Ended(l)
  <2>2. ChainTyped'
    BY <1>0, <1>1, <1>2, Frames DEF ChainTyped, ClientStates, ServerStates, Ended
  <2>3. LinkInv(l)'
    BY <1>0, <1>1, <1>2, Frames DEF ChainTyped, LinkInv, ClientTurn, ServerTurn, FrameTurn, GoodTurn, Ended
  <2>4. Others(l)
    BY <1>0, <1>1, <1>2, Frames DEF ChainTyped, Others, Ended
  <2>5. Effect(l)
    BY <1>0, <1>1, <1>2, Frames DEF ChainTyped, Links, Effect, LinkInv, ClientTurn, ServerTurn, FrameTurn, Ended
  <2> QED
    BY <2>2, <2>3, <2>4, <2>5 DEF Moved
<1>3. CASE UNCHANGED <<client, target>> /\ connect_server' = [connect_server EXCEPT ![l] = "error"]
  <2>2. ChainTyped'
    BY <1>0, <1>1, <1>3, Frames DEF ChainTyped, ClientStates, ServerStates
  <2>3. LinkInv(l)'
    BY <1>0, <1>1, <1>3, Frames DEF ChainTyped, LinkInv, ClientTurn, ServerTurn, FrameTurn, GoodTurn
  <2>4. Others(l)
    BY <1>0, <1>1, <1>3, Frames DEF ChainTyped, Others
  <2>5. Effect(l)
    BY <1>0, <1>1, <1>3, Frames DEF ChainTyped, Links, Effect, LinkInv, ClientTurn, ServerTurn, FrameTurn
  <2> QED
    BY <2>2, <2>3, <2>4, <2>5 DEF Moved
<1>4. CASE UNCHANGED <<client, target>> /\ connect_server' = [connect_server EXCEPT ![l] = "upstream"]
  <2>2. ChainTyped'
    BY <1>0, <1>1, <1>4, Frames DEF ChainTyped, ClientStates, ServerStates
  <2>3. LinkInv(l)'
    BY <1>0, <1>1, <1>4, Frames DEF ChainTyped, LinkInv, ClientTurn, ServerTurn, FrameTurn, GoodTurn
  <2>4. Others(l)
    BY <1>0, <1>1, <1>4, Frames DEF ChainTyped, Others
  <2>5. Effect(l)
    BY <1>0, <1>1, <1>4, Frames DEF ChainTyped, Links, Effect, LinkInv, ClientTurn, ServerTurn, FrameTurn
  <2> QED
    BY <2>2, <2>3, <2>4, <2>5 DEF Moved
<1>5. CASE UNCHANGED <<client, target>> /\ l = HOPS /\ Chain!addr = "UdpRelay" /\ connect_server' = [connect_server EXCEPT ![l] = "success"]
  <2>2. ChainTyped'
    BY <1>0, <1>1, <1>5, Frames DEF ChainTyped, ClientStates, ServerStates
  <2>3. LinkInv(l)'
    BY <1>0, <1>1, <1>5, Frames DEF ChainTyped, LinkInv, ClientTurn, ServerTurn, FrameTurn, GoodTurn
  <2>4. Others(l)
    BY <1>0, <1>1, <1>5, Frames DEF ChainTyped, Others
  <2>5. Effect(l)
    BY <1>0, <1>1, <1>5, Frames DEF ChainTyped, Links, Effect, LinkInv, ClientTurn, ServerTurn, FrameTurn
  <2> QED
    BY <2>2, <2>3, <2>4, <2>5 DEF Moved
<1>6. CASE UNCHANGED <<client, target>> /\ l = HOPS /\ connect_server' = [connect_server EXCEPT ![l] = "target"]
  <2>2. ChainTyped'
    BY <1>0, <1>1, <1>6, Frames DEF ChainTyped, ClientStates, ServerStates
  <2>3. LinkInv(l)'
    BY <1>0, <1>1, <1>6, Frames DEF ChainTyped, LinkInv, ClientTurn, ServerTurn, FrameTurn, GoodTurn
  <2>4. Others(l)
    BY <1>0, <1>1, <1>6, Frames DEF ChainTyped, Others
  <2>5. Effect(l)
    BY <1>0, <1>1, <1>6, Frames DEF ChainTyped, Links, Effect, LinkInv, ClientTurn, ServerTurn, FrameTurn
  <2> QED
    BY <2>2, <2>3, <2>4, <2>5 DEF Moved
<1> QED
  BY <1>1, <1>2, <1>3, <1>4, <1>5, <1>6

LEMMA TargetStep ==
    ASSUME Chain!ChainConstants, ChainTyped, NEW l \in Links, LinkInv(l), Chain!handle_target(l)
    PROVE  Moved(l)
<1>0. HOPS \in Nat /\ Len(Remote) \in Nat
  BY DEF Chain!ChainConstants
<1>1. /\ connect_server[l] = "target" /\ l = HOPS
      /\ \/ connect_server' = [connect_server EXCEPT ![l] = "success"] /\ target' = "open"
         \/ connect_server' = [connect_server EXCEPT ![l] = "error"] /\ UNCHANGED target
      /\ UNCHANGED <<request, tries, client, caes, saes, cred, up, down, broken>>
  BY <1>0 DEF ChainTyped, Links, LinkInv, ClientTurn, ServerTurn, FrameTurn, Chain!handle_target, Chain!fixed, Chain!ServerGoes
<1>2. ChainTyped'
  BY <1>0, <1>1, Frames DEF ChainTyped, ClientStates, ServerStates
<1>3. LinkInv(l)'
  BY <1>0, <1>1, Frames DEF ChainTyped, LinkInv, ClientTurn, ServerTurn, FrameTurn, GoodTurn
<1>4. Others(l)
  BY <1>0, <1>1, Frames DEF ChainTyped, Others
<1>5. Effect(l)
  BY <1>0, <1>1, Frames DEF ChainTyped, Links, Effect, LinkInv, ClientTurn, ServerTurn, FrameTurn
<1> QED
  BY <1>2, <1>3, <1>4, <1>5 DEF Moved

LEMMA UpstreamStep ==
    ASSUME Chain!ChainConstants, ChainTyped, NEW l \in Links, LinkInv(l), Chain!handle_upstream_connect(l), l < HOPS
    PROVE  Moved(l)
<1>0. HOPS \in Nat /\ Len(Remote) \in Nat
  BY DEF Chain!ChainConstants
<1>1. /\ connect_server[l] = "upstream" /\ l + 1 \in Links
      /\ \/ connect_server' = [connect_server EXCEPT ![l] = "success"] /\ client[l + 1] = "connected"
         \/ connect_server' = [connect_server EXCEPT ![l] = "error"]
      /\ UNCHANGED <<request, tries, client, caes, saes, cred, up, down, broken, target>>
  BY <1>0 DEF ChainTyped, Links, LinkInv, ClientTurn, ServerTurn, FrameTurn, Chain!handle_upstream_connect, Chain!fixed, Chain!ServerGoes
<1>2. ChainTyped'
  BY <1>0, <1>1, Frames DEF ChainTyped, ClientStates, ServerStates
<1>3. LinkInv(l)'
  BY <1>0, <1>1, Frames DEF ChainTyped, LinkInv, ClientTurn, ServerTurn, FrameTurn, GoodTurn
<1>4. Others(l)
  BY <1>0, <1>1, Frames DEF ChainTyped, Others
<1>5. Effect(l)
  BY <1>0, <1>1, Frames DEF ChainTyped, Links, Effect, LinkInv, ClientTurn, ServerTurn, FrameTurn
<1> QED
  BY <1>2, <1>3, <1>4, <1>5 DEF Moved

LEMMA SuccessStep ==
    ASSUME Chain!ChainConstants, ChainTyped, NEW l \in Links, LinkInv(l), Chain!send_connect_success(l)
    PROVE  Moved(l)
<1>0. HOPS \in Nat /\ Len(Remote) \in Nat
  BY DEF Chain!ChainConstants
<1>1. /\ connect_server[l] = "success"
      /\ \/ down' = [down EXCEPT ![l] = ConnectSent] /\ connect_server' = [connect_server EXCEPT ![l] = "relay"] /\ UNCHANGED <<client, target>>
         \/ Ended(l) /\ UNCHANGED down
      /\ UNCHANGED <<request, tries, caes, saes, cred, up, broken>>
  BY <1>0, EndOfServer, Frames DEF ChainTyped, Links, LinkInv, ClientTurn, ServerTurn, FrameTurn, Chain!send_connect_success, Chain!fixed, Chain!ServerGoes, Chain!Sends
<1>2. CASE down' = [down EXCEPT ![l] = ConnectSent] /\ connect_server' = [connect_server EXCEPT ![l] = "relay"] /\ UNCHANGED <<client, target>>
  <2>2. ChainTyped'
    BY <1>0, <1>1, <1>2, Frames DEF ChainTyped, ClientStates, ServerStates
  <2>3. LinkInv(l)'
    BY <1>0, <1>1, <1>2, Frames DEF ChainTyped, LinkInv, ClientTurn, ServerTurn, FrameTurn, GoodTurn
  <2>4. Others(l)
    BY <1>0, <1>1, <1>2, Frames DEF ChainTyped, Others
  <2>5. Effect(l)
    BY <1>0, <1>1, <1>2, Frames DEF ChainTyped, Links, Effect, LinkInv, ClientTurn, ServerTurn, FrameTurn
  <2> QED
    BY <2>2, <2>3, <2>4, <2>5 DEF Moved
<1>3. CASE Ended(l) /\ UNCHANGED down
  <2>2. ChainTyped'
    BY <1>0, <1>1, <1>3, Frames DEF ChainTyped, ClientStates, ServerStates, Ended
  <2>3. LinkInv(l)'
    BY <1>0, <1>1, <1>3, Frames DEF ChainTyped, LinkInv, ClientTurn, ServerTurn, FrameTurn, GoodTurn, Ended
  <2>4. Others(l)
    BY <1>0, <1>1, <1>3, Frames DEF ChainTyped, Others, Ended
  <2>5. Effect(l)
    BY <1>0, <1>1, <1>3, Frames DEF ChainTyped, Links, Effect, LinkInv, ClientTurn, ServerTurn, FrameTurn, Ended
  <2> QED
    BY <2>2, <2>3, <2>4, <2>5 DEF Moved
<1> QED
  BY <1>1, <1>2, <1>3

LEMMA ErrorStep ==
    ASSUME Chain!ChainConstants, ChainTyped, NEW l \in Links, LinkInv(l), Chain!send_connect_error(l)
    PROVE  Moved(l)
<1>0. HOPS \in Nat /\ Len(Remote) \in Nat
  BY DEF Chain!ChainConstants
<1>1. /\ connect_server[l] = "error"
      /\ Ended(l)
      /\ UNCHANGED down \/ down' = [down EXCEPT ![l] = ConnectRefused]
      /\ UNCHANGED <<request, tries, caes, saes, cred, up, broken>>
  BY <1>0, EndOfServer, Frames DEF ChainTyped, Links, LinkInv, ClientTurn, ServerTurn, FrameTurn, Chain!send_connect_error, Chain!fixed, Chain!Sends
<1>2. ChainTyped'
  BY <1>0, <1>1, Frames DEF ChainTyped, ClientStates, ServerStates, Ended
<1>3. LinkInv(l)'
  BY <1>0, <1>1, Frames DEF ChainTyped, LinkInv, ClientTurn, ServerTurn, FrameTurn, GoodTurn, Ended
<1>4. Others(l)
  BY <1>0, <1>1, Frames DEF ChainTyped, Others, Ended
<1>5. Effect(l)
  BY <1>0, <1>1, Frames DEF ChainTyped, Links, Effect, LinkInv, ClientTurn, ServerTurn, FrameTurn, Ended
<1> QED
  BY <1>2, <1>3, <1>4, <1>5 DEF Moved

LEMMA LinkBreaksStep ==
    ASSUME Chain!ChainConstants, ChainTyped, NEW l \in Links, LinkInv(l), Chain!LinkBreaks(l)
    PROVE  Moved(l)
<1>0. HOPS \in Nat /\ Len(Remote) \in Nat
  BY DEF Chain!ChainConstants
<1>1. /\ client[l] \notin {"idle", "dial"}
      /\ up' = [up EXCEPT ![l] = NoFrame] /\ down' = [down EXCEPT ![l] = NoFrame]
      /\ broken' \in [Links -> BOOLEAN]
      /\ UNCHANGED <<request, tries, client, caes, connect_server, saes, cred, target>>
  BY <1>0, Frames DEF ChainTyped, Links, LinkInv, ClientTurn, ServerTurn, FrameTurn, Chain!LinkBreaks, Chain!fixed, NoFrame
<1>2. ChainTyped'
  BY <1>0, <1>1, Frames DEF ChainTyped, ClientStates, ServerStates
<1>3. LinkInv(l)'
  BY <1>0, <1>1, Frames DEF ChainTyped, LinkInv, ClientTurn, ServerTurn, FrameTurn, GoodTurn
<1>4. Others(l)
  BY <1>0, <1>1, Frames DEF ChainTyped, Others
<1>5. Effect(l)
  BY <1>0, <1>1, Frames DEF ChainTyped, Links, Effect, LinkInv, ClientTurn, ServerTurn, FrameTurn
<1> QED
  BY <1>2, <1>3, <1>4, <1>5 DEF Moved

LEMMA OtherLink ==
    ASSUME ChainTyped, NEW l \in Links, Others(l), NEW m \in Links, m # l, LinkInv(m)
    PROVE  LinkInv(m)'
<1>1. /\ caes'[m] = caes[m] /\ connect_server'[m] = connect_server[m] /\ saes'[m] = saes[m] /\ cred'[m] = cred[m]
      /\ up'[m] = up[m] /\ down'[m] = down[m] /\ (client'[m] = client[m] \/ client'[m] = "gone")
  BY DEF Others
<1> QED
  BY <1>1 DEF LinkInv, ClientTurn, ServerTurn, FrameTurn, GoodTurn

LEMMA ThroughStays ==
    ASSUME NEW l \in Links, Others(l), Effect(l), NEW n, Through(n)
    PROVE  Through(n)'
  BY DEF Others, Effect, Through, Chain!addr

\* A step of link l keeps the invariant of the whole chain.
LEMMA MovedStep ==
    ASSUME Chain!ChainConstants, ChainInv, NEW l \in Links, Moved(l)
    PROVE  ChainInv'
<1>0. /\ HOPS \in Nat \ {0} /\ ChainTyped /\ ChainTyped' /\ LinkInv(l) /\ LinkInv(l)' /\ Others(l) /\ Effect(l)
      /\ (\A m \in Links : LinkInv(m)) /\ request' = request /\ cred' = cred
  BY DEF Chain!ChainConstants, ChainInv, Moved, Others
<1>1. \A m \in Links : LinkInv(m)'
  BY <1>0, OtherLink
<1>2. ASSUME NEW m \in Links, client'[m] = "connected" \/ down'[m] = ConnectSent \/ connect_server'[m] = "relay"
      PROVE  Through(m)'
  <2>1. CASE m # l
    <3>1. client[m] = "connected" \/ down[m] = ConnectSent \/ connect_server[m] = "relay"
      BY <1>0, <1>2, <2>1 DEF Others
    <3> QED
      BY <3>1, <1>0, ThroughStays DEF ChainInv
  <2>2. CASE m = l /\ connect_server[l] # "success"
    <3>1. client[m] = "connected" \/ down[m] = ConnectSent \/ connect_server[m] = "relay"
      BY <1>0, <1>2, <2>2 DEF Effect
    <3> QED
      BY <3>1, <1>0, ThroughStays DEF ChainInv
  <2>3. CASE m = l /\ connect_server[l] = "success" /\ client'[l] = "connected"
    <3>1. client[m] = "connected" \/ down[m] = ConnectSent
      BY <1>0, <2>3 DEF Effect
    <3> QED
      BY <3>1, <1>0, ThroughStays DEF ChainInv
  <2>4. CASE m = l /\ connect_server[l] = "success" /\ client'[l] # "connected"
    <3>1. Through(l + 1) /\ cred[l] = "good"
      BY <1>0, <2>4 DEF ChainInv, LinkInv, GoodTurn
    <3>2. Through(l + 1)'
      BY <3>1, <1>0, ThroughStays
    <3>3. connect_server'[l] \in {"relay", "done"}
      BY <1>0, <1>2, <2>4 DEF LinkInv, FrameTurn
    <3>4. \A k \in Links : k >= l => k = l \/ k >= l + 1
      BY <1>0 DEF Links
    <3> QED
      BY <3>1, <3>2, <3>3, <3>4, <2>4, <1>0 DEF Through
  <2> QED
    BY <2>1, <2>2, <2>3, <2>4
<1>3. ASSUME NEW m \in Links, connect_server'[m] = "success" PROVE Through(m + 1)'
  <2>1. CASE connect_server[m] = "success"
    BY <2>1, <1>0, ThroughStays DEF ChainInv
  <2>2. CASE connect_server[m] # "success"
    <3>1. /\ m = l
          /\ \/ l + 1 \in Links /\ client[l + 1] = "connected"
             \/ l = HOPS /\ (Chain!addr = "UdpRelay" \/ target' = "open")
      BY <2>2, <1>3, <1>0 DEF Others, Effect
    <3>2. CASE l + 1 \in Links /\ client[l + 1] = "connected"
      BY <3>1, <3>2, <1>0, ThroughStays DEF ChainInv
    <3>3. CASE l = HOPS /\ (Chain!addr = "UdpRelay" \/ target' = "open")
      <4>1. \A k \in Links : ~(k >= l + 1)
        BY <3>3, <1>0 DEF Links
      <4> QED
        BY <4>1, <3>1, <3>3, <1>0 DEF Through, Chain!addr
    <3> QED
      BY <3>1, <3>2, <3>3
  <2> QED
    BY <2>1, <2>2
<1>4. ASSUME NEW m \in Links, client'[m] # "idle", NEW k \in Links, k < m PROVE cred'[k] = "good"
  <2>1. CASE client[m] # "idle"
    BY <2>1, <1>0, <1>4 DEF ChainInv
  <2>2. CASE client[m] = "idle"
    <3>1. m = l /\ (l = 1 \/ (l - 1 \in Links /\ connect_server[l - 1] = "upstream"))
      BY <2>2, <1>4, <1>0 DEF Others, Effect
    <3>2. l # 1
      BY <3>1, <1>4 DEF Links
    <3>3. LinkInv(l - 1) /\ connect_server[l - 1] = "upstream"
      BY <3>1, <3>2, <1>0
    <3>4. cred[l - 1] = "good" /\ client[l - 1] # "idle"
      BY <3>3 DEF LinkInv, ServerTurn, GoodTurn
    <3>5. k = l - 1 \/ k < l - 1
      BY <1>4, <3>1, <1>0 DEF Links
    <3> QED
      BY <3>1, <3>2, <3>4, <3>5, <1>0 DEF ChainInv
  <2> QED
    BY <2>1, <2>2
<1>5. target' = "open" => connect_server'[HOPS] \in {"success", "relay"}
  <2>1. HOPS \in Links
    BY <1>0 DEF Links
  <2>2. CASE l = HOPS
    BY <2>1, <2>2, <1>0 DEF Effect, ChainInv
  <2>3. CASE l # HOPS
    <3>1. connect_server'[HOPS] = connect_server[HOPS]
      BY <2>1, <2>3, <1>0 DEF Others
    <3> QED
      BY <3>1, <2>3, <1>0 DEF Effect, ChainInv
  <2> QED
    BY <2>2, <2>3
<1> QED
  BY <1>0, <1>1, <1>2, <1>3, <1>4, <1>5 DEF ChainInv

LEMMA ChainStart == ASSUME Chain!ChainConstants, Chain!Init PROVE ChainInv
<1>1. HOPS \in Nat \ {0} /\ Len(Remote) \in Nat
  BY DEF Chain!ChainConstants
<1>2. ChainTyped
  BY <1>1 DEF ChainTyped, Chain!Init, Chain!Links, Links, ClientStates, ServerStates, NoFrame
<1>3. \A l \in Links : /\ client[l] = "idle" /\ connect_server[l] = "none" /\ ~caes[l] /\ ~saes[l]
                       /\ up[l] = NoFrame /\ down[l] = NoFrame
  BY DEF Chain!Init, Chain!Links, Links, NoFrame
<1>4. target = "none"
  BY DEF Chain!Init
<1>5. \A l \in Links : LinkInv(l)
  BY <1>3, Frames DEF LinkInv, ClientTurn, ServerTurn, FrameTurn, GoodTurn
<1> QED
  BY <1>2, <1>3, <1>4, <1>5, Frames DEF ChainInv

LEMMA ChainStep == ASSUME Chain!ChainConstants, ChainInv, [Chain!Next]_(Chain!vars) PROVE ChainInv'
<1>0. ChainTyped /\ (\A l \in Links : LinkInv(l)) /\ HOPS \in Nat \ {0}
  BY DEF ChainInv, Chain!ChainConstants
<1>1. ASSUME NEW l \in Links, Chain!Ask(l) \/ Chain!ClientStep(l) PROVE Moved(l)
  BY <1>0, <1>1, AskStep, DialStep, AuthenticateStreamStep, AuthResponseStep, ConnectStep, ConnectResponseStep,
     ClientGivesUpStep DEF Chain!ClientStep
<1>2. ASSUME NEW l \in Links, Chain!ServerStep(l) PROVE Moved(l)
  BY <1>0, <1>2, HandleConnectionStep, ServerGivesUpStep, ServerReadsEndStep, AbortStep, PeekStep, RefuseStep,
     AuthenticateStep, SetCipherStep, ConnectRequestStep, TargetStep, UpstreamStep, SuccessStep, ErrorStep
     DEF Chain!ServerStep
<1>3. ASSUME NEW l \in Links, Chain!RelayEnds(l) \/ Chain!LinkBreaks(l) PROVE Moved(l)
  BY <1>0, <1>3, RelayEndsStep, LinkBreaksStep
<1>4. ASSUME Chain!AgentLeaves PROVE 1 \in Links /\ Moved(1)
  <2>1. 1 \in Links
    BY <1>0 DEF Links
  <2> QED
    BY <1>0, <1>4, <2>1, AgentLeavesStep
<1>5. CASE Chain!Next
  BY <1>1, <1>2, <1>3, <1>4, <1>5, MovedStep DEF Chain!Next, Chain!Links, Links
<1>6. CASE UNCHANGED Chain!vars
  BY <1>6 DEF ChainInv, ChainTyped, LinkInv, Through, Chain!addr, Chain!vars
<1> QED
  BY <1>5, <1>6

LEMMA ChainSafe ==
    ASSUME Chain!ChainConstants, ChainInv
    PROVE  Chain!TypeOK /\ Chain!ToldIsTrue /\ Chain!TargetHasOwner /\ Chain!FramesMatchCipher
<1>0. /\ ChainTyped /\ (\A l \in Links : LinkInv(l)) /\ HOPS \in Nat \ {0} /\ HOPS \in Links /\ 1 \in Links
      /\ Links = Chain!Links
  BY DEF ChainInv, Chain!ChainConstants, Links, Chain!Links
<1>1. Chain!TypeOK
  <2>1. ASSUME NEW l \in Links PROVE Len(up[l]) <= 1 /\ Len(down[l]) <= 1
    <3>1. /\ Len(NoFrame) <= 1 /\ Len(AuthSent) <= 1 /\ Len(AuthRefused) <= 1 /\ Len(ConnectSent) <= 1
          /\ Len(ConnectRefused) <= 1
      BY DEF NoFrame, AuthSent, AuthRefused, ConnectSent, ConnectRefused
    <3>2. up[l] \in {NoFrame, AuthSent, ConnectSent} /\ down[l] \in {NoFrame, AuthSent, AuthRefused, ConnectSent, ConnectRefused}
      BY <1>0 DEF ChainTyped
    <3> QED
      BY <3>1, <3>2
  <2> QED
    BY <1>0, <2>1 DEF ChainTyped, Chain!TypeOK
<1>2. Chain!ToldIsTrue
  BY <1>0 DEF ChainInv, Through, Links, Chain!ToldIsTrue
<1>3. Chain!TargetHasOwner
  <2> SUFFICES ASSUME target = "open" PROVE connect_server[HOPS] \in {"success", "relay"} /\ \A l \in Links : cred[l] = "good"
    BY <1>0 DEF Chain!TargetHasOwner
  <2>1. connect_server[HOPS] \in {"success", "relay"}
    BY DEF ChainInv
  <2>2. cred[HOPS] = "good" /\ client[HOPS] # "idle"
    BY <2>1, <1>0 DEF LinkInv, GoodTurn, ClientTurn
  <2>3. \A l \in Links : l = HOPS \/ l < HOPS
    BY <1>0 DEF Links
  <2> QED
    BY <2>1, <2>2, <2>3, <1>0 DEF ChainInv
<1>4. Chain!FramesMatchCipher
  <2> SUFFICES ASSUME NEW l \in Links
               PROVE  /\ connect_server[l] \in {"peek", "wait"} /\ up[l] # NoFrame => Head(up[l]).aes = saes[l]
                      /\ client[l] \in {"auth", "connect"} /\ down[l] # NoFrame => Head(down[l]).aes = caes[l]
    BY <1>0 DEF Chain!FramesMatchCipher, NoFrame
  <2>1. /\ up[l] \in {NoFrame, AuthSent, ConnectSent} /\ saes[l] \in BOOLEAN /\ caes[l] \in BOOLEAN
        /\ down[l] \in {NoFrame, AuthSent, AuthRefused, ConnectSent, ConnectRefused}
    BY <1>0 DEF ChainTyped
  <2>2. ASSUME connect_server[l] = "peek", up[l] # NoFrame PROVE Head(up[l]).aes = saes[l]
    BY <1>0, <2>1, <2>2, Frames, Heads DEF LinkInv, ServerTurn, FrameTurn
  <2>3. ASSUME connect_server[l] = "wait", up[l] # NoFrame PROVE Head(up[l]).aes = saes[l]
    BY <1>0, <2>1, <2>3, Frames, Heads DEF LinkInv, ServerTurn, FrameTurn
  <2>4. ASSUME client[l] = "auth", down[l] # NoFrame PROVE Head(down[l]).aes = caes[l]
    BY <1>0, <2>1, <2>4, Frames, Heads DEF LinkInv, ClientTurn, FrameTurn
  <2>5. ASSUME client[l] = "connect", down[l] # NoFrame PROVE Head(down[l]).aes = caes[l]
    BY <1>0, <2>1, <2>5, Frames, Heads DEF LinkInv, ClientTurn, FrameTurn
  <2> QED
    BY <2>2, <2>3, <2>4, <2>5
<1> QED
  BY <1>1, <1>2, <1>3, <1>4

\* For a chain of any length, any requests and any number of addresses and faults: a client that
\* is told that it is connected has its target through every hop, with good credentials at each
\* (connect.rs handle_upstream_connect and its callers); an open target belongs to a server task
\* that is alive; and each frame is read with the cipher it was written with, although agent and
\* proxy switch to the session key at different times (auth.rs authenticate).
THEOREM ToldIsTrueHolds ==
    ASSUME Chain!ChainConstants
    PROVE  Spec => []ToldIsTrue
<1>1. Init => ChainInv
  BY ChainStart DEF Init
<1>2. ChainInv /\ [Next]_vars => ChainInv'
  <2>1. [Next]_vars => [Chain!Next]_(Chain!vars)
    BY DEF Next, OnlyTun, OnlyVpn, OnlyShared, OnlyChain, vars, connect_vars, Chain!vars
  <2> QED
    BY <2>1, ChainStep
<1>3. ChainInv => ToldIsTrue
  BY ChainSafe DEF ToldIsTrue
<1> QED
  BY <1>1, <1>2, <1>3, PTL DEF Spec

(***************************************************************************)
(* The supervisor of the network stack, in TUN mode of the desktop.        *)
(***************************************************************************)
\* Between two generations no task is alive; while one is stopped, the handles joined so far and
\* the one that select! took are over.
TunOver(k) == tun_task[k] \in {"absent", "ended"}
TunStackInv ==
    /\ Tun!NetstackTypeOK /\ tun_left = {} /\ tun_sup # "panicked"
    /\ tun_sup \in {"absent", "sleep", "build", "retry", "done"} => \A k \in Tun!Kinds : TunOver(k)
    /\ tun_sup = "done" => tun_shutdown
    /\ tun_sup = "select" => tun_completed = NoTask
    /\ tun_sup = "stop" => /\ \A i \in 1..Len(TASKS) : i < tun_next => TunOver(TASKS[i])
                           /\ tun_completed # NoTask => TunOver(tun_completed)
                           /\ tun_completed = NoTask => tun_shutdown

LEMMA TunStackStep ==
    ASSUME Tun!NetstackConstants, TunStackInv, Tun!run_netstack_supervisor
    PROVE  TunStackInv'
<1>0. /\ TASKS \in Seq(STRING) /\ Len(TASKS) \in Nat /\ NoTask \notin Tun!Kinds /\ Tun!NetstackTypeOK /\ MaxFaults \in Nat
      /\ \A i \in 1..Len(TASKS) : TASKS[i] \in Tun!Kinds
  BY DEF Tun!NetstackConstants, Tun!Kinds, TunStackInv
<1>1. CASE Tun!SelectShutdown
  BY <1>0, <1>1 DEF TunStackInv, TunOver, Tun!NetstackTypeOK, Tun!SelectShutdown
<1>2. ASSUME NEW k \in Tun!Kinds, Tun!SelectTask(k) PROVE TunStackInv'
  BY <1>0, <1>2 DEF TunStackInv, TunOver, Tun!NetstackTypeOK, Tun!SelectTask
<1>3. CASE Tun!Abort
  <2>1. tun_next \in 1..Len(TASKS) /\ tun_sup = "stop" /\ tun_task[TASKS[tun_next]] = "running"
    BY <1>0, <1>3 DEF Tun!Abort, Tun!NetstackTypeOK
  <2>2. /\ tun_task' = [tun_task EXCEPT ![TASKS[tun_next]] = "aborted"]
        /\ UNCHANGED <<tun_shutdown, tun_cancelled, tun_left, tun_sup, tun_completed, tun_next, tun_stuck, tun_faults>>
    BY <1>3 DEF Tun!Abort
  <2>3. \A k \in Tun!Kinds : TunOver(k) => TunOver(k)'
    BY <1>0, <2>1, <2>2 DEF TunOver, Tun!NetstackTypeOK
  <2>4. Tun!NetstackTypeOK'
    BY <1>0, <2>1, <2>2 DEF Tun!NetstackTypeOK
  <2> QED
    BY <1>0, <2>1, <2>2, <2>3, <2>4 DEF TunStackInv, Tun!NetstackTypeOK
<1>4. CASE Tun!Await
  <2>1. /\ tun_next \in 1..Len(TASKS) /\ tun_sup = "stop" /\ tun_next' = tun_next + 1 /\ TunOver(TASKS[tun_next])
        /\ UNCHANGED <<tun_shutdown, tun_cancelled, tun_task, tun_left, tun_sup, tun_completed, tun_stuck, tun_faults>>
    BY <1>0, <1>4 DEF Tun!Await, Tun!Skipped, Tun!NetstackTypeOK, TunStackInv, TunOver
  <2>2. \A i \in 1..Len(TASKS) : i < tun_next + 1 => i < tun_next \/ i = tun_next
    BY <1>0, <2>1
  <2>3. Tun!NetstackTypeOK'
    BY <1>0, <2>1 DEF Tun!NetstackTypeOK
  <2> QED
    BY <2>1, <2>2, <2>3 DEF TunStackInv, TunOver
<1>5. CASE Tun!stop_netstack_generation
  <2>1. \A i \in 1..Len(TASKS) : TunOver(TASKS[i])
    BY <1>0, <1>5 DEF TunStackInv, Tun!stop_netstack_generation, Tun!NetstackTypeOK
  <2>2. \A k \in Tun!Kinds : TunOver(k)
    BY <2>1 DEF Tun!Kinds
  <2> QED
    BY <1>0, <1>5, <2>2 DEF TunStackInv, TunOver, Tun!NetstackTypeOK, Tun!stop_netstack_generation
<1>6. CASE Tun!Sleep
  BY <1>0, <1>6 DEF TunStackInv, TunOver, Tun!NetstackTypeOK, Tun!Sleep
<1>7. CASE Tun!Rebuild
  BY <1>0, <1>7 DEF TunStackInv, TunOver, Tun!Over, Tun!NetstackTypeOK, Tun!Rebuild, Tun!start_netstack_generation
<1> QED
  BY <1>1, <1>2, <1>3, <1>4, <1>5, <1>6, <1>7 DEF Tun!run_netstack_supervisor

\* A task ends, by itself or because it is told to; the token may be cancelled with it.
LEMMA TunTaskStep ==
    ASSUME Tun!NetstackConstants, TunStackInv, NEW k \in Tun!Kinds,
           Tun!spawn_packet_bridge(k) \/ (Tun!TaskFails(k) /\ tun_shutdown' \in {tun_shutdown, TRUE})
    PROVE  /\ TunStackInv' /\ tun_sup' = tun_sup
           /\ \A j \in Tun!Kinds : TunOver(j) => TunOver(j)'
<1>0. /\ Len(TASKS) \in Nat /\ NoTask \notin Tun!Kinds /\ Tun!NetstackTypeOK /\ MaxFaults \in Nat
      /\ \A i \in 1..Len(TASKS) : TASKS[i] \in Tun!Kinds
  BY DEF Tun!NetstackConstants, Tun!Kinds, TunStackInv
<1>1. /\ tun_task' = [tun_task EXCEPT ![k] = "ended"] /\ tun_faults' \in 0..MaxFaults
      /\ tun_shutdown' \in BOOLEAN /\ (tun_shutdown => tun_shutdown')
      /\ UNCHANGED <<tun_cancelled, tun_left, tun_sup, tun_completed, tun_next, tun_stuck>>
  <2>1. CASE Tun!spawn_packet_bridge(k)
    BY <1>0, <2>1 DEF Tun!spawn_packet_bridge, Tun!NetstackTypeOK
  <2>2. CASE Tun!TaskFails(k) /\ tun_shutdown' \in {tun_shutdown, TRUE}
    <3>1. tun_faults' \in 0..MaxFaults
      BY <1>0, <2>2 DEF Tun!TaskFails, Tun!NetstackTypeOK
    <3>2. tun_shutdown' = tun_shutdown \/ tun_shutdown' = TRUE
      BY <2>2
    <3>3. tun_shutdown \in BOOLEAN
      BY <1>0 DEF Tun!NetstackTypeOK
    <3>4. tun_shutdown' \in BOOLEAN /\ (tun_shutdown => tun_shutdown')
      <4>1. CASE tun_shutdown' = tun_shutdown
        BY <3>3, <4>1, Zenon
      <4>2. CASE tun_shutdown' = TRUE
        BY <4>2, Zenon
      <4> QED
        BY <3>2, <4>1, <4>2
    <3> QED
      BY <2>2, <3>1, <3>4 DEF Tun!TaskFails
  <2> QED
    BY <2>1, <2>2
<1>2. \A j \in Tun!Kinds : TunOver(j) => TunOver(j)'
  BY <1>0, <1>1 DEF TunOver, Tun!NetstackTypeOK
<1>3. Tun!NetstackTypeOK'
  BY <1>0, <1>1 DEF Tun!NetstackTypeOK
<1> QED
  BY <1>0, <1>1, <1>2, <1>3 DEF TunStackInv, Tun!NetstackTypeOK

LEMMA TunSpawnStep ==
    ASSUME Tun!NetstackConstants, TunStackInv, Tun!spawn_netstack_supervisor
    PROVE  TunStackInv'
<1>0. Len(TASKS) \in Nat /\ NoTask \notin Tun!Kinds /\ Tun!NetstackTypeOK
  BY DEF Tun!NetstackConstants, TunStackInv
<1> QED
  BY <1>0 DEF TunStackInv, TunOver, Tun!Over, Tun!NetstackTypeOK, Tun!spawn_netstack_supervisor, Tun!start_netstack_generation

LEMMA TunStackStart == ASSUME Tun!NetstackConstants, Tun!NetstackInit PROVE TunStackInv
<1>0. Len(TASKS) \in Nat /\ NoTask \notin Tun!Kinds /\ MaxFaults \in Nat
  BY DEF Tun!NetstackConstants
<1>1. Tun!NetstackTypeOK
  <2>1. 1 \in 1..(Len(TASKS) + 1) /\ 0 \in 0..MaxFaults
    BY <1>0
  <2> QED
    BY <2>1 DEF Tun!NetstackTypeOK, Tun!NetstackInit
<1> QED
  BY <1>0, <1>1 DEF TunStackInv, TunOver, Tun!NetstackInit

TunInv == TunStackInv /\ Tun!TypeOK

LEMMA TunModeStep == ASSUME Tun!NetstackConstants, TunInv, [Tun!Next]_(Tun!vars) PROVE TunInv'
<1>0. TunStackInv /\ Tun!TypeOK
  BY DEF TunInv
<1>1. CASE Tun!Cancel
  BY <1>0, <1>1 DEF TunInv, TunStackInv, TunOver, Tun!NetstackTypeOK, Tun!TypeOK, Tun!Cancel, Tun!svars
<1>2. CASE Tun!configure_proxy_routing \/ Tun!Restore \/ Tun!TunEnded \/ Tun!Stop \/ Tun!ShutdownTimeout \/ Tun!Dropped
  <2>1. UNCHANGED Tun!nvars
    BY <1>2 DEF Tun!configure_proxy_routing, Tun!Restore, Tun!TunEnded, Tun!Stop, Tun!ShutdownTimeout, Tun!Dropped
  <2>2. TunStackInv'
    BY <2>1, <1>0 DEF TunStackInv, TunOver, Tun!NetstackTypeOK, Tun!nvars
  <2>3. Tun!TypeOK'
    <3>1. Tun!NetstackTypeOK'
      BY <2>2 DEF TunStackInv
    <3>2. CASE Tun!configure_proxy_routing
      BY <3>1, <3>2, <1>0 DEF Tun!TypeOK, Tun!configure_proxy_routing, Tun!svars
    <3>3. CASE Tun!Restore \/ Tun!Dropped
      BY <3>1, <3>3, <1>0 DEF Tun!TypeOK, Tun!Restore, Tun!Dropped, Tun!svars
    <3>4. CASE Tun!TunEnded \/ Tun!Stop \/ Tun!ShutdownTimeout
      BY <3>1, <3>4, <1>0 DEF Tun!TypeOK, Tun!TunEnded, Tun!Stop, Tun!ShutdownTimeout
    <3> QED
      BY <1>2, <3>2, <3>3, <3>4
  <2> QED
    BY <2>2, <2>3 DEF TunInv
<1>3. CASE Tun!run_tun_mode
  <2>1. TunStackInv'
    <3>1. CASE UNCHANGED Tun!nvars
      BY <3>1, <1>0 DEF TunStackInv, TunOver, Tun!NetstackTypeOK, Tun!nvars
    <3>2. CASE Tun!spawn_netstack_supervisor
      BY <3>2, <1>0, TunSpawnStep
    <3> QED
      BY <1>3, <3>1, <3>2 DEF Tun!run_tun_mode
  <2> QED
    BY <2>1, <1>0, <1>3 DEF TunInv, TunStackInv, Tun!TypeOK, Tun!run_tun_mode, Tun!svars
<1>4. CASE Tun!wait_tun_task
  BY <1>0, <1>4 DEF TunInv, TunStackInv, TunOver, Tun!NetstackTypeOK, Tun!TypeOK, Tun!wait_tun_task, Tun!svars
<1>5. CASE Tun!run_netstack_supervisor /\ Tun!Quiet
  BY <1>0, <1>5, TunStackStep DEF TunInv, TunStackInv, Tun!TypeOK, Tun!Quiet, Tun!svars
<1>6. ASSUME NEW k \in Tun!Kinds, Tun!spawn_packet_bridge(k) \/ (Tun!TaskFails(k) /\ UNCHANGED tun_shutdown), Tun!Quiet
      PROVE  TunInv'
  BY <1>0, <1>6, TunTaskStep, ZenonT(60) DEF TunInv, TunStackInv, Tun!TypeOK, Tun!Quiet, Tun!svars
<1>7. CASE UNCHANGED Tun!vars
  BY <1>0, <1>7 DEF TunInv, TunStackInv, TunOver, Tun!NetstackTypeOK, Tun!TypeOK, Tun!vars, Tun!nvars
<1> QED
  BY <1>1, <1>2, <1>3, <1>4, <1>5, <1>6, <1>7 DEF Tun!Next, Tun!Finished

(***************************************************************************)
(* The same supervisor in the VPN of Android.                              *)
(***************************************************************************)
\* What TunStackInv says, of the stack of the current handle.
VpnOver(k) == vpn_task[k] \in {"absent", "ended"}
VpnStackInv ==
    /\ Vpn!NetstackTypeOK /\ vpn_left = {} /\ vpn_sup # "panicked"
    /\ vpn_sup \in {"absent", "sleep", "build", "retry", "done"} => \A k \in Vpn!Kinds : VpnOver(k)
    /\ vpn_sup = "done" => vpn_shutdown
    /\ vpn_sup = "select" => vpn_completed = NoTask
    /\ vpn_sup = "stop" => /\ \A i \in 1..Len(VPN_TASKS) : i < vpn_next => VpnOver(VPN_TASKS[i])
                           /\ vpn_completed # NoTask => VpnOver(vpn_completed)
                           /\ vpn_completed = NoTask => vpn_shutdown

LEMMA VpnStackStep ==
    ASSUME Vpn!NetstackConstants, VpnStackInv, Vpn!run_netstack_supervisor
    PROVE  VpnStackInv'
<1>0. /\ VPN_TASKS \in Seq(STRING) /\ Len(VPN_TASKS) \in Nat /\ NoTask \notin Vpn!Kinds /\ Vpn!NetstackTypeOK /\ MaxFaults \in Nat
      /\ \A i \in 1..Len(VPN_TASKS) : VPN_TASKS[i] \in Vpn!Kinds
  BY DEF Vpn!NetstackConstants, Vpn!Kinds, VpnStackInv
<1>1. CASE Vpn!SelectShutdown
  BY <1>0, <1>1 DEF VpnStackInv, VpnOver, Vpn!NetstackTypeOK, Vpn!SelectShutdown
<1>2. ASSUME NEW k \in Vpn!Kinds, Vpn!SelectTask(k) PROVE VpnStackInv'
  BY <1>0, <1>2 DEF VpnStackInv, VpnOver, Vpn!NetstackTypeOK, Vpn!SelectTask
<1>3. CASE Vpn!Abort
  <2>1. vpn_next \in 1..Len(VPN_TASKS) /\ vpn_sup = "stop" /\ vpn_task[VPN_TASKS[vpn_next]] = "running"
    BY <1>0, <1>3 DEF Vpn!Abort, Vpn!NetstackTypeOK
  <2>2. /\ vpn_task' = [vpn_task EXCEPT ![VPN_TASKS[vpn_next]] = "aborted"]
        /\ UNCHANGED <<vpn_shutdown, vpn_cancelled, vpn_left, vpn_sup, vpn_completed, vpn_next, vpn_stuck, vpn_faults>>
    BY <1>3 DEF Vpn!Abort
  <2>3. \A k \in Vpn!Kinds : VpnOver(k) => VpnOver(k)'
    BY <1>0, <2>1, <2>2 DEF VpnOver, Vpn!NetstackTypeOK
  <2>4. Vpn!NetstackTypeOK'
    BY <1>0, <2>1, <2>2 DEF Vpn!NetstackTypeOK
  <2> QED
    BY <1>0, <2>1, <2>2, <2>3, <2>4 DEF VpnStackInv, Vpn!NetstackTypeOK
<1>4. CASE Vpn!Await
  <2>1. /\ vpn_next \in 1..Len(VPN_TASKS) /\ vpn_sup = "stop" /\ vpn_next' = vpn_next + 1 /\ VpnOver(VPN_TASKS[vpn_next])
        /\ UNCHANGED <<vpn_shutdown, vpn_cancelled, vpn_task, vpn_left, vpn_sup, vpn_completed, vpn_stuck, vpn_faults>>
    BY <1>0, <1>4 DEF Vpn!Await, Vpn!Skipped, Vpn!NetstackTypeOK, VpnStackInv, VpnOver
  <2>2. \A i \in 1..Len(VPN_TASKS) : i < vpn_next + 1 => i < vpn_next \/ i = vpn_next
    BY <1>0, <2>1
  <2>3. Vpn!NetstackTypeOK'
    BY <1>0, <2>1 DEF Vpn!NetstackTypeOK
  <2> QED
    BY <2>1, <2>2, <2>3 DEF VpnStackInv, VpnOver
<1>5. CASE Vpn!stop_netstack_generation
  <2>1. \A i \in 1..Len(VPN_TASKS) : VpnOver(VPN_TASKS[i])
    BY <1>0, <1>5 DEF VpnStackInv, Vpn!stop_netstack_generation, Vpn!NetstackTypeOK
  <2>2. \A k \in Vpn!Kinds : VpnOver(k)
    BY <2>1 DEF Vpn!Kinds
  <2> QED
    BY <1>0, <1>5, <2>2 DEF VpnStackInv, VpnOver, Vpn!NetstackTypeOK, Vpn!stop_netstack_generation
<1>6. CASE Vpn!Sleep
  BY <1>0, <1>6 DEF VpnStackInv, VpnOver, Vpn!NetstackTypeOK, Vpn!Sleep
<1>7. CASE Vpn!Rebuild
  BY <1>0, <1>7 DEF VpnStackInv, VpnOver, Vpn!Over, Vpn!NetstackTypeOK, Vpn!Rebuild, Vpn!start_netstack_generation
<1> QED
  BY <1>1, <1>2, <1>3, <1>4, <1>5, <1>6, <1>7 DEF Vpn!run_netstack_supervisor

\* A task ends, by itself or because it is told to; the token may be cancelled with it.
LEMMA VpnTaskStep ==
    ASSUME Vpn!NetstackConstants, VpnStackInv, NEW k \in Vpn!Kinds,
           Vpn!spawn_packet_bridge(k) \/ (Vpn!TaskFails(k) /\ vpn_shutdown' \in {vpn_shutdown, TRUE})
    PROVE  /\ VpnStackInv' /\ vpn_sup' = vpn_sup
           /\ \A j \in Vpn!Kinds : VpnOver(j) => VpnOver(j)'
<1>0. /\ Len(VPN_TASKS) \in Nat /\ NoTask \notin Vpn!Kinds /\ Vpn!NetstackTypeOK /\ MaxFaults \in Nat
      /\ \A i \in 1..Len(VPN_TASKS) : VPN_TASKS[i] \in Vpn!Kinds
  BY DEF Vpn!NetstackConstants, Vpn!Kinds, VpnStackInv
<1>1. /\ vpn_task' = [vpn_task EXCEPT ![k] = "ended"] /\ vpn_faults' \in 0..MaxFaults
      /\ vpn_shutdown' \in BOOLEAN /\ (vpn_shutdown => vpn_shutdown')
      /\ UNCHANGED <<vpn_cancelled, vpn_left, vpn_sup, vpn_completed, vpn_next, vpn_stuck>>
  <2>1. CASE Vpn!spawn_packet_bridge(k)
    BY <1>0, <2>1 DEF Vpn!spawn_packet_bridge, Vpn!NetstackTypeOK
  <2>2. CASE Vpn!TaskFails(k) /\ vpn_shutdown' \in {vpn_shutdown, TRUE}
    <3>1. vpn_faults' \in 0..MaxFaults
      BY <1>0, <2>2 DEF Vpn!TaskFails, Vpn!NetstackTypeOK
    <3>2. vpn_shutdown' = vpn_shutdown \/ vpn_shutdown' = TRUE
      BY <2>2
    <3>3. vpn_shutdown \in BOOLEAN
      BY <1>0 DEF Vpn!NetstackTypeOK
    <3>4. vpn_shutdown' \in BOOLEAN /\ (vpn_shutdown => vpn_shutdown')
      <4>1. CASE vpn_shutdown' = vpn_shutdown
        BY <3>3, <4>1, Zenon
      <4>2. CASE vpn_shutdown' = TRUE
        BY <4>2, Zenon
      <4> QED
        BY <3>2, <4>1, <4>2
    <3> QED
      BY <2>2, <3>1, <3>4 DEF Vpn!TaskFails
  <2> QED
    BY <2>1, <2>2
<1>2. \A j \in Vpn!Kinds : VpnOver(j) => VpnOver(j)'
  BY <1>0, <1>1 DEF VpnOver, Vpn!NetstackTypeOK
<1>3. Vpn!NetstackTypeOK'
  BY <1>0, <1>1 DEF Vpn!NetstackTypeOK
<1> QED
  BY <1>0, <1>1, <1>2, <1>3 DEF VpnStackInv, Vpn!NetstackTypeOK

LEMMA VpnSpawnStep ==
    ASSUME Vpn!NetstackConstants, VpnStackInv, Vpn!spawn_netstack_supervisor
    PROVE  VpnStackInv'
<1>0. Len(VPN_TASKS) \in Nat /\ NoTask \notin Vpn!Kinds /\ Vpn!NetstackTypeOK
  BY DEF Vpn!NetstackConstants, VpnStackInv
<1> QED
  BY <1>0 DEF VpnStackInv, VpnOver, Vpn!Over, Vpn!NetstackTypeOK, Vpn!spawn_netstack_supervisor, Vpn!start_netstack_generation

LEMMA VpnStackStart == ASSUME Vpn!NetstackConstants, Vpn!NetstackInit PROVE VpnStackInv
<1>0. Len(VPN_TASKS) \in Nat /\ NoTask \notin Vpn!Kinds /\ MaxFaults \in Nat
  BY DEF Vpn!NetstackConstants
<1>1. Vpn!NetstackTypeOK
  <2>1. 1 \in 1..(Len(VPN_TASKS) + 1) /\ 0 \in 0..MaxFaults
    BY <1>0
  <2> QED
    BY <2>1 DEF Vpn!NetstackTypeOK, Vpn!NetstackInit
<1> QED
  BY <1>0, <1>1 DEF VpnStackInv, VpnOver, Vpn!NetstackInit

\* What the service and the thread of its handle hold: the thread lives while there is a handle,
\* and with it go the stack, the protector and the fd.
VpnInv ==
    /\ VpnStackInv /\ Vpn!VpnTypeOK /\ protector = vpn_handle
    /\ vpn_thread \in {"starting", "up"} => vpn_handle
    /\ vpn_thread = "starting" => vpn_sup = "absent"
    /\ vpn_thread = "up" => vpn_sup # "absent"
    /\ vpn_thread \in {"none", "over"} => tun \in {"closed", "leaked"} /\ vpn_sup \in {"absent", "done"}

LEMMA VpnStep == ASSUME Vpn!NetstackConstants, Vpn!VpnConstants, VpnInv, [Vpn!VpnNext]_(Vpn!avars) PROVE VpnInv'
<1>0. VpnStackInv /\ Vpn!VpnTypeOK /\ MaxStarts \in Nat
  BY DEF VpnInv, Vpn!VpnConstants
<1>a. ASSUME UNCHANGED Vpn!nvars PROVE VpnStackInv' /\ vpn_sup' = vpn_sup
  BY <1>0, <1>a DEF VpnStackInv, VpnOver, Vpn!NetstackTypeOK, Vpn!nvars
<1>1. CASE Vpn!startAgent
  <2>0. vpn_health' \in BOOLEAN /\ starts' \in 0..MaxStarts /\ java' = java
    <3>1. starts' \in 0..MaxStarts
      BY <1>0, <1>1 DEF Vpn!startAgent, Vpn!VpnTypeOK
    <3>2. vpn_health' = TRUE \/ vpn_health' = vpn_health
      BY <1>1 DEF Vpn!startAgent
    <3>3. vpn_health' \in BOOLEAN
      BY <1>0, <3>2, Zenon DEF Vpn!VpnTypeOK
    <3> QED
      BY <1>1, <3>1, <3>3 DEF Vpn!startAgent
  <2>1. CASE UNCHANGED Vpn!nvars /\ UNCHANGED <<vpn_handle, vpn_thread, tun, protector>>
    BY <1>0, <2>0, <2>1, <1>a DEF VpnInv, VpnStackInv, Vpn!VpnTypeOK
  <2>2. CASE ~vpn_handle /\ Vpn!Fresh /\ vpn_handle' = TRUE /\ vpn_thread' = "starting" /\ tun' = "raw" /\ protector' = TRUE
    <3>1. \A k \in Vpn!Kinds : VpnOver(k)
      BY <1>0, <2>2 DEF VpnInv, VpnStackInv, Vpn!VpnTypeOK
    <3>2. vpn_left' = {} /\ vpn_sup' = "absent" /\ vpn_shutdown' = FALSE /\ vpn_task' = [k \in Vpn!Kinds |-> "absent"]
      BY <2>2, <3>1 DEF Vpn!Fresh, Vpn!Over, VpnOver
    <3>3. Vpn!NetstackTypeOK'
      <4>1. 1 \in 1..(Len(VPN_TASKS) + 1)
        BY DEF Vpn!NetstackConstants
      <4> QED
        BY <1>0, <2>2, <3>2, <4>1 DEF VpnStackInv, Vpn!NetstackTypeOK, Vpn!Fresh
    <3>4. VpnStackInv'
      BY <3>2, <3>3 DEF VpnStackInv, VpnOver
    <3> QED
      BY <1>0, <2>0, <2>2, <3>2, <3>3, <3>4 DEF VpnInv, Vpn!VpnTypeOK
  <2> QED
    BY <1>1, <2>1, <2>2 DEF Vpn!startAgent
<1>2. CASE Vpn!run_android_agent
  <2>1. CASE UNCHANGED Vpn!nvars
    BY <1>0, <1>2, <2>1, <1>a DEF VpnInv, VpnStackInv, Vpn!VpnTypeOK, Vpn!run_android_agent, Vpn!StartStack, Vpn!spawn_netstack_supervisor, Vpn!nvars
  <2>2. CASE Vpn!StartStack /\ vpn_thread' = "up"
    <3>1. VpnStackInv' /\ vpn_sup' = "select"
      BY <1>0, <2>2, VpnSpawnStep DEF Vpn!StartStack, Vpn!spawn_netstack_supervisor
    <3> QED
      BY <1>0, <1>2, <2>2, <3>1 DEF VpnInv, VpnStackInv, Vpn!VpnTypeOK, Vpn!run_android_agent
  <2> QED
    BY <1>2, <2>1, <2>2 DEF Vpn!run_android_agent
<1>3. CASE Vpn!AgentReturns \/ Vpn!NativeAgent_stop
  BY <1>0, <1>3, <1>a DEF VpnInv, VpnStackInv, Vpn!VpnTypeOK, Vpn!AgentReturns, Vpn!NativeAgent_stop
<1>4. CASE Vpn!stopAgent \/ Vpn!nativeHealthCheck
  BY <1>0, <1>4, ZenonT(60) DEF VpnInv, VpnStackInv, VpnOver, Vpn!NetstackTypeOK, Vpn!VpnTypeOK, Vpn!stopAgent, Vpn!nativeHealthCheck, Vpn!stopVpnComponents
<1>5. CASE Vpn!Supervisor
  <2>1. VpnStackInv' /\ UNCHANGED Vpn!vvars
    BY <1>0, <1>5, VpnStackStep DEF Vpn!Supervisor
  <2>2. vpn_sup \notin {"absent", "done"} /\ vpn_sup' # "absent"
    BY <1>5 DEF Vpn!Supervisor, Vpn!run_netstack_supervisor, Vpn!SelectShutdown, Vpn!SelectTask, Vpn!Abort, Vpn!Await,
       Vpn!stop_netstack_generation, Vpn!Sleep, Vpn!Rebuild
  <2> QED
    BY <1>0, <2>1, <2>2 DEF VpnInv, VpnStackInv, Vpn!VpnTypeOK, Vpn!vvars
<1>6. ASSUME NEW k \in Vpn!Kinds, (Vpn!spawn_packet_bridge(k) /\ UNCHANGED Vpn!vvars) \/ Vpn!AndroidTaskFails(k)
      PROVE  VpnInv'
  <2>0. /\ Vpn!spawn_packet_bridge(k) \/ (Vpn!TaskFails(k) /\ vpn_shutdown' \in {vpn_shutdown, TRUE})
        /\ UNCHANGED Vpn!vvars
    BY <1>6 DEF Vpn!AndroidTaskFails
  <2>1. VpnStackInv' /\ vpn_sup' = vpn_sup
    BY <1>0, <2>0, VpnTaskStep
  <2> QED
    BY <1>0, <2>0, <2>1 DEF VpnInv, VpnStackInv, Vpn!VpnTypeOK, Vpn!vvars
<1>7. CASE UNCHANGED Vpn!avars
  BY <1>0, <1>7, <1>a DEF VpnInv, VpnStackInv, Vpn!VpnTypeOK, Vpn!avars, Vpn!vvars
<1> QED
  BY <1>1, <1>2, <1>3, <1>4, <1>5, <1>6, <1>7 DEF Vpn!VpnNext

(***************************************************************************)
(* The shared proxy of Android.                                            *)
(***************************************************************************)
ConnStates == {"free", "peek", "http", "request", "upgraded", "handshake", "connecting", "relay", "gone"}
ConnRecords == [ip : Ips \cup {0}, at : ConnStates]

\* The leases a handler has at each of its steps; its tunnel has one of its own.
HandlerLeases(at) ==
    IF at \in {"http", "upgraded"} THEN 2
    ELSE IF at = "request" THEN 3 ELSE IF at \in {"handshake", "connecting", "relay"} THEN 1 ELSE 0
TunnelLease(c) == IF c \in tunnel THEN 1 ELSE 0

ClientInv(c) ==
    /\ leases[c] = HandlerLeases(conn[c].at) + TunnelLease(c)
    /\ c \in tunnel => conn[c].at \in {"upgraded", "gone"}
    /\ c \in active <=> Shared!Live(c)

SharedInv ==
    /\ Shared!ProxyTypeOK /\ \A c \in Conns : ClientInv(c)
    /\ shared_thread = "listening" => blockedPref \subseteq blocked

LEMMA LiveHasLease ==
    ASSUME Shared!ProxyTypeOK, NEW c \in Conns, ClientInv(c), c \in active
    PROVE  leases[c] # 0
<1>1. conn[c].at \in ConnStates
  BY DEF Shared!ProxyTypeOK, ConnStates
<1> QED
  BY <1>1 DEF ClientInv, Shared!Live, HandlerLeases, TunnelLease, ConnStates

\* A step of the client c: it leaves the others alone.
ClientMove(c) ==
    /\ conn' \in [Conns -> ConnRecords] /\ tunnel' \subseteq Conns /\ leases' \in [Conns -> 0..4] /\ active' \subseteq Conns
    /\ \A d \in Conns \ {c} : /\ conn'[d] = conn[d] /\ leases'[d] = leases[d]
                              /\ (d \in tunnel' <=> d \in tunnel) /\ (d \in active' <=> d \in active)
    /\ ClientInv(c)'
    /\ UNCHANGED <<wish, enabled, blockedPref, intents, sticky, undone, shared_handle, shared_thread, shared_health, restart,
                   shared_cancelled, blocked, moves, shared_faults>>

LEMMA ClientMoveStep == ASSUME SharedInv, NEW c \in Conns, ClientMove(c) PROVE SharedInv'
<1>1. ASSUME NEW d \in Conns, d # c PROVE ClientInv(d)'
  <2>1. ClientInv(d) /\ conn'[d] = conn[d] /\ leases'[d] = leases[d] /\ (d \in tunnel' <=> d \in tunnel) /\ (d \in active' <=> d \in active)
    BY <1>1 DEF SharedInv, ClientMove
  <2>2. TunnelLease(d)' = TunnelLease(d)
    BY <2>1 DEF TunnelLease
  <2> QED
    BY <2>1, <2>2 DEF ClientInv, Shared!Live
<1>2. Shared!ProxyTypeOK'
  BY DEF SharedInv, ClientMove, Shared!ProxyTypeOK, ConnRecords, ConnStates
<1> QED
  BY <1>1, <1>2 DEF SharedInv, ClientMove

\* Where a client c with n leases goes: at, with or without a tunnel.
LEMMA ClientGoes ==
    ASSUME SharedInv, NEW c \in Conns, NEW at \in ConnStates, NEW ip \in Ips \cup {0}, NEW n \in 0..4, NEW t \in BOOLEAN,
           conn' = [conn EXCEPT ![c] = [ip |-> ip, at |-> at]], leases' = [leases EXCEPT ![c] = n],
           tunnel' \subseteq Conns, \A d \in Conns : d \in tunnel' <=> (IF d = c THEN t ELSE d \in tunnel),
           active' \subseteq Conns, \A d \in Conns : d \in active' <=> (IF d = c THEN n # 0 ELSE d \in active),
           n = HandlerLeases(at) + (IF t THEN 1 ELSE 0), t => at \in {"upgraded", "gone"},
           UNCHANGED <<wish, enabled, blockedPref, intents, sticky, undone, shared_handle, shared_thread, shared_health, restart,
                       shared_cancelled, blocked, moves, shared_faults>>
    PROVE  SharedInv'
<1>0. Shared!ProxyTypeOK /\ conn \in [Conns -> ConnRecords] /\ leases \in [Conns -> 0..4]
  BY DEF SharedInv, Shared!ProxyTypeOK, ConnRecords, ConnStates
<1>1. /\ conn' \in [Conns -> ConnRecords] /\ leases' \in [Conns -> 0..4] /\ conn'[c].at = at /\ leases'[c] = n
      /\ \A d \in Conns \ {c} : conn'[d] = conn[d] /\ leases'[d] = leases[d]
  BY <1>0 DEF ConnRecords
<1>2. (c \in tunnel' <=> t) /\ (c \in active' <=> n # 0)
  OBVIOUS
<1>3. TunnelLease(c)' = (IF t THEN 1 ELSE 0)
  BY <1>2 DEF TunnelLease
<1>4. n # 0 <=> at \notin {"free", "peek", "gone"} \/ t
  BY DEF HandlerLeases, ConnStates
<1>5. ClientInv(c)'
  BY <1>1, <1>2, <1>3, <1>4 DEF ClientInv, Shared!Live
<1>6. ClientMove(c)
  BY <1>1, <1>5 DEF ClientMove
<1> QED
  BY <1>6, ClientMoveStep

\* The lease counter is set and the entry kept or removed.
LEMMA LeaseEffect ==
    ASSUME SharedInv, NEW c \in Conns, NEW n, Shared!Leases(c, n), c \in active \/ n = 0
    PROVE  /\ leases' = [leases EXCEPT ![c] = n] /\ active' \subseteq Conns /\ UNCHANGED <<shared_cancelled, blocked>>
           /\ \A d \in Conns : d \in active' <=> (IF d = c THEN n # 0 ELSE d \in active)
  BY DEF SharedInv, Shared!ProxyTypeOK, Shared!Leases

LEMMA AtEffect ==
    ASSUME SharedInv, NEW c \in Conns, NEW at, Shared!At(c, at)
    PROVE  conn' = [conn EXCEPT ![c] = [ip |-> conn[c].ip, at |-> at]] /\ conn[c].ip \in Ips \cup {0}
<1>1. conn \in [Conns -> ConnRecords]
  BY DEF SharedInv, Shared!ProxyTypeOK, ConnRecords, ConnStates
<1>2. conn[c] \in [ip : Ips \cup {0}, at : ConnStates]
  BY <1>1 DEF ConnRecords
<1>3. [conn[c] EXCEPT !.at = at] = [ip |-> conn[c].ip, at |-> at]
  BY <1>2
<1> QED
  BY <1>1, <1>2, <1>3 DEF Shared!At

\* What the invariant says of one client.
LEMMA ClientFacts ==
    ASSUME SharedInv, NEW c \in Conns
    PROVE  /\ conn[c].at \in ConnStates /\ leases[c] = HandlerLeases(conn[c].at) + TunnelLease(c)
           /\ c \in tunnel => conn[c].at \in {"upgraded", "gone"}
           /\ c \in active <=> Shared!Live(c)
           /\ tunnel \subseteq Conns /\ active \subseteq Conns /\ leases \in [Conns -> 0..4]
  BY DEF SharedInv, ClientInv, Shared!ProxyTypeOK, ConnStates

LEMMA AcceptStep == ASSUME SharedInv, NEW c \in Conns, NEW ip \in Ips, Shared!Accept(c, ip) PROVE SharedInv'
<1>0. conn[c].at = "free" /\ leases[c] = 0 /\ c \notin tunnel /\ c \notin active
  BY ClientFacts DEF Shared!Accept, HandlerLeases, TunnelLease, Shared!Live
<1>1. /\ UNCHANGED <<tunnel, leases, shared_cancelled, active, blocked, shared_faults, moves>>
      /\ UNCHANGED <<wish, enabled, blockedPref, intents, sticky, undone, shared_handle, shared_thread, shared_health, restart>>
  BY DEF Shared!Accept, Shared!Quiet, Shared!service, Shared!registry
<1>2. leases' = [leases EXCEPT ![c] = 0]
  BY <1>0, <1>1, ClientFacts
<1>3. \E i \in Ips \cup {0}, at \in {"gone", "peek"} : conn' = [conn EXCEPT ![c] = [ip |-> i, at |-> at]]
  BY DEF Shared!Accept, Shared!Gone
<1>4. PICK i \in Ips \cup {0}, at \in {"gone", "peek"} : conn' = [conn EXCEPT ![c] = [ip |-> i, at |-> at]]
  BY <1>3
<1>5. at \in ConnStates /\ 0 \in 0..4 /\ 0 = HandlerLeases(at) + (IF FALSE THEN 1 ELSE 0)
  BY DEF ConnStates, HandlerLeases
<1>6. /\ tunnel' \subseteq Conns /\ \A d \in Conns : d \in tunnel' <=> (IF d = c THEN FALSE ELSE d \in tunnel)
      /\ active' \subseteq Conns /\ \A d \in Conns : d \in active' <=> (IF d = c THEN 0 # 0 ELSE d \in active)
  BY <1>0, <1>1, ClientFacts
<1> QED
  BY <1>1, <1>2, <1>4, <1>5, <1>6, ClientGoes

LEMMA HttpRequestStep == ASSUME SharedInv, NEW c \in Conns, Shared!handle_http_request(c) PROVE SharedInv'
<1>0. conn[c].at = "http" /\ leases[c] = 2 /\ c \notin tunnel /\ c \in active
  BY ClientFacts DEF Shared!handle_http_request, HandlerLeases, TunnelLease, Shared!Live
<1>1. /\ UNCHANGED <<shared_faults, moves>>
      /\ UNCHANGED <<wish, enabled, blockedPref, intents, sticky, undone, shared_handle, shared_thread, shared_health, restart>>
  BY DEF Shared!handle_http_request, Shared!Quiet, Shared!service
<1>2. ASSUME Shared!At(c, "request"), Shared!Leases(c, 3), UNCHANGED tunnel PROVE SharedInv'
  <2>1. /\ conn' = [conn EXCEPT ![c] = [ip |-> conn[c].ip, at |-> "request"]] /\ conn[c].ip \in Ips \cup {0}
        /\ leases' = [leases EXCEPT ![c] = 3] /\ active' \subseteq Conns /\ UNCHANGED <<shared_cancelled, blocked>>
        /\ \A d \in Conns : d \in active' <=> (IF d = c THEN 3 # 0 ELSE d \in active)
    BY <1>0, <1>2, AtEffect, LeaseEffect
  <2>2. tunnel' \subseteq Conns /\ \A d \in Conns : d \in tunnel' <=> (IF d = c THEN FALSE ELSE d \in tunnel)
    BY <1>0, <1>2, ClientFacts
  <2>3. "request" \in ConnStates /\ 3 \in 0..4 /\ 3 = HandlerLeases("request") + (IF FALSE THEN 1 ELSE 0)
        /\ (FALSE => "request" \in {"upgraded", "gone"}) /\ FALSE \in BOOLEAN
    BY <1>0, <1>2 DEF ConnStates, HandlerLeases
  <2> QED
    BY <1>1, <2>1, <2>2, <2>3, ClientGoes
<1> QED
  BY <1>0, <1>2 DEF Shared!handle_http_request

LEMMA HandleConnectStep == ASSUME SharedInv, NEW c \in Conns, Shared!handle_connect(c) PROVE SharedInv'
<1>0. conn[c].at = "request" /\ leases[c] = 3 /\ c \notin tunnel /\ c \in active
  BY ClientFacts DEF Shared!handle_connect, HandlerLeases, TunnelLease, Shared!Live
<1>1. /\ UNCHANGED <<shared_faults, moves>>
      /\ UNCHANGED <<wish, enabled, blockedPref, intents, sticky, undone, shared_handle, shared_thread, shared_health, restart>>
  BY DEF Shared!handle_connect, Shared!Quiet, Shared!service
<1>2. ASSUME Shared!At(c, "upgraded"), Shared!Leases(c, 3), tunnel' = tunnel \cup {c} PROVE SharedInv'
  <2>1. /\ conn' = [conn EXCEPT ![c] = [ip |-> conn[c].ip, at |-> "upgraded"]] /\ conn[c].ip \in Ips \cup {0}
        /\ leases' = [leases EXCEPT ![c] = 3] /\ active' \subseteq Conns /\ UNCHANGED <<shared_cancelled, blocked>>
        /\ \A d \in Conns : d \in active' <=> (IF d = c THEN 3 # 0 ELSE d \in active)
    BY <1>0, <1>2, AtEffect, LeaseEffect
  <2>2. tunnel' \subseteq Conns /\ \A d \in Conns : d \in tunnel' <=> (IF d = c THEN TRUE ELSE d \in tunnel)
    BY <1>0, <1>2, ClientFacts
  <2>3. "upgraded" \in ConnStates /\ 3 \in 0..4 /\ 3 = HandlerLeases("upgraded") + (IF TRUE THEN 1 ELSE 0)
        /\ (TRUE => "upgraded" \in {"upgraded", "gone"}) /\ TRUE \in BOOLEAN
    BY <1>0, <1>2 DEF ConnStates, HandlerLeases
  <2> QED
    BY <1>1, <2>1, <2>2, <2>3, ClientGoes
<1> QED
  BY <1>0, <1>2 DEF Shared!handle_connect

LEMMA RegularRequestStep == ASSUME SharedInv, NEW c \in Conns, Shared!handle_regular_request(c) PROVE SharedInv'
<1>0. conn[c].at = "request" /\ leases[c] = 3 /\ c \notin tunnel /\ c \in active
  BY ClientFacts DEF Shared!handle_regular_request, HandlerLeases, TunnelLease, Shared!Live
<1>1. /\ UNCHANGED <<shared_faults, moves>>
      /\ UNCHANGED <<wish, enabled, blockedPref, intents, sticky, undone, shared_handle, shared_thread, shared_health, restart>>
  BY DEF Shared!handle_regular_request, Shared!Quiet, Shared!service
<1>2. ASSUME Shared!At(c, "http"), Shared!Leases(c, 2), UNCHANGED tunnel PROVE SharedInv'
  <2>1. /\ conn' = [conn EXCEPT ![c] = [ip |-> conn[c].ip, at |-> "http"]] /\ conn[c].ip \in Ips \cup {0}
        /\ leases' = [leases EXCEPT ![c] = 2] /\ active' \subseteq Conns /\ UNCHANGED <<shared_cancelled, blocked>>
        /\ \A d \in Conns : d \in active' <=> (IF d = c THEN 2 # 0 ELSE d \in active)
    BY <1>0, <1>2, AtEffect, LeaseEffect
  <2>2. tunnel' \subseteq Conns /\ \A d \in Conns : d \in tunnel' <=> (IF d = c THEN FALSE ELSE d \in tunnel)
    BY <1>0, <1>2, ClientFacts
  <2>3. "http" \in ConnStates /\ 2 \in 0..4 /\ 2 = HandlerLeases("http") + (IF FALSE THEN 1 ELSE 0)
        /\ (FALSE => "http" \in {"upgraded", "gone"}) /\ FALSE \in BOOLEAN
    BY <1>0, <1>2 DEF ConnStates, HandlerLeases
  <2> QED
    BY <1>1, <2>1, <2>2, <2>3, ClientGoes
<1> QED
  BY <1>0, <1>2 DEF Shared!handle_regular_request

LEMMA HttpConnectionStep == ASSUME SharedInv, NEW c \in Conns, Shared!handle_http_connection(c) PROVE SharedInv'
<1>0. /\ leases[c] = (IF conn[c].at = "request" THEN 3 ELSE 2) + TunnelLease(c) /\ c \in active
      /\ (conn[c].at = "request" => c \notin tunnel)
  BY ClientFacts DEF Shared!handle_http_connection, HandlerLeases, TunnelLease, Shared!Live
<1>1. /\ UNCHANGED <<shared_faults, moves>>
      /\ UNCHANGED <<wish, enabled, blockedPref, intents, sticky, undone, shared_handle, shared_thread, shared_health, restart>>
  BY DEF Shared!handle_http_connection, Shared!Quiet, Shared!service
<1>a. Shared!At(c, "gone") /\ Shared!Leases(c, TunnelLease(c)) /\ UNCHANGED tunnel
  <2>1. leases[c] - (IF conn[c].at = "request" THEN 3 ELSE 2) = TunnelLease(c)
    BY <1>0 DEF TunnelLease
  <2> QED
    BY <2>1 DEF Shared!handle_http_connection
<1>2. ASSUME c \notin tunnel, Shared!At(c, "gone"), Shared!Leases(c, 0), UNCHANGED tunnel PROVE SharedInv'
  <2>1. /\ conn' = [conn EXCEPT ![c] = [ip |-> conn[c].ip, at |-> "gone"]] /\ conn[c].ip \in Ips \cup {0}
        /\ leases' = [leases EXCEPT ![c] = 0] /\ active' \subseteq Conns /\ UNCHANGED <<shared_cancelled, blocked>>
        /\ \A d \in Conns : d \in active' <=> (IF d = c THEN 0 # 0 ELSE d \in active)
    BY <1>0, <1>2, AtEffect, LeaseEffect
  <2>2. tunnel' \subseteq Conns /\ \A d \in Conns : d \in tunnel' <=> (IF d = c THEN FALSE ELSE d \in tunnel)
    BY <1>0, <1>2, ClientFacts
  <2>3. "gone" \in ConnStates /\ 0 \in 0..4 /\ 0 = HandlerLeases("gone") + (IF FALSE THEN 1 ELSE 0)
        /\ (FALSE => "gone" \in {"upgraded", "gone"}) /\ FALSE \in BOOLEAN
    BY <1>0, <1>2 DEF ConnStates, HandlerLeases
  <2> QED
    BY <1>1, <2>1, <2>2, <2>3, ClientGoes
<1>3. ASSUME c \in tunnel, Shared!At(c, "gone"), Shared!Leases(c, 1), UNCHANGED tunnel PROVE SharedInv'
  <2>1. /\ conn' = [conn EXCEPT ![c] = [ip |-> conn[c].ip, at |-> "gone"]] /\ conn[c].ip \in Ips \cup {0}
        /\ leases' = [leases EXCEPT ![c] = 1] /\ active' \subseteq Conns /\ UNCHANGED <<shared_cancelled, blocked>>
        /\ \A d \in Conns : d \in active' <=> (IF d = c THEN 1 # 0 ELSE d \in active)
    BY <1>0, <1>3, AtEffect, LeaseEffect
  <2>2. tunnel' \subseteq Conns /\ \A d \in Conns : d \in tunnel' <=> (IF d = c THEN TRUE ELSE d \in tunnel)
    BY <1>0, <1>3, ClientFacts
  <2>3. "gone" \in ConnStates /\ 1 \in 0..4 /\ 1 = HandlerLeases("gone") + (IF TRUE THEN 1 ELSE 0)
        /\ (TRUE => "gone" \in {"upgraded", "gone"}) /\ TRUE \in BOOLEAN
    BY <1>0, <1>3 DEF ConnStates, HandlerLeases
  <2> QED
    BY <1>1, <2>1, <2>2, <2>3, ClientGoes
<1>4. CASE c \in tunnel
  BY <1>a, <1>3, <1>4 DEF TunnelLease
<1>5. CASE c \notin tunnel
  BY <1>a, <1>2, <1>5 DEF TunnelLease
<1> QED
  BY <1>4, <1>5

LEMMA TunnelEndsStep == ASSUME SharedInv, NEW c \in Conns, Shared!TunnelEnds(c) PROVE SharedInv'
<1>0. /\ c \in tunnel /\ c \in active /\ conn[c].at \in {"upgraded", "gone"}
      /\ leases[c] = HandlerLeases(conn[c].at) + 1 /\ leases[c] - 1 = HandlerLeases(conn[c].at) /\ conn[c].at \in ConnStates
  BY ClientFacts DEF Shared!TunnelEnds, HandlerLeases, TunnelLease, Shared!Live
<1>1. /\ UNCHANGED <<conn, shared_faults, moves>>
      /\ UNCHANGED <<wish, enabled, blockedPref, intents, sticky, undone, shared_handle, shared_thread, shared_health, restart>>
  BY DEF Shared!TunnelEnds, Shared!Quiet, Shared!service
<1>2. Shared!Leases(c, HandlerLeases(conn[c].at)) /\ tunnel' = tunnel \ {c}
  BY <1>0 DEF Shared!TunnelEnds
<1>3. /\ leases' = [leases EXCEPT ![c] = HandlerLeases(conn[c].at)] /\ active' \subseteq Conns
      /\ UNCHANGED <<shared_cancelled, blocked>>
      /\ \A d \in Conns : d \in active' <=> (IF d = c THEN HandlerLeases(conn[c].at) # 0 ELSE d \in active)
  BY <1>0, <1>2, LeaseEffect
<1>4. tunnel' \subseteq Conns /\ \A d \in Conns : d \in tunnel' <=> (IF d = c THEN FALSE ELSE d \in tunnel)
  BY <1>2, ClientFacts
<1>5. conn' = [conn EXCEPT ![c] = [ip |-> conn[c].ip, at |-> conn[c].at]] /\ conn[c].ip \in Ips \cup {0}
  <2>1. conn \in [Conns -> ConnRecords]
    BY DEF SharedInv, Shared!ProxyTypeOK, ConnRecords, ConnStates
  <2>2. conn[c] = [ip |-> conn[c].ip, at |-> conn[c].at] /\ conn[c].ip \in Ips \cup {0}
    BY <2>1 DEF ConnRecords
  <2> QED
    BY <1>1, <2>1, <2>2
<1>6. ASSUME NEW at \in ConnStates, NEW ip \in Ips \cup {0}, NEW n \in 0..4, at = conn[c].at, ip = conn[c].ip, n = HandlerLeases(at)
      PROVE  SharedInv'
  <2>1. /\ conn' = [conn EXCEPT ![c] = [ip |-> ip, at |-> at]] /\ leases' = [leases EXCEPT ![c] = n]
        /\ \A d \in Conns : d \in active' <=> (IF d = c THEN n # 0 ELSE d \in active)
    BY <1>3, <1>5, <1>6
  <2>2. n = HandlerLeases(at) + (IF FALSE THEN 1 ELSE 0)
    BY <1>6
  <2> QED
    BY <1>1, <1>3, <1>4, <2>1, <2>2, ClientGoes, ZenonT(60)
<1>7. HandlerLeases(conn[c].at) \in 0..4
  BY DEF HandlerLeases
<1> QED
  BY <1>0, <1>5, <1>6, <1>7

LEMMA Socks5Step == ASSUME SharedInv, NEW c \in Conns, Shared!handle_socks5_connection(c) PROVE SharedInv'
<1>0. conn[c].at \in {"handshake", "connecting", "relay"} /\ leases[c] = 1 /\ c \notin tunnel /\ c \in active
  BY ClientFacts DEF Shared!handle_socks5_connection, HandlerLeases, TunnelLease, Shared!Live, Shared!Next5
<1>1. /\ UNCHANGED <<shared_faults, moves>>
      /\ UNCHANGED <<wish, enabled, blockedPref, intents, sticky, undone, shared_handle, shared_thread, shared_health, restart>>
  BY DEF Shared!handle_socks5_connection, Shared!Quiet, Shared!service
<1>2. ASSUME Shared!At(c, "gone"), Shared!Leases(c, 0), UNCHANGED tunnel PROVE SharedInv'
  <2>1. /\ conn' = [conn EXCEPT ![c] = [ip |-> conn[c].ip, at |-> "gone"]] /\ conn[c].ip \in Ips \cup {0}
        /\ leases' = [leases EXCEPT ![c] = 0] /\ active' \subseteq Conns /\ UNCHANGED <<shared_cancelled, blocked>>
        /\ \A d \in Conns : d \in active' <=> (IF d = c THEN 0 # 0 ELSE d \in active)
    BY <1>0, <1>2, AtEffect, LeaseEffect
  <2>2. tunnel' \subseteq Conns /\ \A d \in Conns : d \in tunnel' <=> (IF d = c THEN FALSE ELSE d \in tunnel)
    BY <1>0, <1>2, ClientFacts
  <2>3. "gone" \in ConnStates /\ 0 \in 0..4 /\ 0 = HandlerLeases("gone") + (IF FALSE THEN 1 ELSE 0)
        /\ (FALSE => "gone" \in {"upgraded", "gone"}) /\ FALSE \in BOOLEAN
    BY <1>0, <1>2 DEF ConnStates, HandlerLeases
  <2> QED
    BY <1>1, <2>1, <2>2, <2>3, ClientGoes
<1>3. ASSUME Shared!At(c, "connecting"), Shared!Leases(c, 1), UNCHANGED tunnel PROVE SharedInv'
  <2>1. /\ conn' = [conn EXCEPT ![c] = [ip |-> conn[c].ip, at |-> "connecting"]] /\ conn[c].ip \in Ips \cup {0}
        /\ leases' = [leases EXCEPT ![c] = 1] /\ active' \subseteq Conns /\ UNCHANGED <<shared_cancelled, blocked>>
        /\ \A d \in Conns : d \in active' <=> (IF d = c THEN 1 # 0 ELSE d \in active)
    BY <1>0, <1>3, AtEffect, LeaseEffect
  <2>2. tunnel' \subseteq Conns /\ \A d \in Conns : d \in tunnel' <=> (IF d = c THEN FALSE ELSE d \in tunnel)
    BY <1>0, <1>3, ClientFacts
  <2>3. "connecting" \in ConnStates /\ 1 \in 0..4 /\ 1 = HandlerLeases("connecting") + (IF FALSE THEN 1 ELSE 0)
        /\ (FALSE => "connecting" \in {"upgraded", "gone"}) /\ FALSE \in BOOLEAN
    BY <1>0, <1>3 DEF ConnStates, HandlerLeases
  <2> QED
    BY <1>1, <2>1, <2>2, <2>3, ClientGoes
<1>4. ASSUME Shared!At(c, "relay"), Shared!Leases(c, 1), UNCHANGED tunnel PROVE SharedInv'
  <2>1. /\ conn' = [conn EXCEPT ![c] = [ip |-> conn[c].ip, at |-> "relay"]] /\ conn[c].ip \in Ips \cup {0}
        /\ leases' = [leases EXCEPT ![c] = 1] /\ active' \subseteq Conns /\ UNCHANGED <<shared_cancelled, blocked>>
        /\ \A d \in Conns : d \in active' <=> (IF d = c THEN 1 # 0 ELSE d \in active)
    BY <1>0, <1>4, AtEffect, LeaseEffect
  <2>2. tunnel' \subseteq Conns /\ \A d \in Conns : d \in tunnel' <=> (IF d = c THEN FALSE ELSE d \in tunnel)
    BY <1>0, <1>4, ClientFacts
  <2>3. "relay" \in ConnStates /\ 1 \in 0..4 /\ 1 = HandlerLeases("relay") + (IF FALSE THEN 1 ELSE 0)
        /\ (FALSE => "relay" \in {"upgraded", "gone"}) /\ FALSE \in BOOLEAN
    BY <1>0, <1>4 DEF ConnStates, HandlerLeases
  <2> QED
    BY <1>1, <2>1, <2>2, <2>3, ClientGoes
<1>5. /\ Shared!Next5[conn[c].at] \in {"connecting", "relay", "gone"} /\ UNCHANGED tunnel
      /\ \E at \in {Shared!Next5[conn[c].at], "gone"} : Shared!At(c, at) /\ Shared!Leases(c, IF at = "gone" THEN leases[c] - 1 ELSE leases[c])
  BY <1>0 DEF Shared!handle_socks5_connection, Shared!Next5
<1>6. PICK at \in {"connecting", "relay", "gone"} : Shared!At(c, at) /\ Shared!Leases(c, IF at = "gone" THEN leases[c] - 1 ELSE leases[c])
  BY <1>5
<1>7. CASE at = "gone"
  BY <1>0, <1>2, <1>5, <1>6, <1>7
<1>8. CASE at # "gone"
  BY <1>0, <1>3, <1>4, <1>5, <1>6, <1>8
<1> QED
  BY <1>7, <1>8

LEMMA PeekConnectionStep == ASSUME SharedInv, NEW c \in Conns, Shared!handle_proxy_connection(c) PROVE SharedInv'
<1>0. conn[c].at = "peek" /\ leases[c] = 0 /\ c \notin tunnel /\ c \notin active /\ UNCHANGED tunnel
  BY ClientFacts DEF Shared!handle_proxy_connection, HandlerLeases, TunnelLease, Shared!Live
<1>1. /\ UNCHANGED <<shared_faults, moves>>
      /\ UNCHANGED <<wish, enabled, blockedPref, intents, sticky, undone, shared_handle, shared_thread, shared_health, restart>>
  BY DEF Shared!handle_proxy_connection, Shared!Quiet, Shared!service
<1>2. ASSUME NEW at \in {"gone", "http", "handshake"}, NEW n \in {0, 1, 2}, n = HandlerLeases(at), Shared!At(c, at),
             leases' = [leases EXCEPT ![c] = n], active' \subseteq Conns, UNCHANGED <<shared_cancelled, blocked>>,
             \A d \in Conns : d \in active' <=> (IF d = c THEN n # 0 ELSE d \in active)
      PROVE  SharedInv'
  <2>1. conn' = [conn EXCEPT ![c] = [ip |-> conn[c].ip, at |-> at]] /\ conn[c].ip \in Ips \cup {0}
    BY <1>2, AtEffect
  <2>2. tunnel' \subseteq Conns /\ \A d \in Conns : d \in tunnel' <=> (IF d = c THEN FALSE ELSE d \in tunnel)
    BY <1>0, ClientFacts
  <2>3. at \in ConnStates /\ n \in 0..4 /\ n = HandlerLeases(at) + (IF FALSE THEN 1 ELSE 0)
    BY <1>2 DEF ConnStates
  <2> QED
    BY <1>1, <1>2, <2>1, <2>2, <2>3, ClientGoes
<1>3. CASE Shared!At(c, "gone") /\ UNCHANGED Shared!registry
  <2>1. /\ leases' = [leases EXCEPT ![c] = 0] /\ active' \subseteq Conns /\ UNCHANGED <<shared_cancelled, blocked>>
        /\ \A d \in Conns : d \in active' <=> (IF d = c THEN 0 # 0 ELSE d \in active)
    BY <1>0, <1>3, ClientFacts DEF Shared!registry
  <2>2. 0 = HandlerLeases("gone")
    BY DEF HandlerLeases
  <2> QED
    BY <1>2, <1>3, <2>1, <2>2
<1>4. ASSUME NEW at \in {"http", "handshake"}, Shared!At(c, at), Shared!registered(c, IF at = "http" THEN 2 ELSE 1)
      PROVE  SharedInv'
  <2> DEFINE n == IF at = "http" THEN 2 ELSE 1
  <2>1. /\ leases' = [leases EXCEPT ![c] = n] /\ active' \subseteq Conns /\ UNCHANGED <<shared_cancelled, blocked>>
        /\ \A d \in Conns : d \in active' <=> (IF d = c THEN n # 0 ELSE d \in active)
    BY <1>4, ClientFacts DEF Shared!registered
  <2>2. n = HandlerLeases(at) /\ n \in {0, 1, 2} /\ at \in {"gone", "http", "handshake"}
    BY <1>4 DEF HandlerLeases
  <2> QED
    BY <1>2, <1>4, <2>1, <2>2
<1> QED
  BY <1>3, <1>4 DEF Shared!handle_proxy_connection

\* The clients are as the invariant wants them.
ClientsInv ==
    /\ conn \in [Conns -> ConnRecords] /\ tunnel \subseteq Conns /\ leases \in [Conns -> 0..4]
    /\ shared_cancelled \subseteq Conns /\ active \subseteq Conns /\ \A c \in Conns : ClientInv(c)
ServiceTyped ==
    /\ wish \in {"on", "off"} /\ enabled \in BOOLEAN /\ blockedPref \subseteq Ips
    /\ intents \in Seq({"start", "stop", "null", "destroy"}) /\ sticky \in BOOLEAN /\ undone \in BOOLEAN /\ shared_handle \in BOOLEAN
    /\ shared_thread \in {"none", "listening", "over"} /\ shared_health \in BOOLEAN /\ restart \in BOOLEAN
    /\ blocked \subseteq Ips /\ moves \in 0..MaxMoves /\ shared_faults \in 0..MaxFaults
LEMMA TwoHalves ==
    SharedInv <=> /\ ClientsInv /\ ServiceTyped
                  /\ shared_thread = "listening" => blockedPref \subseteq blocked
  BY DEF SharedInv, ClientsInv, ServiceTyped, Shared!ProxyTypeOK, ConnRecords, ConnStates
LEMMA TwoHalvesAfter ==
    SharedInv' <=> /\ ClientsInv' /\ ServiceTyped'
                   /\ shared_thread' = "listening" => blockedPref' \subseteq blocked'
  BY DEF SharedInv, ClientsInv, ServiceTyped, Shared!ProxyTypeOK, ConnRecords, ConnStates

LEMMA DropAllEffect ==
    ASSUME SharedInv, NEW A, Shared!DropAll(A)
    PROVE  ClientsInv' /\ blocked' = A
<1>0. /\ conn \in [Conns -> ConnRecords] /\ shared_cancelled \subseteq Conns /\ active \subseteq Conns
  BY TwoHalves DEF ClientsInv
<1>1. /\ conn' = [c \in Conns |-> IF conn[c].at = "free" THEN conn[c] ELSE [ip |-> 0, at |-> "gone"]]
      /\ tunnel' = {} /\ leases' = [c \in Conns |-> 0] /\ active' = {c \in active : leases[c] = 0} /\ shared_cancelled' = shared_cancelled
      /\ blocked' = A
  BY DEF Shared!DropAll, Shared!Gone
<1>2. active' = {}
  <2>1. \A c \in active : leases[c] # 0
    BY <1>0, LiveHasLease DEF SharedInv
  <2> QED
    BY <1>1, <2>1
<1>3. conn' \in [Conns -> ConnRecords] /\ \A c \in Conns : conn'[c].at \in {"free", "gone"}
  <2>1. [ip |-> 0, at |-> "gone"] \in ConnRecords
    BY DEF ConnRecords, ConnStates
  <2> QED
    BY <1>0, <1>1, <2>1
<1>4. ASSUME NEW c \in Conns PROVE ClientInv(c)'
  <2>1. leases'[c] = 0 /\ conn'[c].at \in {"free", "gone"} /\ c \notin tunnel' /\ c \notin active'
    BY <1>1, <1>2, <1>3
  <2>2. TunnelLease(c)' = 0 /\ HandlerLeases(conn'[c].at) = 0
    BY <2>1 DEF TunnelLease, HandlerLeases
  <2> QED
    BY <2>1, <2>2 DEF ClientInv, Shared!Live
<1>5. leases' \in [Conns -> 0..4]
  BY <1>1
<1> QED
  BY <1>0, <1>1, <1>2, <1>3, <1>4, <1>5 DEF ClientsInv

LEMMA ClientsStay == ASSUME ClientsInv, UNCHANGED <<conn, tunnel, leases, shared_cancelled, active>> PROVE ClientsInv'
  BY DEF ClientsInv, ClientInv, TunnelLease, Shared!Live

LEMMA ServiceFacts ==
    ASSUME Shared!SharedConstants, SharedInv
    PROVE  ClientsInv /\ ServiceTyped /\ MaxMoves \in Nat /\ MaxFaults \in Nat
  BY TwoHalves DEF Shared!SharedConstants

LEMMA FaultEffect ==
    ASSUME Shared!SharedConstants, SharedInv, Shared!Fault
    PROVE  shared_faults' \in 0..MaxFaults
  BY ServiceFacts DEF ServiceTyped, Shared!Fault

LEMMA MoveEffect == ASSUME Shared!SharedConstants, SharedInv, Shared!Move PROVE moves' \in 0..MaxMoves
  BY ServiceFacts DEF ServiceTyped, Shared!Move

LEMMA AcceptFailsStep == ASSUME Shared!SharedConstants, SharedInv, Shared!run_android_http_proxy PROVE SharedInv'
<1>1. ClientsInv' /\ blocked' = blocked /\ shared_faults' \in 0..MaxFaults
  BY DropAllEffect, FaultEffect DEF Shared!run_android_http_proxy
<1>2. ServiceTyped'
  BY <1>1, ServiceFacts DEF ServiceTyped, Shared!run_android_http_proxy
<1>3. SharedInv' <=> ClientsInv' /\ ServiceTyped' /\ (shared_thread' = "listening" => blockedPref' \subseteq blocked')
  BY TwoHalvesAfter
<1> QED
  BY <1>1, <1>2, <1>3 DEF Shared!run_android_http_proxy

Intents == {"start", "stop", "null", "destroy"}

\* What the callbacks of the service leave behind.
Serviced ==
    /\ ClientsInv' /\ blocked' \subseteq Ips /\ shared_faults' \in 0..MaxFaults /\ intents' \in Seq(Intents)
    /\ enabled' \in BOOLEAN /\ sticky' \in BOOLEAN /\ undone' \in BOOLEAN
    /\ shared_handle' \in BOOLEAN /\ shared_health' \in BOOLEAN /\ restart' \in BOOLEAN
    /\ shared_thread' \in {"none", "listening", "over"} /\ (shared_thread' = "listening" => blockedPref \subseteq blocked')

LEMMA StartProxyEffect ==
    ASSUME Shared!SharedConstants, SharedInv, Shared!startProxy, intents' \in Seq(Intents), sticky' \in BOOLEAN
    PROVE  Serviced
<1>0. ClientsInv /\ ServiceTyped
  BY ServiceFacts
<1>1. enabled' = TRUE /\ shared_health' = TRUE /\ undone' = FALSE
  BY DEF Shared!startProxy
<1>2. CASE shared_handle /\ shared_thread = "listening" /\ UNCHANGED <<shared_handle, shared_thread, restart, Shared!clients, shared_faults>>
  <2>1. UNCHANGED <<conn, tunnel, leases, shared_cancelled, active, blocked>>
    BY <1>2 DEF Shared!clients, Shared!registry
  <2>2. ClientsInv'
    BY <1>0, <2>1, ClientsStay
  <2>3. blockedPref \subseteq blocked
    BY <1>2 DEF SharedInv
  <2> QED
    BY <1>0, <1>1, <1>2, <2>1, <2>2, <2>3 DEF Serviced, ServiceTyped
<1>3. CASE /\ Shared!DropAll(Shared!applyBlockedClients) /\ shared_handle' = TRUE /\ shared_thread' = "listening"
           /\ restart' = FALSE /\ UNCHANGED shared_faults
  <2>1. ClientsInv' /\ blocked' = blocked \cup blockedPref
    BY <1>3, DropAllEffect DEF Shared!applyBlockedClients
  <2> QED
    BY <1>0, <1>1, <1>3, <2>1 DEF Serviced, ServiceTyped
<1> QED
  BY <1>2, <1>3 DEF Shared!startProxy

LEMMA StopProxyEffect ==
    ASSUME Shared!SharedConstants, SharedInv, NEW A, A \subseteq Ips, Shared!stopProxyNative(A), intents' \in Seq(Intents),
           enabled' \in BOOLEAN, sticky' \in BOOLEAN, undone' \in BOOLEAN, shared_faults' \in 0..MaxFaults
    PROVE  Serviced
<1>1. ClientsInv' /\ blocked' = A
  BY DropAllEffect DEF Shared!stopProxyNative
<1> QED
  BY <1>1 DEF Serviced, Shared!stopProxyNative

LEMMA StopSelfEffect ==
    ASSUME NEW q \in Seq(Intents), Shared!stopSelf(q)
    PROVE  intents' \in Seq(Intents) /\ sticky' = FALSE
<1>1. Append(q, "destroy") \in Seq(Intents)
  BY DEF Intents
<1> QED
  BY <1>1 DEF Shared!stopSelf

LEMMA StartFailsEffect == ASSUME Shared!SharedConstants, SharedInv, NEW q \in Seq(Intents), Shared!StartFails(q) PROVE Serviced
<1>0. ServiceTyped
  BY ServiceFacts
<1>1. intents' \in Seq(Intents) /\ sticky' = FALSE
  BY StopSelfEffect DEF Shared!StartFails
<1>2. Shared!applyBlockedClients \subseteq Ips /\ undone' \in BOOLEAN /\ enabled' = FALSE
  BY <1>0 DEF ServiceTyped, Shared!applyBlockedClients, Shared!StartFails
<1>3. shared_faults' \in 0..MaxFaults /\ Shared!stopProxyNative(Shared!applyBlockedClients)
  BY FaultEffect DEF Shared!StartFails
<1> QED
  BY <1>1, <1>2, <1>3, StopProxyEffect

LEMMA ServicedStep == ASSUME Shared!SharedConstants, SharedInv, Serviced, UNCHANGED <<wish, blockedPref, moves>> PROVE SharedInv'
<1>1. ServiceTyped'
  BY ServiceFacts DEF ServiceTyped, Serviced, Intents
<1>2. SharedInv' <=> ClientsInv' /\ ServiceTyped' /\ (shared_thread' = "listening" => blockedPref' \subseteq blocked')
  BY TwoHalvesAfter
<1> QED
  BY <1>1, <1>2 DEF Serviced

\* A callback that leaves the native proxy as it is.
LEMMA NativeStays ==
    ASSUME Shared!SharedConstants, SharedInv, intents' \in Seq(Intents), sticky' \in BOOLEAN, restart' \in BOOLEAN,
           UNCHANGED <<enabled, undone, shared_handle, shared_thread, shared_health, Shared!clients, shared_faults>>
    PROVE  Serviced
<1>0. ClientsInv /\ ServiceTyped
  BY ServiceFacts
<1>1. UNCHANGED <<conn, tunnel, leases, shared_cancelled, active, blocked>>
  BY DEF Shared!clients, Shared!registry
<1>2. ClientsInv'
  BY <1>0, <1>1, ClientsStay
<1> QED
  BY <1>0, <1>1, <1>2 DEF Serviced, ServiceTyped, SharedInv

LEMMA StartCommandStep == ASSUME Shared!SharedConstants, SharedInv, Shared!onStartCommand PROVE SharedInv'
<1>0. ServiceTyped
  BY ServiceFacts
<1>1. Tail(intents) \in Seq(Intents)
  BY <1>0 DEF ServiceTyped, Shared!onStartCommand, Intents
<1>2. Serviced
  <2>1. CASE enabled' = FALSE /\ Shared!stopProxyNative(blocked) /\ Shared!stopSelf(Tail(intents)) /\ UNCHANGED <<undone, shared_faults>>
    BY <1>0, <1>1, <2>1, StopProxyEffect, StopSelfEffect DEF ServiceTyped
  <2>2. CASE /\ Shared!stopSelf(Tail(intents))
             /\ UNCHANGED <<enabled, undone, shared_handle, shared_thread, shared_health, restart, Shared!clients, shared_faults>>
    BY <1>0, <1>1, <2>2, StopSelfEffect, NativeStays DEF ServiceTyped
  <2>3. CASE Shared!startProxy /\ intents' = Tail(intents) /\ sticky' = ~Shared!Doomed(Tail(intents))
    <3>1. sticky' \in BOOLEAN
      BY <2>3 DEF Shared!Doomed
    <3> QED
      BY <1>1, <2>3, <3>1, StartProxyEffect
  <2>4. CASE Shared!StartFails(Tail(intents))
    BY <1>1, <2>4, StartFailsEffect
  <2> QED
    BY <2>1, <2>2, <2>3, <2>4 DEF Shared!onStartCommand
<1> QED
  BY <1>2, ServicedStep DEF Shared!onStartCommand

LEMMA DestroyStep == ASSUME Shared!SharedConstants, SharedInv, Shared!onDestroy PROVE SharedInv'
<1>0. ServiceTyped
  BY ServiceFacts
<1>1. intents' \in Seq(Intents)
  BY <1>0 DEF ServiceTyped, Shared!onDestroy, Intents
<1>2. undone' \in BOOLEAN
  BY DEF Shared!onDestroy
<1>3. Serviced
  BY <1>0, <1>1, <1>2, StopProxyEffect DEF ServiceTyped, Shared!onDestroy
<1> QED
  BY <1>3, ServicedStep DEF Shared!onDestroy

LEMMA HealthCheckStep == ASSUME Shared!SharedConstants, SharedInv, Shared!nativeHealthCheck PROVE SharedInv'
<1>0. ServiceTyped
  BY ServiceFacts
<1>1. ClientsInv' /\ blocked' = blocked
  BY DropAllEffect DEF Shared!nativeHealthCheck
<1>2. restart' \in BOOLEAN
  BY <1>0 DEF ServiceTyped, Shared!nativeHealthCheck
<1>3. intents' \in Seq(Intents) /\ sticky' \in BOOLEAN
  <2>1. intents \in Seq(Intents)
    BY <1>0 DEF ServiceTyped, Intents
  <2>2. CASE UNCHANGED <<intents, sticky>>
    BY <1>0, <2>1, <2>2 DEF ServiceTyped
  <2>3. CASE Shared!stopSelf(intents)
    BY <2>1, <2>3, StopSelfEffect
  <2> QED
    BY <2>2, <2>3 DEF Shared!nativeHealthCheck
<1>4. Serviced
  BY <1>0, <1>1, <1>2, <1>3 DEF Serviced, ServiceTyped, Shared!nativeHealthCheck
<1> QED
  BY <1>4, ServicedStep DEF Shared!nativeHealthCheck

LEMMA RestartStep == ASSUME Shared!SharedConstants, SharedInv, Shared!nativeRestart PROVE SharedInv'
<1>0. intents \in Seq(Intents) /\ sticky \in BOOLEAN
  BY ServiceFacts DEF ServiceTyped, Intents
<1>1. Serviced
  <2>1. CASE Shared!startProxy /\ UNCHANGED <<intents, sticky>>
    BY <1>0, <2>1, StartProxyEffect
  <2>2. CASE Shared!StartFails(intents)
    BY <1>0, <2>2, StartFailsEffect
  <2>3. CASE /\ restart' = FALSE
             /\ UNCHANGED <<enabled, intents, sticky, undone, shared_handle, shared_thread, shared_health, Shared!clients, shared_faults>>
    BY <1>0, <2>3, NativeStays
  <2> QED
    BY <2>1, <2>2, <2>3 DEF Shared!nativeRestart
<1> QED
  BY <1>1, ServicedStep DEF Shared!nativeRestart

LEMMA RedeliveredTyped == ASSUME intents \in Seq(Intents) PROVE Shared!Redelivered \in Seq(Intents)
<1> DEFINE over == {i \in DOMAIN intents : intents[i] \in {"destroy", "null"}}
           last == IF over = {} THEN 0 ELSE CHOOSE i \in over : TRUE
           kept == SubSeq(intents, last + 1, Len(intents))
<1>1. last \in Nat
  <2>1. over \subseteq Nat
    OBVIOUS
  <2> QED
    BY <2>1
<1>2. kept \in Seq(Intents)
  BY <1>1
<1>3. <<"null">> \in Seq(Intents)
  BY DEF Intents
<1> QED
  BY <1>2, <1>3 DEF Shared!Redelivered

LEMMA CrashStep == ASSUME Shared!SharedConstants, SharedInv, Shared!Crash PROVE SharedInv'
<1>0. ServiceTyped
  BY ServiceFacts
<1>1. ClientsInv' /\ blocked' = {}
  BY DropAllEffect DEF Shared!Crash
<1>2. intents' \in Seq(Intents)
  BY <1>0, RedeliveredTyped DEF ServiceTyped, Shared!Crash, Intents
<1>3. shared_faults' \in 0..MaxFaults
  BY FaultEffect DEF Shared!Crash
<1>4. undone' \in BOOLEAN
  BY DEF Shared!Crash
<1>5. Serviced
  BY <1>0, <1>1, <1>2, <1>3, <1>4 DEF Serviced, ServiceTyped, Shared!Crash
<1> QED
  BY <1>5, ServicedStep DEF Shared!Crash

\* A move of the user changes what is wanted; only a block changes what the registry knows.
LEMMA UserStep ==
    ASSUME Shared!SharedConstants, SharedInv,
           \/ Shared!toggleHttpProxy \/ Shared!restoreHttpProxyServiceIfEnabled
           \/ \E ip \in Ips : Shared!blockClient(ip) \/ Shared!unblockClient(ip)
    PROVE  SharedInv'
<1>0. ClientsInv /\ ServiceTyped
  BY ServiceFacts
<1>3. SharedInv' <=> ClientsInv' /\ ServiceTyped' /\ (shared_thread' = "listening" => blockedPref' \subseteq blocked')
  BY TwoHalvesAfter
<1>4. moves' \in 0..MaxMoves
  BY MoveEffect DEF Shared!toggleHttpProxy, Shared!restoreHttpProxyServiceIfEnabled, Shared!blockClient, Shared!unblockClient
<1>5. CASE Shared!toggleHttpProxy \/ Shared!restoreHttpProxyServiceIfEnabled
  <2>1. /\ UNCHANGED <<conn, tunnel, leases, shared_cancelled, active, blocked>>
        /\ UNCHANGED <<blockedPref, sticky, undone, shared_handle, shared_thread, shared_health, restart, shared_faults>>
    BY <1>5 DEF Shared!toggleHttpProxy, Shared!restoreHttpProxyServiceIfEnabled, Shared!clients, Shared!registry
  <2>2. wish' \in {"on", "off"} /\ enabled' \in BOOLEAN /\ intents' \in Seq({"start", "stop", "null", "destroy"})
    <3>1. enabled' \in BOOLEAN
      BY <1>0, <1>5 DEF ServiceTyped, Shared!toggleHttpProxy, Shared!isHttpProxyRunning, Shared!restoreHttpProxyServiceIfEnabled
    <3>2. wish' \in {"on", "off"}
      BY <1>5 DEF Shared!toggleHttpProxy, Shared!restoreHttpProxyServiceIfEnabled
    <3>3. \E x \in {"start", "stop"} : intents' = Append(intents, x)
      BY <1>5 DEF Shared!toggleHttpProxy, Shared!restoreHttpProxyServiceIfEnabled
    <3> QED
      BY <1>0, <3>1, <3>2, <3>3 DEF ServiceTyped
  <2>3. ServiceTyped'
    BY <1>0, <1>4, <2>1, <2>2 DEF ServiceTyped
  <2> QED
    BY <1>0, <1>3, <2>1, <2>3, ClientsStay DEF SharedInv
<1>6. ASSUME NEW ip \in Ips, Shared!blockClient(ip) \/ Shared!unblockClient(ip) PROVE SharedInv'
  <2>1. /\ UNCHANGED <<conn, tunnel, leases, active, shared_faults>> /\ shared_cancelled' \subseteq Conns
        /\ UNCHANGED <<wish, enabled, intents, sticky, undone, shared_handle, shared_thread, shared_health, restart>>
    BY <1>0, <1>6 DEF ClientsInv, Shared!blockClient, Shared!unblockClient
  <2>2. /\ blockedPref' \subseteq Ips /\ blocked' \subseteq Ips
        /\ blockedPref \subseteq blocked => blockedPref' \subseteq blocked'
    BY <1>0, <1>6 DEF ServiceTyped, Shared!blockClient, Shared!unblockClient
  <2>3. ServiceTyped'
    BY <1>0, <1>4, <2>1, <2>2 DEF ServiceTyped
  <2>4. ClientsInv'
    BY <1>0, <2>1 DEF ClientsInv, ClientInv, TunnelLease, Shared!Live
  <2> QED
    BY <1>0, <1>3, <2>1, <2>2, <2>3, <2>4 DEF SharedInv
<1> QED
  BY <1>5, <1>6

LEMMA SharedStart == ASSUME Shared!SharedConstants, Shared!Init PROVE SharedInv
<1>1. ServiceTyped
  <2>1. 0 \in 0..MaxMoves /\ 0 \in 0..MaxFaults
    BY DEF Shared!SharedConstants
  <2>2. intents \in Seq({"start", "stop", "null", "destroy"}) /\ blockedPref \subseteq Ips /\ blocked \subseteq Ips
    BY DEF Shared!Init
  <2> QED
    BY <2>1, <2>2 DEF ServiceTyped, Shared!Init
<1>2. conn = [c \in Conns |-> [ip |-> 0, at |-> "free"]] /\ tunnel = {} /\ leases = [c \in Conns |-> 0] /\ active = {} /\ shared_cancelled = {}
  BY DEF Shared!Init
<1>3. conn \in [Conns -> ConnRecords]
  BY <1>2 DEF ConnRecords, ConnStates
<1>4. \A c \in Conns : ClientInv(c)
  BY <1>2 DEF ClientInv, HandlerLeases, TunnelLease, Shared!Live
<1>5. ClientsInv
  BY <1>2, <1>3, <1>4 DEF ClientsInv
<1> QED
  BY <1>1, <1>5, TwoHalves DEF Shared!Init

LEMMA SharedStep == ASSUME Shared!SharedConstants, SharedInv, [Shared!ProxyNext]_(Shared!vars) PROVE SharedInv'
<1>1. ASSUME NEW c \in Conns, (\E ip \in Ips : Shared!Accept(c, ip)) \/ Shared!ClientSteps(c) PROVE SharedInv'
  BY <1>1, AcceptStep, PeekConnectionStep, HttpRequestStep, HandleConnectStep, RegularRequestStep, HttpConnectionStep,
     TunnelEndsStep, Socks5Step DEF Shared!ClientSteps
<1>2. CASE UNCHANGED Shared!vars
  BY <1>2 DEF SharedInv, ClientInv, TunnelLease, Shared!Live, Shared!ProxyTypeOK, Shared!vars, Shared!service, Shared!clients, Shared!registry
<1> QED
  BY <1>1, <1>2, AcceptFailsStep, StartCommandStep, DestroyStep, HealthCheckStep, RestartStep, CrashStep, UserStep DEF Shared!ProxyNext

LEMMA SharedSafe == ASSUME SharedInv PROVE Shared!ProxyTypeOK /\ Shared!ClientsAreListed
<1>1. Shared!ProxyTypeOK /\ active \subseteq Conns /\ \A c \in Conns : c \in active <=> Shared!Live(c)
  BY DEF SharedInv, ClientInv, Shared!ProxyTypeOK
<1> QED
  BY <1>1 DEF SharedInv, Shared!ClientsAreListed

LEMMA VpnSafe == ASSUME VpnInv PROVE Vpn!VpnTypeOK /\ Vpn!OneGeneration /\ Vpn!SocketsStayOutside
  BY DEF VpnInv, VpnStackInv, VpnOver, Vpn!Over, Vpn!VpnTypeOK, Vpn!OneGeneration, Vpn!SocketsStayOutside

LEMMA TunSafe == ASSUME TunInv PROVE Tun!TypeOK /\ Tun!OneGeneration
  BY DEF TunInv, TunStackInv, Tun!OneGeneration

LEMMA TunStart == ASSUME Tun!NetstackConstants, Tun!Init PROVE TunInv
  BY TunStackStart DEF TunInv, TunStackInv, Tun!Init, Tun!TypeOK

LEMMA VpnStart == ASSUME Vpn!NetstackConstants, Vpn!VpnConstants, Vpn!VpnInit PROVE VpnInv
<1>1. VpnStackInv /\ vpn_sup = "absent" /\ MaxStarts \in Nat
  BY VpnStackStart DEF Vpn!VpnInit, Vpn!NetstackInit, Vpn!VpnConstants
<1>2. /\ java = "free" /\ vpn_handle = FALSE /\ vpn_health = FALSE /\ vpn_thread = "none" /\ tun = "closed"
      /\ protector = FALSE /\ starts = 0
  BY DEF Vpn!VpnInit
<1>3. Vpn!VpnTypeOK
  <2>1. starts \in 0..MaxStarts /\ Vpn!NetstackTypeOK
    BY <1>1, <1>2 DEF VpnStackInv
  <2> QED
    BY <1>2, <2>1 DEF Vpn!VpnTypeOK
<1>4. protector = vpn_handle
  BY <1>2
<1> QED
  BY <1>1, <1>2, <1>3, <1>4 DEF VpnInv

\* For any list of stack tasks, any number of faults and starts, any connections and clients: no
\* two generations of stack tasks run at the same time, on the desktop (netstack.rs) or on Android
\* (supervisor.rs), and no handle is awaited twice; the sockets of the Android agent are protected
\* from the start of its thread until it is joined (jni_api.rs); and the registry lists every
\* connection that is served, a tunnel that outlived its connection too (http_proxy_clients.rs).
THEOREM ServicesKeepTrackHolds ==
    ASSUME Tun!NetstackConstants, Vpn!NetstackConstants, Vpn!VpnConstants, Shared!SharedConstants
    PROVE  Spec => []ServicesKeepTrack
<1> DEFINE Inv == TunInv /\ VpnInv /\ SharedInv
<1>1. Init => Inv
  BY TunStart, VpnStart, SharedStart DEF Init
<1>2. Inv /\ [Next]_vars => Inv'
  <2>1. [Next]_vars => [Tun!Next]_(Tun!vars) /\ [Vpn!VpnNext]_(Vpn!avars) /\ [Shared!ProxyNext]_(Shared!vars)
    <3>1. CASE OnlyTun /\ Tun!Next
      BY <3>1 DEF OnlyTun, vpn_vars, shared_vars, Vpn!avars, Vpn!nvars, Vpn!vvars, Shared!vars, Shared!service, Shared!clients, Shared!registry
    <3>2. CASE OnlyVpn /\ Vpn!VpnNext
      BY <3>2 DEF OnlyVpn, tun_vars, shared_vars, Tun!vars, Tun!nvars, Shared!vars, Shared!service, Shared!clients, Shared!registry
    <3>3. CASE OnlyShared /\ Shared!ProxyNext
      BY <3>3 DEF OnlyShared, tun_vars, vpn_vars, Tun!vars, Tun!nvars, Vpn!avars, Vpn!nvars, Vpn!vvars
    <3>4. CASE OnlyChain \/ UNCHANGED vars
      BY <3>4 DEF OnlyChain, vars, tun_vars, vpn_vars, shared_vars, Tun!vars, Tun!nvars, Vpn!avars, Vpn!nvars, Vpn!vvars,
         Shared!vars, Shared!service, Shared!clients, Shared!registry
    <3> QED
      BY <3>1, <3>2, <3>3, <3>4 DEF Next
  <2> QED
    BY <2>1, TunModeStep, VpnStep, SharedStep
<1>3. Inv => ServicesKeepTrack
  BY TunSafe, VpnSafe, SharedSafe DEF ServicesKeepTrack
<1> QED
  BY <1>1, <1>2, <1>3, PTL DEF Spec
=============================================================================
