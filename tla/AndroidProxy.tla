---------------------------- MODULE AndroidProxy ---------------------------
(***************************************************************************)
(* The HTTP and SOCKS5 proxy the Android agent offers to its network:      *)
(* PpaassHttpProxyService keeps a native proxy running                     *)
(* (native/src/jni_api.rs, http_proxy.rs, socks5_proxy.rs), whose clients  *)
(* are listed, blocked and cut through a registry of the whole process     *)
(* (http_proxy_clients.rs, HttpProxyClientDialog.java).                    *)
(***************************************************************************)
EXTENDS Naturals, Sequences, FiniteSets

CONSTANTS
    Conns,        \* connections to the proxy, each used once
    Ips,          \* addresses of clients
    MaxMoves,     \* bound: moves of the user
    MaxFaults     \* bound: accepts and starts that fail, and crashes

SharedConstants == MaxMoves \in Nat /\ MaxFaults \in Nat

VARIABLES
    wish,         \* what the activity asked for last, "on" or "off"
    enabled,      \* PREF_ENABLED
    blockedPref,  \* PREF_BLOCKED_CLIENTS
    intents,      \* of the service and the "destroy" of a stopped one, not yet delivered
    sticky,       \* the service is started and START_STICKY
    undone,       \* a stop took down what a later start had begun
    handle,       \* nativeHandle is not 0
    thread,       \* the thread of the handle: "none", "listening", "over"
    health,       \* nativeHealthCheck is posted
    restart,      \* nativeRestart is posted
    conn,         \* the handler of each connection
    tunnel,       \* connections with a CONNECT tunnel, a task of its own
    leases,       \* [Conns -> Nat]
    cancelled,    \* connections whose token is cancelled
    active,       \* the registry: connections
    blocked,      \* the registry: addresses
    moves, faults

service == <<wish, enabled, blockedPref, intents, sticky, undone, handle, thread, health, restart>>
registry == <<leases, cancelled, active, blocked>>
clients == <<conn, tunnel, registry>>
vars == <<service, clients, moves, faults>>

Gone == [ip |-> 0, at |-> "gone"]
Live(c) == conn[c].at \notin {"free", "peek", "gone"} \/ c \in tunnel

Init ==
    /\ wish = "off" /\ enabled = FALSE /\ blockedPref = {} /\ intents = <<>> /\ sticky = FALSE /\ undone = FALSE
    /\ handle = FALSE /\ thread = "none" /\ health = FALSE /\ restart = FALSE
    /\ conn = [c \in Conns |-> [ip |-> 0, at |-> "free"]] /\ tunnel = {}
    /\ leases = [c \in Conns |-> 0] /\ cancelled = {} /\ active = {} /\ blocked = {}
    /\ moves = 0 /\ faults = 0

Fault == faults < MaxFaults /\ faults' = faults + 1
Move == moves < MaxMoves /\ moves' = moves + 1
-----------------------------------------------------------------------------
(* The clients of the native proxy. *)

\* The lease counter is set, and the last lease takes the entry with it.
Leases(c, n) ==
    /\ leases' = [leases EXCEPT ![c] = n]
    /\ active' = IF n = 0 THEN active \ {c} ELSE active
    /\ UNCHANGED <<cancelled, blocked>>
At(c, at) == conn' = [conn EXCEPT ![c].at = at]
Quiet == UNCHANGED <<service, moves>>

\* The listener asks the registry before it spawns the handler.
Accept(c, ip) ==
    /\ thread = "listening" /\ conn[c].at = "free"
    /\ conn' = [conn EXCEPT ![c] = IF ip \in blocked THEN Gone ELSE [ip |-> ip, at |-> "peek"]]
    /\ UNCHANGED <<tunnel, registry, faults>> /\ Quiet

\* A new entry with its own token and n leases: one of the handler, and one of the HTTP
\* service.
registered(c, n) ==
    /\ leases' = [leases EXCEPT ![c] = n] /\ active' = active \cup {c}
    /\ UNCHANGED <<cancelled, blocked>>

\* The first byte decides; a client of a proxy protocol is registered.
handle_proxy_connection(c) ==
    /\ conn[c].at = "peek"
    /\ \/ At(c, "gone") /\ UNCHANGED registry
       \/ \E at \in {"http", "handshake"} :
            /\ At(c, at)
            /\ registered(c, IF at = "http" THEN 2 ELSE 1)
    /\ UNCHANGED <<tunnel, faults>> /\ Quiet

handle_http_request(c) ==
    /\ conn[c].at = "http"
    /\ At(c, "request") /\ Leases(c, leases[c] + 1)
    /\ UNCHANGED <<tunnel, faults>> /\ Quiet
\* The target was reached: the tunnel gets a lease before the request's goes.
handle_connect(c) ==
    /\ conn[c].at = "request" /\ At(c, "upgraded")
    /\ tunnel' = tunnel \cup {c} /\ Leases(c, leases[c])
    /\ UNCHANGED faults /\ Quiet
\* Any other answer.
handle_regular_request(c) ==
    /\ conn[c].at = "request" /\ At(c, "http") /\ Leases(c, leases[c] - 1)
    /\ UNCHANGED <<tunnel, faults>> /\ Quiet
\* The connection is over or upgraded, or its token is cancelled.
handle_http_connection(c) ==
    /\ conn[c].at \in {"http", "request", "upgraded"} /\ At(c, "gone")
    /\ Leases(c, leases[c] - (IF conn[c].at = "request" THEN 3 ELSE 2))
    /\ UNCHANGED <<tunnel, faults>> /\ Quiet
\* The tunnel is over, or its token is cancelled.
TunnelEnds(c) ==
    /\ c \in tunnel /\ tunnel' = tunnel \ {c} /\ Leases(c, leases[c] - 1)
    /\ UNCHANGED <<conn, faults>> /\ Quiet

\* SOCKS5: only the relay looks at the token.
Next5 == [handshake |-> "connecting", connecting |-> "relay", relay |-> "gone"]
handle_socks5_connection(c) ==
    /\ conn[c].at \in DOMAIN Next5
    /\ \E at \in {Next5[conn[c].at], "gone"} :
         At(c, at) /\ Leases(c, IF at = "gone" THEN leases[c] - 1 ELSE leases[c])
    /\ UNCHANGED <<tunnel, faults>> /\ Quiet

\* The end of the runtime drops every task, its leases with it.
DropAll(addresses) ==
    /\ conn' = [c \in Conns |-> IF conn[c].at = "free" THEN conn[c] ELSE Gone]
    /\ tunnel' = {} /\ leases' = [c \in Conns |-> 0] /\ blocked' = addresses
    /\ active' = {c \in active : leases[c] = 0} /\ UNCHANGED cancelled
\* A failed accept, like a failed bind, ends the whole proxy.
run_android_http_proxy ==
    /\ thread = "listening" /\ Fault /\ thread' = "over" /\ DropAll(blocked)
    /\ UNCHANGED <<wish, enabled, blockedPref, intents, sticky, undone, handle, health, restart, moves>>
-----------------------------------------------------------------------------
(* The service, on the main thread. *)

\* The service was stopped, and its onDestroy waits behind the starts in the queue q.
Doomed(q) == \E i \in DOMAIN q : q[i] = "destroy"

\* stopSelf names no start: the service goes down, and what q still holds goes to it
\* before onDestroy. A start sent from now on is for a new service.
stopSelf(q) == sticky' = FALSE /\ intents' = IF Doomed(q) THEN q ELSE Append(q, "destroy")

stopProxyNative(addresses) ==
    /\ restart' = FALSE /\ health' = FALSE /\ handle' = FALSE /\ thread' = "none" /\ DropAll(addresses)

\* Faulty variant: the stored addresses are not loaded.
applyBlockedClients_not == blocked
applyBlockedClients == blocked \cup blockedPref

\* With a running agent only the health check; else what is left is stopped,
\* the blocked addresses loaded and a new agent started.
startProxy ==
    /\ enabled' = TRUE /\ health' = TRUE /\ undone' = FALSE
    /\ \/ /\ handle /\ thread = "listening"
          /\ UNCHANGED <<handle, thread, restart, clients, faults>>
       \/ /\ ~(handle /\ thread = "listening")
          /\ DropAll(applyBlockedClients) /\ handle' = TRUE /\ thread' = "listening" /\ restart' = FALSE
          /\ UNCHANGED faults
\* startHttpProxy throws: the service gives up.
StartFails(q) ==
    /\ ~(handle /\ thread = "listening") /\ Fault
    /\ enabled' = FALSE /\ stopProxyNative(applyBlockedClients) /\ stopSelf(q) /\ UNCHANGED undone

\* What onStartCommand returns keeps the service, unless it was stopped.
onStartCommand ==
    /\ intents # <<>> /\ Head(intents) # "destroy"
    /\ \/ /\ Head(intents) = "stop"
          /\ enabled' = FALSE /\ stopProxyNative(blocked) /\ stopSelf(Tail(intents)) /\ UNCHANGED <<undone, faults>>
       \/ /\ Head(intents) = "null" /\ ~enabled /\ stopSelf(Tail(intents))
          /\ UNCHANGED <<enabled, undone, handle, thread, health, restart, clients, faults>>
       \/ /\ Head(intents) = "start" \/ (Head(intents) = "null" /\ enabled)
          /\ \/ startProxy /\ intents' = Tail(intents) /\ sticky' = ~Doomed(Tail(intents))
             \/ StartFails(Tail(intents))
    /\ UNCHANGED <<wish, blockedPref, moves>>
onDestroy ==
    /\ intents # <<>> /\ Head(intents) = "destroy" /\ intents' = Tail(intents)
    /\ stopProxyNative(blocked) /\ undone' = (undone \/ handle \/ restart)
    /\ UNCHANGED <<wish, enabled, blockedPref, sticky, moves, faults>>

\* Faulty variant: an agent that died is stopped, never started again.
nativeHealthCheck_stops ==
    /\ health /\ handle /\ thread = "over"
    /\ stopProxyNative(blocked)
    /\ UNCHANGED <<wish, enabled, blockedPref, intents, sticky, undone, moves, faults>>
\* The agent is gone: while the proxy is wanted it is started again in a second.
nativeHealthCheck ==
    /\ health /\ handle /\ thread = "over" /\ health' = FALSE /\ handle' = FALSE /\ thread' = "none"
    /\ DropAll(blocked) /\ restart' = enabled
    /\ \/ enabled /\ UNCHANGED <<intents, sticky>>
       \/ ~enabled /\ stopSelf(intents)
    /\ UNCHANGED <<wish, enabled, blockedPref, undone, moves, faults>>
nativeRestart ==
    /\ restart
    /\ \/ enabled /\ startProxy /\ UNCHANGED <<intents, sticky>>
       \/ enabled /\ StartFails(intents)
       \/ /\ ~enabled /\ restart' = FALSE
          /\ UNCHANGED <<enabled, intents, sticky, undone, handle, thread, health, clients, faults>>
    /\ UNCHANGED <<wish, blockedPref, moves>>

\* The process is killed. Android delivers again what a service that is not stopped
\* has not handled, or brings a sticky one back with a null intent. (One destroy or one
\* null is in the queue: a service that comes back has nothing to stop before its null.)
Redelivered ==
    LET over == {i \in DOMAIN intents : intents[i] \in {"destroy", "null"}}
        last == IF over = {} THEN 0 ELSE CHOOSE i \in over : TRUE
        kept == SubSeq(intents, last + 1, Len(intents))
    IN  IF kept = <<>> /\ sticky THEN <<"null">> ELSE kept
Crash ==
    /\ Fault /\ handle' = FALSE /\ thread' = "none" /\ health' = FALSE /\ restart' = FALSE
    /\ DropAll({}) /\ intents' = Redelivered /\ undone' = (undone \/ (Doomed(intents) /\ (handle \/ restart)))
    /\ UNCHANGED <<wish, enabled, blockedPref, sticky, moves>>
-----------------------------------------------------------------------------
(* The user. *)

\* A proxy that is wanted counts as running, and so does one whose stop is under way.
isHttpProxyRunning == handle \/ enabled
toggleHttpProxy ==
    /\ Move /\ wish' = (IF isHttpProxyRunning THEN "off" ELSE "on") /\ enabled' = ~isHttpProxyRunning
    /\ intents' = Append(intents, IF isHttpProxyRunning THEN "stop" ELSE "start")
    /\ UNCHANGED <<blockedPref, sticky, undone, handle, thread, health, restart, clients, faults>>
\* The open activity finds the proxy wanted and not running.
restoreHttpProxyServiceIfEnabled ==
    /\ Move /\ enabled /\ ~handle
    /\ wish' = "on" /\ intents' = Append(intents, "start")
    /\ UNCHANGED <<enabled, blockedPref, sticky, undone, handle, thread, health, restart, clients, faults>>
blockClient(ip) ==
    /\ Move /\ blockedPref' = blockedPref \cup {ip} /\ blocked' = blocked \cup {ip}
    /\ cancelled' = cancelled \cup {c \in active : conn[c].ip = ip}
    /\ UNCHANGED <<wish, enabled, intents, sticky, undone, handle, thread, health, restart>>
    /\ UNCHANGED <<conn, tunnel, leases, active, faults>>
unblockClient(ip) ==
    /\ Move /\ ip \in blockedPref
    /\ blockedPref' = blockedPref \ {ip} /\ blocked' = blocked \ {ip}
    /\ UNCHANGED <<wish, enabled, intents, sticky, undone, handle, thread, health, restart>>
    /\ UNCHANGED <<conn, tunnel, leases, active, cancelled, faults>>

ClientSteps(c) ==
    \/ handle_proxy_connection(c) \/ handle_http_request(c) \/ handle_connect(c)
    \/ handle_regular_request(c) \/ handle_http_connection(c) \/ TunnelEnds(c)
    \/ handle_socks5_connection(c)
ProxyNext ==
    \/ \E c \in Conns : (\E ip \in Ips : Accept(c, ip)) \/ ClientSteps(c)
    \/ run_android_http_proxy \/ onStartCommand \/ onDestroy \/ nativeHealthCheck \/ nativeRestart \/ Crash
    \/ toggleHttpProxy \/ restoreHttpProxyServiceIfEnabled
    \/ \E ip \in Ips : blockClient(ip) \/ unblockClient(ip)

\* The main thread handles what is posted to it; a cancelled token is seen; and a
\* connection attempt of SOCKS5 ends: the one through the proxy has a timeout, of the
\* direct one that is assumed of the operating system.
ProxyWeaklyFair(i) ==
    \/ i = 1 /\ (onStartCommand \/ onDestroy \/ nativeHealthCheck \/ nativeRestart)
    \/ i = 2 /\ \E c \in cancelled : TunnelEnds(c) \/ handle_http_connection(c)
    \/ i = 3 /\ \E c \in cancelled : conn[c].at # "handshake" /\ handle_socks5_connection(c)
-----------------------------------------------------------------------------
ProxyTypeOK ==
    /\ wish \in {"on", "off"} /\ enabled \in BOOLEAN /\ blockedPref \subseteq Ips
    /\ intents \in Seq({"start", "stop", "null", "destroy"}) /\ sticky \in BOOLEAN /\ undone \in BOOLEAN /\ handle \in BOOLEAN
    /\ thread \in {"none", "listening", "over"} /\ health \in BOOLEAN /\ restart \in BOOLEAN
    /\ conn \in [Conns -> [ip : Ips \cup {0},
                           at : {"free", "peek", "http", "request", "upgraded", "handshake",
                                 "connecting", "relay", "gone"}]]
    /\ tunnel \subseteq Conns /\ leases \in [Conns -> 0..4]
    /\ cancelled \subseteq Conns /\ active \subseteq Conns /\ blocked \subseteq Ips
    /\ moves \in 0..MaxMoves /\ faults \in 0..MaxFaults

\* The registry lists exactly the connections that are served, tunnels that
\* outlive their connection included, so that a block reaches them all; and a
\* proxy that listens knows every address the user has blocked, although the
\* registry dies with the process.
ClientsAreListed ==
    /\ active = {c \in Conns : Live(c)}
    /\ thread = "listening" => blockedPref \subseteq blocked

\* What a block has cancelled is cut, except that a SOCKS5 client in its
\* handshake stays until it moves.
BlockedClientIsCut ==
    \A c \in Conns : c \in cancelled ~> (~Live(c) \/ conn[c].at = "handshake")

\* The proxy does what it was asked for last: it comes back after a fault, a crash
\* with intents under way too, unless a start failed or a stop that was handled before
\* this start brings the service down with it; and it stays off although restarts and
\* earlier starts are under way.
ProxyFollowsWish ==
    /\ wish = "on" ~> (thread = "listening" \/ wish = "off" \/ ~enabled \/ undone)
    /\ [](wish = "off" => <>(~handle \/ wish = "on"))
=============================================================================
