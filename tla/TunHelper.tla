----------------------------- MODULE TunHelper -----------------------------
(***************************************************************************)
(* The privileged TUN helper (tun_handler/helper_service.rs) and its       *)
(* client (tun_helper_client.rs, device.rs).  The helper takes one         *)
(* connection after the other: StartTun cleans up what the state file      *)
(* lists, makes the device and its routes and passes the descriptor over;  *)
(* StopTun drops the lease.  The client gives up after 15 s or 4 s while   *)
(* its request stays in the socket's backlog; the agent may crash without  *)
(* a StopTun, and launchd restarts a helper that dies.                     *)
(*                                                                         *)
(* The leases' routes are the ones of RouteGuard; here they are one        *)
(* resource, as the leases of one agent record the same destinations.      *)
(***************************************************************************)
EXTENDS Integers, Sequences, SequencesExt, FiniteSets

CONSTANTS Conns,       \* connections, 1..n, each used for one request
          MaxRestarts, \* bound on the helper's restarts
          NoConn

HelperConstants == Conns \subseteq Nat /\ NoConn \notin Conns /\ MaxRestarts \in Nat

VARIABLES
    agent,     \* "idle", "starting", "running", "stopping"
    conn,      \* its connection of the moment
    held,      \* the lease it holds (a lease is named by the connection that made it)
    open,      \* connections whose client end is open
    used,      \* connections made so far
    backlog,   \* requests: [conn, kind, lease]
    busy,      \* "no", "start", "stop", "prepared", "failed": how far the request in hand is
    current,   \* the request in hand
    answered,  \* answers in the client's socket: connection -> "none", "ok", "error"
    leases,    \* the helper's map
    routes,    \* lease whose routes are in the table, or NoConn
    file,      \* lease whose routes are in the state file, or NoConn
    bare,      \* leases made without routes, as RouteGuard::install had failed
    orphans,   \* leases whose agent never got to stop them
    restarts

vars == <<agent, conn, held, open, used, backlog, busy, current, answered, leases, routes, file, bare, orphans, restarts>>
helper == <<backlog, busy, current, leases, routes, file, bare, restarts>>

Request(c, k, l) == [conn |-> c, kind |-> k, lease |-> l]
Idle == Request(NoConn, "none", NoConn)

Init == /\ agent = "idle" /\ conn = NoConn /\ held = NoConn /\ open = {} /\ used = {}
        /\ backlog = <<>> /\ busy = "no" /\ current = Idle /\ answered = [c \in Conns |-> "none"]
        /\ leases = {} /\ routes = NoConn /\ file = NoConn
        /\ bare = {} /\ orphans = {} /\ restarts = 0
-----------------------------------------------------------------------------
(* The agent. *)

connect_helper(kind, l) ==
    \E c \in Conns : /\ c = Cardinality(used) + 1 /\ conn' = c /\ used' = used \cup {c} /\ open' = open \cup {c}
                     /\ backlog' = Append(backlog, Request(c, kind, l))

start_tun == /\ agent = "idle" /\ agent' = "starting" /\ connect_helper("start", NoConn)
             /\ UNCHANGED <<held, busy, current, answered, leases, routes, file, bare, orphans, restarts>>

\* The descriptor cannot be taken over: an error, and nobody will stop the lease.
TunStarted == /\ agent = "starting" /\ answered[conn] # "none"
              /\ \/ answered[conn] = "ok" /\ agent' = "running" /\ held' = conn /\ UNCHANGED orphans
                 \/ /\ agent' = "idle" /\ UNCHANGED held
                    /\ orphans' = IF answered[conn] = "ok" THEN orphans \cup {conn} ELSE orphans
              /\ open' = open \ {conn} /\ conn' = NoConn
              /\ UNCHANGED <<used, answered, helper>>

\* Drop for HelperTunLease.
stop_tun == /\ agent = "running" /\ agent' = "stopping" /\ connect_helper("stop", held)
            /\ UNCHANGED <<held, busy, current, answered, leases, routes, file, bare, orphans, restarts>>

\* An answer, an error or the 4 s: the agent goes on either way.
TunStopped == /\ agent = "stopping" /\ agent' = "idle" /\ held' = NoConn
              /\ open' = open \ {conn} /\ conn' = NoConn
              /\ UNCHANGED <<used, answered, orphans, helper>>

\* 15 s without an answer; one that has just arrived is lost with the lease it names.
StartTimeout == /\ agent = "starting" /\ agent' = "idle" /\ open' = open \ {conn} /\ conn' = NoConn
                /\ orphans' = IF answered[conn] = "ok" THEN orphans \cup {conn} ELSE orphans
                /\ UNCHANGED <<held, used, answered, helper>>

AgentCrash == /\ agent # "idle" /\ agent' = "idle" /\ open' = open \ {conn} /\ conn' = NoConn /\ held' = NoConn
              /\ orphans' = orphans \cup (IF agent = "running" THEN {held} ELSE {})
                                    \cup (IF agent = "starting" /\ answered[conn] = "ok" THEN {conn} ELSE {})
              /\ UNCHANGED <<used, answered, helper>>
-----------------------------------------------------------------------------
(* The helper. *)

\* Faulty variant: a thread for every connection.
run_concurrent == /\ busy = "no" /\ backlog # <<>>
                  /\ \E i \in 1..Len(backlog) : current' = backlog[i] /\ backlog' = RemoveAt(backlog, i)
                  /\ busy' = current'.kind
                  /\ UNCHANGED <<agent, conn, held, open, used, answered, leases, routes, file, bare, orphans, restarts>>

\* Accepts in order, one at a time.
run == /\ busy = "no" /\ backlog # <<>>
       /\ current' = Head(backlog) /\ backlog' = Tail(backlog) /\ busy' = current'.kind
       /\ UNCHANGED <<agent, conn, held, open, used, answered, leases, routes, file, bare, orphans, restarts>>

\* What the state file lists is deleted before anything else, if RouteManager::new works.
cleanup_stale == IF file = NoConn THEN routes ELSE NoConn
CleanedOrNot == (file' = NoConn /\ routes' = cleanup_stale) \/ UNCHANGED <<routes, file>>

\* Adding fails where a route is left.  A failed RouteGuard::install is logged and the lease
\* made without one; the device may fail too, before it.
prepare_tun ==
    /\ busy = "start"
    /\ \/ /\ busy' = "prepared" /\ file' = current.conn /\ UNCHANGED bare
          /\ routes' = IF cleanup_stale = NoConn THEN current.conn ELSE routes
       \/ busy' = "prepared" /\ bare' = bare \cup {current.conn} /\ CleanedOrNot
       \/ busy' = "failed" /\ CleanedOrNot /\ UNCHANGED bare
    /\ UNCHANGED <<agent, conn, held, open, used, backlog, current, answered, leases, orphans, restarts>>

\* Drop for RouteGuard, if the lease has one: its destinations go from the table, and the
\* file with them.
DropGuard(l) == IF l \in bare THEN UNCHANGED <<routes, file>> ELSE routes' = NoConn /\ file' = NoConn

\* The answer with the descriptor; a client that has gone costs the lease its guard.
send_started == /\ busy = "prepared" /\ busy' = "no" /\ current' = Idle
                /\ IF current.conn \in open
                   THEN /\ answered' = [answered EXCEPT ![current.conn] = "ok"]
                        /\ leases' = leases \cup {current.conn} /\ UNCHANGED <<routes, file>>
                   ELSE DropGuard(current.conn) /\ UNCHANGED <<answered, leases>>
                /\ UNCHANGED <<agent, conn, held, open, used, backlog, bare, orphans, restarts>>

\* Faulty variant: a request whose client has gone is not worked off.
handle_stop_if_open ==
    /\ busy = "stop" /\ busy' = "no" /\ current' = Idle
    /\ IF current.lease \in leases /\ current.conn \in open
       THEN leases' = leases \ {current.lease} /\ DropGuard(current.lease) ELSE UNCHANGED <<leases, routes, file>>
    /\ answered' = IF current.conn \in open THEN [answered EXCEPT ![current.conn] = "ok"] ELSE answered
    /\ UNCHANGED <<agent, conn, held, open, used, backlog, bare, orphans, restarts>>

\* handle_client, StopTun: a lease that is not known is as good as stopped.
handle_stop == /\ busy = "stop" /\ busy' = "no" /\ current' = Idle
               /\ IF current.lease \in leases
                  THEN leases' = leases \ {current.lease} /\ DropGuard(current.lease) ELSE UNCHANGED <<leases, routes, file>>
               /\ answered' = IF current.conn \in open THEN [answered EXCEPT ![current.conn] = "ok"] ELSE answered
               /\ UNCHANGED <<agent, conn, held, open, used, backlog, bare, orphans, restarts>>

send_error == /\ busy = "failed" /\ busy' = "no" /\ current' = Idle
              /\ answered' = IF current.conn \in open THEN [answered EXCEPT ![current.conn] = "error"] ELSE answered
              /\ UNCHANGED <<agent, conn, held, open, used, backlog, leases, routes, file, bare, orphans, restarts>>

\* The helper dies without its Drops; the connections it had end with it, which fails what
\* the agent is waiting for.  The leases are known to nobody then.
HelperRestart ==
    /\ restarts < MaxRestarts /\ restarts' = restarts + 1
    /\ backlog' = <<>> /\ busy' = "no" /\ current' = Idle /\ leases' = {}
    /\ orphans' = (orphans \cup leases \cup (IF busy = "prepared" THEN {current.conn} ELSE {}))
    /\ answered' = [c \in Conns |-> IF c \in open /\ answered[c] = "none" THEN "error" ELSE answered[c]]
    /\ UNCHANGED <<agent, conn, held, open, used, routes, file, bare>>

Next == \/ start_tun \/ TunStarted \/ stop_tun \/ TunStopped \/ StartTimeout \/ AgentCrash
        \/ run \/ prepare_tun \/ send_started \/ handle_stop \/ send_error \/ HelperRestart

Spec == Init /\ [][Next]_vars
-----------------------------------------------------------------------------
\* However late the requests of earlier runs are handled, the routes of an agent that is
\* running are its own and the state file lists them, unless they could not be installed
\* when its lease was made.
RunningAgentHasRoutes == agent = "running" => held \in bare \/ (routes = held /\ file = held)

\* A lease in the map is held by the agent, is on its way to it, is about to be stopped, or
\* belongs to an agent that died or gave up with the answer in its socket.
LeaseHasHolder ==
    \A l \in leases : \/ l \in orphans \/ held = l \/ (conn = l /\ agent = "starting")
                      \/ \E r \in Range(backlog) \cup {current} : r.kind = "stop" /\ r.lease = l

\* Once every request is worked off, an idle agent's routes are gone unless they are such
\* an orphan's, which the state file lists for the next StartTun.
NothingLeftBehind == agent = "idle" /\ backlog = <<>> /\ busy = "no" /\ routes # NoConn =>
                        routes \in orphans /\ file = routes

\* The three together: the helper's routes and leases are those of the agent it serves.
HelperRoutesFollowAgent == RunningAgentHasRoutes /\ LeaseHasHolder /\ NothingLeftBehind
=============================================================================
