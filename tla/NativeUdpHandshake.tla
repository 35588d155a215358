------------------------- MODULE NativeUdpHandshake -------------------------
(***************************************************************************)
(* Setting up, keeping and losing native UDP sessions:                     *)
(*  - the agent's authenticate_udp_session (AuthInit with retries until a  *)
(*    deadline) and the keepalive of run_session_driver                    *)
(*    (common/src/client_connection/udp.rs);                               *)
(*  - the proxy's listener task: session table, generations, limit,        *)
(*    dispatch and cleanup (proxy/src/native_udp/listener.rs, auth.rs);    *)
(*  - the session tasks, seen from the listener: they drain their inbound  *)
(*    queue, answer pings, stop when idle, and report their end through    *)
(*    the guard's cleanup message (session.rs run_session).                *)
(*                                                                         *)
(* AuthInit and AuthOk datagrams may be lost, delayed and duplicated at    *)
(* will: `inits` and `oks` only grow.  Encrypted datagrams are duplicated  *)
(* without effect (module UdpSessionCodec), so they are delivered at most  *)
(* once.  An agent is one UdpClientConnection: it owns one random session  *)
(* id and client nonce, so the agent itself names its session.             *)
(***************************************************************************)
EXTENDS Integers, Sequences, FiniteSets

CONSTANTS Agents,          \* one per UdpClientConnection::connect
          Addresses,       \* source addresses the proxy can see
          SESSION_LIMIT,   \* ProxyConfig::udp_session_limit
          CHANNEL_SIZE,    \* udp_session_channel_size
          HEALTH_TICKS,    \* silent keepalive ticks an agent tolerates
          MaxSessions      \* bound: sessions the proxy sets up in a behaviour

HandshakeConstants ==
    /\ SESSION_LIMIT \in Nat
    /\ CHANNEL_SIZE \in Nat \ {0}
    /\ HEALTH_TICKS \in Nat \ {0}
    /\ MaxSessions \in Nat

None == 0
Generations == 1..MaxSessions

VARIABLES
    agent,            \* per agent: state, key, silent (ticks since it last heard)
    address,          \* per agent: the source address its datagrams carry now
    inits, oks,       \* AuthInit and AuthOk datagrams sent so far
    stale,            \* agents whose AuthInit timestamp is out of tolerance
    up, down,         \* encrypted datagrams in flight, agent to proxy and back
    sessions,         \* listener: session id -> SessionRoute, for those present
    next_generation,  \* listener: one generation, and one key, per session
    tasks,            \* session tasks not yet gone: generation -> task
    cleanups          \* cleanup_rx

agentVars == <<agent, address, stale>>
netVars == <<inits, oks, up, down>>
proxyVars == <<sessions, next_generation, tasks, cleanups>>
vars == <<agentVars, netVars, proxyVars>>

Without(f, keys) == [k \in DOMAIN f \ keys |-> f[k]]
With(f, key, value) == [k \in DOMAIN f \cup {key} |-> IF k = key THEN value ELSE f[k]]
-----------------------------------------------------------------------------
Init == /\ agent = [a \in Agents |-> [state |-> "authenticating", key |-> None, silent |-> 0]]
        /\ address \in [Agents -> Addresses]
        /\ \A a, b \in Agents : a # b => address[a] # address[b]
        /\ inits = {} /\ oks = {} /\ stale = {} /\ up = {} /\ down = {}
        /\ sessions = << >>
        /\ next_generation = 1
        /\ tasks = << >>
        /\ cleanups = << >>
-----------------------------------------------------------------------------
(* The agent. *)

\* authenticate_udp_session sends the same AuthInit bytes on every attempt.
SendAuthInit(a) ==
    /\ agent[a].state = "authenticating"
    /\ inits' = inits \cup {[session |-> a, from |-> address[a]]}
    /\ UNCHANGED <<agentVars, oks, up, down, proxyVars>>

\* An AuthOk whose secret names this session and this nonce ends the handshake.
\* Those for another session are skipped.
ReceiveAuthOk(a, m) ==
    /\ agent[a].state = "authenticating"
    /\ m.session = a /\ m.to = address[a]
    /\ agent' = [agent EXCEPT ![a] = [state |-> "established", key |-> m.key, silent |-> 0]]
    /\ UNCHANGED <<address, stale, netVars, proxyVars>>

\* The overall deadline passes: TimedOut.
AuthTimeout(a) ==
    /\ agent[a].state = "authenticating"
    /\ agent' = [agent EXCEPT ![a].state = "failed"]
    /\ UNCHANGED <<address, stale, netVars, proxyVars>>

\* Faulty variant: the tick pings for ever and never looks at the clock.
KeepaliveTick_no_deadline(a) ==
    /\ agent[a].state = "established"
    /\ agent' = [agent EXCEPT ![a].silent = HEALTH_TICKS]
    /\ up' = up \cup {[session |-> a, from |-> address[a], key |-> agent[a].key]}
    /\ UNCHANGED <<address, stale, inits, oks, down, proxyVars>>

\* keepalive.tick(): give up after a silent health period, else ping.
KeepaliveTick(a) ==
    /\ agent[a].state = "established"
    /\ \/ /\ agent[a].silent >= HEALTH_TICKS
          /\ agent' = [agent EXCEPT ![a].state = "timed_out"]
          /\ UNCHANGED up
       \/ /\ agent[a].silent < HEALTH_TICKS
          /\ agent' = [agent EXCEPT ![a].silent = @ + 1]
          /\ up' = up \cup {[session |-> a, from |-> address[a], key |-> agent[a].key]}
    /\ UNCHANGED <<address, stale, inits, oks, down, proxyVars>>

\* The driver receives a datagram; only one that its own key opens counts.
AgentReceive(a, d) ==
    /\ agent[a].state = "established"
    /\ d.session = a /\ d.to = address[a]
    /\ down' = down \ {d}
    /\ agent' = IF d.key = agent[a].key THEN [agent EXCEPT ![a].silent = 0] ELSE agent
    /\ UNCHANGED <<address, stale, inits, oks, up, proxyVars>>

\* All handles of the connection are dropped, or its socket fails.
DriverEnds(a) ==
    /\ agent[a].state = "established"
    /\ agent' = [agent EXCEPT ![a].state = "closed"]
    /\ UNCHANGED <<address, stale, netVars, proxyVars>>
-----------------------------------------------------------------------------
(* The network and the clock. *)

LoseUp(d) == /\ up' = up \ {d}
             /\ UNCHANGED <<agentVars, inits, oks, down, proxyVars>>

LoseDown(d) == /\ down' = down \ {d}
               /\ UNCHANGED <<agentVars, inits, oks, up, proxyVars>>

\* The agent's datagrams start to come from another address (NAT rebinding);
\* what was sent to the old one is lost.
Rebind(a, addr) ==
    /\ \A b \in Agents : address[b] # addr
    /\ \A m \in inits : m.from # addr
    /\ address' = [address EXCEPT ![a] = addr]
    /\ UNCHANGED <<agent, stale, netVars, proxyVars>>

\* The timestamp in the agent's AuthInit leaves replay_attack_tolerance.
TimestampExpires(a) ==
    /\ a \notin stale
    /\ stale' = stale \cup {a}
    /\ UNCHANGED <<agent, address, netVars, proxyVars>>
-----------------------------------------------------------------------------
(* The listener task: handle_datagram and the cleanup branch of run. *)

\* Faulty variant: the AuthOk goes to whoever repeats the AuthInit.
ResendAuthOk_any_peer(m) ==
    /\ m.session \in DOMAIN sessions
    /\ oks' = oks \cup {[session |-> m.session, to |-> m.from,
                         key |-> sessions[m.session].generation]}
    /\ UNCHANGED <<agentVars, inits, up, down, proxyVars>>

\* handle_auth_init for a known session: the same bytes from the same address
\* get the same AuthOk again, anything else is dropped.
ResendAuthOk(m) ==
    /\ m.session \in DOMAIN sessions
    /\ sessions[m.session].peer = m.from
    /\ oks' = oks \cup {[session |-> m.session, to |-> m.from,
                         key |-> sessions[m.session].generation]}
    /\ UNCHANGED <<agentVars, inits, up, down, proxyVars>>

\* Faulty variant: the limit is checked with > instead of >=.
CreateSession_one_more(m) ==
    LET generation == next_generation
    IN /\ m.session \notin DOMAIN sessions
       /\ Cardinality(DOMAIN sessions) <= SESSION_LIMIT
       /\ m.session \notin stale
       /\ generation <= MaxSessions
       /\ next_generation' = generation + 1
       /\ sessions' = With(sessions, m.session, [peer |-> m.from, generation |-> generation])
       /\ tasks' = With(tasks, generation, [session |-> m.session, peer |-> m.from,
                                            running |-> TRUE, inbound |-> << >>])
       /\ oks' = oks \cup {[session |-> m.session, to |-> m.from, key |-> generation]}
       /\ UNCHANGED <<agentVars, inits, up, down, cleanups>>

\* handle_auth_init for a new session, under the limit, with a proof and a
\* timestamp that prepare_session accepts: allocate a generation (and a fresh
\* random key, named here by the generation), register the route, spawn the
\* task, answer.
CreateSession(m) ==
    LET generation == next_generation
    IN /\ m.session \notin DOMAIN sessions
       /\ Cardinality(DOMAIN sessions) < SESSION_LIMIT
       /\ m.session \notin stale
       /\ generation <= MaxSessions
       /\ next_generation' = generation + 1
       /\ sessions' = With(sessions, m.session, [peer |-> m.from, generation |-> generation])
       /\ tasks' = With(tasks, generation, [session |-> m.session, peer |-> m.from,
                                            running |-> TRUE, inbound |-> << >>])
       /\ oks' = oks \cup {[session |-> m.session, to |-> m.from, key |-> generation]}
       /\ UNCHANGED <<agentVars, inits, up, down, cleanups>>

\* handle_auth_init that changes nothing: a conflicting first flight, a full
\* table, a refused proof, user or timestamp.
RefuseAuthInit(m) ==
    /\ \/ /\ m.session \in DOMAIN sessions
          /\ sessions[m.session].peer # m.from
       \/ /\ m.session \notin DOMAIN sessions
          /\ Cardinality(DOMAIN sessions) >= SESSION_LIMIT \/ m.session \in stale
    /\ UNCHANGED vars

\* Faulty variant: cleanup goes by session id alone.
remove_session_by_id(cleanup) == Without(sessions, {cleanup.session})

remove_session(cleanup) ==
    Without(sessions, {s \in DOMAIN sessions : /\ s = cleanup.session
                                              /\ sessions[s].generation = cleanup.generation})

\* dispatch_encrypted: an unknown session, another source address or a full
\* queue drop the datagram; a closed queue removes the route.
DispatchEncrypted(d) ==
    LET s == d.session
        known == s \in DOMAIN sessions /\ sessions[s].peer = d.from
        g == sessions[s].generation
        open == g \in DOMAIN tasks /\ tasks[g].running
        fits == Len(tasks[g].inbound) < CHANNEL_SIZE
    IN /\ up' = up \ {d}
       /\ tasks' = IF known /\ open /\ fits
                     THEN [tasks EXCEPT ![g].inbound = Append(@, d.key)] ELSE tasks
       /\ sessions' = IF known /\ ~open
                        THEN remove_session([session |-> s, generation |-> g]) ELSE sessions
       /\ UNCHANGED <<agentVars, inits, oks, down, next_generation, cleanups>>

\* cleanup_rx.recv() => remove_session.
HandleCleanup ==
    /\ cleanups # << >>
    /\ sessions' = remove_session(Head(cleanups))
    /\ cleanups' = Tail(cleanups)
    /\ UNCHANGED <<agentVars, netVars, next_generation, tasks>>
-----------------------------------------------------------------------------
(* The session tasks. *)

\* run_session takes a datagram: one sealed under its own key is a ping and is
\* answered, any other fails authentication and is dropped.
SessionReceive(g) ==
    LET t == tasks[g]
    IN /\ t.running /\ t.inbound # << >>
       /\ tasks' = [tasks EXCEPT ![g].inbound = Tail(@)]
       /\ down' = IF Head(t.inbound) = g
                    THEN down \cup {[session |-> t.session, to |-> t.peer, key |-> g]}
                    ELSE down
       /\ UNCHANGED <<agentVars, inits, oks, up, sessions, next_generation, cleanups>>

\* run_session returns, its idle timer having fired or a send having failed:
\* inbound_rx is dropped, and the queue is closed from here on.
SessionStops(g) ==
    /\ tasks[g].running
    /\ tasks' = [tasks EXCEPT ![g].running = FALSE, ![g].inbound = << >>]
    /\ UNCHANGED <<agentVars, netVars, sessions, next_generation, cleanups>>

\* Faulty variant: the guard is only armed on the error path, and stays silent.
GuardDropped_silent(g) ==
    /\ ~tasks[g].running
    /\ tasks' = Without(tasks, {g})
    /\ UNCHANGED <<agentVars, netVars, sessions, next_generation, cleanups>>

\* The task ends and drops its SessionCleanupGuard.
GuardDropped(g) ==
    /\ ~tasks[g].running
    /\ tasks' = Without(tasks, {g})
    /\ cleanups' = Append(cleanups, [session |-> tasks[g].session, generation |-> g])
    /\ UNCHANGED <<agentVars, netVars, sessions, next_generation>>
-----------------------------------------------------------------------------
AgentNext(a) == \/ SendAuthInit(a) \/ AuthTimeout(a) \/ KeepaliveTick(a) \/ DriverEnds(a)
                \/ \E m \in oks : ReceiveAuthOk(a, m)
                \/ \E d \in down : AgentReceive(a, d)

Network == \/ \E d \in up : LoseUp(d)
           \/ \E d \in down : LoseDown(d)
           \/ \E a \in Agents, addr \in Addresses : Rebind(a, addr)
           \/ \E a \in Agents : TimestampExpires(a)

Listener == \/ \E m \in inits : ResendAuthOk(m) \/ CreateSession(m) \/ RefuseAuthInit(m)
            \/ \E d \in up : DispatchEncrypted(d)
            \/ HandleCleanup

SessionTask(g) == SessionReceive(g) \/ SessionStops(g) \/ GuardDropped(g)

Next == \/ \E a \in Agents : AgentNext(a)
        \/ Network
        \/ Listener
        \/ \E g \in DOMAIN tasks : SessionTask(g)

Spec == Init /\ [][Next]_vars

\* Timers fire: the agent's deadline and keepalive, and the idle timer of a
\* session whose agent is gone.  Tasks that have something to do are scheduled.
WeaklyFair(i) ==
    \/ i = 1 /\ HandleCleanup
    \/ \E a \in Agents : \/ i = 2 * a /\ AuthTimeout(a)
                         \/ i = 2 * a + 1 /\ KeepaliveTick(a)
    \/ \E g \in DOMAIN tasks :
          \/ i = 2 * (Cardinality(Agents) + g) /\ GuardDropped(g)
          \/ /\ i = 2 * (Cardinality(Agents) + g) + 1
             /\ agent[tasks[g].session].state # "established"
             /\ SessionStops(g)
-----------------------------------------------------------------------------
TypeOK ==
    /\ agent \in [Agents -> [state : {"authenticating", "established", "failed",
                                      "timed_out", "closed"},
                             key : Generations \cup {None}, silent : 0..HEALTH_TICKS]]
    /\ address \in [Agents -> Addresses]
    /\ inits \subseteq [session : Agents, from : Addresses]
    /\ oks \subseteq [session : Agents, to : Addresses, key : Generations]
    /\ stale \subseteq Agents
    /\ up \subseteq [session : Agents, from : Addresses, key : Generations]
    /\ down \subseteq [session : Agents, to : Addresses, key : Generations]
    /\ DOMAIN sessions \subseteq Agents
    /\ \A s \in DOMAIN sessions :
         sessions[s] \in [peer : Addresses, generation : Generations]
    /\ next_generation \in 1..(MaxSessions + 1)
    /\ DOMAIN tasks \subseteq Generations
    /\ \A g \in DOMAIN tasks :
         tasks[g] \in [session : Agents, peer : Addresses, running : BOOLEAN,
                       inbound : Seq(Generations)]
    /\ cleanups \in Seq([session : Agents, generation : Generations])

\* A running session task is always the one its session id is routed to, so it
\* gets its datagrams and can be found idle only when they really stop; hence
\* no session id ever has two running tasks.  What threatens it is the cleanup
\* of an ended session arriving after the same id was set up again.
RunningTaskIsRouted ==
    \A g \in DOMAIN tasks :
        tasks[g].running =>
            /\ tasks[g].session \in DOMAIN sessions
            /\ sessions[tasks[g].session].generation = g
            /\ sessions[tasks[g].session].peer = tasks[g].peer

\* The proxy never runs more sessions than udp_session_limit, counting the ones
\* that have ended but are still in the table.
SessionLimitHolds ==
    /\ Cardinality(DOMAIN sessions) <= SESSION_LIMIT
    /\ Cardinality({g \in DOMAIN tasks : tasks[g].running}) <= SESSION_LIMIT

\* A route whose task is over is on its way out: the task has yet to drop its
\* guard, or the guard's message is queued.  No route leaks.
DeadRouteHasCleanup ==
    \A s \in DOMAIN sessions :
        LET g == sessions[s].generation
        IN \/ g \in DOMAIN tasks
           \/ \E i \in DOMAIN cleanups : cleanups[i] = [session |-> s, generation |-> g]

\* A session is bound to one address: its AuthOk, however often it is sent again,
\* and its encrypted answers only go to the address whose AuthInit created it.
SessionBoundToPeer ==
    \A m \in oks : /\ \A n \in oks : n.key = m.key => n = m
                   /\ \A d \in down : d.key = m.key => d = m
                   /\ m.key \in DOMAIN tasks => tasks[m.key].peer = m.to

\* The agent is on a session that the proxy does not run any more, or runs for
\* another address than the one the agent's datagrams now come from.
SessionLost(a) ==
    /\ agent[a].state = "established"
    /\ \A g \in DOMAIN tasks :
         ~(g = agent[a].key /\ tasks[g].running /\ tasks[g].peer = address[a])

\* An agent does not stay on a lost session: its keepalive notices that nothing
\* authentic comes back, and the connection ends (udp.rs run_session_driver).
LostSessionIsNoticed ==
    \A a \in Agents : SessionLost(a) ~> agent[a].state # "established"

\* Once an agent is gone and its AuthInit too old to be replayed, the proxy
\* frees its entry in the session table for good.
GoneAgentIsForgotten ==
    \A a \in Agents :
        (agent[a].state \in {"failed", "timed_out", "closed"} /\ a \in stale)
            ~> [](a \notin DOMAIN sessions)
=============================================================================
