---------------------------- MODULE MCAgentLive ----------------------------
\* Liveness of the desktop agent: its sessions, its UDP and DNS tasks and
\* TUN mode, on smaller instances.
EXTENDS Integers, FiniteSets, Sequences

CONSTANTS NoRequest

VARIABLES
    part,     \* the component this behaviour is about
    pool, closed, streams, opens, refill, pool_req, pool_faults,
    slot, holder, fallback, session, slots_req,
    shard_phase, shard_shutdown, shard_queue, retry_request, batch, staged, flow_ids,
    expired, next_flow_id, shard_broken, peer, delivered, shard_reply, shard_made,
    shard_faults,
    sessions_shutdown, dispatcher, cached, egress, sessions, tasks, relayed,
    dns_phase, dns_shutdown, dns_queue, current, pending, next_id, cache, dns_broken,
    wire, dns_reply, answered, dns_made, dns_faults

Pool == INSTANCE YamuxPool WITH
    Requests <- 1..2, MAX_SESSIONS <- 1, MAX_STREAMS <- 1, MAX_OPENS <- 1,
    MaxFaults <- 1, req <- pool_req, faults <- pool_faults
NativeSlots == INSTANCE UdpSlots WITH
    Requests <- 1..2, Slots <- {1}, Mode <- "auto", req <- slots_req
Shard == INSTANCE TunUdpRelay WITH
    Flows <- {1}, CHANNEL_SIZE <- 2, BATCH_LIMIT <- 2, MaxRequests <- 2, MaxFaults <- 2,
    phase <- shard_phase, shutdown <- shard_shutdown, queue <- shard_queue,
    broken <- shard_broken, reply <- shard_reply, made <- shard_made,
    faults <- shard_faults
Sessions == INSTANCE TunUdpSessions WITH
    Flows <- {1}, QuicFlows <- {1}, RuleFlows <- {}, PROXY_UDP <- TRUE,
    BLOCK_QUIC <- FALSE, QUEUE_SIZE <- 1, MaxTasks <- 1, shutdown <- sessions_shutdown
Dns == INSTANCE DnsProxy WITH
    Queries <- {1}, IDS <- 4, CHANNEL_SIZE <- 2, CACHE_SIZE <- 1, MaxRequests <- 2,
    MaxFaults <- 2, phase <- dns_phase, shutdown <- dns_shutdown, queue <- dns_queue,
    broken <- dns_broken, reply <- dns_reply, made <- dns_made, faults <- dns_faults

pool_vars == <<pool, closed, streams, opens, refill, pool_req, pool_faults>>
slots_vars == <<slot, holder, fallback, session, slots_req>>
shard_vars == <<shard_phase, shard_shutdown, shard_queue, retry_request, batch,
                staged, flow_ids, expired, next_flow_id, shard_broken, peer,
                delivered, shard_reply, shard_made, shard_faults>>
sessions_vars == <<sessions_shutdown, dispatcher, cached, egress, sessions, tasks,
                   relayed>>
dns_vars == <<dns_phase, dns_shutdown, dns_queue, current, pending, next_id, cache,
              dns_broken, wire, dns_reply, answered, dns_made, dns_faults>>
vars == <<part, pool_vars, slots_vars, shard_vars, sessions_vars, dns_vars>>

Init == /\ part \in {"pool", "slots", "shard", "sessions", "dns"}
        /\ Pool!Init /\ NativeSlots!Init /\ Shard!Init /\ Sessions!Init /\ Dns!Init

OnlyPool == /\ part = "pool"
            /\ UNCHANGED <<part, slots_vars, shard_vars, sessions_vars, dns_vars>>
OnlyNativeSlots == /\ part = "slots"
                   /\ UNCHANGED <<part, pool_vars, shard_vars, sessions_vars,
                                  dns_vars>>
OnlyShard == /\ part = "shard"
             /\ UNCHANGED <<part, pool_vars, slots_vars, sessions_vars, dns_vars>>
OnlySessions == /\ part = "sessions"
                /\ UNCHANGED <<part, pool_vars, slots_vars, shard_vars, dns_vars>>
OnlyDns == /\ part = "dns"
           /\ UNCHANGED <<part, pool_vars, slots_vars, shard_vars, sessions_vars>>

Next == \/ OnlyPool /\ Pool!Next
        \/ OnlyNativeSlots /\ NativeSlots!Next
        \/ OnlyShard /\ Shard!Next
        \/ OnlySessions /\ Sessions!Next
        \/ OnlyDns /\ Dns!Next

\* Only one part moves in a behaviour, so the parts share the numbers of their fair
\* actions: Weak(i) and Strong(i) are the i-th fair action of whichever part it is.
Weak(i) ==
    \/ OnlyPool /\ Pool!WeaklyFair(i)
    \/ OnlyNativeSlots /\ NativeSlots!WeaklyFair(i)
    \/ OnlyShard /\ Shard!WeaklyFair(i)
    \/ OnlySessions /\ Sessions!WeaklyFair(i)
    \/ OnlyDns /\ Dns!WeaklyFair(i)
Strong(i) ==
    \/ OnlyPool /\ Pool!StronglyFair(i)
    \/ OnlyNativeSlots /\ NativeSlots!StronglyFair(i)
    \/ OnlyShard /\ Shard!StronglyFair(i)
    \/ OnlySessions /\ Sessions!StronglyFair(i)
    \/ OnlyDns /\ Dns!StronglyFair(i)

Spec ==
    /\ Init /\ [][Next]_vars
    /\ \A i \in 1..5 : WF_vars(Weak(i))
    /\ \A i \in 1..3 : SF_vars(Strong(i))
-----------------------------------------------------------------------------
\* A request for a stream ends, with a stream or with an error, although sessions fail
\* while it waits for the refill lock, for permits or for a slot whose lock is held
\* across a handshake; and a slot that has fallen back to Yamux is left for good.
RequestsEnd ==
    /\ Pool!RequestsAnswered
    /\ NativeSlots!RequestsEnd
    /\ NativeSlots!FallbackIsFinal

\* Once no more faults come, a queued datagram is delivered and a queued query handled:
\* neither a reconnect nor an idle close nor an expiry loses it.
QueuedIsHandled ==
    /\ Shard!QueuedIsDelivered
    /\ Dns!QueuedQueryIsHandled

\* A cancelled token ends the relay shard, the dispatcher with all its sessions and the
\* DNS proxy, wherever they are waiting.
TasksStop ==
    /\ Shard!ShardStops
    /\ Sessions!SessionsStop
    /\ Dns!DnsProxyStops
=============================================================================
