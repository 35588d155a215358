----------------------------- MODULE MCAndroid -----------------------------
\* The Android agent: its Yamux pool, native UDP slots and UDP of the TUN
\* device.
EXTENDS Integers, FiniteSets, Sequences

CONSTANTS NoRequest

VARIABLES
    part,     \* the component this behaviour is about
    pool, closed, streams, opens, refill, pool_req, pool_faults, pool_shutdown,
    slot, holder, fallback, session, slots_req, slots_shutdown,
    tun_shutdown, dispatcher, cached, egress, sessions, tasks, relayed, phase, queue,
    retry_request, batch, staged, flow_ids, expired, next_flow_id, broken, peer,
    delivered, reply, made, tun_faults

Pool == INSTANCE AndroidYamuxPool WITH
    Requests <- 1..2, MAX_SESSIONS <- 1, MAX_STREAMS <- 1, MAX_OPENS <- 1,
    MaxFaults <- 1, req <- pool_req, faults <- pool_faults, shutdown <- pool_shutdown
NativeSlots == INSTANCE AndroidUdpSlots WITH
    Requests <- 1..2, Slots <- {1}, Mode <- "udp", req <- slots_req,
    shutdown <- slots_shutdown
TunUdp == INSTANCE AndroidTunUdp WITH
    Flows <- {1}, QuicFlows <- {1}, RuleFlows <- {}, PROXY_UDP <- TRUE,
    BLOCK_QUIC <- FALSE, QUEUE_SIZE <- 1, MaxTasks <- 1, CHANNEL_SIZE <- 1,
    BATCH_LIMIT <- 2, MaxRequests <- 1, MaxFaults <- 1, shutdown <- tun_shutdown,
    faults <- tun_faults

pool_vars == <<pool, closed, streams, opens, refill, pool_req, pool_faults,
               pool_shutdown>>
slots_vars == <<slot, holder, fallback, session, slots_req, slots_shutdown>>
tun_vars == <<tun_shutdown, dispatcher, cached, egress, sessions, tasks, relayed,
              phase, queue, retry_request, batch, staged, flow_ids, expired,
              next_flow_id, broken, peer, delivered, reply, made, tun_faults>>
vars == <<part, pool_vars, slots_vars, tun_vars>>

Init == /\ part \in {"pool", "slots", "tun"}
        /\ Pool!AndroidInit /\ NativeSlots!AndroidInit /\ TunUdp!AndroidInit

OnlyPool == /\ part = "pool"
            /\ UNCHANGED <<part, slots_vars, tun_vars>>
OnlyNativeSlots == /\ part = "slots"
                   /\ UNCHANGED <<part, pool_vars, tun_vars>>
OnlyTunUdp == /\ part = "tun"
              /\ UNCHANGED <<part, pool_vars, slots_vars>>

Next == \/ OnlyPool /\ Pool!AndroidNext
        \/ OnlyNativeSlots /\ NativeSlots!AndroidNext
        \/ OnlyTunUdp /\ TunUdp!AndroidNext

\* Only one part moves in a behaviour, so the parts share the numbers of their fair
\* actions: Weak(i) and Strong(i) are the i-th fair action of whichever part it is.
Weak(i) ==
    \/ OnlyPool /\ Pool!AndroidWeaklyFair(i)
    \/ OnlyNativeSlots /\ NativeSlots!AndroidWeaklyFair(i)
    \/ OnlyTunUdp /\ TunUdp!AndroidWeaklyFair(i)
Strong(i) ==
    \/ OnlyPool /\ Pool!AndroidStronglyFair(i)
    \/ OnlyNativeSlots /\ NativeSlots!AndroidStronglyFair(i)
    \/ OnlyTunUdp /\ TunUdp!AndroidStronglyFair(i)

Spec ==
    /\ Init /\ [][Next]_vars
    /\ \A i \in 1..4 : WF_vars(Weak(i))
    /\ \A i \in 1..4 : SF_vars(Strong(i))
-----------------------------------------------------------------------------
\* After the VPN is stopped the pool creates no sessions any more, UDP mode uses no
\* native session, and dispatcher, sessions and shard of the TUN device end, although
\* the token is tested in few places.
AndroidStops ==
    /\ Pool!RefillsStop
    /\ NativeSlots!NativeSessionsStop
    /\ TunUdp!AndroidUdpStops
=============================================================================
