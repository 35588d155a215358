--------------------------- MODULE MCProxyUdpLive --------------------------
\* Liveness of UDP at the proxy: handshake and cleanup of native
\* sessions, their channels, and the flows of a shared UDP relay.
EXTENDS Integers, FiniteSets, Sequences

VARIABLES
    part,     \* the component this behaviour is about
    agent, address, inits, oks, stale, handshake_up, handshake_down, sessions,
    next_generation, handshake_tasks, cleanups,
    stream, commands, driver, streams, flows_up, flows_down, session, channels, workers,
    events, opened,
    relay, dispatching, flows, relay_tasks, spawned, flow_done, responses

Handshake == INSTANCE NativeUdpHandshake WITH
    Agents <- {1}, Addresses <- {1, 2}, SESSION_LIMIT <- 1, CHANNEL_SIZE <- 1,
    HEALTH_TICKS <- 2, MaxSessions <- 2, up <- handshake_up, down <- handshake_down,
    tasks <- handshake_tasks
Flows == INSTANCE NativeUdpFlows WITH
    MAX_FLOWS <- 1, CHANNEL_SIZE <- 1, COMMAND_CAPACITY <- 2, MaxFlows <- 1,
    MaxPackets <- 3, up <- flows_up, down <- flows_down
Relay == INSTANCE UdpRelayFlows WITH
    FlowIds <- {1, 2}, MAX_FLOWS <- 1, CHANNEL_SIZE <- 1, MaxTasks <- 3,
    tasks <- relay_tasks

handshake_vars == <<agent, address, inits, oks, stale, handshake_up, handshake_down,
                    sessions, next_generation, handshake_tasks, cleanups>>
flows_vars == <<stream, commands, driver, streams, flows_up, flows_down, session,
                channels, workers, events, opened>>
relay_vars == <<relay, dispatching, flows, relay_tasks, spawned, flow_done, responses>>
vars == <<part, handshake_vars, flows_vars, relay_vars>>

Init == /\ part \in {"handshake", "flows", "relay"}
        /\ Handshake!Init /\ Flows!Init /\ Relay!Init
        /\ part # "handshake" => address[1] = 1

OnlyHandshake == /\ part = "handshake"
                 /\ UNCHANGED <<part, flows_vars, relay_vars>>
OnlyFlows == /\ part = "flows"
             /\ UNCHANGED <<part, handshake_vars, relay_vars>>
OnlyRelay == /\ part = "relay"
             /\ UNCHANGED <<part, handshake_vars, flows_vars>>

Next == \/ OnlyHandshake /\ Handshake!Next
        \/ OnlyFlows /\ Flows!Next
        \/ OnlyRelay /\ Relay!Next

\* Only one part moves in a behaviour, so the parts share the numbers of their fair
\* actions: Weak(i) and Strong(i) are the i-th fair action of whichever part it is.
Weak(i) ==
    \/ OnlyHandshake /\ Handshake!WeaklyFair(i)
    \/ OnlyFlows /\ Flows!WeaklyFair(i)
    \/ OnlyRelay /\ Relay!WeaklyFair(i)
Strong(i) ==
    \/ OnlyRelay /\ Relay!StronglyFair(i)

Spec ==
    /\ Init /\ [][Next]_vars
    /\ \A i \in 1..9 : WF_vars(Weak(i))
    /\ \A i \in 1..4 : SF_vars(Strong(i))
-----------------------------------------------------------------------------
\* A connected flow whose stream was dropped gives its socket and its channel
\* back, even when its Close was lost, overtaken or never sent.
ConnectedFlowIsReleased == Flows!ConnectedFlowIsReleased

\* An agent does not stay on a session the proxy has lost, as its keepalive notices
\* that nothing authentic comes back; and once an agent is gone and its AuthInit too
\* old to be replayed, the proxy frees its entry in the session table for good.
NativeSessionsEnd ==
    /\ Handshake!LostSessionIsNoticed
    /\ Handshake!GoneAgentIsForgotten

\* A flow task that left its loop is not stuck on the bounded flow_done channel, and
\* one that lost its place in the table, or whose relay ended, gives its socket back.
FlowTasksEnd ==
    /\ Relay!OrphanEnds
    /\ Relay!ReportIsTaken
=============================================================================
