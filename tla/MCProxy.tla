------------------------------ MODULE MCProxy ------------------------------
\* The proxy: the channels of a native UDP session, the flows of a shared
\* UDP relay, the handshake of native sessions at the listener, and the
\* way out to the targets.
EXTENDS NativeUdpFlows, TLC

CONSTANTS FlowIds, MaxTasks, Agents, Addresses, SESSION_LIMIT, HEALTH_TICKS,
          MaxSessions, Conns, Resolved, Ifaces, Named, Unindexed, Modes, MaxMoves, MaxFaults,
          NoIface, NoRef

VARIABLES
    part,     \* the component this behaviour is about
    relay, dispatching, flows, relay_tasks, spawned, flow_done, responses,
    agent, address, inits, oks, stale, handshake_up, handshake_down, sessions,
    next_generation, handshake_tasks, cleanups,
    mode, udp, default, egress_up, tun, host, refs, cached, ifs, fresh, pc, pos, iface,
    snap, guard, settled, moves, faults

Relay == INSTANCE UdpRelayFlows WITH
    tasks <- relay_tasks
Handshake == INSTANCE NativeUdpHandshake WITH
    up <- handshake_up, down <- handshake_down, tasks <- handshake_tasks
WayOut == INSTANCE Egress WITH
    up <- egress_up

relay_vars == <<relay, dispatching, flows, relay_tasks, spawned, flow_done, responses>>
handshake_vars == <<agent, address, inits, oks, stale, handshake_up, handshake_down,
                    sessions, next_generation, handshake_tasks, cleanups>>
egress_vars == <<mode, udp, default, egress_up, tun, host, refs, cached, ifs, fresh,
                 pc, pos, iface, snap, guard, settled, moves, faults>>
suite_vars == <<part, vars, relay_vars, handshake_vars, egress_vars>>

SuiteInit == /\ part \in {"flows", "relay", "handshake", "egress"}
             /\ Init /\ Relay!Init /\ Handshake!Init /\ WayOut!Init
             /\ part # "egress" => mode = "default" /\ udp = {} /\ default = Named

OnlyChannels == /\ part = "flows"
                /\ UNCHANGED <<part, relay_vars, handshake_vars, egress_vars>>
OnlyRelay == /\ part = "relay"
             /\ UNCHANGED <<part, vars, handshake_vars, egress_vars>>
OnlyHandshake == /\ part = "handshake"
                 /\ UNCHANGED <<part, vars, relay_vars, egress_vars>>
OnlyWayOut == /\ part = "egress"
              /\ UNCHANGED <<part, vars, relay_vars, handshake_vars>>

SuiteNext == \/ OnlyChannels /\ Next
             \/ OnlyRelay /\ Relay!Next
             \/ OnlyHandshake /\ Handshake!Next
             \/ OnlyWayOut /\ WayOut!Next

SuiteSpec == SuiteInit /\ [][SuiteNext]_suite_vars
-----------------------------------------------------------------------------
(* Each property looks at the part that moves; the others are as they began. *)

\* A running session task is always the one its session id is routed to, so it
\* gets its datagrams and can be found idle only when they really stop; hence
\* no session id ever has two running tasks.  What threatens it is the cleanup
\* of an ended session arriving after the same id was set up again.
RunningTaskIsRouted == part = "handshake" => Handshake!RunningTaskIsRouted

\* The proxy never runs more sessions than udp_session_limit, counting the ones
\* that have ended but are still in the table.
SessionLimitHolds == part = "handshake" => Handshake!SessionLimitHolds

\* A route whose task is over is on its way out: the task has yet to drop its
\* guard, or the guard's message is queued.  No route leaks.
DeadRouteHasCleanup == part = "handshake" => Handshake!DeadRouteHasCleanup

\* A session is bound to one address: its AuthOk, however often it is sent again,
\* and its encrypted answers only go to the address whose AuthInit created it.
SessionBoundToPeer == part = "handshake" => Handshake!SessionBoundToPeer

\* The table of a shared relay stays within udp_relay_max_flows, and an entry whose
\* task is gone is not forgotten: the report of the task is queued.
RelayTableIsTrue == part = "relay" => Relay!RelayTableIsTrue

\* Whatever order connections to one address list the routing table, take the lock,
\* fail and end in, the reference counts are those of the guards held, a counted host
\* route is in the table, and one is left behind only by a deletion that failed.
RefsMatchGuards == part = "egress" => WayOut!TypeOK /\ WayOut!RefsMatchGuards /\ WayOut!NoRouteIsLeft

\* A proxy that was started before the network, or whose network has moved, finds its
\* way out again, however many connections read and store the table meanwhile: on a
\* machine that stays as it is while a connection selects the interface for an address,
\* and without failed calls, the address is given up for want of an interface only if the
\* default route has no usable one or if the route that was looked at has no index.
AutoFindsTheWayOut == WayOut!AutoFindsTheWayOut

\* Two connections, one of whose addresses they share.
SharedAddress == [c \in {1, 2} |-> IF c = 2 THEN <<"a", "b">> ELSE <<"a">>]

\* What the proofs assume of the limits and sets holds of the ones chosen here.
ASSUME ProxyConstants ==
    /\ FlowsConstants /\ Relay!RelayConstants /\ WayOut!EgressConstants
    /\ Handshake!HandshakeConstants

\* Addresses are only compared for equality.
Symmetry == Permutations(Addresses)

=============================================================================
