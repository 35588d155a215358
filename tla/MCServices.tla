----------------------------- MODULE MCServices ----------------------------
\* What starts and stops around the relays: TUN mode with its network
\* stack, the VPN service and the shared HTTP/SOCKS5 proxy of Android,
\* and the chain of proxies that connects a request to its target.
EXTENDS Integers, FiniteSets, Sequences

CONSTANTS TASKS, VPN_TASKS, MaxFaults, MaxStarts, Conns, Ips, MaxMoves, HOPS,
          Requests, Remote, BIND, MaxBreaks, NoTask

VARIABLES
    part,     \* the component this behaviour is about
    tun_shutdown, tun_cancelled, tun_task, tun_left, tun_sup, tun_completed, tun_next,
    tun_stuck, tun_faults, tun_server, mode, watched, aborting, partial, bind, taken,
    vpn_shutdown, vpn_cancelled, vpn_task, vpn_left, vpn_sup, vpn_completed, vpn_next,
    vpn_stuck, vpn_faults, java, vpn_handle, vpn_health, vpn_thread, tun, protector,
    starts,
    wish, enabled, blockedPref, intents, sticky, undone, shared_handle, shared_thread,
    shared_health, restart, conn, tunnel, leases, shared_cancelled, active, blocked,
    moves, shared_faults,
    request, via, tries, client, caes, connect_server, saes, cred, up, down, broken,
    target, connect_faults

Tun == INSTANCE TunMode WITH
    shutdown <- tun_shutdown, cancelled <- tun_cancelled, task <- tun_task,
    left <- tun_left, sup <- tun_sup, completed <- tun_completed, next <- tun_next,
    stuck <- tun_stuck, faults <- tun_faults, server <- tun_server
Vpn == INSTANCE AndroidVpn WITH
    TASKS <- VPN_TASKS, shutdown <- vpn_shutdown, cancelled <- vpn_cancelled,
    task <- vpn_task, left <- vpn_left, sup <- vpn_sup, completed <- vpn_completed,
    next <- vpn_next, stuck <- vpn_stuck, faults <- vpn_faults, handle <- vpn_handle,
    health <- vpn_health, thread <- vpn_thread
Shared == INSTANCE AndroidProxy WITH
    handle <- shared_handle, thread <- shared_thread, health <- shared_health,
    cancelled <- shared_cancelled, faults <- shared_faults
Chain == INSTANCE TargetConnect WITH
    MaxFaults <- MaxBreaks, server <- connect_server, faults <- connect_faults

tun_vars == <<tun_shutdown, tun_cancelled, tun_task, tun_left, tun_sup, tun_completed,
              tun_next, tun_stuck, tun_faults, tun_server, mode, watched, aborting,
              partial, bind, taken>>
vpn_vars == <<vpn_shutdown, vpn_cancelled, vpn_task, vpn_left, vpn_sup, vpn_completed,
              vpn_next, vpn_stuck, vpn_faults, java, vpn_handle, vpn_health,
              vpn_thread, tun, protector, starts>>
shared_vars == <<wish, enabled, blockedPref, intents, sticky, undone, shared_handle,
                 shared_thread, shared_health, restart, conn, tunnel, leases,
                 shared_cancelled, active, blocked, moves, shared_faults>>
connect_vars == <<request, via, tries, client, caes, connect_server, saes, cred, up,
                  down, broken, target, connect_faults>>
vars == <<part, tun_vars, vpn_vars, shared_vars, connect_vars>>

Init == /\ part \in {"tun", "vpn", "shared", "connect"}
        /\ Tun!Init /\ Vpn!VpnInit /\ Shared!Init /\ Chain!Init
        /\ part # "tun" => tun_stuck = NoTask
        /\ part # "vpn" => vpn_stuck = NoTask
        /\ part # "connect" => request = <<"host", "tcp">> /\ via[1] = "direct" /\ \A l \in 1..HOPS : cred[l] = "good"

OnlyTun == /\ part = "tun"
           /\ UNCHANGED <<part, vpn_vars, shared_vars, connect_vars>>
OnlyVpn == /\ part = "vpn"
           /\ UNCHANGED <<part, tun_vars, shared_vars, connect_vars>>
OnlyShared == /\ part = "shared"
              /\ UNCHANGED <<part, tun_vars, vpn_vars, connect_vars>>
OnlyChain == /\ part = "connect"
             /\ UNCHANGED <<part, tun_vars, vpn_vars, shared_vars>>

Next == \/ OnlyTun /\ Tun!Next
        \/ OnlyVpn /\ Vpn!VpnNext
        \/ OnlyShared /\ Shared!ProxyNext
        \/ OnlyChain /\ Chain!Next

\* Only one part moves in a behaviour, so the parts share the numbers of their fair
\* actions: Weak(i) and Strong(i) are the i-th fair action of whichever part it is.
Weak(i) ==
    \/ OnlyTun /\ Tun!WeaklyFair(i)
    \/ OnlyVpn /\ Vpn!VpnWeaklyFair(i)
    \/ OnlyShared /\ Shared!ProxyWeaklyFair(i)
    \/ OnlyChain /\ Chain!WeaklyFair(i)

Spec ==
    /\ Init /\ [][Next]_vars
    /\ \A i \in 1..4 : WF_vars(Weak(i))
-----------------------------------------------------------------------------
\* Through failing tasks, rebuilds, restarts and revocation one generation of stack
\* tasks runs at a time, on the desktop and on Android; the sockets of the Android
\* agent stay outside of the VPN; and every connection of the shared proxy is listed
\* under its client, so that a block can cut it.
ServicesKeepTrack ==
    /\ Tun!TypeOK /\ Tun!OneGeneration
    /\ Vpn!VpnTypeOK /\ Vpn!OneGeneration /\ Vpn!SocketsStayOutside
    /\ Shared!ProxyTypeOK /\ Shared!ClientsAreListed

\* An agent that was told that it is connected got its target through every hop of the
\* chain, with good credentials at each; a target is open only for a task that is
\* alive; and whoever reads a frame reads it with the cipher it was written with,
\* although the key is switched on at different times.
ToldIsTrue ==
    /\ Chain!TypeOK /\ Chain!ToldIsTrue /\ Chain!TargetHasOwner
    /\ Chain!FramesMatchCipher

\* Once the desktop agent is told to stop, the routes and DNS settings of the host are
\* back and the server returns, although a task of the stack hangs or TUN mode is
\* aborted while it probes or joins its tasks; and a stack one of whose tasks fails is up again unless the agent
\* stops or a task hangs.
NetworkIsRestored ==
    /\ Tun!NetworkIsRestored
    /\ Tun!StackRecovers

\* The VPN service stops when it is told to and the shared proxy ends up as it was
\* asked last, unless a start failed or was undone by an earlier stop, with blocked
\* clients cut; a request ends, with its target or with an error,
\* and when its agent is gone, by a timeout too, no proxy of the chain keeps its task
\* or target.
ServicesEnd ==
    /\ Chain!ChainIsReleased
    /\ Chain!RequestIsAnswered
    /\ Vpn!VpnStops
    /\ Shared!BlockedClientIsCut
    /\ Shared!ProxyFollowsWish

\* Tasks of the stack, the kinds of requests, and a proxy with an address of each family.
TwoTasks == <<"runner", "udp_task">>
ThreeTasks == <<"runner", "tun_to_stack", "udp_task">>
AllRequests == {<<"host", "tcp">>, <<"ProxyDns", "udp">>, <<"UdpRelay", "udp">>, <<"UdpRelay", "tcp">>}
BothFamilies == <<"v6", "v4">>

\* What the proofs assume of the limits and sets holds of the ones chosen here.
ASSUME ServicesConstants ==
    /\ Tun!NetstackConstants /\ Vpn!NetstackConstants /\ Vpn!VpnConstants
    /\ Shared!SharedConstants /\ Chain!ChainConstants

=============================================================================
