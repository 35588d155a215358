------------------------------- MODULE MCTcp -------------------------------
\* A TCP stream through agent and proxy, with timers and faults and
\* without.
EXTENDS Integers, FiniteSets, Sequences

CONSTANTS MaxUnits, LINK_SIZE, IDLE, HALF_CLOSE, MaxFaults

VARIABLES
    part,     \* the component this behaviour is about
    sent, inbox, fin, c1, c2, link, link_closed, out, outFin, relay, broken, quiet

Tunnel == INSTANCE TcpTunnel
Plain == INSTANCE TcpTunnel WITH
    MaxUnits <- 2, LINK_SIZE <- 1, IDLE <- 0, HALF_CLOSE <- 0, MaxFaults <- 0

timers_vars == <<sent, inbox, fin, c1, c2, link, link_closed, out, outFin, relay,
                 broken, quiet>>
vars == <<part, timers_vars>>

Init == /\ part \in {"timers", "plain"}
        /\ Tunnel!Init

OnlyTunnel == /\ part = "timers"
              /\ UNCHANGED <<part>>
OnlyPlain == /\ part = "plain"
             /\ UNCHANGED <<part>>

Next == \/ OnlyTunnel /\ Tunnel!Next
        \/ OnlyPlain /\ Plain!Next

\* Only one part moves in a behaviour, so the parts share the numbers of their fair
\* actions: Weak(i) and Strong(i) are the i-th fair action of whichever part it is.
Weak(i) ==
    \/ OnlyTunnel /\ Tunnel!WeaklyFair(i)
    \/ OnlyPlain /\ Plain!WeaklyFair(i)

Spec ==
    /\ Init /\ [][Next]_vars
    /\ \A i \in 1..8 : WF_vars(Weak(i))
-----------------------------------------------------------------------------
\* As long as no socket broke and no timer fired, a receiver that sees the end of file
\* has everything that was sent before the close; and once a direction is at its end,
\* the proxy keeps the relay no longer than the half-close timeout without activity.
FinIsHonest == part = "timers" => Tunnel!TypeOK /\ Tunnel!FinIsHonest /\ Tunnel!HalfCloseTimerApplies

\* With timers the relay of the proxy ends once nobody sends any more, although the ends
\* neither read nor close; that of the agent has none and ends with the close of a client
\* that reads to the end.
RelaysEnd ==
    /\ part = "timers" => Tunnel!ProxyRelayEnds
    /\ part = "timers" => Tunnel!AgentRelayEnds

\* Without faults and timers, a closed direction is delivered whole to a receiver that keeps
\* reading although the other stays open for ever, and two closed ones end both relays.
ClosedIsDelivered ==
    /\ part = "plain" => Plain!ClosedIsDelivered
    /\ part = "plain" => Plain!TunnelEnds

\* What the proofs assume of the limits holds of the ones chosen here.
ASSUME TcpConstants == Tunnel!TunnelConstants

=============================================================================
