----------------------------- MODULE TcpTunnel -----------------------------
(***************************************************************************)
(* One proxied TCP connection, end to end: the local client, the agent's   *)
(* relay (desktop-agent-be/src/tcp_relay.rs), the framed connection        *)
(* between ClientStream (common/src/client_connection/stream.rs) and       *)
(* AgentIo/BytesToProxyResponseSink, the proxy's relay with its idle       *)
(* timers (proxy/src/connection/relay.rs), and the target.                 *)
(*                                                                         *)
(* Each relay is tokio's copy_bidirectional: per direction it copies, at   *)
(* end of file shuts the other side down, and an error of either direction *)
(* ends both.  Direction "up" goes from the client to the target.  Payload *)
(* is counted in units; one unit fits a copy buffer.  Time is counted in   *)
(* ticks since the proxy's relay last saw activity.                        *)
(***************************************************************************)
EXTENDS Integers, FiniteSets

CONSTANTS MaxUnits,    \* bound: units of a direction that are under way together
          LINK_SIZE,   \* units the framed connection holds before it pushes back
          IDLE,        \* tcp_relay_idle_timeout_secs in ticks, 0 to disable
          HALF_CLOSE,  \* tcp_relay_half_close_idle_timeout_secs in ticks, 0 to disable
          MaxFaults    \* bound: sockets that break

TunnelConstants == {MaxUnits, LINK_SIZE, IDLE, HALF_CLOSE} \subseteq Nat /\ MaxUnits > 0

Dirs == {"up", "down"}
Sides == {"agent", "proxy"}
First(d) == IF d = "up" THEN "agent" ELSE "proxy"     \* relay that reads the sender
Second(d) == IF d = "up" THEN "proxy" ELSE "agent"    \* relay that writes the receiver

VARIABLES
    sent, inbox, fin,   \* per direction: units sent, those not yet read, sender closed
    c1, c2,             \* per direction: copy state at the first and the second relay
    link,               \* per direction: units staged in the encoder, units and end packet on the wire
    link_closed,        \* one of the relays is over and its connection dropped
    out, outFin,        \* per direction: units and end of file the receiver got
    relay,              \* per side: "running", "done", "idle" or "failed"
    broken,             \* sides whose local socket is broken
    quiet               \* ticks since the proxy's relay last saw activity

vars == <<sent, inbox, fin, c1, c2, link, link_closed, out, outFin, relay, broken, quiet>>
ends == <<sent, inbox, fin>>
receivers == <<out, outFin>>

NewCopy == [st |-> "copy", buf |-> 0]
Init == /\ sent = [d \in Dirs |-> 0] /\ inbox = sent /\ fin = [d \in Dirs |-> FALSE]
        /\ c1 = [d \in Dirs |-> NewCopy] /\ c2 = c1
        /\ link = [d \in Dirs |-> [staged |-> 0, queued |-> 0, end |-> FALSE]]
        /\ link_closed = FALSE
        /\ out = sent /\ outFin = fin
        /\ relay = [x \in Sides |-> "running"] /\ broken = {} /\ quiet = 0

\* RelayCopyIo::mark_activity on the proxy: every read, end of file and write counts.
Active(x) == quiet' = IF x = "proxy" THEN 0 ELSE quiet
-----------------------------------------------------------------------------
(* The two ends. *)

\* Units are counted anew once all have arrived: the ends may go on for ever.
Send(d) == /\ ~fin[d] /\ inbox' = [inbox EXCEPT ![d] = @ + 1]
           /\ \/ /\ out[d] = sent[d]
                 /\ sent' = [sent EXCEPT ![d] = 1] /\ out' = [out EXCEPT ![d] = 0]
              \/ /\ out[d] # sent[d] /\ sent[d] < MaxUnits
                 /\ sent' = [sent EXCEPT ![d] = @ + 1] /\ UNCHANGED out
           /\ UNCHANGED <<fin, c1, c2, link, link_closed, outFin, relay, broken, quiet>>

Close(d) == /\ ~fin[d] /\ fin' = [fin EXCEPT ![d] = TRUE]
            /\ UNCHANGED <<sent, inbox, c1, c2, link, link_closed, receivers, relay, broken, quiet>>

Break(x) == /\ x \notin broken /\ Cardinality(broken) < MaxFaults
            /\ broken' = broken \cup {x}
            /\ UNCHANGED <<ends, c1, c2, link, link_closed, receivers, relay, quiet>>
-----------------------------------------------------------------------------
(* The relay that reads the sender and writes the framed connection. *)

Runs1(d) == relay[First(d)] = "running"
Runs2(d) == relay[Second(d)] = "running"

Read1(d) == /\ Runs1(d) /\ First(d) \notin broken /\ c1[d] = NewCopy /\ inbox[d] > 0
            /\ inbox' = [inbox EXCEPT ![d] = @ - 1] /\ c1' = [c1 EXCEPT ![d].buf = 1]
            /\ Active(First(d))
            /\ UNCHANGED <<sent, fin, c2, link, link_closed, receivers, relay, broken>>

ReadEof1(d) == /\ Runs1(d) /\ First(d) \notin broken /\ c1[d] = NewCopy /\ inbox[d] = 0 /\ fin[d]
               /\ c1' = [c1 EXCEPT ![d].st = "shut"]
               /\ Active(First(d))
               /\ UNCHANGED <<ends, c2, link, link_closed, receivers, relay, broken>>

\* ClientStream::poll_write and BytesToProxyResponseSink::start_send put a packet into
\* the encoder's buffer; the encoder pushes back when the connection is full.
Write1(d) == /\ Runs1(d) /\ c1[d].buf = 1 /\ ~link_closed
             /\ link[d].staged + link[d].queued < LINK_SIZE
             /\ link' = [link EXCEPT ![d].staged = @ + 1] /\ c1' = [c1 EXCEPT ![d].buf = 0]
             /\ Active(First(d))
             /\ UNCHANGED <<ends, c2, link_closed, receivers, relay, broken>>

\* copy_bidirectional flushes when it has nothing to read.
Flush1(d) == /\ Runs1(d) /\ link[d].staged > 0 /\ ~link_closed
             /\ link' = [link EXCEPT ![d].queued = @ + link[d].staged, ![d].staged = 0]
             /\ UNCHANGED <<ends, c1, c2, link_closed, receivers, relay, broken, quiet>>

\* Faulty variant: the end of one direction closes the carrying connection.
Shut1_closes_link(d) ==
    /\ Runs1(d) /\ c1[d] = [st |-> "shut", buf |-> 0] /\ ~link_closed
    /\ link' = [link EXCEPT ![d].queued = @ + link[d].staged, ![d].staged = 0, ![d].end = TRUE]
    /\ c1' = [c1 EXCEPT ![d].st = "done"]
    /\ link_closed' = TRUE
    /\ UNCHANGED <<ends, c2, receivers, relay, broken, quiet>>

\* poll_shutdown of ClientStream and poll_close of BytesToProxyResponseSink: one end
\* packet, flushed; the connection stays open for the other direction.
Shut1(d) == /\ Runs1(d) /\ c1[d] = [st |-> "shut", buf |-> 0] /\ ~link_closed
            /\ link' = [link EXCEPT ![d].queued = @ + link[d].staged, ![d].staged = 0,
                                    ![d].end = TRUE]
            /\ c1' = [c1 EXCEPT ![d].st = "done"]
            /\ UNCHANGED <<ends, c2, link_closed, receivers, relay, broken, quiet>>
-----------------------------------------------------------------------------
(* The relay that reads the framed connection and writes the receiver. *)

Read2(d) == /\ Runs2(d) /\ c2[d] = NewCopy /\ link[d].queued > 0
            /\ link' = [link EXCEPT ![d].queued = @ - 1] /\ c2' = [c2 EXCEPT ![d].buf = 1]
            /\ Active(Second(d))
            /\ UNCHANGED <<ends, c1, link_closed, receivers, relay, broken>>

\* The empty end packet, and also a connection that ends or fails without one: the
\* proxy's take_while stops on errors, ClientStream reads None as end of file.
ReadEof2(d) == /\ Runs2(d) /\ c2[d] = NewCopy /\ link[d].queued = 0
               /\ link[d].end \/ link_closed
               /\ c2' = [c2 EXCEPT ![d].st = "shut"]
               /\ Active(Second(d))
               /\ UNCHANGED <<ends, c1, link, link_closed, receivers, relay, broken>>

\* Whenever the receiver has room.
Write2(d) == /\ Runs2(d) /\ c2[d].buf = 1 /\ Second(d) \notin broken
             /\ out' = [out EXCEPT ![d] = @ + 1] /\ c2' = [c2 EXCEPT ![d].buf = 0]
             /\ Active(Second(d))
             /\ UNCHANGED <<ends, c1, link, link_closed, outFin, relay, broken>>

\* Faulty variant: a shutdown that the peer makes pointless ends the relay.
Shut2_strict(d) ==
    /\ Runs2(d) /\ c2[d] = [st |-> "shut", buf |-> 0]
    /\ \/ /\ outFin' = [outFin EXCEPT ![d] = TRUE] /\ c2' = [c2 EXCEPT ![d].st = "done"]
          /\ UNCHANGED <<relay, link_closed>>
       \/ /\ relay' = [relay EXCEPT ![Second(d)] = "failed"] /\ link_closed' = TRUE
          /\ UNCHANGED <<outFin, c2>>
    /\ UNCHANGED <<ends, c1, link, out, broken, quiet>>

\* RelayCopyIo::poll_shutdown: the receiver sees the end of file.  An error because the
\* receiver no longer reads (BrokenPipe, ConnectionReset, NotConnected) is ignored.
Shut2(d) == /\ Runs2(d) /\ c2[d] = [st |-> "shut", buf |-> 0]
            /\ outFin' = [outFin EXCEPT ![d] = (Second(d) \notin broken)]
            /\ c2' = [c2 EXCEPT ![d].st = "done"]
            /\ UNCHANGED <<ends, c1, link, link_closed, out, relay, broken, quiet>>
-----------------------------------------------------------------------------
(* The end of a relay drops its socket and its framed connection. *)

Copies(x) == {c1[d] : d \in {e \in Dirs : First(e) = x}} \cup {c2[d] : d \in {e \in Dirs : Second(e) = x}}

EndRelay(x, how) == /\ relay' = [relay EXCEPT ![x] = how] /\ link_closed' = TRUE
                    /\ UNCHANGED <<ends, c1, c2, link, receivers, broken, quiet>>

RelayDone(x) == /\ relay[x] = "running" /\ \A c \in Copies(x) : c.st = "done"
                /\ EndRelay(x, "done")

\* A read, write or shutdown error: of the local socket, or of the framed connection
\* that the other relay has dropped.
RelayFails(x) == /\ relay[x] = "running"
                 /\ \/ /\ x \in broken
                       /\ \E d \in Dirs : \/ (First(d) = x /\ c1[d] = NewCopy)
                                         \/ (Second(d) = x /\ c2[d].buf = 1)
                    \/ /\ link_closed
                       /\ \E d \in Dirs : First(d) = x /\ (c1[d].buf = 1 \/ c1[d].st = "shut")
                 /\ EndRelay(x, "failed")

\* half_closed of relay_tcp_with_half_close: a direction the proxy reads is at its end.
half_closed == \E c \in Copies("proxy") : c.st # "copy"

\* Faulty variant: only the half-closed relay has a timer.
current_half_only(half) == IF half THEN HALF_CLOSE ELSE 0

\* TcpRelayTimeouts::current, 0 for None.
current(half) == CASE ~half \/ HALF_CLOSE = 0 -> IDLE
                   [] half /\ HALF_CLOSE # 0 /\ IDLE = 0 -> HALF_CLOSE
                   [] OTHER -> IF HALF_CLOSE < IDLE THEN HALF_CLOSE ELSE IDLE

\* The timer armed at the head of the loop; every activity arms it anew.
IdleFires == /\ relay["proxy"] = "running" /\ current(half_closed) # 0
             /\ quiet >= current(half_closed)
             /\ EndRelay("proxy", "idle")

\* Time passes, not beyond a timer that is due.
Tick == /\ relay["proxy"] = "running" /\ current(half_closed) # 0
        /\ quiet < current(half_closed)
        /\ quiet' = quiet + 1
        /\ UNCHANGED <<ends, c1, c2, link, link_closed, receivers, relay, broken>>
-----------------------------------------------------------------------------
Copying1(d) == Read1(d) \/ ReadEof1(d) \/ Write1(d) \/ Flush1(d) \/ Shut1(d)
Copying2(d) == Read2(d) \/ ReadEof2(d) \/ Shut2(d)
Ending(x) == RelayDone(x) \/ RelayFails(x)

Next == \/ \E d \in Dirs : Send(d) \/ Close(d) \/ Copying1(d) \/ Copying2(d) \/ Write2(d)
        \/ \E x \in Sides : Break(x) \/ Ending(x)
        \/ IdleFires \/ Tick

Spec == Init /\ [][Next]_vars

\* The relays' tasks run, time passes.  The ends owe nothing: neither to read what is
\* written to them (Write2) nor to close or to fall silent.
WeaklyFair(i) == \/ i = 1 /\ IdleFires
                 \/ i = 2 /\ Tick
                 \/ i = 3 /\ Copying1("up")
                 \/ i = 4 /\ Copying1("down")
                 \/ i = 5 /\ Copying2("up")
                 \/ i = 6 /\ Copying2("down")
                 \/ i = 7 /\ Ending("agent")
                 \/ i = 8 /\ Ending("proxy")
-----------------------------------------------------------------------------
TypeOK == /\ \A d \in Dirs : /\ inbox[d] \in 0..MaxUnits /\ out[d] \in 0..sent[d]
                             /\ link[d].staged + link[d].queued <= LINK_SIZE
          /\ quiet <= IF HALF_CLOSE > IDLE THEN HALF_CLOSE ELSE IDLE

\* As long as no socket broke and no timer fired, a receiver that sees the end of
\* file has everything the sender sent before closing: the end of one direction
\* never cuts the other short (response_sink.rs:44-47).
FinIsHonest == \A d \in Dirs :
    outFin[d] /\ broken = {} /\ relay["proxy"] # "idle" => fin[d] /\ out[d] = sent[d]

\* Once a direction is at its end, the relay stays no longer than the half-close
\* timeout without activity: the longer timer of the full connection is replaced.
HalfCloseTimerApplies ==
    relay["proxy"] = "running" /\ half_closed /\ current(TRUE) # 0 => quiet <= current(TRUE)

\* What the ends do in some of the properties: the receiver of a direction is never at last
\* too full for what its relay holds, and the senders have sent all they will.
KeepsReading(d) == []<>~(Runs2(d) /\ c2[d].buf = 1 /\ Second(d) \notin broken)
SendersFallSilent == <>[][\A d \in Dirs : ~Send(d)]_vars

\* Without faults and timers, a closed direction is delivered whole to a receiver that
\* keeps reading, although the other stays open for ever.
ClosedIsDelivered == \A d \in Dirs : KeepsReading(d) => (fin[d] ~> (outFin[d] /\ out[d] = sent[d]))

\* Without faults and timers, two closed directions end both relays if both ends read.
TunnelEnds == KeepsReading("up") /\ KeepsReading("down") =>
                  ((fin["up"] /\ fin["down"]) ~> \A x \in Sides : relay[x] = "done")

\* With timers, the proxy's relay ends once nobody sends any more: neither a silent peer nor
\* one that does not read or is broken keeps it.  Each unit of traffic arms the timer anew.
ProxyRelayEnds == SendersFallSilent => <>(relay["proxy"] # "running")

\* The agent's relay has no timer of its own: it ends with the client's close, if the
\* client reads what is still on its way and the target falls silent.
AgentRelayEnds == SendersFallSilent /\ KeepsReading("down") => (fin["up"] ~> relay["agent"] # "running")
=============================================================================
