---------------------------- MODULE TunUdpRelay ----------------------------
(***************************************************************************)
(* One shard of the agent's shared UDP relay (run_udp_relay in             *)
(* desktop-agent-be/src/tun_handler/udp_relay.rs; the Android file differs *)
(* in log texts only).  Datagrams of many flows share one connection to    *)
(* the proxy; a flow is told by its flow id, which expires when the flow   *)
(* sends nothing for UDP_FLOW_TTL.                                         *)
(*                                                                         *)
(* A request is [n, flow]: its number and its (client, target) pair.  The  *)
(* proxy may answer, on the same connection, any flow it has seen there.   *)
(* Timers may fire whenever they are armed.                                *)
(***************************************************************************)
EXTENDS Integers, Sequences, FiniteSets

CONSTANTS Flows,          \* (client, target) pairs that hash to this shard
          CHANNEL_SIZE,   \* UDP_RELAY_CHANNEL_SIZE
          BATCH_LIMIT,    \* UDP_RELAY_REQUEST_BATCH_LIMIT
          MaxRequests,    \* bound: datagrams sent
          MaxFaults,      \* bound: failed connects and broken connections
          NoRequest       \* retry_request is None

\* The channel and the batch hold at least one request.
ShardConstants == CHANNEL_SIZE \in Nat \ {0} /\ BATCH_LIMIT \in Nat \ {0}

VARIABLES
    phase,          \* "waiting", "connecting", "backoff", "connected", "writing", "exited"
    shutdown,       \* the token is cancelled
    queue,          \* rx
    retry_request,
    batch, staged,  \* of the batch: requests not yet written, written but not flushed
    flow_ids,       \* UdpRelayState: flow -> id (flows is its inverse)
    expired,        \* ids whose last_seen is UDP_FLOW_TTL ago
    next_flow_id,
    broken,         \* the connection is broken
    peer,           \* [id, flow] pairs the proxy has seen on this connection
    delivered,      \* numbers of the requests the proxy received
    reply,          \* flow the last reply answered and the one it was written to
    made, faults    \* bounds

state == <<flow_ids, expired, next_flow_id>>
net == <<broken, peer, delivered, reply>>
vars == <<phase, shutdown, queue, retry_request, batch, staged, state, net, made, faults>>

Init == /\ phase = "waiting" /\ shutdown = FALSE /\ queue = << >> /\ retry_request = NoRequest
        /\ batch = << >> /\ staged = << >>
        /\ flow_ids = << >> /\ expired = {} /\ next_flow_id = 1
        /\ broken = FALSE /\ peer = {} /\ delivered = {} /\ reply = << >>
        /\ made = 0 /\ faults = 0
-----------------------------------------------------------------------------
\* UdpRelay::send: try_send on the shard's queue; a full or closed one drops the datagram.
send(f) ==
    /\ made < MaxRequests /\ made' = made + 1
    /\ queue' = IF phase # "exited" /\ Len(queue) < CHANNEL_SIZE
                THEN Append(queue, [n |-> made', flow |-> f]) ELSE queue
    /\ UNCHANGED <<phase, shutdown, retry_request, batch, staged, state, net, faults>>

Cancel == /\ ~shutdown /\ shutdown' = TRUE
          /\ UNCHANGED <<phase, queue, retry_request, batch, staged, state, net, made, faults>>

Fault == faults < MaxFaults /\ faults' = faults + 1

ConnectionBreaks ==
    /\ phase \in {"connected", "writing"} /\ ~broken /\ Fault
    /\ broken' = TRUE
    /\ UNCHANGED <<phase, shutdown, queue, retry_request, batch, staged, state, peer, delivered, reply, made>>

\* Time passes: a flow has been silent for UDP_FLOW_TTL.
FlowExpires(f) ==
    /\ f \in DOMAIN flow_ids /\ flow_ids[f] \notin expired
    /\ expired' = expired \cup {flow_ids[f]}
    /\ UNCHANGED <<phase, shutdown, queue, retry_request, batch, staged, flow_ids, next_flow_id, net, made, faults>>
-----------------------------------------------------------------------------
(* The outer loop: a first request, then a connection. *)

TakeFirst ==
    /\ phase = "waiting" /\ queue # << >>
    /\ retry_request' = Head(queue) /\ queue' = Tail(queue) /\ phase' = "connecting"
    /\ UNCHANGED <<shutdown, batch, staged, state, net, made, faults>>

\* Faulty variant: the request that asked for the connection is not handed on.
Connected_drops_first ==
    /\ phase = "connecting"
    /\ phase' = "connected" /\ broken' = FALSE /\ peer' = {} /\ retry_request' = NoRequest
    /\ UNCHANGED <<shutdown, queue, batch, staged, state, delivered, reply, made, faults>>

Connected ==
    /\ phase = "connecting"
    /\ phase' = "connected" /\ broken' = FALSE /\ peer' = {}
    /\ UNCHANGED <<shutdown, queue, retry_request, batch, staged, state, delivered, reply, made, faults>>

ConnectFails ==
    /\ phase = "connecting" /\ Fault
    /\ phase' = "backoff"
    /\ UNCHANGED <<shutdown, queue, retry_request, batch, staged, state, net, made>>

BackoffOver ==
    /\ phase = "backoff" /\ phase' = "connecting"
    /\ UNCHANGED <<shutdown, queue, retry_request, batch, staged, state, net, made, faults>>

\* Faulty variant: only a connected shard listens to the token.
StopShard_connected_only ==
    /\ shutdown /\ phase \in {"backoff", "connected"}
    /\ (phase = "connected" => retry_request = NoRequest)
    /\ phase' = "exited"
    /\ UNCHANGED <<shutdown, queue, retry_request, batch, staged, state, net, made, faults>>

\* shutdown.cancelled() in the three selects.  A kept request is sent before the inner one.
StopShard ==
    /\ shutdown /\ phase \in {"waiting", "backoff", "connected"}
    /\ (phase = "connected" => retry_request = NoRequest)
    /\ phase' = "exited"
    /\ UNCHANGED <<shutdown, queue, retry_request, batch, staged, state, net, made, faults>>
-----------------------------------------------------------------------------
(* The inner loop. *)

Smaller(a, b) == IF a < b THEN a ELSE b

StartBatch(first, rest) ==
    LET taken == Smaller(BATCH_LIMIT - 1, Len(rest)) IN
    /\ batch' = <<first>> \o SubSeq(rest, 1, taken)
    /\ queue' = SubSeq(rest, taken + 1, Len(rest))
    /\ phase' = "writing" /\ retry_request' = NoRequest
    /\ UNCHANGED <<shutdown, staged, state, net, made, faults>>

send_udp_request_batch ==
    /\ phase = "connected"
    /\ \/ retry_request # NoRequest /\ StartBatch(retry_request, queue)
       \/ retry_request = NoRequest /\ queue # << >> /\ StartBatch(Head(queue), Tail(queue))

\* Faulty variant: the lowest free id, so that an expired flow's id is used again.
next_available_flow_id_lowest == CHOOSE i \in 1..MaxRequests : i \notin {flow_ids[f] : f \in DOMAIN flow_ids}

\* next_flow_id only grows (u64; it does not wrap in practice).
next_available_flow_id == next_flow_id

\* UdpRelayState::flow_id.
flow_id(f) ==
    IF f \in DOMAIN flow_ids
    THEN /\ expired' = expired \ {flow_ids[f]} /\ UNCHANGED <<flow_ids, next_flow_id>>
    ELSE LET id == next_available_flow_id IN
         /\ flow_ids' = [g \in DOMAIN flow_ids \cup {f} |-> IF g = f THEN id ELSE flow_ids[g]]
         /\ expired' = expired \ {id}
         /\ next_flow_id' = next_flow_id + 1

write_udp_request ==
    /\ phase = "writing" /\ batch # << >>
    /\ flow_id(Head(batch).flow)
    /\ staged' = Append(staged, Head(batch)) /\ batch' = Tail(batch)
    /\ UNCHANGED <<phase, shutdown, queue, retry_request, net, made, faults>>

\* The proxy receives the first k staged requests.
Receive(k) == /\ peer' = peer \cup {[id |-> flow_ids[staged[i].flow], flow |-> staged[i].flow] : i \in 1..k}
              /\ delivered' = delivered \cup {staged[i].n : i \in 1..k}
              /\ UNCHANGED reply

GiveUp(kept) == /\ retry_request' = kept /\ phase' = "connecting"
                /\ batch' = << >> /\ staged' = << >>
                /\ UNCHANGED <<shutdown, queue, made, faults>>

\* The connection fails a write: that request is kept, what was staged before it may
\* have left or not, what comes after it in the batch is lost.
WriteFails == /\ phase = "writing" /\ broken /\ batch # << >>
              /\ flow_id(Head(batch).flow)
              /\ \E k \in 0..Len(staged) : Receive(k)
              /\ GiveUp(Head(batch)) /\ UNCHANGED broken

\* The connection fails the flush: the first request of the batch is kept.
FlushFails == /\ phase = "writing" /\ broken /\ batch = << >>
              /\ \E k \in 0..Len(staged) : Receive(k)
              /\ GiveUp(staged[1]) /\ UNCHANGED <<state, broken>>

Flush == /\ phase = "writing" /\ ~broken /\ batch = << >>
         /\ Receive(Len(staged)) /\ staged' = << >> /\ phase' = "connected"
         /\ UNCHANGED <<shutdown, queue, retry_request, batch, state, broken, made, faults>>

\* cleanup.tick.
cleanup_expired ==
    /\ phase = "connected" /\ retry_request = NoRequest /\ expired # {}
    /\ flow_ids' = [f \in {g \in DOMAIN flow_ids : flow_ids[g] \notin expired} |-> flow_ids[f]]
    /\ expired' = {}
    /\ UNCHANGED <<phase, shutdown, queue, retry_request, batch, staged, next_flow_id, net, made, faults>>

\* A reply is written back to the flow its id stands for now, if any.
handle_udp_response ==
    /\ phase = "connected" /\ retry_request = NoRequest
    /\ \E p \in peer : reply' = [of |-> p.flow, to |-> {f \in DOMAIN flow_ids : flow_ids[f] = p.id}]
    /\ UNCHANGED <<phase, shutdown, queue, retry_request, batch, staged, state, broken, peer, delivered, made, faults>>

\* The connection's end of file or error, or its idle timer.
ConnectionOver ==
    /\ phase = "connected" /\ retry_request = NoRequest
    /\ phase' = "waiting"
    /\ UNCHANGED <<shutdown, queue, retry_request, batch, staged, state, net, made, faults>>
-----------------------------------------------------------------------------
Outer == TakeFirst \/ Connected \/ ConnectFails \/ BackoffOver \/ StopShard
Inner == \/ send_udp_request_batch \/ write_udp_request \/ WriteFails \/ FlushFails \/ Flush
         \/ cleanup_expired \/ handle_udp_response \/ ConnectionOver
ShardNext == Outer \/ Inner

Next == \/ \E f \in Flows : send(f) \/ FlowExpires(f)
        \/ Cancel \/ ConnectionBreaks \/ ShardNext

Spec == Init /\ [][Next]_vars

\* The shard's task runs, connects and timers come to their end, and a ready branch of
\* a select is not passed over for ever.
WeaklyFair(i) == \/ i = 1 /\ ShardNext
                 \/ i = 2 /\ TakeFirst
                 \/ i = 3 /\ ConnectionOver /\ broken
                 \/ i = 4 /\ (write_udp_request \/ WriteFails)
                 \/ i = 5 /\ Flush
StronglyFair(i) == \/ i = 1 /\ StopShard
                   \/ i = 2 /\ send_udp_request_batch
                   \/ i = 3 /\ Connected
-----------------------------------------------------------------------------
TypeOK == /\ Len(queue) <= CHANNEL_SIZE /\ Len(batch) + Len(staged) <= BATCH_LIMIT
          /\ delivered \subseteq 1..made
          /\ expired \subseteq {flow_ids[f] : f \in DOMAIN flow_ids}

\* A reply is written to the flow whose datagram it answers or to none, although flows
\* expire and come back while replies are under way (handle_udp_response).
ReplyReachesItsFlow == reply # << >> => reply.to \subseteq {reply.of}

\* Once no more faults come, what is queued is delivered: neither a reconnect nor an
\* idle close nor the expiry of its flow loses it.
QueuedIsDelivered ==
    \A n \in 1..MaxRequests :
        (faults = MaxFaults /\ ~broken /\ \E i \in DOMAIN queue : queue[i].n = n)
            ~> (n \in delivered \/ phase = "exited")

\* A cancelled token ends the shard, wherever it is, faults included.
ShardStops == shutdown ~> (phase = "exited")
=============================================================================
