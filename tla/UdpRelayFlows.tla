--------------------------- MODULE UdpRelayFlows ---------------------------
(***************************************************************************)
(* The flows of one shared UDP relay on the proxy: UdpRelayFlowSet and its *)
(* flow tasks (proxy/src/connection/udp_relay_flow.rs), driven by the main *)
(* loop of a relay (udp_relay.rs for TCP/Yamux agents, channel.rs          *)
(* run_udp_relay_channel for native UDP ones).                             *)
(*                                                                         *)
(* Each flow task owns one target socket and the receiving end of its      *)
(* queue.  When it ends it drops the socket, then awaits room in the       *)
(* bounded flow_done channel, and only then drops the queue: in between,   *)
(* the queue still takes packets that nobody will send.                    *)
(*                                                                         *)
(* Packets are told apart by their flow only.  Timers may fire and sockets *)
(* may fail at any time.                                                   *)
(***************************************************************************)
EXTENDS Integers, Sequences, FiniteSets

CONSTANTS FlowIds,        \* inner flow ids the agent uses
          MAX_FLOWS,      \* udp_relay_max_flows
          CHANNEL_SIZE,   \* udp_relay_channel_size, of every queue
          MaxTasks        \* bound: flow tasks spawned in a behaviour

\* The configured limits are numbers; nothing else is assumed of them.
RelayConstants == MAX_FLOWS \in Nat /\ CHANNEL_SIZE \in Nat /\ MaxTasks \in Nat

Idle == 0    \* no packet is being dispatched
Tasks == 1..MaxTasks

VARIABLES
    relay,         \* the main loop: "running" or "ended"
    dispatching,   \* flow of the packet between admission and try_send, or Idle
    flows,         \* UdpRelayFlowSet::flows: flow id -> task its tx belongs to
    tasks,         \* flow tasks not yet gone: [flow, phase, queue (a length)]
    spawned,       \* number of tasks spawned so far
    flow_done,     \* the flow_done channel
    responses      \* the response channel

vars == <<relay, dispatching, flows, tasks, spawned, flow_done, responses>>

Without(f, keys) == [k \in DOMAIN f \ keys |-> f[k]]
With(f, key, value) == [k \in DOMAIN f \cup {key} |-> IF k = key THEN value ELSE f[k]]

\* A task holds its socket until it leaves its loop.
OpenSockets == {t \in DOMAIN tasks : tasks[t].phase = "relaying"}
-----------------------------------------------------------------------------
Init == /\ relay = "running" /\ dispatching = Idle
        /\ flows = << >> /\ tasks = << >> /\ spawned = 0
        /\ flow_done = << >> /\ responses = << >>

(* The main loop.  Between two steps of a dispatch it does nothing else. *)

MainLoop == relay = "running" /\ dispatching = Idle

\* dispatch of a packet whose flow is in the table.
DispatchExisting(f) ==
    /\ MainLoop
    /\ f \in DOMAIN flows
    /\ dispatching' = f
    /\ UNCHANGED <<relay, flows, tasks, spawned, flow_done, responses>>

\* dispatch of a packet whose flow is not in the table while the table is full,
\* or whose target cannot be connected to: the packet is dropped.
DispatchRefused(f) ==
    /\ MainLoop
    /\ f \notin DOMAIN flows
    /\ UNCHANGED vars

\* dispatch of a packet of a new flow: connect, spawn its task, register it.
CreateFlow(f) ==
    /\ MainLoop
    /\ f \notin DOMAIN flows
    /\ Cardinality(DOMAIN flows) < MAX_FLOWS
    /\ spawned < MaxTasks
    /\ spawned' = spawned + 1
    /\ tasks' = With(tasks, spawned + 1, [flow |-> f, phase |-> "relaying", queue |-> 0])
    /\ flows' = With(flows, f, spawned + 1)
    /\ dispatching' = f
    /\ UNCHANGED <<relay, flow_done, responses>>

\* The try_send that ends a dispatch: queued, dropped when the queue is full,
\* and the entry removed when the task is gone.
TrySend ==
    LET f == dispatching
        t == flows[f]
    IN /\ relay = "running" /\ f # Idle
       /\ dispatching' = Idle
       /\ tasks' = IF t \in DOMAIN tasks /\ tasks[t].queue < CHANNEL_SIZE
                     THEN [tasks EXCEPT ![t].queue = @ + 1] ELSE tasks
       /\ flows' = IF t \in DOMAIN tasks THEN flows ELSE Without(flows, {f})
       /\ UNCHANGED <<relay, spawned, flow_done, responses>>

\* flow_done_rx.recv() => UdpRelayFlowSet::remove, by flow id.
HandleDone ==
    /\ MainLoop
    /\ flow_done # << >>
    /\ flows' = Without(flows, {Head(flow_done)})
    /\ flow_done' = Tail(flow_done)
    /\ UNCHANGED <<relay, dispatching, tasks, spawned, responses>>

\* response_rx.recv(): a native relay forwards one response, a TCP relay a batch
\* of those that are ready.
HandleResponses ==
    /\ MainLoop
    /\ \E n \in 1..Len(responses) : responses' = SubSeq(responses, n + 1, Len(responses))
    /\ UNCHANGED <<relay, dispatching, flows, tasks, spawned, flow_done>>

\* The relay is idle, its agent is gone or writing to it fails: the loop ends
\* and drops the table and the receiving ends of both channels.
RelayEnds ==
    /\ MainLoop
    /\ relay' = "ended"
    /\ flows' = << >> /\ flow_done' = << >> /\ responses' = << >>
    /\ UNCHANGED <<dispatching, tasks, spawned>>
-----------------------------------------------------------------------------
(* A flow task. *)

\* rx.recv() gives a packet, and the socket takes it.
ForwardPacket(t) ==
    /\ tasks[t].phase = "relaying" /\ tasks[t].queue > 0
    /\ tasks' = [tasks EXCEPT ![t].queue = @ - 1]
    /\ UNCHANGED <<relay, dispatching, flows, spawned, flow_done, responses>>

\* The target answers: try_queue_udp_relay_response, Queued or Full.
TargetAnswers(t) ==
    /\ tasks[t].phase = "relaying" /\ relay = "running"
    /\ responses' = IF Len(responses) < CHANNEL_SIZE
                      THEN Append(responses, tasks[t].flow) ELSE responses
    /\ UNCHANGED <<relay, dispatching, flows, tasks, spawned, flow_done>>

\* The task leaves its loop and drops the socket: it was idle for long enough,
\* a send or a receive failed, or a response found the relay gone.
LeaveLoop(t) ==
    /\ tasks[t].phase = "relaying"
    /\ tasks' = [tasks EXCEPT ![t].phase = "reporting"]
    /\ UNCHANGED <<relay, dispatching, flows, spawned, flow_done, responses>>

\* Faulty variant: the end of the input is not the end of the flow.
InputClosed_ignored(t) ==
    /\ t \notin {flows[f] : f \in DOMAIN flows}
    /\ tasks[t].phase = "relaying" /\ tasks[t].queue = 0
    /\ UNCHANGED vars

\* rx.recv() gives None: the table dropped the flow, and the queue is drained.
InputClosed(t) ==
    /\ t \notin {flows[f] : f \in DOMAIN flows}
    /\ tasks[t].phase = "relaying" /\ tasks[t].queue = 0
    /\ tasks' = [tasks EXCEPT ![t].phase = "reporting"]
    /\ UNCHANGED <<relay, dispatching, flows, spawned, flow_done, responses>>

\* Faulty variant: the report is tried once, and lost when the channel is full.
ReportDone_try(t) ==
    /\ tasks[t].phase = "reporting"
    /\ tasks' = Without(tasks, {t})
    /\ flow_done' = IF relay = "running" /\ Len(flow_done) < CHANNEL_SIZE
                      THEN Append(flow_done, tasks[t].flow) ELSE flow_done
    /\ UNCHANGED <<relay, dispatching, flows, spawned, responses>>

\* flow_done_tx.send(flow_id).await completes, with an error when the relay is
\* gone, and the task drops its queue.
ReportDone(t) ==
    /\ tasks[t].phase = "reporting"
    /\ \/ relay = "running" /\ Len(flow_done) < CHANNEL_SIZE
       \/ relay = "ended"
    /\ tasks' = Without(tasks, {t})
    /\ flow_done' = IF relay = "running"
                      THEN Append(flow_done, tasks[t].flow) ELSE flow_done
    /\ UNCHANGED <<relay, dispatching, flows, spawned, responses>>
-----------------------------------------------------------------------------
FlowTask(t) == \/ ForwardPacket(t) \/ TargetAnswers(t) \/ LeaveLoop(t)
               \/ InputClosed(t) \/ ReportDone(t)

\* The relay is over; its tasks may still be ending.
Ended == relay = "ended" /\ UNCHANGED vars

Next == \/ \E f \in FlowIds : DispatchExisting(f) \/ DispatchRefused(f) \/ CreateFlow(f)
        \/ TrySend \/ HandleDone \/ HandleResponses \/ RelayEnds
        \/ \E t \in DOMAIN tasks : FlowTask(t)
        \/ Ended

Spec == Init /\ [][Next]_vars

\* The runtime schedules what is ready: a task that can move does, and the main
\* loop does not starve a branch of its select!, whose choice is random.
WeaklyFair(i) == \/ i = 1 /\ TrySend
                 \/ \E t \in DOMAIN tasks : \/ i = 2 * t /\ ForwardPacket(t)
                                            \/ i = 2 * t + 1 /\ InputClosed(t)
StronglyFair(i) == \/ i = 1 /\ HandleDone
                   \/ \E t \in DOMAIN tasks : i = t + 1 /\ ReportDone(t)
-----------------------------------------------------------------------------
TypeOK ==
    /\ relay \in {"running", "ended"}
    /\ dispatching \in FlowIds \cup {Idle}
    /\ DOMAIN flows \subseteq FlowIds
    /\ \A f \in DOMAIN flows : flows[f] \in Tasks
    /\ DOMAIN tasks \subseteq Tasks
    /\ \A t \in DOMAIN tasks :
         tasks[t] \in [flow : FlowIds, phase : {"relaying", "reporting"},
                       queue : 0..CHANNEL_SIZE]
    /\ spawned \in 0..MaxTasks
    /\ flow_done \in Seq(FlowIds) /\ Len(flow_done) <= CHANNEL_SIZE
    /\ responses \in Seq(FlowIds) /\ Len(responses) <= CHANNEL_SIZE

\* An entry whose task is gone is not forgotten: the task's report is queued, so
\* a dead flow cannot hold one of the udp_relay_max_flows places for ever, and
\* no two entries share a task.
DeadEntryIsReported ==
    \A f \in DOMAIN flows :
        /\ flows[f] \in DOMAIN tasks \/ \E i \in DOMAIN flow_done : flow_done[i] = f
        /\ flows[f] \in DOMAIN tasks => tasks[flows[f]].flow = f

\* The table never holds more flows than udp_relay_max_flows, although entries
\* come and go with dispatches, reports and failed sends.
TableWithinLimit == Cardinality(DOMAIN flows) <= MAX_FLOWS

\* The table of the relay is true: of the right types, within its limit, and
\* without an entry that nobody will remove.
RelayTableIsTrue == TypeOK /\ DeadEntryIsReported /\ TableWithinLimit

\* Every flow that lost its place in the table, and every flow of a relay that
\* ended, gives its socket back, however full the channels are.
OrphanEnds ==
    \A t \in Tasks :
        (t \in DOMAIN tasks /\ t \notin {flows[f] : f \in DOMAIN flows})
            ~> t \notin DOMAIN tasks

\* A task that has left its loop is not stuck on the bounded flow_done channel.
ReportIsTaken ==
    \A t \in Tasks :
        (t \in DOMAIN tasks /\ tasks[t].phase = "reporting") ~> t \notin DOMAIN tasks

\* "Each flow_id corresponds to one UDP socket" (udp_relay_flow.rs:3).
OneSocketPerFlow ==
    \A s, t \in OpenSockets : tasks[s].flow = tasks[t].flow => s = t
=============================================================================
