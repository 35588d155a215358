--------------------------- MODULE NativeUdpFlows ---------------------------
(***************************************************************************)
(* The UDP flows of one authenticated native UDP session, end to end:      *)
(*  - the agent's UdpClientStreams, the bounded command queue they share   *)
(*    and run_session_driver (common/src/client_connection/udp.rs);        *)
(*  - the proxy's run_session with its channel table                       *)
(*    (proxy/src/native_udp/session.rs);                                   *)
(*  - one channel worker per flow, that connects to the target and relays  *)
(*    until it is idle, fails or is aborted (channel.rs).  A worker that    *)
(*    has returned or was aborted keeps its socket until the runtime drops  *)
(*    the task.  What it does after the abort, up to its next await, could  *)
(*    as well have come before it and is taken there.                       *)
(*                                                                         *)
(* Session messages travel as module DatagramChannel says: any of them may *)
(* be overtaken or lost (it is then never received), none arrives twice.   *)
(* The proxy's outbound queue is part of that: a full one loses messages.  *)
(***************************************************************************)
EXTENDS Integers, Sequences, FiniteSets

CONSTANTS MAX_FLOWS,         \* udp_session_max_flows
          CHANNEL_SIZE,      \* udp_session_channel_size, of a worker's queue
          COMMAND_CAPACITY,  \* capacity of the driver's command queue
          MaxFlows,          \* bound: flows the agent opens
          MaxPackets         \* bound: datagrams written on one flow; one flow at most has more than one

\* A channel of tokio has room for one message at least.
FlowsConstants == /\ MAX_FLOWS \in Nat /\ MaxFlows \in Nat /\ MaxPackets \in Nat
                  /\ CHANNEL_SIZE \in Nat \ {0} /\ COMMAND_CAPACITY \in Nat \ {0}

Flows == 1..MaxFlows     \* next_flow_id counts up; no id is used twice

VARIABLES
    stream,      \* UdpClientStreams: state, packets written, close_sent
    commands,    \* the command queue
    driver,      \* run_session_driver: "running" or "ended"
    streams,     \* the driver's map of streams that still get answers
    up, down,    \* session messages in flight
    session,     \* run_session: "running" or "ended"
    channels,    \* its map: flow -> whether input_tx is still there
    workers,     \* worker tasks that still own their socket: flow -> Worker
    events,      \* channel events on their way to run_session
    opened       \* history: flows that had a worker

agentVars == <<stream, commands, driver, streams>>
proxyVars == <<session, channels, workers, events, opened>>
vars == <<agentVars, up, down, proxyVars>>

Without(f, keys) == [k \in DOMAIN f \ keys |-> f[k]]
With(f, key, value) == [k \in DOMAIN f \cup {key} |-> IF k = key THEN value ELSE f[k]]

Command(kind, f, n) == [kind |-> kind, flow |-> f, n |-> n]
Answer(kind, f) == [kind |-> kind, flow |-> f]

\* A spawned worker, with its first packet queued.
Spawned == [phase |-> "connecting", queue |-> 1]

\* A worker that does nothing more: it has returned, or abort() was called on it.
Over == [phase |-> "over", queue |-> 0]
Aborted(F) == [f \in DOMAIN workers |-> IF f \in F THEN Over ELSE workers[f]]
-----------------------------------------------------------------------------
Init == /\ stream = [f \in Flows |-> [state |-> "none", written |-> 0, close_sent |-> FALSE]]
        /\ commands = << >> /\ driver = "running" /\ streams = {}
        /\ up = {} /\ down = {}
        /\ session = "running"
        /\ channels = << >> /\ workers = << >> /\ events = << >> /\ opened = {}
-----------------------------------------------------------------------------
(* The agent's streams. *)

HasRoom == driver = "running" /\ Len(commands) < COMMAND_CAPACITY

\* connect_to_target: a fresh flow id, registered with the driver.
ConnectToTarget(f) ==
    /\ HasRoom
    /\ stream[f].state = "none"
    /\ \A g \in Flows : g < f => stream[g].state # "none"
    /\ stream' = [stream EXCEPT ![f].state = "open"]
    /\ commands' = Append(commands, Command("Register", f, 0))
    /\ UNCHANGED <<driver, streams, up, down, proxyVars>>

\* poll_write: the first datagram opens the flow.
Write(f) ==
    LET n == stream[f].written + 1
    IN /\ HasRoom
       /\ stream[f].state = "open"
       /\ n <= MaxPackets /\ (n = 1 \/ \A g \in Flows \ {f} : stream[g].written <= 1)
       /\ stream' = [stream EXCEPT ![f].written = n]
       /\ commands' = Append(commands, Command(IF n = 1 THEN "OpenData" ELSE "Data", f, n))
       /\ UNCHANGED <<driver, streams, up, down, proxyVars>>

\* poll_shutdown.
Shutdown(f) ==
    /\ HasRoom
    /\ stream[f].state = "open" /\ ~stream[f].close_sent
    /\ stream' = [stream EXCEPT ![f].close_sent = TRUE]
    /\ commands' = Append(commands, Command("Close", f, 0))
    /\ UNCHANGED <<driver, streams, up, down, proxyVars>>

\* Drop: the Close of a stream that was not shut down is only tried.
DropStream(f) ==
    /\ stream[f].state = "open"
    /\ stream' = [stream EXCEPT ![f].state = "dropped"]
    /\ commands' = IF HasRoom /\ ~stream[f].close_sent
                     THEN Append(commands, Command("Close", f, 0)) ELSE commands
    /\ UNCHANGED <<driver, streams, up, down, proxyVars>>
-----------------------------------------------------------------------------
(* The agent's session driver. *)

\* command_rx.recv().
HandleCommand ==
    LET c == Head(commands)
    IN /\ driver = "running" /\ commands # << >>
       /\ commands' = Tail(commands)
       /\ streams' = CASE c.kind = "Register" -> streams \cup {c.flow}
                       [] c.kind = "Close" -> streams \ {c.flow}
                       [] OTHER -> streams
       /\ up' = IF \/ c.kind = "Close"
                   \/ c.kind \in {"OpenData", "Data"} /\ c.flow \in streams
                  THEN up \cup {c} ELSE up
       /\ UNCHANGED <<stream, driver, down, proxyVars>>

\* socket.recv(): an answer for a stream that is gone or closed ends its entry.
ReceiveAnswer(m) ==
    LET f == m.flow
    IN /\ driver = "running"
       /\ down' = down \ {m}
       /\ streams' = IF \/ m.kind \in {"ConnectFailed", "Close"}
                        \/ m.kind = "Data" /\ stream[f].state = "dropped"
                       THEN streams \ {f} ELSE streams
       /\ UNCHANGED <<stream, commands, driver, up, proxyVars>>

\* The driver returns: keepalive timeout, socket error, or no handle is left.
DriverEnds ==
    /\ driver = "running"
    /\ driver' = "ended"
    /\ commands' = << >> /\ streams' = {}
    /\ UNCHANGED <<stream, up, down, proxyVars>>
-----------------------------------------------------------------------------
(* The proxy's session task: one message of the agent, or one event. *)

\* Flow f has a worker that still reads its queue.
Serves(f) == f \in DOMAIN workers /\ workers[f].phase # "over"

\* OpenData of a flow there is a channel for, or when the table is full.
OpenDataRefused(m) ==
    LET f == m.flow
    IN /\ session = "running" /\ m.kind = "OpenData"
       /\ f \in DOMAIN channels \/ Cardinality(DOMAIN channels) >= MAX_FLOWS
       /\ up' = up \ {m}
       /\ down' = IF f \in DOMAIN channels THEN down
                  ELSE down \cup {Answer("ConnectFailed", f)}
       /\ UNCHANGED <<agentVars, proxyVars>>

\* OpenData of a new flow: its worker starts with the first packet queued.
OpenDataCreates(m) ==
    LET f == m.flow
    IN /\ session = "running" /\ m.kind = "OpenData"
       /\ f \notin DOMAIN channels /\ Cardinality(DOMAIN channels) < MAX_FLOWS
       /\ up' = up \ {m}
       /\ channels' = With(channels, f, TRUE)
       /\ workers' = With(workers, f, Spawned)
       /\ opened' = opened \cup {f}
       /\ UNCHANGED <<agentVars, down, session, events>>

\* Faulty variant: Data of an unknown flow opens it.
HandleData_reopens(m) ==
    LET f == m.flow
        fresh == f \notin DOMAIN channels /\ Cardinality(DOMAIN channels) < MAX_FLOWS
    IN /\ session = "running" /\ m.kind = "Data"
       /\ up' = up \ {m}
       /\ channels' = IF fresh THEN With(channels, f, TRUE) ELSE channels
       /\ workers' = IF fresh THEN With(workers, f, Spawned) ELSE workers
       /\ opened' = IF fresh THEN opened \cup {f} ELSE opened
       /\ UNCHANGED <<agentVars, down, session, events>>

\* Data: dropped without a channel, without input_tx, with a full queue or by a
\* worker that is over; input_tx is given up when the worker is gone.
HandleData(m) ==
    LET f == m.flow
        known == f \in DOMAIN channels /\ channels[f]
    IN /\ session = "running" /\ m.kind = "Data"
       /\ up' = up \ {m}
       /\ workers' = IF known /\ Serves(f) /\ workers[f].queue < CHANNEL_SIZE
                       THEN [workers EXCEPT ![f].queue = @ + 1] ELSE workers
       /\ channels' = IF known /\ f \notin DOMAIN workers
                        THEN [channels EXCEPT ![f] = FALSE] ELSE channels
       /\ UNCHANGED <<agentVars, down, session, events, opened>>

\* Faulty variant: the worker of the closed channel goes on.
HandleClose_no_abort(m) ==
    /\ session = "running" /\ m.kind = "Close"
    /\ up' = up \ {m}
    /\ channels' = Without(channels, {m.flow})
    /\ UNCHANGED <<agentVars, down, session, workers, events, opened>>

\* Close: the channel goes, and its worker, if it still runs, is told to end.
HandleClose(m) ==
    /\ session = "running" /\ m.kind = "Close"
    /\ up' = up \ {m}
    /\ channels' = Without(channels, {m.flow})
    /\ workers' = IF m.flow \in DOMAIN channels THEN Aborted({m.flow}) ELSE workers
    /\ UNCHANGED <<agentVars, down, session, events, opened>>

\* channel_event_rx.recv(); events of a channel that is gone are dropped.  The answer
\* that tells of success is left out of `down`: the agent does nothing with it.
HandleEvent ==
    LET e == Head(events)
        known == e.flow \in DOMAIN channels
    IN /\ session = "running" /\ events # << >>
       /\ events' = Tail(events)
       /\ down' = IF known /\ e.kind # "ConnectOk" THEN down \cup {e} ELSE down
       /\ channels' = CASE known /\ e.kind = "ConnectFailed" -> [channels EXCEPT ![e.flow] = FALSE]
                        [] known /\ e.kind = "Close" -> Without(channels, {e.flow})
                        [] OTHER -> channels
       /\ UNCHANGED <<agentVars, up, session, workers, opened>>

\* The session is idle or cannot send: every worker is told to end.
SessionEnds ==
    /\ session = "running"
    /\ session' = "ended"
    /\ channels' = << >> /\ workers' = Aborted(DOMAIN workers) /\ events' = << >>
    /\ UNCHANGED <<agentVars, up, down, opened>>
-----------------------------------------------------------------------------
(* A channel worker. *)

WorkerConnects(f) ==
    /\ workers[f].phase = "connecting"
    /\ workers' = [workers EXCEPT ![f].phase = "relaying"]
    /\ events' = Append(events, Answer("ConnectOk", f))
    /\ UNCHANGED <<agentVars, up, down, session, channels, opened>>

\* The target cannot be reached: the worker is over, and no Closed follows.
WorkerFails(f) ==
    /\ workers[f].phase = "connecting"
    /\ workers' = [workers EXCEPT ![f] = Over]
    /\ events' = Append(events, Answer("ConnectFailed", f))
    /\ UNCHANGED <<agentVars, up, down, session, channels, opened>>

Relaying(f) == workers[f].phase \in {"relaying", "idle"}

\* A packet for the target; the idle timer starts again.
WorkerForwards(f) ==
    /\ Relaying(f) /\ workers[f].queue > 0
    /\ workers' = [workers EXCEPT ![f] = [phase |-> "relaying", queue |-> @.queue - 1]]
    /\ UNCHANGED <<agentVars, up, down, session, channels, events, opened>>

\* A packet of the target; the idle timer starts again, whether or not anybody is
\* left at the agent to read it.
TargetAnswers(f) ==
    /\ Relaying(f)
    /\ down' = down \cup {Answer("Data", f)}
    /\ workers' = [workers EXCEPT ![f].phase = "relaying"]
    /\ UNCHANGED <<agentVars, up, session, channels, events, opened>>

\* The idle timeout has passed since the last datagram.
TimeoutPasses(f) ==
    /\ workers[f].phase = "relaying"
    /\ workers' = [workers EXCEPT ![f].phase = "idle"]
    /\ UNCHANGED <<agentVars, up, down, session, channels, events, opened>>

\* Faulty variant: the worker ends without an event.
WorkerEnds_silent(f) ==
    /\ Relaying(f)
    /\ workers' = [workers EXCEPT ![f] = Over]
    /\ UNCHANGED <<agentVars, up, down, session, channels, events, opened>>

\* The idle timer fires or the socket fails: send_channel_closed.
WorkerEnds(f) ==
    /\ Relaying(f)
    /\ workers' = [workers EXCEPT ![f] = Over]
    /\ events' = Append(events, Answer("Close", f))
    /\ UNCHANGED <<agentVars, up, down, session, channels, opened>>

\* A task that is over is dropped: input_rx and the target socket go with it.
TaskDropped(f) ==
    /\ workers[f].phase = "over"
    /\ workers' = Without(workers, {f})
    /\ UNCHANGED <<agentVars, up, down, session, channels, events, opened>>
-----------------------------------------------------------------------------
Stream(f) == \/ ConnectToTarget(f) \/ Write(f) \/ Shutdown(f) \/ DropStream(f)

Session == \/ \E m \in up : \/ OpenDataRefused(m) \/ OpenDataCreates(m)
                            \/ HandleData(m) \/ HandleClose(m)
           \/ HandleEvent \/ SessionEnds

Worker(f) == \/ WorkerConnects(f) \/ WorkerFails(f) \/ WorkerForwards(f)
             \/ TargetAnswers(f) \/ TimeoutPasses(f) \/ WorkerEnds(f) \/ TaskDropped(f)

\* Both sides are over.
BothEnded == driver = "ended" /\ session = "ended" /\ UNCHANGED vars

Next == \/ \E f \in Flows : Stream(f)
        \/ HandleCommand \/ DriverEnds
        \/ \E m \in down : ReceiveAnswer(m)
        \/ Session
        \/ \E f \in DOMAIN workers : Worker(f)
        \/ BothEnded

Spec == Init /\ [][Next]_vars

\* Events and ready tasks are served; a connect attempt ends; time passes and a timer
\* that stays expired fires; a task that returned or was aborted is dropped at its
\* next await; a session whose agent is gone gets no more pings and idles out.
\* Nothing is assumed of the network, nor of the targets.
WeaklyFair(i) ==
    \/ i = 1 /\ HandleEvent
    \/ i = 2 /\ HandleCommand
    \/ i = 3 /\ driver = "ended" /\ SessionEnds
    \/ \E f \in DOMAIN workers :
          \/ i = 5 * f - 1 /\ (WorkerConnects(f) \/ WorkerFails(f))
          \/ i = 5 * f /\ WorkerForwards(f)
          \/ i = 5 * f + 1 /\ TimeoutPasses(f)
          \/ i = 5 * f + 2 /\ workers[f].phase = "idle" /\ WorkerEnds(f)
          \/ i = 5 * f + 3 /\ TaskDropped(f)

FairSpec == Spec /\ \A i \in 1..(5 * MaxFlows + 3) : WF_vars(WeaklyFair(i))
-----------------------------------------------------------------------------
TypeOK ==
    /\ stream \in [Flows -> [state : {"none", "open", "dropped"},
                             written : 0..MaxPackets, close_sent : BOOLEAN]]
    /\ commands \in Seq([kind : {"Register", "OpenData", "Data", "Close"},
                         flow : Flows, n : 0..MaxPackets])
    /\ driver \in {"running", "ended"} /\ session \in {"running", "ended"}
    /\ streams \subseteq Flows
    /\ up \subseteq [kind : {"OpenData", "Data", "Close"}, flow : Flows, n : 0..MaxPackets]
    /\ down \subseteq [kind : {"ConnectFailed", "Data", "Close"}, flow : Flows]
    /\ DOMAIN channels \subseteq Flows
    /\ \A f \in DOMAIN channels : channels[f] \in BOOLEAN
    /\ DOMAIN workers \subseteq Flows
    /\ \A f \in DOMAIN workers :
         workers[f] \in [phase : {"connecting", "relaying", "idle", "over"},
                         queue : 0..CHANNEL_SIZE]
    /\ events \in Seq([kind : {"ConnectOk", "ConnectFailed", "Close"}, flow : Flows])
    /\ opened \subseteq Flows

\* The channels are within udp_session_max_flows, and no worker goes on without its
\* channel: a task, with its target socket, that has none is over and waits to be
\* dropped.  So the sockets beyond the limit are those of tasks the runtime has yet to
\* drop, whatever order Close, OpenData and the workers' events come in
\* (session.rs abort_handle).
WorkersWithinLimit == /\ Cardinality(DOMAIN channels) <= MAX_FLOWS
                      /\ \A f \in DOMAIN workers : Serves(f) => f \in DOMAIN channels

\* A flow id has one worker in its life: a flow that was closed is never opened
\* again, so its first packet is sent to the target once (session.rs:111-115).
NoFlowIsReopened ==
    [][\A f \in opened : f \notin DOMAIN channels => f \notin DOMAIN channels']_vars

\* A channel whose worker is over is known to be dead, or will be: its event is on
\* the way, or the session has seen its connect fail.
DeadChannelIsKnown ==
    \A f \in DOMAIN channels :
        \/ Serves(f)
        \/ ~channels[f]
        \/ \E i \in DOMAIN events : /\ events[i].flow = f
                                    /\ events[i].kind \in {"ConnectFailed", "Close"}

\* The driver never discards the packet that opens a flow: its Register is done
\* or ahead of it in the queue, and no Close has come in between.
OpenDataIsRegistered ==
    \A i \in DOMAIN commands :
        commands[i].kind = "OpenData" /\ ~stream[commands[i].flow].close_sent =>
            \/ commands[i].flow \in streams
            \/ \E j \in 1..(i - 1) : commands[j] = Command("Register", commands[i].flow, 0)

\* The channels of the table are those of the workers, and the agent opens them.
ChannelsMatchWorkers ==
    TypeOK /\ WorkersWithinLimit /\ DeadChannelIsKnown /\ OpenDataIsRegistered

\* From some point on the target of flow f sends nothing.
TargetFallsSilent(f) == <>[][~(f \in DOMAIN workers /\ TargetAnswers(f))]_vars

\* A connected flow whose stream was dropped gives its socket and its channel back,
\* even when its Close was lost, overtaken or never sent, as soon as its target falls
\* silent: every datagram of the target starts the idle timer again (channel.rs:133),
\* and the agent does not answer Data of a stream it no longer has with a Close.
ConnectedFlowIsReleased ==
    \A f \in Flows :
        TargetFallsSilent(f) =>
            (/\ stream[f].state = "dropped"
             /\ Serves(f) /\ Relaying(f)
             ~> f \notin DOMAIN channels /\ f \notin DOMAIN workers)

\* "The idle timeout of each UDP flow" is one of the resource controls
\* (docs/PROJECT_WALKTHROUGH.md:245): the channel of every flow that the agent
\* is done with goes away once its target is silent.
EveryFlowIsReleased ==
    \A f \in Flows :
        TargetFallsSilent(f) =>
            ((stream[f].state = "dropped" /\ f \in DOMAIN channels) ~> f \notin DOMAIN channels)
=============================================================================
