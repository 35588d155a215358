---------------------------- MODULE ProxyProofs ----------------------------
(***************************************************************************)
(* Proofs about the proxy.  Module NativeUdpFlows: for any number of flows *)
(* and packets and any limits, whatever is lost or overtaken, a flow is    *)
(* opened at most once, its packet is not discarded by its own driver,     *)
(* the channels are within udp_session_max_flows, every worker that is not *)
(* over has one, and a channel without such a worker is known to be dead   *)
(* or will be.  Module UdpRelayFlows: the table of a shared UDP relay      *)
(* stays within udp_relay_max_flows and has no entry that nobody will      *)
(* remove.  Module NativeUdpHandshake: for any number of agents and        *)
(* addresses, any limits and any number of sessions, a running session     *)
(* task is the one its route names, no route leaks, a session's key is     *)
(* bound to one address, and the session limit holds.  RoutingInv is the   *)
(* inductive invariant of the first two, KeyInv that of the third; the     *)
(* last follows from the first and the listener's check.  Module Egress:   *)
(* for any number of connections, interfaces and addresses, and however    *)
(* often the network moves and calls are refused, the reference counts of  *)
(* the host routes are those of the guards held, and an interface is given *)
(* up only if there is none, a call failed, the machine changed meanwhile  *)
(* or the route has no index.                                              *)
(***************************************************************************)
EXTENDS MCProxy, FiniteSetTheorems, FunctionTheorems, TLAPS

\* The command at place i is the one that opens flow f.
OpensAt(i, f) == commands[i].kind = "OpenData" /\ commands[i].flow = f

\* The OpenData of flow f is not in the command queue any more, or never was.
NotQueued(f) == \A i \in DOMAIN commands : ~OpensAt(i, f)

\* A flow is opened once: there is one OpenData per flow in the whole behaviour,
\* either in the command queue, or on its way, or used up by the flow's worker.
OpenedOnce ==
    /\ \A i \in DOMAIN commands : commands[i].kind = "OpenData" =>
          /\ commands[i].n = 1
          /\ stream[commands[i].flow].written >= 1
          /\ commands[i].flow \notin opened
          /\ \A j \in DOMAIN commands : OpensAt(j, commands[i].flow) => i = j
    /\ \A m \in up : m.kind = "OpenData" =>
          /\ m.n = 1
          /\ stream[m.flow].written >= 1
          /\ m.flow \notin opened
          /\ NotQueued(m.flow)
    /\ \A f \in opened : stream[f].written >= 1

\* An answer is about a flow whose OpenData has left the driver.
AnswersFollowOpen ==
    \A m \in down : stream[m.flow].written >= 1 /\ NotQueued(m.flow)

\* Channels, workers and events are those of flows that were opened, and the event of
\* a worker's end comes after its end.
EventsFollowWorkers ==
    /\ DOMAIN channels \subseteq opened /\ DOMAIN workers \subseteq opened
    /\ \A i \in DOMAIN events : events[i].flow \in opened
    /\ \A i \in DOMAIN events :
          events[i].kind \in {"ConnectFailed", "Close"} => ~Serves(events[i].flow)

\* A stream that may still send its first datagram is registered, or its Register
\* is queued ahead.
StreamIsRegistered ==
    \A f \in Flows :
        /\ driver = "running" /\ stream[f].state = "open"
        /\ stream[f].written = 0 /\ ~stream[f].close_sent
        => f \in streams \/ \E j \in DOMAIN commands : commands[j] = Command("Register", f, 0)

\* The Close that Drop sends comes last.
CloseOfDropIsLast ==
    \A j \in DOMAIN commands :
        commands[j].kind = "Close" /\ ~stream[commands[j].flow].close_sent =>
            /\ stream[commands[j].flow].state = "dropped"
            /\ \A i \in DOMAIN commands : i > j => ~OpensAt(i, commands[j].flow)


\* What the agent's side keeps, what the proxy's side keeps, and all of it: the
\* inductive invariant.
AgentInv == /\ OpenDataIsRegistered /\ OpenedOnce /\ AnswersFollowOpen
            /\ StreamIsRegistered /\ CloseOfDropIsLast
ProxyInv == WorkersWithinLimit /\ DeadChannelIsKnown /\ EventsFollowWorkers
FlowsInv == TypeOK /\ AgentInv /\ ProxyInv
-----------------------------------------------------------------------------
(* The records of TypeOK, and sequences used as queues. *)

StreamRecord == [state : {"none", "open", "dropped"}, written : 0..MaxPackets,
                 close_sent : BOOLEAN]
CommandRecord == [kind : {"Register", "OpenData", "Data", "Close"}, flow : Flows,
                  n : 0..MaxPackets]
MessageRecord == [kind : {"OpenData", "Data", "Close"}, flow : Flows, n : 0..MaxPackets]
AnswerRecord == [kind : {"ConnectFailed", "Data", "Close"}, flow : Flows]
EventRecord == [kind : {"ConnectOk", "ConnectFailed", "Close"}, flow : Flows]
WorkerRecord == [phase : {"connecting", "relaying", "idle", "over"}, queue : 0..CHANNEL_SIZE]

\* A queue after a send: the old places are as they were, the new one is the last.
LEMMA Sent ==
    ASSUME NEW S, NEW q \in Seq(S), NEW e \in S
    PROVE  /\ Append(q, e) \in Seq(S)
           /\ DOMAIN Append(q, e) = DOMAIN q \cup {Len(q) + 1}
           /\ \A i \in DOMAIN q : Append(q, e)[i] = q[i] /\ i \in Nat /\ i < Len(q) + 1
           /\ Append(q, e)[Len(q) + 1] = e
           /\ Len(q) + 1 \in Nat \ {0} /\ Len(q) + 1 \notin DOMAIN q
  OBVIOUS

\* What is in a queue, and what is ahead of a place.
LEMMA InQueue ==
    ASSUME NEW S, NEW q \in Seq(S), NEW i \in DOMAIN q
    PROVE  q[i] \in S /\ i \in Nat \ {0} /\ \A j \in 1..(i - 1) : j \in DOMAIN q
  OBVIOUS

\* A queue after a receive: every place but the first moves up by one.
LEMMA Received ==
    ASSUME NEW S, NEW q \in Seq(S), q # << >>
    PROVE  /\ Tail(q) \in Seq(S)
           /\ Head(q) = q[1] /\ 1 \in DOMAIN q /\ Head(q) \in S
           /\ \A i \in DOMAIN Tail(q) : i \in Nat /\ i + 1 \in DOMAIN q /\ i + 1 # 1 /\ Tail(q)[i] = q[i + 1]
           /\ \A i \in DOMAIN q : i \in Nat \ {0} /\ (i # 1 => i - 1 \in DOMAIN Tail(q) /\ Tail(q)[i - 1] = q[i])
  OBVIOUS
-----------------------------------------------------------------------------
(* Types. *)

LEMMA TypeOfRecords ==
    TypeOK <=> /\ stream \in [Flows -> StreamRecord] /\ commands \in Seq(CommandRecord)
               /\ driver \in {"running", "ended"} /\ session \in {"running", "ended"}
               /\ streams \subseteq Flows
               /\ up \subseteq MessageRecord /\ down \subseteq AnswerRecord
               /\ DOMAIN channels \subseteq Flows
               /\ \A f \in DOMAIN channels : channels[f] \in BOOLEAN
               /\ DOMAIN workers \subseteq Flows
               /\ \A f \in DOMAIN workers : workers[f] \in WorkerRecord
               /\ events \in Seq(EventRecord) /\ opened \subseteq Flows
  BY DEF TypeOK, StreamRecord, CommandRecord, MessageRecord, AnswerRecord, EventRecord,
         WorkerRecord

LEMMA TypeInit == ASSUME FlowsConstants PROVE Init => TypeOK
<1> SUFFICES ASSUME Init PROVE TypeOK
  OBVIOUS
<1>1. DOMAIN channels = {} /\ DOMAIN workers = {}
  BY DEF Init
<1> QED
  BY <1>1 DEF Init, TypeOK, FlowsConstants

\* The streams and the driver.
LEMMA TypeAgent ==
    ASSUME FlowsConstants, TypeOK,
           \/ \E f \in Flows : Stream(f)
           \/ HandleCommand \/ DriverEnds \/ \E m \in down : ReceiveAnswer(m)
    PROVE  TypeOK'
<1> USE TypeOfRecords
<1>1. /\ stream \in [Flows -> StreamRecord] /\ commands \in Seq(CommandRecord)
      /\ streams \subseteq Flows /\ up \subseteq MessageRecord /\ down \subseteq AnswerRecord
  OBVIOUS
<1>2. SUFFICES /\ stream' \in [Flows -> StreamRecord] /\ commands' \in Seq(CommandRecord)
               /\ driver' \in {"running", "ended"} /\ streams' \subseteq Flows
               /\ up' \subseteq MessageRecord /\ down' \subseteq AnswerRecord
               /\ UNCHANGED proxyVars
  BY DEF proxyVars, TypeOK, StreamRecord, CommandRecord, MessageRecord, AnswerRecord
<1>3. ASSUME NEW f \in Flows, Stream(f)
      PROVE  <1>2!1
  <2>1. \A k \in {"Register", "OpenData", "Data", "Close"} : \A n \in 0..MaxPackets :
          Append(commands, Command(k, f, n)) \in Seq(CommandRecord)
    <3> SUFFICES ASSUME NEW k \in {"Register", "OpenData", "Data", "Close"}, NEW n \in 0..MaxPackets
                 PROVE  Append(commands, Command(k, f, n)) \in Seq(CommandRecord)
      OBVIOUS
    <3>1. Command(k, f, n) \in CommandRecord
      BY DEF Command, CommandRecord
    <3> QED
      BY <1>1, <3>1, Sent
  <2>2. stream[f] \in StreamRecord /\ 0 \in 0..MaxPackets
    BY <1>1 DEF FlowsConstants
  <2>3. CASE ConnectToTarget(f)
    BY <1>1, <2>1, <2>2, <2>3 DEF ConnectToTarget, StreamRecord, TypeOK
  <2>4. CASE Write(f)
    <3>1. stream[f].written + 1 \in 0..MaxPackets
      BY <2>2, <2>4 DEF Write, StreamRecord, FlowsConstants
    <3> QED
      BY <1>1, <2>1, <2>2, <2>4, <3>1 DEF Write, StreamRecord, TypeOK
  <2>5. CASE Shutdown(f)
    BY <1>1, <2>1, <2>2, <2>5 DEF Shutdown, StreamRecord, TypeOK
  <2>6. CASE DropStream(f)
    BY <1>1, <2>1, <2>2, <2>6 DEF DropStream, StreamRecord, TypeOK
  <2> QED
    BY <1>3, <2>3, <2>4, <2>5, <2>6 DEF Stream
<1>4. CASE HandleCommand
  <2>1. commands # << >> /\ commands' = Tail(commands)
    BY <1>4 DEF HandleCommand
  <2>2. Head(commands) \in CommandRecord /\ commands' \in Seq(CommandRecord)
    BY <1>1, <2>1, Received
  <2>3. Head(commands).kind # "Register" => Head(commands) \in MessageRecord
    BY <2>2 DEF CommandRecord, MessageRecord
  <2>4. streams' \subseteq Flows
    BY <1>1, <1>4, <2>2 DEF HandleCommand, CommandRecord
  <2>5. up' \subseteq MessageRecord
    BY <1>1, <1>4, <2>3 DEF HandleCommand
  <2> QED
    BY <1>1, <1>4, <2>2, <2>4, <2>5 DEF HandleCommand, TypeOK
<1>5. CASE DriverEnds
  BY <1>1, <1>5 DEF DriverEnds
<1>6. ASSUME NEW m \in down, ReceiveAnswer(m)
      PROVE  <1>2!1
  BY <1>1, <1>6 DEF ReceiveAnswer, TypeOK
<1> QED
  BY <1>3, <1>4, <1>5, <1>6

\* The session task and the workers.
LEMMA TypeProxy ==
    ASSUME FlowsConstants, TypeOK, Session \/ \E f \in DOMAIN workers : Worker(f)
    PROVE  TypeOK'
<1> USE TypeOfRecords
<1>1. /\ up \subseteq MessageRecord /\ down \subseteq AnswerRecord
      /\ DOMAIN channels \subseteq Flows /\ \A f \in DOMAIN channels : channels[f] \in BOOLEAN
      /\ DOMAIN workers \subseteq Flows /\ \A f \in DOMAIN workers : workers[f] \in WorkerRecord
      /\ events \in Seq(EventRecord) /\ opened \subseteq Flows
      /\ session \in {"running", "ended"}
  OBVIOUS
<1>0. Over \in WorkerRecord
  BY DEF Over, WorkerRecord, FlowsConstants
<1>2. SUFFICES /\ up' \subseteq MessageRecord /\ down' \subseteq AnswerRecord
               /\ DOMAIN channels' \subseteq Flows /\ \A f \in DOMAIN channels' : channels'[f] \in BOOLEAN
               /\ DOMAIN workers' \subseteq Flows /\ \A f \in DOMAIN workers' : workers'[f] \in WorkerRecord
               /\ events' \in Seq(EventRecord) /\ opened' \subseteq Flows
               /\ session' \in {"running", "ended"}
               /\ UNCHANGED agentVars
  BY DEF agentVars, TypeOK, WorkerRecord, EventRecord, MessageRecord, AnswerRecord
<1>3. ASSUME NEW m \in up, OpenDataRefused(m)
      PROVE  <1>2!1
  <2>1. Answer("ConnectFailed", m.flow) \in AnswerRecord
    BY <1>1 DEF Answer, AnswerRecord, MessageRecord
  <2> QED
    BY <1>1, <1>3, <2>1 DEF OpenDataRefused, proxyVars
<1>4. ASSUME NEW m \in up, OpenDataCreates(m)
      PROVE  <1>2!1
  <2>1. m.flow \in Flows /\ Spawned \in WorkerRecord
    BY <1>1 DEF MessageRecord, WorkerRecord, FlowsConstants, Spawned
  <2> QED
    BY <1>1, <1>4, <2>1 DEF OpenDataCreates, With
<1>5. ASSUME NEW m \in up, HandleData(m)
      PROVE  <1>2!1
  <2>1. DOMAIN workers' = DOMAIN workers /\ \A f \in DOMAIN workers' : workers'[f] \in WorkerRecord
    <3>1. CASE /\ m.flow \in DOMAIN workers /\ workers[m.flow].queue < CHANNEL_SIZE
               /\ workers' = [workers EXCEPT ![m.flow].queue = workers[m.flow].queue + 1]
      <4>1. workers[m.flow].queue + 1 \in 0..CHANNEL_SIZE
        BY <1>1, <3>1 DEF WorkerRecord, FlowsConstants
      <4> QED
        BY <1>1, <3>1, <4>1 DEF WorkerRecord
    <3>2. CASE workers' = workers
      BY <1>1, <3>2
    <3> QED
      BY <1>5, <3>1, <3>2 DEF HandleData, Serves
  <2>2. DOMAIN channels' = DOMAIN channels /\ \A f \in DOMAIN channels' : channels'[f] \in BOOLEAN
    BY <1>1, <1>5 DEF HandleData
  <2> QED
    BY <1>1, <1>5, <2>1, <2>2 DEF HandleData
<1>6. ASSUME NEW m \in up, HandleClose(m)
      PROVE  <1>2!1
  BY <1>0, <1>1, <1>6 DEF HandleClose, Without, Aborted
<1>7. CASE HandleEvent
  <2>1. Head(events) \in EventRecord /\ events' \in Seq(EventRecord)
    BY <1>1, <1>7, Received DEF HandleEvent
  <2>2. Head(events).kind # "ConnectOk" => Head(events) \in AnswerRecord
    BY <2>1 DEF EventRecord, AnswerRecord
  <2>3. DOMAIN channels' \subseteq Flows /\ \A f \in DOMAIN channels' : channels'[f] \in BOOLEAN
    BY <1>1, <1>7 DEF HandleEvent, Without
  <2> QED
    BY <1>1, <1>7, <2>1, <2>2, <2>3 DEF HandleEvent
<1>8. CASE SessionEnds
  <2>1. /\ DOMAIN channels' = {} /\ DOMAIN workers' = DOMAIN workers
        /\ \A f \in DOMAIN workers' : workers'[f] \in WorkerRecord
    BY <1>0, <1>1, <1>8 DEF SessionEnds, Aborted
  <2> QED
    BY <1>1, <1>8, <2>1 DEF SessionEnds
<1>9. ASSUME NEW f \in DOMAIN workers, Worker(f)
      PROVE  <1>2!1
  <2>1. f \in Flows /\ workers[f] \in WorkerRecord
    BY <1>1
  <2>2. \A k \in {"ConnectOk", "ConnectFailed", "Close"} :
          Append(events, Answer(k, f)) \in Seq(EventRecord)
    <3> SUFFICES ASSUME NEW k \in {"ConnectOk", "ConnectFailed", "Close"}
                 PROVE  Append(events, Answer(k, f)) \in Seq(EventRecord)
      OBVIOUS
    <3>1. Answer(k, f) \in EventRecord
      BY <2>1 DEF Answer, EventRecord
    <3> QED
      BY <1>1, <3>1, Sent
  <2>3. CASE WorkerConnects(f)
    BY <1>1, <2>1, <2>2, <2>3 DEF WorkerConnects, WorkerRecord
  <2>4. CASE WorkerFails(f) \/ WorkerEnds(f)
    BY <1>0, <1>1, <2>1, <2>2, <2>4 DEF WorkerFails, WorkerEnds
  <2>5. CASE WorkerForwards(f)
    <3>1. workers[f].queue - 1 \in 0..CHANNEL_SIZE
      BY <2>1, <2>5 DEF WorkerForwards, WorkerRecord, FlowsConstants
    <3> QED
      BY <1>1, <2>1, <2>5, <3>1 DEF WorkerForwards, WorkerRecord
  <2>6. CASE TargetAnswers(f)
    <3>1. Answer("Data", f) \in AnswerRecord
      BY <2>1 DEF Answer, AnswerRecord
    <3> QED
      BY <1>1, <2>1, <2>6, <3>1 DEF TargetAnswers, WorkerRecord
  <2>7. CASE TimeoutPasses(f)
    BY <1>1, <2>1, <2>7 DEF TimeoutPasses, WorkerRecord
  <2>8. CASE TaskDropped(f)
    BY <1>1, <2>8 DEF TaskDropped, Without
  <2> QED
    BY <1>9, <2>3, <2>4, <2>5, <2>6, <2>7, <2>8 DEF Worker
<1> QED
  BY <1>3, <1>4, <1>5, <1>6, <1>7, <1>8, <1>9 DEF Session
-----------------------------------------------------------------------------
(* The agent's side. *)

\* A step of the proxy: it takes messages off the network, answers flows whose
\* OpenData has left the driver, and opens a flow by using its OpenData up.
LEMMA ProxyKeepsAgent ==
    ASSUME TypeOK, AgentInv, UNCHANGED agentVars, up' \subseteq up,
           \A m \in down' \ down : stream[m.flow].written >= 1 /\ NotQueued(m.flow),
           \A f \in opened' \ opened :
              /\ stream[f].written >= 1 /\ NotQueued(f)
              /\ \A m \in up' : m.kind = "OpenData" => m.flow # f
    PROVE  AgentInv'
<1>1. OpenDataIsRegistered' /\ StreamIsRegistered' /\ CloseOfDropIsLast'
  BY DEF AgentInv, agentVars, OpenDataIsRegistered, StreamIsRegistered, CloseOfDropIsLast, OpensAt
<1>2. AnswersFollowOpen'
  BY DEF AgentInv, agentVars, AnswersFollowOpen, NotQueued, OpensAt
<1>3. OpenedOnce'
  BY DEF AgentInv, agentVars, OpenedOnce, NotQueued, OpensAt
<1> QED
  BY <1>1, <1>2, <1>3 DEF AgentInv

LEMMA AgentSession ==
    ASSUME TypeOK, AgentInv, ProxyInv, Session
    PROVE  AgentInv'
<1>1. ASSUME NEW m \in up, m.kind = "OpenData"
      PROVE  /\ stream[m.flow].written >= 1 /\ NotQueued(m.flow) /\ m.flow \notin opened
             /\ \A k \in up \ {m} : k.kind = "OpenData" => k.flow # m.flow
  <2>1. \A k \in up : k.kind = "OpenData" => k \in MessageRecord /\ k.n = 1
    BY TypeOfRecords DEF AgentInv, OpenedOnce
  <2>2. \A k \in up : k.kind = "OpenData" /\ k.flow = m.flow => k = m
    BY <1>1, <2>1 DEF MessageRecord
  <2> QED
    BY <1>1, <2>2 DEF AgentInv, OpenedOnce
<1>2. ASSUME NEW m \in up, OpenDataRefused(m) PROVE AgentInv'
  <2>1. m.kind = "OpenData" /\ \A a \in down' \ down : a.flow = m.flow
    BY <1>2 DEF OpenDataRefused, Answer
  <2> QED
    BY <1>1, <1>2, <2>1, ProxyKeepsAgent DEF OpenDataRefused, proxyVars
<1>3. ASSUME NEW m \in up, OpenDataCreates(m) PROVE AgentInv'
  BY <1>1, <1>3, ProxyKeepsAgent DEF OpenDataCreates
<1>4. ASSUME NEW m \in up, HandleData(m) \/ HandleClose(m) PROVE AgentInv'
  BY <1>4, ProxyKeepsAgent DEF HandleData, HandleClose
<1>5. CASE HandleEvent
  <2>1. 1 \in DOMAIN events /\ Head(events) = events[1]
    BY <1>5, TypeOfRecords, Received DEF HandleEvent
  <2>2. Head(events).flow \in opened
    BY <2>1 DEF ProxyInv, EventsFollowWorkers
  <2>3. stream[Head(events).flow].written >= 1 /\ NotQueued(Head(events).flow)
    BY <2>2 DEF AgentInv, OpenedOnce, NotQueued, OpensAt
  <2> QED
    BY <1>5, <2>3, ProxyKeepsAgent DEF HandleEvent
<1>6. CASE SessionEnds
  BY <1>6, ProxyKeepsAgent DEF SessionEnds
<1> QED
  BY <1>2, <1>3, <1>4, <1>5, <1>6 DEF Session

LEMMA AgentWorker ==
    ASSUME TypeOK, AgentInv, ProxyInv, NEW f \in DOMAIN workers, Worker(f)
    PROVE  AgentInv'
<1>1. f \in opened
  BY DEF ProxyInv, EventsFollowWorkers
<1>2. stream[f].written >= 1 /\ NotQueued(f)
  BY <1>1 DEF AgentInv, OpenedOnce, NotQueued, OpensAt
<1>3. CASE TargetAnswers(f)
  BY <1>2, <1>3, ProxyKeepsAgent DEF TargetAnswers, Answer
<1>4. CASE \/ WorkerConnects(f) \/ WorkerFails(f) \/ WorkerForwards(f) \/ WorkerEnds(f)
           \/ TimeoutPasses(f) \/ TaskDropped(f)
  BY <1>4, ProxyKeepsAgent
     DEF WorkerConnects, WorkerFails, WorkerForwards, WorkerEnds, TimeoutPasses, TaskDropped
<1> QED
  BY <1>3, <1>4 DEF Worker

\* A stream moves on without opening its flow: it sends nothing, or something other
\* than OpenData, and a Close is sent by a stream that has said so or is dropped.
LEMMA StreamMoves ==
    ASSUME TypeOK, AgentInv, NEW f \in Flows,
           stream' \in [Flows -> StreamRecord],
           \A g \in Flows \ {f} : stream'[g] = stream[g],
           stream'[f].written >= stream[f].written,
           stream[f].close_sent => stream'[f].close_sent,
           stream[f].state = "dropped" => stream'[f].state = "dropped",
           \/ commands' = commands
           \/ \E c \in CommandRecord :
                /\ commands' = Append(commands, c)
                /\ c.kind # "OpenData" /\ c.flow = f
                /\ c.kind = "Close" => stream'[f].close_sent \/ stream'[f].state = "dropped",
           /\ driver = "running" /\ stream'[f].state = "open"
           /\ stream'[f].written = 0 /\ ~stream'[f].close_sent
           => f \in streams \/ \E j \in DOMAIN commands' : commands'[j] = Command("Register", f, 0),
           UNCHANGED <<driver, streams, up, down, proxyVars>>
    PROVE  AgentInv'
<1>1. commands \in Seq(CommandRecord) /\ up \subseteq MessageRecord /\ down \subseteq AnswerRecord
      /\ opened \subseteq Flows /\ stream \in [Flows -> StreamRecord]
  BY TypeOfRecords
<1>2. \A g \in Flows : /\ stream[g].written \in Nat /\ stream'[g].written \in Nat
                       /\ stream'[g].written >= stream[g].written
                       /\ stream[g].close_sent => stream'[g].close_sent
                       /\ stream[g].state = "dropped" => stream'[g].state = "dropped"
  BY <1>1 DEF StreamRecord
<1> DEFINE Grown(new) ==
        /\ DOMAIN commands' = DOMAIN commands \cup new
        /\ \A i \in DOMAIN commands : commands'[i] = commands[i] /\ i \in Nat \ {0} /\ \A j \in new : i < j
        /\ \A j \in new : /\ commands'[j].kind # "OpenData" /\ commands'[j].flow = f
                          /\ commands'[j].kind = "Close" => stream'[f].close_sent \/ stream'[f].state = "dropped"
                          /\ \A i \in new : i = j
<1>3. PICK new \in SUBSET (Nat \ {0}) : Grown(new)
  <2>1. CASE commands' = commands
    <3>1. \A i \in DOMAIN commands : i \in Nat \ {0}
      BY <1>1, InQueue
    <3> WITNESS {} \in SUBSET (Nat \ {0})
    <3> QED
      BY <2>1, <3>1
  <2>2. ASSUME NEW c \in CommandRecord, commands' = Append(commands, c), c.kind # "OpenData",
               c.flow = f, c.kind = "Close" => stream'[f].close_sent \/ stream'[f].state = "dropped"
        PROVE  \E new \in SUBSET (Nat \ {0}) : Grown(new)
    <3> DEFINE L == Len(commands) + 1
    <3>1. /\ DOMAIN commands' = DOMAIN commands \cup {L} /\ commands'[L] = c /\ L \in Nat \ {0}
          /\ \A i \in DOMAIN commands : commands'[i] = commands[i] /\ i \in Nat /\ i < L
      BY <1>1, <2>2, Sent
    <3>2. \A i \in DOMAIN commands : i \in Nat \ {0}
      BY <1>1
    <3> HIDE DEF L
    <3> WITNESS {L} \in SUBSET (Nat \ {0})
    <3> QED
      BY <2>2, <3>1, <3>2
  <2> QED
    BY <2>1, <2>2
<1>4. \A i \in DOMAIN commands : commands[i] \in CommandRecord /\ commands[i].flow \in Flows
  <2>1. \A i \in DOMAIN commands : commands[i] \in CommandRecord
    BY <1>1, InQueue
  <2> QED
    BY <2>1 DEF CommandRecord
<1>5. \A g \in Flows : NotQueued(g) => NotQueued(g)'
  BY <1>3 DEF NotQueued, OpensAt
<1>6. OpenDataIsRegistered'
  <2> SUFFICES ASSUME NEW i \in DOMAIN commands', commands'[i].kind = "OpenData",
                      ~stream'[commands'[i].flow].close_sent
               PROVE  \/ commands'[i].flow \in streams
                      \/ \E j \in 1..(i - 1) : commands'[j] = Command("Register", commands'[i].flow, 0)
    BY DEF OpenDataIsRegistered
  <2>1. i \in DOMAIN commands /\ commands'[i] = commands[i] /\ ~stream[commands[i].flow].close_sent
    BY <1>2, <1>3, <1>4
  <2>2. \/ commands[i].flow \in streams
        \/ \E j \in 1..(i - 1) : commands[j] = Command("Register", commands[i].flow, 0)
    BY <2>1 DEF AgentInv, OpenDataIsRegistered
  <2>3. \A j \in 1..(i - 1) : j \in DOMAIN commands
    BY <1>1, <2>1
  <2> QED
    BY <1>3, <2>1, <2>2, <2>3
<1>7. OpenedOnce'
  <2>1. ASSUME NEW i \in DOMAIN commands', commands'[i].kind = "OpenData"
        PROVE  /\ commands'[i].n = 1 /\ stream'[commands'[i].flow].written >= 1
               /\ commands'[i].flow \notin opened
               /\ \A j \in DOMAIN commands' : OpensAt(j, commands[i].flow)' => i = j
    <3>1. i \in DOMAIN commands /\ commands'[i] = commands[i]
      BY <1>3, <2>1
    <3>2. /\ commands[i].n = 1 /\ stream[commands[i].flow].written >= 1
          /\ commands[i].flow \notin opened
          /\ \A j \in DOMAIN commands : OpensAt(j, commands[i].flow) => i = j
      BY <2>1, <3>1 DEF AgentInv, OpenedOnce
    <3>3. stream'[commands[i].flow].written >= 1
      BY <1>2, <1>4, <3>1, <3>2
    <3>4. \A j \in DOMAIN commands' : commands'[j].kind = "OpenData" => j \in DOMAIN commands /\ commands'[j] = commands[j]
      BY <1>3
    <3> QED
      BY <3>1, <3>2, <3>3, <3>4 DEF OpensAt
  <2>2. ASSUME NEW m \in up, m.kind = "OpenData"
        PROVE  m.n = 1 /\ stream'[m.flow].written >= 1 /\ m.flow \notin opened /\ NotQueued(m.flow)'
    <3>1. m.flow \in Flows
      BY <1>1 DEF MessageRecord
    <3> QED
      BY <1>2, <1>5, <2>2, <3>1 DEF AgentInv, OpenedOnce
  <2>3. \A g \in opened : stream'[g].written >= 1
    BY <1>1, <1>2 DEF AgentInv, OpenedOnce
  <2> QED
    BY <2>1, <2>2, <2>3 DEF OpenedOnce, proxyVars, OpensAt
<1>8. AnswersFollowOpen'
  <2>1. \A m \in down : m.flow \in Flows
    BY <1>1 DEF AnswerRecord
  <2> QED
    BY <1>2, <1>5, <2>1 DEF AgentInv, AnswersFollowOpen
<1>9. StreamIsRegistered'
  <2> SUFFICES ASSUME NEW g \in Flows, driver = "running", stream'[g].state = "open",
                      stream'[g].written = 0, ~stream'[g].close_sent
               PROVE  g \in streams \/ \E j \in DOMAIN commands' : commands'[j] = Command("Register", g, 0)
    BY DEF StreamIsRegistered
  <2>1. CASE g = f
    BY <2>1
  <2>2. CASE g # f
    <3>1. g \in streams \/ \E j \in DOMAIN commands : commands[j] = Command("Register", g, 0)
      BY <2>2 DEF AgentInv, StreamIsRegistered
    <3> QED
      BY <1>3, <3>1
  <2> QED
    BY <2>1, <2>2
<1>10. CloseOfDropIsLast'
  <2> SUFFICES ASSUME NEW j \in DOMAIN commands', commands'[j].kind = "Close",
                      ~stream'[commands'[j].flow].close_sent
               PROVE  /\ stream'[commands'[j].flow].state = "dropped"
                      /\ \A i \in DOMAIN commands' : i > j => ~OpensAt(i, commands[j].flow)'
    BY DEF CloseOfDropIsLast, OpensAt
  <2>1. CASE j \in DOMAIN commands
    <3>1. commands'[j] = commands[j] /\ commands[j].flow \in Flows /\ ~stream[commands[j].flow].close_sent
      BY <1>2, <1>3, <1>4, <2>1
    <3>2. /\ stream[commands[j].flow].state = "dropped"
          /\ \A i \in DOMAIN commands : i > j => ~OpensAt(i, commands[j].flow)
      BY <2>1, <3>1 DEF AgentInv, CloseOfDropIsLast
    <3> QED
      BY <1>2, <1>3, <3>1, <3>2 DEF OpensAt
  <2>2. CASE j \notin DOMAIN commands
    <3>1. commands'[j].flow = f /\ stream'[f].state = "dropped"
      BY <1>3, <2>2
    <3>2. \A i \in DOMAIN commands' : ~(i > j /\ i # j)
      BY <1>3, <2>2
    <3>3. ~(j > j)
      BY <1>3, <2>2
    <3> QED
      BY <3>1, <3>2, <3>3
  <2> QED
    BY <2>1, <2>2
<1> QED
  BY <1>6, <1>7, <1>8, <1>9, <1>10 DEF AgentInv

\* The first datagram: nothing of the flow was opened or answered before, and its
\* Register is done or ahead in the queue.
LEMMA FirstWrite ==
    ASSUME FlowsConstants, TypeOK, AgentInv, NEW f \in Flows, Write(f), stream[f].written = 0
    PROVE  AgentInv'
<1> DEFINE c == Command("OpenData", f, 1)
           L == Len(commands) + 1
<1>1. commands \in Seq(CommandRecord) /\ up \subseteq MessageRecord /\ down \subseteq AnswerRecord
      /\ opened \subseteq Flows /\ stream \in [Flows -> StreamRecord]
  BY TypeOfRecords
<1>2. /\ driver = "running" /\ stream[f].state = "open" /\ 1 <= MaxPackets
      /\ stream' = [stream EXCEPT ![f].written = 1] /\ commands' = Append(commands, c)
      /\ UNCHANGED <<driver, streams, up, down, proxyVars>>
  BY DEF Write, HasRoom
<1>3. /\ \A g \in Flows : stream'[g].close_sent = stream[g].close_sent /\ stream'[g].state = stream[g].state
      /\ \A g \in Flows \ {f} : stream'[g] = stream[g]
      /\ stream'[f].written = 1
  BY <1>1, <1>2 DEF StreamRecord
<1>4. c \in CommandRecord /\ c.kind = "OpenData" /\ c.flow = f /\ c.n = 1
  BY <1>2 DEF CommandRecord, Command, FlowsConstants
<1>5. /\ DOMAIN commands' = DOMAIN commands \cup {L} /\ commands'[L] = c
      /\ L \in Nat \ {0} /\ L \notin DOMAIN commands
      /\ \A i \in DOMAIN commands : commands'[i] = commands[i] /\ i \in Nat /\ i < L
  BY <1>1, <1>2, <1>4, Sent
<1>6. \A i \in DOMAIN commands : commands[i] \in CommandRecord /\ commands[i].flow \in Flows
  <2>1. \A i \in DOMAIN commands : commands[i] \in CommandRecord
    BY <1>1, InQueue
  <2> QED
    BY <2>1 DEF CommandRecord
<1>7. /\ NotQueued(f) /\ f \notin opened
      /\ \A m \in up : m.kind = "OpenData" => m.flow # f
      /\ \A m \in down : m.flow # f
  <2>1. ~(stream[f].written >= 1)
    OBVIOUS
  <2> QED
    BY <2>1 DEF AgentInv, OpenedOnce, AnswersFollowOpen, NotQueued, OpensAt
<1>8. \A g \in Flows \ {f} : NotQueued(g) => NotQueued(g)'
  BY <1>4, <1>5 DEF NotQueued, OpensAt
<1> HIDE DEF L, c
<1>9. OpenDataIsRegistered'
  <2> SUFFICES ASSUME NEW i \in DOMAIN commands', commands'[i].kind = "OpenData",
                      ~stream'[commands'[i].flow].close_sent
               PROVE  \/ commands'[i].flow \in streams
                      \/ \E j \in 1..(i - 1) : commands'[j] = Command("Register", commands'[i].flow, 0)
    BY <1>2 DEF OpenDataIsRegistered
  <2>1. CASE i = L
    <3>1. f \in streams \/ \E j \in DOMAIN commands : commands[j] = Command("Register", f, 0)
      BY <1>2, <1>3, <1>4, <1>5, <2>1 DEF AgentInv, StreamIsRegistered
    <3>2. \A j \in DOMAIN commands : j \in 1..(L - 1)
      BY <1>1, <1>5, InQueue
    <3> QED
      BY <1>4, <1>5, <2>1, <3>1, <3>2
  <2>2. CASE i \in DOMAIN commands
    <3>1. \A j \in 1..(i - 1) : j \in DOMAIN commands
      BY <1>1, <2>2, InQueue
    <3>2. ~stream[commands[i].flow].close_sent /\ commands[i].kind = "OpenData"
      BY <1>3, <1>5, <1>6, <2>2
    <3> QED
      BY <1>5, <2>2, <3>1, <3>2 DEF AgentInv, OpenDataIsRegistered
  <2> QED
    BY <1>5, <2>1, <2>2
<1>10. OpenedOnce'
  <2>1. ASSUME NEW i \in DOMAIN commands', commands'[i].kind = "OpenData"
        PROVE  /\ commands'[i].n = 1 /\ stream'[commands'[i].flow].written >= 1
               /\ commands'[i].flow \notin opened
               /\ \A j \in DOMAIN commands' : OpensAt(j, commands[i].flow)' => i = j
    <3>1. CASE i = L
      BY <1>3, <1>4, <1>5, <1>7, <3>1 DEF NotQueued, OpensAt
    <3>2. CASE i \in DOMAIN commands
      <4>1. commands'[i] = commands[i] /\ commands[i].flow # f /\ commands[i].flow \in Flows
        BY <1>5, <1>6, <1>7, <2>1, <3>2 DEF NotQueued, OpensAt
      <4>2. /\ commands[i].n = 1 /\ stream[commands[i].flow].written >= 1
            /\ commands[i].flow \notin opened
            /\ \A j \in DOMAIN commands : OpensAt(j, commands[i].flow) => i = j
        BY <2>1, <3>2, <4>1 DEF AgentInv, OpenedOnce
      <4> QED
        BY <1>3, <1>4, <1>5, <4>1, <4>2 DEF OpensAt
    <3> QED
      BY <1>5, <3>1, <3>2
  <2>2. ASSUME NEW m \in up, m.kind = "OpenData"
        PROVE  m.n = 1 /\ stream'[m.flow].written >= 1 /\ m.flow \notin opened /\ NotQueued(m.flow)'
    <3>1. m.flow \in Flows \ {f}
      BY <1>1, <1>7, <2>2 DEF MessageRecord
    <3> QED
      BY <1>3, <1>8, <2>2, <3>1 DEF AgentInv, OpenedOnce
  <2>3. \A g \in opened : stream'[g].written >= 1
    BY <1>1, <1>3, <1>7 DEF AgentInv, OpenedOnce
  <2> QED
    BY <1>2, <2>1, <2>2, <2>3 DEF OpenedOnce, proxyVars, OpensAt
<1>11. AnswersFollowOpen'
  <2>1. \A m \in down : m.flow \in Flows \ {f}
    BY <1>1, <1>7 DEF AnswerRecord
  <2> QED
    BY <1>2, <1>3, <1>8, <2>1 DEF AgentInv, AnswersFollowOpen
<1>12. StreamIsRegistered'
  <2> SUFFICES ASSUME NEW g \in Flows, stream'[g].state = "open",
                      stream'[g].written = 0, ~stream'[g].close_sent
               PROVE  g \in streams \/ \E j \in DOMAIN commands' : commands'[j] = Command("Register", g, 0)
    BY <1>2 DEF StreamIsRegistered
  <2>1. g # f /\ (g \in streams \/ \E j \in DOMAIN commands : commands[j] = Command("Register", g, 0))
    BY <1>2, <1>3 DEF AgentInv, StreamIsRegistered
  <2> QED
    BY <1>5, <2>1
<1>13. CloseOfDropIsLast'
  <2> SUFFICES ASSUME NEW j \in DOMAIN commands', commands'[j].kind = "Close",
                      ~stream'[commands'[j].flow].close_sent
               PROVE  /\ stream'[commands'[j].flow].state = "dropped"
                      /\ \A i \in DOMAIN commands' : i > j => ~OpensAt(i, commands[j].flow)'
    BY DEF CloseOfDropIsLast, OpensAt
  <2>1. j \in DOMAIN commands /\ commands'[j] = commands[j] /\ commands[j].flow \in Flows
    BY <1>4, <1>5, <1>6
  <2>2. /\ stream[commands[j].flow].state = "dropped"
        /\ \A i \in DOMAIN commands : i > j => ~OpensAt(i, commands[j].flow)
    BY <1>3, <2>1 DEF AgentInv, CloseOfDropIsLast
  <2>3. commands[j].flow # f
    BY <1>2, <2>2
  <2> QED
    BY <1>3, <1>4, <1>5, <2>1, <2>2, <2>3 DEF OpensAt
<1> QED
  BY <1>9, <1>10, <1>11, <1>12, <1>13 DEF AgentInv

LEMMA AgentStream ==
    ASSUME FlowsConstants, TypeOK, AgentInv, NEW f \in Flows, Stream(f)
    PROVE  AgentInv'
<1>1. commands \in Seq(CommandRecord) /\ stream \in [Flows -> StreamRecord] /\ stream[f] \in StreamRecord
  BY TypeOfRecords
<1>2. \A k \in {"Register", "Data", "Close"} : \A n \in 0..MaxPackets :
        /\ Command(k, f, n) \in CommandRecord
        /\ Command(k, f, n).kind = k /\ Command(k, f, n).flow = f
  BY DEF Command, CommandRecord
<1>3. 0 \in 0..MaxPackets
  BY DEF FlowsConstants
<1>4. TypeOK' /\ stream' \in [Flows -> StreamRecord]
  <2>1. TypeOK'
    BY TypeAgent
  <2> QED
    BY <2>1 DEF TypeOK, StreamRecord
<1>5. CASE ConnectToTarget(f)
  <2> DEFINE c == Command("Register", f, 0)
  <2>1. /\ commands' = Append(commands, c) /\ c \in CommandRecord /\ c.kind = "Register" /\ c.flow = f
        /\ stream' = [stream EXCEPT ![f].state = "open"] /\ stream[f].state = "none"
        /\ UNCHANGED <<driver, streams, up, down, proxyVars>>
    BY <1>2, <1>3, <1>5 DEF ConnectToTarget
  <2>2. /\ \A g \in Flows \ {f} : stream'[g] = stream[g]
        /\ stream'[f].written = stream[f].written /\ stream'[f].close_sent = stream[f].close_sent
        /\ stream[f].written \in Nat
    BY <1>1, <2>1 DEF StreamRecord
  <2>3. \E j \in DOMAIN commands' : commands'[j] = c
    BY <1>1, <2>1, Sent
  <2> HIDE DEF c
  <2>4. \E k \in CommandRecord :
                /\ commands' = Append(commands, k)
                /\ k.kind # "OpenData" /\ k.flow = f
                /\ k.kind = "Close" => stream'[f].close_sent \/ stream'[f].state = "dropped"
    BY <2>1
  <2> QED
    BY <1>4, <2>1, <2>2, <2>3, <2>4, StreamMoves, SMTT(60) DEF c
<1>6. CASE Write(f) /\ stream[f].written # 0
  <2> DEFINE n == stream[f].written + 1
             c == Command("Data", f, n)
  <2>1. n \in 0..MaxPackets /\ n # 1
    BY <1>1, <1>6 DEF Write, StreamRecord, FlowsConstants
  <2>2. /\ commands' = Append(commands, c) /\ c \in CommandRecord /\ c.kind = "Data" /\ c.flow = f
        /\ stream' = [stream EXCEPT ![f].written = n]
        /\ UNCHANGED <<driver, streams, up, down, proxyVars>>
    BY <1>2, <1>6, <2>1 DEF Write
  <2>3. /\ \A g \in Flows \ {f} : stream'[g] = stream[g]
        /\ stream'[f].written >= stream[f].written /\ stream'[f].close_sent = stream[f].close_sent
        /\ stream'[f].state = stream[f].state /\ stream'[f].written # 0
    BY <1>1, <2>2 DEF StreamRecord
  <2> HIDE DEF c
  <2>4. \E k \in CommandRecord :
                /\ commands' = Append(commands, k)
                /\ k.kind # "OpenData" /\ k.flow = f
                /\ k.kind = "Close" => stream'[f].close_sent \/ stream'[f].state = "dropped"
    BY <2>2
  <2> QED
    BY <1>4, <2>2, <2>3, <2>4, StreamMoves
<1>7. CASE Shutdown(f) \/ DropStream(f)
  <2> DEFINE c == Command("Close", f, 0)
  <2>1. /\ commands' = commands \/ commands' = Append(commands, c)
        /\ c \in CommandRecord /\ c.kind = "Close" /\ c.flow = f
        /\ \/ stream' = [stream EXCEPT ![f].state = "dropped"]
           \/ stream' = [stream EXCEPT ![f].close_sent = TRUE]
        /\ UNCHANGED <<driver, streams, up, down, proxyVars>>
    BY <1>2, <1>3, <1>7 DEF Shutdown, DropStream
  <2>2. /\ \A g \in Flows \ {f} : stream'[g] = stream[g]
        /\ stream'[f].written = stream[f].written /\ stream[f].written \in Nat
        /\ stream[f].close_sent => stream'[f].close_sent
        /\ stream[f].state = "dropped" => stream'[f].state = "dropped"
        /\ stream'[f].state = "dropped" \/ stream'[f].close_sent
    BY <1>1, <2>1 DEF StreamRecord
  <2> HIDE DEF c
  <2>3. \/ commands' = commands
        \/ \E k \in CommandRecord :
                /\ commands' = Append(commands, k)
                /\ k.kind # "OpenData" /\ k.flow = f
                /\ k.kind = "Close" => stream'[f].close_sent \/ stream'[f].state = "dropped"
    BY <2>1, <2>2
  <2>4. stream'[f].written >= stream[f].written /\ ~(stream'[f].state = "open" /\ ~stream'[f].close_sent)
    BY <2>2
  <2> QED
    BY <1>4, <2>1, <2>2, <2>3, <2>4, StreamMoves
<1> QED
  BY <1>5, <1>6, <1>7, FirstWrite DEF Stream

\* The driver takes the first command: an OpenData goes from the queue to the network,
\* a Register or a Close changes the map for the flows it names only.
LEMMA AgentCommand ==
    ASSUME TypeOK, AgentInv, HandleCommand
    PROVE  AgentInv'
<1> DEFINE c == Head(commands)
<1>1. commands \in Seq(CommandRecord) /\ up \subseteq MessageRecord /\ down \subseteq AnswerRecord
  BY TypeOfRecords
<1>2. /\ commands # << >> /\ commands' = Tail(commands) /\ driver = "running"
      /\ UNCHANGED <<stream, driver, down, proxyVars>>
  BY DEF HandleCommand
<1>3. /\ c = commands[1] /\ 1 \in DOMAIN commands /\ c \in CommandRecord
      /\ \A i \in DOMAIN commands' : /\ i \in Nat /\ i + 1 \in DOMAIN commands /\ i + 1 # 1
                                     /\ commands'[i] = commands[i + 1]
      /\ \A i \in DOMAIN commands : /\ i \in Nat \ {0}
                                    /\ i # 1 => i - 1 \in DOMAIN commands' /\ commands'[i - 1] = commands[i]
  BY <1>1, <1>2, Received
<1>4. /\ c.kind = "Register" => streams' = streams \cup {c.flow}
      /\ c.kind = "Close" => streams' = streams \ {c.flow}
      /\ c.kind \notin {"Register", "Close"} => streams' = streams
      /\ up' \subseteq up \cup {c}
  BY DEF HandleCommand
<1>5. \A g : NotQueued(g) => NotQueued(g)'
  BY <1>3 DEF NotQueued, OpensAt
<1> HIDE DEF c
<1>6. OpenDataIsRegistered'
  <2> SUFFICES ASSUME NEW i \in DOMAIN commands', commands'[i].kind = "OpenData",
                      ~stream[commands'[i].flow].close_sent
               PROVE  \/ commands'[i].flow \in streams'
                      \/ \E j \in 1..(i - 1) : commands'[j] = Command("Register", commands'[i].flow, 0)
    BY <1>2 DEF OpenDataIsRegistered
  <2> DEFINE f == commands'[i].flow
  <2>1. i \in Nat /\ i + 1 \in DOMAIN commands /\ commands'[i] = commands[i + 1] /\ i + 1 > 1
    BY <1>3
  <2>2. f \in streams \/ \E j \in 1..((i + 1) - 1) : commands[j] = Command("Register", f, 0)
    BY <2>1 DEF AgentInv, OpenDataIsRegistered
  <2>3. ~(c.kind = "Close" /\ c.flow = f)
    <3> SUFFICES ASSUME c.kind = "Close", c.flow = f PROVE FALSE
      OBVIOUS
    <3>1. ~OpensAt(i + 1, f)
      BY <1>3, <2>1 DEF AgentInv, CloseOfDropIsLast
    <3> QED
      BY <2>1, <3>1 DEF OpensAt
  <2>4. f \in streams => f \in streams'
    BY <1>3, <1>4, <2>3 DEF CommandRecord
  <2>5. ASSUME NEW j \in 1..i, commands[j] = Command("Register", f, 0)
        PROVE  f \in streams' \/ \E k \in 1..(i - 1) : commands'[k] = Command("Register", f, 0)
    <3>1. j \in DOMAIN commands
      BY <1>1, <2>1, InQueue
    <3>2. CASE j = 1
      BY <1>3, <1>4, <2>5, <3>2 DEF Command
    <3>3. CASE j # 1
      <4>1. j - 1 \in 1..(i - 1) /\ commands'[j - 1] = commands[j]
        BY <1>3, <2>1, <3>1, <3>3
      <4> QED
        BY <2>5, <4>1
    <3> QED
      BY <3>2, <3>3
  <2> QED
    BY <2>1, <2>2, <2>4, <2>5
<1>7. OpenedOnce'
  <2>1. ASSUME NEW i \in DOMAIN commands', commands'[i].kind = "OpenData"
        PROVE  /\ commands'[i].n = 1 /\ stream[commands'[i].flow].written >= 1
               /\ commands'[i].flow \notin opened
               /\ \A j \in DOMAIN commands' : OpensAt(j, commands[i].flow)' => i = j
    <3>1. i + 1 \in DOMAIN commands /\ commands'[i] = commands[i + 1] /\ i \in Nat
      BY <1>3
    <3>2. /\ commands[i + 1].n = 1 /\ stream[commands[i + 1].flow].written >= 1
          /\ commands[i + 1].flow \notin opened
          /\ \A j \in DOMAIN commands : OpensAt(j, commands[i + 1].flow) => i + 1 = j
      BY <2>1, <3>1 DEF AgentInv, OpenedOnce
    <3>3. ASSUME NEW j \in DOMAIN commands', OpensAt(j, commands[i].flow)' PROVE i = j
      <4>1. j \in Nat /\ j + 1 \in DOMAIN commands /\ OpensAt(j + 1, commands[i + 1].flow)
        BY <1>3, <3>1, <3>3 DEF OpensAt
      <4>2. i + 1 = j + 1
        BY <3>2, <4>1
      <4> QED
        BY <3>1, <4>1, <4>2
    <3> QED
      BY <3>1, <3>2, <3>3
  <2>2. ASSUME NEW m \in up', m.kind = "OpenData"
        PROVE  m.n = 1 /\ stream[m.flow].written >= 1 /\ m.flow \notin opened /\ NotQueued(m.flow)'
    <3>1. CASE m \in up
      BY <1>5, <2>2, <3>1 DEF AgentInv, OpenedOnce
    <3>2. CASE m = c
      <4>1. /\ m.n = 1 /\ stream[m.flow].written >= 1 /\ m.flow \notin opened
            /\ \A j \in DOMAIN commands : OpensAt(j, m.flow) => 1 = j
        BY <1>3, <2>2, <3>2 DEF AgentInv, OpenedOnce
      <4>2. NotQueued(m.flow)'
        <5> SUFFICES ASSUME NEW i \in DOMAIN commands' PROVE ~OpensAt(i, m.flow)'
          BY DEF NotQueued, OpensAt
        <5> QED
          BY <1>3, <4>1 DEF OpensAt
      <4> QED
        BY <4>1, <4>2
    <3> QED
      BY <1>4, <3>1, <3>2
  <2>3. \A f \in opened : stream[f].written >= 1
    BY DEF AgentInv, OpenedOnce
  <2> QED
    BY <1>2, <2>1, <2>2, <2>3 DEF OpenedOnce, proxyVars, OpensAt
<1>8. AnswersFollowOpen'
  BY <1>2, <1>5 DEF AgentInv, AnswersFollowOpen
<1>9. StreamIsRegistered'
  <2> SUFFICES ASSUME NEW f \in Flows, stream[f].state = "open",
                      stream[f].written = 0, ~stream[f].close_sent
               PROVE  f \in streams' \/ \E j \in DOMAIN commands' : commands'[j] = Command("Register", f, 0)
    BY <1>2 DEF StreamIsRegistered
  <2>1. f \in streams \/ \E j \in DOMAIN commands : commands[j] = Command("Register", f, 0)
    BY <1>2 DEF AgentInv, StreamIsRegistered
  <2>2. ~(c.kind = "Close" /\ c.flow = f)
    BY <1>3 DEF AgentInv, CloseOfDropIsLast
  <2>3. f \in streams => f \in streams'
    BY <1>3, <1>4, <2>2 DEF CommandRecord
  <2>4. ASSUME NEW j \in DOMAIN commands, commands[j] = Command("Register", f, 0)
        PROVE  f \in streams' \/ \E k \in DOMAIN commands' : commands'[k] = Command("Register", f, 0)
    <3>1. CASE j = 1
      BY <1>3, <1>4, <2>4, <3>1 DEF Command
    <3>2. CASE j # 1
      BY <1>3, <2>4, <3>2
    <3> QED
      BY <3>1, <3>2
  <2> QED
    BY <2>1, <2>3, <2>4
<1>10. CloseOfDropIsLast'
  <2> SUFFICES ASSUME NEW j \in DOMAIN commands', commands'[j].kind = "Close",
                      ~stream[commands'[j].flow].close_sent
               PROVE  /\ stream[commands'[j].flow].state = "dropped"
                      /\ \A i \in DOMAIN commands' : i > j => ~OpensAt(i, commands[j].flow)'
    BY <1>2 DEF CloseOfDropIsLast, OpensAt
  <2>1. j + 1 \in DOMAIN commands /\ commands'[j] = commands[j + 1] /\ j \in Nat
    BY <1>3
  <2>2. /\ stream[commands[j + 1].flow].state = "dropped"
        /\ \A i \in DOMAIN commands : i > j + 1 => ~OpensAt(i, commands[j + 1].flow)
    BY <2>1 DEF AgentInv, CloseOfDropIsLast
  <2>3. ASSUME NEW i \in DOMAIN commands', i > j PROVE ~OpensAt(i, commands[j].flow)'
    <3>1. i \in Nat /\ i + 1 \in DOMAIN commands /\ commands'[i] = commands[i + 1] /\ i + 1 > j + 1
      BY <1>3, <2>1, <2>3
    <3> QED
      BY <2>1, <2>2, <3>1 DEF OpensAt
  <2> QED
    BY <2>1, <2>2, <2>3
<1> QED
  BY <1>6, <1>7, <1>8, <1>9, <1>10 DEF AgentInv

\* An answer ends the entry of a flow whose OpenData is not in the queue any more, and
\* the end of the driver takes the queue with it.
LEMMA AgentDriver ==
    ASSUME TypeOK, AgentInv, DriverEnds \/ \E m \in down : ReceiveAnswer(m)
    PROVE  AgentInv'
<1>1. CASE DriverEnds
  <2>1. DOMAIN commands' = {} /\ driver' = "ended"
    BY <1>1 DEF DriverEnds
  <2> QED
    BY <1>1, <2>1 DEF DriverEnds, proxyVars, AgentInv, OpenDataIsRegistered, OpenedOnce,
         AnswersFollowOpen, StreamIsRegistered, CloseOfDropIsLast, NotQueued, OpensAt
<1>2. ASSUME NEW m \in down, ReceiveAnswer(m) PROVE AgentInv'
  <2>1. /\ UNCHANGED <<stream, commands, driver, up, proxyVars>> /\ down' \subseteq down
        /\ \A f \in streams \ streams' : f = m.flow
        /\ stream[m.flow].written >= 1 /\ NotQueued(m.flow)
    BY <1>2 DEF ReceiveAnswer, AgentInv, AnswersFollowOpen
  <2>2. OpenedOnce' /\ AnswersFollowOpen' /\ CloseOfDropIsLast'
    BY <2>1 DEF proxyVars, AgentInv, OpenedOnce, AnswersFollowOpen, CloseOfDropIsLast, NotQueued, OpensAt
  <2>3. OpenDataIsRegistered'
    BY <2>1 DEF AgentInv, OpenDataIsRegistered, NotQueued, OpensAt
  <2>4. StreamIsRegistered'
    <3>1. \A f \in Flows : stream[f].written = 0 => f # m.flow
      BY <2>1
    <3> QED
      BY <2>1, <3>1 DEF AgentInv, StreamIsRegistered
  <2> QED
    BY <2>2, <2>3, <2>4 DEF AgentInv
<1> QED
  BY <1>1, <1>2
-----------------------------------------------------------------------------
(* The proxy's side. *)

\* A table that lost channels, or none.
LEMMA FewerChannels ==
    ASSUME FlowsConstants, TypeOK, NEW D, D \subseteq DOMAIN channels,
           Cardinality(DOMAIN channels) <= MAX_FLOWS
    PROVE  IsFiniteSet(D) /\ Cardinality(D) <= MAX_FLOWS
<1>1. IsFiniteSet(1..MaxFlows)
  BY FS_Interval DEF FlowsConstants
<1>2. IsFiniteSet(DOMAIN channels)
  BY <1>1, FS_Subset DEF TypeOK, Flows
<1>3. /\ IsFiniteSet(D) /\ Cardinality(D) <= Cardinality(DOMAIN channels)
      /\ Cardinality(DOMAIN channels) \in Nat /\ Cardinality(D) \in Nat
  BY <1>2, FS_Subset, FS_CardinalityType
<1> QED
  BY <1>3 DEF FlowsConstants

LEMMA ProxySession ==
    ASSUME FlowsConstants, TypeOK, AgentInv, ProxyInv, Session
    PROVE  ProxyInv'
<1>1. /\ events \in Seq(EventRecord) /\ \A g : Serves(g) => g \in DOMAIN channels
      /\ DOMAIN channels \subseteq opened /\ DOMAIN workers \subseteq opened
      /\ Cardinality(DOMAIN channels) <= MAX_FLOWS
  BY TypeOfRecords DEF ProxyInv, WorkersWithinLimit, EventsFollowWorkers, Serves
<1>2. ASSUME NEW m \in up, OpenDataRefused(m) PROVE ProxyInv'
  BY <1>2 DEF OpenDataRefused, proxyVars, ProxyInv, WorkersWithinLimit, DeadChannelIsKnown,
              EventsFollowWorkers, Serves
<1>3. ASSUME NEW m \in up, OpenDataCreates(m) PROVE ProxyInv'
  <2> DEFINE f == m.flow
  <2>1. /\ f \notin DOMAIN channels /\ f \notin opened
        /\ DOMAIN channels' = DOMAIN channels \cup {f} /\ DOMAIN workers' = DOMAIN workers \cup {f}
        /\ \A g \in DOMAIN channels : channels'[g] = channels[g]
        /\ \A g : Serves(g)' <=> Serves(g) \/ g = f
        /\ opened' = opened \cup {f} /\ events' = events
    BY <1>1, <1>3 DEF OpenDataCreates, With, AgentInv, OpenedOnce, Serves, Spawned
  <2>2. Cardinality(DOMAIN channels') <= MAX_FLOWS
    <3>1. IsFiniteSet(DOMAIN channels)
      BY <1>1, FewerChannels
    <3>2. /\ Cardinality(DOMAIN channels') = Cardinality(DOMAIN channels) + 1
          /\ Cardinality(DOMAIN channels) \in Nat
      BY <2>1, <3>1, FS_AddElement, FS_CardinalityType
    <3>3. Cardinality(DOMAIN channels) < MAX_FLOWS
      BY <1>3 DEF OpenDataCreates
    <3> QED
      BY <3>2, <3>3 DEF FlowsConstants
  <2>3. WorkersWithinLimit' /\ EventsFollowWorkers'
    BY <1>1, <2>1, <2>2 DEF ProxyInv, WorkersWithinLimit, EventsFollowWorkers
  <2>4. DeadChannelIsKnown'
    BY <2>1 DEF ProxyInv, DeadChannelIsKnown
  <2> QED
    BY <2>3, <2>4 DEF ProxyInv
<1>4. ASSUME NEW m \in up, HandleData(m) PROVE ProxyInv'
  <2>1. /\ DOMAIN channels' = DOMAIN channels /\ DOMAIN workers' = DOMAIN workers
        /\ \A g \in DOMAIN channels : ~channels[g] => ~channels'[g]
        /\ \A g : Serves(g)' <=> Serves(g)
        /\ events' = events /\ opened' = opened
    BY <1>4 DEF HandleData, Serves
  <2>2. WorkersWithinLimit' /\ EventsFollowWorkers'
    BY <1>1, <2>1 DEF ProxyInv, WorkersWithinLimit, EventsFollowWorkers
  <2>3. DeadChannelIsKnown'
    BY <2>1 DEF ProxyInv, DeadChannelIsKnown
  <2> QED
    BY <2>2, <2>3 DEF ProxyInv
<1>5. ASSUME NEW m \in up, HandleClose(m) PROVE ProxyInv'
  <2>1. /\ DOMAIN channels' = DOMAIN channels \ {m.flow} /\ DOMAIN workers' = DOMAIN workers
        /\ \A g \in DOMAIN channels' : channels'[g] = channels[g]
        /\ \A g : Serves(g)' <=> Serves(g) /\ g # m.flow
        /\ events' = events /\ opened' = opened
    BY <1>1, <1>5 DEF HandleClose, Without, Aborted, Over, Serves
  <2>2. Cardinality(DOMAIN channels') <= MAX_FLOWS
    BY <1>1, <2>1, FewerChannels
  <2>3. WorkersWithinLimit' /\ EventsFollowWorkers'
    BY <1>1, <2>1, <2>2 DEF ProxyInv, WorkersWithinLimit, EventsFollowWorkers
  <2>4. DeadChannelIsKnown'
    BY <2>1 DEF ProxyInv, DeadChannelIsKnown
  <2> QED
    BY <2>3, <2>4 DEF ProxyInv
<1>6. CASE HandleEvent
  <2> DEFINE e == Head(events)
  <2>1. /\ e = events[1] /\ 1 \in DOMAIN events /\ e \in EventRecord
        /\ \A i \in DOMAIN events' : i + 1 \in DOMAIN events /\ events'[i] = events[i + 1]
        /\ \A i \in DOMAIN events : i # 1 => i - 1 \in DOMAIN events' /\ events'[i - 1] = events[i]
    BY <1>1, <1>6, Received DEF HandleEvent
  <2>2. /\ workers' = workers /\ opened' = opened /\ \A g : Serves(g)' <=> Serves(g)
        /\ DOMAIN channels' \subseteq DOMAIN channels
        /\ \A g \in DOMAIN channels \ {e.flow} : g \in DOMAIN channels' /\ channels'[g] = channels[g]
        /\ e.flow \in DOMAIN channels =>
             /\ e.kind = "ConnectFailed" => DOMAIN channels' = DOMAIN channels /\ ~channels'[e.flow]
             /\ e.kind = "Close" => e.flow \notin DOMAIN channels'
             /\ e.kind = "ConnectOk" => channels' = channels
        /\ e.flow \notin DOMAIN channels => channels' = channels
    BY <1>6 DEF HandleEvent, Without, Serves
  <2> HIDE DEF e
  <2>3. e.kind \in {"ConnectOk", "ConnectFailed", "Close"}
    BY <2>1 DEF EventRecord
  <2>4. e.kind = "Close" => ~Serves(e.flow)
    BY <2>1 DEF ProxyInv, EventsFollowWorkers
  <2>5. \A g : Serves(g)' => g \in DOMAIN channels'
    BY <1>1, <2>2, <2>3, <2>4
  <2>6. Cardinality(DOMAIN channels') <= MAX_FLOWS
    BY <1>1, <2>2, FewerChannels
  <2>7. EventsFollowWorkers'
    BY <1>1, <2>1, <2>2 DEF ProxyInv, EventsFollowWorkers
  <2>8. DeadChannelIsKnown'
    <3> SUFFICES ASSUME NEW g \in DOMAIN channels', ~Serves(g), channels'[g]
                 PROVE  \E i \in DOMAIN events' : /\ events'[i].flow = g
                                                  /\ events'[i].kind \in {"ConnectFailed", "Close"}
      BY <2>2 DEF DeadChannelIsKnown
    <3>1. g \in DOMAIN channels /\ channels[g] /\ (g = e.flow => e.kind = "ConnectOk")
      BY <2>2, <2>3
    <3>2. PICK i \in DOMAIN events : events[i].flow = g /\ events[i].kind \in {"ConnectFailed", "Close"}
      BY <3>1 DEF ProxyInv, DeadChannelIsKnown
    <3>3. i # 1
      BY <2>1, <3>1, <3>2
    <3> QED
      BY <2>1, <3>2, <3>3
  <2> QED
    BY <2>5, <2>6, <2>7, <2>8 DEF ProxyInv, WorkersWithinLimit
<1>7. CASE SessionEnds
  <2>1. /\ DOMAIN channels' = {} /\ DOMAIN workers' = DOMAIN workers /\ DOMAIN events' = {}
        /\ opened' = opened /\ \A g : ~Serves(g)'
    BY <1>7 DEF SessionEnds, Aborted, Over, Serves
  <2>2. Cardinality(DOMAIN channels') <= MAX_FLOWS
    BY <2>1, FS_EmptySet DEF FlowsConstants
  <2> QED
    BY <1>1, <2>1, <2>2 DEF ProxyInv, WorkersWithinLimit, DeadChannelIsKnown, EventsFollowWorkers
<1> QED
  BY <1>2, <1>3, <1>4, <1>5, <1>6, <1>7 DEF Session

LEMMA ProxyWorker ==
    ASSUME TypeOK, ProxyInv, NEW f \in DOMAIN workers, Worker(f)
    PROVE  ProxyInv'
<1>1. /\ events \in Seq(EventRecord) /\ \A g : Serves(g) => g \in DOMAIN channels
      /\ DOMAIN workers \subseteq opened /\ f \in Flows
  BY TypeOfRecords DEF ProxyInv, WorkersWithinLimit, EventsFollowWorkers, Serves
<1>2. ASSUME DOMAIN workers' \subseteq DOMAIN workers, \A g : Serves(g)' <=> Serves(g),
             UNCHANGED <<channels, events, opened>>
      PROVE  ProxyInv'
  BY <1>1, <1>2 DEF ProxyInv, WorkersWithinLimit, DeadChannelIsKnown, EventsFollowWorkers
<1>3. CASE TargetAnswers(f) \/ WorkerForwards(f) \/ TimeoutPasses(f)
  <2>1. /\ DOMAIN workers' = DOMAIN workers /\ \A g \in DOMAIN workers \ {f} : workers'[g] = workers[g]
        /\ workers[f].phase # "over" /\ workers'[f].phase # "over"
        /\ UNCHANGED <<channels, events, opened>>
    <3>1. workers[f] \in WorkerRecord
      BY TypeOfRecords
    <3> QED
      BY <1>3, <3>1 DEF TargetAnswers, WorkerForwards, TimeoutPasses, Relaying, WorkerRecord
  <2> QED
    BY <1>2, <2>1 DEF Serves
<1>4. CASE TaskDropped(f)
  BY <1>2, <1>4 DEF TaskDropped, Without, Serves
<1>5. ASSUME NEW k \in {"ConnectOk", "ConnectFailed", "Close"}, events' = Append(events, Answer(k, f)),
             DOMAIN workers' = DOMAIN workers,
             \A g : Serves(g)' <=> Serves(g) /\ (k = "ConnectOk" \/ g # f),
             UNCHANGED <<channels, opened>>
      PROVE  ProxyInv'
  <2> DEFINE L == Len(events) + 1
  <2>1. Answer(k, f) \in EventRecord /\ Answer(k, f).kind = k /\ Answer(k, f).flow = f
    BY <1>1 DEF Answer, EventRecord
  <2>2. /\ DOMAIN events' = DOMAIN events \cup {L} /\ events'[L] = Answer(k, f)
        /\ \A i \in DOMAIN events : events'[i] = events[i]
    BY <1>1, <1>5, <2>1, Sent
  <2> HIDE DEF L
  <2>3. WorkersWithinLimit' /\ EventsFollowWorkers'
    BY <1>1, <1>5, <2>1, <2>2 DEF ProxyInv, WorkersWithinLimit, EventsFollowWorkers
  <2>4. DeadChannelIsKnown'
    BY <1>5, <2>1, <2>2 DEF ProxyInv, DeadChannelIsKnown
  <2> QED
    BY <2>3, <2>4 DEF ProxyInv
<1>6. CASE WorkerConnects(f)
  <2>1. DOMAIN workers' = DOMAIN workers /\ \A g : Serves(g)' <=> Serves(g)
    <3>1. workers[f] \in WorkerRecord
      BY TypeOfRecords
    <3> QED
      BY <1>6, <3>1 DEF WorkerConnects, Serves, WorkerRecord
  <2> QED
    BY <1>5, <1>6, <2>1 DEF WorkerConnects
<1>7. CASE WorkerFails(f) \/ WorkerEnds(f)
  <2>1. DOMAIN workers' = DOMAIN workers /\ \A g : Serves(g)' <=> Serves(g) /\ g # f
    BY <1>7 DEF WorkerFails, WorkerEnds, Over, Serves
  <2>2. PICK k \in {"ConnectFailed", "Close"} : events' = Append(events, Answer(k, f))
    BY <1>7 DEF WorkerFails, WorkerEnds
  <2> QED
    BY <1>5, <1>7, <2>1, <2>2 DEF WorkerFails, WorkerEnds
<1> QED
  BY <1>3, <1>4, <1>6, <1>7 DEF Worker
-----------------------------------------------------------------------------
(* The whole. *)

LEMMA FlowsInit == ASSUME FlowsConstants PROVE Init => FlowsInv
<1> SUFFICES ASSUME Init PROVE FlowsInv
  OBVIOUS
<1>1. /\ DOMAIN channels = {} /\ DOMAIN workers = {} /\ DOMAIN events = {} /\ DOMAIN commands = {}
      /\ up = {} /\ down = {} /\ opened = {} /\ \A f \in Flows : stream[f].state = "none"
  BY DEF Init
<1>2. AgentInv
  BY <1>1 DEF AgentInv, OpenDataIsRegistered, OpenedOnce, AnswersFollowOpen, StreamIsRegistered,
              CloseOfDropIsLast
<1>3. ProxyInv
  BY <1>1, FS_EmptySet DEF ProxyInv, WorkersWithinLimit, DeadChannelIsKnown, EventsFollowWorkers, Serves,
              FlowsConstants
<1> QED
  BY <1>2, <1>3, TypeInit DEF FlowsInv

\* One step per process: the streams, the driver, the session task, the workers.
LEMMA FlowsStep == ASSUME FlowsConstants PROVE FlowsInv /\ [Next]_vars => FlowsInv'
<1> SUFFICES ASSUME FlowsInv, [Next]_vars PROVE FlowsInv'
  OBVIOUS
<1>1. TypeOK /\ AgentInv /\ ProxyInv
  BY DEF FlowsInv
<1>2. ASSUME UNCHANGED proxyVars PROVE ProxyInv'
  BY <1>1, <1>2 DEF proxyVars, ProxyInv, WorkersWithinLimit, DeadChannelIsKnown, EventsFollowWorkers, Serves
<1>3. ASSUME NEW f \in Flows, Stream(f) PROVE FlowsInv'
  BY <1>1, <1>2, <1>3, TypeAgent, AgentStream
     DEF FlowsInv, Stream, ConnectToTarget, Write, Shutdown, DropStream
<1>4. CASE HandleCommand
  BY <1>1, <1>2, <1>4, TypeAgent, AgentCommand DEF FlowsInv, HandleCommand
<1>5. CASE DriverEnds \/ \E m \in down : ReceiveAnswer(m)
  BY <1>1, <1>2, <1>5, TypeAgent, AgentDriver DEF FlowsInv, DriverEnds, ReceiveAnswer
<1>6. CASE Session
  BY <1>1, <1>6, TypeProxy, AgentSession, ProxySession DEF FlowsInv
<1>7. ASSUME NEW f \in DOMAIN workers, Worker(f) PROVE FlowsInv'
  BY <1>1, <1>7, TypeProxy, AgentWorker, ProxyWorker DEF FlowsInv
<1>8. CASE UNCHANGED vars
  <2>1. UNCHANGED proxyVars /\ UNCHANGED agentVars /\ up' = up /\ down' = down /\ opened' = opened
    BY <1>8 DEF vars, proxyVars
  <2>2. TypeOK'
    BY <1>1, <2>1 DEF proxyVars, agentVars, TypeOK
  <2>3. AgentInv'
    BY <1>1, <2>1, ProxyKeepsAgent
  <2> QED
    BY <1>2, <2>1, <2>2, <2>3 DEF FlowsInv
<1> QED
  BY <1>3, <1>4, <1>5, <1>6, <1>7, <1>8 DEF Next, BothEnded

\* Whatever order Close, OpenData, Data and the workers' events come in, whatever is
\* lost: the channels are within udp_session_max_flows, a task whose channel is gone, and
\* its target socket with it, only waits to be dropped, a channel whose worker is over is
\* known to be dead or has its event on the way, and the driver never discards a flow's
\* first packet.
THEOREM ChannelsAndWorkers == ASSUME FlowsConstants PROVE Spec => []ChannelsMatchWorkers
<1>1. Init => FlowsInv
  BY FlowsInit
<1>2. FlowsInv /\ [Next]_vars => FlowsInv'
  BY FlowsStep
<1>3. FlowsInv => ChannelsMatchWorkers
  BY DEF FlowsInv, AgentInv, ProxyInv, ChannelsMatchWorkers
<1> QED
  BY <1>1, <1>2, <1>3, PTL DEF Spec

\* A flow that had a channel and lost it never gets one again: its first packet is
\* sent to the target once.
THEOREM FlowIsOpenedOnce == ASSUME FlowsConstants PROVE Spec => NoFlowIsReopened
<1> DEFINE Kept == \A f \in opened : f \notin DOMAIN channels => f \notin DOMAIN channels'
<1>1. Init => FlowsInv
  BY FlowsInit
<1>2. FlowsInv /\ [Next]_vars => FlowsInv'
  BY FlowsStep
<1>3. FlowsInv /\ [Next]_vars => [Kept]_vars
  <2> SUFFICES ASSUME FlowsInv, Next PROVE Kept
    OBVIOUS
  <2>1. ASSUME NEW m \in up, OpenDataCreates(m) PROVE Kept
    BY <2>1 DEF OpenDataCreates, With, FlowsInv, AgentInv, OpenedOnce
  <2>2. ASSUME DOMAIN channels' \subseteq DOMAIN channels PROVE Kept
    BY <2>2
  <2>3. ASSUME NEW m \in up, OpenDataRefused(m) \/ HandleData(m) \/ HandleClose(m) PROVE Kept
    BY <2>2, <2>3 DEF OpenDataRefused, HandleData, HandleClose, Without, proxyVars
  <2>4. CASE HandleEvent \/ SessionEnds
    BY <2>2, <2>4 DEF HandleEvent, SessionEnds, Without
  <2>5. ASSUME NEW f \in DOMAIN workers, Worker(f) PROVE Kept
    BY <2>2, <2>5 DEF Worker, WorkerConnects, WorkerFails, WorkerForwards, TargetAnswers,
                      TimeoutPasses, WorkerEnds, TaskDropped
  <2>6. CASE UNCHANGED proxyVars
    BY <2>2, <2>6 DEF proxyVars
  <2>7. ASSUME NEW f \in Flows, Stream(f) PROVE UNCHANGED proxyVars
    BY <2>7 DEF Stream, ConnectToTarget, Write, Shutdown, DropStream
  <2>8. ASSUME HandleCommand \/ DriverEnds \/ BothEnded \/ \E m \in down : ReceiveAnswer(m)
        PROVE  UNCHANGED proxyVars
    BY <2>8 DEF HandleCommand, DriverEnds, ReceiveAnswer, BothEnded, vars
  <2> QED
    BY <2>1, <2>3, <2>4, <2>5, <2>6, <2>7, <2>8 DEF Next, Session
<1> QED
  BY <1>1, <1>2, <1>3, PTL DEF Spec, NoFlowIsReopened
-----------------------------------------------------------------------------
(* The flows of a shared relay (UdpRelayFlows). *)

\* Counting is the same inside the instance.
LEMMA SameCount == ASSUME NEW S PROVE Relay!Cardinality(S) = Cardinality(S)
BY Zenon DEF Relay!Cardinality, Cardinality

\* A flow task that is not gone yet.
FlowTaskRecord == [flow : FlowIds, phase : {"relaying", "reporting"}, queue : 0..CHANNEL_SIZE]

\* Task numbers are handed out once, so a new task is neither a task nor named by
\* an entry yet.
NumbersAreOld ==
    /\ \A t \in DOMAIN relay_tasks : t <= spawned
    /\ \A f \in DOMAIN flows : flows[f] <= spawned

\* The main loop dispatches only while it runs, and only to a flow of the table;
\* when it ends the table goes with it, so that nobody waits for the reports.
LoopOwnsTable ==
    /\ dispatching # Relay!Idle => dispatching \in DOMAIN flows /\ relay = "running"
    /\ relay = "ended" => DOMAIN flows = {}

\* The inductive invariant.  The table is finite because it is within its limit.
RelayInv ==
    /\ Relay!RelayTableIsTrue
    /\ IsFiniteSet(DOMAIN flows)
    /\ NumbersAreOld
    /\ LoopOwnsTable
-----------------------------------------------------------------------------
\* The table after an entry was added or removed, finite and counted.
LEMMA TableGrows ==
    ASSUME NEW f, NEW k, NEW v, IsFiniteSet(DOMAIN f), k \notin DOMAIN f
    PROVE  /\ IsFiniteSet(DOMAIN Relay!With(f, k, v))
           /\ Cardinality(DOMAIN Relay!With(f, k, v)) = Cardinality(DOMAIN f) + 1
  BY FS_AddElement DEF Relay!With

LEMMA TableShrinks ==
    ASSUME NEW f, NEW K, IsFiniteSet(DOMAIN f)
    PROVE  /\ IsFiniteSet(DOMAIN Relay!Without(f, K))
           /\ Cardinality(DOMAIN Relay!Without(f, K)) <= Cardinality(DOMAIN f)
<1>1. DOMAIN Relay!Without(f, K) \subseteq DOMAIN f
  BY DEF Relay!Without
<1> QED
  BY <1>1, FS_Subset

\* The relay starts with an empty table and no tasks.
LEMMA RelayInit == ASSUME Relay!RelayConstants PROVE Relay!Init => RelayInv
<1> SUFFICES ASSUME Relay!Init PROVE RelayInv
  OBVIOUS
<1>1. DOMAIN flows = {} /\ DOMAIN relay_tasks = {} /\ DOMAIN flow_done = {}
  BY DEF Relay!Init
<1>2. IsFiniteSet({}) /\ Cardinality({}) = 0
  BY FS_EmptySet
<1>3. Relay!TypeOK
  BY <1>1 DEF Relay!Init, Relay!TypeOK, Relay!RelayConstants
<1>4. Relay!DeadEntryIsReported /\ Relay!TableWithinLimit /\ IsFiniteSet(DOMAIN flows)
  BY <1>1, <1>2, SameCount DEF Relay!DeadEntryIsReported, Relay!TableWithinLimit, Relay!RelayConstants
<1> QED
  BY <1>1, <1>3, <1>4 DEF RelayInv, Relay!RelayTableIsTrue, NumbersAreOld, LoopOwnsTable, Relay!Init
-----------------------------------------------------------------------------
\* A step that leaves the table, the reports and the number of tasks alone and changes
\* tasks only in their phases and queues keeps the invariant.
LEMMA TaskChanges ==
    ASSUME RelayInv, NEW t \in DOMAIN relay_tasks,
           relay_tasks[t]' \in FlowTaskRecord,
           relay_tasks[t].flow = relay_tasks[t]'.flow,
           DOMAIN relay_tasks' = DOMAIN relay_tasks,
           \A s \in DOMAIN relay_tasks \ {t} : relay_tasks'[s] = relay_tasks[s],
           UNCHANGED <<relay, dispatching, flows, spawned, flow_done, responses>>
    PROVE  RelayInv'
<1>1. Relay!TypeOK'
  BY DEF RelayInv, Relay!RelayTableIsTrue, Relay!TypeOK, FlowTaskRecord
<1>2. Relay!DeadEntryIsReported' /\ Relay!TableWithinLimit'
  BY DEF RelayInv, Relay!RelayTableIsTrue, Relay!DeadEntryIsReported, Relay!TableWithinLimit
<1> QED
  BY <1>1, <1>2 DEF RelayInv, Relay!RelayTableIsTrue, NumbersAreOld, LoopOwnsTable

\* The operations of the main loop on the table.
LEMMA CreateFlowKeeps ==
    ASSUME Relay!RelayConstants, RelayInv, NEW f \in FlowIds, Relay!CreateFlow(f)
    PROVE  RelayInv'
<1> DEFINE new == spawned + 1
<1>1. /\ flows' = Relay!With(flows, f, new) /\ f \notin DOMAIN flows
      /\ relay_tasks' = Relay!With(relay_tasks, new, [flow |-> f, phase |-> "relaying", queue |-> 0])
      /\ spawned' = new /\ new \in Relay!Tasks /\ spawned \in Nat
  BY DEF Relay!CreateFlow, RelayInv, Relay!RelayTableIsTrue, Relay!TypeOK, Relay!RelayConstants, Relay!Tasks
<1>2. new \notin DOMAIN relay_tasks /\ \A g \in DOMAIN flows : flows[g] # new
  BY <1>1 DEF RelayInv, NumbersAreOld, Relay!RelayTableIsTrue, Relay!TypeOK, Relay!Tasks
<1>3. Relay!TypeOK'
  BY <1>1 DEF Relay!CreateFlow, RelayInv, Relay!RelayTableIsTrue, Relay!TypeOK, Relay!With, Relay!RelayConstants, Relay!Tasks
<1>4. Relay!DeadEntryIsReported'
  BY <1>1, <1>2 DEF Relay!CreateFlow, RelayInv, Relay!RelayTableIsTrue, Relay!DeadEntryIsReported, Relay!With
<1>5. Relay!TableWithinLimit' /\ IsFiniteSet(DOMAIN flows')
  <2>1. Cardinality(DOMAIN flows) \in Nat /\ Cardinality(DOMAIN flows) < MAX_FLOWS
    BY FS_CardinalityType, SameCount DEF RelayInv, Relay!CreateFlow
  <2> QED
    BY <1>1, <2>1, TableGrows, SameCount DEF RelayInv, Relay!TableWithinLimit, Relay!RelayConstants
<1>6. NumbersAreOld'
  BY <1>1 DEF RelayInv, NumbersAreOld, Relay!With, Relay!RelayTableIsTrue, Relay!TypeOK, Relay!Tasks
<1>7. LoopOwnsTable'
  BY <1>1 DEF Relay!CreateFlow, Relay!MainLoop, RelayInv, LoopOwnsTable, Relay!With
<1> QED
  BY <1>3, <1>4, <1>5, <1>6, <1>7 DEF RelayInv, Relay!RelayTableIsTrue

LEMMA TrySendKeeps ==
    ASSUME Relay!RelayConstants, RelayInv, Relay!TrySend
    PROVE  RelayInv'
<1> DEFINE f == dispatching
           t == flows[f]
<1>1. f \in DOMAIN flows /\ relay' = "running" /\ dispatching' = Relay!Idle
  BY DEF Relay!TrySend, RelayInv, LoopOwnsTable
<1>2. /\ DOMAIN relay_tasks' = DOMAIN relay_tasks
      /\ \A s \in DOMAIN relay_tasks : /\ relay_tasks'[s] \in FlowTaskRecord
                                 /\ relay_tasks'[s].flow = relay_tasks[s].flow
  <2>1. \A s \in DOMAIN relay_tasks : relay_tasks[s] \in FlowTaskRecord
    BY DEF RelayInv, Relay!RelayTableIsTrue, Relay!TypeOK, FlowTaskRecord
  <2>2. CASE t \in DOMAIN relay_tasks /\ relay_tasks[t].queue < CHANNEL_SIZE
    <3>1. relay_tasks' = [relay_tasks EXCEPT ![t].queue = relay_tasks[t].queue + 1]
      BY <2>2 DEF Relay!TrySend
    <3>2. relay_tasks[t].queue + 1 \in 0..CHANNEL_SIZE
      BY <2>1, <2>2 DEF FlowTaskRecord, Relay!RelayConstants
    <3> QED
      BY <2>1, <2>2, <3>1, <3>2 DEF FlowTaskRecord
  <2>3. CASE ~(t \in DOMAIN relay_tasks /\ relay_tasks[t].queue < CHANNEL_SIZE)
    BY <2>1, <2>3 DEF Relay!TrySend
  <2> QED
    BY <2>2, <2>3
<1>3. flows' = IF t \in DOMAIN relay_tasks THEN flows ELSE Relay!Without(flows, {f})
  BY DEF Relay!TrySend
<1>4. /\ DOMAIN flows' \subseteq DOMAIN flows
      /\ \A g \in DOMAIN flows' : flows'[g] = flows[g]
  BY <1>3 DEF Relay!Without
<1>5. Relay!TypeOK'
  BY <1>1, <1>2, <1>4 DEF Relay!TrySend, RelayInv, Relay!RelayTableIsTrue, Relay!TypeOK, FlowTaskRecord
<1>6. Relay!DeadEntryIsReported'
  BY <1>2, <1>4, ZenonT(60) DEF Relay!TrySend, RelayInv, Relay!RelayTableIsTrue, Relay!DeadEntryIsReported
<1>7. Relay!TableWithinLimit' /\ IsFiniteSet(DOMAIN flows')
  <2>1. /\ IsFiniteSet(DOMAIN flows') /\ Cardinality(DOMAIN flows') <= Cardinality(DOMAIN flows)
        /\ Cardinality(DOMAIN flows) \in Nat /\ Cardinality(DOMAIN flows') \in Nat
    BY <1>4, FS_Subset, FS_CardinalityType DEF RelayInv
  <2> QED
    BY <2>1, SameCount DEF RelayInv, Relay!RelayTableIsTrue, Relay!TableWithinLimit, Relay!RelayConstants
<1>8. NumbersAreOld'
  BY <1>2, <1>4 DEF Relay!TrySend, RelayInv, NumbersAreOld
<1>9. LoopOwnsTable'
  BY <1>1 DEF LoopOwnsTable
<1> QED
  BY <1>5, <1>6, <1>7, <1>8, <1>9 DEF RelayInv, Relay!RelayTableIsTrue

LEMMA HandleDoneKeeps ==
    ASSUME Relay!RelayConstants, RelayInv, Relay!HandleDone
    PROVE  RelayInv'
<1> DEFINE f == Head(flow_done)
<1>1. flow_done \in Seq(FlowIds) /\ flow_done # << >> /\ flow_done' = Tail(flow_done)
  BY DEF Relay!HandleDone, RelayInv, Relay!RelayTableIsTrue, Relay!TypeOK
<1>2. /\ flow_done' \in Seq(FlowIds) /\ Len(flow_done') <= Len(flow_done)
      /\ \A i \in DOMAIN flow_done : flow_done[i] # f =>
            \E j \in DOMAIN flow_done' : flow_done'[j] = flow_done[i]
  <2>1. ASSUME NEW i \in DOMAIN flow_done, flow_done[i] # f
        PROVE  i - 1 \in DOMAIN flow_done' /\ flow_done'[i - 1] = flow_done[i]
    BY <1>1, <2>1
  <2>2. flow_done' \in Seq(FlowIds) /\ Len(flow_done') <= Len(flow_done)
    BY <1>1
  <2> QED
    BY <2>1, <2>2
<1>3. /\ DOMAIN flows' = DOMAIN flows \ {f}
      /\ \A g \in DOMAIN flows' : flows'[g] = flows[g]
  BY DEF Relay!HandleDone, Relay!Without
<1>4. Relay!TypeOK'
  <2>1. Len(flow_done') <= CHANNEL_SIZE
    BY <1>1, <1>2 DEF RelayInv, Relay!RelayTableIsTrue, Relay!TypeOK, Relay!RelayConstants
  <2> QED
    BY <2>1, <1>2, <1>3 DEF Relay!HandleDone, RelayInv, Relay!RelayTableIsTrue, Relay!TypeOK
<1>5. Relay!DeadEntryIsReported'
  <2> SUFFICES ASSUME NEW g \in DOMAIN flows'
               PROVE  /\ flows[g] \in DOMAIN relay_tasks \/ \E i \in DOMAIN flow_done' : flow_done'[i] = g
                      /\ flows[g] \in DOMAIN relay_tasks => relay_tasks[flows[g]].flow = g
    BY <1>3 DEF Relay!DeadEntryIsReported, Relay!HandleDone
  <2>1. g \in DOMAIN flows /\ g # f
    BY <1>3
  <2>2. CASE flows[g] \in DOMAIN relay_tasks
    BY <2>1, <2>2 DEF RelayInv, Relay!RelayTableIsTrue, Relay!DeadEntryIsReported
  <2>3. CASE flows[g] \notin DOMAIN relay_tasks
    <3>1. PICK i \in DOMAIN flow_done : flow_done[i] = g
      BY <2>1, <2>3 DEF RelayInv, Relay!RelayTableIsTrue, Relay!DeadEntryIsReported
    <3> QED
      BY <1>2, <2>1, <2>3, <3>1
  <2> QED
    BY <2>2, <2>3
<1>6. Relay!TableWithinLimit' /\ IsFiniteSet(DOMAIN flows')
  <2>1. /\ IsFiniteSet(DOMAIN flows') /\ Cardinality(DOMAIN flows') <= Cardinality(DOMAIN flows)
        /\ Cardinality(DOMAIN flows) \in Nat /\ Cardinality(DOMAIN flows') \in Nat
    BY <1>3, FS_Subset, FS_CardinalityType DEF RelayInv
  <2> QED
    BY <2>1, SameCount DEF RelayInv, Relay!RelayTableIsTrue, Relay!TableWithinLimit, Relay!RelayConstants
<1>7. NumbersAreOld' /\ LoopOwnsTable'
  BY <1>3 DEF Relay!HandleDone, Relay!MainLoop, RelayInv, NumbersAreOld, LoopOwnsTable
<1> QED
  BY <1>4, <1>5, <1>6, <1>7 DEF RelayInv, Relay!RelayTableIsTrue

LEMMA RelayEndsKeeps ==
    ASSUME Relay!RelayConstants, RelayInv, Relay!RelayEnds
    PROVE  RelayInv'
<1>1. DOMAIN flows' = {} /\ IsFiniteSet({}) /\ Cardinality({}) = 0
  BY FS_EmptySet DEF Relay!RelayEnds
<1>2. Relay!TypeOK'
  BY <1>1 DEF Relay!RelayEnds, RelayInv, Relay!RelayTableIsTrue, Relay!TypeOK, Relay!RelayConstants
<1>3. Relay!DeadEntryIsReported' /\ Relay!TableWithinLimit'
  BY <1>1, SameCount DEF Relay!DeadEntryIsReported, Relay!TableWithinLimit, Relay!RelayConstants
<1>4. NumbersAreOld' /\ LoopOwnsTable'
  BY <1>1 DEF Relay!RelayEnds, Relay!MainLoop, RelayInv, NumbersAreOld, LoopOwnsTable
<1> QED
  BY <1>1, <1>2, <1>3, <1>4 DEF RelayInv, Relay!RelayTableIsTrue
-----------------------------------------------------------------------------
\* A task that ends queues its report before it is gone: what keeps a dead entry
\* from being forgotten.
LEMMA ReportDoneKeeps ==
    ASSUME Relay!RelayConstants, RelayInv, NEW t \in DOMAIN relay_tasks, Relay!ReportDone(t)
    PROVE  RelayInv'
<1>1. /\ DOMAIN relay_tasks' = DOMAIN relay_tasks \ {t}
      /\ \A s \in DOMAIN relay_tasks' : relay_tasks'[s] = relay_tasks[s]
  BY DEF Relay!ReportDone, Relay!Without
<1>2. /\ flow_done \in Seq(FlowIds) /\ Len(flow_done) \in Nat /\ Len(flow_done) <= CHANNEL_SIZE
      /\ relay_tasks[t].flow \in FlowIds
  BY DEF RelayInv, Relay!RelayTableIsTrue, Relay!TypeOK
<1>3. CASE relay = "ended"
  <2>1. flow_done' = flow_done /\ DOMAIN flows' = {} /\ flows' = flows
    BY <1>3 DEF Relay!ReportDone, RelayInv, LoopOwnsTable
  <2>2. Relay!TypeOK'
    BY <1>1, <2>1 DEF Relay!ReportDone, RelayInv, Relay!RelayTableIsTrue, Relay!TypeOK
  <2> QED
    BY <1>1, <2>1, <2>2 DEF Relay!ReportDone, RelayInv, Relay!RelayTableIsTrue, Relay!DeadEntryIsReported,
                            Relay!TableWithinLimit, NumbersAreOld, LoopOwnsTable
<1>4. CASE relay = "running"
  <2>1. flow_done' = Append(flow_done, relay_tasks[t].flow) /\ Len(flow_done) < CHANNEL_SIZE
    BY <1>4 DEF Relay!ReportDone
  <2>2. /\ flow_done' \in Seq(FlowIds) /\ Len(flow_done') <= CHANNEL_SIZE
        /\ \A i \in DOMAIN flow_done : i \in DOMAIN flow_done' /\ flow_done'[i] = flow_done[i]
        /\ \E i \in DOMAIN flow_done' : flow_done'[i] = relay_tasks[t].flow
    <3>1. Len(flow_done) + 1 \in DOMAIN flow_done' /\ flow_done'[Len(flow_done) + 1] = relay_tasks[t].flow
      BY <1>2, <2>1
    <3> QED
      BY <1>2, <2>1, <3>1 DEF Relay!RelayConstants
  <2>3. Relay!TypeOK'
    BY <1>1, <2>2 DEF Relay!ReportDone, RelayInv, Relay!RelayTableIsTrue, Relay!TypeOK
  <2>4. Relay!DeadEntryIsReported'
    <3> SUFFICES ASSUME NEW f \in DOMAIN flows
                 PROVE  /\ flows[f] \in DOMAIN relay_tasks' \/ \E i \in DOMAIN flow_done' : flow_done'[i] = f
                        /\ flows[f] \in DOMAIN relay_tasks' => relay_tasks'[flows[f]].flow = f
      BY DEF Relay!ReportDone, Relay!DeadEntryIsReported
    <3>1. /\ flows[f] \in DOMAIN relay_tasks \/ \E i \in DOMAIN flow_done : flow_done[i] = f
          /\ flows[f] \in DOMAIN relay_tasks => relay_tasks[flows[f]].flow = f
      BY DEF RelayInv, Relay!RelayTableIsTrue, Relay!DeadEntryIsReported
    <3> QED
      BY <1>1, <2>2, <3>1
  <2> QED
    BY <1>1, <2>3, <2>4 DEF Relay!ReportDone, RelayInv, Relay!RelayTableIsTrue,
                            Relay!TableWithinLimit, NumbersAreOld, LoopOwnsTable
<1> QED
  BY <1>3, <1>4 DEF RelayInv, Relay!RelayTableIsTrue, Relay!TypeOK

LEMMA FlowTaskKeeps ==
    ASSUME Relay!RelayConstants, RelayInv, NEW t \in DOMAIN relay_tasks, Relay!FlowTask(t)
    PROVE  RelayInv'
<1>1. relay_tasks[t] \in FlowTaskRecord
  BY DEF RelayInv, Relay!RelayTableIsTrue, Relay!TypeOK, FlowTaskRecord
<1>2. CASE Relay!ForwardPacket(t)
  <2>1. /\ relay_tasks'[t] \in FlowTaskRecord /\ relay_tasks'[t].flow = relay_tasks[t].flow
        /\ DOMAIN relay_tasks' = DOMAIN relay_tasks
        /\ \A s \in DOMAIN relay_tasks \ {t} : relay_tasks'[s] = relay_tasks[s]
    BY <1>1, <1>2 DEF Relay!ForwardPacket, FlowTaskRecord, Relay!RelayConstants
  <2> QED
    BY <1>2, <2>1, TaskChanges DEF Relay!ForwardPacket
<1>3. CASE Relay!LeaveLoop(t) \/ Relay!InputClosed(t)
  <2>1. /\ relay_tasks'[t] \in FlowTaskRecord /\ relay_tasks'[t].flow = relay_tasks[t].flow
        /\ DOMAIN relay_tasks' = DOMAIN relay_tasks
        /\ \A s \in DOMAIN relay_tasks \ {t} : relay_tasks'[s] = relay_tasks[s]
    BY <1>1, <1>3 DEF Relay!LeaveLoop, Relay!InputClosed, FlowTaskRecord
  <2> QED
    BY <1>3, <2>1, TaskChanges DEF Relay!LeaveLoop, Relay!InputClosed
<1>4. CASE Relay!TargetAnswers(t)
  <2>1. responses' \in Seq(FlowIds) /\ Len(responses') <= CHANNEL_SIZE
    BY <1>1, <1>4 DEF Relay!TargetAnswers, RelayInv, Relay!RelayTableIsTrue, Relay!TypeOK, FlowTaskRecord, Relay!RelayConstants
  <2>2. Relay!TypeOK'
    BY <1>4, <2>1 DEF Relay!TargetAnswers, RelayInv, Relay!RelayTableIsTrue, Relay!TypeOK
  <2> QED
    BY <1>4, <2>2 DEF Relay!TargetAnswers, RelayInv, Relay!RelayTableIsTrue, Relay!DeadEntryIsReported,
                      Relay!TableWithinLimit, NumbersAreOld, LoopOwnsTable
<1>5. CASE Relay!ReportDone(t)
  BY <1>5, ReportDoneKeeps
<1> QED
  BY <1>2, <1>3, <1>4, <1>5 DEF Relay!FlowTask

\* Steps that touch neither the table nor the tasks nor the reports.
LEMMA OtherStepsKeep ==
    ASSUME Relay!RelayConstants, RelayInv,
           \/ \E f \in FlowIds : Relay!DispatchExisting(f) \/ Relay!DispatchRefused(f)
           \/ Relay!HandleResponses \/ Relay!Ended \/ UNCHANGED Relay!vars
    PROVE  RelayInv'
<1>1. CASE \E f \in FlowIds : Relay!DispatchExisting(f)
  <2>1. PICK f \in FlowIds : Relay!DispatchExisting(f)
    BY <1>1
  <2>2. Relay!TypeOK' /\ LoopOwnsTable'
    BY <2>1 DEF Relay!DispatchExisting, Relay!MainLoop, RelayInv, Relay!RelayTableIsTrue, Relay!TypeOK, LoopOwnsTable
  <2> QED
    BY <2>1, <2>2 DEF Relay!DispatchExisting, RelayInv, Relay!RelayTableIsTrue, Relay!DeadEntryIsReported,
                      Relay!TableWithinLimit, NumbersAreOld
<1>2. CASE Relay!HandleResponses
  <2>1. PICK n \in 1..Len(responses) : responses' = SubSeq(responses, n + 1, Len(responses))
    BY <1>2 DEF Relay!HandleResponses
  <2>2. responses \in Seq(FlowIds) /\ Len(responses) \in Nat /\ Len(responses) <= CHANNEL_SIZE
    BY DEF RelayInv, Relay!RelayTableIsTrue, Relay!TypeOK
  <2>3. responses' \in Seq(FlowIds) /\ Len(responses') <= CHANNEL_SIZE
    BY <2>1, <2>2 DEF Relay!RelayConstants
  <2>4. Relay!TypeOK'
    BY <1>2, <2>3 DEF Relay!HandleResponses, RelayInv, Relay!RelayTableIsTrue, Relay!TypeOK
  <2> QED
    BY <1>2, <2>4 DEF Relay!HandleResponses, RelayInv, Relay!RelayTableIsTrue, Relay!DeadEntryIsReported,
                      Relay!TableWithinLimit, NumbersAreOld, LoopOwnsTable
<1>3. CASE UNCHANGED Relay!vars
  BY <1>3 DEF Relay!vars, RelayInv, Relay!RelayTableIsTrue, Relay!TypeOK, Relay!DeadEntryIsReported,
              Relay!TableWithinLimit, NumbersAreOld, LoopOwnsTable
<1> QED
  BY <1>1, <1>2, <1>3 DEF Relay!DispatchRefused, Relay!Ended

\* One step per action of Next.
LEMMA RelayStep == ASSUME Relay!RelayConstants PROVE RelayInv /\ [Relay!Next]_(Relay!vars) => RelayInv'
<1> SUFFICES ASSUME RelayInv, [Relay!Next]_(Relay!vars) PROVE RelayInv'
  OBVIOUS
<1>1. ASSUME NEW f \in FlowIds, Relay!CreateFlow(f) PROVE RelayInv'
  BY <1>1, CreateFlowKeeps
<1>2. ASSUME NEW t \in DOMAIN relay_tasks, Relay!FlowTask(t) PROVE RelayInv'
  BY <1>2, FlowTaskKeeps
<1> QED
  BY <1>1, <1>2, TrySendKeeps, HandleDoneKeeps, RelayEndsKeeps, OtherStepsKeep DEF Relay!Next
-----------------------------------------------------------------------------
\* Whatever order dispatches, reports, failures and expiries of flow tasks come in,
\* the relay's table is within udp_relay_max_flows and every entry whose task is gone
\* has a report in the flow_done channel that will remove it.
THEOREM RelayTable == ASSUME Relay!RelayConstants PROVE SuiteSpec => []RelayTableIsTrue
<1>1. SuiteInit => RelayInv
  BY RelayInit DEF SuiteInit
<1>2. RelayInv /\ [SuiteNext]_suite_vars => RelayInv'
  <2>1. [SuiteNext]_suite_vars => [Relay!Next]_(Relay!vars)
    BY DEF SuiteNext, OnlyChannels, OnlyRelay, OnlyHandshake, OnlyWayOut, suite_vars,
           relay_vars, Relay!vars
  <2> QED
    BY <2>1, RelayStep
<1>3. RelayInv => RelayTableIsTrue
  BY DEF RelayInv, RelayTableIsTrue
<1> QED
  BY <1>1, <1>2, <1>3, PTL DEF SuiteSpec
-----------------------------------------------------------------------------
(* The handshake of native sessions (NativeUdpHandshake). *)

\* Generations are handed out once: everything that carries one has an older
\* one than the next, a queued cleanup names a task that is over, and the task
\* a route names is a task of that session.
GenerationInv ==
    /\ \A g \in DOMAIN handshake_tasks : g < next_generation
    /\ \A s \in DOMAIN sessions : sessions[s].generation < next_generation
    /\ \A i \in DOMAIN cleanups : /\ cleanups[i].generation < next_generation
                                  /\ cleanups[i].generation \notin DOMAIN handshake_tasks
    /\ \A s \in DOMAIN sessions :
         sessions[s].generation \in DOMAIN handshake_tasks =>
            handshake_tasks[sessions[s].generation].session = s

\* The AuthOk of a generation: what its session and its task agree on.
Ok(s, peer, g) == [session |-> s, to |-> peer, key |-> g]

\* There is one AuthOk per key; routes, tasks and answers agree with it.
KeyInv ==
    /\ \A m, n \in oks : m.key = n.key => m = n
    /\ \A m \in oks : m.key < next_generation
    /\ \A s \in DOMAIN sessions : Ok(s, sessions[s].peer, sessions[s].generation) \in oks
    /\ \A g \in DOMAIN handshake_tasks : Ok(handshake_tasks[g].session, handshake_tasks[g].peer, g) \in oks
    /\ handshake_down \subseteq oks
-----------------------------------------------------------------------------
\* The states of an agent that is gone, and the records of TypeOK.
Ended == {"failed", "timed_out", "closed"}

AgentRecord == [state : {"authenticating", "established", "failed", "timed_out", "closed"},
                key : Handshake!Generations \cup {Handshake!None}, silent : 0..HEALTH_TICKS]

TaskRecord == [session : Agents, peer : Addresses, running : BOOLEAN,
               inbound : Seq(Handshake!Generations)]

\* An established agent has a key: what makes the types inductive.
Typed ==
    /\ Handshake!TypeOK
    /\ \A a \in Agents : agent[a].state = "established" => agent[a].key \in Handshake!Generations

\* The inductive invariant of the routing.
RoutingInv == Typed /\ GenerationInv /\ Handshake!RunningTaskIsRouted /\ Handshake!DeadRouteHasCleanup

\* What a step on one task leaves of the tasks: queues change, tasks may stop.
SameTasks(f, F) ==
    /\ DOMAIN F = DOMAIN f
    /\ \A g \in DOMAIN f : /\ F[g] \in TaskRecord
                           /\ F[g].session = f[g].session
                           /\ F[g].peer = f[g].peer
                           /\ F[g].running => f[g].running
-----------------------------------------------------------------------------
\* What the suite assumes of the constants of the listener.
LEMMA HandshakeAssumption == Handshake!HandshakeConstants
BY ProxyConstants

\* In a behaviour of the suite the listener does what its own specification allows:
\* the other parts leave it alone.
LEMMA HandshakePart == SuiteSpec => Handshake!Spec
<1>1. SuiteInit => Handshake!Init
  BY DEF SuiteInit
<1>2. [SuiteNext]_suite_vars => [Handshake!Next]_(Handshake!vars)
  BY DEF SuiteNext, OnlyChannels, OnlyRelay, OnlyHandshake, OnlyWayOut, suite_vars,
         handshake_vars, Handshake!vars, Handshake!agentVars, Handshake!netVars,
         Handshake!proxyVars
<1> QED
  BY <1>1, <1>2, PTL DEF SuiteSpec, Handshake!Spec

\* The listener counts with the Cardinality of every module.
LEMMA SameSessionCount == \A S : Handshake!Cardinality(S) = Cardinality(S)
BY Zenon DEF Cardinality, Handshake!Cardinality

USE HandshakeAssumption DEF Handshake!HandshakeConstants

\* A task whose queue changed is otherwise the same task.
LEMMA QueueChanged ==
    ASSUME NEW t \in TaskRecord, NEW q \in Seq(Handshake!Generations)
    PROVE  LET u == [t EXCEPT !.inbound = q]
           IN /\ u \in TaskRecord
              /\ u.session = t.session /\ u.peer = t.peer /\ u.running = t.running
  BY DEF TaskRecord

\* A task that stopped is otherwise the same task.
LEMMA Stopped ==
    ASSUME NEW t \in TaskRecord
    PROVE  LET u == [t EXCEPT !.running = FALSE]
           IN /\ u \in TaskRecord
              /\ u.session = t.session /\ u.peer = t.peer /\ u.running = FALSE
  BY DEF TaskRecord

\* Replacing one task by a later state of it.
LEMMA OneTaskChanged ==
    ASSUME NEW f, NEW g \in DOMAIN f, NEW r \in TaskRecord,
           \A h \in DOMAIN f : f[h] \in TaskRecord,
           r.session = f[g].session, r.peer = f[g].peer, r.running => f[g].running
    PROVE  SameTasks(f, [f EXCEPT ![g] = r])
  BY DEF SameTasks

\* DispatchEncrypted and SessionReceive replace the queue of one task.
LEMMA QueueReplaced ==
    ASSUME NEW f, NEW g \in DOMAIN f, NEW q \in Seq(Handshake!Generations),
           \A h \in DOMAIN f : f[h] \in TaskRecord
    PROVE  SameTasks(f, [f EXCEPT ![g].inbound = q])
<1> DEFINE r == [f[g] EXCEPT !.inbound = q]
<1>1. [f EXCEPT ![g].inbound = q] = [f EXCEPT ![g] = r]
  OBVIOUS
<1>2. f[g] \in TaskRecord
  OBVIOUS
<1>3. r \in TaskRecord /\ r.session = f[g].session /\ r.peer = f[g].peer
      /\ r.running = f[g].running
  BY <1>2, QueueChanged
<1> HIDE DEF r
<1> QED BY <1>1, <1>3, OneTaskChanged

\* SessionStops stops one task and drops its queue.
LEMMA TaskStopped ==
    ASSUME NEW f, NEW g \in DOMAIN f,
           \A h \in DOMAIN f : f[h] \in TaskRecord
    PROVE  SameTasks(f, [f EXCEPT ![g].running = FALSE, ![g].inbound = << >>])
<1> DEFINE t == [f[g] EXCEPT !.running = FALSE]
           r == [t EXCEPT !.inbound = << >>]
<1>1. [f EXCEPT ![g].running = FALSE, ![g].inbound = << >>] = [f EXCEPT ![g] = r]
  OBVIOUS
<1>2. f[g] \in TaskRecord
  OBVIOUS
<1>3. t \in TaskRecord /\ t.session = f[g].session /\ t.peer = f[g].peer
      /\ t.running = FALSE
  BY <1>2, Stopped
<1>4. << >> \in Seq(Handshake!Generations)
  OBVIOUS
<1> HIDE DEF t
<1>5. r \in TaskRecord /\ r.session = f[g].session /\ r.peer = f[g].peer
      /\ r.running = FALSE
  BY <1>3, <1>4, QueueChanged
<1> HIDE DEF r
<1> QED BY <1>1, <1>5, OneTaskChanged

\* What the agents' updates leave of the agents.
LEMMA StateChanged ==
    ASSUME NEW f \in [Agents -> AgentRecord], NEW a \in Agents, NEW st \in Ended
    PROVE  /\ [f EXCEPT ![a].state = st] \in [Agents -> AgentRecord]
           /\ \A b \in Agents : /\ [f EXCEPT ![a].state = st][b].key = f[b].key
                                /\ \/ [f EXCEPT ![a].state = st][b].state = f[b].state
                                   \/ [f EXCEPT ![a].state = st][b].state \in Ended
  BY DEF AgentRecord, Ended

LEMMA SilentChanged ==
    ASSUME NEW f \in [Agents -> AgentRecord], NEW a \in Agents, NEW n \in 0..HEALTH_TICKS
    PROVE  /\ [f EXCEPT ![a].silent = n] \in [Agents -> AgentRecord]
           /\ \A b \in Agents : /\ [f EXCEPT ![a].silent = n][b].key = f[b].key
                                /\ [f EXCEPT ![a].silent = n][b].state = f[b].state
  BY DEF AgentRecord

\* The steps that touch a task only feed, drain or stop it.
LEMMA DispatchKeepsTasks ==
    ASSUME Typed, NEW d \in handshake_up, Handshake!DispatchEncrypted(d)
    PROVE  SameTasks(handshake_tasks, handshake_tasks')
<1>1. \A h \in DOMAIN handshake_tasks : handshake_tasks[h] \in TaskRecord
  BY DEF Typed, Handshake!TypeOK, TaskRecord
<1>2. CASE handshake_tasks' = handshake_tasks
  BY <1>1, <1>2 DEF SameTasks
<1>3. CASE handshake_tasks' # handshake_tasks
  <2> DEFINE g == sessions[d.session].generation
  <2>1. g \in DOMAIN handshake_tasks /\ handshake_tasks' = [handshake_tasks EXCEPT ![g].inbound = Append(handshake_tasks[g].inbound, d.key)]
    BY <1>3 DEF Handshake!DispatchEncrypted
  <2>2. d.key \in Handshake!Generations /\ handshake_tasks[g].inbound \in Seq(Handshake!Generations)
    BY <1>1, <2>1 DEF Typed, Handshake!TypeOK, TaskRecord
  <2>3. Append(handshake_tasks[g].inbound, d.key) \in Seq(Handshake!Generations)
    BY <2>2
  <2> QED BY <1>1, <2>1, <2>3, QueueReplaced
<1> QED BY <1>2, <1>3

LEMMA ReceiveKeepsTasks ==
    ASSUME Typed, NEW g \in DOMAIN handshake_tasks, Handshake!SessionReceive(g)
    PROVE  SameTasks(handshake_tasks, handshake_tasks')
<1>1. \A h \in DOMAIN handshake_tasks : handshake_tasks[h] \in TaskRecord
  BY DEF Typed, Handshake!TypeOK, TaskRecord
<1>2. handshake_tasks' = [handshake_tasks EXCEPT ![g].inbound = Tail(handshake_tasks[g].inbound)] /\ handshake_tasks[g].inbound # << >>
  BY DEF Handshake!SessionReceive
<1>3. handshake_tasks[g].inbound \in Seq(Handshake!Generations)
  BY <1>1 DEF TaskRecord
<1>4. Tail(handshake_tasks[g].inbound) \in Seq(Handshake!Generations)
  BY <1>2, <1>3
<1> QED BY <1>1, <1>2, <1>4, QueueReplaced

LEMMA StopKeepsTasks ==
    ASSUME Typed, NEW g \in DOMAIN handshake_tasks, Handshake!SessionStops(g)
    PROVE  SameTasks(handshake_tasks, handshake_tasks')
<1>1. \A h \in DOMAIN handshake_tasks : handshake_tasks[h] \in TaskRecord
  BY DEF Typed, Handshake!TypeOK, TaskRecord
<1> QED BY <1>1, TaskStopped DEF Handshake!SessionStops
-----------------------------------------------------------------------------
\* The initial state is well typed.
LEMMA InitTyped == Handshake!Init => Typed
  BY DEF Handshake!Init, Typed, Handshake!TypeOK, Handshake!Generations, Handshake!None

\* Typed, with the records named.
LEMMA TypedRecords ==
    Typed => /\ agent \in [Agents -> AgentRecord]
             /\ \A g \in DOMAIN handshake_tasks : handshake_tasks[g] \in TaskRecord
  BY DEF Typed, Handshake!TypeOK, AgentRecord, TaskRecord

\* Steps of the agents keep the types.
LEMMA AgentTyped ==
    ASSUME Typed, NEW a \in Agents, Handshake!AgentNext(a)
    PROVE  Typed'
<1>0. agent \in [Agents -> AgentRecord]
  BY TypedRecords
<1>1. CASE Handshake!SendAuthInit(a)
  BY <1>1 DEF Handshake!SendAuthInit, Typed, Handshake!TypeOK, Handshake!agentVars, Handshake!proxyVars
<1>2. CASE Handshake!AuthTimeout(a)
  <2>1. agent' \in [Agents -> AgentRecord]
        /\ \A b \in Agents : agent'[b].key = agent[b].key
                             /\ (agent'[b].state = agent[b].state \/ agent'[b].state \in Ended)
    <3>1. "failed" \in Ended
      BY DEF Ended
    <3>2. agent' = [agent EXCEPT ![a].state = "failed"]
      BY <1>2 DEF Handshake!AuthTimeout
    <3> QED BY <1>0, <3>1, <3>2, StateChanged
  <2> QED BY <1>2, <2>1 DEF Handshake!AuthTimeout, Ended, Typed, Handshake!TypeOK, AgentRecord, Handshake!netVars, Handshake!proxyVars
<1>3. CASE Handshake!KeepaliveTick(a)
  <2>1. CASE agent[a].silent >= HEALTH_TICKS /\ agent' = [agent EXCEPT ![a].state = "timed_out"]
             /\ UNCHANGED handshake_up
    <3>1. agent' \in [Agents -> AgentRecord]
          /\ \A b \in Agents : agent'[b].key = agent[b].key
                               /\ (agent'[b].state = agent[b].state \/ agent'[b].state \in Ended)
      <4>1. "timed_out" \in Ended
        BY DEF Ended
      <4>2. agent' = [agent EXCEPT ![a].state = "timed_out"]
        BY <2>1
      <4> QED BY <1>0, <4>1, <4>2, StateChanged
    <3> QED BY <1>3, <2>1, <3>1 DEF Handshake!KeepaliveTick, Ended, Typed, Handshake!TypeOK, AgentRecord, Handshake!proxyVars
  <2>2. CASE /\ agent[a].silent < HEALTH_TICKS
             /\ agent' = [agent EXCEPT ![a].silent = @ + 1]
             /\ handshake_up' = handshake_up \cup {[session |-> a, from |-> address[a], key |-> agent[a].key]}
    <3>1. agent[a].silent + 1 \in 0..HEALTH_TICKS
      BY <1>0, <2>2 DEF AgentRecord
    <3>2. agent' = [agent EXCEPT ![a].silent = agent[a].silent + 1]
      BY <2>2
    <3>3. agent' \in [Agents -> AgentRecord]
          /\ \A b \in Agents : agent'[b].key = agent[b].key
                               /\ agent'[b].state = agent[b].state
      BY <1>0, <3>1, <3>2, SilentChanged
    <3>4. agent[a].key \in Handshake!Generations
      BY <1>3 DEF Handshake!KeepaliveTick, Typed
    <3> QED BY <1>3, <2>2, <3>3, <3>4 DEF Handshake!KeepaliveTick, Typed, Handshake!TypeOK, AgentRecord, Handshake!proxyVars
  <2> QED BY <1>3, <2>1, <2>2 DEF Handshake!KeepaliveTick
<1>4. CASE Handshake!DriverEnds(a)
  <2>1. agent' \in [Agents -> AgentRecord]
        /\ \A b \in Agents : agent'[b].key = agent[b].key
                             /\ (agent'[b].state = agent[b].state \/ agent'[b].state \in Ended)
    <3>1. "closed" \in Ended
      BY DEF Ended
    <3>2. agent' = [agent EXCEPT ![a].state = "closed"]
      BY <1>4 DEF Handshake!DriverEnds
    <3> QED BY <1>0, <3>1, <3>2, StateChanged
  <2> QED BY <1>4, <2>1 DEF Handshake!DriverEnds, Ended, Typed, Handshake!TypeOK, AgentRecord, Handshake!netVars, Handshake!proxyVars
<1>5. ASSUME NEW m \in oks, Handshake!ReceiveAuthOk(a, m) PROVE Typed'
  <2>1. m.key \in Handshake!Generations /\ 0 \in 0..HEALTH_TICKS
    BY DEF Typed, Handshake!TypeOK
  <2>2. agent' \in [Agents -> AgentRecord]
        /\ \A b \in Agents \ {a} : agent'[b] = agent[b]
        /\ agent'[a].key = m.key
    BY <1>0, <1>5, <2>1 DEF Handshake!ReceiveAuthOk, AgentRecord
  <2> QED BY <1>5, <2>1, <2>2 DEF Handshake!ReceiveAuthOk, Typed, Handshake!TypeOK, AgentRecord, Handshake!netVars, Handshake!proxyVars
<1>6. ASSUME NEW d \in handshake_down, Handshake!AgentReceive(a, d) PROVE Typed'
  <2>1. 0 \in 0..HEALTH_TICKS
    OBVIOUS
  <2>2. agent' \in [Agents -> AgentRecord]
        /\ \A b \in Agents : agent'[b].key = agent[b].key
                             /\ agent'[b].state = agent[b].state
    BY <1>0, <1>6, <2>1, SilentChanged DEF Handshake!AgentReceive
  <2> QED BY <1>6, <2>2 DEF Handshake!AgentReceive, Typed, Handshake!TypeOK, AgentRecord, Handshake!proxyVars
<1> QED BY <1>1, <1>2, <1>3, <1>4, <1>5, <1>6 DEF Handshake!AgentNext

\* Steps of the network and the clock keep the types.
LEMMA NetworkTyped == Typed /\ Handshake!Network => Typed'
  BY SMTT(60) DEF Typed, Handshake!TypeOK, Handshake!Network, Handshake!LoseUp, Handshake!LoseDown, Handshake!Rebind, Handshake!TimestampExpires,
         Handshake!agentVars, Handshake!netVars, Handshake!proxyVars

\* Steps of the listener and of a session task leave the agents alone, so only
\* TypeOK is at stake.
LEMMA ListenerTyped == Typed /\ Handshake!Listener => Typed'
<1> SUFFICES ASSUME Typed, Handshake!Listener PROVE Typed'
  OBVIOUS
<1>0. Handshake!TypeOK
  BY DEF Typed
<1>1. ASSUME NEW m \in inits, Handshake!ResendAuthOk(m) PROVE Typed'
  BY <1>1 DEF Typed, Handshake!TypeOK, Handshake!ResendAuthOk, Handshake!agentVars, Handshake!proxyVars
<1>2. ASSUME NEW m \in inits, Handshake!CreateSession(m) PROVE Typed'
  <2>1. next_generation \in Handshake!Generations /\ next_generation' \in 1..(MaxSessions + 1)
    BY <1>0, <1>2 DEF Handshake!CreateSession, Handshake!TypeOK, Handshake!Generations
  <2>2. m.session \in Agents /\ m.from \in Addresses
    BY <1>0 DEF Handshake!TypeOK
  <2>3. /\ DOMAIN sessions' \subseteq Agents
        /\ \A s \in DOMAIN sessions' : sessions'[s] \in [peer : Addresses, generation : Handshake!Generations]
    BY <1>0, <1>2, <2>1, <2>2 DEF Handshake!With, Handshake!CreateSession, Handshake!TypeOK
  <2>4. [session |-> m.session, peer |-> m.from, running |-> TRUE, inbound |-> << >>] \in TaskRecord
    BY <2>2 DEF TaskRecord
  <2>5. /\ DOMAIN handshake_tasks' \subseteq Handshake!Generations
        /\ \A g \in DOMAIN handshake_tasks' : handshake_tasks'[g] \in TaskRecord
    BY <1>0, <1>2, <2>1, <2>4, TypedRecords DEF Handshake!CreateSession, Handshake!With, Handshake!TypeOK
  <2>6. oks' \subseteq [session : Agents, to : Addresses, key : Handshake!Generations]
    BY <1>0, <1>2, <2>1, <2>2 DEF Handshake!CreateSession, Handshake!TypeOK
  <2> QED BY <1>2, <2>1, <2>3, <2>5, <2>6 DEF Handshake!CreateSession, Typed, Handshake!TypeOK, TaskRecord, Handshake!agentVars
<1>3. ASSUME NEW m \in inits, Handshake!RefuseAuthInit(m) PROVE Typed'
  BY <1>3 DEF Handshake!RefuseAuthInit, Typed, Handshake!TypeOK, Handshake!vars, Handshake!agentVars, Handshake!netVars, Handshake!proxyVars
<1>4. ASSUME NEW d \in handshake_up, Handshake!DispatchEncrypted(d) PROVE Typed'
  <2>1. /\ DOMAIN sessions' \subseteq DOMAIN sessions
        /\ \A s \in DOMAIN sessions' : sessions'[s] = sessions[s]
    BY <1>4 DEF Handshake!Without, Handshake!DispatchEncrypted, Handshake!remove_session
  <2>2. /\ DOMAIN handshake_tasks' = DOMAIN handshake_tasks
        /\ \A g \in DOMAIN handshake_tasks' : handshake_tasks'[g] \in TaskRecord
    BY <1>4, DispatchKeepsTasks DEF SameTasks
  <2>3. UNCHANGED <<agent, address, stale, inits, oks, handshake_down, next_generation, cleanups>>
        /\ handshake_up' \subseteq handshake_up
    BY <1>4 DEF Handshake!DispatchEncrypted, Handshake!agentVars
  <2> QED BY <1>0, <2>1, <2>2, <2>3 DEF Typed, Handshake!TypeOK, TaskRecord
<1>5. CASE Handshake!HandleCleanup
  <2>1. /\ DOMAIN sessions' \subseteq DOMAIN sessions
        /\ \A s \in DOMAIN sessions' : sessions'[s] = sessions[s]
    BY <1>5 DEF Handshake!Without, Handshake!HandleCleanup, Handshake!remove_session
  <2>2. cleanups' \in Seq([session : Agents, generation : Handshake!Generations])
    BY <1>0, <1>5 DEF Handshake!HandleCleanup, Handshake!TypeOK
  <2> QED BY <1>5, <2>1, <2>2 DEF Handshake!HandleCleanup, Typed, Handshake!TypeOK, Handshake!agentVars, Handshake!netVars
<1> QED BY <1>1, <1>2, <1>3, <1>4, <1>5 DEF Handshake!Listener

\* Steps of a session task keep the types.
LEMMA TaskTyped ==
    ASSUME Typed, NEW g \in DOMAIN handshake_tasks, Handshake!SessionTask(g)
    PROVE  Typed'
<1>0. Handshake!TypeOK /\ \A h \in DOMAIN handshake_tasks : handshake_tasks[h] \in TaskRecord
  BY TypedRecords DEF Typed
<1>1. CASE Handshake!SessionReceive(g)
  <2>1. SameTasks(handshake_tasks, handshake_tasks')
    BY <1>1, ReceiveKeepsTasks
  <2>2. handshake_tasks[g].session \in Agents /\ handshake_tasks[g].peer \in Addresses /\ g \in Handshake!Generations
    BY <1>0 DEF Handshake!TypeOK, TaskRecord
  <2>3. handshake_down' \subseteq [session : Agents, to : Addresses, key : Handshake!Generations]
    BY <1>0, <1>1, <2>2 DEF Handshake!SessionReceive, Handshake!TypeOK
  <2> QED BY <1>1, <2>1, <2>3 DEF Handshake!SessionReceive, SameTasks, Typed, Handshake!TypeOK, TaskRecord, Handshake!agentVars
<1>2. CASE Handshake!SessionStops(g)
  <2>1. SameTasks(handshake_tasks, handshake_tasks')
    BY <1>2, StopKeepsTasks
  <2> QED BY <1>2, <2>1 DEF Handshake!SessionStops, SameTasks, Typed, Handshake!TypeOK, TaskRecord, Handshake!agentVars, Handshake!netVars
<1>3. CASE Handshake!GuardDropped(g)
  <2>1. /\ DOMAIN handshake_tasks' \subseteq DOMAIN handshake_tasks
        /\ \A h \in DOMAIN handshake_tasks' : handshake_tasks'[h] = handshake_tasks[h]
    BY <1>3 DEF Handshake!Without, Handshake!GuardDropped
  <2>2. [session |-> handshake_tasks[g].session, generation |-> g] \in [session : Agents, generation : Handshake!Generations]
    BY <1>0 DEF Handshake!TypeOK, TaskRecord
  <2>3. cleanups' \in Seq([session : Agents, generation : Handshake!Generations])
    BY <1>0, <1>3, <2>2 DEF Handshake!GuardDropped, Handshake!TypeOK
  <2> QED BY <1>3, <2>1, <2>3 DEF Handshake!GuardDropped, Typed, Handshake!TypeOK, Handshake!agentVars, Handshake!netVars
<1> QED BY <1>1, <1>2, <1>3 DEF Handshake!SessionTask

\* Every variable keeps its type, for any number of agents and sessions.
LEMMA NextTyped == Typed /\ [Handshake!Next]_(Handshake!vars) => Typed'
<1> SUFFICES ASSUME Typed, [Handshake!Next]_(Handshake!vars) PROVE Typed'
  OBVIOUS
<1>1. CASE UNCHANGED Handshake!vars
  BY <1>1 DEF Typed, Handshake!TypeOK, Handshake!vars, Handshake!agentVars, Handshake!netVars, Handshake!proxyVars
<1> QED BY <1>1, AgentTyped, NetworkTyped, ListenerTyped, TaskTyped DEF Handshake!Next

\* Every variable keeps its type, for any number of agents and sessions
\* (with the keys of established agents, which make it inductive).
THEOREM HandshakeTypes == Handshake!Spec => []Handshake!TypeOK
<1>1. Typed => Handshake!TypeOK
  BY DEF Typed
<1> QED BY InitTyped, NextTyped, <1>1, PTL DEF Handshake!Spec
-----------------------------------------------------------------------------
\* A step that only feeds, drains or stops tasks keeps the routing.
LEMMA FrameKeepsRouting ==
    ASSUME RoutingInv, SameTasks(handshake_tasks, handshake_tasks'),
           UNCHANGED <<sessions, next_generation, cleanups>>
    PROVE  GenerationInv' /\ Handshake!RunningTaskIsRouted' /\ Handshake!DeadRouteHasCleanup'
<1>1. GenerationInv'
  BY DEF RoutingInv, GenerationInv, SameTasks
<1>2. Handshake!RunningTaskIsRouted'
  BY DEF RoutingInv, Handshake!RunningTaskIsRouted, SameTasks
<1>3. Handshake!DeadRouteHasCleanup'
  BY DEF RoutingInv, Handshake!DeadRouteHasCleanup, SameTasks
<1> QED BY <1>1, <1>2, <1>3

\* A new session has a generation nothing else has, and an id no running task has.
LEMMA CreateKeepsRouting ==
    ASSUME RoutingInv, NEW m \in inits, Handshake!CreateSession(m)
    PROVE  GenerationInv' /\ Handshake!RunningTaskIsRouted' /\ Handshake!DeadRouteHasCleanup'
<1> DEFINE n == next_generation
           s == m.session
<1>1. /\ s \notin DOMAIN sessions /\ next_generation' = n + 1 /\ n \in Nat
      /\ cleanups' = cleanups
  BY DEF Handshake!CreateSession, RoutingInv, Typed, Handshake!TypeOK
<1>2. /\ DOMAIN sessions' = DOMAIN sessions \cup {s}
      /\ sessions'[s] = [peer |-> m.from, generation |-> n]
      /\ \A x \in DOMAIN sessions : sessions'[x] = sessions[x]
  BY <1>1 DEF Handshake!CreateSession, Handshake!With
<1>3. n \notin DOMAIN handshake_tasks
  BY <1>1 DEF RoutingInv, GenerationInv
<1>4. /\ DOMAIN handshake_tasks' = DOMAIN handshake_tasks \cup {n}
      /\ handshake_tasks'[n] = [session |-> s, peer |-> m.from, running |-> TRUE, inbound |-> << >>]
      /\ \A g \in DOMAIN handshake_tasks : handshake_tasks'[g] = handshake_tasks[g]
  BY <1>3 DEF Handshake!CreateSession, Handshake!With
<1>5. \A g \in DOMAIN handshake_tasks : g \in Nat
  BY DEF RoutingInv, Typed, Handshake!TypeOK, Handshake!Generations
<1>6. \A x \in DOMAIN sessions : sessions[x].generation \in Nat
  BY DEF RoutingInv, Typed, Handshake!TypeOK, Handshake!Generations
<1>7. \A i \in DOMAIN cleanups : cleanups[i].generation \in Nat
  <2> DEFINE C == [session : Agents, generation : Handshake!Generations]
  <2>1. cleanups \in Seq(C)
    BY DEF RoutingInv, Typed, Handshake!TypeOK
  <2>2. \A e \in C : e.generation \in Nat
    BY DEF Handshake!Generations
  <2> HIDE DEF C
  <2>3. \A i \in DOMAIN cleanups : cleanups[i] \in C
    BY <2>1
  <2> QED BY <2>2, <2>3
<1> HIDE DEF n, s
<1>8. GenerationInv'
  <2>1. \A g \in DOMAIN handshake_tasks' : g < next_generation'
    BY <1>1, <1>4, <1>5 DEF RoutingInv, GenerationInv, n
  <2>2. \A x \in DOMAIN sessions' : sessions'[x].generation < next_generation'
    BY <1>1, <1>2, <1>6 DEF RoutingInv, GenerationInv, n
  <2>3. \A i \in DOMAIN cleanups' : /\ cleanups'[i].generation < next_generation'
                                    /\ cleanups'[i].generation \notin DOMAIN handshake_tasks'
    BY <1>1, <1>4, <1>7 DEF RoutingInv, GenerationInv, n
  <2>4. \A x \in DOMAIN sessions' : sessions'[x].generation \in DOMAIN handshake_tasks' =>
                                      handshake_tasks'[sessions'[x].generation].session = x
    BY <1>1, <1>2, <1>4, <1>6 DEF RoutingInv, GenerationInv, n
  <2> QED BY <2>1, <2>2, <2>3, <2>4 DEF GenerationInv
<1>9. Handshake!RunningTaskIsRouted'
  <2> SUFFICES ASSUME NEW g \in DOMAIN handshake_tasks', handshake_tasks'[g].running
               PROVE  /\ handshake_tasks'[g].session \in DOMAIN sessions'
                      /\ sessions'[handshake_tasks'[g].session].generation = g
                      /\ sessions'[handshake_tasks'[g].session].peer = handshake_tasks'[g].peer
    BY DEF Handshake!RunningTaskIsRouted
  <2>1. CASE g = n
    BY <1>2, <1>4, <2>1
  <2>2. CASE g \in DOMAIN handshake_tasks
    BY <1>2, <1>4, <2>2 DEF RoutingInv, Handshake!RunningTaskIsRouted
  <2> QED BY <1>4, <2>1, <2>2
<1>10. Handshake!DeadRouteHasCleanup'
  BY <1>1, <1>2, <1>4 DEF RoutingInv, Handshake!DeadRouteHasCleanup
<1> QED BY <1>8, <1>9, <1>10

\* Dropping routes keeps the routing when no running task is routed by them and
\* the cleanups of the routes that stay are not lost.
LEMMA RemoveKeepsRouting ==
    ASSUME RoutingInv, UNCHANGED <<handshake_tasks, next_generation>>,
           DOMAIN sessions' \subseteq DOMAIN sessions,
           \A s \in DOMAIN sessions' : sessions'[s] = sessions[s],
           \A s \in DOMAIN sessions \ DOMAIN sessions' :
                LET g == sessions[s].generation
                IN g \in DOMAIN handshake_tasks => ~handshake_tasks[g].running,
           \A i \in DOMAIN cleanups' : \E j \in DOMAIN cleanups : cleanups'[i] = cleanups[j],
           \A s \in DOMAIN sessions', j \in DOMAIN cleanups :
                cleanups[j] = [session |-> s, generation |-> sessions[s].generation] =>
                   \E i \in DOMAIN cleanups' : cleanups'[i] = cleanups[j]
    PROVE  GenerationInv' /\ Handshake!RunningTaskIsRouted' /\ Handshake!DeadRouteHasCleanup'
<1>1. GenerationInv'
  BY DEF RoutingInv, GenerationInv
<1>2. Handshake!RunningTaskIsRouted'
  BY DEF RoutingInv, Handshake!RunningTaskIsRouted
<1>3. Handshake!DeadRouteHasCleanup'
  BY DEF RoutingInv, Handshake!DeadRouteHasCleanup
<1> QED BY <1>1, <1>2, <1>3

\* A datagram for a closed queue removes a route whose task is not running.
LEMMA DispatchKeepsRouting ==
    ASSUME RoutingInv, NEW d \in handshake_up, Handshake!DispatchEncrypted(d)
    PROVE  GenerationInv' /\ Handshake!RunningTaskIsRouted' /\ Handshake!DeadRouteHasCleanup'
<1> DEFINE s == d.session
           g == sessions[s].generation
           open == g \in DOMAIN handshake_tasks /\ handshake_tasks[g].running
<1>1. UNCHANGED <<next_generation, cleanups>>
  BY DEF Handshake!DispatchEncrypted
<1>2. CASE sessions' = sessions
  BY <1>1, <1>2, DispatchKeepsTasks, FrameKeepsRouting DEF RoutingInv
<1>3. CASE sessions' # sessions
  <2>1. /\ ~open /\ handshake_tasks' = handshake_tasks
        /\ sessions' = Handshake!remove_session([session |-> s, generation |-> g])
    BY <1>3 DEF Handshake!DispatchEncrypted
  <2>2. sessions' = [k \in DOMAIN sessions \ {x \in DOMAIN sessions : x = s /\ sessions[x].generation = g}
                       |-> sessions[k]]
    BY <2>1 DEF Handshake!remove_session, Handshake!Without
  <2>3. /\ DOMAIN sessions' \subseteq DOMAIN sessions
        /\ \A x \in DOMAIN sessions' : sessions'[x] = sessions[x]
        /\ \A x \in DOMAIN sessions \ DOMAIN sessions' : x = s
    BY <2>2
  <2>4. \A x \in DOMAIN sessions \ DOMAIN sessions' :
            sessions[x].generation \in DOMAIN handshake_tasks => ~handshake_tasks[sessions[x].generation].running
    BY <2>1, <2>3
  <2> QED BY <1>1, <2>1, <2>3, <2>4, RemoveKeepsRouting
<1> QED BY <1>2, <1>3

\* A queued cleanup names a task that is over, so the route it removes, if any,
\* is no running task's; a newer session of the same id has another generation.
LEMMA CleanupKeepsRouting ==
    ASSUME RoutingInv, Handshake!HandleCleanup
    PROVE  GenerationInv' /\ Handshake!RunningTaskIsRouted' /\ Handshake!DeadRouteHasCleanup'
<1> DEFINE c == Head(cleanups)
<1>0. cleanups \in Seq([session : Agents, generation : Handshake!Generations])
  BY DEF RoutingInv, Typed, Handshake!TypeOK
<1>1. /\ cleanups # << >> /\ cleanups' = Tail(cleanups) /\ sessions' = Handshake!remove_session(c)
      /\ UNCHANGED <<handshake_tasks, next_generation>>
  BY DEF Handshake!HandleCleanup
<1>2. /\ c = cleanups[1] /\ 1 \in DOMAIN cleanups /\ DOMAIN cleanups = 1..Len(cleanups)
      /\ Len(cleanups) \in Nat
      /\ DOMAIN cleanups' = 1..(Len(cleanups) - 1)
      /\ \A i \in 1..(Len(cleanups) - 1) : cleanups'[i] = cleanups[i + 1]
  BY <1>0, <1>1
<1> HIDE DEF c
<1>3. c.generation \notin DOMAIN handshake_tasks
  BY <1>2 DEF RoutingInv, GenerationInv
<1>4. sessions' = [k \in DOMAIN sessions \ {x \in DOMAIN sessions : /\ x = c.session
                                                                   /\ sessions[x].generation = c.generation}
                     |-> sessions[k]]
  BY <1>1 DEF Handshake!remove_session, Handshake!Without
<1>5. /\ DOMAIN sessions' \subseteq DOMAIN sessions
      /\ \A x \in DOMAIN sessions' : sessions'[x] = sessions[x]
      /\ \A x \in DOMAIN sessions \ DOMAIN sessions' : sessions[x].generation = c.generation
      /\ \A x \in DOMAIN sessions' : ~(x = c.session /\ sessions[x].generation = c.generation)
  BY <1>4
<1>6. \A i \in DOMAIN cleanups' : \E j \in DOMAIN cleanups : cleanups'[i] = cleanups[j]
  BY <1>2
<1>7. ASSUME NEW x \in DOMAIN sessions', NEW j \in DOMAIN cleanups,
             cleanups[j] = [session |-> x, generation |-> sessions[x].generation]
      PROVE  \E i \in DOMAIN cleanups' : cleanups'[i] = cleanups[j]
  <2>1. j # 1
    BY <1>2, <1>5, <1>7
  <2>2. j - 1 \in DOMAIN cleanups' /\ cleanups'[j - 1] = cleanups[j]
    BY <1>2, <2>1
  <2> QED BY <2>2
<1>8. \A x \in DOMAIN sessions \ DOMAIN sessions' :
          sessions[x].generation \in DOMAIN handshake_tasks => ~handshake_tasks[sessions[x].generation].running
  BY <1>3, <1>5
<1> QED BY <1>1, <1>5, <1>6, <1>7, <1>8, RemoveKeepsRouting

\* The guard of an ended task leaves the cleanup of the route that names it.
LEMMA GuardKeepsRouting ==
    ASSUME RoutingInv, NEW g \in DOMAIN handshake_tasks, Handshake!GuardDropped(g)
    PROVE  GenerationInv' /\ Handshake!RunningTaskIsRouted' /\ Handshake!DeadRouteHasCleanup'
<1> DEFINE c == [session |-> handshake_tasks[g].session, generation |-> g]
<1>0. cleanups \in Seq([session : Agents, generation : Handshake!Generations])
  BY DEF RoutingInv, Typed, Handshake!TypeOK
<1>1. c \in [session : Agents, generation : Handshake!Generations]
  BY DEF RoutingInv, Typed, Handshake!TypeOK
<1>2. /\ cleanups' = Append(cleanups, c)
      /\ UNCHANGED <<sessions, next_generation>>
  BY DEF Handshake!GuardDropped
<1>3. /\ DOMAIN handshake_tasks' = DOMAIN handshake_tasks \ {g}
      /\ \A h \in DOMAIN handshake_tasks' : handshake_tasks'[h] = handshake_tasks[h]
  BY DEF Handshake!GuardDropped, Handshake!Without
<1>4. c.generation = g /\ c.session = handshake_tasks[g].session
  OBVIOUS
<1> HIDE DEF c
<1>5. /\ DOMAIN cleanups = 1..Len(cleanups) /\ Len(cleanups) \in Nat
      /\ DOMAIN cleanups' = 1..(Len(cleanups) + 1)
      /\ \A i \in 1..Len(cleanups) : cleanups'[i] = cleanups[i]
      /\ cleanups'[Len(cleanups) + 1] = c
  BY <1>0, <1>1, <1>2
<1>6. /\ DOMAIN cleanups \subseteq DOMAIN cleanups'
      /\ \A i \in DOMAIN cleanups : cleanups'[i] = cleanups[i]
      /\ \A i \in DOMAIN cleanups' : i \in DOMAIN cleanups \/ cleanups'[i] = c
      /\ \E i \in DOMAIN cleanups' : cleanups'[i] = c
  BY <1>5
<1>7. GenerationInv'
  BY <1>2, <1>3, <1>4, <1>6 DEF RoutingInv, GenerationInv
<1>8. Handshake!RunningTaskIsRouted'
  BY <1>2, <1>3, ZenonT(60) DEF RoutingInv, Handshake!RunningTaskIsRouted, Handshake!GuardDropped
<1>9. Handshake!DeadRouteHasCleanup'
  <2> SUFFICES ASSUME NEW s \in DOMAIN sessions, sessions[s].generation \notin DOMAIN handshake_tasks'
               PROVE  \E i \in DOMAIN cleanups' :
                         cleanups'[i] = [session |-> s, generation |-> sessions[s].generation]
    BY <1>2 DEF Handshake!DeadRouteHasCleanup
  <2>1. CASE sessions[s].generation = g
    BY <1>6, <2>1 DEF RoutingInv, GenerationInv, c
  <2>2. CASE sessions[s].generation \notin DOMAIN handshake_tasks
    BY <1>6, <2>2 DEF RoutingInv, Handshake!DeadRouteHasCleanup
  <2> QED BY <1>3, <2>1, <2>2
<1> QED BY <1>7, <1>8, <1>9

\* Steps of the agents and of the network do not touch the listener's state.
LEMMA OthersKeepProxy ==
    (\E a \in Agents : Handshake!AgentNext(a)) \/ Handshake!Network => UNCHANGED Handshake!proxyVars
  BY DEF Handshake!AgentNext, Handshake!SendAuthInit, Handshake!AuthTimeout, Handshake!KeepaliveTick, Handshake!DriverEnds, Handshake!ReceiveAuthOk,
         Handshake!AgentReceive, Handshake!Network, Handshake!LoseUp, Handshake!LoseDown, Handshake!Rebind, Handshake!TimestampExpires

\* RoutingInv is inductive.
LEMMA NextKeepsRouting == RoutingInv /\ [Handshake!Next]_(Handshake!vars) => RoutingInv'
<1> SUFFICES ASSUME RoutingInv, [Handshake!Next]_(Handshake!vars)
             PROVE  GenerationInv' /\ Handshake!RunningTaskIsRouted' /\ Handshake!DeadRouteHasCleanup'
  BY NextTyped DEF RoutingInv
<1>0. \A g \in DOMAIN handshake_tasks : handshake_tasks[g] \in TaskRecord
  BY TypedRecords DEF RoutingInv
<1>1. ASSUME UNCHANGED Handshake!proxyVars
      PROVE  GenerationInv' /\ Handshake!RunningTaskIsRouted' /\ Handshake!DeadRouteHasCleanup'
  <2>1. SameTasks(handshake_tasks, handshake_tasks')
    BY <1>0, <1>1 DEF SameTasks, Handshake!proxyVars
  <2> QED BY <1>1, <2>1, FrameKeepsRouting DEF Handshake!proxyVars
<1>2. CASE UNCHANGED Handshake!vars
  BY <1>1, <1>2 DEF Handshake!vars
<1>3. CASE (\E a \in Agents : Handshake!AgentNext(a)) \/ Handshake!Network
  BY <1>1, <1>3, OthersKeepProxy
<1>4. CASE Handshake!Listener
  <2>1. ASSUME NEW m \in inits, Handshake!ResendAuthOk(m) PROVE UNCHANGED Handshake!proxyVars
    BY <2>1 DEF Handshake!ResendAuthOk
  <2>2. ASSUME NEW m \in inits, Handshake!RefuseAuthInit(m) PROVE UNCHANGED Handshake!proxyVars
    BY <2>2 DEF Handshake!RefuseAuthInit, Handshake!vars
  <2> QED BY <1>1, <1>4, <2>1, <2>2, CreateKeepsRouting, DispatchKeepsRouting,
             CleanupKeepsRouting DEF Handshake!Listener
<1>5. ASSUME NEW g \in DOMAIN handshake_tasks, Handshake!SessionTask(g)
      PROVE  GenerationInv' /\ Handshake!RunningTaskIsRouted' /\ Handshake!DeadRouteHasCleanup'
  <2>1. CASE Handshake!SessionReceive(g)
    <3>1. UNCHANGED <<sessions, next_generation, cleanups>>
      BY <2>1 DEF Handshake!SessionReceive
    <3> QED BY <2>1, <3>1, ReceiveKeepsTasks, FrameKeepsRouting DEF RoutingInv
  <2>2. CASE Handshake!SessionStops(g)
    <3>1. UNCHANGED <<sessions, next_generation, cleanups>>
      BY <2>2 DEF Handshake!SessionStops
    <3> QED BY <2>2, <3>1, StopKeepsTasks, FrameKeepsRouting DEF RoutingInv
  <2> QED BY <1>5, <2>1, <2>2, GuardKeepsRouting DEF Handshake!SessionTask
<1> QED BY <1>2, <1>3, <1>4, <1>5 DEF Handshake!Next

LEMMA InitRouting == Handshake!Init => RoutingInv
  BY InitTyped DEF Handshake!Init, RoutingInv, GenerationInv, Handshake!RunningTaskIsRouted, Handshake!DeadRouteHasCleanup

\* A running session task is always the one its session id is routed to: the
\* generation check of remove_session makes the late cleanup of an ended session
\* harmless, however sessions of one id follow each other.
THEOREM RoutesAreTrue == SuiteSpec => []RunningTaskIsRouted
<1>1. RoutingInv => RunningTaskIsRouted
  BY DEF RoutingInv, RunningTaskIsRouted
<1> QED BY HandshakePart, InitRouting, NextKeepsRouting, <1>1, PTL DEF Handshake!Spec

\* A route whose task is over always has its cleanup under way: the guard of
\* run_session's task is enough for the session table not to leak.
THEOREM NoRouteLeaks == SuiteSpec => []DeadRouteHasCleanup
<1>1. RoutingInv => DeadRouteHasCleanup
  BY DEF RoutingInv, DeadRouteHasCleanup
<1> QED BY HandshakePart, InitRouting, NextKeepsRouting, <1>1, PTL DEF Handshake!Spec
-----------------------------------------------------------------------------
\* A session created for this address: its AuthOk is new, and every other AuthOk
\* has an older key.
LEMMA CreateKeepsKeys ==
    ASSUME Typed, KeyInv, NEW m \in inits, Handshake!CreateSession(m)
    PROVE  KeyInv'
<1> DEFINE n == next_generation
           new == Ok(m.session, m.from, n)
<1>1. /\ next_generation' = n + 1 /\ n \in Nat /\ handshake_down' = handshake_down
      /\ oks' = oks \cup {new}
  BY DEF Handshake!CreateSession, Typed, Handshake!TypeOK, Ok
<1>2. /\ DOMAIN sessions' = DOMAIN sessions \cup {m.session}
      /\ sessions'[m.session] = [peer |-> m.from, generation |-> n]
      /\ \A x \in DOMAIN sessions \ {m.session} : sessions'[x] = sessions[x]
  BY DEF Handshake!CreateSession, Handshake!With
<1>3. /\ DOMAIN handshake_tasks' = DOMAIN handshake_tasks \cup {n}
      /\ handshake_tasks'[n] = [session |-> m.session, peer |-> m.from, running |-> TRUE, inbound |-> << >>]
      /\ \A g \in DOMAIN handshake_tasks \ {n} : handshake_tasks'[g] = handshake_tasks[g]
  BY DEF Handshake!CreateSession, Handshake!With
<1>4. new.key = n
  BY DEF Ok
<1>5. \A k \in oks : k.key \in Nat /\ k.key < n
  BY DEF Typed, Handshake!TypeOK, Handshake!Generations, KeyInv
<1> HIDE DEF n, new
<1>6. \A k, l \in oks' : k.key = l.key => k = l
  BY <1>1, <1>4, <1>5 DEF KeyInv
<1>7. \A k \in oks' : k.key < next_generation'
  BY <1>1, <1>4, <1>5
<1>8. \A x \in DOMAIN sessions' : Ok(x, sessions'[x].peer, sessions'[x].generation) \in oks'
  <2> SUFFICES ASSUME NEW x \in DOMAIN sessions'
               PROVE  Ok(x, sessions'[x].peer, sessions'[x].generation) \in oks'
    OBVIOUS
  <2>1. CASE x = m.session
    BY <1>1, <1>2, <2>1 DEF new, n
  <2>2. CASE x # m.session
    BY <1>1, <1>2, <2>2 DEF KeyInv
  <2> QED BY <2>1, <2>2
<1>9. \A g \in DOMAIN handshake_tasks' : Ok(handshake_tasks'[g].session, handshake_tasks'[g].peer, g) \in oks'
  <2> SUFFICES ASSUME NEW g \in DOMAIN handshake_tasks'
               PROVE  Ok(handshake_tasks'[g].session, handshake_tasks'[g].peer, g) \in oks'
    OBVIOUS
  <2>1. CASE g = n
    BY <1>1, <1>3, <2>1 DEF new, n
  <2>2. CASE g # n
    BY <1>1, <1>3, <2>2 DEF KeyInv
  <2> QED BY <2>1, <2>2
<1>10. handshake_down' \subseteq oks'
  BY <1>1 DEF KeyInv
<1> QED BY <1>6, <1>7, <1>8, <1>9, <1>10 DEF KeyInv

\* A step that sends no new AuthOk, answers only with one, and neither adds nor
\* rebinds routes and tasks keeps the keys.
LEMMA FrameKeepsKeys ==
    ASSUME KeyInv, oks' = oks, next_generation' = next_generation, handshake_down' \subseteq oks,
           DOMAIN sessions' \subseteq DOMAIN sessions,
           \A s \in DOMAIN sessions' : sessions'[s] = sessions[s],
           DOMAIN handshake_tasks' \subseteq DOMAIN handshake_tasks,
           \A g \in DOMAIN handshake_tasks' : /\ handshake_tasks'[g].session = handshake_tasks[g].session
                                    /\ handshake_tasks'[g].peer = handshake_tasks[g].peer
    PROVE  KeyInv'
  BY DEF KeyInv

\* KeyInv is inductive relative to the types.
LEMMA NextKeepsKeys == Typed /\ KeyInv /\ [Handshake!Next]_(Handshake!vars) => KeyInv'
<1> SUFFICES ASSUME Typed, KeyInv, [Handshake!Next]_(Handshake!vars) PROVE KeyInv'
  OBVIOUS
<1>0. handshake_down \subseteq oks
  BY DEF KeyInv
<1>1. CASE UNCHANGED Handshake!vars
  BY <1>0, <1>1, FrameKeepsKeys DEF Handshake!vars, Handshake!netVars, Handshake!proxyVars
<1>2. ASSUME NEW a \in Agents, Handshake!AgentNext(a) PROVE KeyInv'
  <2>1. oks' = oks /\ handshake_down' \subseteq handshake_down
    BY <1>2 DEF Handshake!AgentNext, Handshake!SendAuthInit, Handshake!AuthTimeout, Handshake!KeepaliveTick, Handshake!DriverEnds,
                Handshake!ReceiveAuthOk, Handshake!AgentReceive, Handshake!netVars
  <2> QED BY <1>0, <1>2, <2>1, OthersKeepProxy, FrameKeepsKeys DEF Handshake!proxyVars
<1>3. CASE Handshake!Network
  <2>1. oks' = oks /\ handshake_down' \subseteq handshake_down
    BY <1>3 DEF Handshake!Network, Handshake!LoseUp, Handshake!LoseDown, Handshake!Rebind, Handshake!TimestampExpires, Handshake!netVars
  <2> QED BY <1>0, <1>3, <2>1, OthersKeepProxy, FrameKeepsKeys DEF Handshake!proxyVars
<1>4. ASSUME NEW m \in inits, Handshake!ResendAuthOk(m) PROVE KeyInv'
  <2>1. Ok(m.session, m.from, sessions[m.session].generation) \in oks
    BY <1>4 DEF Handshake!ResendAuthOk, KeyInv
  <2>2. oks' = oks /\ handshake_down' = handshake_down /\ UNCHANGED Handshake!proxyVars
    BY <1>4, <2>1 DEF Handshake!ResendAuthOk, Ok
  <2> QED BY <1>0, <2>2, FrameKeepsKeys DEF Handshake!proxyVars
<1>5. ASSUME NEW m \in inits, Handshake!RefuseAuthInit(m) PROVE KeyInv'
  BY <1>0, <1>1, <1>5 DEF Handshake!RefuseAuthInit
<1>6. ASSUME NEW d \in handshake_up, Handshake!DispatchEncrypted(d) PROVE KeyInv'
  <2>1. /\ DOMAIN sessions' \subseteq DOMAIN sessions
        /\ \A s \in DOMAIN sessions' : sessions'[s] = sessions[s]
    BY <1>6 DEF Handshake!DispatchEncrypted, Handshake!remove_session, Handshake!Without
  <2>2. oks' = oks /\ handshake_down' = handshake_down /\ next_generation' = next_generation
    BY <1>6 DEF Handshake!DispatchEncrypted
  <2> QED BY <1>0, <1>6, <2>1, <2>2, DispatchKeepsTasks, FrameKeepsKeys DEF SameTasks
<1>7. CASE Handshake!HandleCleanup
  <2>1. /\ DOMAIN sessions' \subseteq DOMAIN sessions
        /\ \A s \in DOMAIN sessions' : sessions'[s] = sessions[s]
    BY <1>7 DEF Handshake!HandleCleanup, Handshake!remove_session, Handshake!Without
  <2> QED BY <1>0, <1>7, <2>1, FrameKeepsKeys DEF Handshake!HandleCleanup, Handshake!netVars
<1>8. ASSUME NEW g \in DOMAIN handshake_tasks, Handshake!SessionReceive(g) PROVE KeyInv'
  <2>1. Ok(handshake_tasks[g].session, handshake_tasks[g].peer, g) \in oks
    BY DEF KeyInv
  <2>2. handshake_down' \subseteq oks /\ oks' = oks /\ UNCHANGED <<sessions, next_generation>>
    BY <1>0, <1>8, <2>1 DEF Handshake!SessionReceive, Ok
  <2> QED BY <1>8, <2>2, ReceiveKeepsTasks, FrameKeepsKeys DEF SameTasks
<1>9. ASSUME NEW g \in DOMAIN handshake_tasks, Handshake!SessionStops(g) PROVE KeyInv'
  <2>1. handshake_down' = handshake_down /\ oks' = oks /\ UNCHANGED <<sessions, next_generation>>
    BY <1>9 DEF Handshake!SessionStops, Handshake!netVars
  <2> QED BY <1>0, <1>9, <2>1, StopKeepsTasks, FrameKeepsKeys DEF SameTasks
<1>10. ASSUME NEW g \in DOMAIN handshake_tasks, Handshake!GuardDropped(g) PROVE KeyInv'
  <2>1. /\ DOMAIN handshake_tasks' \subseteq DOMAIN handshake_tasks
        /\ \A h \in DOMAIN handshake_tasks' : handshake_tasks'[h] = handshake_tasks[h]
    BY <1>10 DEF Handshake!GuardDropped, Handshake!Without
  <2>2. handshake_down' = handshake_down /\ oks' = oks /\ UNCHANGED <<sessions, next_generation>>
    BY <1>10 DEF Handshake!GuardDropped, Handshake!netVars
  <2> QED BY <1>0, <2>1, <2>2, FrameKeepsKeys
<1> QED BY <1>1, <1>2, <1>3, <1>4, <1>5, <1>6, <1>7, <1>8, <1>9, <1>10, CreateKeepsKeys
        DEF Handshake!Next, Handshake!Listener, Handshake!SessionTask

\* A session is bound to one address: neither a repeated AuthInit nor an answer
\* ever makes the proxy send what belongs to a key anywhere but to the address
\* whose AuthInit created the session.
THEOREM KeysAreBound == SuiteSpec => []SessionBoundToPeer
<1>1. Handshake!Init => KeyInv
  BY DEF Handshake!Init, KeyInv
<1>2. Typed /\ KeyInv => SessionBoundToPeer
  <2> SUFFICES ASSUME Typed, KeyInv, NEW m \in oks
               PROVE  /\ \A n \in oks : n.key = m.key => n = m
                      /\ \A d \in handshake_down : d.key = m.key => d = m
                      /\ m.key \in DOMAIN handshake_tasks => handshake_tasks[m.key].peer = m.to
    BY DEF SessionBoundToPeer, Handshake!SessionBoundToPeer
  <2>1. \A n \in oks : n.key = m.key => n = m
    BY DEF KeyInv
  <2>2. \A d \in handshake_down : d.key = m.key => d = m
    BY <2>1 DEF KeyInv
  <2>3. ASSUME m.key \in DOMAIN handshake_tasks PROVE handshake_tasks[m.key].peer = m.to
    <3>1. Ok(handshake_tasks[m.key].session, handshake_tasks[m.key].peer, m.key) \in oks
      BY <2>3 DEF KeyInv
    <3>2. Ok(handshake_tasks[m.key].session, handshake_tasks[m.key].peer, m.key) = m
      BY <2>1, <3>1 DEF Ok
    <3> QED BY <3>2 DEF Ok
  <2> QED BY <2>1, <2>2, <2>3
<1> QED BY HandshakePart, InitTyped, NextTyped, <1>1, <1>2, NextKeepsKeys, PTL DEF Handshake!Spec
-----------------------------------------------------------------------------
\* The limit invariant: the table is finite and within the limit.
TableBounded == /\ IsFiniteSet(DOMAIN sessions)
                /\ Cardinality(DOMAIN sessions) <= SESSION_LIMIT

\* The table only grows in CreateSession, which checks the limit first.
LEMMA NextKeepsTable == TableBounded /\ [Handshake!Next]_(Handshake!vars) => TableBounded'
<1> SUFFICES ASSUME TableBounded, [Handshake!Next]_(Handshake!vars) PROVE TableBounded'
  OBVIOUS
<1>1. ASSUME DOMAIN sessions' \subseteq DOMAIN sessions PROVE TableBounded'
  <2>1. /\ IsFiniteSet(DOMAIN sessions')
        /\ Cardinality(DOMAIN sessions') <= Cardinality(DOMAIN sessions)
    BY <1>1, FS_Subset DEF TableBounded
  <2>2. Cardinality(DOMAIN sessions') \in Nat /\ Cardinality(DOMAIN sessions) \in Nat
    BY <2>1, FS_CardinalityType DEF TableBounded
  <2> QED BY <2>1, <2>2 DEF TableBounded
<1>2. ASSUME NEW m \in inits, Handshake!CreateSession(m) PROVE TableBounded'
  <2>1. DOMAIN sessions' = DOMAIN sessions \cup {m.session} /\ m.session \notin DOMAIN sessions
        /\ Cardinality(DOMAIN sessions) < SESSION_LIMIT
    BY SameSessionCount, <1>2 DEF Handshake!CreateSession, Handshake!With
  <2>2. /\ IsFiniteSet(DOMAIN sessions \cup {m.session})
        /\ Cardinality(DOMAIN sessions \cup {m.session}) = Cardinality(DOMAIN sessions) + 1
    BY <2>1, FS_AddElement DEF TableBounded
  <2>3. Cardinality(DOMAIN sessions) \in Nat
    BY FS_CardinalityType DEF TableBounded
  <2> QED BY <2>1, <2>2, <2>3 DEF TableBounded
<1>3. ASSUME NEW m \in inits, Handshake!ResendAuthOk(m) \/ Handshake!RefuseAuthInit(m) PROVE sessions' = sessions
  BY <1>3 DEF Handshake!ResendAuthOk, Handshake!RefuseAuthInit, Handshake!vars, Handshake!proxyVars
<1>4. ASSUME NEW d \in handshake_up, Handshake!DispatchEncrypted(d) PROVE DOMAIN sessions' \subseteq DOMAIN sessions
  BY <1>4 DEF Handshake!DispatchEncrypted, Handshake!remove_session, Handshake!Without
<1>5. ASSUME Handshake!HandleCleanup PROVE DOMAIN sessions' \subseteq DOMAIN sessions
  BY <1>5 DEF Handshake!HandleCleanup, Handshake!remove_session, Handshake!Without
<1>6. ASSUME NEW g \in DOMAIN handshake_tasks, Handshake!SessionTask(g) PROVE sessions' = sessions
  BY <1>6 DEF Handshake!SessionTask, Handshake!SessionReceive, Handshake!SessionStops, Handshake!GuardDropped
<1>7. CASE UNCHANGED Handshake!vars
  BY <1>1, <1>7 DEF Handshake!vars, Handshake!proxyVars
<1>8. CASE (\E a \in Agents : Handshake!AgentNext(a)) \/ Handshake!Network
  BY <1>1, <1>8, OthersKeepProxy DEF Handshake!proxyVars
<1> QED BY <1>1, <1>2, <1>3, <1>4, <1>5, <1>6, <1>7, <1>8 DEF Handshake!Next, Handshake!Listener

\* Running tasks are routed one to one, so they are no more than the routes.
LEMMA RunningWithinTable ==
    ASSUME Handshake!RunningTaskIsRouted, IsFiniteSet(DOMAIN sessions)
    PROVE  LET R == {g \in DOMAIN handshake_tasks : handshake_tasks[g].running}
           IN IsFiniteSet(R) /\ Cardinality(R) <= Cardinality(DOMAIN sessions)
<1> DEFINE R == {g \in DOMAIN handshake_tasks : handshake_tasks[g].running}
           S == {handshake_tasks[g].session : g \in R}
           f == [s \in S |-> sessions[s].generation]
<1>1. S \subseteq DOMAIN sessions
  BY DEF Handshake!RunningTaskIsRouted
<1>2. IsFiniteSet(S) /\ Cardinality(S) <= Cardinality(DOMAIN sessions)
  BY <1>1, FS_Subset
<1>3. f \in Surjection(S, R)
  <2>1. \A g \in R : handshake_tasks[g].session \in S /\ f[handshake_tasks[g].session] = g
    BY DEF Handshake!RunningTaskIsRouted
  <2>2. f \in [S -> R]
    <3>1. \A s \in S : \E g \in R : s = handshake_tasks[g].session
      OBVIOUS
    <3>2. \A s \in S : f[s] \in R
      <4> HIDE DEF S, R, f
      <4> QED BY <2>1, <3>1
    <3> QED BY <3>2
  <2>3. \A g \in R : \E s \in S : f[s] = g
    BY <2>1
  <2> QED BY <2>2, <2>3 DEF Surjection
<1>4. IsFiniteSet(R) /\ Cardinality(R) <= Cardinality(S)
  <2> HIDE DEF R, S, f
  <2> QED BY <1>2, <1>3, FS_Surjection
<1>5. /\ Cardinality(R) \in Nat /\ Cardinality(S) \in Nat
      /\ Cardinality(DOMAIN sessions) \in Nat
  <2> HIDE DEF R, S
  <2> QED BY <1>2, <1>4, FS_CardinalityType
<1>6. Cardinality(R) <= Cardinality(DOMAIN sessions)
  <2> HIDE DEF R, S
  <2> QED BY <1>2, <1>4, <1>5
<1> QED BY <1>4, <1>6

\* However many clients ask, the proxy never runs more sessions than
\* udp_session_limit, nor keeps more of them in its table.
THEOREM LimitIsKept == SuiteSpec => []SessionLimitHolds
<1>1. Handshake!Init => TableBounded
  <2> SUFFICES ASSUME Handshake!Init PROVE TableBounded
    OBVIOUS
  <2>1. DOMAIN sessions = {}
    BY DEF Handshake!Init
  <2> QED BY <2>1, FS_EmptySet DEF TableBounded
<1>2. TableBounded /\ RunningTaskIsRouted => SessionLimitHolds
  <2> SUFFICES ASSUME TableBounded, Handshake!RunningTaskIsRouted PROVE Handshake!SessionLimitHolds
    BY DEF RunningTaskIsRouted, SessionLimitHolds
  <2> DEFINE R == {g \in DOMAIN handshake_tasks : handshake_tasks[g].running}
  <2>1. IsFiniteSet(R) /\ Cardinality(R) <= Cardinality(DOMAIN sessions)
    BY RunningWithinTable DEF TableBounded
  <2>2. Cardinality(DOMAIN sessions) \in Nat
    BY FS_CardinalityType DEF TableBounded
  <2>4. Cardinality(R) \in Nat
    <3> HIDE DEF R
    <3> QED BY <2>1, FS_CardinalityType
  <2>5. Cardinality(R) <= SESSION_LIMIT
    <3> HIDE DEF R
    <3> QED BY <2>1, <2>2, <2>4 DEF TableBounded
  <2> QED BY SameSessionCount, <2>5 DEF Handshake!SessionLimitHolds, TableBounded
<1> QED BY HandshakePart, <1>1, <1>2, NextKeepsTable, RoutesAreTrue, PTL DEF Handshake!Spec
-----------------------------------------------------------------------------
(* The way out. *)

\* What TypeOK leaves out of the connections.
ConnsTyped ==
    /\ pos \in [Conns -> Nat] /\ iface \in [Conns -> Ifaces \cup {NoIface}]
    /\ snap \in [Conns -> Ifaces \cup {NoIface}] /\ faults \in Nat
    /\ \A c \in Conns : pos[c] \in 1..Len(Resolved[c])

\* A connection that is past the choice of an interface has one.
InterfaceChosen == \A c \in Conns : pc[c] \in {"sources", "install", "lock"} => iface[c] \in Ifaces

\* A guard lives in the attempt that took it and in the stream it became.
GuardWhileConnected == \A c \in Conns : guard[c] # NoRef => pc[c] \in {"connecting", "open"}

\* The inductive invariant.
ConnInv == ConnsTyped /\ InterfaceChosen /\ GuardWhileConnected
RouteInv == WayOut!RefsMatchGuards /\ WayOut!NoRouteIsLeft
EgressInv == WayOut!TypeOK /\ ConnInv /\ RouteInv

Places == {"new", "select", "refresh", "store", "sources", "install", "lock", "connecting", "open",
           "failed", "closed"}
-----------------------------------------------------------------------------
(* The parts of a step. *)

\* In a behaviour of the suite the way out does what its own specification allows.
LEMMA EgressPart == SuiteSpec => WayOut!Spec
<1>1. SuiteInit => WayOut!Init
  BY DEF SuiteInit
<1>2. [SuiteNext]_suite_vars => [WayOut!Next]_(WayOut!vars)
  BY DEF SuiteNext, OnlyChannels, OnlyRelay, OnlyHandshake, OnlyWayOut, suite_vars,
         egress_vars, WayOut!vars
<1> QED
  BY <1>1, <1>2, PTL DEF SuiteSpec, WayOut!Spec

\* The way out counts with the Cardinality of every module.
LEMMA SameGuardCount == \A S : WayOut!Cardinality(S) = Cardinality(S)
BY Zenon DEF Cardinality, WayOut!Cardinality

LEMMA SameFinite == ASSUME WayOut!EgressConstants PROVE IsFiniteSet(Conns)
BY Zenon DEF IsFiniteSet, WayOut!IsFiniteSet, WayOut!EgressConstants

\* Guards are counted by natural numbers, at most one per connection.
LEMMA HoldersAreFinite ==
    ASSUME WayOut!EgressConstants
    PROVE  \A key : /\ IsFiniteSet(WayOut!Holders(key)) /\ Cardinality(WayOut!Holders(key)) \in Nat
                    /\ Cardinality(WayOut!Holders(key)) <= Cardinality(Conns)
<1>1. IsFiniteSet(Conns)
  BY SameFinite
<1>2. \A key : WayOut!Holders(key) \subseteq Conns
  BY DEF WayOut!Holders
<1> QED
  BY <1>1, <1>2, FS_Subset, FS_CardinalityType

\* Steps that leave the routes, the counts and the guards alone.
LEMMA RoutesStay ==
    ASSUME EgressInv, UNCHANGED <<host, refs, guard>>, faults' \in Nat, faults' >= faults
    PROVE  RouteInv'
<1>1. faults \in Nat /\ WayOut!RefsMatchGuards /\ WayOut!NoRouteIsLeft
  BY DEF EgressInv, ConnInv, ConnsTyped, RouteInv
<1>2. WayOut!RefsMatchGuards'
  BY <1>1 DEF WayOut!RefsMatchGuards, WayOut!Holders
<1>3. WayOut!NoRouteIsLeft'
  BY <1>1 DEF WayOut!NoRouteIsLeft
<1> QED
  BY <1>2, <1>3 DEF RouteInv

\* Connection c goes to place p with the address and the interface of its next state.
LEMMA ConnMoves ==
    ASSUME EgressInv, NEW c \in Conns, NEW p \in Places, pc' = [pc EXCEPT ![c] = p],
           NEW n \in 1..Len(Resolved[c]), pos' = [pos EXCEPT ![c] = n],
           NEW i \in Ifaces \cup {NoIface}, iface' = [iface EXCEPT ![c] = i],
           snap' \in [Conns -> Ifaces \cup {NoIface}], faults' \in Nat,
           NEW g \in WayOut!Keys \cup {NoRef}, guard' = [guard EXCEPT ![c] = g],
           p \in {"sources", "install", "lock"} => i \in Ifaces,
           g # NoRef => p \in {"connecting", "open"}
    PROVE  ConnInv' /\ pc' \in [Conns -> Places] /\ guard' \in [Conns -> WayOut!Keys \cup {NoRef}]
<1>0. /\ pc \in [Conns -> Places] /\ guard \in [Conns -> WayOut!Keys \cup {NoRef}]
      /\ pos \in [Conns -> Nat] /\ iface \in [Conns -> Ifaces \cup {NoIface}]
      /\ \A d \in Conns : pos[d] \in 1..Len(Resolved[d])
      /\ InterfaceChosen /\ GuardWhileConnected
  BY DEF EgressInv, ConnInv, ConnsTyped, WayOut!TypeOK, Places
<1>1. \A d \in Conns : /\ pc'[d] = IF d = c THEN p ELSE pc[d]
                       /\ pos'[d] = IF d = c THEN n ELSE pos[d]
                       /\ iface'[d] = IF d = c THEN i ELSE iface[d]
                       /\ guard'[d] = IF d = c THEN g ELSE guard[d]
  BY <1>0
<1>2. /\ pc' \in [Conns -> Places] /\ guard' \in [Conns -> WayOut!Keys \cup {NoRef}]
      /\ iface' \in [Conns -> Ifaces \cup {NoIface}]
  BY <1>0
<1>3. n \in Nat
  OBVIOUS
<1>4. pos' \in [Conns -> Nat]
  BY <1>0, <1>3
<1>5. ConnsTyped'
  BY <1>0, <1>1, <1>2, <1>4 DEF ConnsTyped
<1>6. InterfaceChosen' /\ GuardWhileConnected'
  BY <1>0, <1>1 DEF InterfaceChosen, GuardWhileConnected
<1> QED
  BY <1>2, <1>5, <1>6 DEF ConnInv

\* What a connection's step starts from.
LEMMA ConnFacts ==
    ASSUME WayOut!EgressConstants, EgressInv, NEW c \in Conns
    PROVE  /\ pos \in [Conns -> Nat] /\ pos[c] \in 1..Len(Resolved[c]) /\ Len(Resolved[c]) \in Nat
           /\ iface \in [Conns -> Ifaces \cup {NoIface}] /\ iface[c] \in Ifaces \cup {NoIface}
           /\ snap \in [Conns -> Ifaces \cup {NoIface}] /\ faults \in Nat
           /\ pc \in [Conns -> Places]
           /\ guard \in [Conns -> WayOut!Keys \cup {NoRef}] /\ guard[c] \in WayOut!Keys \cup {NoRef}
           /\ pc[c] \in {"sources", "install", "lock"} => iface[c] \in Ifaces
           /\ pc[c] \notin {"connecting", "open"} => guard[c] = NoRef
           /\ pos = [pos EXCEPT ![c] = pos[c]] /\ iface = [iface EXCEPT ![c] = iface[c]]
           /\ guard = [guard EXCEPT ![c] = guard[c]]
           /\ WayOut!Dst(c) \in WayOut!Dsts
<1>1. /\ pos \in [Conns -> Nat] /\ pos[c] \in 1..Len(Resolved[c]) /\ Len(Resolved[c]) \in Nat
  BY DEF EgressInv, ConnInv, ConnsTyped, WayOut!EgressConstants
<1>2. WayOut!Dst(c) \in WayOut!Dsts
  BY <1>1 DEF WayOut!Dst, WayOut!Dsts
<1>3. /\ iface \in [Conns -> Ifaces \cup {NoIface}]
      /\ snap \in [Conns -> Ifaces \cup {NoIface}] /\ faults \in Nat
      /\ pc \in [Conns -> Places] /\ guard \in [Conns -> WayOut!Keys \cup {NoRef}]
      /\ InterfaceChosen /\ GuardWhileConnected
  BY DEF EgressInv, ConnInv, ConnsTyped, WayOut!TypeOK, Places
<1> QED
  BY <1>1, <1>2, <1>3 DEF InterfaceChosen, GuardWhileConnected

\* TryNext in the form of ConnMoves.
LEMMA TryNextMoves ==
    ASSUME WayOut!EgressConstants, EgressInv, NEW c \in Conns, WayOut!TryNext(c)
    PROVE  \E p \in {"select", "failed"}, n \in 1..Len(Resolved[c]) :
              pc' = [pc EXCEPT ![c] = p] /\ pos' = [pos EXCEPT ![c] = n]
<1>1. pos \in [Conns -> Nat] /\ pos[c] \in 1..Len(Resolved[c]) /\ Len(Resolved[c]) \in Nat
      /\ pos = [pos EXCEPT ![c] = pos[c]]
  BY ConnFacts
<1>2. CASE pos[c] < Len(Resolved[c])
  <2>1. pos[c] + 1 \in 1..Len(Resolved[c])
    BY <1>1, <1>2
  <2>2. pc' = [pc EXCEPT ![c] = "select"] /\ pos' = [pos EXCEPT ![c] = pos[c] + 1]
    BY <1>2 DEF WayOut!TryNext
  <2> QED
    BY <2>1, <2>2
<1>3. CASE ~(pos[c] < Len(Resolved[c]))
  <2>1. pc' = [pc EXCEPT ![c] = "failed"] /\ pos' = [pos EXCEPT ![c] = pos[c]]
    BY <1>1, <1>3 DEF WayOut!TryNext
  <2> QED
    BY <1>1, <2>1
<1> QED
  BY <1>2, <1>3

\* The rest of TypeOK: the machine, the caches, the routes and the counts.
MachineTyped ==
    /\ mode \in Modes /\ udp \subseteq Conns /\ default \in Ifaces \cup {NoIface}
    /\ egress_up \subseteq Ifaces /\ tun \in BOOLEAN
    /\ host \in [WayOut!Dsts -> Ifaces \cup {NoIface}] /\ refs \in [WayOut!Keys -> 0..Cardinality(Conns)]
    /\ cached \in Ifaces \cup {NoIface} /\ ifs \subseteq Ifaces /\ fresh \in BOOLEAN

LEMMA TypesTogether ==
    WayOut!TypeOK <=> MachineTyped /\ pc \in [Conns -> Places] /\ guard \in [Conns -> WayOut!Keys \cup {NoRef}]
BY SameGuardCount DEF WayOut!TypeOK, MachineTyped, Places

LEMMA Combined ==
    ASSUME MachineTyped', ConnInv', RouteInv', pc' \in [Conns -> Places],
           guard' \in [Conns -> WayOut!Keys \cup {NoRef}]
    PROVE  EgressInv'
BY SameGuardCount DEF EgressInv, WayOut!TypeOK, MachineTyped, Places

\* A connection moves and leaves the routes, the counts and the guards alone.
LEMMA PlainMove ==
    ASSUME WayOut!EgressConstants, EgressInv, NEW c \in Conns, NEW p \in Places,
           pc' = [pc EXCEPT ![c] = p],
           NEW n \in 1..Len(Resolved[c]), pos' = [pos EXCEPT ![c] = n],
           NEW i \in Ifaces \cup {NoIface}, iface' = [iface EXCEPT ![c] = i],
           snap' \in [Conns -> Ifaces \cup {NoIface}],
           faults' \in Nat, faults' >= faults,
           UNCHANGED <<host, refs, guard>>, MachineTyped',
           p \in {"sources", "install", "lock"} => i \in Ifaces,
           guard[c] # NoRef => p \in {"connecting", "open"}
    PROVE  EgressInv'
<1>1. guard' = [guard EXCEPT ![c] = guard[c]] /\ guard[c] \in WayOut!Keys \cup {NoRef}
  BY ConnFacts
<1>2. ConnInv' /\ pc' \in [Conns -> Places] /\ guard' \in [Conns -> WayOut!Keys \cup {NoRef}]
  BY <1>1, ConnMoves
<1>3. RouteInv'
  BY RoutesStay
<1> QED
  BY <1>2, <1>3, Combined

\* The next address, or the end, of a connection without a guard.
LEMMA NextAddress ==
    ASSUME WayOut!EgressConstants, EgressInv, NEW c \in Conns, WayOut!TryNext(c), guard[c] = NoRef,
           NEW i \in Ifaces \cup {NoIface}, iface' = [iface EXCEPT ![c] = i],
           snap' \in [Conns -> Ifaces \cup {NoIface}],
           faults' \in Nat, faults' >= faults,
           UNCHANGED <<host, refs, guard>>, MachineTyped'
    PROVE  EgressInv'
<1>1. PICK p \in {"select", "failed"}, n \in 1..Len(Resolved[c]) :
         pc' = [pc EXCEPT ![c] = p] /\ pos' = [pos EXCEPT ![c] = n]
  BY TryNextMoves
<1>2. p \in Places /\ p \notin {"sources", "install", "lock"}
  BY DEF Places
<1> QED
  BY <1>1, <1>2, PlainMove
-----------------------------------------------------------------------------
(* Every step preserves the inductive invariant. *)

LEMMA EgressInit == ASSUME WayOut!EgressConstants, WayOut!Init PROVE EgressInv
<1>1. \A key \in WayOut!Keys : WayOut!Holders(key) = {} /\ refs[key] = 0
  BY DEF WayOut!Init, WayOut!Holders, WayOut!EgressConstants
<1>2. WayOut!RefsMatchGuards
  BY SameGuardCount, <1>1, FS_EmptySet DEF WayOut!RefsMatchGuards
<1>3. WayOut!NoRouteIsLeft
  BY DEF WayOut!Init, WayOut!NoRouteIsLeft
<1>4. Cardinality(Conns) \in Nat
  BY SameFinite, FS_CardinalityType
<1>5. WayOut!TypeOK
  <2>1. /\ mode \in Modes /\ udp \subseteq Conns /\ default \in Ifaces \cup {NoIface} /\ egress_up \subseteq Ifaces
        /\ cached \in Ifaces \cup {NoIface} /\ ifs \subseteq Ifaces
    BY DEF WayOut!Init
  <2>2. tun \in BOOLEAN /\ fresh \in BOOLEAN
    BY DEF WayOut!Init
  <2>3. host \in [WayOut!Dsts -> Ifaces \cup {NoIface}] /\ refs \in [WayOut!Keys -> 0..Cardinality(Conns)]
    BY <1>4 DEF WayOut!Init
  <2>4. pc \in [Conns -> Places] /\ guard \in [Conns -> WayOut!Keys \cup {NoRef}]
    BY DEF WayOut!Init, Places
  <2> QED
    BY <2>1, <2>2, <2>3, <2>4, TypesTogether DEF MachineTyped
<1>6. \A c \in Conns : Len(Resolved[c]) \in Nat /\ Len(Resolved[c]) > 0
  BY DEF WayOut!EgressConstants
<1>7. ConnInv
  BY <1>6 DEF WayOut!Init, ConnInv, ConnsTyped, InterfaceChosen, GuardWhileConnected
<1> QED
  BY <1>2, <1>3, <1>5, <1>7 DEF EgressInv, RouteInv

LEMMA MachineFacts ==
    ASSUME EgressInv
    PROVE  /\ MachineTyped /\ pc \in [Conns -> Places] /\ guard \in [Conns -> WayOut!Keys \cup {NoRef}]
           /\ ConnInv /\ RouteInv /\ faults \in Nat
BY TypesTogether DEF EgressInv, ConnInv, ConnsTyped

LEMMA SurroundingsStep ==
    ASSUME WayOut!EgressConstants, EgressInv,
           WayOut!TunComesOrGoes \/ WayOut!DefaultMoves \/ WayOut!AddressComesOrGoes \/ WayOut!CacheExpires
    PROVE  EgressInv'
<1>1. /\ MachineTyped /\ pc \in [Conns -> Places] /\ guard \in [Conns -> WayOut!Keys \cup {NoRef}]
      /\ ConnInv /\ faults \in Nat
  BY MachineFacts
<1>2. UNCHANGED <<host, refs, pc, pos, iface, snap, guard, faults, mode, udp, cached, ifs>>
  BY DEF WayOut!TunComesOrGoes, WayOut!DefaultMoves, WayOut!AddressComesOrGoes, WayOut!CacheExpires, WayOut!machine, WayOut!caches, WayOut!bounds
<1>3. default' \in Ifaces \cup {NoIface} /\ egress_up' \subseteq Ifaces /\ tun' \in BOOLEAN /\ fresh' \in BOOLEAN
  BY <1>1 DEF WayOut!TunComesOrGoes, WayOut!DefaultMoves, WayOut!AddressComesOrGoes, WayOut!CacheExpires, WayOut!machine, WayOut!caches,
              WayOut!bounds, MachineTyped
<1>4. MachineTyped'
  BY <1>1, <1>2, <1>3 DEF MachineTyped
<1>5. ConnInv'
  BY <1>1, <1>2 DEF ConnInv, ConnsTyped, InterfaceChosen, GuardWhileConnected
<1>6. RouteInv'
  BY <1>1, <1>2, RoutesStay
<1> QED
  BY <1>1, <1>2, <1>4, <1>5, <1>6, Combined

\* The cache of interface addresses holds interfaces.
LEMMA CacheTyped ==
    ASSUME MachineTyped, NEW i,
           WayOut!refresh_if_addrs(i) \/ WayOut!AddressesRead(i) \/ UNCHANGED <<ifs, fresh>>
    PROVE  ifs' \subseteq Ifaces /\ fresh' \in BOOLEAN
BY DEF MachineTyped, WayOut!refresh_if_addrs, WayOut!AddressesRead

LEMMA AutoTyped ==
    ASSUME NEW i \in Ifaces \cup {NoIface} PROVE WayOut!auto_interface_for_dst(i) \in Ifaces \cup {NoIface}
BY DEF WayOut!auto_interface_for_dst

LEMMA StartStep ==
    ASSUME WayOut!EgressConstants, EgressInv, NEW c \in Conns,
           WayOut!connect_with_interface(c) \/ WayOut!connect_default(c) \/ WayOut!Connected(c)
    PROVE  EgressInv'
<1>1. MachineTyped
  BY MachineFacts
<1>2. UNCHANGED <<mode, udp, default, egress_up, tun, cached, ifs, fresh, host, refs, pos, iface, snap, guard>>
  BY DEF WayOut!connect_with_interface, WayOut!connect_default, WayOut!Connected, WayOut!machine, WayOut!caches, WayOut!bounds
<1>3. /\ pos[c] \in 1..Len(Resolved[c]) /\ iface[c] \in Ifaces \cup {NoIface}
      /\ snap \in [Conns -> Ifaces \cup {NoIface}] /\ faults \in Nat
      /\ pos = [pos EXCEPT ![c] = pos[c]] /\ iface = [iface EXCEPT ![c] = iface[c]]
      /\ pc[c] \notin {"connecting", "open"} => guard[c] = NoRef
  BY ConnFacts
<1>4. MachineTyped'
  BY <1>1, <1>2 DEF MachineTyped
<1>5. faults' \in Nat /\ faults' >= faults
  BY <1>3 DEF WayOut!connect_with_interface, WayOut!connect_default, WayOut!Connected, WayOut!bounds, WayOut!Fault
<1>6. /\ pc[c] = "new" \/ pc[c] = "connecting"
      /\ \E p \in {"select", "open", "failed"} :
            pc' = [pc EXCEPT ![c] = p] /\ (pc[c] = "connecting" => p = "open")
  BY DEF WayOut!connect_with_interface, WayOut!connect_default, WayOut!Connected
<1>7. PICK p \in {"select", "open", "failed"} :
            pc' = [pc EXCEPT ![c] = p] /\ (pc[c] = "connecting" => p = "open")
  BY <1>6
<1>8. p \in Places /\ p \notin {"sources", "install", "lock"}
  BY DEF Places
<1>9. guard[c] # NoRef => p \in {"connecting", "open"}
  BY <1>3, <1>6, <1>7
<1> QED
  BY <1>2, <1>3, <1>4, <1>5, <1>7, <1>8, <1>9, PlainMove

LEMMA SelectStep ==
    ASSUME WayOut!EgressConstants, EgressInv, NEW c \in Conns,
           WayOut!NamedInterface(c) \/ WayOut!interface_for_dst(c)
    PROVE  EgressInv'
<1>1. MachineTyped
  BY MachineFacts
<1>2. /\ UNCHANGED <<mode, udp, default, egress_up, tun, cached, host, refs, snap, guard>>
      /\ pc[c] = "select"
  BY DEF WayOut!NamedInterface, WayOut!interface_for_dst, WayOut!machine, WayOut!caches, WayOut!bounds
<1>3. /\ pos[c] \in 1..Len(Resolved[c]) /\ iface[c] \in Ifaces \cup {NoIface}
      /\ snap' \in [Conns -> Ifaces \cup {NoIface}] /\ faults \in Nat
      /\ pos = [pos EXCEPT ![c] = pos[c]] /\ iface = [iface EXCEPT ![c] = iface[c]]
      /\ guard[c] = NoRef
  BY <1>2, ConnFacts
<1>4. ifs' \subseteq Ifaces /\ fresh' \in BOOLEAN
  <2>1. UNCHANGED <<ifs, fresh>> \/ WayOut!AddressesRead(cached)
    BY DEF WayOut!NamedInterface, WayOut!interface_for_dst, WayOut!caches
  <2> QED
    BY <1>1, <2>1, CacheTyped
<1>5. MachineTyped'
  BY <1>1, <1>2, <1>4 DEF MachineTyped
<1>6. ASSUME NEW p \in {"sources", "refresh"}, NEW i \in Ifaces \cup {NoIface},
             pc' = [pc EXCEPT ![c] = p], iface' = [iface EXCEPT ![c] = i],
             p = "sources" => i \in Ifaces, UNCHANGED <<pos, faults>>
      PROVE  EgressInv'
  <2>1. p \in Places /\ (p \in {"sources", "install", "lock"} => i \in Ifaces)
    BY <1>6 DEF Places
  <2>2. faults' \in Nat /\ faults' >= faults /\ pos' = [pos EXCEPT ![c] = pos[c]]
    BY <1>3, <1>6
  <2> QED
    BY <1>2, <1>3, <1>5, <1>6, <2>1, <2>2, PlainMove
<1>7. ASSUME WayOut!TryNext(c), UNCHANGED iface, WayOut!Fault \/ UNCHANGED faults PROVE EgressInv'
  <2>1. faults' \in Nat /\ faults' >= faults
    BY <1>3, <1>7 DEF WayOut!Fault
  <2>2. iface' = [iface EXCEPT ![c] = iface[c]]
    BY <1>3, <1>7
  <2> QED
    BY <1>2, <1>3, <1>5, <1>7, <2>1, <2>2, NextAddress
<1>8. CASE WayOut!NamedInterface(c)
  <2>1. /\ pc' = [pc EXCEPT ![c] = "sources"] /\ iface' = [iface EXCEPT ![c] = Named]
        /\ UNCHANGED <<pos, faults>> /\ Named \in Ifaces
    BY <1>8 DEF WayOut!NamedInterface, WayOut!bounds, WayOut!EgressConstants
  <2> QED
    BY <1>6, <2>1
<1>9. CASE WayOut!interface_for_dst(c)
  <2> DEFINE i == WayOut!auto_interface_for_dst(cached)
  <2>1. i \in Ifaces \cup {NoIface} /\ NoIface \in Ifaces \cup {NoIface}
    BY <1>1, AutoTyped DEF MachineTyped
  <2>2. \/ /\ i # NoIface /\ pc' = [pc EXCEPT ![c] = "sources"] /\ iface' = [iface EXCEPT ![c] = i]
           /\ UNCHANGED <<pos, faults>>
        \/ /\ pc' = [pc EXCEPT ![c] = "refresh"] /\ iface' = [iface EXCEPT ![c] = NoIface]
           /\ UNCHANGED <<pos, faults>>
        \/ WayOut!TryNext(c) /\ UNCHANGED iface /\ (WayOut!Fault \/ UNCHANGED faults)
    BY <1>9 DEF WayOut!interface_for_dst
  <2> HIDE DEF i
  <2> QED
    BY <1>6, <1>7, <2>1, <2>2
<1> QED
  BY <1>8, <1>9

LEMMA ReadStep ==
    ASSUME WayOut!EgressConstants, EgressInv, NEW c \in Conns, WayOut!read_routes(c)
    PROVE  EgressInv'
<1>1. MachineTyped
  BY MachineFacts
<1>2. UNCHANGED <<mode, udp, default, egress_up, tun, cached, host, refs, guard>> /\ pc[c] = "refresh"
  BY DEF WayOut!read_routes, WayOut!machine
<1>3. /\ pos[c] \in 1..Len(Resolved[c]) /\ iface[c] \in Ifaces \cup {NoIface}
      /\ snap \in [Conns -> Ifaces \cup {NoIface}] /\ faults \in Nat
      /\ pos = [pos EXCEPT ![c] = pos[c]] /\ iface = [iface EXCEPT ![c] = iface[c]]
      /\ guard[c] = NoRef
  BY <1>2, ConnFacts
<1>4. MachineTyped'
  <2>1. UNCHANGED <<ifs, fresh>> \/ WayOut!AddressesRead(default)
    BY DEF WayOut!read_routes
  <2>2. ifs' \subseteq Ifaces /\ fresh' \in BOOLEAN
    BY <1>1, <2>1, CacheTyped
  <2> QED
    BY <1>1, <1>2, <2>2 DEF MachineTyped
<1>5. ASSUME NEW i \in Ifaces \cup {NoIface}, iface' = [iface EXCEPT ![c] = i],
             pc' = [pc EXCEPT ![c] = "store"], snap' = [snap EXCEPT ![c] = default],
             UNCHANGED pos, WayOut!Fault \/ UNCHANGED faults
      PROVE  EgressInv'
  <2>1. snap' \in [Conns -> Ifaces \cup {NoIface}]
    BY <1>1, <1>3, <1>5 DEF MachineTyped
  <2>2. "store" \in Places /\ "store" \notin {"sources", "install", "lock"}
    BY DEF Places
  <2>3. faults' \in Nat /\ faults' >= faults /\ pos' = [pos EXCEPT ![c] = pos[c]]
    BY <1>3, <1>5 DEF WayOut!Fault
  <2> QED
    BY <1>2, <1>3, <1>4, <1>5, <2>1, <2>2, <2>3, PlainMove
<1>6. ASSUME WayOut!Fault, WayOut!TryNext(c), UNCHANGED <<snap, iface>>
      PROVE  EgressInv'
  <2>1. faults' \in Nat /\ faults' >= faults /\ snap' \in [Conns -> Ifaces \cup {NoIface}]
        /\ iface' = [iface EXCEPT ![c] = iface[c]]
    BY <1>3, <1>6 DEF WayOut!Fault
  <2> QED
    BY <1>2, <1>3, <1>4, <1>6, <2>1, NextAddress
<1> DEFINE i == WayOut!auto_interface_for_dst(default)
<1>7. i \in Ifaces \cup {NoIface}
  BY <1>1, AutoTyped DEF MachineTyped
<1>8. \/ /\ pc' = [pc EXCEPT ![c] = "store"] /\ snap' = [snap EXCEPT ![c] = default] /\ UNCHANGED pos
         /\ iface' = [iface EXCEPT ![c] = i] \/ iface' = [iface EXCEPT ![c] = iface[c]]
         /\ WayOut!Fault \/ UNCHANGED faults
      \/ WayOut!Fault /\ WayOut!TryNext(c) /\ UNCHANGED <<snap, iface>>
  BY <1>3 DEF WayOut!read_routes
<1> HIDE DEF i
<1> QED
  BY <1>3, <1>5, <1>6, <1>7, <1>8

LEMMA StoreStep ==
    ASSUME WayOut!EgressConstants, EgressInv, NEW c \in Conns, WayOut!StoreRoutes(c)
    PROVE  EgressInv'
<1>1. MachineTyped
  BY MachineFacts
<1>2. /\ UNCHANGED <<mode, udp, default, egress_up, tun, ifs, fresh, host, refs, guard, iface, snap, faults>>
      /\ pc[c] = "store" /\ cached' = snap[c]
  BY DEF WayOut!StoreRoutes, WayOut!machine, WayOut!bounds
<1>3. /\ pos[c] \in 1..Len(Resolved[c]) /\ iface[c] \in Ifaces \cup {NoIface}
      /\ snap \in [Conns -> Ifaces \cup {NoIface}] /\ faults \in Nat
      /\ pos = [pos EXCEPT ![c] = pos[c]] /\ iface = [iface EXCEPT ![c] = iface[c]]
      /\ guard[c] = NoRef
  BY <1>2, ConnFacts
<1>4. /\ MachineTyped' /\ faults' \in Nat /\ faults' >= faults
      /\ snap' \in [Conns -> Ifaces \cup {NoIface}] /\ iface' = [iface EXCEPT ![c] = iface[c]]
  BY <1>1, <1>2, <1>3 DEF MachineTyped
<1>5. CASE iface[c] = NoIface
  <2>1. WayOut!TryNext(c)
    BY <1>5 DEF WayOut!StoreRoutes
  <2> QED
    BY <1>2, <1>3, <1>4, <2>1, NextAddress
<1>6. CASE iface[c] # NoIface
  <2>1. pc' = [pc EXCEPT ![c] = "sources"] /\ pos' = [pos EXCEPT ![c] = pos[c]]
    BY <1>3, <1>6 DEF WayOut!StoreRoutes
  <2>2. "sources" \in Places
    BY DEF Places
  <2> QED
    BY <1>2, <1>3, <1>4, <1>6, <2>1, <2>2, PlainMove
<1> QED
  BY <1>5, <1>6

LEMMA BindStep ==
    ASSUME WayOut!EgressConstants, EgressInv, NEW c \in Conns, WayOut!interface_bind_addrs(c) \/ WayOut!install(c)
    PROVE  EgressInv'
<1>1. MachineTyped
  BY MachineFacts
<1>2. /\ UNCHANGED <<mode, udp, default, egress_up, tun, cached, host, refs, guard, iface, snap>>
      /\ pc[c] \in {"sources", "install"} /\ (WayOut!Fault \/ UNCHANGED faults)
  BY DEF WayOut!interface_bind_addrs, WayOut!install, WayOut!machine, WayOut!bounds, WayOut!caches
<1>3. /\ pos[c] \in 1..Len(Resolved[c]) /\ iface[c] \in Ifaces
      /\ snap \in [Conns -> Ifaces \cup {NoIface}] /\ faults \in Nat
      /\ pos = [pos EXCEPT ![c] = pos[c]] /\ iface = [iface EXCEPT ![c] = iface[c]]
      /\ guard[c] = NoRef
  BY <1>2, ConnFacts
<1>4. ifs' \subseteq Ifaces /\ fresh' \in BOOLEAN
  <2>1. UNCHANGED <<ifs, fresh>> \/ WayOut!refresh_if_addrs(iface[c])
    BY DEF WayOut!interface_bind_addrs, WayOut!install, WayOut!caches
  <2> QED
    BY <1>1, <2>1, CacheTyped
<1>5. /\ MachineTyped' /\ faults' \in Nat /\ faults' >= faults
      /\ snap' \in [Conns -> Ifaces \cup {NoIface}] /\ iface' = [iface EXCEPT ![c] = iface[c]]
  BY <1>1, <1>2, <1>3, <1>4 DEF MachineTyped, WayOut!Fault
<1>6. \/ WayOut!TryNext(c)
      \/ \E p \in {"connecting", "install", "lock"} :
            pc' = [pc EXCEPT ![c] = p] /\ UNCHANGED pos
  BY DEF WayOut!interface_bind_addrs, WayOut!install
<1>7. CASE WayOut!TryNext(c)
  BY <1>2, <1>3, <1>5, <1>7, NextAddress
<1>8. ASSUME NEW p \in {"connecting", "install", "lock"}, pc' = [pc EXCEPT ![c] = p], UNCHANGED pos
      PROVE  EgressInv'
  <2>1. p \in Places /\ pos' = [pos EXCEPT ![c] = pos[c]]
    BY <1>3, <1>8 DEF Places
  <2> QED
    BY <1>2, <1>3, <1>5, <1>8, <2>1, PlainMove
<1> QED
  BY <1>6, <1>7, <1>8
-----------------------------------------------------------------------------
(* The two steps that count. *)

\* What the counts say before a step.
LEMMA CountFacts ==
    ASSUME WayOut!EgressConstants, EgressInv, NEW key \in WayOut!Keys
    PROVE  /\ refs \in [WayOut!Keys -> 0..Cardinality(Conns)] /\ Cardinality(Conns) \in Nat
           /\ refs[key] = Cardinality(WayOut!Holders(key)) /\ refs[key] \in Nat
           /\ refs[key] > 0 => host[key[1]] = key[2]
           /\ host \in [WayOut!Dsts -> Ifaces \cup {NoIface}]
           /\ key[1] \in WayOut!Dsts /\ key[2] \in Ifaces /\ key = <<key[1], key[2]>>
<1>1. Cardinality(Conns) \in Nat
  BY SameFinite, FS_CardinalityType
<1> QED
  BY SameGuardCount, <1>1 DEF EgressInv, WayOut!TypeOK, RouteInv, WayOut!RefsMatchGuards, WayOut!Keys

\* The guards of other keys are not counted with this one.
LEMMA OtherHolders ==
    ASSUME EgressInv, NEW c \in Conns, NEW g, guard' = [guard EXCEPT ![c] = g],
           NEW key \in WayOut!Keys, key # guard[c], key # g
    PROVE  WayOut!Holders(key)' = WayOut!Holders(key)
<1>1. \A d \in Conns : guard'[d] = IF d = c THEN g ELSE guard[d]
  BY DEF EgressInv, WayOut!TypeOK
<1> QED
  BY <1>1 DEF WayOut!Holders

\* Counts that are right are in range.
LEMMA CountsTyped ==
    ASSUME WayOut!EgressConstants, refs' = [k \in WayOut!Keys |-> refs'[k]],
           \A k \in WayOut!Keys : refs'[k] = Cardinality(WayOut!Holders(k)')
    PROVE  refs' \in [WayOut!Keys -> 0..Cardinality(Conns)]
<1> SUFFICES ASSUME NEW k \in WayOut!Keys PROVE refs'[k] \in 0..Cardinality(Conns)
  OBVIOUS
<1>1. IsFiniteSet(Conns) /\ WayOut!Holders(k)' \subseteq Conns
  BY SameFinite DEF WayOut!Holders
<1>2. Cardinality(Conns) \in Nat /\ Cardinality(WayOut!Holders(k)') \in Nat
  BY <1>1, FS_Subset, FS_CardinalityType
<1>3. Cardinality(WayOut!Holders(k)') <= Cardinality(Conns)
  BY <1>1, FS_Subset
<1> QED
  BY <1>2, <1>3

LEMMA OneMore ==
    ASSUME WayOut!EgressConstants, EgressInv, NEW c \in Conns, NEW key \in WayOut!Keys, guard[c] = NoRef,
           guard' = [guard EXCEPT ![c] = key], refs' = [refs EXCEPT ![key] = @ + 1]
    PROVE  /\ \A k \in WayOut!Keys : refs'[k] = Cardinality(WayOut!Holders(k)')
           /\ refs' \in [WayOut!Keys -> 0..Cardinality(Conns)]
           /\ \A k \in WayOut!Keys : refs'[k] = IF k = key THEN refs[k] + 1 ELSE refs[k]
<1>0. NoRef \notin WayOut!Keys
  BY DEF WayOut!EgressConstants
<1>1. \A k \in WayOut!Keys : refs'[k] = IF k = key THEN refs[k] + 1 ELSE refs[k]
  BY CountFacts
<1>2. WayOut!Holders(key)' = WayOut!Holders(key) \cup {c} /\ c \notin WayOut!Holders(key)
  <2>1. \A d \in Conns : guard'[d] = IF d = c THEN key ELSE guard[d]
    BY DEF EgressInv, WayOut!TypeOK
  <2> QED
    BY <1>0, <2>1 DEF WayOut!Holders
<1>3. Cardinality(WayOut!Holders(key)') = Cardinality(WayOut!Holders(key)) + 1
  <2>1. IsFiniteSet(WayOut!Holders(key))
    BY HoldersAreFinite
  <2> QED
    BY <1>2, <2>1, FS_AddElement
<1>4. \A k \in WayOut!Keys : refs'[k] = Cardinality(WayOut!Holders(k)')
  <2> SUFFICES ASSUME NEW k \in WayOut!Keys PROVE refs'[k] = Cardinality(WayOut!Holders(k)')
    BY DEF WayOut!Holders
  <2>1. CASE k = key
    BY <1>1, <1>3, <2>1, CountFacts
  <2>2. CASE k # key
    <3>1. WayOut!Holders(k)' = WayOut!Holders(k)
      BY <1>0, <2>2, OtherHolders
    <3> QED
      BY <1>1, <2>2, <3>1, CountFacts
  <2> QED
    BY <2>1, <2>2
<1>6. refs' \in [WayOut!Keys -> 0..Cardinality(Conns)]
  <2>1. refs' = [k \in WayOut!Keys |-> refs'[k]]
    BY CountFacts
  <2> QED
    BY <1>4, <2>1, CountsTyped
<1> QED
  BY <1>1, <1>4, <1>6

LEMMA OneLess ==
    ASSUME WayOut!EgressConstants, EgressInv, NEW c \in Conns, NEW key \in WayOut!Keys, guard[c] = key,
           guard' = [guard EXCEPT ![c] = NoRef], refs' = [refs EXCEPT ![key] = @ - 1]
    PROVE  /\ \A k \in WayOut!Keys : refs'[k] = Cardinality(WayOut!Holders(k)')
           /\ refs' \in [WayOut!Keys -> 0..Cardinality(Conns)]
           /\ \A k \in WayOut!Keys : refs'[k] = IF k = key THEN refs[k] - 1 ELSE refs[k]
           /\ refs[key] > 0
<1>0. NoRef \notin WayOut!Keys
  BY DEF WayOut!EgressConstants
<1>1. \A k \in WayOut!Keys : refs'[k] = IF k = key THEN refs[k] - 1 ELSE refs[k]
  BY CountFacts
<1>2. WayOut!Holders(key)' = WayOut!Holders(key) \ {c} /\ c \in WayOut!Holders(key)
  <2>1. \A d \in Conns : guard'[d] = IF d = c THEN NoRef ELSE guard[d]
    BY DEF EgressInv, WayOut!TypeOK
  <2> QED
    BY <1>0, <2>1 DEF WayOut!Holders
<1>3. Cardinality(WayOut!Holders(key)') = Cardinality(WayOut!Holders(key)) - 1
  <2>1. IsFiniteSet(WayOut!Holders(key))
    BY HoldersAreFinite
  <2> QED
    BY <1>2, <2>1, FS_RemoveElement, ZenonT(60)
<1>4. \A k \in WayOut!Keys : refs'[k] = Cardinality(WayOut!Holders(k)')
  <2> SUFFICES ASSUME NEW k \in WayOut!Keys PROVE refs'[k] = Cardinality(WayOut!Holders(k)')
    BY DEF WayOut!Holders
  <2>1. CASE k = key
    BY <1>1, <1>3, <2>1, CountFacts
  <2>2. CASE k # key
    <3>1. WayOut!Holders(k)' = WayOut!Holders(k)
      BY <1>0, <2>2, OtherHolders
    <3> QED
      BY <1>1, <2>2, <3>1, CountFacts
  <2> QED
    BY <2>1, <2>2
<1>6. refs' \in [WayOut!Keys -> 0..Cardinality(Conns)]
  <2>1. refs' = [k \in WayOut!Keys |-> refs'[k]]
    BY CountFacts
  <2> QED
    BY <1>4, <2>1, CountsTyped
<1>7. refs[key] > 0
  <2>1. Cardinality(WayOut!Holders(key)') \in Nat
    <3>1. IsFiniteSet(WayOut!Holders(key) \ {c})
      BY HoldersAreFinite, FS_Difference
    <3> QED
      BY <1>2, <3>1, FS_CardinalityType
  <2>2. refs[key] = Cardinality(WayOut!Holders(key)) /\ refs[key] \in Nat
    BY CountFacts
  <2> QED
    BY <1>3, <2>1, <2>2
<1> QED
  BY <1>1, <1>4, <1>6, <1>7

LEMMA AddStep ==
    ASSUME WayOut!EgressConstants, EgressInv, NEW c \in Conns, WayOut!AddRoute(c)
    PROVE  EgressInv'
<1> DEFINE key == <<WayOut!Dst(c), iface[c]>>
<1>1. MachineTyped /\ WayOut!RefsMatchGuards /\ WayOut!NoRouteIsLeft
  BY MachineFacts DEF RouteInv
<1>2. /\ UNCHANGED <<mode, udp, default, egress_up, tun, cached, ifs, fresh, iface, snap>>
      /\ pc[c] = "lock"
  BY DEF WayOut!AddRoute, WayOut!machine, WayOut!caches
<1>3. /\ pos[c] \in 1..Len(Resolved[c]) /\ iface[c] \in Ifaces
      /\ snap \in [Conns -> Ifaces \cup {NoIface}] /\ faults \in Nat
      /\ pos = [pos EXCEPT ![c] = pos[c]] /\ iface = [iface EXCEPT ![c] = iface[c]]
      /\ guard[c] = NoRef /\ WayOut!Dst(c) \in WayOut!Dsts
  BY <1>2, ConnFacts
<1>4. key \in WayOut!Keys /\ key[1] = WayOut!Dst(c) /\ key[2] = iface[c]
  BY <1>3 DEF WayOut!Keys
<1>5. snap' \in [Conns -> Ifaces \cup {NoIface}] /\ iface' = [iface EXCEPT ![c] = iface[c]]
  BY <1>2, <1>3
<1>6. ASSUME refs[key] > 0 \/ host[WayOut!Dst(c)] = NoIface, refs' = [refs EXCEPT ![key] = @ + 1],
             guard' = [guard EXCEPT ![c] = key],
             host' = IF refs[key] > 0 THEN host ELSE [host EXCEPT ![WayOut!Dst(c)] = iface[c]],
             pc' = [pc EXCEPT ![c] = "connecting"], UNCHANGED <<pos, faults>>
      PROVE  EgressInv'
  <2> HIDE DEF key
  <2>1. /\ \A k \in WayOut!Keys : refs'[k] = Cardinality(WayOut!Holders(k)')
        /\ refs' \in [WayOut!Keys -> 0..Cardinality(Conns)]
        /\ \A k \in WayOut!Keys : refs'[k] = IF k = key THEN refs[k] + 1 ELSE refs[k]
    BY <1>3, <1>4, <1>6, OneMore
  <2>2. /\ host \in [WayOut!Dsts -> Ifaces \cup {NoIface}]
        /\ \A d \in WayOut!Dsts : host'[d] = IF d = WayOut!Dst(c) THEN iface[c] ELSE host[d]
        /\ host' \in [WayOut!Dsts -> Ifaces \cup {NoIface}]
    <3>1. host \in [WayOut!Dsts -> Ifaces \cup {NoIface}]
      BY <1>1 DEF MachineTyped
    <3>2. CASE refs[key] > 0
      <4>1. host[WayOut!Dst(c)] = iface[c]
        BY <1>4, <3>2, CountFacts
      <4> QED
        BY <1>6, <3>1, <3>2, <4>1
    <3>3. CASE ~(refs[key] > 0)
      BY <1>3, <1>6, <3>1, <3>3
    <3> QED
      BY <3>1, <3>2, <3>3
  <2>3. \A k \in WayOut!Keys : refs'[k] > 0 => host'[k[1]] = k[2]
    <3> SUFFICES ASSUME NEW k \in WayOut!Keys, refs'[k] > 0 PROVE host'[k[1]] = k[2]
      OBVIOUS
    <3>1. /\ k[1] \in WayOut!Dsts /\ k[2] \in Ifaces /\ k = <<k[1], k[2]>>
          /\ refs[k] > 0 => host[k[1]] = k[2]
      BY CountFacts
    <3>2. key = <<WayOut!Dst(c), iface[c]>>
      BY DEF key
    <3>3. CASE k = key
      BY <1>4, <2>2, <3>1, <3>3
    <3>4. CASE k # key
      <4>1. refs[k] > 0 /\ host[k[1]] = k[2]
        BY <2>1, <3>1, <3>4
      <4>2. CASE k[1] # WayOut!Dst(c)
        BY <2>2, <3>1, <4>1, <4>2
      <4>3. CASE k[1] = WayOut!Dst(c)
        <5>1. host[WayOut!Dst(c)] # NoIface
          BY <3>1, <4>1, <4>3 DEF WayOut!EgressConstants
        <5>2. refs[key] > 0
          BY <1>6, <5>1
        <5>3. host[WayOut!Dst(c)] = iface[c]
          BY <1>4, <5>2, CountFacts
        <5> QED
          BY <3>1, <3>2, <3>4, <4>1, <4>3, <5>3
      <4> QED
        BY <4>2, <4>3
    <3> QED
      BY <3>3, <3>4
  <2>4. WayOut!RefsMatchGuards'
    BY SameGuardCount, <2>1, <2>3 DEF WayOut!RefsMatchGuards
  <2>5. WayOut!NoRouteIsLeft'
    <3> SUFFICES ASSUME NEW d \in WayOut!Dsts, host'[d] # NoIface, refs'[<<d, host'[d]>>] = 0
                 PROVE  faults' > 0
      BY DEF WayOut!NoRouteIsLeft
    <3>1. d # WayOut!Dst(c)
      <4> SUFFICES ASSUME d = WayOut!Dst(c) PROVE FALSE
        OBVIOUS
      <4>1. <<d, host'[d]>> = key
        BY <2>2 DEF key
      <4>2. refs'[key] = refs[key] + 1 /\ refs[key] \in Nat
        BY <1>4, <2>1, CountFacts
      <4> QED
        BY <4>1, <4>2
    <3>2. host'[d] = host[d] /\ <<d, host[d]>> \in WayOut!Keys /\ <<d, host[d]>> # key
      BY <2>2, <3>1 DEF WayOut!Keys, key
    <3>3. refs[<<d, host[d]>>] = 0
      BY <2>1, <3>2
    <3>4. faults > 0
      BY <1>1, <3>2, <3>3 DEF WayOut!NoRouteIsLeft
    <3> QED
      BY <1>6, <3>4
  <2>6. MachineTyped'
    BY <1>1, <1>2, <2>1, <2>2 DEF MachineTyped
  <2>7. /\ "connecting" \in Places /\ pos' = [pos EXCEPT ![c] = pos[c]] /\ faults' \in Nat
    BY <1>3, <1>6 DEF Places
  <2>8. ConnInv' /\ pc' \in [Conns -> Places] /\ guard' \in [Conns -> WayOut!Keys \cup {NoRef}]
    BY <1>3, <1>4, <1>5, <1>6, <2>7, ConnMoves
  <2> QED
    BY <2>4, <2>5, <2>6, <2>8, Combined DEF RouteInv
<1>7. ASSUME pc' = [pc EXCEPT ![c] = "connecting"], UNCHANGED <<refs, guard, host, pos, faults>>
      PROVE  EgressInv'
  <2>1. MachineTyped'
    BY <1>1, <1>2, <1>7 DEF MachineTyped
  <2>2. /\ "connecting" \in Places /\ pos' = [pos EXCEPT ![c] = pos[c]] /\ faults' \in Nat
        /\ faults' >= faults
    BY <1>3, <1>7 DEF Places
  <2> QED
    BY <1>3, <1>5, <1>7, <2>1, <2>2, PlainMove
<1>8. ASSUME WayOut!Fault, WayOut!TryNext(c), UNCHANGED <<refs, guard, host>> PROVE EgressInv'
  <2>1. MachineTyped'
    BY <1>1, <1>2, <1>8 DEF MachineTyped
  <2>2. faults' \in Nat /\ faults' >= faults
    BY <1>3, <1>8 DEF WayOut!Fault
  <2> QED
    BY <1>3, <1>5, <1>8, <2>1, <2>2, NextAddress
<1> QED
  BY <1>6, <1>7, <1>8 DEF WayOut!AddRoute

\* The guard of a connection goes, with its reference and, if that was the last, its route.
LEMMA DropFacts ==
    ASSUME WayOut!EgressConstants, EgressInv, NEW c \in Conns, WayOut!DropGuard(c)
    PROVE  /\ RouteInv' /\ guard' = [guard EXCEPT ![c] = NoRef]
           /\ host' \in [WayOut!Dsts -> Ifaces \cup {NoIface}] /\ refs' \in [WayOut!Keys -> 0..Cardinality(Conns)]
           /\ faults' \in Nat /\ faults' >= faults
<1>1. MachineTyped /\ WayOut!RefsMatchGuards /\ WayOut!NoRouteIsLeft
  BY MachineFacts DEF RouteInv
<1>2. /\ guard' = [guard EXCEPT ![c] = NoRef] /\ faults \in Nat
      /\ guard[c] \in WayOut!Keys \cup {NoRef} /\ guard = [guard EXCEPT ![c] = guard[c]]
  BY ConnFacts DEF WayOut!DropGuard
<1>3. CASE guard[c] = NoRef
  <2>1. UNCHANGED <<host, refs, guard, faults>>
    BY <1>2, <1>3 DEF WayOut!DropGuard
  <2>2. RouteInv'
    BY <1>2, <2>1, RoutesStay
  <2> QED
    BY <1>1, <1>2, <2>1, <2>2 DEF MachineTyped
<1>4. CASE guard[c] # NoRef
  <2> DEFINE key == guard[c]
  <2>1. key \in WayOut!Keys
    BY <1>2, <1>4
  <2>2. /\ refs' = [refs EXCEPT ![key] = @ - 1]
        /\ IF refs[key] > 1 THEN UNCHANGED <<host, faults>>
           ELSE \/ host' = [host EXCEPT ![key[1]] = NoIface] /\ UNCHANGED faults
                \/ WayOut!Fault /\ UNCHANGED host
    BY <1>4 DEF WayOut!DropGuard
  <2> HIDE DEF key
  <2>3. /\ \A k \in WayOut!Keys : refs'[k] = Cardinality(WayOut!Holders(k)')
        /\ refs' \in [WayOut!Keys -> 0..Cardinality(Conns)]
        /\ \A k \in WayOut!Keys : refs'[k] = IF k = key THEN refs[k] - 1 ELSE refs[k]
        /\ refs[key] > 0
    <3>1. guard[c] = key
      BY DEF key
    <3> QED
      BY <1>2, <2>1, <2>2, <3>1, OneLess
  <2>4. /\ key[1] \in WayOut!Dsts /\ key[2] \in Ifaces /\ key = <<key[1], key[2]>>
        /\ host[key[1]] = key[2] /\ refs[key] \in Nat
    BY <2>1, <2>3, CountFacts
  <2>5. host \in [WayOut!Dsts -> Ifaces \cup {NoIface}] /\ host' \in [WayOut!Dsts -> Ifaces \cup {NoIface}]
    BY <1>1, <2>2 DEF MachineTyped
  <2>6. faults' \in Nat /\ faults' >= faults
    BY <1>2, <2>2 DEF WayOut!Fault
  <2>7. /\ \A d \in WayOut!Dsts : d # key[1] => host'[d] = host[d]
        /\ \/ host'[key[1]] = host[key[1]]
           \/ host'[key[1]] = NoIface /\ refs'[key] = 0
        /\ host'[key[1]] = host[key[1]] /\ refs'[key] = 0 => faults' > 0
    <3>1. refs'[key] = refs[key] - 1
      BY <2>1, <2>3
    <3>2. CASE refs[key] > 1
      BY <2>2, <2>4, <3>1, <3>2
    <3>3. CASE ~(refs[key] > 1)
      <4>1. refs'[key] = 0
        BY <2>3, <2>4, <3>1, <3>3
      <4>2. CASE host' = [host EXCEPT ![key[1]] = NoIface]
        <5>1. host'[key[1]] = NoIface /\ host[key[1]] # NoIface
          BY <2>4, <2>5, <4>2 DEF WayOut!EgressConstants
        <5> QED
          BY <2>5, <4>1, <4>2, <5>1
      <4>3. CASE WayOut!Fault /\ UNCHANGED host
        <5>1. faults' > 0
          BY <1>2, <4>3 DEF WayOut!Fault
        <5> QED
          BY <4>1, <4>3, <5>1
      <4> QED
        BY <2>2, <3>3, <4>2, <4>3
    <3> QED
      BY <3>2, <3>3
  <2>8. \A k \in WayOut!Keys : refs'[k] > 0 => host'[k[1]] = k[2]
    <3> SUFFICES ASSUME NEW k \in WayOut!Keys, refs'[k] > 0 PROVE host'[k[1]] = k[2]
      OBVIOUS
    <3>1. /\ k[1] \in WayOut!Dsts /\ k = <<k[1], k[2]>> /\ refs[k] \in Nat
          /\ refs[k] > 0 => host[k[1]] = k[2]
      BY CountFacts
    <3>2. refs[k] > 0 /\ host[k[1]] = k[2]
      BY <2>3, <3>1
    <3>3. CASE k = key
      BY <2>7, <3>2, <3>3
    <3>4. CASE k # key
      <4>1. k[1] # key[1]
        BY <2>4, <3>1, <3>2, <3>4
      <4> QED
        BY <2>7, <3>1, <3>2, <4>1
    <3> QED
      BY <3>3, <3>4
  <2>9. WayOut!NoRouteIsLeft'
    <3> SUFFICES ASSUME NEW d \in WayOut!Dsts, host'[d] # NoIface, refs'[<<d, host'[d]>>] = 0
                 PROVE  faults' > 0
      BY DEF WayOut!NoRouteIsLeft
    <3>1. CASE d = key[1]
      BY <2>4, <2>7, <3>1
    <3>2. CASE d # key[1]
      <4>1. host'[d] = host[d] /\ <<d, host[d]>> \in WayOut!Keys /\ <<d, host[d]>> # key
        BY <2>4, <2>5, <2>7, <3>2 DEF WayOut!Keys
      <4>2. refs[<<d, host[d]>>] = 0
        BY <2>3, <4>1
      <4>3. faults > 0
        BY <1>1, <4>1, <4>2 DEF WayOut!NoRouteIsLeft
      <4> QED
        BY <1>2, <2>6, <4>3
    <3> QED
      BY <3>1, <3>2
  <2>10. WayOut!RefsMatchGuards'
    BY SameGuardCount, <2>3, <2>8 DEF WayOut!RefsMatchGuards
  <2> QED
    BY <1>2, <2>3, <2>5, <2>6, <2>9, <2>10 DEF RouteInv
<1> QED
  BY <1>3, <1>4

LEMMA EndStep ==
    ASSUME WayOut!EgressConstants, EgressInv, NEW c \in Conns, WayOut!ConnectFails(c) \/ WayOut!DropStream(c)
    PROVE  EgressInv'
<1>1. MachineTyped
  BY MachineFacts
<1>2. /\ UNCHANGED <<mode, udp, default, egress_up, tun, cached, ifs, fresh, iface, snap>>
      /\ WayOut!DropGuard(c)
  BY DEF WayOut!ConnectFails, WayOut!DropStream, WayOut!machine, WayOut!caches
<1>3. /\ RouteInv' /\ guard' = [guard EXCEPT ![c] = NoRef]
      /\ host' \in [WayOut!Dsts -> Ifaces \cup {NoIface}] /\ refs' \in [WayOut!Keys -> 0..Cardinality(Conns)]
      /\ faults' \in Nat /\ faults' >= faults
  BY <1>2, DropFacts
<1>4. /\ pos[c] \in 1..Len(Resolved[c]) /\ iface[c] \in Ifaces \cup {NoIface}
      /\ snap' \in [Conns -> Ifaces \cup {NoIface}]
      /\ pos = [pos EXCEPT ![c] = pos[c]] /\ iface' = [iface EXCEPT ![c] = iface[c]]
  BY <1>2, ConnFacts
<1>5. MachineTyped'
  BY <1>1, <1>2, <1>3 DEF MachineTyped
<1>6. \E p \in {"select", "failed", "closed"}, n \in 1..Len(Resolved[c]) :
         pc' = [pc EXCEPT ![c] = p] /\ pos' = [pos EXCEPT ![c] = n]
  <2>1. CASE WayOut!ConnectFails(c)
    <3>1. WayOut!TryNext(c)
      BY <2>1 DEF WayOut!ConnectFails
    <3> QED
      BY <3>1, TryNextMoves
  <2>2. CASE WayOut!DropStream(c)
    <3>1. pc' = [pc EXCEPT ![c] = "closed"] /\ pos' = [pos EXCEPT ![c] = pos[c]]
      BY <1>4, <2>2 DEF WayOut!DropStream
    <3> QED
      BY <1>4, <3>1
  <2> QED
    BY <2>1, <2>2
<1>7. PICK p \in {"select", "failed", "closed"}, n \in 1..Len(Resolved[c]) :
         pc' = [pc EXCEPT ![c] = p] /\ pos' = [pos EXCEPT ![c] = n]
  BY <1>6
<1>8. p \in Places /\ p \notin {"sources", "install", "lock"}
  BY DEF Places
<1>9. ConnInv' /\ pc' \in [Conns -> Places] /\ guard' \in [Conns -> WayOut!Keys \cup {NoRef}]
  BY <1>3, <1>4, <1>7, <1>8, ConnMoves
<1> QED
  BY <1>3, <1>5, <1>9, Combined
-----------------------------------------------------------------------------
LEMMA EgressStep == ASSUME WayOut!EgressConstants, EgressInv, [WayOut!Next]_(WayOut!vars) PROVE EgressInv'
<1>1. CASE UNCHANGED WayOut!vars
  BY <1>1 DEF WayOut!vars, EgressInv, WayOut!TypeOK, ConnInv, ConnsTyped, InterfaceChosen, GuardWhileConnected,
              RouteInv, WayOut!RefsMatchGuards, WayOut!NoRouteIsLeft, WayOut!Holders
<1>2. CASE WayOut!TunComesOrGoes \/ WayOut!DefaultMoves \/ WayOut!AddressComesOrGoes \/ WayOut!CacheExpires
  BY <1>2, SurroundingsStep
<1>3. ASSUME NEW c \in Conns,
             \/ WayOut!connect_with_interface(c) \/ WayOut!connect_default(c)
             \/ WayOut!NamedInterface(c) \/ WayOut!interface_for_dst(c)
             \/ WayOut!read_routes(c) \/ WayOut!StoreRoutes(c) \/ WayOut!interface_bind_addrs(c)
             \/ WayOut!install(c) \/ WayOut!AddRoute(c) \/ WayOut!Connected(c) \/ WayOut!ConnectFails(c) \/ WayOut!DropStream(c)
      PROVE  EgressInv'
  BY <1>3, StartStep, SelectStep, ReadStep, StoreStep, BindStep, AddStep, EndStep
<1> QED
  BY <1>1, <1>2, <1>3 DEF WayOut!Next

\* Whatever order any number of connections list the table, take the lock, fail and end in:
\* the reference counts of the host routes are those of the guards held, a counted route is
\* in the table, and a route is left behind only by a deletion that failed.
THEOREM RefsAreRight ==
    ASSUME WayOut!EgressConstants PROVE SuiteSpec => []RefsMatchGuards
<1>1. WayOut!Init => EgressInv
  BY EgressInit
<1>2. EgressInv /\ [WayOut!Next]_(WayOut!vars) => EgressInv'
  BY EgressStep
<1>3. EgressInv => RefsMatchGuards
  BY DEF EgressInv, RouteInv, RefsMatchGuards
<1> QED
  BY EgressPart, <1>1, <1>2, <1>3, PTL DEF WayOut!Spec

\* What a settled connection may have found in the store step: no interface on this machine,
\* or a route without an index.
HasNoWayOut(c) == \/ default = NoIface \/ default \notin egress_up \/ snap[c] \in Unindexed
SettledInv == /\ settled \subseteq Conns
              /\ \A c \in settled : pc[c] = "store" /\ iface[c] = NoIface => HasNoWayOut(c)

\* A step of connection c that ends anywhere but in the store step keeps SettledInv, if
\* nothing else changes and the machine stays as it is.
LEMMA OwnStepSettles ==
    ASSUME SettledInv, NEW c \in Conns, settled' \subseteq settled \cup {c},
           \A d \in Conns \ {c} : pc'[d] = pc[d] /\ iface'[d] = iface[d] /\ snap'[d] = snap[d],
           pc'[c] # "store" \/ (c \in settled' /\ iface'[c] = NoIface => HasNoWayOut(c)'),
           UNCHANGED <<default, egress_up>>
    PROVE  SettledInv'
BY DEF SettledInv, HasNoWayOut

\* Where TryNext takes a connection, and what it does to the history.
LEMMA TryNextSettles ==
    ASSUME EgressInv, SettledInv, NEW c \in Conns, WayOut!TryNext(c)
    PROVE  /\ settled' \subseteq settled \cup {c} /\ pc'[c] \in {"select", "failed"}
           /\ \A d \in Conns \ {c} : pc'[d] = pc[d] /\ pos'[d] = pos[d]
<1>1. pc \in [Conns -> Places] /\ pos \in [Conns -> Nat]
  BY MachineFacts DEF ConnInv, ConnsTyped
<1> QED
  BY <1>1 DEF WayOut!TryNext, WayOut!Selects

\* A step of connection c: the others stay, and c is in the store step only after read_routes.
LEMMA ConnSettles ==
    ASSUME WayOut!EgressConstants, EgressInv, SettledInv, NEW c \in Conns,
           \/ WayOut!connect_with_interface(c) \/ WayOut!connect_default(c)
           \/ WayOut!NamedInterface(c) \/ WayOut!interface_for_dst(c)
           \/ WayOut!StoreRoutes(c) \/ WayOut!interface_bind_addrs(c)
           \/ WayOut!install(c) \/ WayOut!AddRoute(c) \/ WayOut!Connected(c) \/ WayOut!ConnectFails(c) \/ WayOut!DropStream(c)
    PROVE  /\ SettledInv'
           /\ \A d \in Conns \ {c} : pc'[d] = pc[d] /\ pos'[d] = pos[d]
<1>1. /\ pc \in [Conns -> Places] /\ iface \in [Conns -> Ifaces \cup {NoIface}]
      /\ snap \in [Conns -> Ifaces \cup {NoIface}] /\ pos \in [Conns -> Nat]
  BY ConnFacts
<1>2. /\ UNCHANGED <<default, egress_up, snap>>
      /\ UNCHANGED iface \/ \E i : iface' = [iface EXCEPT ![c] = i]
      /\ \/ WayOut!TryNext(c)
         \/ /\ \E p \in Places \ {"store"} : pc' = [pc EXCEPT ![c] = p]
            /\ UNCHANGED pos /\ settled' \subseteq settled \cup {c}
  BY DEF WayOut!connect_with_interface, WayOut!connect_default, WayOut!NamedInterface, WayOut!interface_for_dst,
         WayOut!StoreRoutes, WayOut!interface_bind_addrs, WayOut!install, WayOut!AddRoute, WayOut!Connected,
         WayOut!ConnectFails, WayOut!DropStream, WayOut!Selects, WayOut!machine, Places
<1>3. \A d \in Conns \ {c} : iface'[d] = iface[d] /\ snap'[d] = snap[d]
  BY <1>1, <1>2
<1>4. /\ settled' \subseteq settled \cup {c} /\ pc'[c] # "store"
      /\ \A d \in Conns \ {c} : pc'[d] = pc[d] /\ pos'[d] = pos[d]
  BY <1>1, <1>2, TryNextSettles
<1> QED
  BY <1>2, <1>3, <1>4, OwnStepSettles

\* read_routes finds no interface only if there is none or the route has no index.
LEMMA ReadSettles ==
    ASSUME WayOut!EgressConstants, EgressInv, SettledInv, NEW c \in Conns, WayOut!read_routes(c)
    PROVE  /\ SettledInv'
           /\ \A d \in Conns \ {c} : pc'[d] = pc[d] /\ pos'[d] = pos[d]
           /\ faults' = faults => pc'[c] = "store" /\ pos'[c] = pos[c]
<1>1. /\ pc \in [Conns -> Places] /\ iface \in [Conns -> Ifaces \cup {NoIface}]
      /\ snap \in [Conns -> Ifaces \cup {NoIface}] /\ pos \in [Conns -> Nat] /\ faults \in Nat
  BY ConnFacts
<1>2. UNCHANGED <<default, egress_up>>
  BY DEF WayOut!read_routes, WayOut!machine
<1> DEFINE i == WayOut!auto_interface_for_dst(default)
<1>3. i = NoIface => default = NoIface \/ default \notin egress_up \/ default \in Unindexed
  BY DEF WayOut!auto_interface_for_dst, WayOut!ReadsAddresses
<1>4. CASE /\ pc' = [pc EXCEPT ![c] = "store"] /\ snap' = [snap EXCEPT ![c] = default]
           /\ iface' = [iface EXCEPT ![c] = i] /\ UNCHANGED <<pos, settled, faults>>
  <2> HIDE DEF i
  <2>1. iface'[c] = i /\ snap'[c] = default /\ pc'[c] = "store"
    BY <1>1, <1>4
  <2>2. iface'[c] = NoIface => HasNoWayOut(c)'
    BY <1>2, <1>3, <2>1 DEF HasNoWayOut
  <2>3. \A d \in Conns \ {c} : /\ pc'[d] = pc[d] /\ pos'[d] = pos[d]
                               /\ iface'[d] = iface[d] /\ snap'[d] = snap[d]
    BY <1>1, <1>4
  <2> QED
    BY <1>2, <1>4, <2>1, <2>2, <2>3, OwnStepSettles
<1>5. CASE /\ WayOut!Fault /\ pc' = [pc EXCEPT ![c] = "store"] /\ snap' = [snap EXCEPT ![c] = default]
           /\ settled' = settled \ {c} /\ UNCHANGED <<pos, iface>>
  <2>1. \A d \in Conns \ {c} : /\ pc'[d] = pc[d] /\ pos'[d] = pos[d]
                               /\ iface'[d] = iface[d] /\ snap'[d] = snap[d]
    BY <1>1, <1>5
  <2>2. faults' # faults
    BY <1>1, <1>5 DEF WayOut!Fault
  <2> QED
    BY <1>2, <1>5, <2>1, <2>2, OwnStepSettles
<1>6. CASE WayOut!Fault /\ WayOut!TryNext(c) /\ UNCHANGED <<snap, iface>>
  <2>1. faults' # faults
    BY <1>1, <1>6 DEF WayOut!Fault
  <2>2. /\ settled' \subseteq settled \cup {c} /\ pc'[c] # "store"
        /\ \A d \in Conns \ {c} : pc'[d] = pc[d] /\ pos'[d] = pos[d]
    BY <1>6, TryNextSettles
  <2> QED
    BY <1>2, <1>6, <2>1, <2>2, OwnStepSettles
<1> QED
  BY <1>4, <1>5, <1>6 DEF WayOut!read_routes

\* The machine changes and every history starts again, or nothing that matters does.
LEMMA SurroundingsSettle ==
    ASSUME SettledInv, UNCHANGED WayOut!vars \/ WayOut!TunComesOrGoes \/ WayOut!DefaultMoves
                       \/ WayOut!AddressComesOrGoes \/ WayOut!CacheExpires
    PROVE  SettledInv' /\ UNCHANGED <<pc, pos>>
BY DEF SettledInv, HasNoWayOut, WayOut!vars, WayOut!TunComesOrGoes, WayOut!DefaultMoves, WayOut!AddressComesOrGoes,
       WayOut!CacheExpires, WayOut!machine

\* A connection that is settled and selects, and gives its address up without a fault, has
\* looked at a route without an index or there is no way out.
GivesUp(c) == /\ pc[c] \in {"select", "refresh", "store"}
              /\ pc'[c] = "failed" \/ pos'[c] # pos[c]
              /\ faults' = faults
GaveUpRightly(c) == \/ default = NoIface \/ default \notin egress_up
                    \/ pc[c] = "select" /\ cached \in Unindexed
                    \/ pc[c] = "store" /\ snap[c] \in Unindexed

LEMMA SelectionIsRight ==
    ASSUME WayOut!EgressConstants, EgressInv, SettledInv, [WayOut!Next]_(WayOut!vars)
    PROVE  SettledInv' /\ \A c \in settled : GivesUp(c) => GaveUpRightly(c)
<1>1. pc \in [Conns -> Places] /\ settled \subseteq Conns
  BY MachineFacts DEF SettledInv
<1>2. CASE UNCHANGED WayOut!vars \/ WayOut!TunComesOrGoes \/ WayOut!DefaultMoves
           \/ WayOut!AddressComesOrGoes \/ WayOut!CacheExpires
  BY <1>2, SurroundingsSettle DEF GivesUp
<1>3. ASSUME NEW d \in Conns, WayOut!read_routes(d)
      PROVE  SettledInv' /\ \A c \in settled : GivesUp(c) => GaveUpRightly(c)
  BY <1>1, <1>3, ReadSettles DEF GivesUp
<1>4. ASSUME NEW d \in Conns,
             \/ WayOut!connect_with_interface(d) \/ WayOut!connect_default(d)
             \/ WayOut!NamedInterface(d) \/ WayOut!interface_for_dst(d)
             \/ WayOut!StoreRoutes(d) \/ WayOut!interface_bind_addrs(d)
             \/ WayOut!install(d) \/ WayOut!AddRoute(d) \/ WayOut!Connected(d) \/ WayOut!ConnectFails(d) \/ WayOut!DropStream(d)
      PROVE  SettledInv' /\ \A c \in settled : GivesUp(c) => GaveUpRightly(c)
  <2>1. SettledInv' /\ \A c \in Conns \ {d} : pc'[c] = pc[c] /\ pos'[c] = pos[c]
    BY <1>4, ConnSettles
  <2>2. ASSUME d \in settled, GivesUp(d) PROVE GaveUpRightly(d)
    <3>2. CASE WayOut!interface_for_dst(d)
      <4>1. pc[d] = "select" /\ faults' = faults
        BY <2>2, <3>2 DEF WayOut!interface_for_dst, GivesUp
      <4>2. CASE cached \in Unindexed
        BY <4>1, <4>2 DEF GaveUpRightly
      <4>3. CASE cached \notin Unindexed
        <5>1. faults \in Nat
          BY MachineFacts
        <5>2. /\ \E p \in {"sources", "refresh"} : pc' = [pc EXCEPT ![d] = p]
              /\ UNCHANGED pos
          BY <3>2, <4>1, <4>3, <5>1 DEF WayOut!interface_for_dst, WayOut!Fault
        <5> QED
          BY <1>1, <2>2, <5>2 DEF GivesUp
      <4> QED
        BY <4>2, <4>3
    <3>3. CASE WayOut!NamedInterface(d)
      BY <1>1, <2>2, <3>3 DEF WayOut!NamedInterface, GivesUp
    <3>4. CASE WayOut!StoreRoutes(d)
      <4>1. pc[d] = "store" /\ (iface[d] # NoIface => pc' = [pc EXCEPT ![d] = "sources"] /\ UNCHANGED pos)
        BY <3>4 DEF WayOut!StoreRoutes
      <4>2. iface[d] = NoIface
        BY <1>1, <2>2, <4>1 DEF GivesUp
      <4> QED
        BY <2>2, <4>1, <4>2 DEF SettledInv, HasNoWayOut, GaveUpRightly
    <3> QED
      BY <1>4, <2>2, <3>2, <3>3, <3>4
         DEF GivesUp, WayOut!connect_with_interface, WayOut!connect_default, WayOut!interface_bind_addrs,
             WayOut!install, WayOut!AddRoute, WayOut!Connected, WayOut!ConnectFails, WayOut!DropStream
  <2>3. \A c \in settled \ {d} : ~GivesUp(c)
    BY <1>1, <2>1 DEF GivesUp
  <2> QED
    BY <2>1, <2>2, <2>3
<1> QED
  BY <1>2, <1>3, <1>4 DEF WayOut!Next

\* For any number of connections, however stale the caches are and in whatever order the
\* tables that were read are stored: on a machine that stays as it is while a connection
\* selects the interface for an address, and without a failed call, the address is given up
\* for want of an interface only if the default route has no usable one, or if the route
\* that was looked at has no index.
THEOREM WayOutIsFound == ASSUME WayOut!EgressConstants PROVE SuiteSpec => AutoFindsTheWayOut
<1> DEFINE Step == \A c \in settled : GivesUp(c) => GaveUpRightly(c)
<1>1. WayOut!Init => EgressInv /\ SettledInv
  BY EgressInit DEF WayOut!Init, SettledInv
<1>2. EgressInv /\ SettledInv /\ [WayOut!Next]_(WayOut!vars) => (EgressInv /\ SettledInv)'
  BY EgressStep, SelectionIsRight
<1>3. EgressInv /\ SettledInv /\ [WayOut!Next]_(WayOut!vars) => [Step]_(WayOut!vars)
  BY SelectionIsRight
<1>4. ([][Step]_(WayOut!vars)) => AutoFindsTheWayOut
  BY PTL DEF AutoFindsTheWayOut, WayOut!AutoFindsTheWayOut, GivesUp, GaveUpRightly
<1> HIDE DEF Step
<1> QED
  BY EgressPart, <1>1, <1>2, <1>3, <1>4, PTL DEF WayOut!Spec
=============================================================================
