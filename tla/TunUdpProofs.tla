---------------------------- MODULE TunUdpProofs ----------------------------
(***************************************************************************)
(* Proofs about UDP and DNS on the TUN.  Module TunUdpSessions: for any    *)
(* flows, rules and queue sizes, the table of UDP sessions and the session *)
(* tasks agree, and a flow that must go direct never reaches the proxy,    *)
(* a blocked one not even a session.                                       *)
(* Module TunUdpRelay: a reply is written to the flow it answers or to     *)
(* none.  Module DnsProxy: a client gets the answer to its own query, once *)
(* at most.                                                                *)
(***************************************************************************)
EXTENDS MCAgent, FiniteSetTheorems, TLAPS

Phases == {"starting", "binding", "dialing", "redialing", "direct", "connecting", "proxy", "over"}
TaskRecord == [flow : Flows, phase : Phases, queue : 0..QUEUE_SIZE]

SessionsTyped ==
    /\ DOMAIN tasks \subseteq 1..MaxTasks /\ DOMAIN sessions \subseteq Flows
    /\ \A t \in DOMAIN tasks : tasks[t] \in TaskRecord
    /\ \A f \in DOMAIN sessions : sessions[f] \in 1..MaxTasks

\* The entry of a flow is a task of that flow: without it RemoveEntry could leave the
\* entry of another flow without its task.
EntryIsOfItsFlow == \A f \in DOMAIN sessions : tasks[sessions[f]].flow = f

\* The inductive invariant.
SessionsInv == /\ SessionsTyped /\ Sessions!TableMatchesTasks /\ EntryIsOfItsFlow
               /\ Sessions!DirectFlowStaysDirect /\ Sessions!BlockedFlowIsDropped

\* A flow that is not to be proxied at all.
MustGoDirect(f) == f \in RuleFlows \/ (~PROXY_UDP /\ f \notin QuicFlows)
Blocked(f) == BLOCK_QUIC /\ f \in QuicFlows
-----------------------------------------------------------------------------
\* A table with an entry less.
LEMMA WithoutFacts ==
    ASSUME NEW f, NEW k
    PROVE  /\ DOMAIN Sessions!Without(f, k) = DOMAIN f \ {k}
           /\ \A x \in DOMAIN f \ {k} : Sessions!Without(f, k)[x] = f[x]
BY DEF Sessions!Without

LEMMA SessionsInit == ASSUME Sessions!SessionsConstants, Sessions!Init PROVE SessionsInv
<1>1. DOMAIN sessions = {} /\ DOMAIN tasks = {} /\ relayed = {}
  BY DEF Sessions!Init
<1> QED
  BY <1>1 DEF SessionsInv, SessionsTyped, Sessions!TableMatchesTasks, EntryIsOfItsFlow,
     Sessions!DirectFlowStaysDirect, Sessions!BlockedFlowIsDropped

\* A task goes on: its flow stays, and it is not proxied if it must go direct.
LEMMA TaskMoves ==
    ASSUME SessionsInv, NEW t \in DOMAIN tasks, NEW k \in TaskRecord, k.flow = tasks[t].flow,
           tasks' = [tasks EXCEPT ![t] = k], UNCHANGED <<sessions, relayed>>,
           k.phase \in {"connecting", "proxy"} =>
              \/ tasks[t].phase \in {"connecting", "proxy"}
              \/ ~MustGoDirect(k.flow)
    PROVE  SessionsInv'
<1>0. /\ SessionsTyped /\ Sessions!TableMatchesTasks /\ EntryIsOfItsFlow
      /\ Sessions!DirectFlowStaysDirect /\ Sessions!BlockedFlowIsDropped
  BY DEF SessionsInv
<1>1. /\ DOMAIN tasks' = DOMAIN tasks
      /\ \A u \in DOMAIN tasks : tasks'[u] = IF u = t THEN k ELSE tasks[u]
  OBVIOUS
<1>2. SessionsTyped'
  BY <1>0, <1>1 DEF SessionsTyped
<1>3. Sessions!TableMatchesTasks' /\ EntryIsOfItsFlow'
  BY <1>0, <1>1 DEF Sessions!TableMatchesTasks, EntryIsOfItsFlow
<1>4. Sessions!DirectFlowStaysDirect'
  BY <1>0, <1>1 DEF Sessions!DirectFlowStaysDirect, MustGoDirect
<1>5. Sessions!BlockedFlowIsDropped'
  BY <1>0, <1>1 DEF Sessions!BlockedFlowIsDropped
<1> QED
  BY <1>2, <1>3, <1>4, <1>5 DEF SessionsInv

\* Goto in that form.
LEMMA GotoMoves ==
    ASSUME SessionsInv, NEW t, NEW old, Sessions!Phase(t, old), NEW p \in Phases, Sessions!Goto(t, p),
           UNCHANGED <<sessions, relayed>>,
           p \in {"connecting", "proxy"} =>
              old \in {"connecting", "proxy"} \/ ~MustGoDirect(tasks[t].flow)
    PROVE  SessionsInv'
<1> DEFINE k == [tasks[t] EXCEPT !.phase = p]
<1>1. t \in DOMAIN tasks /\ tasks[t].phase = old /\ tasks[t] \in TaskRecord
  BY DEF Sessions!Phase, SessionsInv, SessionsTyped
<1>2. k \in TaskRecord /\ k.flow = tasks[t].flow /\ k.phase = p
  BY <1>1 DEF TaskRecord
<1>3. tasks' = [tasks EXCEPT ![t] = k]
  BY DEF Sessions!Goto
<1> HIDE DEF k
<1> QED
  BY <1>1, <1>2, <1>3, TaskMoves

\* A datagram taken from the queue of a task.
LEMMA TakeMoves ==
    ASSUME Sessions!SessionsConstants, SessionsInv, NEW t \in DOMAIN tasks, tasks[t].queue > 0,
           tasks' = [tasks EXCEPT ![t].queue = @ - 1], UNCHANGED <<sessions, relayed>>
    PROVE  SessionsInv'
<1> DEFINE k == [tasks[t] EXCEPT !.queue = @ - 1]
<1>1. tasks[t] \in TaskRecord /\ tasks[t].queue \in 0..QUEUE_SIZE
  BY DEF SessionsInv, SessionsTyped, TaskRecord
<1>2. tasks[t].queue - 1 \in 0..QUEUE_SIZE
  BY <1>1 DEF Sessions!SessionsConstants
<1>3. k \in TaskRecord /\ k.flow = tasks[t].flow /\ k.phase = tasks[t].phase
  BY <1>1, <1>2 DEF TaskRecord
<1>4. tasks' = [tasks EXCEPT ![t] = k]
  OBVIOUS
<1> HIDE DEF k
<1> QED
  BY <1>3, <1>4, TaskMoves

\* Steps that leave the table and the tasks alone.
LEMMA TasksStay ==
    ASSUME SessionsInv, UNCHANGED <<sessions, tasks>>,
           \A f \in relayed' \ relayed : ~MustGoDirect(f) /\ ~Blocked(f)
    PROVE  SessionsInv'
<1>0. /\ SessionsTyped /\ Sessions!TableMatchesTasks /\ EntryIsOfItsFlow
      /\ Sessions!DirectFlowStaysDirect /\ Sessions!BlockedFlowIsDropped
  BY DEF SessionsInv
<1>1. SessionsTyped' /\ Sessions!TableMatchesTasks' /\ EntryIsOfItsFlow'
  BY <1>0 DEF SessionsTyped, Sessions!TableMatchesTasks, EntryIsOfItsFlow
<1>2. Sessions!DirectFlowStaysDirect'
  BY <1>0 DEF Sessions!DirectFlowStaysDirect, MustGoDirect
<1>3. Sessions!BlockedFlowIsDropped'
  BY <1>0 DEF Sessions!BlockedFlowIsDropped, Blocked
<1> QED
  BY <1>1, <1>2, <1>3 DEF SessionsInv
-----------------------------------------------------------------------------
(* The dispatcher. *)

LEMMA ReuseStep ==
    ASSUME Sessions!SessionsConstants, SessionsInv, NEW f \in Flows, Sessions!ReuseSession(f) PROVE SessionsInv'
<1> DEFINE t == sessions[f]
           n == IF tasks[t].phase # "over" /\ tasks[t].queue < QUEUE_SIZE
                THEN tasks[t].queue + 1 ELSE tasks[t].queue
           k == [tasks[t] EXCEPT !.queue = n]
<1>1. t \in DOMAIN tasks /\ UNCHANGED <<sessions, relayed>>
  BY DEF Sessions!ReuseSession, SessionsInv, Sessions!TableMatchesTasks
<1>2. tasks[t] \in TaskRecord /\ tasks[t].queue \in 0..QUEUE_SIZE
  BY <1>1 DEF SessionsInv, SessionsTyped, TaskRecord
<1>3. n \in 0..QUEUE_SIZE
  BY <1>2 DEF Sessions!SessionsConstants
<1>4. tasks' = [tasks EXCEPT ![t] = k]
  BY DEF Sessions!ReuseSession, Sessions!Offer
<1> HIDE DEF n, t
<1>5. k \in TaskRecord /\ k.flow = tasks[t].flow /\ k.phase = tasks[t].phase
  BY <1>2, <1>3 DEF TaskRecord
<1> HIDE DEF k
<1> QED
  BY <1>1, <1>4, <1>5, TaskMoves

LEMMA RelayStep ==
    ASSUME SessionsInv, NEW f \in Flows, Sessions!RelayFlow(f) PROVE SessionsInv'
<1>1. UNCHANGED <<sessions, tasks>> /\ relayed' \subseteq relayed \cup {f}
  BY DEF Sessions!RelayFlow
<1>2. Sessions!classify_udp_route(f) = "proxy"
  BY DEF Sessions!RelayFlow
<1>3. ~Sessions!direct_access_match(f) /\ ~(f \notin QuicFlows /\ ~PROXY_UDP) /\ ~Blocked(f)
  BY <1>2 DEF Sessions!classify_udp_route, Blocked
<1>4. ~MustGoDirect(f) /\ ~Blocked(f)
  BY <1>3 DEF MustGoDirect, Sessions!direct_access_match
<1> QED
  BY <1>1, <1>4, TasksStay

LEMMA StartStep ==
    ASSUME Sessions!SessionsConstants, SessionsInv, NEW f \in Flows, Sessions!StartSession(f) PROVE SessionsInv'
<1>0. /\ SessionsTyped /\ Sessions!TableMatchesTasks /\ EntryIsOfItsFlow
      /\ Sessions!DirectFlowStaysDirect /\ Sessions!BlockedFlowIsDropped
  BY DEF SessionsInv
<1>1. f \notin DOMAIN sessions /\ UNCHANGED relayed
  BY DEF Sessions!StartSession
<1> DEFINE k == [flow |-> f, phase |-> "starting", queue |-> 1]
<1>2. PICK t \in (1..MaxTasks) \ DOMAIN tasks :
         sessions' = Sessions!With(sessions, f, t) /\ tasks' = Sessions!With(tasks, t, k)
  BY DEF Sessions!StartSession
<1>3. k \in TaskRecord /\ k.flow = f /\ k.phase = "starting"
  BY DEF TaskRecord, Phases, Sessions!SessionsConstants
<1> HIDE DEF k
<1>4. /\ DOMAIN tasks' = DOMAIN tasks \cup {t} /\ tasks'[t] = k
      /\ \A u \in DOMAIN tasks : tasks'[u] = tasks[u]
      /\ DOMAIN sessions' = DOMAIN sessions \cup {f} /\ sessions'[f] = t
      /\ \A g \in DOMAIN sessions : sessions'[g] = sessions[g]
  <2>1. /\ DOMAIN tasks' = DOMAIN tasks \cup {t} /\ tasks'[t] = k
        /\ \A u \in DOMAIN tasks : u # t => tasks'[u] = tasks[u]
    BY <1>2 DEF Sessions!With
  <2>2. /\ DOMAIN sessions' = DOMAIN sessions \cup {f} /\ sessions'[f] = t
        /\ \A g \in DOMAIN sessions : g # f => sessions'[g] = sessions[g]
    BY <1>2 DEF Sessions!With
  <2>3. t \notin DOMAIN tasks
    OBVIOUS
  <2> QED
    BY <1>1, <2>1, <2>2, <2>3
<1>5. SessionsTyped'
  BY <1>0, <1>3, <1>4 DEF SessionsTyped
<1>6. Sessions!TableMatchesTasks'
  BY <1>0, <1>1, <1>3, <1>4 DEF Sessions!TableMatchesTasks
<1>7. EntryIsOfItsFlow'
  BY <1>0, <1>1, <1>3, <1>4 DEF EntryIsOfItsFlow, Sessions!TableMatchesTasks
<1>8. Sessions!DirectFlowStaysDirect'
  BY <1>0, <1>1, <1>3, <1>4 DEF Sessions!DirectFlowStaysDirect
<1>9. ~Blocked(f)
  <2>1. Sessions!classify_udp_route(f) = "direct"
    BY DEF Sessions!StartSession
  <2> QED
    BY <2>1 DEF Sessions!classify_udp_route, Blocked
<1>10. Sessions!BlockedFlowIsDropped'
  BY <1>0, <1>1, <1>3, <1>4, <1>9 DEF Sessions!BlockedFlowIsDropped, Blocked
<1> QED
  BY <1>5, <1>6, <1>7, <1>8, <1>10 DEF SessionsInv
-----------------------------------------------------------------------------
(* A session task. *)

LEMMA DecideStep ==
    ASSUME SessionsInv, NEW t, Sessions!handle_tun_udp(t) PROVE SessionsInv'
<1> DEFINE p == IF ~PROXY_UDP \/ tasks[t].flow \in RuleFlows \cup cached THEN "binding" ELSE "connecting"
<1>1. Sessions!Phase(t, "starting") /\ Sessions!Goto(t, p) /\ UNCHANGED <<sessions, relayed>>
  BY DEF Sessions!handle_tun_udp, Sessions!Rest
<1>2. p \in Phases /\ (p = "connecting" => ~MustGoDirect(tasks[t].flow)) /\ p # "proxy"
  BY DEF Phases, MustGoDirect
<1> HIDE DEF p
<1> QED
  BY <1>1, <1>2, GotoMoves

LEMMA DirectStep ==
    ASSUME Sessions!SessionsConstants, SessionsInv, NEW t,
           Sessions!BindDirect(t) \/ Sessions!connect_direct_udp(t) \/ Sessions!relay_direct_udp(t)
    PROVE  SessionsInv'
<1>1. UNCHANGED <<sessions, relayed>>
  BY DEF Sessions!BindDirect, Sessions!connect_direct_udp, Sessions!relay_direct_udp, Sessions!Rest
<1>2. \/ \E old \in {"binding", "dialing", "redialing", "direct"},
            p \in {"dialing", "redialing", "direct", "over"} : Sessions!Phase(t, old) /\ Sessions!Goto(t, p)
      \/ /\ Sessions!Phase(t, "direct") /\ tasks[t].queue > 0
         /\ tasks' = [tasks EXCEPT ![t].queue = @ - 1]
  BY DEF Sessions!BindDirect, Sessions!connect_direct_udp, Sessions!relay_direct_udp, Sessions!refresh_after_direct_failure
<1>3. ASSUME NEW old, NEW p \in {"dialing", "redialing", "direct", "over"},
             Sessions!Phase(t, old), Sessions!Goto(t, p)
      PROVE  SessionsInv'
  <2>1. p \in Phases /\ p \notin {"connecting", "proxy"}
    BY DEF Phases
  <2> QED
    BY <1>1, <1>3, <2>1, GotoMoves
<1>4. ASSUME Sessions!Phase(t, "direct"), tasks[t].queue > 0, tasks' = [tasks EXCEPT ![t].queue = @ - 1]
      PROVE  SessionsInv'
  <2>1. t \in DOMAIN tasks
    BY <1>4 DEF Sessions!Phase
  <2> QED
    BY <1>1, <1>4, <2>1, TakeMoves
<1> QED
  BY <1>2, <1>3, <1>4

LEMMA ProxiedStep ==
    ASSUME Sessions!SessionsConstants, SessionsInv, NEW t,
           Sessions!connect_to_target(t) \/ Sessions!ForwardProxied(t) \/ Sessions!ProxiedEnds(t)
    PROVE  SessionsInv'
<1>1. UNCHANGED <<sessions, relayed>>
  BY DEF Sessions!connect_to_target, Sessions!ForwardProxied, Sessions!ProxiedEnds, Sessions!Rest
<1>2. \/ \E old \in {"connecting", "proxy"}, p \in {"proxy", "over"} : Sessions!Phase(t, old) /\ Sessions!Goto(t, p)
      \/ /\ Sessions!Phase(t, "proxy") /\ tasks[t].queue > 0
         /\ tasks' = [tasks EXCEPT ![t].queue = @ - 1]
  BY DEF Sessions!connect_to_target, Sessions!ForwardProxied, Sessions!ProxiedEnds
<1>3. ASSUME NEW old \in {"connecting", "proxy"}, NEW p \in {"proxy", "over"},
             Sessions!Phase(t, old), Sessions!Goto(t, p)
      PROVE  SessionsInv'
  <2>1. p \in Phases
    BY DEF Phases
  <2> QED
    BY <1>1, <1>3, <2>1, GotoMoves
<1>4. ASSUME Sessions!Phase(t, "proxy"), tasks[t].queue > 0, tasks' = [tasks EXCEPT ![t].queue = @ - 1]
      PROVE  SessionsInv'
  <2>1. t \in DOMAIN tasks
    BY <1>4 DEF Sessions!Phase
  <2> QED
    BY <1>1, <1>4, <2>1, TakeMoves
<1> QED
  BY <1>2, <1>3, <1>4

LEMMA RemoveStep ==
    ASSUME SessionsInv, NEW t, Sessions!RemoveEntry(t) PROVE SessionsInv'
<1>0. /\ SessionsTyped /\ Sessions!TableMatchesTasks /\ EntryIsOfItsFlow
      /\ Sessions!DirectFlowStaysDirect /\ Sessions!BlockedFlowIsDropped
  BY DEF SessionsInv
<1> DEFINE f == tasks[t].flow
<1>1. /\ t \in DOMAIN tasks /\ UNCHANGED relayed
      /\ sessions' = Sessions!Without(sessions, f) /\ tasks' = Sessions!Without(tasks, t)
  BY DEF Sessions!RemoveEntry, Sessions!Phase
<1>2. f \in DOMAIN sessions /\ sessions[f] = t
  BY <1>0, <1>1 DEF Sessions!TableMatchesTasks
<1>3. /\ DOMAIN tasks' = DOMAIN tasks \ {t} /\ DOMAIN sessions' = DOMAIN sessions \ {f}
      /\ \A u \in DOMAIN tasks \ {t} : tasks'[u] = tasks[u]
      /\ \A g \in DOMAIN sessions \ {f} : sessions'[g] = sessions[g]
  BY <1>1, WithoutFacts
<1>4. SessionsTyped'
  BY <1>0, <1>3 DEF SessionsTyped
<1>5. \A u \in DOMAIN tasks \ {t} : tasks[u].flow # f
  BY <1>0, <1>2 DEF Sessions!TableMatchesTasks
<1>6. \A g \in DOMAIN sessions \ {f} : sessions[g] # t /\ sessions[g] \in DOMAIN tasks
  BY <1>0 DEF EntryIsOfItsFlow, Sessions!TableMatchesTasks
<1> HIDE DEF f
<1>7. Sessions!TableMatchesTasks'
  BY <1>0, <1>3, <1>5, <1>6 DEF Sessions!TableMatchesTasks
<1>8. EntryIsOfItsFlow'
  BY <1>0, <1>3, <1>6 DEF EntryIsOfItsFlow
<1>9. Sessions!DirectFlowStaysDirect'
  BY <1>0, <1>1, <1>3 DEF Sessions!DirectFlowStaysDirect
<1>10. Sessions!BlockedFlowIsDropped'
  BY <1>0, <1>1, <1>3 DEF Sessions!BlockedFlowIsDropped
<1> QED
  BY <1>4, <1>7, <1>8, <1>9, <1>10 DEF SessionsInv
-----------------------------------------------------------------------------
LEMMA SessionsStep == ASSUME Sessions!SessionsConstants, SessionsInv, [Sessions!Next]_(Sessions!vars) PROVE SessionsInv'
<1>1. CASE UNCHANGED Sessions!vars
  BY <1>1, TasksStay DEF Sessions!vars
<1>2. CASE Sessions!Surroundings
  <2>1. UNCHANGED <<sessions, tasks, relayed>>
    BY <1>2 DEF Sessions!Surroundings, Sessions!Cancel, Sessions!EgressChanges, Sessions!StopDispatcher, Sessions!record_resolution, Sessions!CacheExpires
  <2> QED
    BY <2>1, TasksStay
<1>3. ASSUME NEW f \in Flows, Sessions!Dispatch(f) PROVE SessionsInv'
  BY <1>3, ReuseStep, RelayStep, StartStep DEF Sessions!Dispatch
<1>4. ASSUME NEW t \in 1..MaxTasks, Sessions!SessionStep(t) PROVE SessionsInv'
  BY <1>4, DecideStep, DirectStep, ProxiedStep, RemoveStep DEF Sessions!SessionStep
<1> QED
  BY <1>1, <1>2, <1>3, <1>4 DEF Sessions!Next

\* The invariant is strong enough.
LEMMA SessionsSafe ==
    ASSUME SessionsInv
    PROVE  /\ Sessions!TypeOK /\ Sessions!TableMatchesTasks
           /\ Sessions!DirectFlowStaysDirect /\ Sessions!BlockedFlowIsDropped
BY DEF SessionsInv, SessionsTyped, Sessions!TypeOK, TaskRecord

\* Two parts of the suite share the sessions: the invariant is that of the first.
SessionsPart == part = "sessions" => SessionsInv

\* For any flows, rules, policies and queue sizes: every session task has its flow's entry
\* until it goes, no entry is without its task, queues stay within their size, and a flow
\* that a rule names (or any but QUIC when UDP is not proxied) never reaches the proxy and
\* a blocked QUIC flow neither the proxy nor a session, whatever the domain cache says when
\* the dispatcher and when the task decide.
THEOREM SessionsAgree ==
    ASSUME Sessions!SessionsConstants
    PROVE  SuiteSpec => []TableMatchesTasks
<1>1. SuiteInit => SessionsPart
  BY SessionsInit DEF SuiteInit, SessionsPart
<1>2. SessionsPart /\ [SuiteNext]_suite_vars => SessionsPart'
  <2> SUFFICES ASSUME SessionsPart, [SuiteNext]_suite_vars PROVE SessionsPart'
    OBVIOUS
  <2>1. part' = part /\ (part = "sessions" => [Sessions!Next]_(Sessions!vars))
    BY DEF SuiteNext, OnlyPool, OnlyNativeSlots, OnlyShard, OnlySessions, OnlyDirectSessions,
           OnlyDns, OnlyAndroidDns, OnlyRoutes, OnlyMacos, OnlyGuard, OnlyHelper, suite_vars,
           sessions_vars, Sessions!vars
  <2> QED
    BY <2>1, SessionsStep DEF SessionsPart
<1>3. SessionsPart => TableMatchesTasks
  BY SessionsSafe DEF SessionsPart, TableMatchesTasks
<1> QED
  BY <1>1, <1>2, <1>3, PTL DEF SuiteSpec
-----------------------------------------------------------------------------
(* A shard of the shared relay (TunUdpRelay). *)

Request == [n : 1..shard_made, flow : ShardFlows]

RequestsTyped ==
    /\ shard_made \in Nat /\ shard_queue \in Seq(Request) /\ retry_request \in Request \cup {NoRequest}
    /\ batch \in Seq(Request) /\ staged \in Seq(Request)

\* Ids are given out once: those in use are below the next one and no two flows share one.
IdsAreUnique ==
    /\ next_flow_id \in Nat \ {0}
    /\ \A f \in DOMAIN flow_ids : flow_ids[f] \in 1..(next_flow_id - 1)
    /\ \A f, g \in DOMAIN flow_ids : flow_ids[f] = flow_ids[g] => f = g

\* What the proxy has seen: an id that is still in use stands for the flow it stood for then.
PeerIsRight ==
    \A p \in peer : /\ p.id \in 1..(next_flow_id - 1)
                    /\ \A f \in DOMAIN flow_ids : flow_ids[f] = p.id => f = p.flow

\* A request that is written and not flushed has an id: ids are cleaned up between batches only.
StagedHaveIds ==
    /\ shard_phase # "writing" => staged = << >>
    /\ \A i \in 1..Len(staged) : staged[i].flow \in DOMAIN flow_ids

\* A batch that is being written has a request: a flush that fails keeps the first one.
BatchHasRequest == shard_phase = "writing" => Len(batch) + Len(staged) > 0

\* The inductive invariant.
ShardInv == /\ BatchHasRequest /\ RequestsTyped /\ IdsAreUnique /\ PeerIsRight /\ StagedHaveIds
            /\ Shard!TypeOK /\ Shard!ReplyReachesItsFlow
-----------------------------------------------------------------------------
LEMMA ShardInit == ASSUME Shard!ShardConstants, Shard!Init PROVE ShardInv
<1>1. /\ shard_made = 0 /\ shard_queue = << >> /\ retry_request = NoRequest /\ batch = << >> /\ staged = << >>
      /\ DOMAIN flow_ids = {} /\ expired = {} /\ next_flow_id = 1
      /\ peer = {} /\ delivered = {} /\ shard_reply = << >>
  BY DEF Shard!Init
<1>2. RequestsTyped
  BY <1>1 DEF RequestsTyped
<1>3. IdsAreUnique /\ PeerIsRight /\ StagedHaveIds
  BY <1>1 DEF IdsAreUnique, PeerIsRight, StagedHaveIds
<1>4. Shard!TypeOK /\ Shard!ReplyReachesItsFlow
  BY <1>1 DEF Shard!TypeOK, Shard!ReplyReachesItsFlow, Shard!ShardConstants
<1> QED
  BY <1>1, <1>2, <1>3, <1>4 DEF ShardInv, BatchHasRequest, Shard!Init

\* Requests move between queue, retry_request and batch; ids and the wire are left alone.
LEMMA RequestsMove ==
    ASSUME ShardInv, RequestsTyped', UNCHANGED <<staged, flow_ids, expired, next_flow_id, delivered, shard_reply>>,
           peer' \in {peer, {}}, shard_phase = "writing" => shard_phase' = "writing" \/ staged = << >>,
           shard_phase' = "writing" => (shard_phase = "writing" /\ batch' = batch) \/ Len(batch') > 0,
           Len(shard_queue') <= CHANNEL_SIZE, Len(batch') + Len(staged) <= BATCH_LIMIT, shard_made' >= shard_made
    PROVE  ShardInv'
<1>0. /\ RequestsTyped /\ IdsAreUnique /\ PeerIsRight /\ StagedHaveIds
      /\ Shard!TypeOK /\ Shard!ReplyReachesItsFlow
  BY DEF ShardInv
<1>1. IdsAreUnique' /\ PeerIsRight' /\ StagedHaveIds'
  BY <1>0 DEF IdsAreUnique, PeerIsRight, StagedHaveIds
<1>2. Shard!TypeOK' /\ Shard!ReplyReachesItsFlow'
  BY <1>0 DEF RequestsTyped, Shard!TypeOK, Shard!ReplyReachesItsFlow
<1>3. BatchHasRequest'
  BY <1>0 DEF BatchHasRequest, RequestsTyped, ShardInv
<1> QED
  BY <1>1, <1>2, <1>3 DEF ShardInv

\* The outer loop, a datagram sent and the surroundings.
LEMMA OuterStep ==
    ASSUME Shard!ShardConstants, ShardInv,
           \/ \E f \in ShardFlows : Shard!send(f)
           \/ Shard!Cancel \/ Shard!ConnectionBreaks \/ Shard!Outer \/ Shard!ConnectionOver
    PROVE  ShardInv'
<1>0. RequestsTyped /\ Shard!TypeOK /\ StagedHaveIds
  BY DEF ShardInv
<1>1. ASSUME NEW f \in ShardFlows, Shard!send(f) PROVE ShardInv'
  <2>1. shard_made' = shard_made + 1 /\ shard_made \in Nat /\ Request \subseteq Request'
        /\ [n |-> shard_made', flow |-> f] \in Request'
    BY <1>0, <1>1 DEF Shard!send, RequestsTyped, Request
  <2>2. /\ shard_queue' \in Seq(Request') /\ Len(shard_queue') <= CHANNEL_SIZE
    BY <1>0, <1>1, <2>1 DEF Shard!send, RequestsTyped, Shard!TypeOK, Shard!ShardConstants
  <2>3. RequestsTyped'
    BY <1>0, <1>1, <2>1, <2>2 DEF Shard!send, Shard!net, Shard!state, RequestsTyped
  <2> QED
    BY <1>0, <1>1, <2>1, <2>2, <2>3, RequestsMove DEF Shard!send, Shard!net, Shard!state, Shard!TypeOK
<1>2. CASE Shard!TakeFirst
  <2>1. /\ Head(shard_queue) \in Request /\ Tail(shard_queue) \in Seq(Request) /\ Len(Tail(shard_queue)) <= Len(shard_queue)
        /\ shard_made' = shard_made
    BY <1>0, <1>2 DEF Shard!TakeFirst, RequestsTyped
  <2>2. RequestsTyped'
    BY <1>0, <1>2, <2>1 DEF Shard!TakeFirst, RequestsTyped, Request
  <2> QED
    BY <1>0, <1>2, <2>1, <2>2, RequestsMove
       DEF Shard!TakeFirst, Shard!net, Shard!state, Shard!TypeOK, Shard!ShardConstants, RequestsTyped
<1>3. CASE \/ Shard!Cancel \/ Shard!ConnectionBreaks \/ Shard!Connected \/ Shard!ConnectFails
           \/ Shard!BackoffOver \/ Shard!StopShard \/ Shard!ConnectionOver
  <2>1. /\ UNCHANGED <<shard_made, shard_queue, retry_request, batch, staged, flow_ids, expired, next_flow_id, delivered, shard_reply>>
        /\ peer' \in {peer, {}} /\ ((shard_phase = "writing") <=> (shard_phase' = "writing"))
    BY <1>3 DEF Shard!Cancel, Shard!ConnectionBreaks, Shard!Connected, Shard!ConnectFails,
       Shard!BackoffOver, Shard!StopShard, Shard!ConnectionOver, Shard!net, Shard!state, Shard!Fault
  <2>2. RequestsTyped'
    BY <1>0, <2>1 DEF RequestsTyped, Request
  <2> QED
    BY <1>0, <2>1, <2>2, RequestsMove DEF RequestsTyped, Shard!TypeOK
<1> QED
  BY <1>1, <1>2, <1>3 DEF Shard!Outer

\* A batch of the kept or the first queued request and what follows it in the queue.
LEMMA BatchStarts ==
    ASSUME Shard!ShardConstants, ShardInv, Shard!send_udp_request_batch
    PROVE  ShardInv'
<1>0. RequestsTyped /\ Shard!TypeOK /\ StagedHaveIds /\ shard_phase = "connected"
  BY DEF ShardInv, Shard!send_udp_request_batch
<1>1. PICK first \in Request, rest \in Seq(Request) : Len(rest) <= Len(shard_queue) /\ Shard!StartBatch(first, rest)
  <2>1. CASE retry_request # NoRequest
    BY <1>0, <2>1 DEF Shard!send_udp_request_batch, RequestsTyped
  <2>2. CASE retry_request = NoRequest
    <3>1. /\ Head(shard_queue) \in Request /\ Tail(shard_queue) \in Seq(Request) /\ Len(Tail(shard_queue)) <= Len(shard_queue)
          /\ Shard!StartBatch(Head(shard_queue), Tail(shard_queue))
      BY <1>0, <2>2 DEF Shard!send_udp_request_batch, RequestsTyped
    <3> QED
      BY <3>1
  <2> QED
    BY <2>1, <2>2
<1> DEFINE taken == Shard!Smaller(BATCH_LIMIT - 1, Len(rest))
<1>2. taken \in 0..Len(rest) /\ taken + 1 <= BATCH_LIMIT
  BY DEF Shard!Smaller, Shard!ShardConstants
<1>3. /\ SubSeq(rest, 1, taken) \in Seq(Request) /\ Len(SubSeq(rest, 1, taken)) = taken
      /\ SubSeq(rest, taken + 1, Len(rest)) \in Seq(Request)
      /\ Len(SubSeq(rest, taken + 1, Len(rest))) <= Len(rest)
  <2> HIDE DEF taken
  <2> QED
    BY <1>2
<1>4. /\ batch' = <<first>> \o SubSeq(rest, 1, taken) /\ shard_queue' = SubSeq(rest, taken + 1, Len(rest))
      /\ shard_phase' = "writing" /\ retry_request' = NoRequest
      /\ UNCHANGED <<staged, flow_ids, expired, next_flow_id, peer, delivered, shard_reply, shard_made>>
  BY <1>1 DEF Shard!StartBatch, Shard!net, Shard!state
<1>5. /\ batch' \in Seq(Request) /\ Len(batch') = 1 + taken /\ shard_queue' \in Seq(Request) /\ Len(shard_queue') <= Len(shard_queue)
  <2> HIDE DEF taken
  <2> QED
    BY <1>0, <1>1, <1>2, <1>3, <1>4 DEF RequestsTyped
<1>6. RequestsTyped'
  BY <1>0, <1>4, <1>5 DEF RequestsTyped, Request
<1>7. staged = << >> /\ Len(staged) = 0
  BY <1>0 DEF StagedHaveIds
<1>8. Len(shard_queue') <= CHANNEL_SIZE /\ Len(batch') + Len(staged) <= BATCH_LIMIT
  <2> HIDE DEF taken
  <2> QED
    BY <1>0, <1>2, <1>5, <1>7 DEF Shard!TypeOK, Shard!ShardConstants, RequestsTyped
<1> QED
  BY <1>0, <1>4, <1>6, <1>8, RequestsMove DEF RequestsTyped

\* UdpRelayState::flow_id: the flow has an id afterwards, the ids of the others stay, and
\* a new id is one that no flow ever had.
LEMMA FlowGetsId ==
    ASSUME IdsAreUnique, PeerIsRight, NEW f, Shard!flow_id(f),
           expired \subseteq {flow_ids[g] : g \in DOMAIN flow_ids}
    PROVE  /\ IdsAreUnique'
           /\ \A p \in peer : /\ p.id \in 1..(next_flow_id' - 1)
                              /\ \A g \in DOMAIN flow_ids' : flow_ids'[g] = p.id => g = p.flow
           /\ DOMAIN flow_ids' = DOMAIN flow_ids \cup {f}
           /\ \A g \in DOMAIN flow_ids : flow_ids'[g] = flow_ids[g]
           /\ expired' \subseteq {flow_ids'[g] : g \in DOMAIN flow_ids'}
           /\ next_flow_id' >= next_flow_id
<1>1. CASE f \in DOMAIN flow_ids
  <2>1. UNCHANGED <<flow_ids, next_flow_id>> /\ expired' \subseteq expired
    BY <1>1 DEF Shard!flow_id
  <2>2. IdsAreUnique' /\ PeerIsRight /\ next_flow_id' >= next_flow_id
    BY <2>1 DEF IdsAreUnique
  <2> QED
    BY <1>1, <2>1, <2>2, ZenonT(60) DEF PeerIsRight
<1>2. CASE f \notin DOMAIN flow_ids
  <2>1. /\ DOMAIN flow_ids' = DOMAIN flow_ids \cup {f} /\ flow_ids'[f] = next_flow_id
        /\ \A g \in DOMAIN flow_ids : flow_ids'[g] = flow_ids[g]
        /\ expired' \subseteq expired /\ next_flow_id' = next_flow_id + 1
    BY <1>2 DEF Shard!flow_id, Shard!next_available_flow_id
  <2>2. IdsAreUnique' /\ next_flow_id' >= next_flow_id
    BY <1>2, <2>1 DEF IdsAreUnique
  <2>3. \A p \in peer : /\ p.id \in 1..(next_flow_id' - 1)
                        /\ \A g \in DOMAIN flow_ids' : flow_ids'[g] = p.id => g = p.flow
    BY <1>2, <2>1 DEF IdsAreUnique, PeerIsRight
  <2>4. expired' \subseteq {flow_ids'[g] : g \in DOMAIN flow_ids'}
    BY <2>1
  <2> QED
    BY <2>1, <2>2, <2>3, <2>4
<1> QED
  BY <1>1, <1>2

\* The proxy sees ids as they are in use.
LEMMA PeerLearns ==
    ASSUME ShardInv, IdsAreUnique', NEW k \in 0..Len(staged), Shard!Receive(k),
           \A p \in peer : /\ p.id \in 1..(next_flow_id' - 1)
                           /\ \A g \in DOMAIN flow_ids' : flow_ids'[g] = p.id => g = p.flow,
           DOMAIN flow_ids \subseteq DOMAIN flow_ids',
           \A g \in DOMAIN flow_ids : flow_ids'[g] = flow_ids[g]
    PROVE  PeerIsRight' /\ delivered' \subseteq 1..shard_made /\ shard_reply' = shard_reply
<1>0. RequestsTyped /\ IdsAreUnique /\ StagedHaveIds /\ Shard!TypeOK
  BY DEF ShardInv
<1>1. \A i \in 1..k : staged[i] \in Request /\ staged[i].flow \in DOMAIN flow_ids
  BY <1>0 DEF RequestsTyped, StagedHaveIds
<1>2. ASSUME NEW p \in peer'
      PROVE  /\ p.id \in 1..(next_flow_id' - 1)
             /\ \A g \in DOMAIN flow_ids' : flow_ids'[g] = p.id => g = p.flow
  <2>1. CASE p \in peer
    BY <2>1
  <2>2. CASE p \notin peer
    <3>1. PICK i \in 1..k : p = [id |-> flow_ids[staged[i].flow], flow |-> staged[i].flow]
      BY <2>2 DEF Shard!Receive
    <3>2. p.flow = staged[i].flow /\ p.id = flow_ids'[p.flow] /\ p.flow \in DOMAIN flow_ids'
      BY <1>1, <3>1
    <3> QED
      BY <3>2 DEF IdsAreUnique
  <2> QED
    BY <2>1, <2>2
<1>3. delivered' \subseteq 1..shard_made /\ shard_reply' = shard_reply
  <2>1. \A i \in 1..k : staged[i].n \in 1..shard_made
    BY <1>1 DEF Request
  <2>2. delivered \subseteq 1..shard_made
    BY <1>0 DEF Shard!TypeOK
  <2> QED
    BY <2>1, <2>2, ZenonT(60) DEF Shard!Receive
<1> QED
  BY <1>2, <1>3 DEF PeerIsRight

LEMMA WriteStep == ASSUME ShardInv, Shard!write_udp_request PROVE ShardInv'
<1>0. /\ RequestsTyped /\ IdsAreUnique /\ PeerIsRight /\ StagedHaveIds
      /\ Shard!TypeOK /\ Shard!ReplyReachesItsFlow
  BY DEF ShardInv
<1>1. /\ batch # << >> /\ Shard!flow_id(Head(batch).flow)
      /\ staged' = Append(staged, Head(batch)) /\ batch' = Tail(batch)
      /\ UNCHANGED <<shard_phase, shard_queue, retry_request, peer, delivered, shard_reply, shard_made>>
      /\ shard_phase = "writing"
  BY DEF Shard!write_udp_request, Shard!net
<1>2. /\ Head(batch) \in Request /\ Tail(batch) \in Seq(Request) /\ Len(Tail(batch)) = Len(batch) - 1
  BY <1>0, <1>1 DEF RequestsTyped
<1>3. RequestsTyped'
  <2>1. Request' = Request
    BY <1>1 DEF Request
  <2>2. staged' \in Seq(Request) /\ batch' \in Seq(Request)
    BY <1>0, <1>1, <1>2 DEF RequestsTyped
  <2> QED
    BY <1>0, <1>1, <2>1, <2>2 DEF RequestsTyped
<1>4. /\ IdsAreUnique' /\ PeerIsRight' /\ DOMAIN flow_ids' = DOMAIN flow_ids \cup {Head(batch).flow}
      /\ expired' \subseteq {flow_ids'[g] : g \in DOMAIN flow_ids'}
  BY <1>0, <1>1, FlowGetsId DEF Shard!TypeOK, PeerIsRight
<1>5. /\ Len(staged') = Len(staged) + 1
      /\ \A i \in 1..Len(staged') : staged'[i] = IF i <= Len(staged) THEN staged[i] ELSE Head(batch)
  BY <1>0, <1>1, <1>2 DEF RequestsTyped
<1>6. StagedHaveIds'
  BY <1>0, <1>1, <1>4, <1>5 DEF StagedHaveIds, RequestsTyped
<1>7. Shard!TypeOK' /\ Shard!ReplyReachesItsFlow'
  <2>1. Len(batch') + Len(staged') <= BATCH_LIMIT
    BY <1>0, <1>1, <1>2, <1>5 DEF Shard!TypeOK, RequestsTyped
  <2> QED
    BY <1>0, <1>1, <1>4, <2>1 DEF Shard!TypeOK, Shard!ReplyReachesItsFlow
<1>8. BatchHasRequest'
  BY <1>0, <1>3, <1>5 DEF BatchHasRequest, RequestsTyped
<1> QED
  BY <1>3, <1>4, <1>6, <1>7, <1>8 DEF ShardInv

\* A batch ends: flushed, or given up with one request kept.
LEMMA BatchEnds ==
    ASSUME Shard!ShardConstants, ShardInv, Shard!WriteFails \/ Shard!FlushFails \/ Shard!Flush
    PROVE  ShardInv'
<1>0. /\ RequestsTyped /\ IdsAreUnique /\ PeerIsRight /\ StagedHaveIds
      /\ Shard!TypeOK /\ Shard!ReplyReachesItsFlow
  BY DEF ShardInv
<1>1. /\ IdsAreUnique'
      /\ \A p \in peer : /\ p.id \in 1..(next_flow_id' - 1)
                         /\ \A g \in DOMAIN flow_ids' : flow_ids'[g] = p.id => g = p.flow
      /\ DOMAIN flow_ids \subseteq DOMAIN flow_ids'
      /\ \A g \in DOMAIN flow_ids : flow_ids'[g] = flow_ids[g]
      /\ expired' \subseteq {flow_ids'[g] : g \in DOMAIN flow_ids'}
  <2>1. CASE Shard!WriteFails
    BY <1>0, <2>1, FlowGetsId DEF Shard!WriteFails, Shard!TypeOK
  <2>2. CASE Shard!FlushFails \/ Shard!Flush
    <3>1. UNCHANGED <<flow_ids, expired, next_flow_id>>
      BY <2>2 DEF Shard!FlushFails, Shard!Flush, Shard!state
    <3> QED
      BY <1>0, <3>1 DEF IdsAreUnique, PeerIsRight, Shard!TypeOK
  <2> QED
    BY <2>1, <2>2
<1>2. PICK k \in 0..Len(staged) : Shard!Receive(k)
  <2>1. Len(staged) \in 0..Len(staged)
    BY <1>0 DEF RequestsTyped
  <2> QED
    BY <2>1 DEF Shard!WriteFails, Shard!FlushFails, Shard!Flush
<1>3. PeerIsRight' /\ delivered' \subseteq 1..shard_made /\ shard_reply' = shard_reply
  BY <1>1, <1>2, PeerLearns
<1>4. /\ staged' = << >> /\ batch' = << >> /\ shard_queue' = shard_queue /\ shard_made' = shard_made
      /\ retry_request' \in Request \cup {NoRequest}
  <2>1. CASE Shard!WriteFails
    BY <1>0, <2>1 DEF Shard!WriteFails, Shard!GiveUp, RequestsTyped
  <2>2. CASE Shard!FlushFails
    <3>1. staged[1] \in Request
      <4>1. Len(staged) > 0
        BY <1>0, <2>2 DEF Shard!FlushFails, BatchHasRequest, RequestsTyped, ShardInv
      <4> QED
        BY <1>0, <4>1 DEF RequestsTyped
    <3> QED
      BY <1>0, <2>2, <3>1 DEF Shard!FlushFails, Shard!GiveUp, RequestsTyped
  <2>3. CASE Shard!Flush
    BY <1>0, <2>3 DEF Shard!Flush, RequestsTyped
  <2> QED
    BY <2>1, <2>2, <2>3
<1>5. RequestsTyped'
  BY <1>0, <1>4 DEF RequestsTyped, Request
<1>6. StagedHaveIds'
  BY <1>4 DEF StagedHaveIds
<1>7. Shard!TypeOK' /\ Shard!ReplyReachesItsFlow'
  BY <1>0, <1>1, <1>3, <1>4 DEF Shard!TypeOK, Shard!ReplyReachesItsFlow, Shard!ShardConstants
<1>8. BatchHasRequest'
  BY DEF BatchHasRequest, Shard!WriteFails, Shard!FlushFails, Shard!Flush, Shard!GiveUp
<1> QED
  BY <1>1, <1>3, <1>5, <1>6, <1>7, <1>8 DEF ShardInv

\* A flow expires, expired flows are forgotten, a reply comes back.
LEMMA IdsChange ==
    ASSUME ShardInv,
           (\E f \in ShardFlows : Shard!FlowExpires(f)) \/ Shard!cleanup_expired \/ Shard!handle_udp_response
    PROVE  ShardInv'
<1>0. /\ RequestsTyped /\ IdsAreUnique /\ PeerIsRight /\ StagedHaveIds
      /\ Shard!TypeOK /\ Shard!ReplyReachesItsFlow
  BY DEF ShardInv
<1>1. UNCHANGED <<shard_phase, shard_made, shard_queue, retry_request, batch, staged, next_flow_id, peer, delivered>>
  BY DEF Shard!FlowExpires, Shard!cleanup_expired, Shard!handle_udp_response, Shard!net, Shard!state
<1>2. RequestsTyped' /\ BatchHasRequest'
  BY <1>0, <1>1 DEF RequestsTyped, Request, BatchHasRequest, ShardInv
<1>3. ASSUME NEW f \in ShardFlows, Shard!FlowExpires(f) PROVE ShardInv'
  <2>1. flow_ids' = flow_ids /\ shard_reply' = shard_reply /\ expired' \subseteq {flow_ids[g] : g \in DOMAIN flow_ids}
    BY <1>0, <1>3 DEF Shard!FlowExpires, Shard!TypeOK, Shard!net
  <2> QED
    BY <1>0, <1>1, <1>2, <2>1 DEF ShardInv, IdsAreUnique, PeerIsRight, StagedHaveIds, Shard!TypeOK,
       Shard!ReplyReachesItsFlow
<1>4. CASE Shard!cleanup_expired
  <2>1. /\ DOMAIN flow_ids' \subseteq DOMAIN flow_ids /\ \A g \in DOMAIN flow_ids' : flow_ids'[g] = flow_ids[g]
        /\ expired' = {} /\ shard_reply' = shard_reply /\ shard_phase = "connected"
    BY <1>4 DEF Shard!cleanup_expired, Shard!net
  <2>2. IdsAreUnique' /\ PeerIsRight'
    BY <1>0, <1>1, <2>1 DEF IdsAreUnique, PeerIsRight
  <2>3. StagedHaveIds'
    BY <1>0, <1>1, <2>1 DEF StagedHaveIds
  <2>4. Shard!TypeOK' /\ Shard!ReplyReachesItsFlow'
    BY <1>0, <1>1, <2>1 DEF Shard!TypeOK, Shard!ReplyReachesItsFlow
  <2> QED
    BY <1>2, <2>2, <2>3, <2>4 DEF ShardInv
<1>5. CASE Shard!handle_udp_response
  <2>1. UNCHANGED <<flow_ids, expired>>
    BY <1>5 DEF Shard!handle_udp_response, Shard!state
  <2>2. PICK p \in peer : shard_reply' = [of |-> p.flow, to |-> {f \in DOMAIN flow_ids : flow_ids[f] = p.id}]
    BY <1>5 DEF Shard!handle_udp_response
  <2>3. Shard!ReplyReachesItsFlow'
    BY <1>0, <2>2 DEF PeerIsRight, Shard!ReplyReachesItsFlow
  <2> QED
    BY <1>0, <1>1, <1>2, <2>1, <2>3 DEF ShardInv, IdsAreUnique, PeerIsRight, StagedHaveIds, Shard!TypeOK
<1> QED
  BY <1>3, <1>4, <1>5

LEMMA ShardStep ==
    ASSUME Shard!ShardConstants, ShardInv, [Shard!Next]_(Shard!vars) PROVE ShardInv'
<1>1. CASE UNCHANGED Shard!vars
  <2>1. UNCHANGED <<shard_phase, shard_made, shard_queue, retry_request, batch, staged, flow_ids, expired, next_flow_id, peer, delivered, shard_reply>>
    BY <1>1 DEF Shard!vars, Shard!state, Shard!net
  <2>2. RequestsTyped' /\ Shard!TypeOK /\ RequestsTyped
    BY <2>1 DEF ShardInv, RequestsTyped, Request
  <2> QED
    BY <2>1, <2>2, RequestsMove DEF RequestsTyped, Shard!TypeOK
<1>2. CASE Shard!Next
  BY <1>2, OuterStep, BatchStarts, WriteStep, BatchEnds, IdsChange DEF Shard!Next, Shard!ShardNext, Shard!Inner
<1> QED
  BY <1>1, <1>2

\* For any number of flows, requests and faults, and any sizes of channel and batch: a reply
\* is written to the flow whose datagram it answers or to none, although flows expire, come
\* back under a new id and change connections while replies are under way (flow_id,
\* cleanup_expired and handle_udp_response); queue and batch stay within their limits.
THEOREM RepliesFindTheirFlow ==
    ASSUME Shard!ShardConstants
    PROVE  SuiteSpec => []ReplyReachesItsFlow
<1>1. SuiteInit => ShardInv
  BY ShardInit DEF SuiteInit
<1>2. ShardInv /\ [SuiteNext]_suite_vars => ShardInv'
  <2>1. [SuiteNext]_suite_vars => [Shard!Next]_(Shard!vars)
    BY DEF SuiteNext, OnlyPool, OnlyNativeSlots, OnlyShard, OnlySessions, OnlyDirectSessions,
           OnlyDns, OnlyAndroidDns, OnlyRoutes, OnlyMacos, OnlyGuard, OnlyHelper, suite_vars,
           shard_vars, Shard!vars, Shard!state, Shard!net
  <2> QED
    BY <2>1, ShardStep
<1>3. ShardInv => ReplyReachesItsFlow
  BY DEF ShardInv, ReplyReachesItsFlow
<1> QED
  BY <1>1, <1>2, <1>3, PTL DEF SuiteSpec
-----------------------------------------------------------------------------
(* The DNS proxy (DnsProxy). *)

Query == [n : 1..dns_made, q : Queries]

QueriesTyped ==
    /\ dns_made \in 0..MaxQueries /\ dns_faults \in 0..MaxFaults /\ next_id \in Nat
    /\ dns_queue \in Seq(Query) /\ Len(dns_queue) <= CHANNEL_SIZE
    /\ dns_current \in Query \cup {NoRequest}
    /\ dns_phase \in {"first", "connecting", "backoff"} => dns_current \in Query
    /\ \A id \in DOMAIN pending : pending[id] \in Query
    /\ dns_answered \in [1..MaxQueries -> 0..1]

Kept == IF dns_current # NoRequest THEN 1 ELSE 0
Doomed == IF dns_broken /\ dns_phase = "connected" THEN 1 ELSE 0

\* Ids do not come round: one is taken per request sent and per write that failed, and a
\* connection fails one write.  An id on the wire is of the request that is pending under it.
IdsAreFresh ==
    /\ next_id + Len(dns_queue) + Kept + Doomed <= dns_made + dns_faults
    /\ \A id \in DOMAIN pending : id \in 0..(next_id - 1)
    /\ \A w \in wire : /\ w.id \in 0..(next_id - 1)
                       /\ w.id \in DOMAIN pending => w.q = pending[w.id].q

\* A request is queued, kept or pending, and in one of these places once.
OnePlace ==
    /\ \A i, j \in 1..Len(dns_queue) : dns_queue[i].n = dns_queue[j].n => i = j
    /\ \A a, b \in DOMAIN pending : pending[a].n = pending[b].n => a = b
    /\ \A i \in 1..Len(dns_queue), a \in DOMAIN pending : dns_queue[i].n # pending[a].n
    /\ dns_current # NoRequest => /\ \A i \in 1..Len(dns_queue) : dns_queue[i].n # dns_current.n
                                  /\ \A a \in DOMAIN pending : pending[a].n # dns_current.n

\* A request that is in one of them has no answer yet.
Unanswered ==
    /\ \A i \in 1..Len(dns_queue) : dns_answered[dns_queue[i].n] = 0
    /\ \A a \in DOMAIN pending : dns_answered[pending[a].n] = 0
    /\ dns_current # NoRequest => dns_answered[dns_current.n] = 0
    /\ \A n \in 1..MaxQueries : n > dns_made => dns_answered[n] = 0

CacheIsRight ==
    /\ DOMAIN cache \subseteq Queries /\ IsFiniteSet(DOMAIN cache) /\ Cardinality(DOMAIN cache) <= CACHE_SIZE
    /\ \A q \in DOMAIN cache : cache[q].q = q /\ cache[q].good

\* The inductive invariant.
DnsInv == /\ QueriesTyped /\ IdsAreFresh /\ OnePlace /\ Unanswered /\ CacheIsRight
          /\ Dns!AnswerMatchesQuery
-----------------------------------------------------------------------------
LEMMA DnsInit == ASSUME Dns!DnsConstants, Dns!Init PROVE DnsInv
<1>1. /\ dns_phase = "waiting" /\ dns_queue = << >> /\ dns_current = NoRequest /\ DOMAIN pending = {}
      /\ next_id = 0 /\ DOMAIN cache = {} /\ wire = {} /\ dns_reply = << >> /\ dns_made = 0 /\ dns_faults = 0
      /\ dns_answered = [n \in 1..MaxQueries |-> 0]
  BY DEF Dns!Init
<1>2. QueriesTyped
  BY <1>1 DEF QueriesTyped, Dns!DnsConstants
<1>3. IdsAreFresh
  BY <1>1 DEF IdsAreFresh, Kept, Doomed, Dns!Init
<1>4. OnePlace /\ Unanswered
  BY <1>1 DEF OnePlace, Unanswered
<1>5. CacheIsRight /\ Dns!AnswerMatchesQuery
  BY <1>1, FS_EmptySet DEF CacheIsRight, Dns!AnswerMatchesQuery, Dns!DnsConstants
<1> QED
  BY <1>2, <1>3, <1>4, <1>5 DEF DnsInv

\* Numbers are given out in order.
LEMMA NumbersAreOld ==
    ASSUME QueriesTyped, Dns!DnsConstants
    PROVE  /\ dns_made \in Nat
           /\ \A i \in 1..Len(dns_queue) : dns_queue[i].n \in 1..dns_made
           /\ \A a \in DOMAIN pending : pending[a].n \in 1..dns_made
           /\ dns_current # NoRequest => dns_current.n \in 1..dns_made
<1>1. dns_made \in Nat
  BY DEF QueriesTyped, Dns!DnsConstants
<1>2. \A r \in Query : r.n \in 1..dns_made
  BY DEF Query
<1>3. \A i \in 1..Len(dns_queue) : dns_queue[i] \in Query
  BY DEF QueriesTyped
<1> QED
  BY <1>1, <1>2, <1>3 DEF QueriesTyped

\* DnsProxy::send: a new number.
LEMMA SendStep == ASSUME Dns!DnsConstants, DnsInv, NEW q \in Queries, Dns!send(q) PROVE DnsInv'
<1>0. /\ QueriesTyped /\ IdsAreFresh /\ OnePlace /\ Unanswered /\ CacheIsRight /\ Dns!AnswerMatchesQuery
  BY DEF DnsInv
<1> DEFINE r == [n |-> dns_made + 1, q |-> q]
<1>1. /\ dns_made < MaxQueries /\ dns_made' = dns_made + 1
      /\ \/ Len(dns_queue) < CHANNEL_SIZE /\ dns_queue' = Append(dns_queue, r)
         \/ dns_queue' = dns_queue
      /\ UNCHANGED <<dns_phase, dns_current, pending, next_id, cache, dns_broken, wire, dns_reply, dns_answered, dns_faults>>
  BY DEF Dns!send, Dns!conn, Dns!told
<1>2. dns_made' \in 1..MaxQueries /\ Query \subseteq Query' /\ r \in Query' /\ r.n = dns_made + 1
  BY <1>0, <1>1 DEF QueriesTyped, Query, Dns!DnsConstants
<1> HIDE DEF r
<1>3. /\ dns_queue' \in Seq(Query') /\ Len(dns_queue') <= CHANNEL_SIZE /\ Len(dns_queue') \in Nat
      /\ Len(dns_queue') <= Len(dns_queue) + 1 /\ Len(dns_queue) \in Nat
      /\ \A i \in 1..Len(dns_queue') : \/ i \in 1..Len(dns_queue) /\ dns_queue'[i] = dns_queue[i]
                                       \/ i = Len(dns_queue) + 1 /\ dns_queue'[i] = r
  <2>1. dns_queue \in Seq(Query') /\ Len(dns_queue) \in Nat /\ Len(dns_queue) <= CHANNEL_SIZE
    BY <1>0, <1>2 DEF QueriesTyped
  <2>2. CASE dns_queue' = dns_queue
    BY <2>1, <2>2
  <2>3. CASE Len(dns_queue) < CHANNEL_SIZE /\ dns_queue' = Append(dns_queue, r)
    BY <1>2, <2>1, <2>3 DEF Dns!DnsConstants
  <2> QED
    BY <1>1, <2>2, <2>3
<1>4. QueriesTyped'
  BY <1>0, <1>1, <1>2, <1>3 DEF QueriesTyped
<1>5. IdsAreFresh'
  BY <1>0, <1>1, <1>3 DEF IdsAreFresh, Kept, Doomed, QueriesTyped
<1>6. /\ \A i \in 1..Len(dns_queue) : dns_queue[i].n \in 1..dns_made
      /\ \A a \in DOMAIN pending : pending[a].n \in 1..dns_made
      /\ dns_current # NoRequest => dns_current.n \in 1..dns_made
      /\ dns_made \in Nat
  BY <1>0, NumbersAreOld
<1>7. OnePlace'
  <2>1. \A i \in 1..Len(dns_queue') : (i \in 1..Len(dns_queue) /\ dns_queue'[i].n = dns_queue[i].n)
                                       \/ (i = Len(dns_queue) + 1 /\ dns_queue'[i].n = dns_made + 1)
    BY <1>2, <1>3
  <2>2. \A i, j \in 1..Len(dns_queue') : dns_queue'[i].n = dns_queue'[j].n => i = j
    BY <1>0, <1>6, <2>1 DEF OnePlace
  <2>3. \A i \in 1..Len(dns_queue'), a \in DOMAIN pending : dns_queue'[i].n # pending[a].n
    BY <1>0, <1>6, <2>1 DEF OnePlace
  <2>4. dns_current # NoRequest => \A i \in 1..Len(dns_queue') : dns_queue'[i].n # dns_current.n
    BY <1>0, <1>6, <2>1 DEF OnePlace
  <2> QED
    BY <1>0, <1>1, <2>2, <2>3, <2>4 DEF OnePlace
<1>8. Unanswered'
  BY <1>0, <1>1, <1>2, <1>3, <1>6 DEF Unanswered
<1>9. CacheIsRight' /\ Dns!AnswerMatchesQuery'
  BY <1>0, <1>1 DEF CacheIsRight, Dns!AnswerMatchesQuery
<1> QED
  BY <1>4, <1>5, <1>7, <1>8, <1>9 DEF DnsInv

\* Steps of the connection: requests stay where they are, or what was pending is forgotten.
LEMMA ConnectionStep ==
    ASSUME Dns!DnsConstants, DnsInv,
           \/ Dns!Cancel \/ Dns!ConnectionBreaks \/ Dns!connect_dns_stream \/ Dns!Connected
           \/ Dns!ConnectFails \/ Dns!BackoffOver \/ Dns!StopProxy \/ Dns!ConnectionOver
           \/ (\E q \in Queries : Dns!CacheExpires(q)) \/ (\E id \in Dns!Ids : Dns!cleanup_pending_dns(id))
           \/ UNCHANGED Dns!vars
    PROVE  DnsInv'
<1>0. /\ QueriesTyped /\ IdsAreFresh /\ OnePlace /\ Unanswered /\ CacheIsRight /\ Dns!AnswerMatchesQuery
  BY DEF DnsInv
<1>1. /\ UNCHANGED <<dns_queue, dns_current, next_id, dns_reply, dns_answered, dns_made>>
      /\ wire' \subseteq wire
  BY DEF Dns!Cancel, Dns!ConnectionBreaks, Dns!connect_dns_stream, Dns!Connected, Dns!ConnectFails, Dns!BackoffOver,
     Dns!StopProxy, Dns!ConnectionOver, Dns!CacheExpires, Dns!cleanup_pending_dns, Dns!vars, Dns!conn, Dns!told
<1>2. DOMAIN pending' \subseteq DOMAIN pending /\ \A id \in DOMAIN pending' : pending'[id] = pending[id]
  <2>1. CASE Dns!Connected
    BY <2>1 DEF Dns!Connected
  <2>2. CASE \E id \in Dns!Ids : Dns!cleanup_pending_dns(id)
    BY <2>2 DEF Dns!cleanup_pending_dns, Dns!Without
  <2>3. CASE pending' = pending
    BY <2>3
  <2> QED
    BY <2>1, <2>2, <2>3 DEF Dns!Cancel, Dns!ConnectionBreaks, Dns!connect_dns_stream, Dns!ConnectFails,
       Dns!BackoffOver, Dns!StopProxy, Dns!ConnectionOver, Dns!CacheExpires, Dns!vars
<1>3. DOMAIN cache' \subseteq DOMAIN cache /\ \A q \in DOMAIN cache' : cache'[q] = cache[q]
  BY DEF Dns!Cancel, Dns!ConnectionBreaks, Dns!connect_dns_stream, Dns!Connected, Dns!ConnectFails, Dns!BackoffOver,
     Dns!StopProxy, Dns!ConnectionOver, Dns!CacheExpires, Dns!cleanup_pending_dns, Dns!vars, Dns!Without
<1>4. /\ dns_faults' \in 0..MaxFaults /\ dns_faults' + Doomed >= dns_faults + Doomed'
      /\ dns_phase' \in {"first", "connecting", "backoff"} => dns_phase \in {"first", "connecting", "backoff"}
  <2>1. CASE Dns!ConnectionBreaks
    BY <1>0, <2>1 DEF Dns!ConnectionBreaks, Dns!Fault, Doomed, QueriesTyped, Dns!DnsConstants
  <2>2. CASE Dns!ConnectFails
    BY <1>0, <2>2 DEF Dns!ConnectFails, Dns!Fault, Doomed, QueriesTyped, Dns!DnsConstants, Dns!conn
  <2>3. CASE Dns!Connected
    BY <1>0, <2>3 DEF Dns!Connected, Doomed, QueriesTyped
  <2>4. CASE Dns!connect_dns_stream \/ Dns!BackoffOver \/ Dns!StopProxy \/ Dns!ConnectionOver
    BY <1>0, <2>4 DEF Dns!connect_dns_stream, Dns!BackoffOver, Dns!StopProxy, Dns!ConnectionOver, Doomed, QueriesTyped, Dns!conn
  <2>5. CASE UNCHANGED <<dns_phase, dns_broken, dns_faults>>
    BY <1>0, <2>5 DEF Doomed, QueriesTyped
  <2> QED
    BY <2>1, <2>2, <2>3, <2>4, <2>5 DEF Dns!Cancel, Dns!CacheExpires, Dns!cleanup_pending_dns, Dns!vars, Dns!conn
<1>5. QueriesTyped'
  BY <1>0, <1>1, <1>2, <1>4 DEF QueriesTyped, Query
<1>6. IdsAreFresh'
  <2>1. next_id + Len(dns_queue) + Kept + Doomed' <= dns_made + dns_faults'
    <3>1. {next_id, Len(dns_queue), Kept, Doomed, Doomed', dns_made, dns_faults, dns_faults'} \subseteq Nat
      BY <1>0, <1>4 DEF QueriesTyped, Kept, Doomed, Dns!DnsConstants
    <3>2. next_id + Len(dns_queue) + Kept + Doomed <= dns_made + dns_faults
      BY <1>0 DEF IdsAreFresh
    <3> QED
      BY <1>4, <3>1, <3>2
  <2>2. Kept' = Kept
    BY <1>1 DEF Kept
  <2> QED
    BY <1>0, <1>1, <1>2, <2>1, <2>2 DEF IdsAreFresh
<1>7. OnePlace' /\ Unanswered'
  BY <1>0, <1>1, <1>2 DEF OnePlace, Unanswered
<1>8. CacheIsRight' /\ Dns!AnswerMatchesQuery'
  <2>1. IsFiniteSet(DOMAIN cache') /\ Cardinality(DOMAIN cache') <= Cardinality(DOMAIN cache)
        /\ Cardinality(DOMAIN cache) \in Nat /\ Cardinality(DOMAIN cache') \in Nat
    BY <1>0, <1>3, FS_Subset, FS_CardinalityType DEF CacheIsRight
  <2>2. CacheIsRight'
    BY <1>0, <1>3, <2>1 DEF CacheIsRight, Dns!DnsConstants
  <2> QED
    BY <1>0, <1>1, <2>2 DEF Dns!AnswerMatchesQuery
<1> QED
  BY <1>5, <1>6, <1>7, <1>8 DEF DnsInv

\* The first request of the queue is kept for the connection it needs.
LEMMA TakeFirstStep == ASSUME Dns!DnsConstants, DnsInv, Dns!TakeFirst PROVE DnsInv'
<1>0. /\ QueriesTyped /\ IdsAreFresh /\ OnePlace /\ Unanswered /\ CacheIsRight /\ Dns!AnswerMatchesQuery
  BY DEF DnsInv
<1>1. /\ dns_phase = "waiting" /\ dns_queue # << >> /\ dns_current' = Head(dns_queue) /\ dns_queue' = Tail(dns_queue)
      /\ dns_phase' = "first"
      /\ UNCHANGED <<pending, next_id, cache, dns_broken, wire, dns_reply, dns_answered, dns_made, dns_faults>>
  BY DEF Dns!TakeFirst, Dns!conn, Dns!told
<1>2. /\ dns_current' = dns_queue[1] /\ dns_queue[1] \in Query /\ 1 \in 1..Len(dns_queue) /\ Len(dns_queue) \in Nat
      /\ dns_queue' \in Seq(Query) /\ Len(dns_queue') = Len(dns_queue) - 1
      /\ \A i \in 1..Len(dns_queue') : i + 1 \in 1..Len(dns_queue) /\ dns_queue'[i] = dns_queue[i + 1]
  BY <1>0, <1>1 DEF QueriesTyped
<1>3. QueriesTyped'
  BY <1>0, <1>1, <1>2 DEF QueriesTyped, Query, Dns!DnsConstants
<1>4. IdsAreFresh'
  <2>1. next_id + Len(dns_queue') + Kept' + Doomed' <= dns_made + dns_faults
    BY <1>0, <1>1, <1>2 DEF IdsAreFresh, QueriesTyped, Kept, Doomed
  <2> QED
    BY <1>0, <1>1, <2>1 DEF IdsAreFresh
<1>5. OnePlace'
  <2>1. \A i, j \in 1..Len(dns_queue') : dns_queue'[i].n = dns_queue'[j].n => i = j
    BY <1>0, <1>2, SMTT(60) DEF OnePlace
  <2>2. \A i \in 1..Len(dns_queue') : dns_queue'[i].n # dns_current'.n
    BY <1>0, <1>2 DEF OnePlace
  <2> QED
    BY <1>0, <1>1, <1>2, <2>1, <2>2 DEF OnePlace
<1>6. Unanswered'
  BY <1>0, <1>1, <1>2 DEF Unanswered
<1>7. CacheIsRight' /\ Dns!AnswerMatchesQuery'
  BY <1>0, <1>1 DEF CacheIsRight, Dns!AnswerMatchesQuery
<1> QED
  BY <1>3, <1>4, <1>5, <1>6, <1>7 DEF DnsInv

\* The kept or the first queued request is taken: it is nowhere else and has no answer.
LEMMA RequestIsTaken ==
    ASSUME Dns!DnsConstants, DnsInv, Dns!Ready,
           dns_queue' = IF dns_current # NoRequest THEN dns_queue ELSE Tail(dns_queue)
    PROVE  /\ Dns!Request \in Query /\ dns_queue' \in Seq(Query) /\ Len(dns_queue') \in Nat
           /\ Len(dns_queue') <= Len(dns_queue) /\ Len(dns_queue') + 1 <= Len(dns_queue) + Kept
           /\ \A i, j \in 1..Len(dns_queue') : dns_queue'[i].n = dns_queue'[j].n => i = j
           /\ \A i \in 1..Len(dns_queue') : /\ dns_queue'[i].n # Dns!Request.n /\ dns_answered[dns_queue'[i].n] = 0
                                            /\ \A a \in DOMAIN pending : dns_queue'[i].n # pending[a].n
           /\ \A a \in DOMAIN pending : pending[a].n # Dns!Request.n
           /\ dns_answered[Dns!Request.n] = 0
<1>0. /\ QueriesTyped /\ OnePlace /\ Unanswered
  BY DEF DnsInv
<1>1. CASE dns_current # NoRequest
  <2>1. Dns!Request = dns_current /\ dns_queue' = dns_queue /\ dns_current \in Query /\ Kept = 1
    BY <1>0, <1>1 DEF Dns!Request, QueriesTyped, Kept
  <2>2. Len(dns_queue) \in Nat /\ dns_queue \in Seq(Query)
    BY <1>0 DEF QueriesTyped
  <2> QED
    BY <1>0, <1>1, <2>1, <2>2 DEF OnePlace, Unanswered
<1>2. CASE dns_current = NoRequest
  <2>1. Dns!Request = Head(dns_queue) /\ dns_queue' = Tail(dns_queue) /\ dns_queue # << >> /\ Kept = 0
    BY <1>2 DEF Dns!Request, Dns!Ready, Kept
  <2>2. /\ Dns!Request = dns_queue[1] /\ dns_queue[1] \in Query /\ 1 \in 1..Len(dns_queue) /\ Len(dns_queue) \in Nat
        /\ dns_queue' \in Seq(Query) /\ Len(dns_queue') = Len(dns_queue) - 1
        /\ \A i \in 1..Len(dns_queue') : i + 1 \in 1..Len(dns_queue) /\ dns_queue'[i] = dns_queue[i + 1]
    BY <1>0, <2>1 DEF QueriesTyped
  <2>3. \A i, j \in 1..Len(dns_queue') : dns_queue'[i].n = dns_queue'[j].n => i = j
    BY <1>0, <2>2 DEF OnePlace
  <2>4. \A i \in 1..Len(dns_queue') : dns_queue'[i].n # Dns!Request.n
    BY <1>0, <2>2 DEF OnePlace
  <2>5. \A i \in 1..Len(dns_queue') : /\ dns_answered[dns_queue'[i].n] = 0
                                      /\ \A a \in DOMAIN pending : dns_queue'[i].n # pending[a].n
    BY <1>0, <2>2 DEF OnePlace, Unanswered
  <2>6. (\A a \in DOMAIN pending : pending[a].n # Dns!Request.n) /\ dns_answered[Dns!Request.n] = 0
    BY <1>0, <2>2 DEF OnePlace, Unanswered
  <2>7. Len(dns_queue') \in Nat /\ Len(dns_queue') <= Len(dns_queue) /\ Len(dns_queue') + 1 <= Len(dns_queue) + Kept
    BY <2>1, <2>2
  <2> QED
    BY <2>2, <2>3, <2>4, <2>5, <2>6, <2>7
<1> QED
  BY <1>1, <1>2

\* WriteBack for a request that is taken from its place: its only answer.
LEMMA AnswerCounts ==
    ASSUME Dns!DnsConstants, QueriesTyped, NEW r \in Query, NEW q, Dns!WriteBack(r, q), dns_answered[r.n] = 0
    PROVE  /\ dns_answered' \in [1..MaxQueries -> 0..1]
           /\ \A n \in 1..MaxQueries : n # r.n => dns_answered'[n] = dns_answered[n]
           /\ r.n \in 1..dns_made /\ dns_made \in 0..MaxQueries
<1>1. r.n \in 1..dns_made /\ dns_made \in 0..MaxQueries /\ r.n \in 1..MaxQueries
  BY DEF Query, QueriesTyped, Dns!DnsConstants
<1>2. dns_answered \in [1..MaxQueries -> 0..1] /\ dns_answered' = [dns_answered EXCEPT ![r.n] = @ + 1]
  BY DEF QueriesTyped, Dns!WriteBack
<1> QED
  BY <1>1, <1>2

\* Request r is answered by the agent itself, before or on a connection.
AnsweredHere(r) ==
    /\ \/ dns_phase = "first" /\ dns_phase' = "waiting" /\ r = dns_current /\ dns_queue' = dns_queue
       \/ /\ Dns!Ready /\ dns_phase' = dns_phase /\ r = Dns!Request
          /\ dns_queue' = IF dns_current # NoRequest THEN dns_queue ELSE Tail(dns_queue)
    /\ Dns!WriteBack(r, r.q) /\ dns_current' = NoRequest
    /\ UNCHANGED <<pending, next_id, dns_broken, wire, dns_made, dns_faults>>

LEMMA AnsweredHereStep ==
    ASSUME Dns!DnsConstants, DnsInv, NEW r, AnsweredHere(r), CacheIsRight'
    PROVE  DnsInv'
<1>0. /\ QueriesTyped /\ IdsAreFresh /\ OnePlace /\ Unanswered
  BY DEF DnsInv
<1>1. /\ dns_current' = NoRequest /\ Dns!WriteBack(r, r.q)
      /\ UNCHANGED <<pending, next_id, dns_broken, wire, dns_made, dns_faults>>
      /\ dns_phase' \notin {"first", "connecting", "backoff"}
      /\ dns_phase' = "connected" => dns_phase = "connected"
  BY DEF AnsweredHere, Dns!Ready
<1>2. /\ r \in Query /\ dns_answered[r.n] = 0
      /\ dns_queue' \in Seq(Query) /\ Len(dns_queue') \in Nat /\ Len(dns_queue') <= Len(dns_queue)
      /\ \A i, j \in 1..Len(dns_queue') : dns_queue'[i].n = dns_queue'[j].n => i = j
      /\ \A i \in 1..Len(dns_queue') : /\ dns_queue'[i].n # r.n /\ dns_answered[dns_queue'[i].n] = 0
                                       /\ \A a \in DOMAIN pending : dns_queue'[i].n # pending[a].n
      /\ \A a \in DOMAIN pending : pending[a].n # r.n
  <2>1. CASE dns_phase = "first" /\ r = dns_current /\ dns_queue' = dns_queue
    <3>1. /\ dns_current \in Query /\ dns_current # NoRequest
          /\ Len(dns_queue) \in Nat /\ dns_queue \in Seq(Query)
      <4>1. dns_current \in Query /\ dns_made \in Nat
        BY <1>0, <2>1 DEF QueriesTyped, Dns!DnsConstants
      <4>2. dns_current \in [n : Nat, q : Queries]
        BY <4>1 DEF Query
      <4> QED
        BY <1>0, <2>1, <4>1, <4>2 DEF QueriesTyped, Dns!DnsConstants
    <3> QED
      BY <1>0, <2>1, <3>1 DEF OnePlace, Unanswered
  <2>2. CASE /\ Dns!Ready /\ r = Dns!Request
             /\ dns_queue' = IF dns_current # NoRequest THEN dns_queue ELSE Tail(dns_queue)
    BY <2>2, RequestIsTaken
  <2> QED
    BY <2>1, <2>2 DEF AnsweredHere
<1>3. /\ dns_answered' \in [1..MaxQueries -> 0..1]
      /\ \A n \in 1..MaxQueries : n # r.n => dns_answered'[n] = dns_answered[n]
      /\ r.n \in 1..dns_made /\ dns_made \in 0..MaxQueries
  BY <1>0, <1>1, <1>2, AnswerCounts
<1>4. QueriesTyped'
  <2>1. Len(dns_queue') <= CHANNEL_SIZE
    BY <1>0, <1>2 DEF QueriesTyped, Dns!DnsConstants
  <2> QED
    BY <1>0, <1>1, <1>2, <1>3, <2>1 DEF QueriesTyped, Query
<1>5. IdsAreFresh'
  <2>1. Kept' = 0 /\ Doomed' <= Doomed /\ Doomed \in Nat /\ Doomed' \in Nat /\ Kept \in Nat
    BY <1>1 DEF Kept, Doomed
  <2>2. next_id + Len(dns_queue') + Kept' + Doomed' <= dns_made + dns_faults
    BY <1>0, <1>2, <2>1, SMTT(60) DEF IdsAreFresh, QueriesTyped, Dns!DnsConstants
  <2> QED
    BY <1>0, <1>1, <2>2 DEF IdsAreFresh
<1>6. OnePlace'
  BY <1>0, <1>1, <1>2 DEF OnePlace
<1>7. Unanswered'
  <2>1. \A i \in 1..Len(dns_queue') : dns_queue'[i].n \in 1..MaxQueries
    <3>1. \A i \in 1..Len(dns_queue') : dns_queue'[i] \in Query
      BY <1>2
    <3>2. \A s \in Query : s.n \in 1..MaxQueries
      BY <1>3 DEF Query, Dns!DnsConstants
    <3> QED
      BY <3>1, <3>2
  <2>2. \A a \in DOMAIN pending : pending[a].n \in 1..MaxQueries
    BY <1>0, <1>3, NumbersAreOld DEF Dns!DnsConstants
  <2>3. \A i \in 1..Len(dns_queue') : dns_answered'[dns_queue'[i].n] = 0
    BY <1>2, <1>3, <2>1
  <2>4. \A a \in DOMAIN pending : dns_answered'[pending[a].n] = 0
    BY <1>0, <1>2, <1>3, <2>2 DEF Unanswered
  <2>5. \A n \in 1..MaxQueries : n > dns_made => dns_answered'[n] = 0
    BY <1>0, <1>3 DEF Unanswered, Dns!DnsConstants
  <2> QED
    BY <1>1, <2>3, <2>4, <2>5 DEF Unanswered
<1>8. Dns!AnswerMatchesQuery'
  BY <1>1 DEF Dns!AnswerMatchesQuery, Dns!WriteBack
<1> QED
  BY <1>4, <1>5, <1>6, <1>7, <1>8 DEF DnsInv

\* A cached answer ends a request.
LEMMA CachedStep ==
    ASSUME Dns!DnsConstants, DnsInv, Dns!FirstFromCache \/ Dns!try_send_cached_dns_response
    PROVE  DnsInv'
<1>1. CacheIsRight' /\ CacheIsRight
  BY DEF DnsInv, CacheIsRight, Dns!FirstFromCache, Dns!try_send_cached_dns_response
<1>2. CASE Dns!FirstFromCache
  <2>1. AnsweredHere(dns_current)
    BY <1>1, <1>2 DEF AnsweredHere, CacheIsRight, Dns!FirstFromCache, Dns!conn
  <2> QED
    BY <1>1, <2>1, AnsweredHereStep
<1>3. CASE Dns!try_send_cached_dns_response
  <2>1. AnsweredHere(Dns!Request)
    BY <1>1, <1>3 DEF AnsweredHere, CacheIsRight, Dns!try_send_cached_dns_response, Dns!Taken, Dns!conn
  <2> QED
    BY <1>1, <2>1, AnsweredHereStep
<1> QED
  BY <1>2, <1>3

\* allocate_dns_id: the next id, which no request on this connection has had.
LEMMA NextIdIsFree ==
    ASSUME Dns!DnsConstants, DnsInv, Dns!Ready
    PROVE  /\ Dns!allocate_dns_id = next_id /\ (next_id + 1) % IDS = next_id + 1
           /\ next_id \notin DOMAIN pending
<1>0. QueriesTyped /\ IdsAreFresh
  BY DEF DnsInv
<1>1. next_id \notin DOMAIN pending /\ next_id \in Nat
  BY <1>0 DEF IdsAreFresh, QueriesTyped
<1>2. Len(dns_queue) + Kept >= 1 /\ Len(dns_queue) \in Nat /\ Kept \in Nat /\ Doomed \in Nat
  <2>1. dns_queue # << >> => Len(dns_queue) >= 1
    BY <1>0 DEF QueriesTyped
  <2>2. Len(dns_queue) \in Nat
    BY <1>0 DEF QueriesTyped
  <2> QED
    BY <2>1, <2>2 DEF Dns!Ready, Kept, Doomed
<1>3. next_id + 1 < IDS
  BY <1>0, <1>2 DEF IdsAreFresh, QueriesTyped, Dns!DnsConstants
<1>4. (next_id + 1) % IDS = next_id + 1 /\ (next_id + 0) % IDS = next_id /\ IDS \in Nat /\ IDS > 0
  BY <1>1, <1>3 DEF Dns!DnsConstants
<1> DEFINE free == {d \in Dns!Ids : (next_id + d) % IDS \notin DOMAIN pending}
<1>5. 0 \in free /\ \A e \in free : 0 <= e /\ e \in Nat
  BY <1>1, <1>4 DEF Dns!Ids
<1> HIDE DEF free
<1>6. (CHOOSE d \in free : \A e \in free : d <= e) = 0
  BY <1>5
<1>7. Dns!allocate_dns_id = (next_id + (CHOOSE d \in free : \A e \in free : d <= e)) % IDS
  BY DEF Dns!allocate_dns_id, free
<1> QED
  BY <1>1, <1>4, <1>6, <1>7

\* send_dns_request and a write that fails.
LEMMA SendRequestStep ==
    ASSUME Dns!DnsConstants, DnsInv, Dns!send_dns_request \/ Dns!SendFails
    PROVE  DnsInv'
<1>0. /\ QueriesTyped /\ IdsAreFresh /\ OnePlace /\ Unanswered /\ CacheIsRight /\ Dns!AnswerMatchesQuery
  BY DEF DnsInv
<1>1. /\ dns_queue' = (IF dns_current # NoRequest THEN dns_queue ELSE Tail(dns_queue)) /\ Dns!Ready
      /\ UNCHANGED <<cache, dns_broken, dns_reply, dns_answered, dns_made, dns_faults>>
  BY DEF Dns!send_dns_request, Dns!SendFails, Dns!Taken, Dns!told, Dns!conn
<1> DEFINE r == Dns!Request
<1>2. /\ r \in Query /\ dns_queue' \in Seq(Query) /\ Len(dns_queue') \in Nat
      /\ Len(dns_queue') <= Len(dns_queue) /\ Len(dns_queue') + 1 <= Len(dns_queue) + Kept
      /\ \A i, j \in 1..Len(dns_queue') : dns_queue'[i].n = dns_queue'[j].n => i = j
      /\ \A i \in 1..Len(dns_queue') : /\ dns_queue'[i].n # r.n /\ dns_answered[dns_queue'[i].n] = 0
                                       /\ \A a \in DOMAIN pending : dns_queue'[i].n # pending[a].n
      /\ \A a \in DOMAIN pending : pending[a].n # r.n
      /\ dns_answered[r.n] = 0
  BY <1>1, RequestIsTaken
<1>3. /\ Dns!allocate_dns_id = next_id /\ (next_id + 1) % IDS = next_id + 1 /\ next_id \notin DOMAIN pending
  BY <1>1, NextIdIsFree
<1>4. /\ next_id \in Nat /\ Len(dns_queue) \in Nat /\ Kept \in Nat /\ Doomed \in Nat /\ dns_made \in Nat /\ dns_faults \in Nat
      /\ dns_phase = "connected"
  BY <1>0, <1>1 DEF QueriesTyped, Kept, Doomed, Dns!DnsConstants, Dns!Ready
<1>5. Len(dns_queue') <= CHANNEL_SIZE
  BY <1>0, <1>2, <1>4 DEF QueriesTyped, Dns!DnsConstants
<1>6. CacheIsRight' /\ Dns!AnswerMatchesQuery'
  BY <1>0, <1>1 DEF CacheIsRight, Dns!AnswerMatchesQuery
<1>7. CASE Dns!SendFails
  <2>1. /\ dns_current' = r /\ dns_phase' = "first" /\ next_id' = next_id + 1 /\ dns_broken
        /\ UNCHANGED <<pending, wire>>
    BY <1>3, <1>7 DEF Dns!SendFails, Dns!conn
  <2> HIDE DEF r
  <2>2. QueriesTyped'
    BY <1>0, <1>1, <1>2, <1>4, <1>5, <2>1 DEF QueriesTyped, Query
  <2>3. Doomed = 1 /\ Doomed' = 0 /\ Kept' \in 0..1
    BY <1>4, <2>1 DEF Doomed, Kept
  <2>4. IdsAreFresh'
    <3>1. next_id' + Len(dns_queue') + Kept' + Doomed' <= dns_made + dns_faults
      BY <1>0, <1>2, <1>4, <2>1, <2>3 DEF IdsAreFresh
    <3>2. \A id \in DOMAIN pending : id \in 0..(next_id' - 1)
      BY <1>0, <1>4, <2>1 DEF IdsAreFresh
    <3>3. \A w \in wire : w.id \in 0..(next_id' - 1)
      BY <1>0, <1>4, <2>1 DEF IdsAreFresh
    <3> QED
      BY <1>0, <1>1, <2>1, <3>1, <3>2, <3>3 DEF IdsAreFresh
  <2>5. OnePlace'
    BY <1>0, <1>2, <2>1 DEF OnePlace
  <2>6. Unanswered'
    BY <1>0, <1>1, <1>2, <2>1 DEF Unanswered
  <2> QED
    BY <1>6, <2>2, <2>4, <2>5, <2>6 DEF DnsInv
<1>8. CASE Dns!send_dns_request
  <2>1. /\ dns_current' = NoRequest /\ dns_phase' = dns_phase
        /\ \/ UNCHANGED <<pending, next_id, wire>>
           \/ /\ pending' = Dns!With(pending, next_id, r) /\ next_id' = next_id + 1
              /\ wire' = wire \cup {[id |-> next_id, n |-> r.n, q |-> r.q]}
    BY <1>3, <1>8 DEF Dns!send_dns_request, Dns!Taken
  <2> HIDE DEF r
  <2>2. \/ UNCHANGED <<pending, next_id, wire>>
        \/ /\ DOMAIN pending' = DOMAIN pending \cup {next_id} /\ pending'[next_id] = r
           /\ \A a \in DOMAIN pending : pending'[a] = pending[a]
           /\ next_id' = next_id + 1
           /\ wire' = wire \cup {[id |-> next_id, n |-> r.n, q |-> r.q]}
    BY <1>3, <2>1 DEF Dns!With
  <2>3. QueriesTyped'
    <3>1. next_id' \in Nat /\ \A a \in DOMAIN pending' : pending'[a] \in Query
      BY <1>0, <1>2, <1>4, <2>2 DEF QueriesTyped
    <3> QED
      BY <1>0, <1>1, <1>2, <1>4, <1>5, <2>1, <3>1 DEF QueriesTyped, Query
  <2>4. IdsAreFresh'
    <3>1. Kept' = 0 /\ Doomed' = Doomed
      BY <1>1, <2>1 DEF Kept, Doomed
    <3>2. next_id' + Len(dns_queue') + Kept' + Doomed' <= dns_made + dns_faults
      BY <1>0, <1>2, <1>4, <2>2, <3>1, SMTT(60) DEF IdsAreFresh
    <3>3. \A a \in DOMAIN pending' : a \in 0..(next_id' - 1)
      BY <1>0, <1>4, <2>2 DEF IdsAreFresh
    <3>4. \A w \in wire' : w.id \in 0..(next_id' - 1) /\ (w.id \in DOMAIN pending' => w.q = pending'[w.id].q)
      BY <1>0, <1>4, <2>2 DEF IdsAreFresh
    <3> QED
      BY <1>1, <3>2, <3>3, <3>4 DEF IdsAreFresh
  <2>5. OnePlace'
    BY <1>0, <1>2, <1>3, <2>1, <2>2 DEF OnePlace
  <2>6. Unanswered'
    BY <1>0, <1>1, <1>2, <2>1, <2>2 DEF Unanswered
  <2> QED
    BY <1>6, <2>3, <2>4, <2>5, <2>6 DEF DnsInv
<1> QED
  BY <1>7, <1>8

\* An entry is added to a cache that has room.
LEMMA RoomForOne ==
    ASSUME Dns!DnsConstants, NEW S, IsFiniteSet(S), Cardinality(S) < CACHE_SIZE, NEW q
    PROVE  IsFiniteSet(S \cup {q}) /\ Cardinality(S \cup {q}) <= CACHE_SIZE
<1>1. IsFiniteSet(S \cup {q})
  BY FS_AddElement
<1>2. Cardinality(S \cup {q}) = IF q \in S THEN Cardinality(S) ELSE Cardinality(S) + 1
  BY FS_AddElement
<1>3. Cardinality(S) \in Nat
  BY FS_CardinalityType
<1> QED
  BY <1>1, <1>2, <1>3 DEF Dns!DnsConstants

\* DnsResponseCache::insert keeps to its limit.
LEMMA InsertKeepsCache ==
    ASSUME Dns!DnsConstants, CacheIsRight, NEW q \in Queries, NEW good \in BOOLEAN,
           NEW new, new = Dns!insert(q, [q |-> q, good |-> good])
    PROVE  /\ DOMAIN new \subseteq Queries /\ IsFiniteSet(DOMAIN new) /\ Cardinality(DOMAIN new) <= CACHE_SIZE
           /\ \A k \in DOMAIN new : new[k].q = k /\ new[k].good
<1>0. /\ DOMAIN cache \subseteq Queries /\ IsFiniteSet(DOMAIN cache) /\ Cardinality(DOMAIN cache) \in Nat
      /\ Cardinality(DOMAIN cache) <= CACHE_SIZE /\ CACHE_SIZE \in Nat \ {0}
      /\ \A k \in DOMAIN cache : cache[k].q = k /\ cache[k].good
  BY FS_CardinalityType DEF CacheIsRight, Dns!DnsConstants
<1>1. Dns!Cardinality(DOMAIN cache) = Cardinality(DOMAIN cache)
  BY Zenon DEF Dns!Cardinality, Cardinality
<1> DEFINE entry == [q |-> q, good |-> good]
           gone == CHOOSE k \in DOMAIN cache : TRUE
           rest == Dns!Without(cache, {gone})
<1>2. CASE ~good
  <2>1. new = cache
    BY <1>2 DEF Dns!insert
  <2> QED
    BY <1>0, <2>1
<1>3. CASE good /\ Cardinality(DOMAIN cache) < CACHE_SIZE
  <2>1. new = Dns!With(cache, q, entry)
    BY <1>1, <1>3 DEF Dns!insert
  <2>2. entry.q = q /\ entry.good
    BY <1>3
  <2> HIDE DEF entry
  <2>3. /\ DOMAIN new = DOMAIN cache \cup {q} /\ new[q] = entry
        /\ \A k \in DOMAIN new : k # q => new[k] = cache[k]
    BY <2>1 DEF Dns!With
  <2>4. new[q].q = q /\ new[q].good
    BY <2>2, <2>3
  <2>5. IsFiniteSet(DOMAIN cache \cup {q}) /\ Cardinality(DOMAIN cache \cup {q}) <= CACHE_SIZE
    BY <1>0, <1>3, RoomForOne
  <2> QED
    BY <1>0, <2>3, <2>4, <2>5
<1>4. CASE good /\ ~(Cardinality(DOMAIN cache) < CACHE_SIZE)
  <2>1. new = Dns!With(rest, q, entry)
    BY <1>1, <1>4 DEF Dns!insert
  <2>2. entry.q = q /\ entry.good
    BY <1>4
  <2>3. DOMAIN rest = DOMAIN cache \ {gone} /\ \A k \in DOMAIN rest : rest[k] = cache[k]
    BY DEF Dns!Without
  <2>4. gone \in DOMAIN cache /\ Cardinality(DOMAIN cache) = CACHE_SIZE
    BY <1>0, <1>4, FS_EmptySet
  <2> HIDE DEF entry, gone, rest
  <2>5. /\ DOMAIN new = DOMAIN rest \cup {q} /\ new[q] = entry
        /\ \A k \in DOMAIN new : k # q => new[k] = rest[k]
    BY <2>1 DEF Dns!With
  <2>6. new[q].q = q /\ new[q].good
    BY <2>2, <2>5
  <2>7. IsFiniteSet(DOMAIN cache \ {gone}) /\ Cardinality(DOMAIN cache \ {gone}) = Cardinality(DOMAIN cache) - 1
    BY <1>0, <2>4, FS_RemoveElement
  <2>8. IsFiniteSet(DOMAIN rest) /\ Cardinality(DOMAIN rest) < CACHE_SIZE
    BY <1>0, <2>3, <2>4, <2>7
  <2>9. DOMAIN rest \subseteq Queries /\ \A k \in DOMAIN rest : rest[k].q = k /\ rest[k].good
    BY <1>0, <2>3
  <2>10. IsFiniteSet(DOMAIN rest \cup {q}) /\ Cardinality(DOMAIN rest \cup {q}) <= CACHE_SIZE
    BY <2>8, RoomForOne
  <2> QED
    BY <2>5, <2>6, <2>9, <2>10
<1> QED
  BY <1>2, <1>3, <1>4

\* handle_dns_response: the pending request gets its answer and is forgotten.
LEMMA ResponseStep ==
    ASSUME Dns!DnsConstants, DnsInv, NEW w \in wire, NEW good \in BOOLEAN, Dns!handle_dns_response(w, good)
    PROVE  DnsInv'
<1>0. /\ QueriesTyped /\ IdsAreFresh /\ OnePlace /\ Unanswered /\ CacheIsRight /\ Dns!AnswerMatchesQuery
  BY DEF DnsInv
<1> DEFINE r == pending[w.id]
<1>1. /\ w.id \in DOMAIN pending /\ pending' = Dns!Without(pending, {w.id}) /\ Dns!WriteBack(r, w.q)
      /\ cache' = Dns!insert(r.q, [q |-> w.q, good |-> good]) /\ dns_current = NoRequest
      /\ UNCHANGED <<dns_phase, dns_queue, dns_current, next_id, dns_broken, wire, dns_made, dns_faults>>
  BY DEF Dns!handle_dns_response, Dns!conn
<1>2. r \in Query /\ w.q = r.q /\ dns_answered[r.n] = 0
  BY <1>0, <1>1 DEF QueriesTyped, IdsAreFresh, Unanswered
<1>3. /\ DOMAIN pending' = DOMAIN pending \ {w.id} /\ \A a \in DOMAIN pending' : pending'[a] = pending[a]
  BY <1>1 DEF Dns!Without
<1>4. (\A a \in DOMAIN pending' : pending'[a].n # r.n) /\ (\A i \in 1..Len(dns_queue) : dns_queue[i].n # r.n)
  BY <1>0, <1>1, <1>3 DEF OnePlace
<1> HIDE DEF r
<1>5. /\ dns_answered' \in [1..MaxQueries -> 0..1]
      /\ \A n \in 1..MaxQueries : n # r.n => dns_answered'[n] = dns_answered[n]
      /\ r.n \in 1..dns_made /\ dns_made \in 0..MaxQueries
  BY <1>0, <1>1, <1>2, AnswerCounts
<1>6. QueriesTyped'
  BY <1>0, <1>1, <1>3, <1>5 DEF QueriesTyped, Query
<1>7. IdsAreFresh'
  <2>1. Kept' = Kept /\ Doomed' = Doomed
    BY <1>1 DEF Kept, Doomed
  <2> QED
    BY <1>0, <1>1, <1>3, <2>1 DEF IdsAreFresh
<1>8. OnePlace'
  <2>1. \A a, b \in DOMAIN pending' : pending'[a].n = pending'[b].n => a = b
    BY <1>0, <1>3 DEF OnePlace
  <2>2. \A i \in 1..Len(dns_queue), a \in DOMAIN pending' : dns_queue[i].n # pending'[a].n
    BY <1>0, <1>3 DEF OnePlace
  <2> QED
    BY <1>0, <1>1, <2>1, <2>2 DEF OnePlace
<1>9. Unanswered'
  <2>1. /\ \A i \in 1..Len(dns_queue) : dns_queue[i].n \in 1..MaxQueries
        /\ \A a \in DOMAIN pending : pending[a].n \in 1..MaxQueries
    BY <1>0, <1>5, NumbersAreOld DEF Dns!DnsConstants
  <2>2. \A i \in 1..Len(dns_queue) : dns_answered'[dns_queue[i].n] = 0
    BY <1>0, <1>4, <1>5, <2>1 DEF Unanswered
  <2>3. \A a \in DOMAIN pending' : dns_answered'[pending'[a].n] = 0
    BY <1>0, <1>3, <1>4, <1>5, <2>1 DEF Unanswered
  <2>4. \A n \in 1..MaxQueries : n > dns_made => dns_answered'[n] = 0
    BY <1>0, <1>5 DEF Unanswered, Dns!DnsConstants
  <2> QED
    BY <1>1, <2>2, <2>3, <2>4 DEF Unanswered
<1>10. CacheIsRight'
  <2>1. r.q \in Queries /\ cache' = Dns!insert(r.q, [q |-> r.q, good |-> good])
    BY <1>1, <1>2 DEF Query
  <2> QED
    BY <1>0, <2>1, InsertKeepsCache DEF CacheIsRight
<1>11. Dns!AnswerMatchesQuery'
  BY <1>1, <1>2 DEF Dns!AnswerMatchesQuery, Dns!WriteBack
<1> QED
  BY <1>6, <1>7, <1>8, <1>9, <1>10, <1>11 DEF DnsInv

LEMMA DnsStep == ASSUME Dns!DnsConstants, DnsInv, [Dns!Next]_(Dns!vars) PROVE DnsInv'
BY SendStep, ConnectionStep, TakeFirstStep, CachedStep, SendRequestStep, ResponseStep
   DEF Dns!Next, Dns!ProxyNext, Dns!Outer, Dns!Inner

\* The Android agent's proxy is the desktop's but for the names it asks itself.
LEMMA AndroidIsDesktop ==
    /\ AndroidDns!vars = Dns!vars /\ (UNCHANGED AndroidDns!vars <=> UNCHANGED Dns!vars)
    /\ \A q : (AndroidDns!send(q) <=> Dns!send(q)) /\ (AndroidDns!CacheExpires(q) <=> Dns!CacheExpires(q))
    /\ AndroidDns!Cancel <=> Dns!Cancel
    /\ AndroidDns!ConnectionBreaks <=> Dns!ConnectionBreaks
    /\ AndroidDns!TakeFirst <=> Dns!TakeFirst
    /\ AndroidDns!FirstFromCache <=> Dns!FirstFromCache
    /\ AndroidDns!connect_dns_stream <=> Dns!connect_dns_stream
    /\ AndroidDns!Connected <=> Dns!Connected
    /\ AndroidDns!ConnectFails <=> Dns!ConnectFails
    /\ AndroidDns!BackoffOver <=> Dns!BackoffOver
    /\ AndroidDns!StopProxy <=> Dns!StopProxy
    /\ AndroidDns!ConnectionOver <=> Dns!ConnectionOver
    /\ AndroidDns!Ready <=> Dns!Ready
    /\ AndroidDns!Request = Dns!Request
    /\ \A id : AndroidDns!cleanup_pending_dns(id) <=> Dns!cleanup_pending_dns(id)
BY DEF AndroidDns!vars, Dns!vars, AndroidDns!conn, Dns!conn, AndroidDns!told, Dns!told,
   AndroidDns!Fault, Dns!Fault, AndroidDns!Without, Dns!Without, AndroidDns!WriteBack, Dns!WriteBack,
   AndroidDns!send, Dns!send, AndroidDns!CacheExpires, Dns!CacheExpires, AndroidDns!Cancel, Dns!Cancel,
   AndroidDns!ConnectionBreaks, Dns!ConnectionBreaks, AndroidDns!TakeFirst, Dns!TakeFirst,
   AndroidDns!FirstFromCache, Dns!FirstFromCache, AndroidDns!connect_dns_stream, Dns!connect_dns_stream,
   AndroidDns!Connected, Dns!Connected, AndroidDns!ConnectFails, Dns!ConnectFails,
   AndroidDns!BackoffOver, Dns!BackoffOver, AndroidDns!StopProxy, Dns!StopProxy,
   AndroidDns!ConnectionOver, Dns!ConnectionOver, AndroidDns!Ready, Dns!Ready,
   AndroidDns!Request, Dns!Request, AndroidDns!cleanup_pending_dns, Dns!cleanup_pending_dns

LEMMA AndroidInsert == \A q, answer : AndroidDns!insert(q, answer) = Dns!insert(q, answer)
<1>1. \A S : AndroidDns!Cardinality(S) = Dns!Cardinality(S)
  BY Zenon DEF AndroidDns!Cardinality, Dns!Cardinality
<1> QED
  BY <1>1 DEF AndroidDns!insert, Dns!insert, AndroidDns!With, Dns!With, AndroidDns!Without, Dns!Without

LEMMA AndroidConnection ==
    /\ AndroidDns!try_send_cached_dns_response <=> Dns!try_send_cached_dns_response
    /\ AndroidDns!send_dns_request <=> Dns!send_dns_request
    /\ AndroidDns!SendFails <=> Dns!SendFails
    /\ \A w, good : AndroidDns!handle_dns_response(w, good) <=> Dns!handle_dns_response(w, good)
<1>1. AndroidDns!try_send_cached_dns_response <=> Dns!try_send_cached_dns_response
  BY DEF AndroidDns!try_send_cached_dns_response, Dns!try_send_cached_dns_response, AndroidDns!Ready, Dns!Ready,
     AndroidDns!Request, Dns!Request, AndroidDns!Taken, Dns!Taken, AndroidDns!WriteBack, Dns!WriteBack,
     AndroidDns!conn, Dns!conn
<1>2. AndroidDns!allocate_dns_id = Dns!allocate_dns_id /\ AndroidDns!Ids = Dns!Ids
  BY DEF AndroidDns!allocate_dns_id, Dns!allocate_dns_id, AndroidDns!Ids, Dns!Ids
<1>3. AndroidDns!send_dns_request <=> Dns!send_dns_request
  BY <1>2 DEF AndroidDns!send_dns_request, Dns!send_dns_request, AndroidDns!Ready, Dns!Ready,
     AndroidDns!Request, Dns!Request, AndroidDns!Taken, Dns!Taken, AndroidDns!With, Dns!With,
     AndroidDns!told, Dns!told
<1>4. AndroidDns!SendFails <=> Dns!SendFails
  BY <1>2 DEF AndroidDns!SendFails, Dns!SendFails, AndroidDns!Ready, Dns!Ready, AndroidDns!Request, Dns!Request,
     AndroidDns!told, Dns!told, AndroidDns!conn, Dns!conn
<1>5. \A w, good : AndroidDns!handle_dns_response(w, good) <=> Dns!handle_dns_response(w, good)
  BY AndroidInsert DEF AndroidDns!handle_dns_response, Dns!handle_dns_response, AndroidDns!WriteBack, Dns!WriteBack,
     AndroidDns!Without, Dns!Without, AndroidDns!conn, Dns!conn
<1> QED
  BY <1>1, <1>3, <1>4, <1>5

\* A name of the direct rules is answered, well or with SERVFAIL, by the agent itself.
LEMMA DirectAnswer ==
    ASSUME Dns!DnsConstants, DnsInv, NEW r \in Query, AndroidDns!android_direct_answer(r)
    PROVE  Dns!WriteBack(r, r.q) /\ CacheIsRight'
<1>1. PICK outcome : /\ Dns!WriteBack(r, r.q)
                     /\ cache' = Dns!insert(r.q, [q |-> r.q, good |-> outcome = "answer"])
  BY AndroidInsert DEF AndroidDns!android_direct_answer, AndroidDns!android_insert, AndroidDns!WriteBack, Dns!WriteBack
<1>2. PICK good \in BOOLEAN : good = (outcome = "answer")
  BY Zenon
<1>3. r.q \in Queries /\ cache' = Dns!insert(r.q, [q |-> r.q, good |-> good]) /\ CacheIsRight
  BY <1>1, <1>2 DEF Query, DnsInv
<1> QED
  BY <1>1, <1>3, InsertKeepsCache DEF CacheIsRight

LEMMA DirectAnswerStep ==
    ASSUME Dns!DnsConstants, DnsInv, AndroidDns!android_first_direct \/ AndroidDns!android_inner_direct
    PROVE  DnsInv'
<1>0. QueriesTyped
  BY DEF DnsInv
<1>1. CASE AndroidDns!android_first_direct
  <2>1. dns_current \in Query /\ AndroidDns!android_direct_answer(dns_current)
    BY <1>0, <1>1 DEF AndroidDns!android_first_direct, QueriesTyped
  <2>2. Dns!WriteBack(dns_current, dns_current.q) /\ CacheIsRight'
    BY <2>1, DirectAnswer
  <2>3. AnsweredHere(dns_current)
    BY <1>1, <2>2 DEF AnsweredHere, AndroidDns!android_first_direct, AndroidDns!conn
  <2> QED
    BY <2>2, <2>3, AnsweredHereStep
<1>2. CASE AndroidDns!android_inner_direct
  <2>1. /\ Dns!Ready /\ AndroidDns!android_direct_answer(Dns!Request) /\ dns_current' = NoRequest
        /\ dns_queue' = IF dns_current # NoRequest THEN dns_queue ELSE Tail(dns_queue)
        /\ UNCHANGED <<dns_phase, pending, next_id, dns_broken, wire, dns_made, dns_faults>>
    BY <1>2, AndroidIsDesktop DEF AndroidDns!android_inner_direct, AndroidDns!Taken, AndroidDns!conn
  <2>2. Dns!Request \in Query
    BY <2>1, RequestIsTaken
  <2>3. Dns!WriteBack(Dns!Request, Dns!Request.q) /\ CacheIsRight'
    BY <2>1, <2>2, DirectAnswer
  <2>4. AnsweredHere(Dns!Request)
    BY <2>1, <2>3 DEF AnsweredHere
  <2> QED
    BY <2>3, <2>4, AnsweredHereStep
<1> QED
  BY <1>1, <1>2

LEMMA AndroidStep == ASSUME Dns!DnsConstants, DnsInv, [AndroidDns!AndroidNext]_(AndroidDns!vars) PROVE DnsInv'
<1>1. CASE AndroidDns!android_first_direct \/ AndroidDns!android_inner_direct
  BY <1>1, DirectAnswerStep
<1>2. CASE [Dns!Next]_(Dns!vars)
  BY <1>2, DnsStep
<1>3. CASE ~(AndroidDns!android_first_direct \/ AndroidDns!android_inner_direct)
  BY <1>3, <1>2, AndroidIsDesktop, AndroidConnection
     DEF AndroidDns!AndroidNext, AndroidDns!android_run_dns_proxy, AndroidDns!android_send,
     AndroidDns!android_connect_dns_stream, AndroidDns!android_send_dns_request, AndroidDns!android_cached_dns_response,
     AndroidDns!android_handle_dns_response, AndroidDns!android_cleanup_pending_dns, AndroidDns!Ids, Dns!Ids,
     Dns!Next, Dns!ProxyNext, Dns!Outer, Dns!Inner
<1> QED
  BY <1>1, <1>3

\* A query enters the connection in one place only, past the rules, and a connection is set up
\* for one in one place only, past them as well.
LEMMA WireStep ==
    ASSUME AndroidDns!DirectQueriesStayLocal, [AndroidDns!AndroidNext]_(AndroidDns!vars)
    PROVE  AndroidDns!DirectQueriesStayLocal'
<1>1. CASE AndroidDns!android_send_dns_request
  <2>1. CASE AndroidDns!send_dns_request
    BY <1>1, <2>1 DEF AndroidDns!DirectQueriesStayLocal, AndroidDns!android_send_dns_request,
       AndroidDns!send_dns_request, AndroidDns!Ready, AndroidDns!With
  <2>2. CASE AndroidDns!SendFails
    BY <1>1, <2>2 DEF AndroidDns!DirectQueriesStayLocal, AndroidDns!SendFails, AndroidDns!conn
  <2> QED
    BY <1>1, <2>1, <2>2 DEF AndroidDns!android_send_dns_request
<1>2. CASE AndroidDns!android_connect_dns_stream
  BY <1>2 DEF AndroidDns!DirectQueriesStayLocal, AndroidDns!android_connect_dns_stream,
     AndroidDns!connect_dns_stream, AndroidDns!conn
<1>3. CASE AndroidDns!ConnectFails
  BY <1>3 DEF AndroidDns!DirectQueriesStayLocal, AndroidDns!ConnectFails, AndroidDns!conn
<1>4. CASE AndroidDns!Connected
  BY <1>4 DEF AndroidDns!DirectQueriesStayLocal, AndroidDns!Connected
<1>5. CASE /\ wire' = wire /\ DOMAIN pending' \subseteq DOMAIN pending
           /\ \A id \in DOMAIN pending' : pending'[id] = pending[id]
           /\ dns_phase' \notin {"connecting", "backoff"} \/ UNCHANGED <<dns_phase, dns_current>>
  BY <1>5 DEF AndroidDns!DirectQueriesStayLocal
<1>6. CASE (\E id \in AndroidDns!Ids : AndroidDns!cleanup_pending_dns(id)) \/ AndroidDns!android_handle_dns_response
  <2>1. /\ wire' = wire /\ UNCHANGED <<dns_phase, dns_current>> /\ DOMAIN pending' \subseteq DOMAIN pending
        /\ \A id \in DOMAIN pending' : pending'[id] = pending[id]
    BY <1>6 DEF AndroidDns!cleanup_pending_dns, AndroidDns!android_handle_dns_response,
       AndroidDns!handle_dns_response, AndroidDns!Without, AndroidDns!conn
  <2> QED
    BY <1>5, <2>1
<1>7. CASE \/ AndroidDns!TakeFirst \/ AndroidDns!android_cached_dns_response \/ AndroidDns!android_first_direct
           \/ AndroidDns!BackoffOver \/ AndroidDns!StopProxy \/ AndroidDns!android_inner_direct
           \/ AndroidDns!ConnectionOver \/ AndroidDns!Cancel \/ AndroidDns!ConnectionBreaks
           \/ (\E q \in Queries : AndroidDns!android_send(q) \/ AndroidDns!CacheExpires(q))
           \/ UNCHANGED AndroidDns!vars
  <2>1. wire' = wire /\ pending' = pending
    BY <1>7 DEF AndroidDns!TakeFirst, AndroidDns!android_cached_dns_response, AndroidDns!FirstFromCache,
       AndroidDns!try_send_cached_dns_response, AndroidDns!android_first_direct, AndroidDns!BackoffOver,
       AndroidDns!StopProxy, AndroidDns!android_inner_direct, AndroidDns!ConnectionOver, AndroidDns!Cancel,
       AndroidDns!ConnectionBreaks, AndroidDns!android_send, AndroidDns!send, AndroidDns!CacheExpires,
       AndroidDns!conn, AndroidDns!vars
  <2>2. dns_phase' \notin {"connecting", "backoff"} \/ UNCHANGED <<dns_phase, dns_current>>
    BY <1>7 DEF AndroidDns!TakeFirst, AndroidDns!android_cached_dns_response, AndroidDns!FirstFromCache,
       AndroidDns!try_send_cached_dns_response, AndroidDns!android_first_direct, AndroidDns!BackoffOver,
       AndroidDns!StopProxy, AndroidDns!android_inner_direct, AndroidDns!ConnectionOver, AndroidDns!Cancel,
       AndroidDns!ConnectionBreaks, AndroidDns!android_send, AndroidDns!send, AndroidDns!CacheExpires,
       AndroidDns!Ready, AndroidDns!vars
  <2> QED
    BY <1>5, <2>1, <2>2
<1> QED
  BY <1>1, <1>2, <1>3, <1>4, <1>6, <1>7
     DEF AndroidDns!AndroidNext, AndroidDns!android_run_dns_proxy, AndroidDns!android_cleanup_pending_dns

\* The steps of the suite leave the DNS proxy alone or are steps of it.
LEMMA SuiteDnsStep ==
    [SuiteNext]_suite_vars => /\ [Dns!Next]_(Dns!vars) \/ [AndroidDns!AndroidNext]_(AndroidDns!vars)
                              /\ part' = part /\ (part = "android" => [AndroidDns!AndroidNext]_(AndroidDns!vars))
BY DEF SuiteNext, OnlyPool, OnlyNativeSlots, OnlyShard, OnlySessions, OnlyDirectSessions,
       OnlyDns, OnlyAndroidDns, OnlyRoutes, OnlyMacos, OnlyGuard, OnlyHelper, suite_vars,
       dns_vars, Dns!vars, AndroidDns!vars

\* For any number of queries, sizes of queue and cache and any faults, at the desktop agent
\* and at Android's: a client gets the answer to its own query, from the connection, the cache
\* or a direct server (handle_dns_response, try_send_cached_dns_response), once at most, although answers come late, twice and in any
\* order; only good answers are cached, and no more than the limit (DnsResponseCache::insert).
\* It holds as long as the ids do not come round (allocate_dns_id).
THEOREM DnsAnswersAreRight ==
    ASSUME Dns!DnsConstants
    PROVE  SuiteSpec => []AnswersAreRight
<1>1. SuiteInit => DnsInv
  BY DnsInit DEF SuiteInit
<1>2. DnsInv /\ [SuiteNext]_suite_vars => DnsInv'
  BY SuiteDnsStep, DnsStep, AndroidStep
<1>3. ASSUME DnsInv PROVE AnswersAreRight
  <2>0. QueriesTyped /\ IdsAreFresh /\ CacheIsRight /\ Dns!AnswerMatchesQuery
    BY <1>3 DEF DnsInv
  <2>1. Dns!AnsweredOnce /\ Dns!FailuresAreNotCached
    BY <2>0 DEF Dns!AnsweredOnce, Dns!FailuresAreNotCached, QueriesTyped, CacheIsRight
  <2>2. DOMAIN pending \subseteq Dns!Ids
    <3>1. next_id <= IDS
      BY <2>0 DEF IdsAreFresh, QueriesTyped, Kept, Doomed, Dns!DnsConstants
    <3> QED
      BY <2>0, <3>1 DEF IdsAreFresh, Dns!Ids, QueriesTyped, Dns!DnsConstants
  <2>3. Dns!Cardinality(DOMAIN cache) = Cardinality(DOMAIN cache)
    BY Zenon DEF Dns!Cardinality, Cardinality
  <2>4. Dns!TypeOK
    BY <2>0, <2>2, <2>3 DEF Dns!TypeOK, QueriesTyped, CacheIsRight
  <2> QED
    BY <2>0, <2>1, <2>4 DEF AnswersAreRight, Dns!AnswersAreRight
<1> QED
  BY <1>1, <1>2, <1>3, PTL DEF SuiteSpec

\* For any rules, number of queries and faults: a name the direct rules keep off the proxy is
\* never asked through it by the Android agent, and no connection to it is set up for one: not
\* as the first request, after a failed connect or write, from the queue or when its cached
\* answer has just expired (try_send_direct_dns_response).
THEOREM DirectNamesStayLocal == SuiteSpec => []DirectQueriesStayLocal
<1>1. SuiteInit => DirectQueriesStayLocal
  BY DEF SuiteInit, Dns!Init, DirectQueriesStayLocal, AndroidDns!DirectQueriesStayLocal
<1>2. DirectQueriesStayLocal /\ [SuiteNext]_suite_vars => DirectQueriesStayLocal'
  BY SuiteDnsStep, WireStep DEF DirectQueriesStayLocal
<1> QED
  BY <1>1, <1>2, PTL DEF SuiteSpec
=============================================================================
