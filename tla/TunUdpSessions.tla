--------------------------- MODULE TunUdpSessions ---------------------------
(***************************************************************************)
(* How the desktop agent distributes the UDP datagrams of its TUN device   *)
(* (spawn_udp_sessions in desktop-agent-be/src/tun_handler/tasks.rs) and   *)
(* the per-flow sessions it starts for direct ones (handle_tun_udp in      *)
(* udp.rs).  DNS queries go to DnsProxy, proxied flows to the shared       *)
(* UdpRelay: both are other modules, a datagram handed to them leaves this *)
(* one.                                                                    *)
(*                                                                         *)
(* The dispatcher inserts a session into the table before its task runs;   *)
(* the task decides the route again with the domain cache of that moment,  *)
(* and removes its entry after it has dropped the queue.                   *)
(***************************************************************************)
EXTENDS Integers, FiniteSets

CONSTANTS Flows,          \* (source, target) pairs, each with a target address of its own
          QuicFlows,      \* those whose target port is 443
          RuleFlows,      \* those whose target address is in a direct_access rule
          PROXY_UDP, BLOCK_QUIC,   \* proxy_udp, quic_policy.should_block_udp443()
          QUEUE_SIZE,     \* datagrams a session's channel holds
          MaxTasks        \* bound: session tasks alive at the same time

\* tokio's channels hold at least one message.
SessionsConstants == QUEUE_SIZE \in Nat \ {0} /\ MaxTasks \in Nat

VARIABLES
    shutdown, dispatcher,  \* the token; "running" or "over"
    cached,     \* flows for whose address direct_domain_cache has a direct domain
    egress,     \* TunDirectEgress knows a physical interface
    sessions,   \* the table: flow -> task
    tasks,      \* running session tasks: id -> [flow, phase, queue]
    relayed     \* flows handed to the shared relay at least once

vars == <<shutdown, dispatcher, cached, egress, sessions, tasks, relayed>>

With(f, k, v) == [x \in DOMAIN f \cup {k} |-> IF x = k THEN v ELSE f[x]]
Without(f, k) == [x \in DOMAIN f \ {k} |-> f[x]]

Init == /\ shutdown = FALSE /\ dispatcher = "running" /\ cached = {} /\ egress = TRUE
        /\ sessions = << >> /\ tasks = << >> /\ relayed = {}
-----------------------------------------------------------------------------
(* The surroundings. *)

Cancel == ~shutdown /\ shutdown' = TRUE /\ UNCHANGED <<dispatcher, cached, egress, sessions, tasks, relayed>>

\* DirectDomainCache::record_resolution, by the DNS proxy.
record_resolution(f) == /\ f \notin cached /\ cached' = cached \cup {f}
                        /\ UNCHANGED <<shutdown, dispatcher, egress, sessions, tasks, relayed>>

\* An entry of the cache reaches its expires_at; matching_domain_for_ip then removes it.
CacheExpires(f) == /\ f \in cached /\ cached' = cached \ {f}
                   /\ UNCHANGED <<shutdown, dispatcher, egress, sessions, tasks, relayed>>

\* The physical interface is lost or found again (a network change).
EgressChanges == egress' = ~egress /\ UNCHANGED <<shutdown, dispatcher, cached, sessions, tasks, relayed>>
-----------------------------------------------------------------------------
(* The dispatcher. *)

should_consult_udp_domain_cache(f) == PROXY_UDP \/ f \in QuicFlows

direct_access_match(f) == \/ f \in RuleFlows
                          \/ should_consult_udp_domain_cache(f) /\ f \in cached

classify_udp_route(f) ==
    IF f \in QuicFlows /\ BLOCK_QUIC THEN "block"
    ELSE IF direct_access_match(f) \/ (f \notin QuicFlows /\ ~PROXY_UDP) THEN "direct"
    ELSE "proxy"

Running == dispatcher = "running"

Offer(t) == [tasks EXCEPT ![t].queue = IF tasks[t].phase # "over" /\ @ < QUEUE_SIZE THEN @ + 1 ELSE @]

\* A flow in the table: the datagram is offered to its queue, dropped when that is full
\* or its receiver is gone already.
ReuseSession(f) ==
    /\ Running /\ f \in DOMAIN sessions
    /\ tasks' = Offer(sessions[f])
    /\ UNCHANGED <<shutdown, dispatcher, cached, egress, sessions, relayed>>

\* should_start_udp_relay: without the relay the datagram is dropped.
RelayFlow(f) ==
    /\ Running /\ f \notin DOMAIN sessions /\ classify_udp_route(f) = "proxy"
    /\ relayed' = IF PROXY_UDP \/ ~BLOCK_QUIC THEN relayed \cup {f} ELSE relayed
    /\ UNCHANGED <<shutdown, dispatcher, cached, egress, sessions, tasks>>

StartSession(f) ==
    /\ Running /\ f \notin DOMAIN sessions /\ classify_udp_route(f) = "direct"
    /\ \E t \in (1..MaxTasks) \ DOMAIN tasks :
          /\ \A u \in (1..MaxTasks) \ DOMAIN tasks : t <= u
          /\ sessions' = With(sessions, f, t)
          /\ tasks' = With(tasks, t, [flow |-> f, phase |-> "starting", queue |-> 1])
    /\ UNCHANGED <<shutdown, dispatcher, cached, egress, relayed>>

\* The token, or the netstack's end.
StopDispatcher == /\ Running /\ dispatcher' = "over"
                  /\ UNCHANGED <<shutdown, cached, egress, sessions, tasks, relayed>>
-----------------------------------------------------------------------------
(* A session task. *)

Phase(t, p) == t \in DOMAIN tasks /\ tasks[t].phase = p
Goto(t, p) == tasks' = [tasks EXCEPT ![t].phase = p]
Rest == <<shutdown, dispatcher, cached, sessions, relayed>>

\* Faulty variant: the session looks at the rules only, not at whether UDP is proxied.
handle_tun_udp_unforced(t) ==
    /\ Phase(t, "starting")
    /\ Goto(t, IF tasks[t].flow \in RuleFlows \cup cached THEN "binding" ELSE "connecting")
    /\ UNCHANGED <<Rest, egress>>

\* handle_tun_udp decides again.  Filters that the dispatcher has applied to the same
\* target let it pass here.
handle_tun_udp(t) ==
    /\ Phase(t, "starting")
    /\ Goto(t, IF ~PROXY_UDP \/ tasks[t].flow \in RuleFlows \cup cached THEN "binding" ELSE "connecting")
    /\ UNCHANGED <<Rest, egress>>

\* connect_direct_udp_with_refresh: without an interface, or after a failed first
\* attempt, refresh_after_direct_failure looks for one once.
refresh_after_direct_failure(t, next) ==
    \E found \in BOOLEAN : egress' = found /\ Goto(t, IF found THEN next ELSE "over")

BindDirect(t) == /\ Phase(t, "binding")
                 /\ \/ /\ egress /\ UNCHANGED egress
                       /\ Goto(t, "dialing")
                    \/ /\ ~egress
                       /\ refresh_after_direct_failure(t, "dialing")
                 /\ UNCHANGED Rest

connect_direct_udp(t) ==
    \/ /\ Phase(t, "dialing")
       /\ (Goto(t, "direct") /\ UNCHANGED egress) \/ refresh_after_direct_failure(t, "redialing")
       /\ UNCHANGED Rest
    \/ /\ Phase(t, "redialing")
       /\ Goto(t, "direct") \/ Goto(t, "over")
       /\ UNCHANGED <<Rest, egress>>

\* Faulty variant: no idle timer, and the token is not listened to.
relay_direct_udp_deaf(t) ==
    /\ Phase(t, "direct")
    /\ \/ tasks[t].queue > 0 /\ tasks' = [tasks EXCEPT ![t].queue = @ - 1]
       \/ tasks[t].queue > 0 /\ Goto(t, "over")
    /\ UNCHANGED <<Rest, egress>>

\* relay_direct_udp: datagrams out (or a send error), and its ends: token, idle timer,
\* receive or write-back error.
relay_direct_udp(t) ==
    /\ Phase(t, "direct")
    /\ \/ tasks[t].queue > 0 /\ tasks' = [tasks EXCEPT ![t].queue = @ - 1]
       \/ Goto(t, "over")
    /\ UNCHANGED <<Rest, egress>>

connect_to_target(t) == /\ Phase(t, "connecting")
                        /\ Goto(t, "proxy") \/ Goto(t, "over")
                        /\ UNCHANGED <<Rest, egress>>

ForwardProxied(t) == /\ Phase(t, "proxy") /\ tasks[t].queue > 0
                     /\ tasks' = [tasks EXCEPT ![t].queue = @ - 1]
                     /\ UNCHANGED <<Rest, egress>>

\* The proxied session has neither timer nor token: it ends when the proxy closes the
\* stream (its own idle timer) or reading, writing or the write-back fails.
ProxiedEnds(t) == Phase(t, "proxy") /\ Goto(t, "over") /\ UNCHANGED <<Rest, egress>>

\* Faulty variant: the entry is removed when the relay is over only in the good case.
RemoveEntry_not_on_error(t) ==
    /\ Phase(t, "over")
    /\ tasks' = Without(tasks, t)
    /\ \/ sessions' = Without(sessions, tasks[t].flow)
       \/ UNCHANGED sessions
    /\ UNCHANGED <<shutdown, dispatcher, cached, egress, relayed>>

\* sessions_c.remove(&key): whatever the entry is now.
RemoveEntry(t) == /\ Phase(t, "over")
                  /\ sessions' = Without(sessions, tasks[t].flow)
                  /\ tasks' = Without(tasks, t)
                  /\ UNCHANGED <<shutdown, dispatcher, cached, egress, relayed>>
-----------------------------------------------------------------------------
Dispatch(f) == ReuseSession(f) \/ RelayFlow(f) \/ StartSession(f)
SessionStep(t) == \/ handle_tun_udp(t) \/ BindDirect(t) \/ connect_direct_udp(t) \/ relay_direct_udp(t)
                  \/ connect_to_target(t) \/ ForwardProxied(t) \/ ProxiedEnds(t) \/ RemoveEntry(t)
Surroundings == \/ Cancel \/ EgressChanges \/ StopDispatcher
                \/ \E f \in Flows : record_resolution(f) \/ CacheExpires(f)

Next == \/ Surroundings
        \/ \E f \in Flows : Dispatch(f)
        \/ \E t \in 1..MaxTasks : SessionStep(t)

Spec == Init /\ [][Next]_vars

\* Tasks run; connects end; the token and the idle timers end a direct relay, the
\* proxy's idle timer a proxied one.
WeaklyFair(i) == \/ i \in 1..MaxTasks /\ SessionStep(i)
                 \/ i = MaxTasks + 1 /\ shutdown /\ StopDispatcher
StronglyFair(i) ==
    /\ i \in 1..MaxTasks
    /\ \/ Phase(i, "direct") /\ relay_direct_udp(i) /\ Goto(i, "over")
       \/ ProxiedEnds(i)
-----------------------------------------------------------------------------
TypeOK == /\ \A f \in DOMAIN sessions : sessions[f] \in 1..MaxTasks
          /\ \A t \in DOMAIN tasks : tasks[t].queue \in 0..QUEUE_SIZE

\* The table and the tasks agree: every task has its flow's entry until it goes, so
\* no flow has two sessions, none is unreachable and none removes another's entry.
TableMatchesTasks == /\ \A t \in DOMAIN tasks : /\ tasks[t].flow \in DOMAIN sessions
                                                /\ sessions[tasks[t].flow] = t
                     /\ \A f \in DOMAIN sessions : sessions[f] \in DOMAIN tasks

\* A flow that is not to be proxied at all (UDP is direct, or a rule names its address)
\* never reaches the proxy, whatever the domain cache says and when it says it.
DirectFlowStaysDirect ==
    \A f \in Flows : (f \in RuleFlows \/ (~PROXY_UDP /\ f \notin QuicFlows)) =>
        f \notin relayed /\ \A t \in DOMAIN tasks : tasks[t].flow = f => tasks[t].phase \notin {"connecting", "proxy"}

\* A flow of a blocked QUIC port has neither a session nor a way into the relay, whatever
\* the rules and the domain cache say of its address and when they say it.
BlockedFlowIsDropped ==
    BLOCK_QUIC => \A f \in QuicFlows : f \notin relayed /\ \A t \in DOMAIN tasks : tasks[t].flow # f

\* A cancelled token ends the dispatcher and every session.
SessionsStop == shutdown ~> (dispatcher = "over" /\ tasks = << >> /\ sessions = << >>)
=============================================================================
