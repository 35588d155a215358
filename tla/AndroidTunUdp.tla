---------------------------- MODULE AndroidTunUdp ----------------------------
(***************************************************************************)
(* UDP of the Android agent's TUN device: the dispatcher and its direct    *)
(* sessions (android-agent/native/src/netstack/udp.rs) composed with a     *)
(* shard of the shared relay (netstack/udp_relay.rs).                      *)
(*                                                                         *)
(* The dispatcher is the desktop's with UDP always proxied unless a rule   *)
(* says direct.  The sessions differ: sockets are protected instead of     *)
(* bound to an interface, nothing is retried, and a session that turns out *)
(* to be proxied has an idle timer and listens to the token.               *)
(***************************************************************************)
EXTENDS TunUdpSessions, Sequences

CONSTANTS CHANNEL_SIZE, BATCH_LIMIT, MaxRequests, MaxFaults, NoRequest

VARIABLES phase, queue, retry_request, batch, staged, flow_ids, expired, next_flow_id,
          broken, peer, delivered, reply, made, faults

Relay == INSTANCE TunUdpRelay

relay_vars == <<phase, queue, retry_request, batch, staged, flow_ids, expired, next_flow_id,
                broken, peer, delivered, reply, made, faults>>
session_vars == <<dispatcher, cached, egress, sessions, tasks, relayed>>
android_vars == <<shutdown, session_vars, relay_vars>>

AndroidInit == Init /\ Relay!Init

\* The token that the VPN's stop cancels, seen by dispatcher, sessions and shards.
Stop == /\ ~shutdown /\ shutdown' = TRUE /\ UNCHANGED <<session_vars, relay_vars>>

\* DirectDomainCache: DNS answers come and expire.
CacheChanges(f) == (record_resolution(f) \/ CacheExpires(f)) /\ UNCHANGED relay_vars
-----------------------------------------------------------------------------
(* spawn_udp_sessions. *)

android_classify_udp_route(f) ==
    IF f \in QuicFlows /\ BLOCK_QUIC THEN "block"
    ELSE IF f \in RuleFlows \cup cached THEN "direct"
    ELSE "proxy"

android_reuse_session(f) == ReuseSession(f) /\ UNCHANGED relay_vars

\* UdpRelay::send of a flow without a session.
android_udp_relay_send(f) ==
    /\ Running /\ f \notin DOMAIN sessions /\ android_classify_udp_route(f) = "proxy"
    /\ Relay!send(f)
    /\ relayed' = relayed \cup {f}
    /\ UNCHANGED <<dispatcher, cached, egress, sessions, tasks>>

android_start_session(f) == /\ android_classify_udp_route(f) = "direct"
                            /\ StartSession(f)
                            /\ UNCHANGED relay_vars

android_dispatch(f) == android_reuse_session(f) \/ android_udp_relay_send(f) \/ android_start_session(f)

android_stop_dispatcher == StopDispatcher /\ UNCHANGED relay_vars
-----------------------------------------------------------------------------
(* The sessions. *)

Alone == UNCHANGED <<shutdown, dispatcher, cached, egress, sessions, relayed, relay_vars>>

\* handle_tun_udp: the route again, then the direct socket (bind_direct_udp protects it
\* and may fail) or the stream to the proxy.
android_handle_tun_udp(t) ==
    /\ Phase(t, "starting")
    /\ \/ /\ tasks[t].flow \in RuleFlows \cup cached
          /\ Goto(t, "direct") \/ Goto(t, "over")
       \/ /\ tasks[t].flow \notin RuleFlows \cup cached
          /\ Goto(t, "connecting")
    /\ Alone

android_connect_to_target(t) == /\ Phase(t, "connecting")
                                /\ Goto(t, "proxy") \/ Goto(t, "over")
                                /\ Alone

android_relay_direct_udp(t) == relay_direct_udp(t) /\ UNCHANGED relay_vars

\* Faulty variant: the proxied relay waits for the proxy to end it.
android_relay_proxied_udp_patient(t) ==
    /\ Phase(t, "proxy") /\ tasks[t].queue > 0
    /\ tasks' = [tasks EXCEPT ![t].queue = @ - 1]
    /\ Alone

android_relay_proxied_udp(t) ==
    /\ Phase(t, "proxy")
    /\ \/ tasks[t].queue > 0 /\ tasks' = [tasks EXCEPT ![t].queue = @ - 1]
       \/ Goto(t, "over")
    /\ Alone

android_remove_entry(t) == RemoveEntry(t) /\ UNCHANGED relay_vars

android_session(t) == \/ android_handle_tun_udp(t) \/ android_connect_to_target(t)
                      \/ android_relay_direct_udp(t) \/ android_relay_proxied_udp(t)
                      \/ android_remove_entry(t)
-----------------------------------------------------------------------------
(* The shard: run_udp_relay, send_udp_relay_request_batch, handle_udp_relay_response. *)

android_run_udp_relay == Relay!Outer /\ UNCHANGED session_vars
android_udp_relay_connection == Relay!Inner /\ UNCHANGED session_vars
RelaySurroundings == /\ (Relay!ConnectionBreaks \/ \E f \in Flows : Relay!FlowExpires(f))
                     /\ UNCHANGED session_vars
-----------------------------------------------------------------------------
AndroidNext == \/ Stop \/ android_stop_dispatcher
               \/ \E f \in Flows : CacheChanges(f) \/ android_dispatch(f)
               \/ \E t \in 1..MaxTasks : android_session(t)
               \/ android_run_udp_relay \/ android_udp_relay_connection \/ RelaySurroundings

\* Tasks run and their own timers fire; nothing is asked of the proxy but that it
\* answers or refuses a connect.
AndroidWeaklyFair(i) == \/ i = 1 /\ shutdown /\ android_stop_dispatcher
                        \/ i = 2 /\ android_run_udp_relay
                        \/ i = 3 /\ android_udp_relay_connection
                        \/ \E t \in 1..MaxTasks : i = t + 3 /\ android_session(t)
AndroidStronglyFair(i) ==
    \/ /\ \/ i = 1 /\ Relay!StopShard
          \/ i = 2 /\ Relay!Connected
          \/ i = 3 /\ Relay!send_udp_request_batch
       /\ UNCHANGED session_vars
    \/ \E t \in 1..MaxTasks : /\ i = t + 3 /\ Goto(t, "over")
                              /\ android_relay_direct_udp(t) \/ android_relay_proxied_udp(t)
AndroidSpec == AndroidInit /\ [][AndroidNext]_android_vars
-----------------------------------------------------------------------------
\* A stopped VPN leaves no UDP task behind: dispatcher, sessions and shard all end by
\* themselves, also when the proxy keeps its streams open and connections fail.
AndroidUdpStops ==
    shutdown ~> (dispatcher = "over" /\ tasks = << >> /\ sessions = << >> /\ phase = "exited")
=============================================================================
