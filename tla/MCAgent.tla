------------------------------ MODULE MCAgent ------------------------------
\* The desktop agent, safety: the Yamux pool, the native UDP slots, a
\* shard of the shared relay, the TUN sessions (UDP proxied, and UDP
\* direct), the DNS proxy (and that of the Android agent, which asks the
\* names of the direct rules itself), and what it changes in the
\* operating system: routes (elsewhere, and on macOS, where deletions may
\* fail too), DNS settings and the privileged helper.
EXTENDS YamuxPool, Sequences

CONSTANTS Slots, Mode, ShardFlows, CHANNEL_SIZE, BATCH_LIMIT, MaxRequests, Flows,
          QuicFlows, RuleFlows, PROXY_UDP, BLOCK_QUIC, QUEUE_SIZE, MaxTasks, Queries,
          IDS, CACHE_SIZE, MaxQueries, DirectQueries, ProxyIps, DnsServers, Gateways,
          LocalNets, Halves, UserRoutes, MACOS, WINDOWS, DELETES_FAIL, MaxCrashes, Conns,
          MaxRestarts, Ifs, Pids, Original, MaxDnsFaults, NoRequest, NoFile, NoRoute,
          NoPid, NoIf, NoConn

VARIABLES
    part,     \* the component this behaviour is about
    slot, holder, fallback, session, slots_req,
    shard_phase, shard_shutdown, shard_queue, retry_request, batch, staged, flow_ids,
    expired, next_flow_id, shard_broken, peer, delivered, shard_reply, shard_made,
    shard_faults,
    sessions_shutdown, dispatcher, cached, egress, sessions, tasks, relayed,
    dns_phase, dns_shutdown, dns_queue, dns_current, pending, next_id, cache,
    dns_broken, wire, dns_reply, dns_answered, dns_made, dns_faults,
    routes_phase, routes_retried, table, routes_file, lease, routes_todo, adding,
    cleanup_ok, failed, pf, pf_dns_guard, stuck, wiped, routes_crashes, lost, routes_faults,
    pid, others, dnsguard_phase, dns, dnsguard_file, records, dnsguard_todo, target,
    previous, kept, dnsguard_retried, ignored, dnsguard_faults, dnsguard_crashes,
    agent, conn, held, open, used, backlog, busy, helper_current, helper_answered,
    leases, routes, helper_file, bare, orphans, restarts

NativeSlots == INSTANCE UdpSlots WITH
    req <- slots_req
Shard == INSTANCE TunUdpRelay WITH
    Flows <- ShardFlows, phase <- shard_phase, shutdown <- shard_shutdown,
    queue <- shard_queue, broken <- shard_broken, reply <- shard_reply,
    made <- shard_made, faults <- shard_faults
Sessions == INSTANCE TunUdpSessions WITH
    shutdown <- sessions_shutdown
DirectSessions == INSTANCE TunUdpSessions WITH
    PROXY_UDP <- FALSE, BLOCK_QUIC <- FALSE, shutdown <- sessions_shutdown
Dns == INSTANCE DnsProxy WITH
    MaxRequests <- MaxQueries, phase <- dns_phase, shutdown <- dns_shutdown,
    queue <- dns_queue, current <- dns_current, broken <- dns_broken,
    reply <- dns_reply, answered <- dns_answered, made <- dns_made, faults <- dns_faults
AndroidDns == INSTANCE AndroidDnsProxy WITH
    MaxRequests <- MaxQueries, phase <- dns_phase, shutdown <- dns_shutdown,
    queue <- dns_queue, current <- dns_current, broken <- dns_broken,
    reply <- dns_reply, answered <- dns_answered, made <- dns_made, faults <- dns_faults
Routes == INSTANCE RouteGuard WITH
    phase <- routes_phase, retried <- routes_retried, file <- routes_file,
    todo <- routes_todo, crashes <- routes_crashes, faults <- routes_faults
Macos == INSTANCE RouteGuard WITH
    MACOS <- TRUE, WINDOWS <- FALSE, DELETES_FAIL <- TRUE, phase <- routes_phase,
    retried <- routes_retried, file <- routes_file, todo <- routes_todo,
    crashes <- routes_crashes, faults <- routes_faults
Guard == INSTANCE DnsGuard WITH
    MaxFaults <- MaxDnsFaults, phase <- dnsguard_phase, file <- dnsguard_file,
    todo <- dnsguard_todo, retried <- dnsguard_retried, faults <- dnsguard_faults,
    crashes <- dnsguard_crashes
Helper == INSTANCE TunHelper WITH
    current <- helper_current, answered <- helper_answered, file <- helper_file

slots_vars == <<slot, holder, fallback, session, slots_req>>
shard_vars == <<shard_phase, shard_shutdown, shard_queue, retry_request, batch,
                staged, flow_ids, expired, next_flow_id, shard_broken, peer,
                delivered, shard_reply, shard_made, shard_faults>>
sessions_vars == <<sessions_shutdown, dispatcher, cached, egress, sessions, tasks,
                   relayed>>
dns_vars == <<dns_phase, dns_shutdown, dns_queue, dns_current, pending, next_id,
              cache, dns_broken, wire, dns_reply, dns_answered, dns_made, dns_faults>>
routes_vars == <<routes_phase, routes_retried, table, routes_file, lease, routes_todo,
                 adding, cleanup_ok, failed, pf, pf_dns_guard, stuck, wiped,
                 routes_crashes, lost, routes_faults>>
dnsguard_vars == <<pid, others, dnsguard_phase, dns, dnsguard_file, records,
                   dnsguard_todo, target, previous, kept, dnsguard_retried, ignored,
                   dnsguard_faults, dnsguard_crashes>>
helper_vars == <<agent, conn, held, open, used, backlog, busy, helper_current,
                 helper_answered, leases, routes, helper_file, bare, orphans, restarts>>
suite_vars == <<part, vars, slots_vars, shard_vars, sessions_vars, dns_vars,
                routes_vars, dnsguard_vars, helper_vars>>

SuiteInit == /\ part \in {"pool", "slots", "shard", "sessions", "direct", "dns",
                          "android", "routes", "macos", "dnsguard", "helper"}
             /\ Init /\ NativeSlots!Init /\ Shard!Init /\ Sessions!Init /\ Dns!Init
             /\ Routes!Init /\ Guard!Init /\ Helper!Init

OnlyPool == /\ part = "pool"
            /\ UNCHANGED <<part, slots_vars, shard_vars, sessions_vars, dns_vars,
                           routes_vars, dnsguard_vars, helper_vars>>
OnlyNativeSlots == /\ part = "slots"
                   /\ UNCHANGED <<part, vars, shard_vars, sessions_vars, dns_vars,
                                  routes_vars, dnsguard_vars, helper_vars>>
OnlyShard == /\ part = "shard"
             /\ UNCHANGED <<part, vars, slots_vars, sessions_vars, dns_vars,
                            routes_vars, dnsguard_vars, helper_vars>>
OnlySessions == /\ part = "sessions"
                /\ UNCHANGED <<part, vars, slots_vars, shard_vars, dns_vars,
                               routes_vars, dnsguard_vars, helper_vars>>
OnlyDirectSessions == /\ part = "direct"
                      /\ UNCHANGED <<part, vars, slots_vars, shard_vars, dns_vars,
                                     routes_vars, dnsguard_vars, helper_vars>>
OnlyDns == /\ part = "dns"
           /\ UNCHANGED <<part, vars, slots_vars, shard_vars, sessions_vars,
                          routes_vars, dnsguard_vars, helper_vars>>
OnlyAndroidDns == /\ part = "android"
                  /\ UNCHANGED <<part, vars, slots_vars, shard_vars, sessions_vars,
                                 routes_vars, dnsguard_vars, helper_vars>>
OnlyRoutes == /\ part = "routes"
              /\ UNCHANGED <<part, vars, slots_vars, shard_vars, sessions_vars,
                             dns_vars, dnsguard_vars, helper_vars>>
OnlyMacos == /\ part = "macos"
             /\ UNCHANGED <<part, vars, slots_vars, shard_vars, sessions_vars,
                            dns_vars, dnsguard_vars, helper_vars>>
OnlyGuard == /\ part = "dnsguard"
             /\ UNCHANGED <<part, vars, slots_vars, shard_vars, sessions_vars,
                            dns_vars, routes_vars, helper_vars>>
OnlyHelper == /\ part = "helper"
              /\ UNCHANGED <<part, vars, slots_vars, shard_vars, sessions_vars,
                             dns_vars, routes_vars, dnsguard_vars>>

SuiteNext == \/ OnlyPool /\ Next
             \/ OnlyNativeSlots /\ NativeSlots!Next
             \/ OnlyShard /\ Shard!Next
             \/ OnlySessions /\ Sessions!Next
             \/ OnlyDirectSessions /\ DirectSessions!Next
             \/ OnlyDns /\ Dns!Next
             \/ OnlyAndroidDns /\ AndroidDns!AndroidNext
             \/ OnlyRoutes /\ Routes!Next
             \/ OnlyMacos /\ Macos!Next
             \/ OnlyGuard /\ Guard!Next
             \/ OnlyHelper /\ Helper!Next

SuiteSpec == SuiteInit /\ [][SuiteNext]_suite_vars
-----------------------------------------------------------------------------
\* A slot's live session is never dropped or replaced because of what happened to
\* an earlier session of the slot (connect.rs:157-164).
LiveSessionIsKept == NativeSlots!LiveSessionIsKept

\* A reply is written to the flow whose datagram it answers or to none, although flows
\* expire and come back while replies are under way (handle_udp_response).
ReplyReachesItsFlow == Shard!TypeOK /\ Shard!ReplyReachesItsFlow

\* Whatever the order of datagrams, expiries and ends of tasks, the table of UDP
\* sessions and the tasks agree; no datagram of a flow whose address a direct rule names
\* enters the proxy; and one of a blocked QUIC flow gets neither there nor out directly.
TableMatchesTasks ==
    part = "sessions" => /\ Sessions!TypeOK /\ Sessions!TableMatchesTasks
                         /\ Sessions!DirectFlowStaysDirect /\ Sessions!BlockedFlowIsDropped

\* With UDP not proxied, no datagram but of QUIC enters the proxy, and the table and
\* the tasks of the sessions agree.
UnproxiedStaysDirect == part = "direct" => DirectSessions!TableMatchesTasks /\ DirectSessions!DirectFlowStaysDirect

\* A client of the DNS proxy, of the desktop agent or of Android, gets the answer to
\* its own query, from the connection, the cache or a direct server, once at most,
\* although answers come late, twice and in any order; failures are not kept in the
\* cache.
AnswersAreRight == Dns!TypeOK /\ Dns!AnswersAreRight

\* A name the rules keep off the proxy is never asked through it by the Android agent,
\* nor is a connection set up for it: not as the first request, after a reconnect, from
\* the queue, or when its cached answer has just expired.
DirectQueriesStayLocal == part = "android" => AndroidDns!DirectQueriesStayLocal

\* Faults aside, the connections of the agent to its proxies never enter the TUN while
\* routes are set up, in use or taken down, and a proxy that is a DNS server too is not
\* captured as one; neither Drop nor the cleanup after a crash removes a route that was
\* there before; a crash costs at most the route that was being added, a failed write
\* at most the routes it was about, unless a crash on Windows finds the state file removed
\* and not yet replaced.
RoutesAreRight == part = "routes" => Routes!RoutesAreRight

\* However the process ends, commands and writes working and no lease left alone, an
\* interface that points at the DNS address of the TUN has its former setting in the
\* state file and a start past its cleanup has put every other interface back; whatever
\* fails, the address of the TUN is never what is put back. On macOS, with deletions that
\* fail, the system's own routes stay, no proxy is captured, its connections stay out of
\* the TUN up to the first fault or crash, and nothing is left in the packet filter but
\* what a crash, a pfctl that failed or an unread token left there; routes of the agent may
\* stay behind.
HostIsRestored ==
    /\ Guard!DnsIsRestorable /\ Guard!OriginalRestored /\ Guard!TunIsNeverPutBack
    /\ part = "macos" => Macos!RoutesAreRight

\* However late the requests of earlier runs are handled, a running agent has its own
\* routes, unless they could not be installed when its lease was made; a lease always has somebody who will stop it or is on record for the next
\* start; and an idle agent has left nothing behind.
HelperRoutesFollowAgent == Helper!HelperRoutesFollowAgent

\* A route of the user's to one of the proxies.
OneUserRoute == {[dest |-> "p2", via |-> "phys"]}

\* One interface has static DNS servers, the other gets them by DHCP.
OneStatic == [i \in Ifs |-> IF i = "wifi" THEN "user" ELSE "empty"]

\* What the proofs assume of the limits and sets holds of the ones chosen here.
ASSUME AgentConstants ==
    /\ PoolConstants /\ NativeSlots!SlotsConstants
    /\ Shard!ShardConstants /\ Sessions!SessionsConstants /\ Dns!DnsConstants
    /\ Routes!RouteConstants /\ Guard!GuardConstants /\ Helper!HelperConstants

=============================================================================
