# A TLA+ model of ppaass-ai

ppaass-ai is a proxy pair: an *agent* next to the user (desktop or Android, with a TUN
device, an HTTP and a SOCKS5 front end) sends traffic over authenticated, encrypted
sessions to a *proxy*, which talks to the targets, itself or through further proxies.
This project models what carries its correctness: the native UDP transport, the
session pools, the UDP, TCP and DNS relays, the way out of the proxy, and the parts
that change the user's operating system and have to put it back.

## The system and its modules

| Part of the system | State it keeps | What is hard | Modules |
|---|---|---|---|
| Replay window (`protocol/src/udp_transport/replay.rs`) | highest number, bitmap | reordering, gaps, carries between words, end of the range | ReplayWindow, ReplayBitmap |
| Fragment reassembly (`reassembly.rs`, `header.rs`) | incomplete messages, byte counter | limits, errors half way, time | FragmentReassembler |
| Session codec (`crypto.rs`) | sequence and message counters | loss, duplication, reordering, exhaustion | UdpSessionCodec, DatagramChannel |
| Native UDP sessions (`common/.../udp.rs`, `proxy/src/native_udp/listener.rs`) | handshake, session table, generations, cleanups | repeated first flights, address changes, late cleanups | NativeUdpHandshake |
| Native UDP channels (`udp.rs`, `native_udp/session.rs`, `channel.rs`) | streams, command queue, channel table, workers | reordered open and close, failed connects | NativeUdpFlows |
| Shared UDP relay of the proxy (`udp_relay_flow.rs`, `udp_relay.rs`) | flow table, flow tasks, bounded channels | late reports, everyone waiting | UdpRelayFlows |
| Yamux pool of the agent (`yamux_session/manager/yamux.rs`, `client_connection/yamux.rs`) | sessions, permits, refill lock | stale measurements, sessions that die while waited for | YamuxPool, AndroidYamuxPool |
| Native UDP slots (`yamux_session/manager/connect.rs`) | slots, locks, fallback flags | handles older than the slot's session | UdpSlots, AndroidUdpSlots |
| Shared UDP relay of the agent (`tun_handler/udp_relay.rs`) | queue, batch, kept request, flow ids | batches that fail half way, expired ids | TunUdpRelay |
| UDP sessions of the TUN (`tun_handler/tasks.rs`, `udp.rs`) | session table, tasks, domain cache | removal by key, a route decided twice | TunUdpSessions, AndroidTunUdp |
| DNS proxy (`tun_handler/dns_proxy.rs`) | pending ids, cache, kept request | late and repeated answers | DnsProxy, AndroidDnsProxy |
| TCP tunnel (`tcp_relay.rs`, `stream.rs`, `agent_io.rs`, `relay.rs`) | two relays, two directions, timers | half-close against timers and errors | TcpTunnel |
| Connecting (`authenticated.rs`, `proxy/src/server.rs`, `auth.rs`, `connect.rs`, `upstream.rs`) | handshake, cipher of each side, chain of proxies | the moment of the key switch, one hop failing | TargetConnect |
| Way out (`proxy/src/connection/egress*`) | interface tables, counted host routes | stale tables, a list read before a lock | Egress |
| Network stack and TUN mode (`netstack.rs`, `tun_handler.rs`, `server.rs`) | tasks, supervisor, timers | tasks that fail or hang while others are joined | Netstack, TunMode |
| Routes (`tun_handler/route/`) | routing table, state file | crash between two steps, order | RouteGuard |
| DNS settings (`tun_handler/dns/`) | settings, state file | crash, restart, failed restore | DnsGuard |
| Privileged helper (`helper_service.rs`, `tun_helper_client.rs`) | leases, backlog | requests given up but still queued | TunHelper |
| Android VPN (`PpaassVpnService.java`, `jni_api.rs`, `netstack/supervisor.rs`) | service, native thread, descriptor | stop and revocation during a rebuild | AndroidVpn |
| Android shared proxy (`PpaassHttpProxyService.java`, `http_proxy*.rs`, `socks5_proxy.rs`) | wish, service, clients | crash, restart, blocked clients | AndroidProxy |

### How they interact

The agent asks a pool for a stream: `UdpSlots` decides between a native UDP session and
`YamuxPool`; either hands out a stream to a target, set up as `TargetConnect` says. TCP
runs through `TcpTunnel`. A native session is made by `NativeUdpHandshake`, its messages
travel through `UdpSessionCodec` (shown to implement `DatagramChannel`, the network that
`NativeUdpFlows` assumes), and its flows are the channels of `NativeUdpFlows`.
`TunUdpSessions` distributes the datagrams of the TUN to `DnsProxy`, to `TunUdpRelay` or to
sessions of its own; at the proxy `UdpRelayFlows` serves the other end of `TunUdpRelay`.
`TunMode` runs all of it on `Netstack` and takes routes and DNS settings by `RouteGuard`,
`DnsGuard` and, on macOS, through `TunHelper`. Where modules meet, each takes the other at
its interface: what a module assumes of its neighbour is in its header.

Composed by `INSTANCE` or `EXTENDS` are: ReplayWindow and FragmentReassembler in
UdpSessionCodec; ReplayWindow in ReplayBitmap and DatagramChannel in UdpSessionCodec, as
refinements; Netstack in TunMode and in AndroidVpn; TunUdpSessions and TunUdpRelay in
AndroidTunUdp; and each Android module on the desktop one it differs from.

### Notes on the correspondence

* Actions and operators have the names of the functions they stand for; `map` in
  `PROJECT.json` gives the lines. A step ends where the code awaits, releases a lock or
  hands something to another task.
* **ReplayWindow** keeps the bitmap as a set of distances from `highest`; **ReplayBitmap** has
  the array of words with shifts and carries. `accepted` is a history variable.
* **FragmentReassembler**: `push` returns the set of possible results, as a `HashMap` has no
  order between entries of one age. Time is the age of an entry in ticks.
* **UdpSessionCodec**: the network keeps every datagram for ever, so that it repeats and
  reorders; not delivering is loss. Exactly what was sealed opens.
* **NativeUdpHandshake**: a session key is named by the generation of its session; `stale` is
  the set of agents whose AuthInit is too old.
* **UdpRelayFlows**: a dispatch is two steps, as the new task runs between its spawn and the
  `try_send`.
* **YamuxPool**, **UdpSlots**: session ids are recycled once nothing refers to them, so that
  the state space is finite without bounding the sessions; faults are bounded.
* **DnsProxy**: the 16-bit ids are `IDS` ids, more than can be pending at a time.
* **DnsGuard** keeps the records of a lease, a `Vec`, as a function from positions: `push` puts
  one behind the last, `retain` leaves the others where they are.
* **NativeUdpFlows**: `abort()` only tells a worker to end. The task is `Over`, reads nothing and
  sends nothing, but has its socket until the runtime drops it (`TaskDropped`); what it still
  does before its next await could as well have come before the abort. `TimeoutPasses` and
  `WorkerEnds` are two steps, as a datagram of the target arms the timer again in between.
* **Egress**: an interface in `Unindexed` has a route that names no index, for which the code
  gives the address up instead of reading the table again; readings of the table and of the
  addresses fail, within `MaxFaults`. `settled` is a history variable.
* **RouteGuard**, **DnsGuard**, **TunHelper**: a crash may come between any two steps; a write of
  the state file is lost or done, of the DNS settings torn too; commands of the system fail,
  within `MaxFaults`. With `WINDOWS` the state file of the routes is removed in a step before
  it is replaced. `pf` is what the agent has put into the macOS packet filter, and each `pfctl`
  takes effect or does not. In TunHelper, `bare` are the leases that were made without routes
  and were answered with TunStarted all the same.
* **TcpTunnel**: `sent` and `out` are counted anew when all has arrived, so that traffic is
  endless and `MaxUnits` bounds only the units that are under way at a time.
* **AndroidProxy**: the main thread's queue has intents and the `destroy` of a service that was
  stopped; the process may be killed with any of them under way, and Android then delivers
  again what a service that is not stopped has not handled. `wish` is what the activity asked
  for last, restoring included.
* **TargetConnect**: frames say with which cipher they were written; link `l + 1` is opened
  by the server of link `l`, so that a chain of proxies is one model with `HOPS` links.
* **TunMode**, **AndroidVpn**: a task that never yields is the initial choice `stuck`.

Definitions called "Faulty variant" are plausible bugs of the definition that follows
them. Nothing in a specification uses them: they are there to show that a property
notices the bug (`PROJECT.json`, "mutants").

## What the runs check

A run on several components is the sum of independent instances: the variable `part`
picks one of them in the initial state and only that one moves, the variables of the
others stay as they are. So the state space is the sum of theirs, not the product, and
every property is about one part; nothing is claimed about joint behaviours beyond the
compositions above. The parts that have theorems take their constants from the cfg; a
part that is a second instance of a module (direct sessions, routes on macOS, DNS of
Android) shares the variables of the first and fixes in its `INSTANCE` what makes it
different. In the runs with liveness the parts share the numbers of their fair actions:
`Weak(i)` is the i-th fair action of whichever part moves.

| Run | Parts | What it shows |
|---|---|---|
| `datagram_path` | window, words, codec, reassembly | `ExactReplayAnswer`: accepted iff new and not too old. `ImplementsReplayWindow`: the words refine the set. `NonceUsedOnce`; `ImplementsChannel`: whole messages, at most once. `TableIsTrue`, `EvictionIsOrderly`: counters, limits and eviction of reassembly. |
| `proxy` | channels, relay flows, handshake, egress | `ChannelsMatchWorkers`, `NoFlowIsReopened`. `RelayTableIsTrue`. `RunningTaskIsRouted` (no orphan task, no two tasks of a session), `DeadRouteHasCleanup`, `SessionLimitHolds`, `SessionBoundToPeer`. `RefsMatchGuards`: counted host routes. `AutoFindsTheWayOut`: no stale table strands the proxy. |
| `proxy_udp_live` | handshake, channels, relay flows | `NativeSessionsEnd` (a lost session is noticed, an agent that is gone forgotten), `ConnectedFlowIsReleased` (once the target is silent), `FlowTasksEnd`, with any message lost. |
| `agent` | pool, slots, shard, sessions, direct sessions, DNS, DNS of Android, routes, routes on macOS, DNS settings, helper | `PoolIsKept`, `LiveSessionIsKept`, `ReplyReachesItsFlow`, `TableMatchesTasks` (with flows that must go direct, and blocked QUIC, which goes nowhere), `UnproxiedStaysDirect` (the same with UDP not proxied), `AnswersAreRight` (for both DNS proxies), `DirectQueriesStayLocal` (names of the direct rules stay off the proxy on Android); through crashes and failed commands `RoutesAreRight`, `HostIsRestored` (DNS settings, and routes and packet filter on macOS), `HelperRoutesFollowAgent`. |
| `agent_live` | pool, slots, shard, sessions, DNS | `RequestsEnd`, `QueuedIsHandled` once faults cease, `TasksStop`. |
| `android` | pool, slots, TUN UDP | `AndroidStops` although the token is tested in few places. |
| `tcp` | with timers and faults; plain | `FinIsHonest`; `ClosedIsDelivered` to a receiver that reads; `RelaysEnd` once nobody sends any more. |
| `services` | TUN mode, VPN, shared proxy, chain | `ServicesKeepTrack`, `ToldIsTrue`, `NetworkIsRestored`, `ServicesEnd` (a told task ends, a blocked client is cut, the shared proxy does what it was asked last). |
| `udp_flows_leak`, `relay_flows_sockets`, `dns_guard_retry`, `egress_route` | one each | findings, below. |

### Findings

* `OneSocketPerFlow` fails. `flow_done` carries a flow id and `remove` trusts it. If the
  relay dispatches to the dead flow before it reads the report, it drops the entry and the
  next packet creates a new flow under the same id; the late report then removes *that*
  flow, whose socket stays open while a third one is created. The native listener meets the
  same problem with generations (`remove_session`).
* `EveryFlowIsReleased` fails. A worker whose connect fails ends without a `Closed` event, so
  its channel entry, and its place under `udp_session_max_flows`, goes only with the agent's
  Close, which is a single datagram and may be lost, early or never queued.
* `KeptForNextStart` fails. The state file of the DNS settings is kept for the next start when
  a restore fails, but a start in the same process skips records of its own pid, reads the
  TUN's address as the former setting and overwrites the file.
* `LastConnectionRemovesRoute` fails. `TargetRouteGuard::install` returns without taking a
  reference when the host route is already there, which is so from the second connection to
  an address on; the route goes with the first.

Three more divergences were met while modelling and have no run. A slot whose session times
out right after `timed_out` was read is rebuilt natively once more (`connect.rs:110`),
where `common/src/transport.rs:13` says that a timeout switches it to Yamux. The first route
recorded after a failed cleanup replaces the state file that was kept for the retry
(`route/state.rs:117`; `LeakBound` excludes it). And the shared proxy of Android stops itself with
`stopSelf()`, which names no start (`PpaassHttpProxyService.java:137`): a start that is queued
behind a stop, or behind a start that failed, is carried out and then undone by `onDestroy`,
while the preference that "the user wants the proxy to stay" (line 74) remains set. Two starts
in a row are ordinary: `startHttpProxyService` sends one and its own `updateHttpProxyToggle` the
next (`MainActivityServiceState.java:71-77`). The VPN service uses `stopSelfResult(latestStartId)`;
`ProxyFollowsWish`, in `ServicesEnd`, is about all other orders and excludes this one (`undone`).

On Windows the state file of the routes is removed before the new one takes its place
(`route/state.rs:134`): a crash in between, or after a rename that failed, leaves no record of
any route of that run (`wiped`), which is the exception `LeakBound` makes. On macOS nobody looks
at the results of `pfctl`: what a failed or killed call leaves in the packet filter stays
there (`stuck`, the exception of `FilterIsReleased`).

Where nothing is promised, the models contain these paths and no property speaks of them:
the interface binding of the session managers stays set when TUN mode ends early
(`tun_handler.rs:369`); a descriptor detached by Android is owned by nobody when the native
thread ends before it has a runtime (`netstack.rs:43`); a client accepted just before its
address is blocked registers just after and is not cut (`http_proxy.rs:61`); in auto mode a
default route that moved is not noticed as long as the old interface is up
(`egress/auto.rs:46`); a start of the shared proxy that Android delivers again after a crash,
with the stop sent behind it lost, turns the preference on again
(`PpaassHttpProxyService.java:79`), and an activity that then restores the proxy counts as asking
for it; a lost OpenData loses its flow's datagrams (`udp.rs:567`), as UDP may.

### Bounds

Bounds that the code does not have begin with `Max`; limits of the code that are scaled
down keep their names.

* A window of 3 numbers over 6, alone and in the codec, and one of 3 words of 3 bits over
  13, contain jumps smaller than, equal to and larger than a window, and the largest
  number; in the codec numbers and window both run out.
* Reassembly has 3 ids for 2 places and 3 bytes for messages of up to 3 bytes in up to 3
  fragments, and a timeout of 2 ticks, so that entries differ in age: they are evicted for
  room and for bytes, and expire. In the codec, messages of 5 bytes are too large for a
  table of 3.
* The handshake has 2 agents on 3 addresses with a limit of 1 and 3 sessions in all: one
  replaced session, one refused agent and one rebinding can meet. Addresses are symmetric.
* NativeUdpFlows: 2 flows for 1 place, either of them with a second
  packet; the queue of commands holds 1
  for safety, so that a Close is not queued, and 2 in the other runs, so that commands follow
  each other. UdpRelayFlows: 2 flow ids for 1 place, 4 tasks, channels of 1.
* Pool and slots: 2 requests on 2 sessions of 1 stream, and on 2 slots: the smallest in which
  one request acts on what the other has changed. Shard: 4 datagrams of 2 flows in batches
  of 2. DNS: 3 requests for 2 names, a cache of 1; on Android one of the names is direct.
  Sessions: 3 flows, one of them QUIC, one
  direct by rule, with QUIC blocked; in the second instance UDP is not proxied and QUIC is
  not blocked.
* Routes: 2 proxies, one of them a DNS server and one with a route of the user's, 2 crashes
  and 2 failures, on Windows, where the file is removed first, and on macOS with deletions
  that fail; DNS settings: 2 interfaces, 2 pids; helper: 6 requests and a restart.
* Egress: 2 connections that share an address, 2 interfaces, one of them without an index, 2
  changes of the network and 1 failure.
* TCP: 2 units under way each way, over a link of 1. Chain: 2 hops, both kinds of link, 2 addresses.
  Services: 2 or 3 tasks of the stack, 2 faults, 2 starts; 2 connections of one
  client and 3 moves of the user, which is what a start, a restore and a stop take.

### Fairness

Timers and the scheduling of ready tasks are fair; nothing is assumed of the network and of
the user, and faults never have to happen. Of what the code waits for without a timer the
following is assumed to end, and named where it is used:

* Weak fairness: tasks that can move do, connects and handshakes end by their timeouts, and a
  timer that stays expired fires. A datagram or a unit of traffic arms the idle timers again,
  so `ConnectedFlowIsReleased` is for targets that fall silent (`TargetFallsSilent`), and
  `RelaysEnd` for ends that do (`SendersFallSilent`).
* The agent's relay has no timer (`tcp_relay.rs:120`), so a client that half-closes and stops
  reading keeps it. `AgentRelayEnds` and `ClosedIsDelivered` are for receivers that keep
  reading (`KeepsReading`); nothing makes `Write2`, the write to a receiver, happen.
* Writes into a live connection, which are awaited without the token, are assumed to finish:
  in `TasksStop` those of the UDP sessions, in `AndroidStops` those of `udp_relay.rs:292-305` and
  `udp.rs:358-365`, in `ServicesEnd` those of TargetConnect, and there the lookup of a name too.
* `RequestsEnd` assumes that a stream that was handed out is dropped some time, and `TasksStop`
  that a proxied session ends, which it does by the idle timer of the proxy.
* A SOCKS5 client of the shared Android proxy that was blocked while it connects is cut when
  the attempt ends. Through the proxy that has a timeout; of the direct one
  (`http_proxy_io.rs:9-34`) it is assumed of the operating system.
* In TunMode probing for the proxy's interface may take for ever. While the routes
  are held TUN mode waits for the token only, so they are given back by the step that hears
  it; the server's timer (`ShutdownTimeout`) aborts it while it probes or joins its tasks, when
  there is nothing to give back.
* Strong fairness where tokio gives it: a mutex, semaphore or bounded channel is first
  come, first served (a request waiting for a lock or a permit, a task waiting for room),
  and `select!` starts with a random branch, so that one which is ready again and again
  (cancellation, `flow_done`, a finished connect, a send) is taken in the end.
* Liveness that fails under faults is stated for the time after the last fault, whose
  number is bounded. So `QueuedIsHandled` shows that what is kept of a batch that failed half
  way is handled; the rest of such a batch is lost, as UDP may be.

## What is proved

The theorems are in eight modules, each of which extends the module of the run that
checks the same properties: a theorem states the property of the run, of the run's own
specification, for every value of the constants instead of the values in its cfg. Where
the parts of a run share variables (the window of the codec, sessions and direct sessions,
the two kinds of DNS proxy, routes and routes on macOS) the property is guarded by `part`,
and so is the invariant.
`YamuxPoolProofs`, and the theorems about the window and about the channels, are of the
component's own `Spec`, which the run extends.

A theorem holds for every value of the constants that satisfies the component's
`...Constants` predicate; the module of the run assumes these (`AgentConstants`,
`ProxyConstants`, `PathConstants`, `TcpConstants`, `ServicesConstants`; `WindowAssumption` for the window), so
that TLC evaluates them on the instances checked. They say that limits are naturals, that a queue holds something and
that model values differ from what they stand beside; where they say more it is named
below.

| Module | Theorem | Property |
|---|---|---|
| UdpTransportProofs | `TypeCorrect`, `WindowInvariant`, `ExactReplay` | `ExactReplayAnswer` |
| | `WordsImplementWindow` | `ImplementsReplayWindow` (refinement) |
| | `NoncesAreFresh`, `CodecImplementsChannel` | `NonceUsedOnce`, `ImplementsChannel` (refinement) |
| | `TableStaysTrue`, `PushesAreOrderly` | `TableIsTrue`, `EvictionIsOrderly` |
| ProxyProofs | `HandshakeTypes`, `RoutesAreTrue`, `NoRouteLeaks`, `KeysAreBound`, `LimitIsKept` | `RunningTaskIsRouted`, `DeadRouteHasCleanup`, `SessionBoundToPeer`, `SessionLimitHolds` |
| | `RefsAreRight`, `WayOutIsFound` | `RefsMatchGuards`, `AutoFindsTheWayOut` |
| | `ChannelsAndWorkers`, `FlowIsOpenedOnce` | `ChannelsMatchWorkers`, `NoFlowIsReopened` |
| | `RelayTable` | `RelayTableIsTrue` |
| YamuxPoolProofs | `PoolKept` | `PoolIsKept` |
| TunUdpProofs | `SessionsAgree`, `RepliesFindTheirFlow` | `TableMatchesTasks`, `ReplyReachesItsFlow` |
| | `DnsAnswersAreRight`, `DirectNamesStayLocal` | `AnswersAreRight`, `DirectQueriesStayLocal` |
| TunHostProofs | `RoutesKept`, `HelperFollowsAgent` | `RoutesAreRight`, `HelperRoutesFollowAgent` |
| AgentProofs | `SlotsTypes`, `SlotKeepsLiveSession` | `LiveSessionIsKept` |
| | `HostIsPutBack`, `UnproxiedUdpStaysDirect` | `HostIsRestored`, `UnproxiedStaysDirect` |
| TcpTunnelProofs | `EndOfFileIsHonest` | `FinIsHonest` |
| ServicesProofs | `ToldIsTrueHolds`, `ServicesKeepTrackHolds` | `ToldIsTrue`, `ServicesKeepTrack` |

So every safety property of the runs, invariant or action property, is also a theorem, and
both refinements are. `AgentProofs` instantiates `TunUdpProofs` with UDP not proxied and
`TunHostProofs` for macOS with deletions that fail, and takes their invariants and lemmas
for the second instances of the sessions and of the routes.

Each proof has an inductive invariant, a lemma per action (or per group of actions that
touch the same state) that the action keeps it, and a theorem that joins them. What the
invariants add to the properties, and why:

* **Replay window**: `TypeOK /\ WindowInv`. The answers of `may_accept` alone are not
  inductive, as they do not say which numbers the bits stand for. `CommitKeepsWindowInv`
  goes through the three branches of `commit`.
* **Words**: the abstraction of an array of words is the set of distances of its bits, and a
  shift by any distance, with carries and with whole words, moves that set
  (`WordsImplementWindow`), for every word size and number of words.
* **Codec**: `CodecInv` ties the network to the sender (`Sealed`: a datagram has a number and
  an id that are used up), ids to messages (`OneMessagePerId`), the reassembler to the
  network (`BufferedIsSealed`) and what was delivered to the window (`DeliveredIsUsedUp`:
  all its datagrams are refused from then on). At-most-once delivery then follows from the
  exactness of the window; `DeliveredIsUsedUp` is what makes it inductive.
* **Reassembly**: `OpenTable`: every entry is true to its declared count and length, counts
  its own bytes and misses a fragment, and the sum is `total_bytes`. A sum of sizes is the
  cardinality of a set of cells (`Total`), one cell per byte, so that a fragment stored, an
  entry removed or a set of entries evicted is a disjoint union or a difference of finite
  sets and needs no induction over data. `RoomIsFound` says that evicting all the others
  makes room, so the least eviction exists; the cases of `push` then each keep the table
  (`AdmitIsTrue`, `StoreIsOrderly`, `MergeIsOrderly`, joined in `PushKeepsOrder`).
* **Handshake**: `Typed` adds that an established agent has a key. `RoutingInv` adds
  `GenerationInv`: a generation is handed out once, a queued cleanup names a task that is
  over, a route names a task of its own session; so the route a cleanup removes is no
  running task's. `KeyInv` says that there is one AuthOk per key. The limit follows from the
  listener's check, as running tasks map one to one to table entries.
* **Channels**: `AgentInv` says that there is one OpenData per flow in a whole behaviour,
  queued, on its way or used up (`OpenedOnce`), and that answers follow it; `ProxyInv` that
  channels and events are those of opened flows, and that a worker whose channel is gone is
  over, though its task may not be dropped yet. Reordering needs no case of its own: the
  network is a set.
* **Relay flows**: `NumbersAreOld` (a task number is given out once, so a late report can name
  an old task only) and `LoopOwnsTable`.
* **Pool**: `RefillWithinTarget` bounds what the holder of the refill lock still creates by
  what is missing, `RemovalFollowsFault` and `SessionInHand` tie a request's place to what
  it has seen. Permits are cardinalities of sets of requests (`PermitsAreHeld`), so a step
  moves one request into or out of a set. That ids never run out (`FreshIdIsFree`) is
  proved by counting.
* **Slots**: `ConnectReplacesDead` and `ClearedIsDead`: whoever replaces or clears saw the
  session dead, and dead sessions stay dead while somebody holds their handle.
* **Sessions of the TUN**: `EntryIsOfItsFlow`; without it a removal by key could take the
  entry of another flow.
* **Shard**: ids are unique (`IdsAreUnique`), an id the proxy has seen stands for the flow it
  stood for then as long as it is in use (`PeerIsRight`), and a request that is written and
  not flushed has an id still (`StagedHaveIds`).
* **DNS proxy**: a request is in one place (`OnePlace`) and has no answer while it is there
  (`Unanswered`), and ids on the wire belong to the request pending under them
  (`IdsAreFresh`). The last needs `IDS > MaxRequests + MaxFaults`: ids do not come round in
  the behaviours considered. That is the one real restriction of a theorem: with 16-bit ids
  it speaks of 65 535 requests and failures in one life of the proxy. After a wrap the code
  skips ids that are pending, and a late answer to an id given out again is accepted.
* **DNS on Android**: `AndroidIsDesktop` shows action by action that it is the desktop's proxy
  but for the requests it answers itself; `AnsweredHereStep`, which serves cached answers on
  the desktop too, is the one lemma for those. `DnsAnswersAreRight` so holds of both, and
  `DirectQueriesStayLocal` is inductive as it stands: it speaks of pending requests and of
  the request a connection is being set up for, not of the wire alone.
* **Way out**: `ConnsTyped`, `InterfaceChosen` and `GuardWhileConnected` say what a
  connection has at each place; the count of an address is the cardinality of the set of
  its holders, so taking and dropping a reference are lemmas about one element. A
  connection that is `settled` and is about to store a table without a way out has found
  that this machine has none, or a route without an index (`SettledInv`): what it read is
  still true, whatever the cache said before and whatever others store.
* **TCP tunnel**: `NothingIsLost` counts the units of a direction in all the places between
  sender and receiver; `FirstIsThrough`, `SecondIsThrough` and `RelaysEndDone` follow the
  end of file through the two relays. The receiver's end of file is then honest because
  everything before it is counted out; `HalfTimer` is the part about the timer.
* **Routes**: `RecordsAreOwn` (what is recorded or to be deleted is the agent's, so the
  user's routes stay), `AddingIsOrderly`, `BypassFirst` (as long as neither crash nor failed
  deletion disturbs it, the bypass routes are there before the halves are and after) and
  `FileIsTrue`, which bounds the routes that are not in the file by the crashes and lost
  writes. `FileIsTrue`, and with it the bound on leaked routes, is for deletions that work
  (`~DELETES_FAIL`): the code replaces a kept file, as noted above. The constants are those
  of a real host: halves are no host routes, a proxy is in no local network. On Windows
  the lease in memory stands for the file while that is away, and a crash then is `wiped`.
  `FilterHasOwner`: what is in the packet filter is the guard's, or known to be stuck.
* **DNS settings**: `TunIsNowhere` (no record, in memory or in the file, has the TUN's address
  as a former setting) holds throughout. `TakenOver` says phase by phase which interfaces
  are taken over and where their former setting is; it is for behaviours in which no
  command or write has failed and no lease was left alone, as the properties are
  (`KeptForNextStart` shows why).
* **Helper**: the agent's request is the last in the backlog (`RequestIsLast`) and is the one
  it waits for; the state file and the routing table name the same lease at all times
  (`RoutesAreOfLease`), and a lease that nobody holds has a stop under way or is an orphan
  of a restart (`LeaseIsKnown`). A bare lease has no routes to take with it, so its stop leaves
  table and file alone.
* **Chain of proxies**: a link is a conversation (`ClientTurn`, `ServerTurn`, `FrameTurn`): the
  state of one side bounds the frames on their way and the state of the other, so each
  frame meets the cipher it was written with. `Through(l)` says that everything from link
  `l` on is connected or was; a success moves it up one link at a time. For any `HOPS`.
* **Network stack and VPN**: while a generation is stopped, the handles joined so far and the
  one that `select!` took are over (`TunStackInv`, `VpnStackInv`); `VpnInv` ties handle,
  native thread, protector and descriptor together.
* **Shared proxy**: the leases of a connection are those its handler has at its step and the
  one of its tunnel (`ClientInv`), and the last one to go takes the connection off the list. The stop of the service, by an
  intent, a failed start or `onDestroy`, is one lemma (`StopProxyEffect`).

### Only model-checked

Liveness under fairness (`proxy_udp_live`, `agent_live`, `RelaysEnd`, `ClosedIsDelivered`,
`AndroidStops`, `NetworkIsRestored`, `ServicesEnd`) and everything that needs ENABLED: the
prover does not handle them. The four properties under "Findings" do not hold.

## Not modelled

* Byte layouts, compression, RSA, AEAD and key derivation (`protocol/src/codec`,
  `compression.rs`, `crypto/`, `udp_transport/message.rs`, `auth.rs`): pure encoding; the models
  keep which key something was written with and whether it opens.
* Parsing in the HTTP and SOCKS5 front ends, SOCKS5 UDP ASSOCIATE, the TCP accept path of
  the TUN (a connect followed by the relay of TcpTunnel) and the proxy's `relay_udp` (one
  socket and one idle timer per request).
* Matching names against the direct rules: the models are given the set of names that match.
* User files and their reload, bandwidth accounting, telemetry, configuration files.
* The desktop UI and the screens of the Android app, mock location and diagnostics.
* Below the models' grain: the lookup of an interface index (`dns/windows.rs:10`), and the wrap of
  16-bit DNS ids with all of them pending (`dns_proxy.rs:526`).

## What is left

1. `relay_udp`, SOCKS5 UDP ASSOCIATE and the TCP accept path of the TUN.
2. Joint instances: TunUdpRelay over UdpRelayFlows, and RouteGuard under TunHelper.
3. Proofs of the Android pool, slots and TUN UDP: only their liveness is stated so far.
