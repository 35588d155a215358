------------------------------- MODULE Egress -------------------------------
(***************************************************************************)
(* How the proxy reaches a target (proxy/src/connection/egress.rs and      *)
(* egress/): by the system's routes, or bound to an outbound interface     *)
(* that is configured or, with "auto", taken from a cached routing table.  *)
(* On Apple systems a host route per target keeps a bound connection out   *)
(* of the TUN of an agent on the same machine.  The connections run on     *)
(* several threads and share the caches, the reference counts and the      *)
(* routing table.                                                          *)
(*                                                                         *)
(* Addresses are of one family, an interface that is up has one usable     *)
(* source address, and a target resolves to the addresses Resolved[c].     *)
(***************************************************************************)
EXTENDS Integers, FiniteSets, Sequences

CONSTANTS Conns,
          Resolved,            \* connection -> sequence of addresses
          Ifaces,              \* physical interfaces; one of them is the configured one
          Named,
          Unindexed,           \* interfaces whose routes are listed without an if_index
          Modes,               \* subset of {"default", "named", "auto"}
          MaxMoves, MaxFaults, \* bounds: changes of the network; refused calls
          NoIface, NoRef

Dsts == UNION {{Resolved[c][k] : k \in 1..Len(Resolved[c])} : c \in Conns}
Keys == Dsts \X Ifaces

\* A target has at least one address: lookup_host fails otherwise.
EgressConstants ==
    /\ IsFiniteSet(Conns) /\ Named \in Ifaces /\ NoIface \notin Ifaces
    /\ \A c \in Conns : Resolved[c] \in Seq(Dsts) /\ Len(Resolved[c]) > 0
    /\ NoRef \notin Keys /\ Unindexed \subseteq Ifaces

VARIABLES
    mode, udp,          \* EgressState.interface; the connections that are UDP
    default, up, tun,   \* the machine: its default interface, the interfaces that have an address, an agent's TUN routes
    host,               \* host routes: address -> interface
    refs,               \* ROUTE_REFS
    cached,             \* AutoInterfaceSelector.routes: the default route of the snapshot
    ifs, fresh,         \* IF_ADDRS_CACHE and whether it is within its TTL
    pc, pos,            \* per connection: its step, the address it tries
    iface, snap,        \* per connection: the selected interface, the table it read
    guard,              \* per connection: the key of its TargetRouteGuard, or NoRef
    settled,            \* history: the connections that select an interface for their address on a
                        \* machine that has not changed, and without a failed call, since they began to
    moves, faults

vars == <<mode, udp, default, up, tun, host, refs, cached, ifs, fresh, pc, pos, iface, snap, guard, settled, moves, faults>>
machine == <<default, up, tun>>
caches == <<cached, ifs, fresh>>
bounds == <<moves, faults>>

Dst(c) == Resolved[c][pos[c]]
Holders(key) == {c \in Conns : guard[c] = key}
Fault == faults < MaxFaults /\ faults' = faults + 1

\* EgressState::new reads the table in auto mode, which may have no default route yet or fail.
Init == /\ mode \in Modes /\ udp \in SUBSET Conns
        /\ default \in Ifaces \cup {NoIface} /\ up = Ifaces /\ tun = FALSE
        /\ host = [d \in Dsts |-> NoIface] /\ refs = [key \in Keys |-> 0]
        /\ cached \in {default, NoIface} /\ (mode # "auto" => cached = NoIface) /\ ifs = {} /\ fresh = FALSE
        /\ pc = [c \in Conns |-> "new"] /\ pos = [c \in Conns |-> 1]
        /\ iface = [c \in Conns |-> NoIface] /\ snap = [c \in Conns |-> NoIface]
        /\ guard = [c \in Conns |-> NoRef] /\ settled = {}
        /\ moves = 0 /\ faults = 0
-----------------------------------------------------------------------------
(* The machine, changed by its user and by an agent. *)

Move == moves < MaxMoves /\ moves' = moves + 1

TunComesOrGoes == /\ Move /\ tun' = ~tun
                  /\ UNCHANGED <<mode, udp, default, up, host, refs, caches, pc, pos, iface, snap, guard, settled, faults>>

DefaultMoves == /\ Move /\ \E i \in (Ifaces \cup {NoIface}) \ {default} : default' = i
                /\ settled' = {}
                /\ UNCHANGED <<mode, udp, up, tun, host, refs, caches, pc, pos, iface, snap, guard, faults>>

AddressComesOrGoes ==
    /\ Move /\ \E i \in Ifaces : up' = (up \ {i}) \cup ({i} \ up)
    /\ settled' = {}
    /\ UNCHANGED <<mode, udp, default, tun, host, refs, caches, pc, pos, iface, snap, guard, faults>>

CacheExpires == /\ fresh /\ fresh' = FALSE
                /\ UNCHANGED <<mode, udp, machine, host, refs, cached, ifs, pc, pos, iface, snap, guard, settled, bounds>>
-----------------------------------------------------------------------------
(* What the machine and the caches answer. *)

\* cached_if_addrs, and refresh_if_addrs when interface i is not found there: the addresses
\* that the answer comes from.
cached_if_addrs(i) == IF fresh /\ i \in ifs THEN ifs ELSE up

\* The cache afterwards.
refresh_if_addrs(i) == IF fresh /\ i \in ifs THEN UNCHANGED <<ifs, fresh>> ELSE ifs' = up /\ fresh' = TRUE

\* Whether get_if_addrs is called, for the default route r of a table: a route without an
\* index is judged by a cache that is fresh, whatever it says.
ReadsAddresses(r) == r # NoIface /\ (~fresh \/ (r \notin ifs /\ r \notin Unindexed))

\* interface_name_for_route: the interface of a route, if it has an address.
auto_interface_for_dst(r) ==
    IF r # NoIface /\ r \in (IF ReadsAddresses(r) THEN up ELSE ifs) THEN r ELSE NoIface

\* The cache afterwards.
AddressesRead(r) == IF ReadsAddresses(r) THEN ifs' = up /\ fresh' = TRUE ELSE UNCHANGED <<ifs, fresh>>

\* What the system takes for an address: the most specific route.
best_route(d) == IF host[d] # NoIface THEN host[d] ELSE IF tun THEN "tun" ELSE default

\* Whether interface i has a route of its own to the address.
best_interface_route(d, i) == i \in {host[d], default}
-----------------------------------------------------------------------------
(* One connection. *)

\* A connection begins to select an interface: the history starts.
Selects(c) == settled' = IF mode = "auto" THEN settled \cup {c} ELSE settled

\* The next address, or the end of the list.
TryNext(c) == IF pos[c] < Len(Resolved[c])
              THEN pos' = [pos EXCEPT ![c] = @ + 1] /\ pc' = [pc EXCEPT ![c] = "select"] /\ Selects(c)
              ELSE pc' = [pc EXCEPT ![c] = "failed"] /\ UNCHANGED pos /\ settled' = settled \ {c}

\* connect_tcp, connect_udp: lookup_host.
connect_with_interface(c) ==
    /\ pc[c] = "new" /\ mode # "default"
    /\ pc' = [pc EXCEPT ![c] = "select"] /\ Selects(c)
    /\ UNCHANGED <<mode, udp, machine, host, refs, caches, pos, iface, snap, guard, bounds>>

\* connect_tcp_default_with_retry retries while the machine has no free address, and
\* connect_udp_default tries the addresses in turn: no state but the outcome.
connect_default(c) ==
    /\ pc[c] = "new" /\ mode = "default"
    /\ \/ pc' = [pc EXCEPT ![c] = "open"] /\ UNCHANGED faults
       \/ Fault /\ pc' = [pc EXCEPT ![c] = "failed"]
    /\ UNCHANGED <<mode, udp, machine, host, refs, caches, pos, iface, snap, guard, settled, moves>>

\* The configured interface.
NamedInterface(c) ==
    /\ pc[c] = "select" /\ mode = "named"
    /\ pc' = [pc EXCEPT ![c] = "sources"] /\ iface' = [iface EXCEPT ![c] = Named]
    /\ UNCHANGED <<mode, udp, machine, host, refs, caches, pos, snap, guard, settled, bounds>>

\* interface_for_dst: the interface of the cached default route.  Without one, the table is
\* read again if the route is missing or its interface has no address; any other error is the
\* answer: a route that names no index, or addresses that cannot be read.
interface_for_dst(c) ==
    /\ pc[c] = "select" /\ mode = "auto"
    /\ LET i == auto_interface_for_dst(cached)
       IN \/ /\ i # NoIface
             /\ pc' = [pc EXCEPT ![c] = "sources"] /\ iface' = [iface EXCEPT ![c] = i]
             /\ settled' = settled \ {c} /\ AddressesRead(cached) /\ UNCHANGED <<pos, faults>>
          \/ /\ i = NoIface /\ cached \notin Unindexed
             /\ pc' = [pc EXCEPT ![c] = "refresh"] /\ iface' = [iface EXCEPT ![c] = NoIface]
             /\ AddressesRead(cached) /\ UNCHANGED <<pos, settled, faults>>
          \/ /\ i = NoIface /\ cached \in Unindexed
             /\ TryNext(c) /\ AddressesRead(cached) /\ UNCHANGED <<iface, faults>>
          \/ /\ ReadsAddresses(cached) /\ Fault
             /\ TryNext(c) /\ UNCHANGED <<iface, ifs, fresh>>
    /\ UNCHANGED <<mode, udp, machine, host, refs, cached, snap, guard, moves>>

\* read_routes and auto_interface_for_dst, outside the lock ...
read_routes(c) ==
    /\ pc[c] = "refresh"
    /\ \/ /\ pc' = [pc EXCEPT ![c] = "store"] /\ snap' = [snap EXCEPT ![c] = default]
          /\ iface' = [iface EXCEPT ![c] = auto_interface_for_dst(default)]
          /\ AddressesRead(default) /\ UNCHANGED <<pos, settled, faults>>
       \/ /\ ReadsAddresses(default) /\ Fault
          /\ pc' = [pc EXCEPT ![c] = "store"] /\ snap' = [snap EXCEPT ![c] = default]
          /\ settled' = settled \ {c} /\ UNCHANGED <<pos, iface, ifs, fresh>>
       \/ Fault /\ TryNext(c) /\ UNCHANGED <<snap, iface, ifs, fresh>>
    /\ UNCHANGED <<mode, udp, machine, host, refs, cached, guard, moves>>

\* Faulty variant: the first to store wins, and the answer is that of the table that is stored.
StoreRoutes_first_wins(c) ==
    LET i == IF cached = NoIface THEN iface[c] ELSE auto_interface_for_dst(cached)
    IN /\ pc[c] = "store" /\ cached' = IF cached = NoIface THEN snap[c] ELSE cached
       /\ iface' = [iface EXCEPT ![c] = i]
       /\ IF i = NoIface THEN TryNext(c)
          ELSE pc' = [pc EXCEPT ![c] = "sources"] /\ settled' = settled \ {c} /\ UNCHANGED pos
       /\ UNCHANGED <<mode, udp, machine, host, refs, ifs, fresh, snap, guard, bounds>>

\* ... and what was read is stored, be it older than what another connection has stored; the
\* answer is that of the own reading.
StoreRoutes(c) ==
    /\ pc[c] = "store" /\ cached' = snap[c]
    /\ IF iface[c] = NoIface THEN TryNext(c)
       ELSE pc' = [pc EXCEPT ![c] = "sources"] /\ settled' = settled \ {c} /\ UNCHANGED pos
    /\ UNCHANGED <<mode, udp, machine, host, refs, ifs, fresh, iface, snap, guard, bounds>>

\* The interface's source addresses, from the cache or read again, if they can be read, and
\* bind_socket_to_interface; a TCP connection goes on to its route.
interface_bind_addrs(c) ==
    /\ pc[c] = "sources"
    /\ \/ /\ refresh_if_addrs(iface[c]) /\ UNCHANGED faults
          /\ IF iface[c] \in cached_if_addrs(iface[c])
             THEN /\ pc' = [pc EXCEPT ![c] = IF c \in udp THEN "connecting" ELSE "install"]
                  /\ UNCHANGED <<pos, settled>>
             ELSE TryNext(c)
       \/ ~(fresh /\ iface[c] \in ifs) /\ Fault /\ TryNext(c) /\ UNCHANGED <<ifs, fresh>>
    /\ UNCHANGED <<mode, udp, machine, host, refs, cached, iface, snap, guard, moves>>

\* TargetRouteGuard::install lists the table before it takes the lock: nothing to do when
\* the address leaves by the interface already, and an error when it cannot.
install(c) ==
    /\ pc[c] = "install"
    /\ IF best_route(Dst(c)) = iface[c] \/ best_interface_route(Dst(c), iface[c])
       THEN pc' = [pc EXCEPT ![c] = IF best_route(Dst(c)) = iface[c] THEN "connecting" ELSE "lock"]
            /\ UNCHANGED <<pos, settled>>
       ELSE TryNext(c)
    /\ UNCHANGED <<mode, udp, machine, host, refs, caches, iface, snap, guard, bounds>>

\* Under the lock: one more reference, or the first one with its route; a route that exists
\* is nobody's, and a failure ends this address.
AddRoute(c) ==
    LET key == <<Dst(c), iface[c]>>
    IN /\ pc[c] = "lock"
       /\ \/ /\ refs[key] > 0 \/ host[Dst(c)] = NoIface
             /\ refs' = [refs EXCEPT ![key] = @ + 1] /\ guard' = [guard EXCEPT ![c] = key]
             /\ host' = IF refs[key] > 0 THEN host ELSE [host EXCEPT ![Dst(c)] = iface[c]]
             /\ pc' = [pc EXCEPT ![c] = "connecting"] /\ UNCHANGED <<pos, settled, faults>>
          \/ /\ refs[key] = 0 /\ host[Dst(c)] # NoIface
             /\ pc' = [pc EXCEPT ![c] = "connecting"] /\ UNCHANGED <<refs, guard, host, pos, settled, faults>>
          \/ refs[key] = 0 /\ Fault /\ TryNext(c) /\ UNCHANGED <<refs, guard, host>>
       /\ UNCHANGED <<mode, udp, machine, caches, iface, snap, moves>>

\* Faulty variant: the last reference leaves the route behind.
DropGuard_keeps_route(c) ==
    /\ guard' = [guard EXCEPT ![c] = NoRef]
    /\ IF guard[c] = NoRef THEN UNCHANGED <<refs, host, faults>>
       ELSE refs' = [refs EXCEPT ![guard[c]] = @ - 1] /\ UNCHANGED <<host, faults>>

\* TargetRouteGuard::drop: the last reference deletes the route, if it can.
DropGuard(c) ==
    /\ guard' = [guard EXCEPT ![c] = NoRef]
    /\ IF guard[c] = NoRef THEN UNCHANGED <<refs, host, faults>>
       ELSE /\ refs' = [refs EXCEPT ![guard[c]] = @ - 1]
            /\ IF refs[guard[c]] > 1 THEN UNCHANGED <<host, faults>>
               ELSE \/ host' = [host EXCEPT ![guard[c][1]] = NoIface] /\ UNCHANGED faults
                    \/ Fault /\ UNCHANGED host

\* connect_tcp_addr, connect_udp_addr: bound and connected ...
Connected(c) ==
    /\ pc[c] = "connecting" /\ pc' = [pc EXCEPT ![c] = "open"]
    /\ UNCHANGED <<mode, udp, machine, host, refs, caches, pos, iface, snap, guard, settled, bounds>>

\* ... or not: the guard is dropped with the attempt.
ConnectFails(c) ==
    /\ pc[c] = "connecting" /\ TryNext(c) /\ DropGuard(c)
    /\ UNCHANGED <<mode, udp, machine, caches, iface, snap, moves>>

\* The connect timeout and the end of the request drop the future or the EgressTcpStream.
DropStream(c) ==
    /\ pc[c] \in {"connecting", "open"} /\ pc' = [pc EXCEPT ![c] = "closed"] /\ DropGuard(c)
    /\ UNCHANGED <<mode, udp, machine, caches, pos, iface, snap, settled, moves>>

Next == \/ TunComesOrGoes \/ DefaultMoves \/ AddressComesOrGoes \/ CacheExpires
        \/ \E c \in Conns : \/ connect_with_interface(c) \/ connect_default(c) \/ NamedInterface(c) \/ interface_for_dst(c)
                            \/ read_routes(c) \/ StoreRoutes(c) \/ interface_bind_addrs(c)
                            \/ install(c) \/ AddRoute(c)
                            \/ Connected(c) \/ ConnectFails(c) \/ DropStream(c)

Spec == Init /\ [][Next]_vars
-----------------------------------------------------------------------------
TypeOK == /\ mode \in Modes /\ udp \subseteq Conns /\ default \in Ifaces \cup {NoIface} /\ up \subseteq Ifaces /\ tun \in BOOLEAN
          /\ host \in [Dsts -> Ifaces \cup {NoIface}] /\ refs \in [Keys -> 0..Cardinality(Conns)]
          /\ cached \in Ifaces \cup {NoIface} /\ ifs \subseteq Ifaces /\ fresh \in BOOLEAN
          /\ pc \in [Conns -> {"new", "select", "refresh", "store", "sources", "install", "lock", "connecting", "open", "failed", "closed"}]
          /\ guard \in [Conns -> Keys \cup {NoRef}]

\* Whatever order connections to one address list the table, take the lock, fail and end in,
\* the reference counts are those of the guards that are held, and a counted route is there.
RefsMatchGuards == \A key \in Keys : /\ refs[key] = Cardinality(Holders(key))
                                     /\ refs[key] > 0 => host[key[1]] = key[2]

\* A route of ours stays behind only if its deletion failed.
NoRouteIsLeft == \A d \in Dsts : host[d] # NoIface /\ refs[<<d, host[d]>>] = 0 => faults > 0

\* A proxy that was started before the network, or whose network has moved, finds its way
\* out again, however many connections read and store the table meanwhile and in whatever
\* order: on a machine that stays as it is while a connection selects the interface for an
\* address, and without failed calls, the address is given up for want of an interface only
\* if the default route has no usable one, or if the route that was looked at has no index.
AutoFindsTheWayOut ==
    [][\A c \in settled :
          /\ pc[c] \in {"select", "refresh", "store"}
          /\ pc'[c] = "failed" \/ pos'[c] # pos[c]
          /\ faults' = faults
          => \/ default = NoIface \/ default \notin up
             \/ pc[c] = "select" /\ cached \in Unindexed
             \/ pc[c] = "store" /\ snap[c] \in Unindexed]_vars

\* Only the last connection to an address removes its route
\* (the comment on Drop for TargetRouteGuard).
LastConnectionRemovesRoute ==
    [][\A c \in Conns : host'[Dst(c)] = NoIface /\ host[Dst(c)] = iface[c] /\ iface[c] # NoIface /\ c \notin udp =>
            ~(pc[c] = "open" /\ pc'[c] = "open")]_vars
=============================================================================
