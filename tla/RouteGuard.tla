----------------------------- MODULE RouteGuard -----------------------------
(***************************************************************************)
(* The routes of TUN mode (desktop-agent-be/src/tun_handler/route/):       *)
(* RouteGuard::install adds bypass routes for the proxies and the local    *)
(* networks and then the split-default routes into the TUN, RouteLease     *)
(* keeps what was added in a state file, Drop removes it again, and the    *)
(* next start cleans up after a process that did not get to its Drop.      *)
(*                                                                         *)
(* A route is [dest, via]; adding one that exists fails.  The process may  *)
(* die between any two steps.                                              *)
(***************************************************************************)
EXTENDS Integers, FiniteSets

CONSTANTS ProxyIps, DnsServers,   \* may overlap
          Gateways,               \* default gateways
          LocalNets, Halves,      \* LOCAL_NETWORK_BYPASS_SPECS; the two halves of the default
          UserRoutes,             \* routes that the system has for itself
          MACOS,                  \* DNS is captured by PF rules, not by host routes
          WINDOWS,                \* a file is removed before it is replaced
          MaxCrashes, MaxFaults,  \* bounds: crashes; failed deletes, writes, commands
          DELETES_FAIL,           \* whether deletes are among the faults
          NoFile, NoRoute

Phys(dests) == [dest : dests, via : {"phys"}]
Tun(dests) == [dest : dests, via : {"tun"}]
Routes == Phys(ProxyIps \cup LocalNets) \cup Tun(DnsServers \cup Halves)

\* The routes of the system's own do not lead into the TUN, which is not there before;
\* a half of the address space or a local network is not the address of a host.
RouteConstants == /\ IsFiniteSet(Routes) /\ UserRoutes \subseteq Phys(ProxyIps \cup LocalNets)
                  /\ Halves \cap (ProxyIps \cup DnsServers) = {} /\ LocalNets \cap ProxyIps = {}
                  /\ {MACOS, WINDOWS, DELETES_FAIL} \subseteq BOOLEAN /\ ~(MACOS /\ WINDOWS)
                  /\ {MaxCrashes, MaxFaults} \subseteq Nat
                  /\ NoRoute \notin Routes /\ \A s \in SUBSET Routes : NoFile # s

VARIABLES
    phase,        \* "down", "cleaning", "proxy", "dns", "local", "split", "running", "removing"
    retried,      \* the state file has been worked off once more by install
    table,        \* the system's routing table: route -> "user", "agent" or "none"
    file,         \* routes in the state file, or NoFile
    lease,        \* lease.state.routes
    todo,         \* routes still to be added or deleted in this phase
    adding,       \* added and not yet recorded
    cleanup_ok,
    failed,       \* routes whose add reported an error this time
    pf,           \* macOS packet filter: a subset of "enabled" (by the agent), "loaded" (its anchor)
    pf_dns_guard, \* "none", "pending" (enabled, nothing loaded yet) or "installed"
    stuck,        \* what of pf a crash, a failed pfctl or an unread token has left behind
    wiped,        \* a crash left no state file behind, although routes had been recorded
    crashes, lost, faults    \* bounds; lost counts failed writes of the file

vars == <<phase, retried, table, file, lease, todo, adding, cleanup_ok, failed, pf, pf_dns_guard, stuck, wiped, crashes, lost, faults>>
bounds == <<crashes, lost, faults>>

Init == /\ phase = "down" /\ retried = FALSE /\ file = NoFile /\ lease = {}
        /\ table = [r \in Routes |-> IF r \in UserRoutes THEN "user" ELSE "none"]
        /\ todo = {} /\ adding = NoRoute /\ cleanup_ok = TRUE /\ failed = {}
        /\ pf = {} /\ pf_dns_guard = "none" /\ stuck = {} /\ wiped = FALSE /\ crashes = 0 /\ lost = 0 /\ faults = 0

Rank(r) == CASE r \in Phys(ProxyIps) -> 1 [] r \in Tun(DnsServers) -> 2
             [] r \in Phys(LocalNets) -> 3 [] OTHER -> 4
Recorded == IF file = NoFile THEN {} ELSE file
Fault == faults < MaxFaults /\ faults' = faults + 1
-----------------------------------------------------------------------------
(* The routes wanted, one kind after the other. *)

\* install_dns_capture_routes: no proxy's address, and a gateway's on Windows only; macOS
\* captures by PF rules.
dns_capture_routes ==
    IF MACOS THEN {} ELSE Tun(DnsServers \ (ProxyIps \cup IF WINDOWS THEN {} ELSE Gateways))

proxy_bypass_routes == Phys(ProxyIps)
local_network_bypass_routes == Phys(LocalNets)
split_routes == Tun(Halves)

\* Faulty variant: the default is redirected first.
Wanted_split_first(p) == CASE p = "proxy" -> split_routes [] p = "dns" -> dns_capture_routes
                           [] p = "local" -> local_network_bypass_routes [] p = "split" -> proxy_bypass_routes

Wanted(p) == CASE p = "proxy" -> proxy_bypass_routes [] p = "dns" -> dns_capture_routes
               [] p = "local" -> local_network_bypass_routes [] p = "split" -> split_routes

-----------------------------------------------------------------------------
(* Deleting: in the reverse order of adding. *)

NextToDelete == {r \in todo : \A s \in todo : Rank(r) >= Rank(s)}

\* The system's tool, killed after 3 s: whether the route is gone when the deletion is
\* reported as failed, because the table could not be listed afterwards.
delete_route_with_platform_tool == BOOLEAN

\* By the API, by what the table lists and by the system's tool.  It reports a failure
\* when a match is left or the table cannot be listed.
delete_recorded_route ==
    /\ phase \in {"cleaning", "removing"}
    /\ \E r \in NextToDelete :
        /\ todo' = todo \ {r}
        /\ \/ /\ table' = [table EXCEPT ![r] = "none"] /\ UNCHANGED <<cleanup_ok, faults>>
           \/ /\ DELETES_FAIL /\ Fault /\ cleanup_ok' = FALSE
              /\ \E gone \in delete_route_with_platform_tool : table' = IF gone THEN [table EXCEPT ![r] = "none"] ELSE table
    /\ UNCHANGED <<phase, retried, file, lease, adding, failed, pf, pf_dns_guard, stuck, wiped, crashes, lost>>

\* run_tun_mode: cleanup_stale_routes, before the device is made.
cleanup_stale_routes ==
    /\ phase = "down" /\ phase' = "cleaning" /\ retried' = FALSE
    /\ todo' = Recorded /\ cleanup_ok' = TRUE /\ lease' = {} /\ failed' = {}
    /\ UNCHANGED <<table, file, adding, pf, pf_dns_guard, stuck, wiped, bounds>>

cleanup_existing_tun_split_routes == [r \in Routes |-> IF r \in split_routes THEN "none" ELSE table[r]]

\* RouteGuard::install works a file that was kept off again and removes split routes left
\* on its own interface index, if any are there.
CleanedUp ==
    /\ phase = "cleaning" /\ todo = {}
    /\ file' = IF cleanup_ok THEN NoFile ELSE file
    /\ retried' = TRUE /\ cleanup_ok' = TRUE
    /\ IF retried \/ file' = NoFile
       THEN /\ phase' = "proxy" /\ todo' = Wanted("proxy")
            /\ \/ table' = cleanup_existing_tun_split_routes
               \/ UNCHANGED table
       ELSE phase' = phase /\ todo' = file /\ UNCHANGED table
    /\ UNCHANGED <<lease, adding, failed, pf, pf_dns_guard, stuck, wiped, bounds>>

\* RouteManager::new fails: TUN mode goes on without its routes.
InstallFails == /\ phase = "proxy" /\ todo = Wanted("proxy") /\ lease = {} /\ adding = NoRoute /\ failed = {}
                /\ Fault /\ phase' = "running" /\ todo' = {}
                /\ UNCHANGED <<retried, table, file, lease, adding, cleanup_ok, failed, pf, pf_dns_guard, stuck, wiped, crashes, lost>>
-----------------------------------------------------------------------------
(* Adding, one kind of route after the other. *)

Following(p) == CASE p = "proxy" -> "dns" [] p = "dns" -> "local" [] p = "local" -> "split"
                  [] p = "split" -> "running"
Adding == phase \in {"proxy", "dns", "local", "split"}

\* Faulty variant: a route that exists already is recorded too.
add_records_existing ==
    /\ Adding /\ adding = NoRoute
    /\ \E r \in todo : /\ todo' = todo \ {r} /\ adding' = r
                      /\ table' = [table EXCEPT ![r] = IF @ = "none" THEN "agent" ELSE @]
    /\ UNCHANGED <<phase, retried, file, lease, cleanup_ok, failed, pf, pf_dns_guard, stuck, wiped, bounds>>

\* mgr.add.
add == /\ Adding /\ adding = NoRoute
       /\ \E r \in todo :
           /\ todo' = todo \ {r}
           /\ \/ /\ table[r] = "none" /\ table' = [table EXCEPT ![r] = "agent"] /\ adding' = r
                 /\ UNCHANGED <<failed, faults>>
              \/ table[r] # "none" /\ UNCHANGED <<table, adding, failed, faults>>
              \/ Fault /\ failed' = failed \cup {r} /\ UNCHANGED <<table, adding>>
       /\ UNCHANGED <<phase, retried, file, lease, cleanup_ok, pf, pf_dns_guard, stuck, wiped, crashes, lost>>

\* persist on Windows: the old file goes before the new one, already written under another
\* name, takes its place.
remove_file == /\ WINDOWS /\ adding # NoRoute /\ file # NoFile /\ file' = NoFile
               /\ UNCHANGED <<phase, retried, table, lease, todo, adding, cleanup_ok, failed, pf, pf_dns_guard, stuck, wiped, bounds>>

\* record_installed: persist replaces the file by the lease of this process, in one step
\* where rename does; a failure, before or after remove_file, is logged.
record_installed ==
    /\ adding # NoRoute /\ adding' = NoRoute /\ lease' = lease \cup {adding}
    /\ \/ (WINDOWS => file = NoFile) /\ file' = lease' /\ UNCHANGED <<lost, faults>>
       \/ Fault /\ lost' = lost + 1 /\ UNCHANGED file
    /\ UNCHANGED <<phase, retried, table, todo, cleanup_ok, failed, pf, pf_dns_guard, stuck, wiped, crashes>>

KindDone == /\ Adding /\ todo = {} /\ adding = NoRoute /\ phase' = Following(phase)
            /\ pf_dns_guard # "pending"
            /\ todo' = IF phase' = "running" THEN {} ELSE Wanted(phase')
            /\ UNCHANGED <<retried, table, file, lease, adding, cleanup_ok, failed, pf, pf_dns_guard, stuck, wiped, bounds>>
-----------------------------------------------------------------------------
(* The macOS packet filter.  It stays enabled as long as somebody holds a  *)
(* token for it; the results of flush and release are ignored.             *)

WithoutFilter == phase' = "local" /\ todo' = Wanted("local")

\* pfctl -E: its output may name no token, and it is killed after 3 s, done or not.
macos_pf_enable ==
    /\ MACOS /\ phase = "dns" /\ pf_dns_guard = "none"
    /\ \/ /\ pf' = pf \cup {"enabled"} /\ pf_dns_guard' = "pending" /\ UNCHANGED <<phase, todo>>
          /\ \/ UNCHANGED <<stuck, faults>>
             \/ Fault /\ stuck' = stuck \cup {"enabled"}
       \/ /\ Fault /\ WithoutFilter /\ UNCHANGED pf_dns_guard
          /\ \E done \in SUBSET {"enabled"} : pf' = pf \cup done /\ stuck' = stuck \cup done
    /\ UNCHANGED <<retried, table, file, lease, adding, cleanup_ok, failed, wiped, crashes, lost>>

\* macos_pf_flush_anchor ("loaded") and macos_pf_release_token ("enabled"): done are those
\* of the commands asked for that take effect.  A token nobody knows keeps the filter enabled.
FlushAndRelease(asked) ==
    \E done \in SUBSET asked :
        /\ (done = asked /\ UNCHANGED faults) \/ (done # asked /\ Fault)
        /\ pf' = pf \ (done \ (stuck \cap {"enabled"}))
        /\ stuck' = (stuck \cup (pf \ done)) \ (done \cap {"loaded"})

\* Faulty variant: the token is kept when the rules cannot be loaded.
MacosPfLoad_keeps_token ==
    /\ phase = "dns" /\ pf_dns_guard = "pending"
    /\ \/ pf' = pf \cup {"loaded"} /\ pf_dns_guard' = "installed" /\ UNCHANGED <<phase, todo, stuck>>
       \/ WithoutFilter /\ pf_dns_guard' = "none" /\ UNCHANGED <<pf, stuck>>
    /\ UNCHANGED <<retried, table, file, lease, adding, cleanup_ok, failed, wiped, bounds>>

\* MacosPfDnsGuard::install: rules that pfctl does not take are flushed and the token is
\* released; without a rules file, or without pfctl, it is only released.
MacosPfLoad ==
    /\ phase = "dns" /\ pf_dns_guard = "pending"
    /\ \/ pf' = pf \cup {"loaded"} /\ pf_dns_guard' = "installed" /\ UNCHANGED <<phase, todo, stuck, faults>>
       \/ /\ WithoutFilter /\ pf_dns_guard' = "none"
          /\ FlushAndRelease({"enabled", "loaded"}) \/ FlushAndRelease({"enabled"})
    /\ UNCHANGED <<retried, table, file, lease, adding, cleanup_ok, failed, wiped, crashes, lost>>
-----------------------------------------------------------------------------
\* Drop for RouteGuard begins with the filter.
drop == /\ phase = "running" /\ phase' = "removing"
        /\ pf_dns_guard' = "none"
        /\ IF pf_dns_guard = "installed" THEN FlushAndRelease({"enabled", "loaded"}) ELSE UNCHANGED <<pf, stuck, faults>>
        /\ todo' = lease /\ cleanup_ok' = TRUE
        /\ UNCHANGED <<retried, table, file, lease, adding, failed, wiped, crashes, lost>>

\* lease.clear, or the file is kept for the next start.
dropped == /\ phase = "removing" /\ todo = {} /\ phase' = "down"
           /\ file' = IF cleanup_ok THEN NoFile ELSE file
           /\ lease' = {}
           /\ UNCHANGED <<retried, table, todo, adding, cleanup_ok, failed, pf, pf_dns_guard, stuck, wiped, bounds>>

Crash == /\ phase # "down" /\ crashes < MaxCrashes /\ crashes' = crashes + 1
         /\ phase' = "down" /\ todo' = {} /\ adding' = NoRoute /\ lease' = {}
         /\ stuck' = stuck \cup pf /\ pf_dns_guard' = "none"
         /\ wiped' = (wiped \/ (WINDOWS /\ file = NoFile /\ lease # {}))
         /\ UNCHANGED <<retried, table, file, cleanup_ok, failed, pf, lost, faults>>

\* The interface of a process that is gone goes too, with its routes.
TunGone == /\ phase = "down" /\ \E r \in Tun(DnsServers \cup Halves) : table[r] = "agent"
           /\ table' = [r \in Routes |-> IF r.via = "tun" THEN "none" ELSE table[r]]
           /\ UNCHANGED <<phase, retried, file, lease, todo, adding, cleanup_ok, failed, pf, pf_dns_guard, stuck, wiped, bounds>>

Next == \/ cleanup_stale_routes \/ delete_recorded_route \/ CleanedUp \/ InstallFails
        \/ add \/ remove_file \/ record_installed \/ KindDone \/ macos_pf_enable \/ MacosPfLoad
        \/ drop \/ dropped \/ Crash \/ TunGone

Spec == Init /\ [][Next]_vars
-----------------------------------------------------------------------------
\* The most specific route to a proxy: a host route, else the redirected default, else
\* the system's own default.
RouteTo(p) == IF table[[dest |-> p, via |-> "phys"]] # "none" THEN "phys"
              ELSE IF \E r \in Tun(Halves) \cup (Tun({p}) \cap Routes) : table[r] # "none"
              THEN "tun" ELSE "phys"

\* Faults aside, the agent's own connections never enter the TUN while it is set up, in
\* use or taken down: there the bypass exists before and after the redirection.
ProxyStaysReachable ==
    (crashes = 0 /\ (DELETES_FAIL => faults = 0)) =>
        \A p \in ProxyIps : [dest |-> p, via |-> "phys"] \notin failed => RouteTo(p) = "phys"

\* The proxy's address is never captured as if it were just a DNS server.
ProxyIsNotCaptured == \A r \in Tun(ProxyIps \cap DnsServers) : table[r] = "none"

\* Neither Drop nor the cleanup after a crash removes a route that was there before.
UserRoutesKept == \A r \in UserRoutes : table[r] = "user"

\* A crash costs at most the route that was being added, and a failed write of the state
\* file at most the routes it was about: everything else of the agent's is in the file or in
\* memory and will be removed.  Not so on Windows when the process dies between remove_file
\* and rename, or after a rename that failed: every record of the run is lost with it.
LeakBound == ~wiped => Cardinality({r \in Routes : table[r] = "agent"} \ (Recorded \cup lease))
                          <= crashes + lost + (IF adding # NoRoute THEN 1 ELSE 0)

\* Once the guard is gone, nothing of it is left in the packet filter but what a crash, a
\* pfctl that failed or was killed, or an output without the token has left there.
FilterIsReleased == phase = "down" => pf \subseteq stuck

\* All of this together.  A route whose deletion failed is out of LeakBound: record_installed
\* replaces the file that was kept for it.
RoutesAreRight == /\ ProxyStaysReachable /\ ProxyIsNotCaptured /\ UserRoutesKept
                  /\ ~DELETES_FAIL => LeakBound
                  /\ FilterIsReleased
=============================================================================
