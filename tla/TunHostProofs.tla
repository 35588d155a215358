--------------------------- MODULE TunHostProofs ---------------------------
(***************************************************************************)
(* Proofs about what TUN mode changes in the operating system.  Module     *)
(* RouteGuard: for any proxies, networks, faults and crashes the system's  *)
(* own routes stay, the agent's routes are on record, the connections to   *)
(* the proxies stay out of the TUN and the packet filter is released, as   *)
(* far as the state file and pfctl allow.                                  *)
(* Module TunHelper: the helper's routes follow the agent it serves.       *)
(***************************************************************************)
EXTENDS MCAgent, FiniteSetTheorems, TLAPS

AddPhases == {"proxy", "dns", "local", "split"}
OwnRoutes == Routes!Routes \ UserRoutes
Agents == {r \in Routes!Routes : table[r] = "agent"}
Bypass(p) == [dest |-> p, via |-> "phys"]

RoutesTyped ==
    /\ routes_phase \in AddPhases \cup {"down", "cleaning", "running", "removing"}
    /\ table \in [Routes!Routes -> {"user", "agent", "none"}] /\ \A r \in Routes!Routes \ UserRoutes : table[r] # "user"
    /\ routes_file = NoFile \/ routes_file \in SUBSET Routes!Routes
    /\ lease \in SUBSET Routes!Routes /\ routes_todo \in SUBSET Routes!Routes /\ adding \in Routes!Routes \cup {NoRoute}
    /\ routes_crashes \in Nat /\ lost \in Nat /\ routes_faults \in Nat
    /\ {cleanup_ok, wiped} \subseteq BOOLEAN

\* What is recorded and what is to be deleted is the agent's.
RecordsAreOwn == /\ Routes!Recorded \subseteq OwnRoutes /\ lease \subseteq OwnRoutes
                 /\ routes_phase \in {"cleaning", "removing"} => routes_todo \subseteq OwnRoutes

\* Routes are added in their phase only, after the cleanup and onto an empty place.
AddingIsOrderly ==
    /\ routes_phase \in AddPhases => routes_todo \subseteq Routes!Wanted(routes_phase)
    /\ routes_phase \in {"down", "cleaning"} => lease = {}
    /\ routes_phase \in AddPhases \cup {"running"} => lease \subseteq Agents
    /\ adding # NoRoute => routes_phase \in AddPhases /\ adding \in Agents \ lease

\* What will be removed: the recorded routes, or those in memory while Windows has no file.
Safe == IF WINDOWS /\ routes_file = NoFile THEN lease ELSE Routes!Recorded

\* With deletions that work, a file is a part of the lease or is being worked off; what
\* is neither safe nor accounted for by a crash or a failed write is being added.
FileIsTrue ==
    /\ cleanup_ok
    /\ routes_phase \in AddPhases \cup {"running", "removing"} => Routes!Recorded \subseteq lease
    /\ routes_phase = "cleaning" => Agents \cap Routes!Recorded \subseteq routes_todo
    /\ routes_phase = "removing" => Agents \cap lease \subseteq routes_todo
    /\ ~wiped => Cardinality(Agents \ Safe) <= routes_crashes + lost + (IF adding # NoRoute THEN 1 ELSE 0)

\* Neither a crash nor a failed deletion so far: every route of the agent is in its lease,
\* and the bypass routes are there before the halves and after them.
Undisturbed == routes_crashes = 0 /\ (DELETES_FAIL => routes_faults = 0)
Redirected == \E r \in Routes!Tun(Halves) : table[r] # "none"
Bypassed == \A p \in ProxyIps : Bypass(p) \in failed \/ table[Bypass(p)] # "none"
BypassFirst ==
    /\ routes_phase \in {"down", "cleaning"} => Agents = {}
    /\ routes_phase \in AddPhases \cup {"running"} => Agents \subseteq lease \cup {adding}
    /\ routes_phase = "removing" => Agents \subseteq routes_todo
    /\ routes_phase \in {"proxy", "dns", "local"} => ~Redirected
    /\ routes_phase = "proxy" => \A p \in ProxyIps : Bypass(p) \in failed \cup routes_todo \/ table[Bypass(p)] # "none"
    /\ routes_phase \in {"dns", "local", "split"} => Bypassed
    /\ routes_phase \in {"running", "removing"} => (Redirected => Bypassed)

\* What a guard that is alive does not answer for is stuck.
FilterHasOwner ==
    /\ pf_dns_guard \in {"none", "pending", "installed"} /\ pf \subseteq {"enabled", "loaded"}
    /\ pf_dns_guard = "none" => pf \subseteq stuck
    /\ pf_dns_guard = "pending" => routes_phase = "dns"
    /\ pf_dns_guard = "installed" => routes_phase \in {"dns", "local", "split", "running"}

\* The inductive invariant.
RoutesInv == /\ RoutesTyped /\ RecordsAreOwn /\ AddingIsOrderly
             /\ ~DELETES_FAIL => FileIsTrue
             /\ Undisturbed => BypassFirst
             /\ FilterHasOwner /\ Routes!UserRoutesKept /\ Routes!ProxyIsNotCaptured
-----------------------------------------------------------------------------
\* The kinds of routes, told apart by device and destination.
LEMMA KindsOfRoutes ==
    ASSUME Routes!RouteConstants
    PROVE  /\ \A p \in AddPhases : Routes!Wanted(p) \subseteq Routes!Routes
           /\ \A p \in ProxyIps : Bypass(p) \in Routes!Wanted("proxy") /\ Bypass(p) \in Routes!Routes /\ Routes!Rank(Bypass(p)) = 1
           /\ \A r \in Routes!Tun(Halves) : r \in Routes!Routes /\ r \notin UserRoutes /\ Routes!Rank(r) = 4 /\ r.via = "tun"
           /\ \A p \in {"proxy", "dns", "local"} : Routes!Wanted(p) \cap Routes!Tun(Halves) = {}
           /\ Routes!Wanted("split") = Routes!Tun(Halves) /\ Routes!split_routes = Routes!Tun(Halves)
           /\ \A r \in UserRoutes : r \in Routes!Routes /\ r.via = "phys"
           /\ \A r \in Routes!Tun(ProxyIps \cap DnsServers) : r \in Routes!Routes /\ r \notin UserRoutes /\ r.via = "tun"
           /\ \A p \in AddPhases : Routes!Wanted(p) \cap Routes!Tun(ProxyIps \cap DnsServers) = {}
<1>1. /\ Routes!Wanted("proxy") = Routes!Phys(ProxyIps) /\ Routes!Wanted("dns") = Routes!dns_capture_routes
      /\ Routes!Wanted("local") = Routes!Phys(LocalNets) /\ Routes!Wanted("split") = Routes!Tun(Halves) /\ Routes!split_routes = Routes!Tun(Halves)
  BY DEF Routes!Wanted, Routes!proxy_bypass_routes, Routes!local_network_bypass_routes, Routes!split_routes
<1>2. Routes!dns_capture_routes \subseteq Routes!Tun(DnsServers \ ProxyIps)
  BY DEF Routes!dns_capture_routes, Routes!Tun
<1>3. \A S, T : Routes!Phys(S) \cap Routes!Tun(T) = {} /\ \A r \in Routes!Tun(T) : r.via = "tun" /\ r.dest \in T
  BY DEF Routes!Phys, Routes!Tun
<1>4. \A S, r : r \in Routes!Phys(S) => r.via = "phys" /\ r.dest \in S
  BY DEF Routes!Phys
<1>5. \A p \in AddPhases : Routes!Wanted(p) \subseteq Routes!Routes
  <2>1. Routes!Phys(ProxyIps) \subseteq Routes!Routes /\ Routes!Phys(LocalNets) \subseteq Routes!Routes
    BY DEF Routes!Routes, Routes!Phys
  <2>2. Routes!Tun(Halves) \subseteq Routes!Routes /\ Routes!Tun(DnsServers \ ProxyIps) \subseteq Routes!Routes
    BY DEF Routes!Routes, Routes!Tun
  <2> QED
    BY <1>1, <1>2, <2>1, <2>2 DEF AddPhases
<1>6. \A p \in ProxyIps : Bypass(p) \in Routes!Phys(ProxyIps) /\ Bypass(p) \in Routes!Routes /\ Routes!Rank(Bypass(p)) = 1
  <2>1. Routes!Phys(ProxyIps) \subseteq Routes!Routes
    BY DEF Routes!Routes, Routes!Phys
  <2>2. \A p \in ProxyIps : Bypass(p) \in Routes!Phys(ProxyIps)
    BY DEF Bypass, Routes!Phys
  <2>3. \A r \in Routes!Phys(ProxyIps) : r \notin Routes!Tun(DnsServers) /\ r \notin Routes!Phys(LocalNets)
    BY <1>3, <1>4 DEF Routes!RouteConstants
  <2>4. \A r \in Routes!Phys(ProxyIps) : Routes!Rank(r) = 1
    BY <2>3 DEF Routes!Rank
  <2> QED
    BY <2>1, <2>2, <2>4
<1>7. \A r \in Routes!Tun(Halves) : /\ r \in Routes!Routes /\ r \notin UserRoutes /\ r.via = "tun"
                             /\ r \notin Routes!Phys(ProxyIps) /\ r \notin Routes!Phys(LocalNets) /\ r \notin Routes!Tun(DnsServers)
  BY <1>3, <1>4 DEF Routes!Routes, Routes!RouteConstants, Routes!Phys, Routes!Tun
<1>8. \A r \in Routes!Tun(Halves) : Routes!Rank(r) = 4
  BY <1>7 DEF Routes!Rank
<1>9. \A r \in UserRoutes : r \in Routes!Routes /\ r.via = "phys"
  BY DEF Routes!RouteConstants, Routes!Routes, Routes!Phys
<1>10. \A r \in Routes!Tun(ProxyIps \cap DnsServers) : /\ r \in Routes!Routes /\ r \notin UserRoutes /\ r.via = "tun"
                                                /\ r.dest \in ProxyIps /\ r.dest \notin Halves
  BY <1>3, <1>9 DEF Routes!Routes, Routes!RouteConstants, Routes!Tun
<1>11. \A p \in AddPhases : Routes!Wanted(p) \cap Routes!Tun(ProxyIps \cap DnsServers) = {}
  <2> DEFINE Both == Routes!Tun(ProxyIps \cap DnsServers)
  <2>1. Routes!Phys(ProxyIps) \cap Both = {} /\ Routes!Phys(LocalNets) \cap Both = {}
    BY <1>3
  <2>2. Routes!dns_capture_routes \cap Both = {}
    BY <1>2, <1>3, <1>10
  <2>3. Routes!Tun(Halves) \cap Both = {}
    BY <1>3, <1>10
  <2> HIDE DEF Both
  <2>4. \A p \in AddPhases : Routes!Wanted(p) \cap Both = {}
    BY <1>1, <2>1, <2>2, <2>3 DEF AddPhases
  <2> QED
    BY <2>4 DEF Both
<1>12. \A p \in {"proxy", "dns", "local"} : Routes!Wanted(p) \cap Routes!Tun(Halves) = {}
  BY <1>1, <1>2, <1>3, <1>7 DEF Routes!Tun, Routes!RouteConstants
<1> QED
  BY <1>1, <1>5, <1>6, <1>7, <1>8, <1>9, <1>10, <1>11, <1>12

\* Finiteness and counting as the instance of the route model names them.
LEMMA RoutesAreFinite == ASSUME Routes!RouteConstants PROVE IsFiniteSet(Routes!Routes)
BY Zenon DEF IsFiniteSet, Routes!IsFiniteSet, Routes!RouteConstants

LEMMA SameRouteCount == \A S : Routes!Cardinality(S) = Cardinality(S)
BY Zenon DEF Cardinality, Routes!Cardinality

\* Counting routes.
LEMMA FewerRoutes ==
    ASSUME Routes!RouteConstants, NEW S, NEW T, S \subseteq T, T \subseteq Routes!Routes
    PROVE  IsFiniteSet(T) /\ Cardinality(S) \in Nat /\ Cardinality(T) \in Nat /\ Cardinality(S) <= Cardinality(T)
<1>1. IsFiniteSet(T)
  BY RoutesAreFinite, FS_Subset
<1> QED
  BY <1>1, FS_Subset, FS_CardinalityType

LEMMA RoutesInit == ASSUME Routes!RouteConstants, Routes!Init PROVE RoutesInv
<1>1. /\ routes_phase = "down" /\ routes_file = NoFile /\ lease = {} /\ routes_todo = {} /\ adding = NoRoute /\ cleanup_ok = TRUE
      /\ pf = {} /\ pf_dns_guard = "none" /\ stuck = {} /\ wiped = FALSE /\ routes_crashes = 0 /\ lost = 0 /\ routes_faults = 0
      /\ table = [r \in Routes!Routes |-> IF r \in UserRoutes THEN "user" ELSE "none"] /\ Agents = {}
  BY DEF Routes!Init, Agents
<1>2. RoutesTyped
  BY <1>1 DEF RoutesTyped
<1>3. RecordsAreOwn /\ AddingIsOrderly
  BY <1>1 DEF RecordsAreOwn, AddingIsOrderly, Routes!Recorded, AddPhases
<1>4. FileIsTrue
  <2>1. Agents \ Safe = {}
    BY <1>1
  <2> QED
    BY <1>1, <2>1, FS_EmptySet DEF FileIsTrue, AddPhases
<1>5. BypassFirst
  BY <1>1 DEF BypassFirst, AddPhases
<1>6. FilterHasOwner
  BY <1>1 DEF FilterHasOwner
<1>7. Routes!UserRoutesKept /\ Routes!ProxyIsNotCaptured
  BY <1>1, KindsOfRoutes DEF Routes!UserRoutesKept, Routes!ProxyIsNotCaptured
<1> QED
  BY <1>2, <1>3, <1>4, <1>5, <1>6, <1>7 DEF RoutesInv

\* macos_pf_flush_anchor and macos_pf_release_token: what they leave is stuck.
LEMMA Flushed ==
    ASSUME NEW asked, pf \subseteq {"enabled", "loaded"}, Routes!FlushAndRelease(asked)
    PROVE  pf' \subseteq {"enabled", "loaded"} /\ pf' \subseteq stuck'
BY DEF Routes!FlushAndRelease

\* Steps that leave the table, the file and what is being added alone: of the phases, of
\* the packet filter, and the beginnings of cleanup and Drop.
LEMMA PhaseStep ==
    ASSUME Routes!RouteConstants, RoutesInv,
           \/ Routes!cleanup_stale_routes \/ Routes!InstallFails \/ Routes!KindDone \/ Routes!macos_pf_enable \/ Routes!MacosPfLoad \/ Routes!drop
           \/ UNCHANGED Routes!vars
    PROVE  RoutesInv'
<1>0. /\ RoutesTyped /\ RecordsAreOwn /\ AddingIsOrderly /\ (~DELETES_FAIL => FileIsTrue)
      /\ (Undisturbed => BypassFirst) /\ FilterHasOwner /\ Routes!UserRoutesKept /\ Routes!ProxyIsNotCaptured
  BY DEF RoutesInv
<1>1. /\ UNCHANGED <<table, routes_file, adding, wiped, routes_crashes, lost>>
      /\ routes_faults' \in Nat /\ routes_faults' >= routes_faults /\ Agents' = Agents /\ Routes!Recorded' = Routes!Recorded
      /\ Routes!UserRoutesKept' /\ Routes!ProxyIsNotCaptured'
  <2>1. UNCHANGED <<table, routes_file, adding, wiped, routes_crashes, lost>> /\ (routes_faults' = routes_faults \/ routes_faults' = routes_faults + 1)
    BY DEF Routes!cleanup_stale_routes, Routes!InstallFails, Routes!KindDone, Routes!macos_pf_enable, Routes!MacosPfLoad, Routes!drop,
           Routes!FlushAndRelease, Routes!vars, Routes!bounds, Routes!Fault
  <2>2. routes_faults' \in Nat /\ routes_faults' >= routes_faults
    BY <1>0, <2>1 DEF RoutesTyped
  <2> QED
    BY <1>0, <2>1, <2>2 DEF Agents, Routes!Recorded, Routes!UserRoutesKept, Routes!ProxyIsNotCaptured
<1>2. lease' = (IF Routes!cleanup_stale_routes THEN {} ELSE lease) /\ lease' = lease
  <2>1. Routes!cleanup_stale_routes => lease = {}
    BY <1>0 DEF Routes!cleanup_stale_routes, AddingIsOrderly
  <2> QED
    BY <2>1 DEF Routes!cleanup_stale_routes, Routes!InstallFails, Routes!KindDone, Routes!macos_pf_enable, Routes!MacosPfLoad, Routes!drop, Routes!vars
<1>3. \/ routes_phase = "down" /\ routes_phase' = "cleaning" /\ routes_todo' = Routes!Recorded /\ cleanup_ok' = TRUE
      \/ routes_phase = "proxy" /\ routes_phase' = "running" /\ routes_todo' = {} /\ failed' = failed /\ cleanup_ok' = cleanup_ok /\ adding = NoRoute
      \/ /\ routes_phase \in AddPhases /\ routes_todo = {} /\ adding = NoRoute /\ failed' = failed /\ cleanup_ok' = cleanup_ok
         /\ routes_phase' = Routes!Following(routes_phase) /\ routes_todo' = IF routes_phase' = "running" THEN {} ELSE Routes!Wanted(routes_phase')
      \/ routes_phase = "dns" /\ routes_phase' = "local" /\ routes_todo' = Routes!Wanted("local") /\ failed' = failed /\ cleanup_ok' = cleanup_ok
      \/ routes_phase = "running" /\ routes_phase' = "removing" /\ routes_todo' = lease /\ failed' = failed /\ cleanup_ok' = TRUE
      \/ UNCHANGED <<routes_phase, routes_todo, failed, cleanup_ok>>
  BY DEF Routes!cleanup_stale_routes, Routes!InstallFails, Routes!KindDone, Routes!macos_pf_enable, Routes!MacosPfLoad, Routes!drop,
         Routes!WithoutFilter, Routes!vars, Routes!Adding, AddPhases
<1>4. \/ routes_phase = "down" /\ routes_phase' = "cleaning" /\ routes_todo' = Routes!Recorded /\ cleanup_ok' = TRUE
      \/ /\ routes_phase \in AddPhases /\ routes_phase' = "running" /\ routes_todo' = {} /\ failed' = failed /\ cleanup_ok' = cleanup_ok
         /\ adding = NoRoute /\ routes_phase \in {"proxy", "split"}
      \/ /\ routes_phase \in AddPhases /\ routes_phase' \in {"dns", "local", "split"} /\ routes_todo' = Routes!Wanted(routes_phase') /\ failed' = failed
         /\ cleanup_ok' = cleanup_ok /\ (routes_phase = "proxy" => routes_todo = {}) /\ (routes_phase' = "split" => routes_phase = "local")
         /\ routes_phase # "split"
      \/ routes_phase = "running" /\ routes_phase' = "removing" /\ routes_todo' = lease /\ failed' = failed /\ cleanup_ok' = TRUE
      \/ UNCHANGED <<routes_phase, routes_todo, failed, cleanup_ok>>
  <2>1. /\ Routes!Following("proxy") = "dns" /\ Routes!Following("dns") = "local" /\ Routes!Following("local") = "split"
        /\ Routes!Following("split") = "running"
    BY DEF Routes!Following
  <2> QED
    BY <1>3, <2>1 DEF AddPhases
<1>5. RoutesTyped'
  <2>1. Routes!Recorded \subseteq Routes!Routes
    BY <1>0 DEF Routes!Recorded, RoutesTyped
  <2>2. routes_todo' \in SUBSET Routes!Routes /\ cleanup_ok' \in BOOLEAN
    BY <1>0, <1>4, <2>1, KindsOfRoutes DEF RoutesTyped, AddPhases
  <2>3. routes_phase' \in AddPhases \cup {"down", "cleaning", "running", "removing"}
    BY <1>0, <1>4 DEF RoutesTyped, AddPhases
  <2> QED
    BY <1>0, <1>1, <1>2, <2>2, <2>3 DEF RoutesTyped
<1>6. RecordsAreOwn' /\ AddingIsOrderly'
  BY <1>0, <1>1, <1>2, <1>4 DEF RecordsAreOwn, AddingIsOrderly, AddPhases
<1>7. ~DELETES_FAIL => FileIsTrue'
  <2> SUFFICES ASSUME ~DELETES_FAIL PROVE FileIsTrue'
    OBVIOUS
  <2>1. Safe' = Safe
    BY <1>1, <1>2 DEF Safe
  <2> QED
    BY <1>0, <1>1, <1>2, <1>4, <2>1 DEF FileIsTrue, AddPhases
<1>8. Undisturbed' => BypassFirst'
  <2> SUFFICES ASSUME Undisturbed' PROVE BypassFirst'
    OBVIOUS
  <2>1. Undisturbed
    BY <1>0, <1>1 DEF Undisturbed, RoutesTyped
  <2>2. Redirected' = Redirected /\ (failed' = failed => Bypassed' = Bypassed)
    BY <1>1 DEF Redirected, Bypassed
  <2>3. CASE routes_phase = "proxy" /\ routes_phase' \in {"dns", "local", "split"}
    BY <1>0, <1>1, <1>2, <1>4, <2>1, <2>2, <2>3 DEF BypassFirst, Bypassed, AddPhases
  <2>4. CASE routes_phase \in {"dns", "local"} /\ routes_phase' \in {"dns", "local", "split"} /\ failed' = failed /\ (routes_phase' = "split" => routes_phase = "local")
    BY <1>0, <1>1, <1>2, <2>1, <2>2, <2>4 DEF BypassFirst, AddPhases
  <2>5. CASE routes_phase \in {"proxy", "split"} /\ routes_phase' = "running" /\ failed' = failed /\ adding = NoRoute
    BY <1>0, <1>1, <1>2, <2>1, <2>2, <2>5 DEF BypassFirst, AddPhases
  <2>6. CASE routes_phase = "down" /\ routes_phase' = "cleaning"
    BY <1>0, <1>1, <2>1, <2>6 DEF BypassFirst, AddPhases
  <2>7. CASE routes_phase = "running" /\ routes_phase' = "removing" /\ failed' = failed /\ routes_todo' = lease
    <3>1. Agents \subseteq lease
      BY <1>0, <2>1, <2>7 DEF BypassFirst, AddingIsOrderly, AddPhases, Agents, Routes!RouteConstants
    <3> QED
      BY <1>0, <1>1, <2>1, <2>2, <2>7, <3>1 DEF BypassFirst, AddPhases
  <2>8. CASE UNCHANGED <<routes_phase, routes_todo, failed>>
    BY <1>0, <1>1, <1>2, <2>1, <2>2, <2>8 DEF BypassFirst
  <2> QED
    BY <1>4, <2>3, <2>4, <2>5, <2>6, <2>7, <2>8 DEF AddPhases
<1>9. FilterHasOwner'
  <2>1. CASE Routes!drop
    <3>1. /\ routes_phase = "running" /\ pf_dns_guard' = "none"
          /\ IF pf_dns_guard = "installed" THEN Routes!FlushAndRelease({"enabled", "loaded"}) ELSE UNCHANGED <<pf, stuck>>
      BY <2>1 DEF Routes!drop
    <3> QED
      BY <1>0, <3>1, Flushed DEF FilterHasOwner
  <2>2. CASE Routes!KindDone
    <3>1. /\ routes_phase \in AddPhases /\ routes_phase' = Routes!Following(routes_phase)
          /\ UNCHANGED <<pf, pf_dns_guard, stuck>> /\ pf_dns_guard # "pending"
      BY <2>2 DEF Routes!KindDone, Routes!Adding, AddPhases
    <3>2. Routes!Following("dns") = "local" /\ Routes!Following("local") = "split" /\ Routes!Following("split") = "running"
      BY DEF Routes!Following
    <3> QED
      BY <1>0, <3>1, <3>2 DEF FilterHasOwner, AddPhases
  <2>3. CASE Routes!macos_pf_enable
    BY <1>0, <2>3 DEF Routes!macos_pf_enable, Routes!WithoutFilter, FilterHasOwner
  <2>4. CASE Routes!MacosPfLoad
    <3>1. /\ pf_dns_guard = "pending"
          /\ \/ pf' = pf \cup {"loaded"} /\ pf_dns_guard' = "installed" /\ UNCHANGED <<routes_phase, stuck>>
             \/ pf_dns_guard' = "none" /\ (Routes!FlushAndRelease({"enabled", "loaded"}) \/ Routes!FlushAndRelease({"enabled"}))
      BY <2>4 DEF Routes!MacosPfLoad, Routes!WithoutFilter
    <3> QED
      BY <1>0, <3>1, Flushed DEF FilterHasOwner
  <2>5. CASE Routes!cleanup_stale_routes \/ Routes!InstallFails \/ UNCHANGED Routes!vars
    BY <1>0, <2>5 DEF Routes!cleanup_stale_routes, Routes!InstallFails, Routes!vars, FilterHasOwner
  <2> QED
    BY <2>1, <2>2, <2>3, <2>4, <2>5
<1> QED
  BY <1>1, <1>5, <1>6, <1>7, <1>8, <1>9 DEF RoutesInv

\* mgr.add: onto an empty place, or not at all.
LEMMA AddStep == ASSUME Routes!RouteConstants, RoutesInv, Routes!add PROVE RoutesInv'
<1>0. /\ RoutesTyped /\ RecordsAreOwn /\ AddingIsOrderly /\ (~DELETES_FAIL => FileIsTrue)
      /\ (Undisturbed => BypassFirst) /\ FilterHasOwner /\ Routes!UserRoutesKept /\ Routes!ProxyIsNotCaptured
  BY DEF RoutesInv
<1>1. PICK r \in routes_todo :
        /\ routes_todo' = routes_todo \ {r}
        /\ \/ table[r] = "none" /\ table' = [table EXCEPT ![r] = "agent"] /\ adding' = r /\ UNCHANGED <<failed, routes_faults>>
           \/ table[r] # "none" /\ UNCHANGED <<table, adding, failed, routes_faults>>
           \/ Routes!Fault /\ failed' = failed \cup {r} /\ UNCHANGED <<table, adding>>
  BY DEF Routes!add
<1>2. /\ routes_phase \in AddPhases /\ adding = NoRoute
      /\ UNCHANGED <<routes_phase, routes_file, lease, cleanup_ok, pf, pf_dns_guard, stuck, wiped, routes_crashes, lost>>
      /\ routes_faults' \in Nat /\ routes_faults' >= routes_faults /\ failed \subseteq failed' /\ Routes!Recorded' = Routes!Recorded
  BY <1>0, <1>1 DEF Routes!add, Routes!Adding, AddPhases, Routes!Fault, RoutesTyped, Routes!Recorded
<1>3. r \in Routes!Wanted(routes_phase) /\ r \in Routes!Routes /\ NoRoute \notin Routes!Routes
  BY <1>0, <1>1, <1>2 DEF AddingIsOrderly, RoutesTyped, Routes!RouteConstants
<1>4. \/ /\ table[r] = "none" /\ table'[r] = "agent" /\ adding' = r /\ failed' = failed
         /\ table' \in [Routes!Routes -> {"user", "agent", "none"}] /\ \A s \in Routes!Routes : s # r => table'[s] = table[s]
         /\ Agents' = Agents \cup {r} /\ r \notin Agents /\ r \notin UserRoutes /\ r \notin lease
      \/ table' = table /\ adding' = adding /\ Agents' = Agents /\ (table[r] # "none" \/ r \in failed')
  BY <1>0, <1>1, <1>2, <1>3 DEF RoutesTyped, Agents, Routes!UserRoutesKept, AddingIsOrderly
<1>5. RoutesTyped'
  BY <1>0, <1>1, <1>2, <1>3, <1>4 DEF RoutesTyped
<1>6. RecordsAreOwn' /\ AddingIsOrderly'
  BY <1>0, <1>1, <1>2, <1>3, <1>4 DEF RecordsAreOwn, AddingIsOrderly, AddPhases
<1>7. ~DELETES_FAIL => FileIsTrue'
  <2> SUFFICES ASSUME ~DELETES_FAIL PROVE FileIsTrue'
    OBVIOUS
  <2>1. Safe' = Safe /\ Safe \subseteq lease
    BY <1>0, <1>2 DEF Safe, FileIsTrue
  <2>2. IsFiniteSet(Agents \ Safe) /\ Cardinality(Agents \ Safe) \in Nat
    BY FewerRoutes DEF Agents
  <2>3. ASSUME ~wiped
        PROVE  Cardinality(Agents' \ Safe) <= routes_crashes + lost + (IF adding' # NoRoute THEN 1 ELSE 0)
    <3>0. Cardinality(Agents \ Safe) <= routes_crashes + lost
      BY <1>0, <1>2, <2>3 DEF FileIsTrue, RoutesTyped
    <3>1. CASE Agents' = Agents
      BY <1>0, <1>2, <2>2, <3>0, <3>1 DEF RoutesTyped
    <3>2. CASE Agents' = Agents \cup {r} /\ r \notin Agents /\ r \notin lease /\ adding' = r
      <4>1. Agents' \ Safe = (Agents \ Safe) \cup {r} /\ r \notin Agents \ Safe
        BY <2>1, <3>2
      <4>2. Cardinality((Agents \ Safe) \cup {r}) = Cardinality(Agents \ Safe) + 1
        BY <2>2, <4>1, FS_AddElement
      <4>3. adding' # NoRoute /\ routes_crashes \in Nat /\ lost \in Nat
        BY <1>0, <1>3, <3>2 DEF RoutesTyped
      <4> QED
        BY <2>2, <3>0, <4>1, <4>2, <4>3
    <3> QED
      BY <1>4, <3>1, <3>2
  <2> QED
    BY <1>0, <1>2, <2>1, <2>3 DEF FileIsTrue, AddPhases
<1>8. Undisturbed' => BypassFirst'
  <2> SUFFICES ASSUME Undisturbed' PROVE BypassFirst'
    OBVIOUS
  <2>1. BypassFirst
    BY <1>0, <1>2 DEF Undisturbed, RoutesTyped
  <2>2. Agents' \subseteq lease' \cup {adding'}
    BY <1>0, <1>2, <1>3, <1>4, <2>1 DEF BypassFirst, Agents
  <2>3. \A s \in Routes!Routes : table[s] # "none" => table'[s] # "none"
    BY <1>4
  <2>4. Bypassed => Bypassed'
    BY <1>2, <2>3, KindsOfRoutes DEF Bypassed
  <2>5. routes_phase \in {"proxy", "dns", "local"} => ~Redirected'
    <3>1. routes_phase \in {"proxy", "dns", "local"} => r \notin Routes!Tun(Halves)
      BY <1>3, KindsOfRoutes
    <3> QED
      BY <1>4, <2>1, <3>1, KindsOfRoutes DEF Redirected, BypassFirst
  <2>6. routes_phase = "proxy" => \A p \in ProxyIps : Bypass(p) \in failed' \cup routes_todo' \/ table'[Bypass(p)] # "none"
    BY <1>1, <1>2, <1>4, <2>1, <2>3, KindsOfRoutes DEF BypassFirst
  <2> QED
    BY <1>2, <2>1, <2>2, <2>4, <2>5, <2>6 DEF BypassFirst, AddPhases
<1>9. FilterHasOwner'
  BY <1>0, <1>2 DEF FilterHasOwner
<1>10. Routes!UserRoutesKept' /\ Routes!ProxyIsNotCaptured'
  <2>1. r \notin Routes!Tun(ProxyIps \cap DnsServers)
    BY <1>2, <1>3, KindsOfRoutes
  <2> QED
    BY <1>0, <1>4, <2>1, KindsOfRoutes DEF Routes!UserRoutesKept, Routes!ProxyIsNotCaptured
<1> QED
  BY <1>5, <1>6, <1>7, <1>8, <1>9, <1>10 DEF RoutesInv

\* record_installed: the file is the lease, or the write is counted as lost.
LEMMA RecordStep == ASSUME Routes!RouteConstants, RoutesInv, Routes!record_installed PROVE RoutesInv'
<1>0. /\ RoutesTyped /\ RecordsAreOwn /\ AddingIsOrderly /\ (~DELETES_FAIL => FileIsTrue)
      /\ (Undisturbed => BypassFirst) /\ FilterHasOwner /\ Routes!UserRoutesKept /\ Routes!ProxyIsNotCaptured
  BY DEF RoutesInv
<1>1. /\ adding # NoRoute /\ adding' = NoRoute /\ lease' = lease \cup {adding}
      /\ \/ (WINDOWS => routes_file = NoFile) /\ routes_file' = lease' /\ UNCHANGED <<lost, routes_faults>>
         \/ Routes!Fault /\ lost' = lost + 1 /\ UNCHANGED routes_file
      /\ UNCHANGED <<routes_phase, routes_retried, table, routes_todo, cleanup_ok, failed, pf, pf_dns_guard, stuck, wiped, routes_crashes>>
  BY DEF Routes!record_installed
<1>2. /\ routes_phase \in AddPhases /\ adding \in Agents /\ adding \notin lease /\ adding \in Routes!Routes /\ adding \notin UserRoutes
      /\ Agents' = Agents /\ routes_faults' \in Nat /\ routes_faults' >= routes_faults
  BY <1>0, <1>1 DEF AddingIsOrderly, Agents, Routes!UserRoutesKept, RoutesTyped, Routes!Fault
<1>3. lease' \in SUBSET Routes!Routes /\ lease' \subseteq OwnRoutes /\ lease' \subseteq Agents
  BY <1>0, <1>1, <1>2 DEF RoutesTyped, RecordsAreOwn, OwnRoutes, AddingIsOrderly
<1>4. \/ Routes!Recorded' = lease' /\ lost' = lost /\ Safe' = lease'
      \/ Routes!Recorded' = Routes!Recorded /\ lost' = lost + 1 /\ Safe' \in {Safe, lease'}
  BY <1>1, <1>3 DEF Routes!Recorded, Routes!RouteConstants, Safe
<1>5. RoutesTyped'
  BY <1>0, <1>1, <1>2, <1>3 DEF RoutesTyped
<1>6. RecordsAreOwn' /\ AddingIsOrderly'
  <2>1. OwnRoutes' = OwnRoutes
    BY DEF OwnRoutes
  <2> QED
    BY <1>0, <1>1, <1>2, <1>3, <1>4, <2>1 DEF RecordsAreOwn, AddingIsOrderly, AddPhases
<1>7. ~DELETES_FAIL => FileIsTrue'
  <2> SUFFICES ASSUME ~DELETES_FAIL PROVE FileIsTrue'
    OBVIOUS
  <2>0. FileIsTrue
    BY <1>0
  <2>1. Safe \subseteq lease /\ adding \notin Safe
    BY <1>2, <2>0 DEF FileIsTrue, Safe
  <2>2. IsFiniteSet(Agents \ Safe) /\ Cardinality(Agents \ Safe) \in Nat
    BY FewerRoutes DEF Agents
  <2>3. ASSUME ~wiped PROVE Cardinality(Agents \ Safe') <= routes_crashes + lost'
    <3>0. Cardinality(Agents \ Safe) <= routes_crashes + lost + 1
      BY <1>1, <2>0, <2>3 DEF FileIsTrue
    <3>1. CASE Safe' = lease' /\ lost' \in {lost, lost + 1}
      <4>1. Agents \ lease' \subseteq (Agents \ Safe) \ {adding}
        BY <1>1, <1>2, <2>1
      <4>2. Cardinality((Agents \ Safe) \ {adding}) = Cardinality(Agents \ Safe) - 1
        BY <1>2, <2>1, <2>2, FS_RemoveElement
      <4>3. Cardinality(Agents \ lease') \in Nat /\ Cardinality(Agents \ lease') <= Cardinality((Agents \ Safe) \ {adding})
        BY <4>1, FewerRoutes DEF Agents
      <4> QED
        BY <1>0, <2>2, <3>0, <3>1, <4>2, <4>3 DEF RoutesTyped
    <3>2. CASE Safe' = Safe /\ lost' = lost + 1
      BY <1>0, <2>2, <3>0, <3>2 DEF RoutesTyped
    <3> QED
      BY <1>4, <3>1, <3>2
  <2>4. ~wiped' => Cardinality(Agents' \ Safe') <= routes_crashes' + lost' + (IF adding' # NoRoute THEN 1 ELSE 0)
    BY <1>1, <1>2, <1>5, <2>3 DEF RoutesTyped
  <2> QED
    BY <1>1, <1>2, <1>4, <2>0, <2>4 DEF FileIsTrue, AddPhases
<1>8. Undisturbed' => BypassFirst'
  <2> SUFFICES ASSUME Undisturbed' PROVE BypassFirst'
    OBVIOUS
  <2>1. BypassFirst
    BY <1>0, <1>1, <1>2 DEF Undisturbed, RoutesTyped
  <2>2. Redirected' = Redirected /\ Bypassed' = Bypassed
    BY <1>1 DEF Redirected, Bypassed
  <2> QED
    BY <1>1, <1>2, <2>1, <2>2 DEF BypassFirst, AddPhases
<1>9. FilterHasOwner' /\ Routes!UserRoutesKept' /\ Routes!ProxyIsNotCaptured'
  BY <1>0, <1>1 DEF FilterHasOwner, Routes!UserRoutesKept, Routes!ProxyIsNotCaptured
<1> QED
  BY <1>5, <1>6, <1>7, <1>8, <1>9 DEF RoutesInv

\* remove_file: what was on record is in the lease.
LEMMA RemoveFileStep == ASSUME Routes!RouteConstants, RoutesInv, Routes!remove_file PROVE RoutesInv'
<1>0. /\ RoutesTyped /\ RecordsAreOwn /\ AddingIsOrderly /\ (~DELETES_FAIL => FileIsTrue)
      /\ (Undisturbed => BypassFirst) /\ FilterHasOwner /\ Routes!UserRoutesKept /\ Routes!ProxyIsNotCaptured
  BY DEF RoutesInv
<1>1. /\ WINDOWS /\ adding # NoRoute /\ routes_file # NoFile /\ routes_file' = NoFile
      /\ UNCHANGED <<routes_phase, table, lease, routes_todo, adding, cleanup_ok, failed, pf, pf_dns_guard, stuck, wiped, routes_crashes, lost, routes_faults>>
  BY DEF Routes!remove_file, Routes!bounds
<1>2. /\ routes_phase \in AddPhases /\ Agents' = Agents /\ OwnRoutes' = OwnRoutes
      /\ Routes!Recorded' = {} /\ Safe = Routes!Recorded /\ Safe' = lease
  BY <1>0, <1>1 DEF AddingIsOrderly, Agents, OwnRoutes, Routes!Recorded, Safe
<1>3. RoutesTyped' /\ RecordsAreOwn' /\ AddingIsOrderly'
  BY <1>0, <1>1, <1>2 DEF RoutesTyped, RecordsAreOwn, AddingIsOrderly
<1>4. ~DELETES_FAIL => FileIsTrue'
  <2> SUFFICES ASSUME ~DELETES_FAIL PROVE FileIsTrue'
    OBVIOUS
  <2>1. FileIsTrue
    BY <1>0
  <2>2. Agents \ lease \subseteq Agents \ Safe
    BY <1>2, <2>1 DEF FileIsTrue
  <2>3. /\ Cardinality(Agents \ lease) \in Nat /\ Cardinality(Agents \ Safe) \in Nat
        /\ Cardinality(Agents \ lease) <= Cardinality(Agents \ Safe)
    BY <2>2, FewerRoutes DEF Agents
  <2>4. ~wiped => Cardinality(Agents \ lease) <= routes_crashes + lost + (IF adding # NoRoute THEN 1 ELSE 0)
    BY <1>0, <2>1, <2>3 DEF FileIsTrue, RoutesTyped
  <2> QED
    BY <1>1, <1>2, <2>1, <2>4 DEF FileIsTrue, AddPhases
<1>5. Undisturbed' => BypassFirst'
  BY <1>0, <1>1, <1>2 DEF Undisturbed, BypassFirst, Redirected, Bypassed
<1>6. FilterHasOwner' /\ Routes!UserRoutesKept' /\ Routes!ProxyIsNotCaptured'
  BY <1>0, <1>1 DEF FilterHasOwner, Routes!UserRoutesKept, Routes!ProxyIsNotCaptured
<1> QED
  BY <1>3, <1>4, <1>5, <1>6 DEF RoutesInv

\* delete_recorded_route: what is deleted is the agent's, the halves before the bypass.
LEMMA DeleteStep == ASSUME Routes!RouteConstants, RoutesInv, Routes!delete_recorded_route PROVE RoutesInv'
<1>0. /\ RoutesTyped /\ RecordsAreOwn /\ AddingIsOrderly /\ (~DELETES_FAIL => FileIsTrue)
      /\ (Undisturbed => BypassFirst) /\ FilterHasOwner /\ Routes!UserRoutesKept /\ Routes!ProxyIsNotCaptured
  BY DEF RoutesInv
<1>1. PICK r \in Routes!NextToDelete :
        /\ routes_todo' = routes_todo \ {r}
        /\ \/ table' = [table EXCEPT ![r] = "none"] /\ UNCHANGED <<cleanup_ok, routes_faults>>
           \/ /\ DELETES_FAIL /\ Routes!Fault /\ cleanup_ok' = FALSE
              /\ table' = [table EXCEPT ![r] = "none"] \/ table' = table
  BY DEF Routes!delete_recorded_route
<1>2. /\ routes_phase \in {"cleaning", "removing"} /\ Routes!Recorded' = Routes!Recorded
      /\ UNCHANGED <<routes_phase, routes_file, lease, adding, failed, pf, pf_dns_guard, stuck, wiped, routes_crashes, lost>>
  BY DEF Routes!delete_recorded_route, Routes!Recorded
<1>3. /\ r \in routes_todo /\ r \in Routes!Routes /\ r \notin UserRoutes /\ \A s \in routes_todo : Routes!Rank(r) >= Routes!Rank(s)
  BY <1>0, <1>1, <1>2 DEF Routes!NextToDelete, RecordsAreOwn, OwnRoutes, RoutesTyped
<1>4. routes_faults' \in Nat /\ routes_faults' >= routes_faults /\ (routes_faults' = routes_faults \/ (DELETES_FAIL /\ routes_faults' # 0))
  BY <1>0, <1>1 DEF RoutesTyped, Routes!Fault
<1>5. /\ table' \in [Routes!Routes -> {"user", "agent", "none"}]
      /\ \A s \in Routes!Routes : (s # r => table'[s] = table[s]) /\ table'[s] \in {table[s], "none"}
      /\ Agents' \subseteq Agents
  BY <1>0, <1>1, <1>3 DEF RoutesTyped, Agents
<1>6. ~DELETES_FAIL \/ (DELETES_FAIL /\ routes_faults' = 0) => r \notin Agents' /\ cleanup_ok' = cleanup_ok
  BY <1>0, <1>1, <1>3, <1>4 DEF RoutesTyped, Agents, Routes!Fault
<1>7. RoutesTyped'
  BY <1>0, <1>1, <1>2, <1>4, <1>5 DEF RoutesTyped
<1>8. RecordsAreOwn' /\ AddingIsOrderly'
  BY <1>0, <1>1, <1>2 DEF RecordsAreOwn, AddingIsOrderly, AddPhases, OwnRoutes
<1>9. ~DELETES_FAIL => FileIsTrue'
  <2> SUFFICES ASSUME ~DELETES_FAIL PROVE FileIsTrue'
    OBVIOUS
  <2>1. FileIsTrue /\ cleanup_ok' = cleanup_ok /\ r \notin Agents'
    BY <1>0, <1>6
  <2>2. Safe' = Safe /\ Agents' \ Safe \subseteq Agents \ Safe
    BY <1>2, <1>5 DEF Safe
  <2>3. /\ Cardinality(Agents' \ Safe) \in Nat /\ Cardinality(Agents \ Safe) \in Nat
        /\ Cardinality(Agents' \ Safe) <= Cardinality(Agents \ Safe)
    BY <2>2, FewerRoutes DEF Agents
  <2>4. ~wiped => Cardinality(Agents' \ Safe) <= routes_crashes + lost + (IF adding # NoRoute THEN 1 ELSE 0)
    BY <1>0, <2>1, <2>3 DEF FileIsTrue, RoutesTyped
  <2> QED
    BY <1>1, <1>2, <1>5, <2>1, <2>2, <2>4 DEF FileIsTrue, AddPhases
<1>10. Undisturbed' => BypassFirst'
  <2> SUFFICES ASSUME Undisturbed' PROVE BypassFirst'
    OBVIOUS
  <2>1. BypassFirst /\ r \notin Agents'
    BY <1>0, <1>2, <1>4, <1>6 DEF Undisturbed, RoutesTyped
  <2>2. routes_phase = "removing" => Agents' \subseteq routes_todo'
    BY <1>1, <1>5, <2>1 DEF BypassFirst
  <2>3. routes_phase = "cleaning" => Agents' = {}
    BY <1>5, <2>1 DEF BypassFirst
  <2>4. routes_phase = "removing" => (Redirected' => Bypassed')
    <3> SUFFICES ASSUME routes_phase = "removing", Redirected' PROVE Bypassed'
      OBVIOUS
    <3>1. PICK h \in Routes!Tun(Halves) : table'[h] # "none"
      BY DEF Redirected
    <3>2. h \in Routes!Routes /\ h \notin UserRoutes /\ Routes!Rank(h) = 4
      BY KindsOfRoutes
    <3>3. Redirected /\ Bypassed
      BY <1>5, <2>1, <3>1, <3>2 DEF Redirected, BypassFirst
    <3>4. h \in Agents
      BY <1>0, <1>5, <3>1, <3>2 DEF Agents, RoutesTyped
    <3>5. h \in routes_todo /\ Routes!Rank(r) >= 4
      BY <1>3, <2>1, <3>2, <3>4 DEF BypassFirst
    <3>6. \A p \in ProxyIps : Bypass(p) # r /\ Bypass(p) \in Routes!Routes
      BY <3>5, KindsOfRoutes
    <3> QED
      BY <1>2, <1>5, <3>3, <3>6 DEF Bypassed
  <2> QED
    BY <1>2, <2>2, <2>3, <2>4 DEF BypassFirst, AddPhases
<1>11. FilterHasOwner'
  BY <1>0, <1>2 DEF FilterHasOwner
<1>12. Routes!UserRoutesKept' /\ Routes!ProxyIsNotCaptured'
  BY <1>0, <1>3, <1>5, KindsOfRoutes DEF Routes!UserRoutesKept, Routes!ProxyIsNotCaptured
<1> QED
  BY <1>7, <1>8, <1>9, <1>10, <1>11, <1>12 DEF RoutesInv

\* The table may lose routes of the agent, but neither other routes nor bypass routes.
LEMMA TableShrinks ==
    ASSUME Routes!RouteConstants, RoutesInv,
           table' \in [Routes!Routes -> {"user", "agent", "none"}],
           \A r \in Routes!Routes : table'[r] = table[r] \/ (table'[r] = "none" /\ r.via = "tun")
    PROVE  /\ Routes!UserRoutesKept' /\ Routes!ProxyIsNotCaptured' /\ Agents' \subseteq Agents
           /\ \A r \in Routes!Routes \ UserRoutes : table'[r] # "user"
           /\ Cardinality(Agents' \ Safe) \in Nat /\ Cardinality(Agents' \ Safe) <= Cardinality(Agents \ Safe)
           /\ Cardinality(Agents \ Safe) \in Nat
<1>1. RoutesTyped /\ Routes!UserRoutesKept /\ Routes!ProxyIsNotCaptured
  BY DEF RoutesInv
<1>2. Agents' \subseteq Agents
  BY <1>1 DEF Agents
<1>3. Agents' \ Safe \subseteq Agents \ Safe /\ Agents \ Safe \subseteq Routes!Routes
  BY <1>2 DEF Agents
<1>4. Routes!UserRoutesKept' /\ Routes!ProxyIsNotCaptured' /\ \A r \in Routes!Routes \ UserRoutes : table'[r] # "user"
  BY <1>1, KindsOfRoutes DEF Routes!UserRoutesKept, Routes!ProxyIsNotCaptured, RoutesTyped
<1> QED
  BY <1>2, <1>3, <1>4, FewerRoutes

\* CleanedUp: the file goes once everything in it is deleted, or is worked off again.
LEMMA CleanedUpStep == ASSUME Routes!RouteConstants, RoutesInv, Routes!CleanedUp PROVE RoutesInv'
<1>0. /\ RoutesTyped /\ RecordsAreOwn /\ AddingIsOrderly /\ (~DELETES_FAIL => FileIsTrue)
      /\ (Undisturbed => BypassFirst) /\ FilterHasOwner /\ Routes!UserRoutesKept /\ Routes!ProxyIsNotCaptured
  BY DEF RoutesInv
<1>1. /\ routes_phase = "cleaning" /\ routes_todo = {} /\ routes_file' = (IF cleanup_ok THEN NoFile ELSE routes_file) /\ cleanup_ok' = TRUE
      /\ \/ /\ routes_phase' = "proxy" /\ routes_todo' = Routes!Wanted("proxy")
            /\ \/ table' = Routes!cleanup_existing_tun_split_routes
               \/ table' = table
         \/ routes_phase' = "cleaning" /\ routes_todo' = routes_file /\ table' = table /\ routes_file' # NoFile
      /\ UNCHANGED <<lease, adding, failed, pf, pf_dns_guard, stuck, wiped, routes_crashes, lost, routes_faults>>
  BY DEF Routes!CleanedUp, Routes!bounds
<1>2. lease = {} /\ adding = NoRoute
  BY <1>0, <1>1 DEF AddingIsOrderly, AddPhases
<1>3. /\ table' \in [Routes!Routes -> {"user", "agent", "none"}]
      /\ \A r \in Routes!Routes : table'[r] = table[r] \/ (table'[r] = "none" /\ r.via = "tun")
  <2>1. \A r \in Routes!split_routes : r.via = "tun"
    BY KindsOfRoutes
  <2> QED
    BY <1>0, <1>1, <2>1 DEF Routes!cleanup_existing_tun_split_routes, RoutesTyped
<1>4. /\ Routes!UserRoutesKept' /\ Routes!ProxyIsNotCaptured' /\ Agents' \subseteq Agents
      /\ \A r \in Routes!Routes \ UserRoutes : table'[r] # "user"
      /\ Cardinality(Agents' \ Safe) \in Nat /\ Cardinality(Agents' \ Safe) <= Cardinality(Agents \ Safe)
      /\ Cardinality(Agents \ Safe) \in Nat
  BY <1>3, TableShrinks
<1>5. Routes!Recorded' \subseteq Routes!Recorded /\ Routes!Recorded \subseteq Routes!Routes /\ (routes_phase' = "cleaning" => routes_todo' = Routes!Recorded /\ Routes!Recorded' = Routes!Recorded)
  BY <1>0, <1>1 DEF Routes!Recorded, RoutesTyped
<1>6. RoutesTyped'
  <2>1. routes_todo' \in SUBSET Routes!Routes
    BY <1>1, <1>5, KindsOfRoutes DEF AddPhases
  <2> QED
    BY <1>0, <1>1, <1>3, <1>4, <2>1 DEF RoutesTyped, AddPhases
<1>7. RecordsAreOwn' /\ AddingIsOrderly'
  BY <1>0, <1>1, <1>2, <1>5 DEF RecordsAreOwn, AddingIsOrderly, AddPhases, OwnRoutes
<1>8. ~DELETES_FAIL => FileIsTrue'
  <2> SUFFICES ASSUME ~DELETES_FAIL PROVE FileIsTrue'
    OBVIOUS
  <2>1. FileIsTrue
    BY <1>0
  <2>2. Routes!Recorded' = {} /\ Agents \cap Routes!Recorded = {} /\ routes_phase' = "proxy"
    BY <1>1, <2>1 DEF FileIsTrue, Routes!Recorded
  <2>3. Agents' \ Safe' = Agents' \ Safe
    BY <1>1, <1>2, <1>4, <2>2 DEF Safe, Routes!Recorded
  <2>4. ASSUME ~wiped PROVE Cardinality(Agents' \ Safe') <= routes_crashes + lost
    <3>1. Cardinality(Agents \ Safe) <= routes_crashes + lost /\ routes_crashes \in Nat /\ lost \in Nat
      BY <1>0, <1>2, <2>1, <2>4 DEF FileIsTrue, RoutesTyped
    <3> QED
      BY <1>4, <2>3, <3>1
  <2>5. ~wiped' => Cardinality(Agents' \ Safe') <= routes_crashes' + lost' + (IF adding' # NoRoute THEN 1 ELSE 0)
    BY <1>0, <1>1, <1>2, <2>4 DEF RoutesTyped
  <2> QED
    BY <1>1, <2>2, <2>5 DEF FileIsTrue, AddPhases
<1>9. Undisturbed' => BypassFirst'
  <2> SUFFICES ASSUME Undisturbed' PROVE BypassFirst'
    OBVIOUS
  <2>1. Agents' = {}
    BY <1>0, <1>1, <1>4 DEF Undisturbed, BypassFirst
  <2>2. ~Redirected'
    BY <1>6, <2>1, KindsOfRoutes DEF Redirected, Agents, RoutesTyped
  <2>3. routes_phase' = "proxy" => \A p \in ProxyIps : Bypass(p) \in routes_todo'
    BY <1>1, KindsOfRoutes
  <2> QED
    BY <1>1, <2>1, <2>2, <2>3 DEF BypassFirst, AddPhases
<1>10. FilterHasOwner'
  BY <1>0, <1>1 DEF FilterHasOwner
<1> QED
  BY <1>4, <1>6, <1>7, <1>8, <1>9, <1>10 DEF RoutesInv

\* The end of Drop, a crash, and the TUN device going with its routes.
LEMMA EndStep == ASSUME Routes!RouteConstants, RoutesInv, Routes!dropped \/ Routes!Crash \/ Routes!TunGone PROVE RoutesInv'
<1>0. /\ RoutesTyped /\ RecordsAreOwn /\ AddingIsOrderly /\ (~DELETES_FAIL => FileIsTrue)
      /\ (Undisturbed => BypassFirst) /\ FilterHasOwner /\ Routes!UserRoutesKept /\ Routes!ProxyIsNotCaptured
  BY DEF RoutesInv
<1>1. /\ routes_phase' = "down" /\ lease' = {} /\ adding' = NoRoute /\ routes_todo' \subseteq routes_todo
      /\ failed' = failed /\ lost' = lost /\ routes_faults' = routes_faults /\ cleanup_ok' = cleanup_ok
  <2>1. routes_phase \in {"down", "removing"} => adding = NoRoute
    BY <1>0 DEF AddingIsOrderly, AddPhases
  <2>2. routes_phase = "down" => lease = {}
    BY <1>0 DEF AddingIsOrderly
  <2> QED
    BY <2>1, <2>2 DEF Routes!dropped, Routes!Crash, Routes!TunGone, Routes!bounds
<1>2. \/ routes_phase = "removing" /\ routes_todo = {} /\ routes_file' = (IF cleanup_ok THEN NoFile ELSE routes_file) /\ UNCHANGED <<table, routes_crashes>>
      \/ /\ routes_crashes' = routes_crashes + 1 /\ UNCHANGED <<table, routes_file>>
         /\ ~wiped' => ~(WINDOWS /\ routes_file = NoFile /\ lease # {})
      \/ /\ routes_phase = "down" /\ UNCHANGED <<routes_file, routes_crashes>>
         /\ table' = [r \in Routes!Routes |-> IF r.via = "tun" THEN "none" ELSE table[r]]
  BY DEF Routes!dropped, Routes!Crash, Routes!TunGone, Routes!bounds
<1>3. /\ table' \in [Routes!Routes -> {"user", "agent", "none"}]
      /\ \A r \in Routes!Routes : table'[r] = table[r] \/ (table'[r] = "none" /\ r.via = "tun")
  BY <1>0, <1>2 DEF RoutesTyped
<1>4. /\ Routes!UserRoutesKept' /\ Routes!ProxyIsNotCaptured' /\ Agents' \subseteq Agents
      /\ \A r \in Routes!Routes \ UserRoutes : table'[r] # "user"
      /\ Cardinality(Agents' \ Safe) \in Nat /\ Cardinality(Agents' \ Safe) <= Cardinality(Agents \ Safe)
      /\ Cardinality(Agents \ Safe) \in Nat
  BY <1>3, TableShrinks
<1>5. wiped' \in BOOLEAN /\ (wiped => wiped')
  <2>1. wiped \in BOOLEAN
    BY <1>0 DEF RoutesTyped
  <2>2. wiped' = wiped \/ wiped' = (wiped \/ (WINDOWS /\ routes_file = NoFile /\ lease # {}))
    BY Zenon DEF Routes!dropped, Routes!Crash, Routes!TunGone
  <2> QED
    BY <2>1, <2>2, Zenon
<1>6. routes_crashes' \in Nat /\ routes_crashes' >= routes_crashes /\ (routes_crashes' = routes_crashes \/ routes_crashes' = routes_crashes + 1)
  BY <1>0, <1>2 DEF RoutesTyped
<1>7. (routes_file' = NoFile \/ routes_file' \in SUBSET Routes!Routes) /\ Routes!Recorded' \subseteq Routes!Recorded
  BY <1>0, <1>2 DEF RoutesTyped, Routes!Recorded
<1>8. RoutesTyped'
  BY <1>0, <1>1, <1>3, <1>4, <1>5, <1>6, <1>7 DEF RoutesTyped
<1>9. RecordsAreOwn' /\ AddingIsOrderly'
  BY <1>0, <1>1, <1>7 DEF RecordsAreOwn, AddingIsOrderly, AddPhases, OwnRoutes
<1>10. ~DELETES_FAIL => FileIsTrue'
  <2> SUFFICES ASSUME ~DELETES_FAIL PROVE FileIsTrue'
    OBVIOUS
  <2>1. FileIsTrue
    BY <1>0
  <2>2. ASSUME ~wiped' PROVE Agents' \ Safe' = Agents' \ Safe
    <3>1. CASE routes_phase = "removing" /\ routes_todo = {}
      <4>1. Agents \cap lease = {} /\ Routes!Recorded \subseteq lease
        BY <2>1, <3>1 DEF FileIsTrue
      <4>2. Safe \subseteq lease /\ Safe' \subseteq lease
        BY <1>1, <1>7, <4>1 DEF Safe
      <4> QED
        BY <1>4, <4>1, <4>2
    <3>2. CASE routes_file' = routes_file /\ (WINDOWS /\ routes_file = NoFile => lease = {})
      BY <1>1, <3>2 DEF Routes!Recorded, Safe
    <3>3. routes_phase = "down" => lease = {}
      BY <1>0 DEF AddingIsOrderly
    <3> QED
      BY <1>2, <2>2, <3>1, <3>2, <3>3
  <2>3. ASSUME ~wiped' PROVE Cardinality(Agents' \ Safe') <= routes_crashes' + lost'
    <3>1. adding = NoRoute \/ routes_crashes' = routes_crashes + 1
      BY <1>0, <1>2 DEF AddingIsOrderly, AddPhases
    <3>2. Cardinality(Agents \ Safe) <= routes_crashes + lost + (IF adding # NoRoute THEN 1 ELSE 0) /\ routes_crashes \in Nat /\ lost \in Nat
      BY <1>0, <1>5, <2>1, <2>3 DEF FileIsTrue, RoutesTyped
    <3>3. Cardinality(Agents \ Safe) <= routes_crashes' + lost
      <4>1. CASE adding = NoRoute
        BY <1>4, <1>6, <3>2, <4>1
      <4>2. CASE routes_crashes' = routes_crashes + 1
        BY <1>4, <3>2, <4>2
      <4> QED
        BY <3>1, <4>1, <4>2
    <3>4. Cardinality(Agents' \ Safe) <= routes_crashes' + lost
      BY <1>4, <1>6, <3>2, <3>3
    <3> QED
      BY <1>1, <2>2, <2>3, <3>4
  <2>4. ~wiped' => Cardinality(Agents' \ Safe') <= routes_crashes' + lost' + (IF adding' # NoRoute THEN 1 ELSE 0)
    BY <1>0, <1>1, <1>6, <2>3 DEF RoutesTyped
  <2> QED
    BY <1>1, <2>1, <2>4 DEF FileIsTrue, AddPhases
<1>11. Undisturbed' => BypassFirst'
  <2> SUFFICES ASSUME Undisturbed' PROVE BypassFirst'
    OBVIOUS
  <2>1. Undisturbed /\ routes_crashes' = routes_crashes
    BY <1>0, <1>1, <1>6 DEF Undisturbed, RoutesTyped
  <2>2. Agents' = {}
    BY <1>0, <1>2, <1>4, <2>1 DEF BypassFirst, RoutesTyped
  <2> QED
    BY <1>1, <2>2 DEF BypassFirst, AddPhases
<1>12. FilterHasOwner'
  <2>1. CASE Routes!dropped
    BY <1>0, <2>1 DEF Routes!dropped, FilterHasOwner, RoutesTyped
  <2>2. CASE Routes!Crash
    BY <1>0, <2>2 DEF Routes!Crash, FilterHasOwner, RoutesTyped
  <2>3. CASE Routes!TunGone
    BY <1>0, <2>3 DEF Routes!TunGone, FilterHasOwner, RoutesTyped
  <2> QED
    BY <2>1, <2>2, <2>3
<1> QED
  BY <1>4, <1>8, <1>9, <1>10, <1>11, <1>12 DEF RoutesInv

\* One lemma per group of actions.
LEMMA RoutesStep == ASSUME Routes!RouteConstants, RoutesInv, [Routes!Next]_(Routes!vars) PROVE RoutesInv'
BY PhaseStep, AddStep, RemoveFileStep, RecordStep, DeleteStep, CleanedUpStep, EndStep DEF Routes!Next

\* The way to a proxy leads into the TUN only if the halves do and the bypass is missing.
LEMMA WayToProxy ==
    ASSUME Routes!RouteConstants, RoutesInv, NEW p \in ProxyIps, table[Bypass(p)] # "none" \/ ~Redirected
    PROVE  Routes!RouteTo(p) = "phys"
<1>1. CASE table[Bypass(p)] # "none"
  BY <1>1 DEF Routes!RouteTo, Bypass
<1>2. CASE ~Redirected
  <2>1. \A r \in Routes!Tun({p}) \cap Routes!Routes : r \in Routes!Tun(ProxyIps \cap DnsServers)
    BY DEF Routes!Routes, Routes!Tun, Routes!Phys, Routes!RouteConstants
  <2>2. \A r \in Routes!Tun(Halves) \cup (Routes!Tun({p}) \cap Routes!Routes) : table[r] = "none"
    BY <1>2, <2>1 DEF Redirected, RoutesInv, Routes!ProxyIsNotCaptured
  <2> QED
    BY <2>2 DEF Routes!RouteTo
<1> QED
  BY <1>1, <1>2

\* The invariant is strong enough.
LEMMA RoutesSafe == ASSUME Routes!RouteConstants, RoutesInv PROVE Routes!RoutesAreRight
<1>0. /\ RoutesTyped /\ AddingIsOrderly /\ (~DELETES_FAIL => FileIsTrue)
      /\ (Undisturbed => BypassFirst) /\ FilterHasOwner /\ Routes!UserRoutesKept /\ Routes!ProxyIsNotCaptured
  BY DEF RoutesInv
<1>1. Routes!ProxyStaysReachable
  <2> SUFFICES ASSUME Undisturbed, NEW p \in ProxyIps, Bypass(p) \notin failed PROVE Routes!RouteTo(p) = "phys"
    BY DEF Routes!ProxyStaysReachable, Undisturbed, Bypass
  <2>1. table[Bypass(p)] # "none" \/ ~Redirected
    <3>1. routes_phase \in {"down", "cleaning"} => ~Redirected
      BY <1>0, KindsOfRoutes DEF BypassFirst, Redirected, Agents, RoutesTyped
    <3> QED
      BY <1>0, <3>1 DEF BypassFirst, Bypassed, RoutesTyped, AddPhases
  <2> QED
    BY <2>1, WayToProxy
<1>2. ~DELETES_FAIL => Routes!LeakBound
  <2> SUFFICES ASSUME ~DELETES_FAIL PROVE Routes!LeakBound
    OBVIOUS
  <2>1. Agents \ (Routes!Recorded \cup lease) \subseteq Agents \ Safe /\ Agents \ Safe \subseteq Routes!Routes
    BY DEF Agents, Safe
  <2>2. /\ Cardinality(Agents \ (Routes!Recorded \cup lease)) <= Cardinality(Agents \ Safe)
        /\ Cardinality(Agents \ (Routes!Recorded \cup lease)) \in Nat /\ Cardinality(Agents \ Safe) \in Nat
    BY <2>1, FewerRoutes
  <2>3. ~wiped => Cardinality(Agents \ Safe) <= routes_crashes + lost + (IF adding # NoRoute THEN 1 ELSE 0)
    BY <1>0 DEF FileIsTrue
  <2>4. ~wiped => Cardinality(Agents \ (Routes!Recorded \cup lease)) <= routes_crashes + lost + (IF adding # NoRoute THEN 1 ELSE 0)
    BY <1>0, <2>2, <2>3 DEF RoutesTyped
  <2> QED
    BY <2>4, SameRouteCount DEF Routes!LeakBound, Agents
<1>3. Routes!FilterIsReleased
  BY <1>0 DEF Routes!FilterIsReleased, FilterHasOwner
<1> QED
  BY <1>0, <1>1, <1>2, <1>3 DEF Routes!RoutesAreRight

\* Two parts of the suite share the routes: the invariant is that of the first.
RoutesPart == part = "routes" => RoutesInv

\* For any proxies, networks, routes of the system's own, faults and crashes: neither Drop
\* nor a cleanup removes a route that was there before; no proxy is captured as a DNS
\* server; without crashes and failed deletions the connections to the proxies stay out of
\* the TUN throughout set-up, use and removal; with deletions that work a crash costs one
\* route at most and a failed write the routes it was about (RouteLease), except for a crash
\* on Windows that finds the state file removed and not replaced (persist); and nothing is
\* left in the packet filter but what a crash, a failed pfctl or an unread token left there
\* (MacosPfDnsGuard).
THEOREM RoutesKept == ASSUME Routes!RouteConstants PROVE SuiteSpec => []RoutesAreRight
<1>1. SuiteInit => RoutesPart
  BY RoutesInit DEF SuiteInit, RoutesPart
<1>2. RoutesPart /\ [SuiteNext]_suite_vars => RoutesPart'
  <2> SUFFICES ASSUME RoutesPart, [SuiteNext]_suite_vars PROVE RoutesPart'
    OBVIOUS
  <2>1. part' = part /\ (part = "routes" => [Routes!Next]_(Routes!vars))
    BY DEF SuiteNext, OnlyPool, OnlyNativeSlots, OnlyShard, OnlySessions, OnlyDirectSessions,
           OnlyDns, OnlyAndroidDns, OnlyRoutes, OnlyMacos, OnlyGuard, OnlyHelper, suite_vars,
           routes_vars, Routes!vars
  <2> QED
    BY <2>1, RoutesStep DEF RoutesPart
<1>3. RoutesPart => RoutesAreRight
  BY RoutesSafe DEF RoutesPart, RoutesAreRight
<1> QED
  BY <1>1, <1>2, <1>3, PTL DEF SuiteSpec
-----------------------------------------------------------------------------
(* The privileged helper (TunHelper). *)

HelperRequests == [conn : used, kind : {"start", "stop"}, lease : used \cup {NoConn}]

\* Connections are numbered as they are made, so a new one is nowhere yet.
HelperTyped ==
    /\ used \subseteq Conns /\ used = 1..Cardinality(used) /\ Cardinality(used) \in Nat
    /\ backlog \in Seq(HelperRequests) /\ restarts \in Nat
    /\ leases \subseteq used /\ orphans \subseteq used /\ bare \subseteq used
    /\ helper_answered \in [Conns -> {"none", "ok", "error"}]
    /\ \A c \in Conns \ used : helper_answered[c] = "none"
    /\ busy \in {"no", "start", "stop", "prepared", "failed"}
    /\ IF busy = "no" THEN helper_current = Helper!Idle
       ELSE helper_current \in HelperRequests /\ helper_current.kind = (IF busy = "stop" THEN "stop" ELSE "start")

\* The agent has one connection at a time, and a lease from its answer to its stop.
AgentIsSerial ==
    /\ agent \in {"idle", "starting", "running", "stopping"}
    /\ IF agent \in {"starting", "stopping"} THEN conn \in used /\ open = {conn} ELSE conn = NoConn /\ open = {}
    /\ IF agent \in {"running", "stopping"} THEN held \in used ELSE held = NoConn

\* The agent's request is the last one: once it is answered the helper has none left.
RequestIsLast ==
    /\ \A i \in 1..Len(backlog) : backlog[i].conn = conn => i = Len(backlog)
    /\ busy # "no" /\ backlog # << >> => helper_current.conn # conn
    /\ agent = "running" \/ (agent = "starting" /\ helper_answered[conn] # "none") => backlog = << >> /\ busy = "no"

\* It is what the agent waits for.
RequestIsOfAgent ==
    /\ \A i \in 1..Len(backlog) : backlog[i].conn = conn => (agent = "starting" <=> backlog[i].kind = "start")
    /\ busy # "no" /\ helper_current.conn = conn => (agent = "starting" <=> helper_current.kind = "start")

\* No two requests have a connection in common, and one to start has no lease yet.
RequestsAreNew ==
    /\ \A i, j \in 1..Len(backlog) : i # j => backlog[i].conn # backlog[j].conn
    /\ busy # "no" => \A i \in 1..Len(backlog) : backlog[i].conn # helper_current.conn
    /\ \A i \in 1..Len(backlog) : backlog[i].kind = "start" => backlog[i].conn \notin leases \cup orphans \cup bare
    /\ busy = "start" => helper_current.conn \notin leases \cup orphans \cup bare

\* Whose routes are in the table, and who has them in the map.
RoutesAreOfLease ==
    /\ helper_file = routes /\ routes \notin bare
    /\ busy = "prepared" => helper_current.conn \in bare \/ routes = helper_current.conn
    /\ agent = "running" => held \in bare \/ routes = held
    /\ agent = "starting" /\ helper_answered[conn] = "ok" => conn \in bare \/ routes = conn
    /\ agent = "starting" /\ conn \in leases => helper_answered[conn] = "ok"
    /\ routes = NoConn \/ routes \in leases \cup orphans \/ (busy = "prepared" /\ routes = helper_current.conn)

\* Somebody is about to stop lease l.
StopIsDue(l) == \/ \E i \in 1..Len(backlog) : backlog[i].kind = "stop" /\ backlog[i].lease = l
                \/ busy = "stop" /\ helper_current.lease = l

LeaseIsKnown ==
    /\ \A l \in leases : l \in orphans \/ held = l \/ (conn = l /\ agent = "starting") \/ StopIsDue(l)
    /\ agent = "stopping" /\ held \in leases => held \in orphans \/ StopIsDue(held)

\* The inductive invariant.
HelperInv == /\ HelperTyped /\ AgentIsSerial /\ RequestIsLast /\ RequestIsOfAgent
             /\ RequestsAreNew /\ RoutesAreOfLease /\ LeaseIsKnown
-----------------------------------------------------------------------------
LEMMA HelperInit == ASSUME Helper!HelperConstants, Helper!Init PROVE HelperInv
<1>1. /\ agent = "idle" /\ conn = NoConn /\ held = NoConn /\ open = {} /\ used = {} /\ backlog = << >> /\ busy = "no"
      /\ helper_current = Helper!Idle /\ helper_answered = [c \in Conns |-> "none"] /\ leases = {} /\ routes = NoConn
      /\ helper_file = NoConn /\ bare = {} /\ orphans = {} /\ restarts = 0
  BY DEF Helper!Init
<1>2. HelperTyped
  <2>1. Cardinality(used) = 0 /\ used = 1..0
    BY <1>1, FS_EmptySet
  <2> QED
    BY <1>1, <2>1 DEF HelperTyped
<1>3. AgentIsSerial /\ RequestIsLast /\ RequestIsOfAgent /\ RequestsAreNew /\ RoutesAreOfLease /\ LeaseIsKnown
  BY <1>1 DEF AgentIsSerial, RequestIsLast, RequestIsOfAgent, RequestsAreNew, RoutesAreOfLease, LeaseIsKnown
<1> QED
  BY <1>2, <1>3 DEF HelperInv

\* connect_helper: a number that nothing has yet, and the last request.
LEMMA HelperRequestIsNew ==
    ASSUME Helper!HelperConstants, HelperInv, NEW kind \in {"start", "stop"}, NEW l \in used \cup {NoConn},
           Helper!connect_helper(kind, l)
    PROVE  /\ conn' \in Conns /\ conn' \notin used /\ conn' # NoConn /\ open' = open \cup {conn'}
           /\ used' = used \cup {conn'} /\ used' \subseteq Conns /\ used' = 1..Cardinality(used') /\ Cardinality(used') \in Nat
           /\ backlog' \in Seq(HelperRequests') /\ Len(backlog') = Len(backlog) + 1 /\ Len(backlog) \in Nat
           /\ \A i \in 1..Len(backlog') : \/ i \in 1..Len(backlog) /\ backlog'[i] = backlog[i] /\ backlog[i] \in HelperRequests
                                          \/ /\ i = Len(backlog') /\ backlog'[i].conn = conn'
                                             /\ backlog'[i].kind = kind /\ backlog'[i].lease = l
           /\ HelperRequests \subseteq HelperRequests'
<1>0. HelperTyped
  BY DEF HelperInv
<1>1. Helper!Cardinality(used) = Cardinality(used)
  BY Zenon DEF Helper!Cardinality, Cardinality
<1> DEFINE n == Cardinality(used)
           r == [conn |-> conn', kind |-> kind, lease |-> l]
<1>2. /\ conn' \in Conns /\ conn' = n + 1 /\ used' = used \cup {conn'} /\ open' = open \cup {conn'}
      /\ backlog' = Append(backlog, r)
  BY <1>1 DEF Helper!connect_helper, Helper!Request
<1>3. n \in Nat /\ used = 1..n /\ backlog \in Seq(HelperRequests) /\ used \subseteq Conns
  BY <1>0 DEF HelperTyped
<1> HIDE DEF n
<1>4. used' = 1..(n + 1) /\ conn' \notin used
  BY <1>2, <1>3
<1>5. Cardinality(used') = n + 1
  <2>1. Cardinality(1..(n + 1)) = n + 1
    BY <1>3, FS_Interval
  <2> QED
    BY <1>4, <2>1
<1>6. HelperRequests \subseteq HelperRequests' /\ r \in HelperRequests' /\ r.conn = conn' /\ r.kind = kind /\ r.lease = l
  BY <1>2 DEF HelperRequests
<1> HIDE DEF r
<1>7. backlog \in Seq(HelperRequests')
  BY <1>3, <1>6
<1>8. /\ backlog' \in Seq(HelperRequests') /\ Len(backlog') = Len(backlog) + 1 /\ Len(backlog) \in Nat
      /\ \A i \in 1..Len(backlog') : (i \in 1..Len(backlog) /\ backlog'[i] = backlog[i]) \/ (i = Len(backlog') /\ backlog'[i] = r)
  BY <1>2, <1>6, <1>7
<1>9. \A i \in 1..Len(backlog) : backlog[i] \in HelperRequests
  BY <1>3
<1> QED
  BY <1>2, <1>3, <1>4, <1>5, <1>6, <1>8, <1>9 DEF Helper!HelperConstants

\* start_tun and stop_tun.
LEMMA AgentConnects == ASSUME Helper!HelperConstants, HelperInv, Helper!start_tun \/ Helper!stop_tun PROVE HelperInv'
<1>0. /\ HelperTyped /\ AgentIsSerial /\ RequestIsLast /\ RequestIsOfAgent /\ RequestsAreNew /\ RoutesAreOfLease /\ LeaseIsKnown
  BY DEF HelperInv
<1> DEFINE kind == IF agent = "idle" THEN "start" ELSE "stop"
           l == IF agent = "idle" THEN NoConn ELSE held
<1>1. /\ Helper!connect_helper(kind, l)
      /\ \/ agent = "idle" /\ agent' = "starting"
         \/ agent = "running" /\ agent' = "stopping"
      /\ UNCHANGED <<held, busy, helper_current, helper_answered, leases, routes, helper_file, bare, orphans, restarts>>
  BY DEF Helper!start_tun, Helper!stop_tun
<1>2. kind \in {"start", "stop"} /\ l \in used \cup {NoConn} /\ (kind = "start" <=> agent' = "starting")
      /\ (agent' = "stopping" => l = held /\ held \in used)
  BY <1>0, <1>1 DEF AgentIsSerial
<1> HIDE DEF kind, l
<1>3. /\ conn' \in Conns /\ conn' \notin used /\ conn' # NoConn /\ open' = open \cup {conn'}
      /\ used' = used \cup {conn'} /\ used' \subseteq Conns /\ used' = 1..Cardinality(used') /\ Cardinality(used') \in Nat
      /\ backlog' \in Seq(HelperRequests') /\ Len(backlog') = Len(backlog) + 1 /\ Len(backlog) \in Nat
      /\ \A i \in 1..Len(backlog') : \/ i \in 1..Len(backlog) /\ backlog'[i] = backlog[i] /\ backlog[i] \in HelperRequests
                                     \/ /\ i = Len(backlog') /\ backlog'[i].conn = conn'
                                        /\ backlog'[i].kind = kind /\ backlog'[i].lease = l
      /\ HelperRequests \subseteq HelperRequests'
  BY <1>1, <1>2, HelperRequestIsNew
<1>4. \A r \in HelperRequests : r.conn # conn'
  BY <1>3 DEF HelperRequests
<1>5. busy # "no" => helper_current \in HelperRequests /\ helper_current.conn # conn'
  BY <1>0, <1>4 DEF HelperTyped
<1>6. HelperTyped'
  <2>1. IF busy' = "no" THEN helper_current' = Helper!Idle'
        ELSE helper_current' \in HelperRequests' /\ helper_current'.kind = (IF busy' = "stop" THEN "stop" ELSE "start")
    BY <1>0, <1>1, <1>3 DEF HelperTyped, Helper!Idle, Helper!Request
  <2> QED
    BY <1>0, <1>1, <1>3, <2>1 DEF HelperTyped
<1>7. AgentIsSerial'
  BY <1>0, <1>1, <1>2, <1>3 DEF AgentIsSerial
<1>8. RequestIsLast'
  <2>1. helper_answered'[conn'] = "none"
    BY <1>0, <1>1, <1>3 DEF HelperTyped
  <2>2. \A i \in 1..Len(backlog') : backlog'[i].conn = conn' => i = Len(backlog')
    BY <1>3, <1>4
  <2> QED
    BY <1>1, <1>5, <2>1, <2>2 DEF RequestIsLast
<1>9. RequestIsOfAgent'
  BY <1>1, <1>2, <1>3, <1>4, <1>5 DEF RequestIsOfAgent
<1>10. RoutesAreOfLease'
  <2>1. helper_answered'[conn'] = "none" /\ conn' \notin leases
    BY <1>0, <1>1, <1>3 DEF HelperTyped
  <2> QED
    BY <1>0, <1>1, <2>1 DEF RoutesAreOfLease
<1>11. RequestsAreNew'
  <2>1. conn' \notin leases \cup orphans \cup bare
    BY <1>0, <1>3 DEF HelperTyped
  <2>2. \A i, j \in 1..Len(backlog') : i # j => backlog'[i].conn # backlog'[j].conn
    BY <1>0, <1>3, <1>4 DEF RequestsAreNew
  <2> QED
    BY <1>0, <1>1, <1>3, <1>5, <2>1, <2>2 DEF RequestsAreNew
<1>12. LeaseIsKnown'
  <2>1. \A k : StopIsDue(k) => StopIsDue(k)'
    <3>1. \A i \in 1..Len(backlog) : i \in 1..Len(backlog') /\ backlog'[i] = backlog[i]
      BY <1>3
    <3> QED
      BY <1>1, <3>1 DEF StopIsDue
  <2>2. agent' = "stopping" => StopIsDue(held)'
    <3>1. agent' = "stopping" => kind = "stop" /\ l = held
      BY <1>2
    <3>2. Len(backlog') \in 1..Len(backlog') /\ Len(backlog') \notin 1..Len(backlog)
      BY <1>3
    <3> QED
      BY <1>1, <1>3, <3>1, <3>2 DEF StopIsDue
  <2> QED
    BY <1>0, <1>1, <2>1, <2>2 DEF LeaseIsKnown, AgentIsSerial
<1> QED
  BY <1>6, <1>7, <1>8, <1>9, <1>10, <1>11, <1>12 DEF HelperInv

\* The agent has its answer, gives up or crashes: its connection is gone, its request stays.
LEMMA AgentLeaves ==
    ASSUME Helper!HelperConstants, HelperInv,
           Helper!TunStarted \/ Helper!TunStopped \/ Helper!StartTimeout \/ Helper!AgentCrash
    PROVE  HelperInv'
<1>0. /\ HelperTyped /\ AgentIsSerial /\ RequestIsLast /\ RequestIsOfAgent /\ RequestsAreNew /\ RoutesAreOfLease /\ LeaseIsKnown
  BY DEF HelperInv
<1>1. /\ conn' = NoConn /\ open' = {} /\ orphans \subseteq orphans'
      /\ UNCHANGED <<used, backlog, busy, helper_current, helper_answered, leases, routes, helper_file, bare, restarts>>
      /\ orphans' \subseteq used /\ (orphans' # orphans => backlog = << >> /\ busy = "no")
  BY <1>0 DEF Helper!TunStarted, Helper!TunStopped, Helper!StartTimeout, Helper!AgentCrash, Helper!helper, AgentIsSerial, RequestIsLast, HelperTyped
<1>2. \/ agent = "starting" /\ helper_answered[conn] = "ok" /\ agent' = "running" /\ held' = conn
      \/ /\ agent = "starting" /\ agent' = "idle" /\ held' = NoConn
         /\ helper_answered[conn] = "ok" => conn \in orphans'
      \/ agent = "running" /\ agent' = "idle" /\ held' = NoConn /\ held \in orphans'
      \/ agent = "stopping" /\ agent' = "idle" /\ held' = NoConn
  BY <1>0 DEF Helper!TunStarted, Helper!TunStopped, Helper!StartTimeout, Helper!AgentCrash, AgentIsSerial
<1>3. /\ \A i \in 1..Len(backlog) : backlog[i].conn # NoConn
      /\ busy # "no" => helper_current.conn # NoConn
  <2>1. \A r \in HelperRequests : r.conn # NoConn
    BY <1>0 DEF HelperRequests, HelperTyped, Helper!HelperConstants
  <2> QED
    BY <1>0, <2>1 DEF HelperTyped
<1>4. HelperTyped'
  <2>1. HelperRequests' = HelperRequests /\ Helper!Idle' = Helper!Idle
    BY <1>1 DEF HelperRequests, Helper!Idle
  <2> QED
    BY <1>0, <1>1, <2>1 DEF HelperTyped
<1>5. AgentIsSerial'
  BY <1>0, <1>1, <1>2 DEF AgentIsSerial
<1>6. RequestIsLast' /\ RequestIsOfAgent'
  BY <1>0, <1>1, <1>2, <1>3 DEF RequestIsLast, RequestIsOfAgent
<1>7. RequestsAreNew' /\ RoutesAreOfLease'
  BY <1>0, <1>1, <1>2 DEF RequestsAreNew, RoutesAreOfLease
<1>8. LeaseIsKnown'
  <2>1. \A k : StopIsDue(k)' <=> StopIsDue(k)
    BY <1>1 DEF StopIsDue
  <2>2. ASSUME NEW l \in leases PROVE l \in orphans' \/ held' = l \/ StopIsDue(l)
    BY <1>0, <1>1, <1>2 DEF LeaseIsKnown, RoutesAreOfLease, AgentIsSerial, HelperTyped, Helper!HelperConstants
  <2> QED
    BY <1>1, <1>2, <2>1, <2>2 DEF LeaseIsKnown
<1> QED
  BY <1>4, <1>5, <1>6, <1>7, <1>8 DEF HelperInv

\* run: the first request of the backlog is in hand.
LEMMA HelperTakes == ASSUME Helper!HelperConstants, HelperInv, Helper!run PROVE HelperInv'
<1>0. /\ HelperTyped /\ AgentIsSerial /\ RequestIsLast /\ RequestIsOfAgent /\ RequestsAreNew /\ RoutesAreOfLease /\ LeaseIsKnown
  BY DEF HelperInv
<1>1. /\ busy = "no" /\ backlog # << >> /\ helper_current' = Head(backlog) /\ backlog' = Tail(backlog) /\ busy' = helper_current'.kind
      /\ UNCHANGED <<agent, conn, held, open, used, helper_answered, leases, routes, helper_file, bare, orphans, restarts>>
  BY DEF Helper!run
<1>2. /\ helper_current' = backlog[1] /\ backlog[1] \in HelperRequests /\ 1 \in 1..Len(backlog) /\ Len(backlog) \in Nat
      /\ backlog' \in Seq(HelperRequests) /\ Len(backlog') = Len(backlog) - 1
      /\ \A i \in 1..Len(backlog') : i + 1 \in 1..Len(backlog) /\ backlog'[i] = backlog[i + 1]
  BY <1>0, <1>1 DEF HelperTyped
<1>3. HelperRequests' = HelperRequests /\ helper_current' \in HelperRequests /\ helper_current'.kind \in {"start", "stop"}
  BY <1>1, <1>2 DEF HelperRequests
<1>4. HelperTyped'
  BY <1>0, <1>1, <1>2, <1>3 DEF HelperTyped
<1>5. AgentIsSerial'
  BY <1>0, <1>1 DEF AgentIsSerial
<1>6. RequestIsLast'
  <2>1. \A i \in 1..Len(backlog') : backlog'[i].conn = conn => i = Len(backlog')
    BY <1>0, <1>2 DEF RequestIsLast
  <2>2. backlog' # << >> => helper_current'.conn # conn
    <3>1. backlog' # << >> => Len(backlog) # 1
      BY <1>2
    <3> QED
      BY <1>0, <1>2, <3>1 DEF RequestIsLast
  <2>3. ~(agent = "running" \/ (agent = "starting" /\ helper_answered[conn] # "none"))
    BY <1>0, <1>1 DEF RequestIsLast
  <2> QED
    BY <1>1, <2>1, <2>2, <2>3 DEF RequestIsLast
<1>7. RequestIsOfAgent'
  BY <1>0, <1>1, <1>2 DEF RequestIsOfAgent
<1>8. RoutesAreOfLease'
  BY <1>0, <1>1, <1>3 DEF RoutesAreOfLease
<1>9. RequestsAreNew'
  BY <1>0, <1>1, <1>2, <1>3 DEF RequestsAreNew
<1>10. LeaseIsKnown'
  <2>1. ASSUME NEW k, StopIsDue(k) PROVE StopIsDue(k)'
    <3>1. PICK i \in 1..Len(backlog) : backlog[i].kind = "stop" /\ backlog[i].lease = k
      BY <1>1, <2>1 DEF StopIsDue
    <3>2. CASE i = 1
      BY <1>1, <1>2, <3>1, <3>2 DEF StopIsDue
    <3>3. CASE i # 1
      <4>1. i - 1 \in 1..Len(backlog') /\ backlog'[i - 1] = backlog[i]
        BY <1>2, <3>3
      <4> QED
        BY <3>1, <4>1 DEF StopIsDue
    <3> QED
      BY <3>2, <3>3
  <2> QED
    BY <1>0, <1>1, <2>1 DEF LeaseIsKnown
<1> QED
  BY <1>4, <1>5, <1>6, <1>7, <1>8, <1>9, <1>10 DEF HelperInv

\* prepare_tun: whatever routes there were are on record, so they make way or stay as they
\* are for a lease that has none.
LEMMA HelperPrepares == ASSUME Helper!HelperConstants, HelperInv, Helper!prepare_tun PROVE HelperInv'
<1>0. /\ HelperTyped /\ AgentIsSerial /\ RequestIsLast /\ RequestIsOfAgent /\ RequestsAreNew /\ RoutesAreOfLease /\ LeaseIsKnown
  BY DEF HelperInv
<1>1. Helper!cleanup_stale = NoConn
  BY <1>0 DEF Helper!cleanup_stale, RoutesAreOfLease
<1>2. /\ busy = "start"
      /\ \/ busy' = "prepared" /\ helper_file' = helper_current.conn /\ routes' = helper_current.conn /\ bare' = bare
         \/ /\ busy' = "prepared" /\ bare' = bare \cup {helper_current.conn}
            /\ (helper_file' = NoConn /\ routes' = NoConn) \/ UNCHANGED <<routes, helper_file>>
         \/ busy' = "failed" /\ bare' = bare /\ ((helper_file' = NoConn /\ routes' = NoConn) \/ UNCHANGED <<routes, helper_file>>)
      /\ UNCHANGED <<agent, conn, held, open, used, backlog, helper_current, helper_answered, leases, orphans, restarts>>
  BY <1>1 DEF Helper!prepare_tun, Helper!CleanedOrNot
<1>3. /\ helper_current \in HelperRequests /\ helper_current.kind = "start" /\ helper_current.conn \in used
      /\ helper_current.conn # NoConn /\ NoConn \notin used
  BY <1>0, <1>2 DEF HelperTyped, HelperRequests, Helper!HelperConstants
<1>4. HelperTyped' /\ AgentIsSerial'
  BY <1>0, <1>2, <1>3 DEF HelperTyped, AgentIsSerial, HelperRequests, Helper!Idle
<1>5. RequestIsLast' /\ RequestIsOfAgent'
  BY <1>0, <1>2 DEF RequestIsLast, RequestIsOfAgent
<1>6. RequestsAreNew'
  BY <1>0, <1>2 DEF RequestsAreNew
<1>7. RoutesAreOfLease'
  <2>1. agent # "running" /\ (agent = "starting" => helper_answered[conn] = "none")
    BY <1>0, <1>2 DEF RequestIsLast
  <2>2. routes # helper_current.conn /\ helper_current.conn \notin bare
    BY <1>0, <1>2, <1>3 DEF RequestsAreNew, RoutesAreOfLease
  <2>3. NoConn \notin bare'
    BY <1>0, <1>2, <1>3 DEF HelperTyped
  <2> QED
    BY <1>0, <1>2, <2>1, <2>2, <2>3 DEF RoutesAreOfLease
<1>8. LeaseIsKnown'
  <2>1. \A k : StopIsDue(k)' <=> StopIsDue(k)
    BY <1>2 DEF StopIsDue
  <2> QED
    BY <1>0, <1>2, <2>1 DEF LeaseIsKnown
<1> QED
  BY <1>4, <1>5, <1>6, <1>7, <1>8 DEF HelperInv

\* The request in hand is answered, and if it is the agent's it was the last.
LEMMA HelperAnswers ==
    ASSUME Helper!HelperConstants, HelperInv, Helper!send_started \/ Helper!handle_stop \/ Helper!send_error
    PROVE  HelperInv'
<1>0. /\ HelperTyped /\ AgentIsSerial /\ RequestIsLast /\ RequestIsOfAgent /\ RequestsAreNew /\ RoutesAreOfLease /\ LeaseIsKnown
  BY DEF HelperInv
<1>1. /\ busy # "no" /\ busy' = "no" /\ helper_current' = Helper!Idle
      /\ UNCHANGED <<agent, conn, held, open, used, backlog, bare, orphans, restarts>>
  BY DEF Helper!send_started, Helper!handle_stop, Helper!send_error
<1>2. /\ helper_current \in HelperRequests /\ helper_current.conn \in used /\ helper_current.conn \in Conns
      /\ helper_current.kind = (IF busy = "stop" THEN "stop" ELSE "start")
      /\ helper_answered \in [Conns -> {"none", "ok", "error"}]
  BY <1>0, <1>1 DEF HelperTyped, HelperRequests
<1>3. /\ helper_answered' \in [Conns -> {"none", "ok", "error"}]
      /\ \A c \in Conns : helper_answered'[c] = helper_answered[c] \/ (c = helper_current.conn /\ helper_current.conn \in open)
  BY <1>2 DEF Helper!send_started, Helper!handle_stop, Helper!send_error
<1>4. agent # "running" /\ (agent = "starting" => helper_answered[conn] = "none")
  BY <1>0, <1>1 DEF RequestIsLast
<1>5. /\ helper_current.conn \in open => helper_current.conn = conn /\ backlog = << >>
      /\ helper_current.conn \in open => (agent = "starting" <=> busy # "stop")
  BY <1>0, <1>1, <1>2 DEF AgentIsSerial, RequestIsLast, RequestIsOfAgent
<1>6. \/ busy = "prepared" /\ helper_current.conn \in open /\ leases' = leases \cup {helper_current.conn} /\ UNCHANGED <<routes, helper_file>>
         /\ helper_answered'[helper_current.conn] = "ok"
      \/ leases' = leases /\ busy = "prepared" /\ helper_current.conn \notin open /\ helper_answered' = helper_answered
         /\ Helper!DropGuard(helper_current.conn)
      \/ leases' = leases \ {helper_current.lease} /\ busy = "stop" /\ Helper!DropGuard(helper_current.lease)
      \/ UNCHANGED <<leases, routes, helper_file>> /\ busy = "stop" /\ helper_current.lease \notin leases
      \/ UNCHANGED <<leases, routes, helper_file>> /\ busy = "failed" /\ (helper_current.conn \in open => helper_answered'[helper_current.conn] = "error")
  BY <1>2 DEF Helper!send_started, Helper!handle_stop, Helper!send_error
<1>7. HelperTyped'
  <2>1. leases' \subseteq used /\ HelperRequests' = HelperRequests /\ Helper!Idle' = Helper!Idle
    BY <1>0, <1>1, <1>2, <1>6 DEF HelperTyped, HelperRequests, Helper!Idle
  <2> QED
    BY <1>0, <1>1, <1>2, <1>3, <2>1 DEF HelperTyped
<1>8. AgentIsSerial'
  BY <1>0, <1>1 DEF AgentIsSerial
<1>9. RequestIsLast'
  <2>1. agent = "starting" /\ helper_answered'[conn] # "none" => backlog = << >>
    BY <1>0, <1>3, <1>4, <1>5 DEF AgentIsSerial, HelperTyped
  <2> QED
    BY <1>0, <1>1, <1>4, <2>1 DEF RequestIsLast
<1>10. RequestIsOfAgent'
  BY <1>0, <1>1 DEF RequestIsOfAgent
<1>11. RoutesAreOfLease'
  <2>1. routes \notin bare /\ NoConn \notin bare /\ helper_file = routes
    BY <1>0 DEF RoutesAreOfLease, HelperTyped, Helper!HelperConstants
  <2>2. /\ helper_file' = routes' /\ routes' \notin bare
        /\ routes' = NoConn \/ routes' \in leases' \cup orphans
    BY <1>0, <1>6, <2>1 DEF RoutesAreOfLease, Helper!DropGuard
  <2>3. ASSUME agent = "starting"
        PROVE  /\ helper_answered'[conn] = "ok" => conn \in bare \/ routes' = conn
               /\ conn \in leases' => helper_answered'[conn] = "ok"
    <3>1. conn \in Conns /\ helper_answered[conn] = "none" /\ conn \notin leases
      BY <1>0, <1>4, <2>3 DEF RoutesAreOfLease, AgentIsSerial, HelperTyped
    <3> QED
      BY <1>0, <1>3, <1>5, <1>6, <2>3, <3>1 DEF RoutesAreOfLease
  <2> QED
    BY <1>1, <1>4, <2>2, <2>3 DEF RoutesAreOfLease
<1>12. RequestsAreNew'
  BY <1>0, <1>1, <1>6 DEF RequestsAreNew
<1>13. LeaseIsKnown'
  <2>1. \A k \in leases' : StopIsDue(k) => StopIsDue(k)'
    BY <1>1, <1>6 DEF StopIsDue
  <2>2. \A k \in leases' : k \in leases \/ (k = conn /\ agent = "starting")
    BY <1>5, <1>6
  <2> QED
    BY <1>0, <1>1, <2>1, <2>2 DEF LeaseIsKnown, AgentIsSerial
<1> QED
  BY <1>7, <1>8, <1>9, <1>10, <1>11, <1>12, <1>13 DEF HelperInv

\* HelperRestart: nobody knows the leases, the file lists the routes.
LEMMA HelperDies == ASSUME Helper!HelperConstants, HelperInv, Helper!HelperRestart PROVE HelperInv'
<1>0. /\ HelperTyped /\ AgentIsSerial /\ RequestIsLast /\ RequestIsOfAgent /\ RequestsAreNew /\ RoutesAreOfLease /\ LeaseIsKnown
  BY DEF HelperInv
<1>1. /\ restarts' = restarts + 1 /\ backlog' = << >> /\ busy' = "no" /\ helper_current' = Helper!Idle /\ leases' = {}
      /\ orphans' = (orphans \cup leases \cup (IF busy = "prepared" THEN {helper_current.conn} ELSE {}))
      /\ helper_answered' = [c \in Conns |-> IF c \in open /\ helper_answered[c] = "none" THEN "error" ELSE helper_answered[c]]
      /\ UNCHANGED <<agent, conn, held, open, used, routes, helper_file, bare>>
  BY DEF Helper!HelperRestart
<1>2. /\ helper_answered' \in [Conns -> {"none", "ok", "error"}] /\ \A c \in Conns : helper_answered'[c] = "ok" => helper_answered[c] = "ok"
      /\ \A c \in Conns \ open : helper_answered'[c] = helper_answered[c]
  BY <1>0, <1>1 DEF HelperTyped
<1>3. open \subseteq used /\ used \subseteq Conns
  BY <1>0 DEF AgentIsSerial, HelperTyped
<1>4. HelperTyped'
  <2>1. backlog' \in Seq(HelperRequests') /\ Helper!Idle' = Helper!Idle /\ restarts' \in Nat
    BY <1>0, <1>1 DEF HelperTyped, Helper!Idle
  <2>2. orphans' \subseteq used
    BY <1>0, <1>1 DEF HelperTyped, HelperRequests
  <2> QED
    BY <1>0, <1>1, <1>2, <1>3, <2>1, <2>2 DEF HelperTyped
<1>5. AgentIsSerial' /\ RequestIsLast' /\ RequestIsOfAgent' /\ RequestsAreNew'
  BY <1>0, <1>1 DEF AgentIsSerial, RequestIsLast, RequestIsOfAgent, RequestsAreNew
<1>6. RoutesAreOfLease'
  BY <1>0, <1>1, <1>2, <1>3 DEF RoutesAreOfLease, AgentIsSerial
<1>7. LeaseIsKnown'
  BY <1>1 DEF LeaseIsKnown
<1> QED
  BY <1>4, <1>5, <1>6, <1>7 DEF HelperInv

LEMMA HelperStep == ASSUME Helper!HelperConstants, HelperInv, [Helper!Next]_(Helper!vars) PROVE HelperInv'
<1>1. CASE UNCHANGED Helper!vars
  <2>1. \A k : StopIsDue(k)' <=> StopIsDue(k)
    BY <1>1 DEF Helper!vars, StopIsDue
  <2> QED
    BY <1>1, <2>1 DEF Helper!vars, HelperInv, HelperTyped, HelperRequests, AgentIsSerial, RequestIsLast, RequestIsOfAgent,
       RequestsAreNew, RoutesAreOfLease, LeaseIsKnown, Helper!Idle
<1> QED
  BY <1>1, AgentConnects, AgentLeaves, HelperTakes, HelperPrepares, HelperAnswers, HelperDies DEF Helper!Next

\* For any number of connections and helper restarts, however late the requests of earlier
\* runs are handled (helper_service.rs accepts one connection after the other): the routes
\* of a running agent are its own and the state file lists them, unless RouteGuard::install
\* had failed for its lease; a lease in the helper's map is held, on its way to the agent,
\* about to be stopped or an orphan; and with the agent idle and no request left, only an
\* orphan's routes are there, on record.
THEOREM HelperFollowsAgent ==
    ASSUME Helper!HelperConstants PROVE SuiteSpec => []HelperRoutesFollowAgent
<1>1. SuiteInit => HelperInv
  BY HelperInit DEF SuiteInit
<1>2. HelperInv /\ [SuiteNext]_suite_vars => HelperInv'
  <2>1. [SuiteNext]_suite_vars => [Helper!Next]_(Helper!vars)
    BY DEF SuiteNext, OnlyPool, OnlyNativeSlots, OnlyShard, OnlySessions, OnlyDirectSessions,
           OnlyDns, OnlyAndroidDns, OnlyRoutes, OnlyMacos, OnlyGuard, OnlyHelper, suite_vars,
           helper_vars, Helper!vars
  <2> QED
    BY <2>1, HelperStep
<1>3. ASSUME HelperInv PROVE HelperRoutesFollowAgent
  <2>0. /\ HelperTyped /\ AgentIsSerial /\ RequestIsLast /\ RequestIsOfAgent /\ RequestsAreNew /\ RoutesAreOfLease /\ LeaseIsKnown
    BY <1>3 DEF HelperInv
  <2>1. Helper!RunningAgentHasRoutes
    BY <2>0 DEF Helper!RunningAgentHasRoutes, RoutesAreOfLease
  <2>2. Helper!LeaseHasHolder
    <3> SUFFICES ASSUME NEW l \in leases, StopIsDue(l)
                 PROVE  \E r \in Helper!Range(backlog) \cup {helper_current} : r.kind = "stop" /\ r.lease = l
      BY <2>0 DEF Helper!LeaseHasHolder, LeaseIsKnown
    <3>1. CASE busy = "stop" /\ helper_current.lease = l
      BY <2>0, <3>1 DEF HelperTyped
    <3>2. CASE \E i \in 1..Len(backlog) : backlog[i].kind = "stop" /\ backlog[i].lease = l
      <4>1. PICK i \in 1..Len(backlog) : backlog[i].kind = "stop" /\ backlog[i].lease = l
        BY <3>2
      <4>2. backlog[i] \in Helper!Range(backlog)
        BY <2>0 DEF Helper!Range, HelperTyped
      <4> QED
        BY <4>1, <4>2
    <3> QED
      BY <3>1, <3>2 DEF StopIsDue
  <2>3. Helper!NothingLeftBehind
    <3> SUFFICES ASSUME agent = "idle", backlog = << >>, busy = "no", routes # NoConn
                 PROVE  routes \in orphans /\ helper_file = routes
      BY DEF Helper!NothingLeftBehind
    <3>1. \A l : ~StopIsDue(l)
      BY DEF StopIsDue
    <3>2. held = NoConn
      BY <2>0 DEF AgentIsSerial
    <3> QED
      BY <2>0, <3>1, <3>2 DEF RoutesAreOfLease, LeaseIsKnown
  <2> QED
    BY <2>1, <2>2, <2>3 DEF HelperRoutesFollowAgent, Helper!HelperRoutesFollowAgent
<1> QED
  BY <1>1, <1>2, <1>3, PTL DEF SuiteSpec
=============================================================================
