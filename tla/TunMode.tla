------------------------------ MODULE TunMode ------------------------------
(***************************************************************************)
(* TUN mode of the desktop agent: AgentServer::run                         *)
(* (desktop-agent-be/src/server.rs) starts run_tun_mode (tun_handler.rs)   *)
(* beside its listener; run_tun_mode fixes the way to the proxy, creates   *)
(* the device, starts the supervisor of Netstack and takes the routes of   *)
(* the host, which it has to give back whatever its tasks do.              *)
(***************************************************************************)
EXTENDS Netstack

VARIABLES
    server,     \* AgentServer::run: "serving", "waiting", "done"
    mode,       \* run_tun_mode: "routing", "ready", "up", "restored", "returned"
    watched,    \* tun_task_running
    aborting,   \* abort_all was called
    partial,    \* configure_proxy_routing knows the address of an exit only
    bind,       \* what new connections to the proxy are bound to
    taken       \* routes, DNS settings or the helper's lease are held

vars == <<nvars, server, mode, watched, aborting, partial, bind, taken>>
svars == <<server, watched, aborting>>

Init ==
    /\ NetstackInit
    /\ server = "serving" /\ mode = "routing" /\ watched = TRUE /\ aborting = FALSE
    /\ partial = FALSE /\ bind = "none" /\ taken = FALSE

Cancel == ~shutdown /\ shutdown' = TRUE
          /\ UNCHANGED <<cancelled, task, left, sup, completed, next, stuck, faults>>
          /\ UNCHANGED <<svars, mode, partial, bind, taken>>

\* Probing until an exit with an interface is known, the wait of 60 s is over
\* or the agent stops; then the session managers are told.
configure_proxy_routing ==
    /\ mode = "routing"
    /\ \/ bind' = "interface" /\ mode' = "ready" /\ UNCHANGED partial
       \/ ~partial /\ partial' = TRUE /\ UNCHANGED <<mode, bind>>
       \/ bind' = (IF partial THEN "address" ELSE "none") /\ mode' = "ready" /\ UNCHANGED partial
       \/ shutdown /\ bind' = "none" /\ mode' = "ready" /\ UNCHANGED partial
    /\ UNCHANGED <<nvars, svars, taken>>

\* Without an await: the device, the supervisor and the routes.  A failed step
\* returns and drops what the earlier ones hold; a route guard that cannot be
\* installed is done without.
run_tun_mode ==
    /\ mode = "ready"
    /\ \/ /\ mode' = "returned"     \* stopped meanwhile, no device, or no netstack
          /\ UNCHANGED <<nvars, taken>>
       \/ /\ ~shutdown /\ mode' = "up" /\ taken' \in BOOLEAN
          /\ spawn_netstack_supervisor
    /\ UNCHANGED <<svars, partial, bind>>

\* Faulty variant: the tasks are awaited before the routes are given back.
Restore_late ==
    /\ mode = "up" /\ shutdown /\ sup \in {"done", "aborted"}
    /\ mode' = "restored" /\ bind' = "none" /\ taken' = FALSE
    /\ UNCHANGED <<nvars, svars, partial>>
\* The host is put back first: no task that hangs may delay it.
Restore ==
    /\ mode = "up" /\ shutdown
    /\ mode' = "restored" /\ bind' = "none" /\ taken' = FALSE
    /\ UNCHANGED <<nvars, svars, partial>>

Awaiting == sup = "stop" /\ next <= Len(TASKS) /\ task[TASKS[next]] = "aborted"

\* The supervisor is over, or after 3 s is aborted where it awaits a task; the
\* handles it drops detach their tasks.
wait_tun_task ==
    /\ mode = "restored"
    /\ \/ sup \in {"done", "aborted"} /\ mode' = "returned" /\ UNCHANGED sup
       \/ Awaiting /\ sup' = "aborted" /\ UNCHANGED mode
    /\ UNCHANGED <<shutdown, cancelled, task, left, completed, next, stuck, faults>>
    /\ UNCHANGED <<svars, partial, bind, taken>>

\* AgentServer::run: an early end of TUN mode leaves the listener running.
TunEnded ==
    /\ server = "serving" /\ watched /\ mode = "returned"
    /\ watched' = FALSE /\ server' \in (IF shutdown THEN {"serving", "done"} ELSE {"serving"})
    /\ UNCHANGED <<nvars, mode, aborting, partial, bind, taken>>
Stop ==
    /\ server = "serving" /\ shutdown
    /\ server' = IF watched THEN "waiting" ELSE "done"
    /\ UNCHANGED <<nvars, mode, watched, aborting, partial, bind, taken>>
\* The end of TUN mode, or 4 s in which it probes, works or waits.
ShutdownTimeout ==
    /\ server = "waiting"
    /\ \/ mode = "returned" /\ UNCHANGED aborting
       \/ mode \in {"routing", "ready", "restored"} /\ aborting' = TRUE
    /\ server' = "done"
    /\ UNCHANGED <<nvars, mode, watched, partial, bind, taken>>
\* An aborted run_tun_mode is dropped at an await, its guards with it; the
\* supervisor's handle is detached.
Dropped ==
    /\ aborting /\ mode \in {"routing", "up", "restored"}
    /\ mode' = "returned" /\ taken' = FALSE
    /\ UNCHANGED <<nvars, svars, partial, bind>>

Quiet == UNCHANGED <<svars, mode, partial, bind, taken>>
Finished ==
    /\ server = "done" /\ mode = "returned"
    /\ stuck # NoTask \/ (sup \in {"absent", "done", "aborted"} /\ \A k \in Kinds : Over(k))
    /\ UNCHANGED vars

Next ==
    \/ Cancel \/ configure_proxy_routing \/ run_tun_mode \/ Restore \/ wait_tun_task
    \/ TunEnded \/ Stop \/ ShutdownTimeout \/ Dropped
    \/ run_netstack_supervisor /\ Quiet
    \/ \E k \in Kinds : spawn_packet_bridge(k) /\ Quiet
    \/ \E k \in Kinds : TaskFails(k) /\ UNCHANGED shutdown /\ Quiet
    \/ Finished

\* Probing may take for ever; the steps of the tasks, of run_tun_mode past it
\* and of the server are taken, the timers included.
WeaklyFair(i) ==
    \/ i = 1 /\ run_netstack_supervisor /\ Quiet
    \/ i = 2 /\ (run_tun_mode \/ Restore \/ wait_tun_task \/ Dropped)
    \/ i = 3 /\ (TunEnded \/ Stop \/ ShutdownTimeout)
    \/ i = 4 /\ TaskSteps /\ Quiet
-----------------------------------------------------------------------------
TypeOK ==
    /\ NetstackTypeOK
    /\ server \in {"serving", "waiting", "done"} /\ watched \in BOOLEAN /\ aborting \in BOOLEAN
    /\ mode \in {"routing", "ready", "up", "restored", "returned"}
    /\ partial \in BOOLEAN /\ bind \in {"none", "address", "interface"} /\ taken \in BOOLEAN

\* Once the agent is told to stop, the host gets its routes and DNS settings
\* back and the server returns, although a task of the stack hangs, the way to
\* the proxy is still being probed, or TUN mode is aborted before it has them or while
\* it waits for its tasks: the timer does not fire while they are held.
NetworkIsRestored == shutdown ~> [](server = "done" /\ ~taken)

\* A stack whose tasks fail is up again in the end, unless the agent stops or
\* a task hangs; and a stopped agent leaves no task running.
StackRecovers ==
    /\ [](mode = "up" => <>(Healthy \/ shutdown \/ stuck # NoTask))
    /\ shutdown ~> ((\A k \in Kinds : Over(k)) \/ stuck # NoTask)
=============================================================================
