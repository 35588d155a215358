----------------------------- MODULE AndroidVpn ----------------------------
(***************************************************************************)
(* The VPN of the Android agent: PpaassVpnService and the handle it holds  *)
(* on the native agent (native/src/jni_api.rs), whose thread runs          *)
(* run_android_agent (netstack.rs) and its own copy of the supervisor of   *)
(* Netstack (netstack/supervisor.rs, bridge.rs).                           *)
(***************************************************************************)
EXTENDS Netstack

CONSTANTS
    MaxStarts     \* bound: starts of the native agent

VpnConstants == MaxStarts \in Nat

VARIABLES
    java,         \* the main thread: "free", or "joining" in NativeAgent.stop
    handle,       \* nativeHandle is not 0
    health,       \* nativeHealthCheck is posted
    thread,       \* the thread of the handle: "none", "starting", "up", "over"
    tun,          \* the fd: "closed", "raw" (an integer), "owned", "leaked"
    protector,    \* SOCKET_PROTECTOR is set
    starts

vvars == <<java, handle, health, thread, tun, protector, starts>>
avars == <<nvars, vvars>>

VpnInit ==
    /\ NetstackInit
    /\ java = "free" /\ handle = FALSE /\ health = FALSE /\ thread = "none"
    /\ tun = "closed" /\ protector = FALSE /\ starts = 0

\* The token, the tasks and the supervisor are those of the new handle.
Fresh ==
    /\ shutdown' = FALSE /\ cancelled' = FALSE /\ sup' = "absent"
    /\ task' = [k \in Kinds |-> "absent"] /\ left' = {k \in Kinds : ~Over(k)}
    /\ completed' = NoTask /\ next' = 1 /\ UNCHANGED <<stuck, faults>>

\* Without a handle: establish() and NativeAgent.start, which sets the
\* protector before it spawns the thread; what fails closes the fd.
startAgent ==
    /\ java = "free" /\ starts < MaxStarts /\ starts' = starts + 1
    /\ \/ handle /\ health' = TRUE /\ UNCHANGED <<nvars, handle, thread, tun, protector>>
       \/ ~handle /\ UNCHANGED <<nvars, handle, health, thread, tun, protector>>
       \/ /\ ~handle /\ handle' = TRUE /\ health' = TRUE /\ thread' = "starting"
          /\ tun' = "raw" /\ protector' = TRUE /\ Fresh
    /\ UNCHANGED java

\* netstack/supervisor.rs is a copy of the desktop's.
StartStack == spawn_netstack_supervisor
Supervisor == run_netstack_supervisor /\ UNCHANGED vvars

\* A runtime that cannot be built or a config that does not validate ends the
\* thread while nobody owns the fd; a failure after that drops the device.
run_android_agent ==
    /\ thread = "starting"
    /\ \/ thread' = "over" /\ tun' = "leaked" /\ UNCHANGED nvars
       \/ thread' = "over" /\ tun' = "closed" /\ UNCHANGED nvars
       \/ thread' = "up" /\ tun' = "owned" /\ StartStack
    /\ UNCHANGED <<java, handle, health, protector, starts>>

\* After the token the supervisor is awaited without a timeout; then the
\* runtime and with it the device go.
AgentReturns ==
    /\ thread = "up" /\ shutdown /\ sup = "done"
    /\ thread' = "over" /\ tun' = "closed"
    /\ UNCHANGED <<nvars, java, handle, health, protector, starts>>

\* A task ends; the end of file or an error of the fd stops the whole agent.
AndroidTaskFails(k) ==
    /\ TaskFails(k)
    /\ shutdown' \in (IF k \in {"tun_to_stack", "stack_to_tun"} THEN {shutdown, TRUE} ELSE {shutdown})
    /\ UNCHANGED vvars

\* Faulty variant: the protector is cleared before the thread is joined.
stopVpnComponents_early ==
    /\ java' = (IF handle THEN "joining" ELSE "free") /\ health' = FALSE
    /\ shutdown' = (shutdown \/ handle) /\ protector' = FALSE
    /\ UNCHANGED <<cancelled, task, left, sup, completed, next, stuck, faults>>
    /\ UNCHANGED <<handle, thread, tun, starts>>
stopVpnComponents ==
    /\ java' = (IF handle THEN "joining" ELSE "free") /\ health' = FALSE
    /\ shutdown' = (shutdown \/ handle)
    /\ UNCHANGED <<cancelled, task, left, sup, completed, next, stuck, faults>>
    /\ UNCHANGED <<handle, thread, tun, protector, starts>>

\* A stop intent, a revoked permission or onDestroy.
stopAgent == java = "free" /\ handle /\ stopVpnComponents
\* Every 2 s while there is a handle.
nativeHealthCheck ==
    /\ java = "free" /\ health /\ handle /\ thread = "over"
    /\ stopVpnComponents
\* stop joins the thread, then clears the protector.
NativeAgent_stop ==
    /\ java = "joining" /\ thread = "over"
    /\ java' = "free" /\ handle' = FALSE /\ protector' = FALSE
    /\ UNCHANGED <<nvars, health, thread, tun, starts>>

VpnNext ==
    \/ startAgent \/ run_android_agent \/ AgentReturns
    \/ stopAgent \/ nativeHealthCheck \/ NativeAgent_stop
    \/ Supervisor
    \/ \E k \in Kinds : spawn_packet_bridge(k) /\ UNCHANGED vvars
    \/ \E k \in Kinds : AndroidTaskFails(k)

\* The native threads run, and the main thread comes back to its callbacks.
VpnWeaklyFair(i) ==
    \/ i = 1 /\ Supervisor
    \/ i = 2 /\ (run_android_agent \/ AgentReturns)
    \/ i = 3 /\ (nativeHealthCheck \/ NativeAgent_stop)
    \/ i = 4 /\ TaskSteps /\ UNCHANGED vvars
-----------------------------------------------------------------------------
VpnTypeOK ==
    /\ NetstackTypeOK
    /\ java \in {"free", "joining"} /\ handle \in BOOLEAN /\ health \in BOOLEAN
    /\ thread \in {"none", "starting", "up", "over"} /\ protector \in BOOLEAN
    /\ tun \in {"closed", "raw", "owned", "leaked"} /\ starts \in 0..MaxStarts

\* While native code can open sockets, they are kept out of the VPN; and a
\* service that has let go of its agent has no thread, no task and, unless the
\* agent failed before it owned the fd, no VPN interface left.
SocketsStayOutside ==
    /\ thread \in {"starting", "up"} => protector
    /\ ~handle => /\ thread \in {"none", "over"} /\ ~protector
                  /\ tun \in {"closed", "leaked"} /\ \A k \in Kinds : Over(k)

\* The main thread comes back from every stop, and an agent that ended by
\* itself is noticed, unless a task of the stack hangs.
VpnStops ==
    /\ java = "joining" ~> (java = "free" \/ stuck # NoTask)
    /\ shutdown ~> (~handle \/ stuck # NoTask)
=============================================================================
