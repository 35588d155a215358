----------------------------- MODULE UdpSlots ------------------------------
(***************************************************************************)
(* The agent's native UDP session slots and the automatic fallback to      *)
(* TCP/Yamux: YamuxSessionManager::connect_to_target and                   *)
(* open_udp_target_stream_in_slot (desktop-agent-be/src/yamux_session/     *)
(* manager/connect.rs), over the closed and timed_out flags of             *)
(* UdpClientConnection (common/src/client_connection/udp.rs).              *)
(*                                                                         *)
(* A slot's lock is held across the handshake.  When a session's driver    *)
(* returns, its command receiver is gone at once, so is_closed() answers   *)
(* true; timed_out is stored by a later step of the same task.  What       *)
(* happens on the Yamux side is in YamuxPool: here a request that takes    *)
(* that route is over.  Session ids are recycled once unused.              *)
(***************************************************************************)
EXTENDS Integers, FiniteSets

CONSTANTS Requests,   \* concurrent calls of connect_to_target
          Slots,      \* indices of udp_sessions
          Mode        \* transport_mode: "auto", "udp" or "tcp"

None == 0
SlotsConstants == IsFiniteSet(Requests) /\ IsFiniteSet(Slots) /\ None \notin Requests
Ids == 1..(Cardinality(Slots) + Cardinality(Requests))

VARIABLES
    slot,       \* udp_sessions: the session of each slot, or None
    holder,     \* the request that holds the slot's lock across a connect, or None
    fallback,   \* auto_udp_fallback_to_yamux
    session,    \* each session: "live", or ended ("timeout", "error"), then "timed_out"
    req         \* the requests

vars == <<slot, holder, fallback, session, req>>

NewRequest == [pc |-> "idle", slot |-> None, attempt |-> 0, handle |-> None]

Init == /\ slot = [s \in Slots |-> None] /\ holder = [s \in Slots |-> None]
        /\ fallback = [s \in Slots |-> FALSE]
        /\ session = [i \in Ids |-> "live"]
        /\ req = [r \in Requests |-> NewRequest]

is_closed(i) == session[i] # "live"
timed_out(i) == session[i] = "timed_out"

uses_native_udp_for(mode, transport) == mode \in {"auto", "udp"} /\ transport = "udp"

proxy_stream_route(mode, manager_transport, transport) ==
    CASE transport # manager_transport -> "InvalidManager"
      [] transport = manager_transport /\ transport = "tcp" -> "DirectTcp"
      [] transport = manager_transport /\ transport = "udp" ->
           (CASE mode = "auto" -> "Auto"
              [] mode # "auto" /\ uses_native_udp_for(mode, transport) -> "NativeUdp"
              [] OTHER -> "Yamux")

\* A request of the UDP manager goes to the next slot (any one here), unless the
\* slot has fallen back.
connect_to_target(r) ==
    /\ req[r].pc = "idle"
    /\ proxy_stream_route(Mode, "udp", "udp") \in {"Auto", "NativeUdp"}
    /\ \E s \in Slots :
         /\ Mode = "auto" => ~fallback[s]
         /\ req' = [req EXCEPT ![r] = [NewRequest EXCEPT !.pc = "lock", !.slot = s]]
    /\ UNCHANGED <<slot, holder, fallback, session>>

\* The other routes, and the slots that have fallen back, leave this module's state.
ElsewhereRoute(r) ==
    /\ req[r].pc = "idle"
    /\ \/ proxy_stream_route(Mode, "udp", "udp") = "Yamux"
       \/ Mode = "auto" /\ \E s \in Slots : fallback[s]
    /\ UNCHANGED vars
-----------------------------------------------------------------------------
(* open_udp_target_stream_in_slot *)

\* The slot is locked and inspected: a session known to have timed out sends an
\* automatic request to Yamux, a live one is used, otherwise one is set up.
LockSlot(r) ==
    /\ req[r].pc = "lock"
    /\ LET s == req[r].slot
           i == slot[s]
       IN /\ holder[s] = None
          /\ CASE Mode = "auto" /\ i # None /\ timed_out(i) ->
                    req' = [req EXCEPT ![r].pc = "fall_back"] /\ UNCHANGED holder
               [] ~(Mode = "auto" /\ i # None /\ timed_out(i)) /\ (i = None \/ is_closed(i)) ->
                    /\ holder' = [holder EXCEPT ![s] = r]
                    /\ req' = [req EXCEPT ![r].pc = "connect"]
               [] OTHER -> /\ req' = [req EXCEPT ![r].pc = "open", ![r].handle = i]
                           /\ UNCHANGED holder
    /\ UNCHANGED <<slot, fallback, session>>

FreeIds == {i \in Ids : /\ \A s \in Slots : slot[s] # i
                        /\ \A r \in Requests : req[r].handle # i}
FreshId == CHOOSE i \in FreeIds : \A j \in FreeIds : i <= j

\* A session that neither a slot nor a request holds any more is gone; its number is
\* that of a new one.
DropUnheld == session' = [i \in Ids |-> IF i \in FreeIds' THEN "live" ELSE session[i]]

\* UdpClientConnection::connect succeeds; the lock is released with the handle cloned.
Connected(r) ==
    /\ req[r].pc = "connect"
    /\ LET i == FreshId
           s == req[r].slot
       IN /\ slot' = [slot EXCEPT ![s] = i]
          /\ holder' = [holder EXCEPT ![s] = None]
          /\ req' = [req EXCEPT ![r].pc = "open", ![r].handle = i]
    /\ DropUnheld /\ UNCHANGED fallback

\* It fails: a timeout sends an automatic request to Yamux, other errors are returned.
ConnectFails(r) ==
    /\ req[r].pc = "connect"
    /\ holder' = [holder EXCEPT ![req[r].slot] = None]
    /\ \/ Mode = "auto" /\ req' = [req EXCEPT ![r].pc = "fall_back"]
       \/ req' = [req EXCEPT ![r] = NewRequest]
    /\ UNCHANGED <<slot, fallback, session>>

\* Faulty variant: the attempts are not counted.
OpenChannel_unbounded(r) ==
    /\ req[r].pc = "open"
    /\ req' = [req EXCEPT ![r] = IF is_closed(@.handle) THEN [@ EXCEPT !.pc = "clear"] ELSE NewRequest]
    /\ UNCHANGED <<slot, holder, fallback>> /\ DropUnheld

\* UdpClientConnection::connect_to_target on the handle fails only when the session
\* has ended; the first time, the slot is cleared for another attempt.
OpenChannel(r) ==
    /\ req[r].pc = "open"
    /\ req' = [req EXCEPT ![r] = IF is_closed(@.handle) /\ @.attempt = 0
                                 THEN [@ EXCEPT !.pc = "clear"] ELSE NewRequest]
    /\ UNCHANGED <<slot, holder, fallback>> /\ DropUnheld

\* Faulty variant: the slot is cleared whatever it holds by now.
ClearSlot_any(r) ==
    /\ req[r].pc = "clear" /\ holder[req[r].slot] = None
    /\ slot' = [slot EXCEPT ![req[r].slot] = None]
    /\ req' = [req EXCEPT ![r].pc = "lock", ![r].attempt = 1, ![r].handle = None]
    /\ UNCHANGED <<holder, fallback>> /\ DropUnheld

\* The failed session is taken out of the slot unless another one is there by now.
ClearSlot(r) ==
    /\ req[r].pc = "clear" /\ holder[req[r].slot] = None
    /\ slot' = [slot EXCEPT ![req[r].slot] = IF @ = req[r].handle THEN None ELSE @]
    /\ req' = [req EXCEPT ![r].pc = "lock", ![r].attempt = 1, ![r].handle = None]
    /\ UNCHANGED <<holder, fallback>> /\ DropUnheld

\* is_native_udp_timeout: this slot's later requests take Yamux, and so does this one.
FallBack(r) ==
    /\ req[r].pc = "fall_back"
    /\ fallback' = [fallback EXCEPT ![req[r].slot] = TRUE]
    /\ req' = [req EXCEPT ![r] = NewRequest]
    /\ UNCHANGED <<slot, holder, session>>
-----------------------------------------------------------------------------
(* The driver task of a session that a slot or a request holds. *)

DriverReturns(i) ==
    /\ i \notin FreeIds /\ session[i] = "live"
    /\ \E how \in {"timeout", "error"} : session' = [session EXCEPT ![i] = how]
    /\ UNCHANGED <<slot, holder, fallback, req>>

StoreTimedOut(i) ==
    /\ i \notin FreeIds /\ session[i] = "timeout"
    /\ session' = [session EXCEPT ![i] = "timed_out"]
    /\ UNCHANGED <<slot, holder, fallback, req>>

Step(r) == Connected(r) \/ ConnectFails(r) \/ OpenChannel(r) \/ FallBack(r)
Locking(r) == LockSlot(r) \/ ClearSlot(r)
Next == \/ \E r \in Requests : connect_to_target(r) \/ ElsewhereRoute(r) \/ Step(r) \/ Locking(r)
        \/ \E i \in Ids : DriverReturns(i) \/ StoreTimedOut(i)

Spec == Init /\ [][Next]_vars

\* A connect ends by its timeout; tokio's mutex is first come, first served.
WeaklyFair(i) == \/ i \in Requests /\ Step(i)
                 \/ \E s \in Ids : i = Cardinality(Requests) + s /\ StoreTimedOut(s)
StronglyFair(i) == i \in Requests /\ Locking(i)
-----------------------------------------------------------------------------
\* Includes: a slot stays locked exactly while its holder sets up a session.
TypeOK == /\ slot \in [Slots -> Ids \cup {None}]
          /\ holder \in [Slots -> Requests \cup {None}]
          /\ fallback \in [Slots -> BOOLEAN]
          /\ session \in [Ids -> {"live", "timeout", "error", "timed_out"}]
          /\ \A s \in Slots, r \in Requests :
               holder[s] = r <=> req[r].pc = "connect" /\ req[r].slot = s

\* A slot's live session is never dropped or replaced because of what happened to
\* an earlier session of the slot (connect.rs:157-164).
LiveSessionIsKept ==
    [][\A s \in Slots : slot[s] # None /\ slot'[s] # slot[s] => session[slot[s]] # "live"]_vars

\* A slot that has fallen back is left by every request in the end, for good: no
\* native session is set up there again.
FallbackIsFinal == \A s \in Slots : fallback[s] ~> [](\A r \in Requests : req[r].slot # s)

\* Every request ends although slot locks are held across handshakes.
RequestsEnd == \A r \in Requests : req[r].pc # "idle" ~> req[r].pc = "idle"
=============================================================================
