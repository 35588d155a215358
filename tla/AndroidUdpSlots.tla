-------------------------- MODULE AndroidUdpSlots --------------------------
(***************************************************************************)
(* The Android agent's native UDP slots (android-agent/native/src/         *)
(* yamux_session.rs): the control flow of UdpSlots, plus a shutdown token  *)
(* that open_udp_stream tests before it takes a slot.  Automatic mode goes *)
(* to its slot without that test.                                          *)
(***************************************************************************)
EXTENDS UdpSlots

VARIABLE shutdown    \* the agent's CancellationToken

avars == <<vars, shutdown>>

AndroidInit == Init /\ shutdown = FALSE
Cancel == ~shutdown /\ shutdown' = TRUE /\ UNCHANGED vars

\* Faulty variant: the token is not tested.
android_connect_to_target_deaf(r) == connect_to_target(r) /\ UNCHANGED shutdown

\* connect_to_target and open_udp_stream.
android_connect_to_target(r) ==
    /\ Mode = "udp" => ~shutdown
    /\ connect_to_target(r)
    /\ UNCHANGED shutdown

\* Requests that are refused because the agent stops, or that take another route.
android_turned_away(r) ==
    /\ req[r].pc = "idle" /\ (ElsewhereRoute(r) \/ (Mode = "udp" /\ shutdown))
    /\ UNCHANGED avars

\* open_udp_stream_in_slot and is_native_udp_timeout.
android_open_udp_stream_in_slot(r) == (Step(r) \/ Locking(r)) /\ UNCHANGED shutdown

Drivers == \E i \in Ids : (DriverReturns(i) \/ StoreTimedOut(i)) /\ UNCHANGED shutdown

AndroidNext == \/ Cancel \/ Drivers
               \/ \E r \in Requests : \/ android_connect_to_target(r) \/ android_turned_away(r)
                                      \/ android_open_udp_stream_in_slot(r)

AndroidSpec == AndroidInit /\ [][AndroidNext]_avars

\* The fairness of UdpSlots.
AndroidWeaklyFair(i) == i \in Requests /\ Step(i) /\ UNCHANGED shutdown
AndroidStronglyFair(i) == i \in Requests /\ Locking(i) /\ UNCHANGED shutdown
-----------------------------------------------------------------------------
\* In UDP mode a stopping agent sets up no native session any more, once the
\* requests that had passed the test are through with their two attempts.
NativeSessionsStop == shutdown ~> [](\A r \in Requests : req[r].pc = "idle")
=============================================================================
