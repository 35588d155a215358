------------------------- MODULE AndroidYamuxPool --------------------------
(***************************************************************************)
(* The Android agent's pool (android-agent/native/src/yamux_session.rs):   *)
(* the control flow of YamuxPool, with a shutdown token that both ensure   *)
(* functions test on entry and nothing else does.                          *)
(***************************************************************************)
EXTENDS YamuxPool

VARIABLE shutdown    \* the agent's CancellationToken

avars == <<vars, shutdown>>

AndroidInit == Init /\ shutdown = FALSE

\* The supervisor cancels the token; requests in flight go on.
Cancel == ~shutdown /\ shutdown' = TRUE /\ UNCHANGED vars

android_open_target_stream(r) ==
    (open_target_stream(r) \/ Dispatch(r)) /\ UNCHANGED shutdown

android_next_yamux_session(r) ==
    (next_yamux_session_with_capacity(r) \/ next_yamux_session(r)) /\ UNCHANGED shutdown

android_remove_yamux_session(r) == remove_yamux_session(r) /\ UNCHANGED shutdown

\* Faulty variant: a cancelled token is not seen.
android_ensure_yamux_sessions_deaf(r) == ensure_yamux_sessions(r) /\ UNCHANGED shutdown

\* Returns Ok(0) at once, without pruning, when the agent is stopping.
android_ensure_yamux_sessions(r) ==
    /\ \/ ~shutdown /\ ensure_yamux_sessions(r)
       \/ /\ shutdown /\ req[r].pc = "ensure"
          /\ req' = [req EXCEPT ![r] = Resumed(@, 0)]
          /\ UNCHANGED <<pool, closed, streams, opens, refill, faults>>
    /\ UNCHANGED shutdown

\* From the refill lock to the end of the join set: no test of the token.
android_refill(r) ==
    /\ \/ LockRefill(r) \/ SessionConnected(r) \/ SessionNotConnected(r) \/ FinishRefill(r)
    /\ UNCHANGED shutdown

android_ensure_additional_yamux_session(r) ==
    /\ \/ ~shutdown /\ ensure_additional_yamux_session(r)
       \/ /\ shutdown /\ req[r].pc = "additional"
          /\ req' = [req EXCEPT ![r] = Resumed(@, 0)]
          /\ UNCHANGED <<pool, closed, streams, opens, refill, faults>>
    /\ UNCHANGED shutdown

\* The shared YamuxClientConnection and the life of a stream.
Connection(r) ==
    /\ \/ try_connect_to_target(r) \/ AcquireStreamPermit(r) \/ AcquireOpenPermit(r)
       \/ StreamOpened(r) \/ StreamNotOpened(r)
       \/ TargetConnected(r) \/ TargetRefused(r) \/ HandshakeFailed(r) \/ DropStream(r)
    /\ UNCHANGED shutdown

AndroidNext == \/ Cancel
               \/ \E r \in Requests : \/ android_open_target_stream(r) \/ Connection(r)
                                      \/ android_next_yamux_session(r)
                                      \/ android_remove_yamux_session(r)
                                      \/ android_ensure_yamux_sessions(r) \/ android_refill(r)
                                      \/ android_ensure_additional_yamux_session(r)
               \/ \E i \in Ids : SessionEnds(i) /\ UNCHANGED shutdown

\* The fairness of YamuxPool; new requests are never owed a step.
Started(r) == req[r].pc # "idle"
AndroidWeaklyFair(i) == \E r \in Requests :
    \/ /\ i = 2 * r - 1 /\ Started(r)
       /\ \/ android_open_target_stream(r) \/ Connection(r)
          \/ android_next_yamux_session(r) \/ android_remove_yamux_session(r)
          \/ android_ensure_yamux_sessions(r) \/ android_ensure_additional_yamux_session(r)
    \/ i = 2 * r /\ Refilling(r) /\ android_refill(r)
AndroidStronglyFair(i) == \E r \in Requests :
    \/ i = 2 * r - 1 /\ LockRefill(r) /\ UNCHANGED shutdown
    \/ i = 2 * r /\ (AcquireStreamPermit(r) \/ AcquireOpenPermit(r)) /\ UNCHANGED shutdown
AndroidSpec == AndroidInit /\ [][AndroidNext]_avars
-----------------------------------------------------------------------------
\* After cancellation the pool stops creating sessions for good, although the
\* token is tested only on entry and a request may already be past the test.
RefillsStop == shutdown ~> [](refill = NoRefill)
=============================================================================
