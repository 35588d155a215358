----------------------------- MODULE YamuxPool -----------------------------
(***************************************************************************)
(* The agent's pool of Yamux sessions: YamuxSessionManager's               *)
(* open_target_stream and what it calls (desktop-agent-be/src/             *)
(* yamux_session/manager/yamux.rs), over the permits and the closed flag   *)
(* of YamuxClientConnection (common/src/client_connection/yamux.rs).       *)
(*                                                                         *)
(* Requests run on several threads.  A step ends where a lock is released  *)
(* or the code awaits.  Pruning and the length test that follows are one   *)
(* step: a session that closes in between closes just after.  The round    *)
(* robin index is abstracted to "any session that passes the test".        *)
(* Session ids are recycled once nothing refers to them.                   *)
(***************************************************************************)
EXTENDS Integers, FiniteSets

CONSTANTS Requests,       \* concurrent calls of open_target_stream
          MAX_SESSIONS,   \* yamux_target_size()
          MAX_STREAMS,    \* max_streams_per_session
          MAX_OPENS,      \* its clamp(1, MAX_CONCURRENT_OPEN_STREAMS_PER_SESSION)
          MaxFaults       \* bound: sessions that fail in a behaviour

None == 0

\* session_count and the permits are at least one each (yamux_settings.rs).
PoolConstants == /\ IsFiniteSet(Requests) /\ None \notin Requests
                 /\ MAX_SESSIONS \in Nat \ {0} /\ MAX_STREAMS \in Nat \ {0} /\ MAX_OPENS \in Nat \ {0}
                 /\ MaxFaults \in Nat

\* Enough ids: the pooled sessions and one more held by each request.
Ids == 1..(MAX_SESSIONS + Cardinality(Requests))

VARIABLES
    pool,      \* yamux_sessions
    closed,    \* closed flag of each session
    streams,   \* stream permits taken from each session
    opens,     \* open-stream permits taken from each session
    refill,    \* yamux_refill_lock and its holder's JoinSet
    req,       \* the requests
    faults     \* sessions that failed so far

vars == <<pool, closed, streams, opens, refill, req, faults>>

NoRefill == [holder |-> None, target |-> 0, creating |-> 0, success |-> 0]
\* pc, session in hand, failed attempts, target size asked of ensure_yamux_sessions
\* and the place that called it ("head", "pick" or "capacity").
NewRequest == [pc |-> "idle", session |-> None, attempts |-> 0, target |-> 1, caller |-> "head"]
AtHead(q) == [NewRequest EXCEPT !.pc = "ensure", !.attempts = q.attempts]

Init == /\ pool = {} /\ faults = 0 /\ refill = NoRefill
        /\ closed = [i \in Ids |-> FALSE]
        /\ streams = [i \in Ids |-> 0] /\ opens = [i \in Ids |-> 0]
        /\ req = [r \in Requests |-> NewRequest]

open_target_stream(r) ==
    /\ req[r].pc = "idle"
    /\ req' = [req EXCEPT ![r] = AtHead(NewRequest)]
    /\ UNCHANGED <<pool, closed, streams, opens, refill, faults>>
-----------------------------------------------------------------------------
(* Filling the pool. *)

is_closed(i) == closed[i]
pruned == {i \in pool : ~is_closed(i)}    \* prune_closed_yamux_sessions

\* A failed attempt: give up after max(max_sessions, 3) of them.
Retried(q) == IF q.attempts + 1 >= (IF MAX_SESSIONS > 3 THEN MAX_SESSIONS ELSE 3)
              THEN NewRequest
              ELSE AtHead([q EXCEPT !.attempts = @ + 1])

\* The caller of ensure_yamux_sessions goes on with its result n.
Resumed(q, n) == CASE q.caller = "head" -> [q EXCEPT !.pc = "pick"]
                   [] q.caller # "head" /\ n > 0 -> AtHead(q)
                   [] q.caller = "pick" /\ n = 0 -> [q EXCEPT !.pc = "any"]
                   [] q.caller = "capacity" /\ n = 0 -> Retried(q)

ensure_yamux_sessions(r) ==
    /\ req[r].pc = "ensure"
    /\ pool' = pruned
    /\ req' = [req EXCEPT ![r] = IF Cardinality(pruned) >= @.target
                                 THEN Resumed(@, 0) ELSE [@ EXCEPT !.pc = "lock"]]
    /\ UNCHANGED <<closed, streams, opens, refill, faults>>

\* Faulty variant: the pool is not measured again under the refill lock.
LockRefill_unchecked(r) ==
    /\ req[r].pc = "lock" /\ refill.holder = None
    /\ refill' = [holder |-> r, target |-> req[r].target, creating |-> 1, success |-> 0]
    /\ req' = [req EXCEPT ![r].pc = "refill"]
    /\ UNCHANGED <<pool, closed, streams, opens, faults>>

\* The refill lock is taken, the pool measured again and the sessions spawned.
LockRefill(r) ==
    /\ req[r].pc = "lock" /\ refill.holder = None
    /\ LET target == req[r].target
           size   == Cardinality(pool)
       IN IF size >= target
          THEN /\ req' = [req EXCEPT ![r] = Resumed(@, 0)]
               /\ UNCHANGED refill
          ELSE /\ refill' = [holder |-> r, target |-> target,
                             creating |-> target - size, success |-> 0]
               /\ req' = [req EXCEPT ![r].pc = "refill"]
    /\ UNCHANGED <<pool, closed, streams, opens, faults>>

Refilling(r) == req[r].pc = "refill" /\ refill.holder = r

FreeIds == {i \in Ids : i \notin pool /\ \A r \in Requests : req[r].session # i}
FreshId == CHOOSE i \in FreeIds : \A j \in FreeIds : i <= j

\* join_next with a connected session: push it, or abort the rest of the set
\* and drop it if the pool is full by now.
SessionConnected(r) ==
    /\ Refilling(r) /\ refill.creating > 0
    /\ IF Cardinality(pool) >= refill.target
       THEN refill' = [refill EXCEPT !.creating = 0] /\ UNCHANGED <<pool, closed>>
       ELSE /\ pool' = pool \cup {FreshId}
            /\ closed' = [closed EXCEPT ![FreshId] = FALSE]
            /\ refill' = [refill EXCEPT !.creating = @ - 1, !.success = @ + 1]
    /\ UNCHANGED <<streams, opens, req, faults>>

\* join_next with an error (connect failed, task cancelled or panicked).
SessionNotConnected(r) ==
    /\ Refilling(r) /\ refill.creating > 0
    /\ refill' = [refill EXCEPT !.creating = @ - 1]
    /\ UNCHANGED <<pool, closed, streams, opens, req, faults>>

\* The join set is empty: fail if nothing was created and nothing is there.
FinishRefill(r) ==
    /\ Refilling(r) /\ refill.creating = 0
    /\ req' = [req EXCEPT ![r] = IF refill.success = 0 /\ pool = {}
                                 THEN NewRequest ELSE Resumed(@, refill.success)]
    /\ refill' = NoRefill
    /\ UNCHANGED <<pool, closed, streams, opens, faults>>

\* Called for the "pick" and "capacity" places; asks for one session more.
ensure_additional_yamux_session(r) ==
    /\ req[r].pc = "additional"
    /\ pool' = pruned
    /\ LET size == Cardinality(pruned)
       IN req' = [req EXCEPT ![r] = IF size >= MAX_SESSIONS
                                    THEN Resumed(@, 0)
                                    ELSE [@ EXCEPT !.pc = "ensure", !.target = size + 1]]
    /\ UNCHANGED <<closed, streams, opens, refill, faults>>
-----------------------------------------------------------------------------
(* Choosing a session and opening a stream on it. *)

has_immediate_stream_capacity(i) == ~is_closed(i) /\ streams[i] < MAX_STREAMS /\ opens[i] < MAX_OPENS

next_yamux_session_with_capacity(r) ==
    /\ req[r].pc = "pick"
    /\ \/ \E i \in pool : /\ has_immediate_stream_capacity(i)
                          /\ req' = [req EXCEPT ![r].pc = "dispatch", ![r].session = i]
       \/ /\ \A i \in pool : ~has_immediate_stream_capacity(i)
          /\ req' = [req EXCEPT ![r].pc = "additional", ![r].caller = "pick"]
    /\ UNCHANGED <<pool, closed, streams, opens, refill, faults>>

next_yamux_session(r) ==
    /\ req[r].pc = "any"
    /\ \/ \E i \in pruned : req' = [req EXCEPT ![r].pc = "dispatch", ![r].session = i]
       \/ pruned = {} /\ req' = [req EXCEPT ![r] = NewRequest]
    /\ UNCHANGED <<pool, closed, streams, opens, refill, faults>>

\* The capacity test picks try_connect_to_target or connect_to_target; the latter
\* validates first.
Dispatch(r) ==
    /\ req[r].pc = "dispatch"
    /\ LET i == req[r].session
       IN req' = [req EXCEPT ![r].pc = CASE has_immediate_stream_capacity(i) -> "try"
                                         [] is_closed(i) -> "remove"
                                         [] OTHER -> "await_stream"]
    /\ UNCHANGED <<pool, closed, streams, opens, refill, faults>>

try_connect_to_target(r) ==
    /\ req[r].pc = "try"
    /\ LET i == req[r].session
       IN CASE is_closed(i) -> /\ req' = [req EXCEPT ![r].pc = "remove"]
                               /\ UNCHANGED <<streams, opens>>
            [] ~is_closed(i) /\ has_immediate_stream_capacity(i) ->
                 /\ streams' = [streams EXCEPT ![i] = @ + 1]
                 /\ opens' = [opens EXCEPT ![i] = @ + 1]
                 /\ req' = [req EXCEPT ![r].pc = "opening"]
            [] OTHER -> /\ req' = [req EXCEPT ![r].pc = "additional", ![r].session = None,
                                              ![r].caller = "capacity"]
                        /\ UNCHANGED <<streams, opens>>
    /\ UNCHANGED <<pool, closed, refill, faults>>

\* connect_to_target waits for a permit that covers the stream's whole life ...
AcquireStreamPermit(r) ==
    /\ req[r].pc = "await_stream" /\ streams[req[r].session] < MAX_STREAMS
    /\ streams' = [streams EXCEPT ![req[r].session] = @ + 1]
    /\ req' = [req EXCEPT ![r].pc = "await_open"]
    /\ UNCHANGED <<pool, closed, opens, refill, faults>>

\* ... and for one that covers the opening.
AcquireOpenPermit(r) ==
    /\ req[r].pc = "await_open" /\ opens[req[r].session] < MAX_OPENS
    /\ opens' = [opens EXCEPT ![req[r].session] = @ + 1]
    /\ req' = [req EXCEPT ![r].pc = "opening"]
    /\ UNCHANGED <<pool, closed, streams, refill, faults>>

\* connect_to_target_with_permits up to the opened stream.  A timeout or an error
\* of open_stream condemns the session.
StreamOpened(r) ==
    /\ req[r].pc = "opening" /\ ~is_closed(req[r].session)
    /\ opens' = [opens EXCEPT ![req[r].session] = @ - 1]
    /\ req' = [req EXCEPT ![r].pc = "auth"]
    /\ UNCHANGED <<pool, closed, streams, refill, faults>>

\* Faulty variant: the error path forgets the stream permit.
StreamNotOpened_leaks(r) ==
    /\ req[r].pc = "opening"
    /\ LET i == req[r].session
       IN /\ \/ is_closed(i) /\ UNCHANGED faults
             \/ ~is_closed(i) /\ faults < MaxFaults /\ faults' = faults + 1
          /\ closed' = [closed EXCEPT ![i] = TRUE]
          /\ opens' = [opens EXCEPT ![i] = @ - 1]
    /\ req' = [req EXCEPT ![r].pc = "remove"]
    /\ UNCHANGED <<pool, streams, refill>>

StreamNotOpened(r) ==
    /\ req[r].pc = "opening"
    /\ LET i == req[r].session
       IN /\ \/ is_closed(i) /\ UNCHANGED faults
             \/ ~is_closed(i) /\ faults < MaxFaults /\ faults' = faults + 1
          /\ closed' = [closed EXCEPT ![i] = TRUE]
          /\ opens' = [opens EXCEPT ![i] = @ - 1]
          /\ streams' = [streams EXCEPT ![i] = @ - 1]
    /\ req' = [req EXCEPT ![r].pc = "remove"]
    /\ UNCHANGED <<pool, refill>>

\* Authentication and connect inside the stream: success, ...
TargetConnected(r) ==
    /\ req[r].pc = "auth"
    /\ req' = [req EXCEPT ![r].pc = "streaming"]
    /\ UNCHANGED <<pool, closed, streams, opens, refill, faults>>

\* Faulty variant: a refused target costs the session.
TargetRefused_removes(r) ==
    /\ req[r].pc = "auth"
    /\ streams' = [streams EXCEPT ![req[r].session] = @ - 1]
    /\ req' = [req EXCEPT ![r].pc = "remove"]
    /\ UNCHANGED <<pool, closed, opens, refill, faults>>

\* ... is_yamux_target_connect_error (refused or no answer in time): the request
\* fails and the session stays, ...
TargetRefused(r) ==
    /\ req[r].pc = "auth"
    /\ streams' = [streams EXCEPT ![req[r].session] = @ - 1]
    /\ req' = [req EXCEPT ![r] = NewRequest]
    /\ UNCHANGED <<pool, closed, opens, refill, faults>>

\* ... or any other error.
HandshakeFailed(r) ==
    /\ req[r].pc = "auth"
    /\ \/ is_closed(req[r].session) /\ UNCHANGED faults
       \/ ~is_closed(req[r].session) /\ faults < MaxFaults /\ faults' = faults + 1
    /\ streams' = [streams EXCEPT ![req[r].session] = @ - 1]
    /\ req' = [req EXCEPT ![r].pc = "remove"]
    /\ UNCHANGED <<pool, closed, opens, refill>>

\* remove_yamux_session by id, close if it was there, and count the attempt.
remove_yamux_session(r) ==
    /\ req[r].pc = "remove"
    /\ LET i == req[r].session
       IN /\ pool' = pool \ {i}
          /\ closed' = IF i \in pool THEN [closed EXCEPT ![i] = TRUE] ELSE closed
    /\ req' = [req EXCEPT ![r] = Retried(@)]
    /\ UNCHANGED <<streams, opens, refill, faults>>

\* Drop of the YamuxClientStream returns its permit.
DropStream(r) ==
    /\ req[r].pc = "streaming"
    /\ streams' = [streams EXCEPT ![req[r].session] = @ - 1]
    /\ req' = [req EXCEPT ![r] = NewRequest]
    /\ UNCHANGED <<pool, closed, opens, refill, faults>>

\* The session's driver task ends: the peer or the network closed it.
SessionEnds(i) ==
    /\ i \in pool /\ ~is_closed(i) /\ faults < MaxFaults
    /\ faults' = faults + 1
    /\ closed' = [closed EXCEPT ![i] = TRUE]
    /\ UNCHANGED <<pool, streams, opens, refill, req>>
-----------------------------------------------------------------------------
\* Steps a running request takes by itself.
Progress(r) == \/ ensure_yamux_sessions(r) \/ ensure_additional_yamux_session(r)
               \/ FinishRefill(r) \/ SessionConnected(r) \/ SessionNotConnected(r)
               \/ next_yamux_session_with_capacity(r) \/ next_yamux_session(r)
               \/ Dispatch(r) \/ try_connect_to_target(r)
               \/ StreamOpened(r) \/ StreamNotOpened(r)
               \/ TargetConnected(r) \/ TargetRefused(r) \/ HandshakeFailed(r)
               \/ remove_yamux_session(r) \/ DropStream(r)
\* Steps for which it queues behind others.
Waiting(r) == LockRefill(r) \/ AcquireStreamPermit(r) \/ AcquireOpenPermit(r)

Next == \/ \E r \in Requests : open_target_stream(r) \/ Progress(r) \/ Waiting(r)
        \/ \E i \in Ids : SessionEnds(i)

Spec == Init /\ [][Next]_vars

\* Every wait of a request ends: connects, opens and handshakes have timeouts and
\* streams are dropped in the end.  tokio's mutex and semaphores are first come,
\* first served, hence the strong fairness of Waiting.
WeaklyFair(i) == i \in Requests /\ Progress(i)
StronglyFair(i) == i \in Requests /\ Waiting(i)
-----------------------------------------------------------------------------
TypeOK == /\ pool \subseteq Ids
          /\ closed \in [Ids -> BOOLEAN]
          /\ streams \in [Ids -> 0..MAX_STREAMS] /\ opens \in [Ids -> 0..MAX_OPENS]
          /\ refill.holder \in Requests \cup {None}
          /\ \A r \in Requests : req[r].session \in Ids \cup {None}

\* Sessions being created and sessions pooled never exceed the limit together,
\* so the branch of ensure_yamux_sessions that drops a connected session unused
\* (yamux.rs:133) is never taken.
RefillFitsPool == /\ Cardinality(pool) + refill.creating <= MAX_SESSIONS
                  /\ refill.creating > 0 => Cardinality(pool) < refill.target

\* Only a fault costs a session: a target that refuses or does not answer never
\* closes the session other requests share (manager.rs, test
\* yamux_response_timeouts_do_not_close_session).
SessionsCloseByFaultOnly == faults = 0 => \A i \in Ids : ~closed[i]

\* Permits are neither lost nor returned twice, on no path: the taken stream permits
\* of a session are those of the requests between the permit and the stream's drop, the
\* taken open permits those of the requests that are opening.
StreamHolders(i) == {r \in Requests : /\ req[r].session = i
                                      /\ req[r].pc \in {"await_open", "opening", "auth", "streaming"}}
Openers(i) == {r \in Requests : req[r].session = i /\ req[r].pc = "opening"}
PermitsAreHeld == \A i \in Ids : /\ streams[i] = Cardinality(StreamHolders(i))
                                 /\ opens[i] = Cardinality(Openers(i))

\* The pool keeps its limits, its permits and its sessions.
PoolIsKept == TypeOK /\ RefillFitsPool /\ SessionsCloseByFaultOnly /\ PermitsAreHeld

\* Every request ends or gets its stream, whatever sessions fail meanwhile.
RequestsAnswered == \A r \in Requests : req[r].pc # "idle" ~> req[r].pc \in {"idle", "streaming"}
=============================================================================
