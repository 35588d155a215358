------------------------------ MODULE DnsProxy ------------------------------
(***************************************************************************)
(* The agent's DNS proxy (run_dns_proxy in desktop-agent-be/src/           *)
(* tun_handler/dns_proxy.rs): queries captured on the TUN device share one *)
(* connection to the proxy.  Their DNS ids are rewritten to tell the       *)
(* answers apart, and answers are cached under the query's name and type.  *)
(*                                                                         *)
(* A request is [n, q]: its number, which stands for its client and its    *)
(* original id, and its query.  The upstream resolver may answer late,     *)
(* twice or never.  Timers may fire whenever they are armed.               *)
(***************************************************************************)
EXTENDS Integers, Sequences, FiniteSets

CONSTANTS Queries,        \* (name, type) pairs, as dns_cache_key normalises them
          IDS,            \* number of DNS ids, 2^16 in the code
          CHANNEL_SIZE,   \* DNS_REQUEST_CHANNEL_SIZE
          CACHE_SIZE,     \* DNS_RESPONSE_CACHE_MAX_ENTRIES
          MaxRequests,    \* bound: queries captured
          MaxFaults,      \* bound: failed connects and broken connections
          NoRequest       \* retry_request is None

\* A behaviour is shorter than a round of the ids: each is given to one request.
DnsConstants == /\ {IDS, CHANNEL_SIZE, MaxRequests, MaxFaults} \subseteq Nat /\ CACHE_SIZE \in Nat \ {0}
                /\ IDS > MaxRequests + MaxFaults
                /\ NoRequest \notin [n : Nat, q : Queries]

Ids == 0..(IDS - 1)

VARIABLES
    phase,          \* "waiting", "first", "connecting", "backoff", "connected", "exited"
    shutdown, queue,
    current,        \* first_request or retry_request
    pending,        \* id -> request
    next_id,
    cache,          \* response_cache: query -> [q, good]: the query the stored
                    \* answer is for, and whether it is NOERROR with answers and a TTL
    broken, wire,   \* the connection is broken; [id, q] pairs the proxy received on it
    reply,          \* the last answer written back: [n, q, of]
    answered,       \* number of answers per request
    made, faults    \* bounds

vars == <<phase, shutdown, queue, current, pending, next_id, cache, broken, wire, reply, answered, made, faults>>
conn == <<broken, wire>>
told == <<reply, answered>>

Init == /\ phase = "waiting" /\ shutdown = FALSE /\ queue = << >> /\ current = NoRequest
        /\ pending = << >> /\ next_id = 0 /\ cache = << >>
        /\ broken = FALSE /\ wire = {} /\ reply = << >>
        /\ answered = [n \in 1..MaxRequests |-> 0]
        /\ made = 0 /\ faults = 0

With(f, k, v) == [x \in DOMAIN f \cup {k} |-> IF x = k THEN v ELSE f[x]]
Without(f, ks) == [x \in DOMAIN f \ ks |-> f[x]]

\* The answer of query q is written back to the client of request r.
WriteBack(r, q) == /\ reply' = [n |-> r.n, q |-> r.q, of |-> q]
                   /\ answered' = [answered EXCEPT ![r.n] = @ + 1]
-----------------------------------------------------------------------------
\* DnsProxy::send.
send(q) == /\ made < MaxRequests /\ made' = made + 1
           /\ queue' = IF phase # "exited" /\ Len(queue) < CHANNEL_SIZE
                       THEN Append(queue, [n |-> made', q |-> q]) ELSE queue
           /\ UNCHANGED <<phase, shutdown, current, pending, next_id, cache, conn, told, faults>>

Cancel == /\ ~shutdown /\ shutdown' = TRUE
          /\ UNCHANGED <<phase, queue, current, pending, next_id, cache, conn, told, made, faults>>

Fault == faults < MaxFaults /\ faults' = faults + 1

ConnectionBreaks == /\ phase = "connected" /\ ~broken /\ Fault /\ broken' = TRUE
                    /\ UNCHANGED <<phase, shutdown, queue, current, pending, next_id, cache, wire, told, made>>

\* A cached answer reaches its expires_at; the next get or insert removes it.
CacheExpires(q) == /\ q \in DOMAIN cache /\ cache' = Without(cache, {q})
                   /\ UNCHANGED <<phase, shutdown, queue, current, pending, next_id, conn, told, made, faults>>
-----------------------------------------------------------------------------
(* The outer loop. *)

TakeFirst == /\ phase = "waiting" /\ queue # << >>
             /\ current' = Head(queue) /\ queue' = Tail(queue) /\ phase' = "first"
             /\ UNCHANGED <<shutdown, pending, next_id, cache, conn, told, made, faults>>

\* try_send_cached_dns_response for the first request: no connection is needed.
FirstFromCache == /\ phase = "first" /\ current.q \in DOMAIN cache
                  /\ WriteBack(current, cache[current.q].q)
                  /\ current' = NoRequest /\ phase' = "waiting"
                  /\ UNCHANGED <<shutdown, queue, pending, next_id, cache, conn, made, faults>>

connect_dns_stream == /\ phase = "first" /\ current.q \notin DOMAIN cache
                      /\ phase' = "connecting"
                      /\ UNCHANGED <<shutdown, queue, current, pending, next_id, cache, conn, told, made, faults>>

\* Faulty variant: the request is not kept for the new connection.
Connected_drops_first ==
    /\ phase = "connecting" /\ phase' = "connected"
    /\ pending' = << >> /\ broken' = FALSE /\ wire' = {} /\ current' = NoRequest
    /\ UNCHANGED <<shutdown, queue, next_id, cache, told, made, faults>>

\* What was pending on the old connection is forgotten; the first request is kept.
Connected == /\ phase = "connecting" /\ phase' = "connected"
             /\ pending' = << >> /\ broken' = FALSE /\ wire' = {}
             /\ UNCHANGED <<shutdown, queue, current, next_id, cache, told, made, faults>>

ConnectFails == /\ phase = "connecting" /\ Fault /\ phase' = "backoff"
                /\ UNCHANGED <<shutdown, queue, current, pending, next_id, cache, conn, told, made>>

BackoffOver == /\ phase = "backoff" /\ phase' = "first"
               /\ UNCHANGED <<shutdown, queue, current, pending, next_id, cache, conn, told, made, faults>>

\* Faulty variant: a connection that is being set up again and again is not given up.
StopProxy_connected_only ==
    /\ shutdown /\ phase = "connected" /\ current = NoRequest
    /\ phase' = "exited"
    /\ UNCHANGED <<shutdown, queue, current, pending, next_id, cache, conn, told, made, faults>>

StopProxy == /\ shutdown
             /\ \/ phase \in {"waiting", "backoff"}
                \/ phase = "connected" /\ current = NoRequest
             /\ phase' = "exited"
             /\ UNCHANGED <<shutdown, queue, current, pending, next_id, cache, conn, told, made, faults>>
-----------------------------------------------------------------------------
(* The inner loop serves the kept request first, then the queue. *)

Ready == phase = "connected" /\ (current # NoRequest \/ queue # << >>)
Request == IF current # NoRequest THEN current ELSE Head(queue)
Taken == /\ queue' = IF current # NoRequest THEN queue ELSE Tail(queue)
         /\ current' = NoRequest

try_send_cached_dns_response ==
    /\ Ready /\ Request.q \in DOMAIN cache
    /\ WriteBack(Request, cache[Request.q].q) /\ Taken
    /\ UNCHANGED <<phase, shutdown, pending, next_id, cache, conn, made, faults>>

\* The first id from next_id on, round the end, that is not pending; there is one
\* unless every id is pending.
allocate_dns_id ==
    LET free == {d \in Ids : (next_id + d) % IDS \notin DOMAIN pending}
    IN  (next_id + (CHOOSE d \in free : \A e \in free : d <= e)) % IDS

\* send_dns_request: the request is written, or dropped because every id is pending.
send_dns_request ==
    /\ Ready /\ Request.q \notin DOMAIN cache /\ (~broken \/ DOMAIN pending = Ids)
    /\ IF DOMAIN pending = Ids
       THEN UNCHANGED <<pending, next_id, wire>>
       ELSE LET id == allocate_dns_id IN
            /\ pending' = With(pending, id, Request)
            /\ wire' = wire \cup {[id |-> id, n |-> Request.n, q |-> Request.q]}
            /\ next_id' = (id + 1) % IDS
    /\ Taken
    /\ UNCHANGED <<phase, shutdown, cache, broken, told, made, faults>>

\* The write fails: the request is kept and the connection given up.
SendFails ==
    /\ Ready /\ Request.q \notin DOMAIN cache /\ broken /\ DOMAIN pending # Ids
    /\ next_id' = (allocate_dns_id + 1) % IDS
    /\ current' = Request /\ queue' = (IF current # NoRequest THEN queue ELSE Tail(queue))
    /\ phase' = "first"
    /\ UNCHANGED <<shutdown, pending, cache, conn, told, made, faults>>

\* DnsResponseCache::insert: good answers only; at the limit the entry that expires
\* first (any) makes room.
insert(q, answer) ==
    IF ~answer.good THEN cache
    ELSE IF Cardinality(DOMAIN cache) < CACHE_SIZE THEN With(cache, q, answer)
    ELSE LET evicted == CHOOSE k \in DOMAIN cache : TRUE
         IN  With(Without(cache, {evicted}), q, answer)

\* Faulty variant: the request stays pending after its answer.
handle_dns_response_keeps(w, good) ==
    /\ phase = "connected" /\ current = NoRequest /\ w \in wire
    /\ w.id \in DOMAIN pending
    /\ WriteBack(pending[w.id], w.q)
    /\ cache' = insert(pending[w.id].q, [q |-> w.q, good |-> good])
    /\ UNCHANGED <<phase, shutdown, queue, current, pending, next_id, conn, made, faults>>

\* An answer to a query the proxy received on this connection, perhaps not the first.
handle_dns_response(w, good) ==
    /\ phase = "connected" /\ current = NoRequest /\ w \in wire
    /\ w.id \in DOMAIN pending
    /\ pending' = Without(pending, {w.id})
    /\ WriteBack(pending[w.id], w.q)
    /\ cache' = insert(pending[w.id].q, [q |-> w.q, good |-> good])
    /\ UNCHANGED <<phase, shutdown, queue, current, next_id, conn, made, faults>>

\* cleanup_pending_dns, by its tick or before a request is sent.
cleanup_pending_dns(id) ==
    /\ phase = "connected" /\ id \in DOMAIN pending
    /\ pending' = Without(pending, {id})
    /\ UNCHANGED <<phase, shutdown, queue, current, next_id, cache, conn, told, made, faults>>

\* The connection's idle timer, end of file or error.
ConnectionOver == /\ phase = "connected" /\ current = NoRequest /\ phase' = "waiting"
                  /\ UNCHANGED <<shutdown, queue, current, pending, next_id, cache, conn, told, made, faults>>
-----------------------------------------------------------------------------
Outer == \/ TakeFirst \/ FirstFromCache \/ connect_dns_stream \/ Connected \/ ConnectFails
         \/ BackoffOver \/ StopProxy
Inner == \/ try_send_cached_dns_response \/ send_dns_request \/ SendFails \/ ConnectionOver
         \/ \E w \in wire : \E good \in BOOLEAN : handle_dns_response(w, good)
         \/ \E id \in Ids : cleanup_pending_dns(id)
ProxyNext == Outer \/ Inner

Next == \/ \E q \in Queries : send(q) \/ CacheExpires(q)
        \/ Cancel \/ ConnectionBreaks \/ ProxyNext

Spec == Init /\ [][Next]_vars

\* The task runs, connects and timers come to their end, and a ready branch of a select
\* is not passed over for ever.
WeaklyFair(i) == i = 1 /\ ProxyNext
StronglyFair(i) == \/ i = 1 /\ StopProxy
                   \/ i = 2 /\ Connected
                   \/ i = 3 /\ (try_send_cached_dns_response \/ send_dns_request \/ SendFails)
-----------------------------------------------------------------------------
TypeOK == /\ Len(queue) <= CHANNEL_SIZE /\ Cardinality(DOMAIN cache) <= CACHE_SIZE
          /\ DOMAIN pending \subseteq Ids /\ DOMAIN cache \subseteq Queries

\* What a client gets is the answer to its own query, from the connection or from the
\* cache, although answers come late, twice and in any order.  It rests on ids not
\* coming round (DnsConstants): the answer's question is not compared.
AnswerMatchesQuery == reply # << >> => reply.of = reply.q

\* No client is answered twice, neither by a repeated answer nor because its query was
\* sent again on a new connection.
AnsweredOnce == \A n \in 1..MaxRequests : answered[n] <= 1

\* A failure is never kept: the next query asks again.
FailuresAreNotCached == \A q \in DOMAIN cache : cache[q].good

\* The three together: right answers, once each, from the connection and from the cache.
AnswersAreRight == AnswerMatchesQuery /\ AnsweredOnce /\ FailuresAreNotCached

\* Once no more faults come, a queued query is answered from the cache or sent.
QueuedQueryIsHandled ==
    \A n \in 1..MaxRequests :
        (faults = MaxFaults /\ ~broken /\ \E i \in DOMAIN queue : queue[i].n = n)
            ~> (answered[n] > 0 \/ (\E w \in wire : w.n = n) \/ phase = "exited")

\* A cancelled token ends the task wherever it is.
DnsProxyStops == shutdown ~> (phase = "exited")
=============================================================================
