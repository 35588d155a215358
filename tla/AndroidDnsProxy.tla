--------------------------- MODULE AndroidDnsProxy ---------------------------
(***************************************************************************)
(* The Android agent's DNS proxy (android-agent/native/src/netstack/       *)
(* dns_proxy.rs): the desktop's, and before a query is given to the        *)
(* connection the names of the direct rules are asked at the DNS server    *)
(* itself, in the task's own loop, with DIRECT_DNS_TIMEOUT.                *)
(***************************************************************************)
EXTENDS DnsProxy

CONSTANT DirectQueries     \* queries whose name is_direct_domain accepts

\* The queue and the cache are the desktop's.
android_send(q) == send(q)
android_insert(q, answer) == insert(q, answer)

\* query_direct_dns on a socket of its own; errors and timeouts become SERVFAIL
\* (build_dns_error_response); both are offered to the cache and written back.
android_direct_answer(r) ==
    \E outcome \in {"answer", "empty", "error", "timeout"} :
        /\ WriteBack(r, r.q)
        /\ cache' = android_insert(r.q, [q |-> r.q, good |-> outcome = "answer"])

\* try_send_direct_dns_response for the first request.
android_first_direct ==
    /\ phase = "first" /\ current.q \notin DOMAIN cache /\ current.q \in DirectQueries
    /\ android_direct_answer(current)
    /\ current' = NoRequest /\ phase' = "waiting"
    /\ UNCHANGED <<shutdown, queue, pending, next_id, conn, made, faults>>

\* try_send_direct_dns_response in the inner loop.
android_inner_direct ==
    /\ Ready /\ Request.q \notin DOMAIN cache /\ Request.q \in DirectQueries
    /\ android_direct_answer(Request) /\ Taken
    /\ UNCHANGED <<phase, shutdown, pending, next_id, conn, made, faults>>

android_connect_dns_stream == phase = "first" /\ current.q \notin DirectQueries /\ connect_dns_stream

\* Faulty variant: the requests taken from the queue are not looked up in the rules.
android_send_dns_request_unchecked == send_dns_request \/ SendFails

android_send_dns_request ==
    Ready /\ Request.q \notin DirectQueries /\ (send_dns_request \/ SendFails)

\* The rest is the desktop's.
android_cached_dns_response == FirstFromCache \/ try_send_cached_dns_response
android_handle_dns_response == \E w \in wire : \E good \in BOOLEAN : handle_dns_response(w, good)
android_cleanup_pending_dns == \E id \in Ids : cleanup_pending_dns(id)

android_run_dns_proxy ==
    \/ TakeFirst \/ android_cached_dns_response \/ android_first_direct
    \/ android_connect_dns_stream \/ Connected \/ ConnectFails \/ BackoffOver \/ StopProxy
    \/ android_inner_direct \/ android_send_dns_request \/ ConnectionOver
    \/ android_handle_dns_response \/ android_cleanup_pending_dns

AndroidNext == \/ \E q \in Queries : android_send(q) \/ CacheExpires(q)
               \/ Cancel \/ ConnectionBreaks \/ android_run_dns_proxy

AndroidSpec == Init /\ [][AndroidNext]_vars
-----------------------------------------------------------------------------
\* A name the rules keep off the proxy is never asked through it, and no connection to
\* it is set up for one, on no path: not as the first request, not after a failed connect
\* or write, not from the queue, and not when its cached answer has just expired.
DirectQueriesStayLocal ==
    /\ \A w \in wire : w.q \notin DirectQueries
    /\ \A id \in DOMAIN pending : pending[id].q \notin DirectQueries
    /\ phase \in {"connecting", "backoff"} => current.q \notin DirectQueries
=============================================================================
