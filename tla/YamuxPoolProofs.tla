--------------------------- MODULE YamuxPoolProofs ---------------------------
(***************************************************************************)
(* Proofs about module YamuxPool: for any number of requests, any limits   *)
(* and any number of faults, sessions being created and pooled stay within *)
(* the limit, only a fault costs a session, and the permits of a session   *)
(* are those of the requests that use it.                                  *)
(***************************************************************************)
EXTENDS YamuxPool, FiniteSetTheorems, FunctionTheorems, WellFoundedInduction, TLAPS

\* The places of a request, those at which it has a session in hand, and those at
\* which it holds a stream permit of it.
Places == {"idle", "ensure", "lock", "refill", "additional", "pick", "any", "dispatch", "try",
           "await_stream", "await_open", "opening", "auth", "streaming", "remove"}
WithSession == {"dispatch", "try", "await_stream", "await_open", "opening", "auth", "streaming",
                "remove"}
WithStream == {"await_open", "opening", "auth", "streaming"}

RequestRecord == [pc : Places, session : Ids \cup {None}, attempts : Nat,
                  target : 1..MAX_SESSIONS, caller : {"head", "pick", "capacity"}]
RefillRecord == [holder : Requests \cup {None}, target : Nat, creating : Nat, success : Nat]

PoolTyped ==
    /\ pool \subseteq Ids /\ closed \in [Ids -> BOOLEAN]
    /\ streams \in [Ids -> 0..MAX_STREAMS] /\ opens \in [Ids -> 0..MAX_OPENS]
    /\ refill \in RefillRecord /\ req \in [Requests -> RequestRecord] /\ faults \in Nat

\* What makes RefillFitsPool inductive: whoever creates sessions has asked for a
\* target within the limit, and creates no more than are missing.
RefillWithinTarget ==
    /\ Cardinality(pool) <= MAX_SESSIONS
    /\ refill.creating > 0 => /\ Cardinality(pool) + refill.creating <= refill.target
                              /\ refill.target <= MAX_SESSIONS

\* A request about to remove a session has seen a fault.
RemovalFollowsFault == \A r \in Requests : req[r].pc = "remove" => faults > 0

\* A request past the choice of a session has one.
SessionInHand == \A r \in Requests : req[r].pc \in WithSession => req[r].session \in Ids

\* The inductive invariant.
PoolInv == /\ PoolTyped /\ RefillWithinTarget /\ SessionsCloseByFaultOnly
           /\ RemovalFollowsFault /\ SessionInHand /\ PermitsAreHeld
-----------------------------------------------------------------------------
(* Counting. *)

\* Session ids are finitely many, so is any set of them.
LEMMA IdsAreFinite ==
    ASSUME PoolConstants
    PROVE  /\ Cardinality(Requests) \in Nat
           /\ IsFiniteSet(Ids) /\ Cardinality(Ids) = MAX_SESSIONS + Cardinality(Requests)
           /\ \A S \in SUBSET Ids : IsFiniteSet(S) /\ Cardinality(S) \in Nat
<1>1. Cardinality(Requests) \in Nat
  BY FS_CardinalityType DEF PoolConstants
<1>2. IsFiniteSet(Ids) /\ Cardinality(Ids) = MAX_SESSIONS + Cardinality(Requests)
  BY <1>1, FS_Interval, SMTT(60) DEF PoolConstants, Ids
<1> QED
  BY <1>1, <1>2, FS_Subset, FS_CardinalityType

\* A pool below its limit leaves an id that neither it nor a request refers to.
LEMMA FreshIdIsFree ==
    ASSUME PoolConstants, PoolTyped, Cardinality(pool) < MAX_SESSIONS
    PROVE  FreshId \in FreeIds /\ FreshId \in Ids /\ FreshId \notin pool
<1> DEFINE inHand == [r \in Requests |-> req[r].session]
           held == {req[r].session : r \in Requests}
<1>1. IsFiniteSet(held) /\ Cardinality(held) <= Cardinality(Requests) /\ Cardinality(held) \in Nat
  <2>1. inHand \in Surjection(Requests, held)
    BY DEF Surjection
  <2>2. IsFiniteSet(Requests)
    BY DEF PoolConstants
  <2>3. IsFiniteSet(held) /\ Cardinality(held) <= Cardinality(Requests)
    BY <2>1, <2>2, FS_Surjection
  <2> QED
    BY <2>3, FS_CardinalityType
<1>2. IsFiniteSet(pool) /\ Cardinality(pool) \in Nat
  BY IdsAreFinite DEF PoolTyped
<1>3. /\ IsFiniteSet(pool \cup held)
      /\ Cardinality(pool \cup held) <= Cardinality(pool) + Cardinality(held)
      /\ Cardinality(pool \cup held) \in Nat
  <2>1. IsFiniteSet(pool \cap held) /\ Cardinality(pool \cap held) \in Nat
    BY <1>2, FS_Intersection, FS_CardinalityType
  <2> HIDE DEF held
  <2>2. /\ IsFiniteSet(pool \cup held)
        /\ Cardinality(pool \cup held) = Cardinality(pool) + Cardinality(held) - Cardinality(pool \cap held)
    BY <1>1, <1>2, FS_Union
  <2>3. Cardinality(pool \cup held) \in Nat
    BY <2>2, FS_CardinalityType
  <2> QED
    BY <1>1, <1>2, <2>1, <2>2, <2>3
<1>4. FreeIds # {}
  <2> SUFFICES ASSUME FreeIds = {} PROVE FALSE
    OBVIOUS
  <2>1. Ids \subseteq pool \cup held
    BY DEF FreeIds
  <2>2. Cardinality(Ids) <= Cardinality(pool \cup held)
    BY <1>3, <2>1, FS_Subset
  <2> QED
    BY <1>1, <1>2, <1>3, <2>2, IdsAreFinite DEF PoolConstants
<1>5. FreeIds \subseteq Ids /\ Ids \subseteq Nat
  BY IdsAreFinite DEF FreeIds, Ids, PoolConstants
<1>6. \E i \in FreeIds : \A j \in FreeIds : i <= j
  <2>1. \E i \in FreeIds : \A j \in FreeIds : ~(<<j, i>> \in OpToRel(<, Nat))
    BY <1>4, <1>5, NatLessThanWellFounded, WFMin
  <2>2. PICK i \in FreeIds : \A j \in FreeIds : ~(<<j, i>> \in OpToRel(<, Nat))
    BY <2>1
  <2>3. \A j \in FreeIds : ~(j < i)
    BY <1>5, <2>2 DEF OpToRel
  <2> QED
    BY <1>5, <2>3
<1>7. FreshId \in FreeIds
  BY <1>6 DEF FreshId
<1> QED
  BY <1>5, <1>7 DEF FreeIds

\* Two sets that agree on everything but one element differ by that element.
LEMMA OneMoves ==
    ASSUME NEW H, NEW H1, NEW r, IsFiniteSet(H), IsFiniteSet(H1), H1 \ {r} = H \ {r},
           NEW a \in {0, 1}, NEW b \in {0, 1}, r \in H <=> a = 1, r \in H1 <=> b = 1
    PROVE  /\ Cardinality(H) \in Nat /\ Cardinality(H1) \in Nat
           /\ Cardinality(H1) = Cardinality(H) + b - a
<1>1. Cardinality(H) \in Nat /\ Cardinality(H1) \in Nat
  BY FS_CardinalityType
<1>2. Cardinality(H \ {r}) = Cardinality(H) - a
  <2>1. Cardinality(H \ {r}) = IF r \in H THEN Cardinality(H) - 1 ELSE Cardinality(H)
    BY FS_RemoveElement
  <2> QED
    BY <1>1, <2>1
<1>3. Cardinality(H1 \ {r}) = Cardinality(H1) - b
  <2>1. Cardinality(H1 \ {r}) = IF r \in H1 THEN Cardinality(H1) - 1 ELSE Cardinality(H1)
    BY FS_RemoveElement
  <2> QED
    BY <1>1, <2>1
<1>4. Cardinality(H1 \ {r}) = Cardinality(H \ {r})
  OBVIOUS
<1>5. Cardinality(H1) - b = Cardinality(H) - a
  BY <1>2, <1>3, <1>4
<1> QED
  BY <1>1, <1>5

\* What a request's record holds of session i, counted.
StreamOf(q, i) == IF q.session = i /\ q.pc \in WithStream THEN 1 ELSE 0
OpenOf(q, i) == IF q.session = i /\ q.pc = "opening" THEN 1 ELSE 0

\* One request changes: the numbers of holders change by what it takes or returns.
LEMMA HoldersCounted ==
    ASSUME PoolConstants, PoolTyped, NEW r \in Requests, NEW q,
           req' = [req EXCEPT ![r] = q], NEW i
    PROVE  /\ Cardinality(StreamHolders(i)) \in Nat /\ Cardinality(Openers(i)) \in Nat
           /\ Cardinality(StreamHolders(i)') =
                Cardinality(StreamHolders(i)) + StreamOf(q, i) - StreamOf(req[r], i)
           /\ Cardinality(Openers(i)') =
                Cardinality(Openers(i)) + OpenOf(q, i) - OpenOf(req[r], i)
           /\ Cardinality(StreamHolders(i)') \in Nat /\ Cardinality(Openers(i)') \in Nat
<1> DEFINE H == StreamHolders(i)
           H1 == StreamHolders(i)'
           O == Openers(i)
           O1 == Openers(i)'
<1>1. \A s \in Requests : req'[s] = IF s = r THEN q ELSE req[s]
  BY DEF PoolTyped
<1>2. H \subseteq Requests /\ H1 \subseteq Requests /\ O \subseteq Requests /\ O1 \subseteq Requests
  BY DEF StreamHolders, Openers
<1>3. IsFiniteSet(H) /\ IsFiniteSet(H1) /\ IsFiniteSet(O) /\ IsFiniteSet(O1)
  BY <1>2, FS_Subset DEF PoolConstants
<1>5. /\ H1 \ {r} = H \ {r} /\ O1 \ {r} = O \ {r}
  BY <1>1 DEF StreamHolders, Openers
<1>6. /\ r \in H <=> StreamOf(req[r], i) = 1
      /\ r \in H1 <=> StreamOf(q, i) = 1
      /\ r \in O <=> OpenOf(req[r], i) = 1
      /\ r \in O1 <=> OpenOf(q, i) = 1
      /\ StreamOf(req[r], i) \in {0, 1} /\ StreamOf(q, i) \in {0, 1}
      /\ OpenOf(req[r], i) \in {0, 1} /\ OpenOf(q, i) \in {0, 1}
  BY <1>1 DEF StreamHolders, Openers, StreamOf, OpenOf, WithStream
<1> HIDE DEF H, H1, O, O1
<1>7. /\ Cardinality(H) \in Nat /\ Cardinality(H1) \in Nat
      /\ Cardinality(H1) = Cardinality(H) + StreamOf(q, i) - StreamOf(req[r], i)
  BY <1>3, <1>5, <1>6, OneMoves
<1>8. /\ Cardinality(O) \in Nat /\ Cardinality(O1) \in Nat
      /\ Cardinality(O1) = Cardinality(O) + OpenOf(q, i) - OpenOf(req[r], i)
  BY <1>3, <1>5, <1>6, OneMoves
<1> QED
  BY <1>7, <1>8 DEF H, H1, O, O1

\* One request changes, and with it what it may change: the permits it takes or
\* returns, the pool (which only loses sessions), the refill, the flags and faults.
LEMMA RequestMoves ==
    ASSUME PoolConstants, PoolInv, NEW r \in Requests, NEW q \in RequestRecord,
           req' = [req EXCEPT ![r] = q],
           q.pc \in WithSession => q.session \in Ids,
           q.pc = "remove" => faults' > 0,
           faults' \in Nat /\ faults' >= faults,
           pool' \subseteq pool,
           closed' \in [Ids -> BOOLEAN],
           faults' > 0 \/ \A i \in Ids : closed'[i] => closed[i],
           refill' \in RefillRecord,
           \/ refill' = refill
           \/ refill'.creating > 0 => /\ Cardinality(pool') + refill'.creating <= refill'.target
                                      /\ refill'.target <= MAX_SESSIONS,
           streams' \in [Ids -> Int], opens' \in [Ids -> Int],
           \A i \in Ids : /\ streams'[i] = streams[i] + StreamOf(q, i) - StreamOf(req[r], i)
                          /\ opens'[i] = opens[i] + OpenOf(q, i) - OpenOf(req[r], i)
                          /\ streams'[i] <= MAX_STREAMS /\ opens'[i] <= MAX_OPENS
    PROVE  PoolInv'
<1>0. /\ PoolTyped /\ RefillWithinTarget /\ SessionsCloseByFaultOnly
      /\ RemovalFollowsFault /\ SessionInHand /\ PermitsAreHeld
  BY DEF PoolInv
<1>1. PermitsAreHeld'
  <2> SUFFICES ASSUME NEW i \in Ids
               PROVE  /\ streams'[i] = Cardinality(StreamHolders(i)')
                      /\ opens'[i] = Cardinality(Openers(i)')
    BY DEF PermitsAreHeld, StreamHolders, Openers
  <2>1. streams[i] = Cardinality(StreamHolders(i)) /\ opens[i] = Cardinality(Openers(i))
    BY <1>0 DEF PermitsAreHeld
  <2>2. /\ Cardinality(StreamHolders(i)') =
             Cardinality(StreamHolders(i)) + StreamOf(q, i) - StreamOf(req[r], i)
        /\ Cardinality(Openers(i)') =
             Cardinality(Openers(i)) + OpenOf(q, i) - OpenOf(req[r], i)
    <3>1. PoolTyped
      BY <1>0
    <3> HIDE <1>0
    <3> QED
      BY ONLY PoolConstants, <3>1, r \in Requests, req' = [req EXCEPT ![r] = q], HoldersCounted, Zenon
  <2> QED
    BY <2>1, <2>2
<1>2. \A i \in Ids : streams'[i] \in 0..MAX_STREAMS /\ opens'[i] \in 0..MAX_OPENS
  <2>1. \A i \in Ids : Cardinality(StreamHolders(i)') \in Nat /\ Cardinality(Openers(i)') \in Nat
    BY <1>0, HoldersCounted
  <2> QED
    BY <1>1, <2>1 DEF PermitsAreHeld, PoolConstants
<1>3. streams' \in [Ids -> 0..MAX_STREAMS] /\ opens' \in [Ids -> 0..MAX_OPENS]
  BY <1>2
<1>4. PoolTyped'
  BY <1>0, <1>3 DEF PoolTyped
<1>5. /\ Cardinality(pool') <= Cardinality(pool)
      /\ Cardinality(pool) \in Nat /\ Cardinality(pool') \in Nat
  <2>1. IsFiniteSet(pool) /\ IsFiniteSet(pool')
    BY <1>0, IdsAreFinite, <1>4 DEF PoolTyped
  <2> QED
    BY <2>1, FS_Subset, FS_CardinalityType
<1>6. RefillWithinTarget'
  <2>1. refill.creating \in Nat /\ refill.target \in Nat /\ MAX_SESSIONS \in Nat
    BY <1>0 DEF PoolTyped, RefillRecord, PoolConstants
  <2> QED
    BY <1>0, <1>5, <2>1 DEF RefillWithinTarget
<1>7. SessionsCloseByFaultOnly'
  BY <1>0 DEF SessionsCloseByFaultOnly, PoolTyped
<1>8. \A s \in Requests : req'[s] = IF s = r THEN q ELSE req[s]
  BY <1>0 DEF PoolTyped
<1>9. RemovalFollowsFault' /\ SessionInHand'
  BY <1>0, <1>8 DEF RemovalFollowsFault, SessionInHand, PoolTyped
<1> QED
  BY <1>1, <1>4, <1>6, <1>7, <1>9 DEF PoolInv

\* A request that neither holds a permit before nor after its step.
LEMMA QuietMove ==
    ASSUME PoolConstants, PoolInv, NEW r \in Requests, NEW q \in RequestRecord,
           req' = [req EXCEPT ![r] = q],
           req[r].pc \notin WithStream, q.pc \notin WithStream,
           q.pc \in WithSession => q.session \in Ids,
           q.pc = "remove" => faults > 0,
           pool' \subseteq pool, UNCHANGED <<streams, opens, faults>>,
           closed' \in [Ids -> BOOLEAN],
           faults > 0 \/ \A i \in Ids : closed'[i] => closed[i],
           refill' \in RefillRecord,
           \/ refill' = refill
           \/ refill'.creating > 0 => /\ Cardinality(pool') + refill'.creating <= refill'.target
                                      /\ refill'.target <= MAX_SESSIONS
    PROVE  PoolInv'
<1>1. faults \in Nat /\ streams \in [Ids -> 0..MAX_STREAMS] /\ opens \in [Ids -> 0..MAX_OPENS]
  BY DEF PoolInv, PoolTyped
<1>2. \A i \in Ids : /\ StreamOf(q, i) = 0 /\ StreamOf(req[r], i) = 0
                     /\ OpenOf(q, i) = 0 /\ OpenOf(req[r], i) = 0
  BY DEF StreamOf, OpenOf, WithStream
<1>3. MAX_STREAMS \in Nat /\ MAX_OPENS \in Nat
  BY DEF PoolConstants
<1>4. streams' \in [Ids -> Int] /\ opens' \in [Ids -> Int] /\ faults' \in Nat /\ faults' >= faults
  BY <1>1, <1>3
<1>5. \A i \in Ids : /\ streams'[i] = streams[i] + StreamOf(q, i) - StreamOf(req[r], i)
                     /\ opens'[i] = opens[i] + OpenOf(q, i) - OpenOf(req[r], i)
                     /\ streams'[i] <= MAX_STREAMS /\ opens'[i] <= MAX_OPENS
  BY <1>1, <1>2, <1>3
<1> QED
  BY <1>4, <1>5, RequestMoves

\* A request alone in motion: neither the pool nor the refill changes either.
LEMMA OwnMove ==
    ASSUME PoolConstants, PoolInv, NEW r \in Requests, NEW q \in RequestRecord,
           req' = [req EXCEPT ![r] = q],
           req[r].pc \notin WithStream, q.pc \notin WithStream,
           q.pc \in WithSession => q.session \in Ids,
           q.pc = "remove" => faults > 0,
           pool' \subseteq pool, UNCHANGED <<streams, opens, faults, closed, refill>>
    PROVE  PoolInv'
<1>1. closed' \in [Ids -> BOOLEAN] /\ refill' \in RefillRecord
  BY DEF PoolInv, PoolTyped
<1> QED
  BY <1>1, QuietMove
-----------------------------------------------------------------------------
(* Where a request goes on. *)

\* The places at which ensure_yamux_sessions and a failed attempt leave a request.
Between == {"idle", "ensure", "pick", "any"}

LEMMA RequestTypes ==
    ASSUME PoolConstants, NEW q \in RequestRecord
    PROVE  /\ NewRequest \in RequestRecord /\ NewRequest.pc = "idle"
           /\ AtHead(q) \in RequestRecord /\ AtHead(q).pc = "ensure"
           /\ Retried(q) \in RequestRecord /\ Retried(q).pc \in Between
           /\ \A n \in Nat : Resumed(q, n) \in RequestRecord /\ Resumed(q, n).pc \in Between
<1>1. NewRequest \in RequestRecord /\ NewRequest.pc = "idle"
  BY DEF NewRequest, RequestRecord, PoolConstants, Places, None
<1>2. \A p \in RequestRecord : AtHead(p) \in RequestRecord /\ AtHead(p).pc = "ensure"
  <2> SUFFICES ASSUME NEW p \in RequestRecord
               PROVE  AtHead(p) \in RequestRecord /\ AtHead(p).pc = "ensure"
    OBVIOUS
  <2>1. p.attempts \in Nat
    BY DEF RequestRecord
  <2> QED
    BY <1>1, <2>1 DEF AtHead, RequestRecord, Places
<1>3. Retried(q) \in RequestRecord /\ Retried(q).pc \in Between
  <2>1. [q EXCEPT !.attempts = @ + 1] \in RequestRecord
    BY DEF RequestRecord
  <2>2. Retried(q) = NewRequest \/ Retried(q) = AtHead([q EXCEPT !.attempts = @ + 1])
    BY DEF Retried
  <2> QED
    BY <1>1, <1>2, <2>1, <2>2 DEF Between
<1>4. ASSUME NEW n \in Nat
      PROVE  Resumed(q, n) \in RequestRecord /\ Resumed(q, n).pc \in Between
  <2>0. q.caller \in {"head", "pick", "capacity"} /\ (n > 0 \/ n = 0)
    BY DEF RequestRecord
  <2>1. CASE q.caller = "head"
    <3>1. Resumed(q, n) = [q EXCEPT !.pc = "pick"]
      BY <2>1 DEF Resumed
    <3> QED
      BY <3>1 DEF RequestRecord, Places, Between
  <2>2. CASE q.caller # "head" /\ n > 0
    <3>1. Resumed(q, n) = AtHead(q)
      BY <2>2 DEF Resumed
    <3> QED
      BY <3>1, <1>2 DEF Between
  <2>3. CASE q.caller = "pick" /\ n = 0
    <3>1. Resumed(q, n) = [q EXCEPT !.pc = "any"]
      BY <2>3 DEF Resumed
    <3> QED
      BY <3>1 DEF RequestRecord, Places, Between
  <2>4. CASE q.caller = "capacity" /\ n = 0
    <3>1. Resumed(q, n) = Retried(q)
      BY <2>4 DEF Resumed
    <3> QED
      BY <3>1, <1>3
  <2> QED
    BY <2>0, <2>1, <2>2, <2>3, <2>4
<1> QED
  BY <1>1, <1>2, <1>3, <1>4

\* None of the places in between has a session in hand.
LEMMA BetweenIsQuiet ==
    ASSUME NEW p \in Between PROVE p \notin WithSession /\ p \notin WithStream /\ p # "remove"
BY DEF Between, WithSession, WithStream
-----------------------------------------------------------------------------
(* Every step preserves the inductive invariant. *)

LEMMA PoolInit == ASSUME PoolConstants, Init PROVE PoolInv
<1>1. NewRequest \in RequestRecord /\ NewRequest.pc = "idle"
      /\ NewRequest.session = None
  BY DEF NewRequest, RequestRecord, PoolConstants, Places, None
<1>2. PoolTyped
  BY <1>1 DEF Init, PoolTyped, NoRefill, RefillRecord, PoolConstants
<1>3. Cardinality(pool) = 0
  BY FS_EmptySet DEF Init
<1>4. RefillWithinTarget
  BY <1>3 DEF Init, RefillWithinTarget, NoRefill, PoolConstants
<1>5. SessionsCloseByFaultOnly /\ RemovalFollowsFault /\ SessionInHand
  BY <1>1 DEF Init, SessionsCloseByFaultOnly, RemovalFollowsFault, SessionInHand, WithSession
<1>6. \A i \in Ids : StreamHolders(i) = {} /\ Openers(i) = {}
  BY <1>1 DEF Init, StreamHolders, Openers
<1>7. PermitsAreHeld
  BY <1>6, FS_EmptySet DEF Init, PermitsAreHeld
<1> QED
  BY <1>2, <1>4, <1>5, <1>7 DEF PoolInv

\* The record of a request, and what its type says of its fields.
LEMMA RequestTyped ==
    ASSUME PoolInv, NEW r \in Requests
    PROVE  /\ req[r] \in RequestRecord /\ req[r].pc \in Places
           /\ req[r].session \in Ids \cup {None} /\ req[r].target \in 1..MAX_SESSIONS
           /\ req[r].pc \in WithSession => req[r].session \in Ids
           /\ req[r].pc = "remove" => faults > 0
           /\ faults \in Nat
BY DEF PoolInv, PoolTyped, RequestRecord, SessionInHand, RemovalFollowsFault

LEMMA StartStep ==
    ASSUME PoolConstants, PoolInv, NEW r \in Requests, open_target_stream(r)
    PROVE  PoolInv'
<1> DEFINE q == AtHead(NewRequest)
<1>1. q \in RequestRecord /\ q.pc = "ensure"
  BY RequestTypes, RequestTyped
<1>2. /\ req' = [req EXCEPT ![r] = q] /\ req[r].pc = "idle"
      /\ UNCHANGED <<streams, opens, faults, closed, refill>> /\ pool' \subseteq pool
  BY DEF open_target_stream
<1>3. "idle" \notin WithStream /\ "ensure" \notin WithStream /\ "ensure" \notin WithSession
  BY DEF WithStream, WithSession
<1> HIDE DEF q
<1> QED
  BY <1>1, <1>2, <1>3, OwnMove

\* Pruning removes closed sessions only.
LEMMA PrunedIsPart ==
    ASSUME PoolConstants, PoolInv
    PROVE  /\ pruned \subseteq pool /\ pruned \subseteq Ids /\ Cardinality(pruned) \in Nat
           /\ Cardinality(pool) \in Nat /\ IsFiniteSet(pool)
BY IdsAreFinite DEF pruned, PoolInv, PoolTyped

LEMMA EnsureStep ==
    ASSUME PoolConstants, PoolInv, NEW r \in Requests, ensure_yamux_sessions(r)
    PROVE  PoolInv'
<1> DEFINE q == IF Cardinality(pruned) >= req[r].target
                THEN Resumed(req[r], 0) ELSE [req[r] EXCEPT !.pc = "lock"]
<1>1. req[r] \in RequestRecord /\ req \in [Requests -> RequestRecord]
  BY RequestTyped DEF PoolInv, PoolTyped
<1>2. q \in RequestRecord /\ q.pc \in Between \cup {"lock"}
  <2>1. /\ [req[r] EXCEPT !.pc = "lock"] \in RequestRecord
        /\ [req[r] EXCEPT !.pc = "lock"].pc = "lock"
    BY <1>1 DEF RequestRecord, Places
  <2>2. Resumed(req[r], 0) \in RequestRecord /\ Resumed(req[r], 0).pc \in Between
    BY <1>1, RequestTypes
  <2> QED
    BY <2>1, <2>2
<1>3. /\ req' = [req EXCEPT ![r] = q] /\ req[r].pc = "ensure"
      /\ UNCHANGED <<streams, opens, faults, closed, refill>> /\ pool' \subseteq pool
  BY <1>1, PrunedIsPart DEF ensure_yamux_sessions
<1> HIDE DEF q
<1>4. req[r].pc \notin WithStream /\ q.pc \notin WithStream /\ q.pc \notin WithSession /\ q.pc # "remove"
  BY <1>2, <1>3, BetweenIsQuiet DEF WithStream, WithSession
<1> QED
  BY <1>2, <1>3, <1>4, OwnMove

LEMMA LockStep ==
    ASSUME PoolConstants, PoolInv, NEW r \in Requests, LockRefill(r)
    PROVE  PoolInv'
<1>1. req[r] \in RequestRecord /\ req \in [Requests -> RequestRecord] /\ req[r].target \in 1..MAX_SESSIONS
  BY RequestTyped DEF PoolInv, PoolTyped
<1>2. req[r].pc = "lock" /\ req[r].pc \notin WithStream
  BY DEF LockRefill, WithStream
<1>3. UNCHANGED <<pool, closed, streams, opens, faults>>
  BY DEF LockRefill
<1>4. CASE Cardinality(pool) >= req[r].target
  <2> DEFINE q == Resumed(req[r], 0)
  <2>1. q \in RequestRecord /\ q.pc \in Between
    BY <1>1, RequestTypes
  <2>2. req' = [req EXCEPT ![r] = q] /\ UNCHANGED refill
    BY <1>1, <1>4 DEF LockRefill
  <2>3. q.pc \notin WithStream /\ q.pc \notin WithSession /\ q.pc # "remove"
    BY <2>1, BetweenIsQuiet
  <2> HIDE DEF q
  <2> QED
    BY <1>2, <1>3, <2>1, <2>2, <2>3, OwnMove
<1>5. CASE ~(Cardinality(pool) >= req[r].target)
  <2> DEFINE q == [req[r] EXCEPT !.pc = "refill"]
             f == [holder |-> r, target |-> req[r].target,
                   creating |-> req[r].target - Cardinality(pool), success |-> 0]
  <2>1. q \in RequestRecord /\ q.pc = "refill"
    BY <1>1 DEF RequestRecord, Places
  <2>2. req' = [req EXCEPT ![r] = q] /\ refill' = f
    BY <1>1, <1>5 DEF LockRefill
  <2>3. q.pc \notin WithStream /\ q.pc \notin WithSession /\ q.pc # "remove"
    BY <2>1 DEF WithStream, WithSession
  <2>4. Cardinality(pool) \in Nat
    BY PrunedIsPart
  <2>5. f \in RefillRecord
    BY <1>1, <1>5, <2>4 DEF RefillRecord
  <2>6. /\ Cardinality(pool') + f.creating <= f.target /\ f.target <= MAX_SESSIONS
    BY <1>1, <1>3, <2>4 DEF PoolConstants
  <2>7. closed' \in [Ids -> BOOLEAN] /\ \A i \in Ids : closed'[i] => closed[i]
    BY <1>3 DEF PoolInv, PoolTyped
  <2> HIDE DEF q, f
  <2> QED
    BY <1>2, <1>3, <2>1, <2>2, <2>3, <2>5, <2>6, <2>7, QuietMove
<1> QED
  BY <1>4, <1>5

LEMMA FinishStep ==
    ASSUME PoolConstants, PoolInv, NEW r \in Requests, FinishRefill(r)
    PROVE  PoolInv'
<1> DEFINE q == IF refill.success = 0 /\ pool = {} THEN NewRequest
                ELSE Resumed(req[r], refill.success)
<1>1. req[r] \in RequestRecord /\ req \in [Requests -> RequestRecord] /\ refill.success \in Nat
  BY RequestTyped DEF PoolInv, PoolTyped, RefillRecord
<1>2. q \in RequestRecord /\ q.pc \in Between
  <2>1. NewRequest \in RequestRecord /\ NewRequest.pc \in Between
    BY <1>1, RequestTypes DEF Between
  <2>2. Resumed(req[r], refill.success) \in RequestRecord /\ Resumed(req[r], refill.success).pc \in Between
    BY <1>1, RequestTypes
  <2> QED
    BY <2>1, <2>2
<1>3. /\ req' = [req EXCEPT ![r] = q] /\ req[r].pc = "refill" /\ refill' = NoRefill
      /\ UNCHANGED <<pool, streams, opens, faults, closed>>
  BY <1>1 DEF FinishRefill, Refilling
<1> HIDE DEF q
<1>4. req[r].pc \notin WithStream /\ q.pc \notin WithStream /\ q.pc \notin WithSession /\ q.pc # "remove"
  BY <1>2, <1>3, BetweenIsQuiet DEF WithStream
<1>5. refill' \in RefillRecord /\ ~(refill'.creating > 0)
  BY <1>3 DEF NoRefill, RefillRecord, None
<1>6. closed' \in [Ids -> BOOLEAN] /\ \A i \in Ids : closed'[i] => closed[i]
  BY <1>3 DEF PoolInv, PoolTyped
<1> QED
  BY <1>2, <1>3, <1>4, <1>5, <1>6, QuietMove

LEMMA AdditionalStep ==
    ASSUME PoolConstants, PoolInv, NEW r \in Requests, ensure_additional_yamux_session(r)
    PROVE  PoolInv'
<1> DEFINE size == Cardinality(pruned)
           q == IF size >= MAX_SESSIONS THEN Resumed(req[r], 0)
                ELSE [req[r] EXCEPT !.pc = "ensure", !.target = size + 1]
<1>1. req[r] \in RequestRecord /\ req \in [Requests -> RequestRecord] /\ size \in Nat
  BY RequestTyped, PrunedIsPart DEF PoolInv, PoolTyped
<1>2. /\ req' = [req EXCEPT ![r] = q] /\ req[r].pc = "additional"
      /\ UNCHANGED <<streams, opens, faults, closed, refill>> /\ pool' \subseteq pool
  BY <1>1, PrunedIsPart DEF ensure_additional_yamux_session
<1>3. q \in RequestRecord /\ q.pc \in Between
  <2> HIDE DEF size
  <2>1. Resumed(req[r], 0) \in RequestRecord /\ Resumed(req[r], 0).pc \in Between
    BY <1>1, RequestTypes
  <2>2. CASE size >= MAX_SESSIONS
    BY <2>1, <2>2
  <2>3. CASE ~(size >= MAX_SESSIONS)
    <3>1. size + 1 \in 1..MAX_SESSIONS
      BY <1>1, <2>3 DEF PoolConstants
    <3> QED
      BY <1>1, <2>3, <3>1 DEF RequestRecord, Places, Between
  <2> QED
    BY <2>2, <2>3
<1> HIDE DEF q
<1>4. req[r].pc \notin WithStream /\ q.pc \notin WithStream /\ q.pc \notin WithSession /\ q.pc # "remove"
  BY <1>2, <1>3, BetweenIsQuiet DEF WithStream
<1> QED
  BY <1>2, <1>3, <1>4, OwnMove

LEMMA PickStep ==
    ASSUME PoolConstants, PoolInv, NEW r \in Requests,
           next_yamux_session_with_capacity(r) \/ next_yamux_session(r)
    PROVE  PoolInv'
<1>1. req[r] \in RequestRecord /\ req \in [Requests -> RequestRecord] /\ pool \subseteq Ids
  BY RequestTyped DEF PoolInv, PoolTyped
<1>2. /\ req[r].pc \in {"pick", "any"} /\ UNCHANGED <<pool, closed, streams, opens, refill, faults>>
  BY DEF next_yamux_session_with_capacity, next_yamux_session
<1>3. req[r].pc \notin WithStream
  BY <1>2 DEF WithStream
<1>4. ASSUME NEW i \in pool, req' = [req EXCEPT ![r].pc = "dispatch", ![r].session = i]
      PROVE  PoolInv'
  <2> DEFINE q == [req[r] EXCEPT !.pc = "dispatch", !.session = i]
  <2>1. q \in RequestRecord /\ q.pc = "dispatch" /\ q.session \in Ids
    BY <1>1 DEF RequestRecord, Places
  <2>2. req' = [req EXCEPT ![r] = q]
    BY <1>1, <1>4
  <2>3. q.pc \notin WithStream /\ q.pc # "remove"
    BY <2>1 DEF WithStream
  <2> HIDE DEF q
  <2> QED
    BY <1>2, <1>3, <2>1, <2>2, <2>3, OwnMove
<1>5. ASSUME req' = [req EXCEPT ![r].pc = "additional", ![r].caller = "pick"]
      PROVE  PoolInv'
  <2> DEFINE q == [req[r] EXCEPT !.pc = "additional", !.caller = "pick"]
  <2>1. q \in RequestRecord /\ q.pc = "additional"
    BY <1>1 DEF RequestRecord, Places
  <2>2. req' = [req EXCEPT ![r] = q]
    BY <1>1, <1>5
  <2>3. q.pc \notin WithStream /\ q.pc \notin WithSession /\ q.pc # "remove"
    BY <2>1 DEF WithStream, WithSession
  <2> HIDE DEF q
  <2> QED
    BY <1>2, <1>3, <2>1, <2>2, <2>3, OwnMove
<1>6. ASSUME req' = [req EXCEPT ![r] = NewRequest] PROVE PoolInv'
  <2>1. NewRequest \in RequestRecord /\ NewRequest.pc = "idle"
    BY <1>1, RequestTypes
  <2>2. "idle" \notin WithStream /\ "idle" \notin WithSession
    BY DEF WithStream, WithSession
  <2> QED
    BY <1>2, <1>3, <1>6, <2>1, <2>2, OwnMove
<1> QED
  BY <1>4, <1>5, <1>6, PrunedIsPart DEF next_yamux_session_with_capacity, next_yamux_session

LEMMA DispatchStep ==
    ASSUME PoolConstants, PoolInv, NEW r \in Requests, Dispatch(r)
    PROVE  PoolInv'
<1> DEFINE i == req[r].session
           p == CASE has_immediate_stream_capacity(i) -> "try"
                  [] is_closed(i) -> "remove"
                  [] OTHER -> "await_stream"
           q == [req[r] EXCEPT !.pc = p]
<1>1. /\ req[r] \in RequestRecord /\ req \in [Requests -> RequestRecord]
      /\ req[r].pc = "dispatch" /\ i \in Ids
  BY RequestTyped DEF PoolInv, PoolTyped, Dispatch, WithSession
<1>2. p \in {"try", "remove", "await_stream"}
  OBVIOUS
<1>3. p = "remove" => closed[i]
  BY DEF is_closed
<1>4. p = "remove" => faults > 0
  BY <1>1, <1>3 DEF PoolInv, PoolTyped, SessionsCloseByFaultOnly
<1>5. req' = [req EXCEPT ![r] = q] /\ UNCHANGED <<pool, closed, streams, opens, refill, faults>>
  BY <1>1 DEF Dispatch
<1> HIDE DEF p
<1>6. q \in RequestRecord /\ q.pc = p /\ q.session \in Ids
  BY <1>1, <1>2 DEF RequestRecord, Places
<1>7. req[r].pc \notin WithStream /\ q.pc \notin WithStream
  BY <1>1, <1>2, <1>6 DEF WithStream
<1> HIDE DEF q
<1> QED
  BY <1>4, <1>5, <1>6, <1>7, OwnMove

\* A request takes or returns permits of the session i in its hand.
LEMMA PermitMove ==
    ASSUME PoolConstants, PoolInv, NEW r \in Requests, NEW q \in RequestRecord,
           req' = [req EXCEPT ![r] = q],
           NEW i \in Ids, req[r].session = i, q.session = i \/ q.pc = "idle",
           q.pc = "remove" => faults' > 0,
           faults' \in Nat /\ faults' >= faults,
           closed' \in [Ids -> BOOLEAN],
           faults' > 0 \/ \A j \in Ids : closed'[j] => closed[j],
           UNCHANGED <<pool, refill>>,
           streams' \in [Ids -> Int], opens' \in [Ids -> Int],
           \A j \in Ids \ {i} : streams'[j] = streams[j] /\ opens'[j] = opens[j],
           streams'[i] = streams[i] + StreamOf(q, i) - StreamOf(req[r], i),
           opens'[i] = opens[i] + OpenOf(q, i) - OpenOf(req[r], i),
           streams'[i] <= MAX_STREAMS, opens'[i] <= MAX_OPENS
    PROVE  PoolInv'
<1>1. /\ streams \in [Ids -> 0..MAX_STREAMS] /\ opens \in [Ids -> 0..MAX_OPENS]
      /\ refill \in RefillRecord /\ MAX_STREAMS \in Nat /\ MAX_OPENS \in Nat
  BY DEF PoolInv, PoolTyped, PoolConstants
<1>2. \A j \in Ids \ {i} : /\ StreamOf(req[r], j) = 0 /\ StreamOf(q, j) = 0
                           /\ OpenOf(req[r], j) = 0 /\ OpenOf(q, j) = 0
  BY DEF StreamOf, OpenOf, WithStream
<1>3. \A j \in Ids : /\ streams'[j] = streams[j] + StreamOf(q, j) - StreamOf(req[r], j)
                     /\ opens'[j] = opens[j] + OpenOf(q, j) - OpenOf(req[r], j)
                     /\ streams'[j] <= MAX_STREAMS /\ opens'[j] <= MAX_OPENS
  <2> SUFFICES ASSUME NEW j \in Ids
               PROVE  /\ streams'[j] = streams[j] + StreamOf(q, j) - StreamOf(req[r], j)
                      /\ opens'[j] = opens[j] + OpenOf(q, j) - OpenOf(req[r], j)
                      /\ streams'[j] <= MAX_STREAMS /\ opens'[j] <= MAX_OPENS
    OBVIOUS
  <2>1. CASE j = i
    BY <2>1
  <2>2. CASE j # i
    <3>1. /\ StreamOf(req[r], j) = 0 /\ StreamOf(q, j) = 0
          /\ OpenOf(req[r], j) = 0 /\ OpenOf(q, j) = 0
      BY <1>2, <2>2
    <3>2. streams'[j] = streams[j] /\ opens'[j] = opens[j]
      BY <2>2
    <3> QED
      BY <1>1, <3>1, <3>2
  <2> QED
    BY <2>1, <2>2
<1>4. q.pc \in WithSession => q.session \in Ids
  BY DEF WithSession
<1>5. refill' \in RefillRecord /\ pool' \subseteq pool /\ refill' = refill
  BY <1>1
<1> QED
  BY <1>3, <1>4, <1>5, RequestMoves

\* What a step of a request with a session in hand starts from.
LEMMA InHand ==
    ASSUME PoolConstants, PoolInv, NEW r \in Requests, req[r].pc \in WithSession
    PROVE  /\ req[r] \in RequestRecord /\ req \in [Requests -> RequestRecord] /\ req[r].session \in Ids
           /\ streams \in [Ids -> 0..MAX_STREAMS] /\ opens \in [Ids -> 0..MAX_OPENS]
           /\ MAX_STREAMS \in Nat /\ MAX_OPENS \in Nat /\ faults \in Nat
           /\ closed \in [Ids -> BOOLEAN]
           /\ closed[req[r].session] => faults > 0
BY RequestTyped DEF PoolInv, PoolTyped, PoolConstants, SessionsCloseByFaultOnly

LEMMA TryStep ==
    ASSUME PoolConstants, PoolInv, NEW r \in Requests, try_connect_to_target(r)
    PROVE  PoolInv'
<1> DEFINE i == req[r].session
<1>1. req[r].pc = "try" /\ UNCHANGED <<pool, closed, refill, faults>>
  BY DEF try_connect_to_target
<1>2. req[r].pc \in WithSession /\ req[r].pc \notin WithStream
  BY <1>1 DEF WithSession, WithStream
<1>3. /\ req[r] \in RequestRecord /\ req \in [Requests -> RequestRecord] /\ req[r].session \in Ids
      /\ streams \in [Ids -> 0..MAX_STREAMS] /\ opens \in [Ids -> 0..MAX_OPENS]
      /\ MAX_STREAMS \in Nat /\ MAX_OPENS \in Nat /\ faults \in Nat
      /\ closed \in [Ids -> BOOLEAN]
      /\ closed[req[r].session] => faults > 0
  BY <1>2, InHand
<1>4. CASE is_closed(i)
  <2> DEFINE q == [req[r] EXCEPT !.pc = "remove"]
  <2>1. q \in RequestRecord /\ q.pc = "remove" /\ q.session = i
    BY <1>3 DEF RequestRecord, Places
  <2>2. req' = [req EXCEPT ![r] = q] /\ UNCHANGED <<streams, opens>>
    BY <1>3, <1>4 DEF try_connect_to_target
  <2>3. q.pc \notin WithStream
    BY <2>1 DEF WithStream
  <2>4. faults > 0
    BY <1>3, <1>4 DEF is_closed
  <2> HIDE DEF q
  <2> QED
    BY <1>1, <1>2, <1>3, <2>1, <2>2, <2>3, <2>4, OwnMove
<1>5. CASE ~is_closed(i) /\ has_immediate_stream_capacity(i)
  <2> DEFINE q == [req[r] EXCEPT !.pc = "opening"]
  <2>1. q \in RequestRecord /\ q.pc = "opening" /\ q.session = i
    BY <1>3 DEF RequestRecord, Places
  <2>2. /\ req' = [req EXCEPT ![r] = q]
        /\ streams' = [streams EXCEPT ![i] = @ + 1] /\ opens' = [opens EXCEPT ![i] = @ + 1]
    BY <1>3, <1>5 DEF try_connect_to_target
  <2>3. /\ streams' \in [Ids -> Int] /\ opens' \in [Ids -> Int]
        /\ \A j \in Ids \ {i} : streams'[j] = streams[j] /\ opens'[j] = opens[j]
        /\ streams'[i] = streams[i] + 1 /\ opens'[i] = opens[i] + 1
        /\ streams'[i] <= MAX_STREAMS /\ opens'[i] <= MAX_OPENS
    BY <1>3, <1>5, <2>2 DEF has_immediate_stream_capacity
  <2>4. /\ StreamOf(q, i) = 1 /\ StreamOf(req[r], i) = 0
        /\ OpenOf(q, i) = 1 /\ OpenOf(req[r], i) = 0
    BY <1>1, <1>2, <2>1 DEF StreamOf, OpenOf, WithStream
  <2>6. /\ streams'[i] = streams[i] + StreamOf(q, i) - StreamOf(req[r], i)
        /\ opens'[i] = opens[i] + OpenOf(q, i) - OpenOf(req[r], i)
    BY <1>3, <2>3, <2>4
  <2>5. /\ closed' \in [Ids -> BOOLEAN] /\ \A j \in Ids : closed'[j] => closed[j]
        /\ faults' \in Nat /\ faults' >= faults
    BY <1>1, <1>3
  <2> HIDE DEF q
  <2> QED
    BY <1>1, <1>3, <2>1, <2>2, <2>3, <2>5, <2>6, PermitMove
<1>6. CASE ~is_closed(i) /\ ~has_immediate_stream_capacity(i)
  <2> DEFINE q == [req[r] EXCEPT !.pc = "additional", !.session = None, !.caller = "capacity"]
  <2>1. q \in RequestRecord /\ q.pc = "additional"
    BY <1>3 DEF RequestRecord, Places
  <2>2. req' = [req EXCEPT ![r] = q] /\ UNCHANGED <<streams, opens>>
    BY <1>3, <1>6 DEF try_connect_to_target
  <2>3. q.pc \notin WithStream /\ q.pc \notin WithSession /\ q.pc # "remove"
    BY <2>1 DEF WithStream, WithSession
  <2> HIDE DEF q
  <2> QED
    BY <1>1, <1>2, <2>1, <2>2, <2>3, OwnMove
<1> QED
  BY <1>4, <1>5, <1>6

LEMMA AcquireStep ==
    ASSUME PoolConstants, PoolInv, NEW r \in Requests,
           AcquireStreamPermit(r) \/ AcquireOpenPermit(r) \/ StreamOpened(r)
    PROVE  PoolInv'
<1> DEFINE i == req[r].session
<1>1. /\ req[r].pc \in {"await_stream", "await_open", "opening"}
      /\ UNCHANGED <<pool, closed, refill, faults>>
  BY DEF AcquireStreamPermit, AcquireOpenPermit, StreamOpened
<1>2. req[r].pc \in WithSession /\ (req[r].pc \in WithStream <=> req[r].pc # "await_stream")
  BY <1>1 DEF WithSession, WithStream
<1>3. /\ req[r] \in RequestRecord /\ req \in [Requests -> RequestRecord] /\ req[r].session \in Ids
      /\ streams \in [Ids -> 0..MAX_STREAMS] /\ opens \in [Ids -> 0..MAX_OPENS]
      /\ MAX_STREAMS \in Nat /\ MAX_OPENS \in Nat /\ faults \in Nat
      /\ closed \in [Ids -> BOOLEAN]
  BY <1>2, InHand
<1>4. closed' \in [Ids -> BOOLEAN] /\ (\A j \in Ids : closed'[j] => closed[j])
      /\ faults' \in Nat /\ faults' >= faults
  BY <1>1, <1>3
<1>5. CASE AcquireStreamPermit(r)
  <2> DEFINE q == [req[r] EXCEPT !.pc = "await_open"]
  <2>1. q \in RequestRecord /\ q.pc = "await_open" /\ q.session = i /\ q.pc \in WithStream
    BY <1>3 DEF RequestRecord, Places, WithStream
  <2>2. req' = [req EXCEPT ![r] = q] /\ req[r].pc = "await_stream"
    BY <1>3, <1>5 DEF AcquireStreamPermit
  <2>3. /\ streams' \in [Ids -> Int] /\ opens' \in [Ids -> Int]
        /\ \A j \in Ids \ {i} : streams'[j] = streams[j] /\ opens'[j] = opens[j]
        /\ streams'[i] = streams[i] + 1 /\ opens'[i] = opens[i]
        /\ streams'[i] <= MAX_STREAMS /\ opens'[i] <= MAX_OPENS
    BY <1>3, <1>5 DEF AcquireStreamPermit
  <2>4. /\ StreamOf(q, i) = 1 /\ StreamOf(req[r], i) = 0
        /\ OpenOf(q, i) = 0 /\ OpenOf(req[r], i) = 0
    BY <2>1, <2>2 DEF StreamOf, OpenOf, WithStream
  <2>5. /\ streams'[i] = streams[i] + StreamOf(q, i) - StreamOf(req[r], i)
        /\ opens'[i] = opens[i] + OpenOf(q, i) - OpenOf(req[r], i)
    BY <1>3, <2>3, <2>4
  <2> HIDE DEF q
  <2> QED
    BY <1>1, <1>3, <1>4, <2>1, <2>2, <2>3, <2>5, PermitMove
<1>6. CASE AcquireOpenPermit(r)
  <2> DEFINE q == [req[r] EXCEPT !.pc = "opening"]
  <2>1. q \in RequestRecord /\ q.pc = "opening" /\ q.session = i /\ q.pc \in WithStream
    BY <1>3 DEF RequestRecord, Places, WithStream
  <2>2. req' = [req EXCEPT ![r] = q] /\ req[r].pc = "await_open"
    BY <1>3, <1>6 DEF AcquireOpenPermit
  <2>3. /\ streams' \in [Ids -> Int] /\ opens' \in [Ids -> Int]
        /\ \A j \in Ids \ {i} : streams'[j] = streams[j] /\ opens'[j] = opens[j]
        /\ streams'[i] = streams[i] /\ opens'[i] = opens[i] + 1
        /\ streams'[i] <= MAX_STREAMS /\ opens'[i] <= MAX_OPENS
    BY <1>3, <1>6 DEF AcquireOpenPermit
  <2>4. /\ StreamOf(q, i) = 1 /\ StreamOf(req[r], i) = 1
        /\ OpenOf(q, i) = 1 /\ OpenOf(req[r], i) = 0
    BY <2>1, <2>2 DEF StreamOf, OpenOf, WithStream
  <2>5. /\ streams'[i] = streams[i] + StreamOf(q, i) - StreamOf(req[r], i)
        /\ opens'[i] = opens[i] + OpenOf(q, i) - OpenOf(req[r], i)
    BY <1>3, <2>3, <2>4
  <2> HIDE DEF q
  <2> QED
    BY <1>1, <1>3, <1>4, <2>1, <2>2, <2>3, <2>5, PermitMove
<1>7. CASE StreamOpened(r)
  <2> DEFINE q == [req[r] EXCEPT !.pc = "auth"]
  <2>1. q \in RequestRecord /\ q.pc = "auth" /\ q.session = i /\ q.pc \in WithStream
    BY <1>3 DEF RequestRecord, Places, WithStream
  <2>2. req' = [req EXCEPT ![r] = q] /\ req[r].pc = "opening"
    BY <1>3, <1>7 DEF StreamOpened
  <2>3. /\ streams' \in [Ids -> Int] /\ opens' \in [Ids -> Int]
        /\ \A j \in Ids \ {i} : streams'[j] = streams[j] /\ opens'[j] = opens[j]
        /\ streams'[i] = streams[i] /\ opens'[i] = opens[i] - 1
        /\ streams'[i] <= MAX_STREAMS /\ opens'[i] <= MAX_OPENS
    BY <1>3, <1>7 DEF StreamOpened
  <2>4. /\ StreamOf(q, i) = 1 /\ StreamOf(req[r], i) = 1
        /\ OpenOf(q, i) = 0 /\ OpenOf(req[r], i) = 1
    BY <2>1, <2>2 DEF StreamOf, OpenOf, WithStream
  <2>5. /\ streams'[i] = streams[i] + StreamOf(q, i) - StreamOf(req[r], i)
        /\ opens'[i] = opens[i] + OpenOf(q, i) - OpenOf(req[r], i)
    BY <1>3, <2>3, <2>4
  <2> HIDE DEF q
  <2> QED
    BY <1>1, <1>3, <1>4, <2>1, <2>2, <2>3, <2>5, PermitMove
<1> QED
  BY <1>5, <1>6, <1>7

LEMMA NotOpenedStep ==
    ASSUME PoolConstants, PoolInv, NEW r \in Requests, StreamNotOpened(r)
    PROVE  PoolInv'
<1> DEFINE i == req[r].session
           q == [req[r] EXCEPT !.pc = "remove"]
<1>1. req[r].pc = "opening" /\ UNCHANGED <<pool, refill>>
  BY DEF StreamNotOpened
<1>2. req[r].pc \in WithSession
  BY <1>1 DEF WithSession
<1>3. /\ req[r] \in RequestRecord /\ req \in [Requests -> RequestRecord] /\ req[r].session \in Ids
      /\ streams \in [Ids -> 0..MAX_STREAMS] /\ opens \in [Ids -> 0..MAX_OPENS]
      /\ MAX_STREAMS \in Nat /\ MAX_OPENS \in Nat /\ faults \in Nat
      /\ closed \in [Ids -> BOOLEAN]
      /\ closed[req[r].session] => faults > 0
  BY <1>2, InHand
<1>4. faults' \in Nat /\ faults' >= faults /\ faults' > 0 /\ closed' \in [Ids -> BOOLEAN]
  BY <1>3 DEF StreamNotOpened, is_closed
<1>5. q \in RequestRecord /\ q.pc = "remove" /\ q.session = i
  BY <1>3 DEF RequestRecord, Places
<1>6. req' = [req EXCEPT ![r] = q]
  BY <1>3 DEF StreamNotOpened
<1>7. /\ streams' \in [Ids -> Int] /\ opens' \in [Ids -> Int]
      /\ \A j \in Ids \ {i} : streams'[j] = streams[j] /\ opens'[j] = opens[j]
      /\ streams'[i] = streams[i] - 1 /\ opens'[i] = opens[i] - 1
      /\ streams'[i] <= MAX_STREAMS /\ opens'[i] <= MAX_OPENS
  BY <1>3 DEF StreamNotOpened
<1>8. /\ StreamOf(q, i) = 0 /\ StreamOf(req[r], i) = 1
      /\ OpenOf(q, i) = 0 /\ OpenOf(req[r], i) = 1
  BY <1>1, <1>5 DEF StreamOf, OpenOf, WithStream
<1>9. /\ streams'[i] = streams[i] + StreamOf(q, i) - StreamOf(req[r], i)
      /\ opens'[i] = opens[i] + OpenOf(q, i) - OpenOf(req[r], i)
  BY <1>3, <1>7, <1>8
<1> HIDE DEF q
<1> QED
  BY <1>1, <1>3, <1>4, <1>5, <1>6, <1>7, <1>9, PermitMove

\* The steps that return the stream permit: the target was refused, the handshake
\* failed, the stream was dropped.
LEMMA ReturnStep ==
    ASSUME PoolConstants, PoolInv, NEW r \in Requests,
           TargetRefused(r) \/ HandshakeFailed(r) \/ DropStream(r)
    PROVE  PoolInv'
<1> DEFINE i == req[r].session
           q == IF HandshakeFailed(r) THEN [req[r] EXCEPT !.pc = "remove"] ELSE NewRequest
<1>1. req[r].pc \in {"auth", "streaming"} /\ UNCHANGED <<pool, refill, closed, opens>>
  BY DEF TargetRefused, HandshakeFailed, DropStream
<1>2. req[r].pc \in WithSession
  BY <1>1 DEF WithSession
<1>3. /\ req[r] \in RequestRecord /\ req \in [Requests -> RequestRecord] /\ req[r].session \in Ids
      /\ streams \in [Ids -> 0..MAX_STREAMS] /\ opens \in [Ids -> 0..MAX_OPENS]
      /\ MAX_STREAMS \in Nat /\ MAX_OPENS \in Nat /\ faults \in Nat
      /\ closed \in [Ids -> BOOLEAN]
      /\ closed[req[r].session] => faults > 0
  BY <1>2, InHand
<1>4. faults' \in Nat /\ faults' >= faults /\ (HandshakeFailed(r) => faults' > 0)
  BY <1>3 DEF TargetRefused, HandshakeFailed, DropStream, is_closed
<1>5. /\ q \in RequestRecord /\ (q.session = i \/ q.pc = "idle") /\ q.pc \in {"remove", "idle"}
      /\ q.pc = "remove" => HandshakeFailed(r)
  <2>1. NewRequest \in RequestRecord /\ NewRequest.pc = "idle"
    BY <1>3, RequestTypes
  <2>2. /\ [req[r] EXCEPT !.pc = "remove"] \in RequestRecord
        /\ [req[r] EXCEPT !.pc = "remove"].pc = "remove"
        /\ [req[r] EXCEPT !.pc = "remove"].session = i
    BY <1>3 DEF RequestRecord, Places
  <2>3. CASE HandshakeFailed(r)
    BY <2>2, <2>3
  <2>4. CASE ~HandshakeFailed(r)
    BY <2>1, <2>4
  <2> QED
    BY <2>3, <2>4
<1>6. req' = [req EXCEPT ![r] = q]
  <2>1. CASE HandshakeFailed(r)
    <3>1. req' = [req EXCEPT ![r].pc = "remove"]
      BY <2>1 DEF HandshakeFailed
    <3>2. q = [req[r] EXCEPT !.pc = "remove"]
      BY <2>1
    <3> QED
      BY <1>3, <3>1, <3>2
  <2>2. CASE ~HandshakeFailed(r)
    <3>1. req' = [req EXCEPT ![r] = NewRequest]
      BY <2>2 DEF TargetRefused, DropStream
    <3>2. q = NewRequest
      BY <2>2
    <3> QED
      BY <3>1, <3>2
  <2> QED
    BY <2>1, <2>2
<1>7. /\ streams' \in [Ids -> Int] /\ opens' \in [Ids -> Int]
      /\ \A j \in Ids \ {i} : streams'[j] = streams[j] /\ opens'[j] = opens[j]
      /\ streams'[i] = streams[i] - 1 /\ opens'[i] = opens[i]
      /\ streams'[i] <= MAX_STREAMS /\ opens'[i] <= MAX_OPENS
  <2>1. streams' = [streams EXCEPT ![i] = @ - 1]
    BY DEF TargetRefused, HandshakeFailed, DropStream
  <2> QED
    BY <1>1, <1>3, <2>1
<1> HIDE DEF q
<1>8. /\ StreamOf(q, i) = 0 /\ StreamOf(req[r], i) = 1
      /\ OpenOf(q, i) = 0 /\ OpenOf(req[r], i) = 0
  BY <1>1, <1>5 DEF StreamOf, OpenOf, WithStream
<1>9. /\ streams'[i] = streams[i] + StreamOf(q, i) - StreamOf(req[r], i)
      /\ opens'[i] = opens[i] + OpenOf(q, i) - OpenOf(req[r], i)
  BY <1>3, <1>7, <1>8
<1>10. closed' \in [Ids -> BOOLEAN] /\ \A j \in Ids : closed'[j] => closed[j]
  BY <1>1, <1>3
<1>11. q.pc = "remove" => faults' > 0
  BY <1>4, <1>5
<1> QED
  BY <1>1, <1>3, <1>4, <1>5, <1>6, <1>7, <1>9, <1>10, <1>11, PermitMove

LEMMA ConnectedStep ==
    ASSUME PoolConstants, PoolInv, NEW r \in Requests, TargetConnected(r)
    PROVE  PoolInv'
<1> DEFINE i == req[r].session
           q == [req[r] EXCEPT !.pc = "streaming"]
<1>1. req[r].pc = "auth" /\ UNCHANGED <<pool, closed, streams, opens, refill, faults>>
  BY DEF TargetConnected
<1>2. req[r].pc \in WithSession
  BY <1>1 DEF WithSession
<1>3. /\ req[r] \in RequestRecord /\ req \in [Requests -> RequestRecord] /\ req[r].session \in Ids
      /\ streams \in [Ids -> 0..MAX_STREAMS] /\ opens \in [Ids -> 0..MAX_OPENS]
      /\ MAX_STREAMS \in Nat /\ MAX_OPENS \in Nat /\ faults \in Nat
      /\ closed \in [Ids -> BOOLEAN]
  BY <1>2, InHand
<1>4. /\ faults' \in Nat /\ faults' >= faults
      /\ closed' \in [Ids -> BOOLEAN] /\ \A j \in Ids : closed'[j] => closed[j]
  BY <1>1, <1>3
<1>5. q \in RequestRecord /\ q.pc = "streaming" /\ q.session = i
  BY <1>3 DEF RequestRecord, Places
<1>6. req' = [req EXCEPT ![r] = q]
  BY <1>3 DEF TargetConnected
<1>7. /\ streams' \in [Ids -> Int] /\ opens' \in [Ids -> Int]
      /\ \A j \in Ids \ {i} : streams'[j] = streams[j] /\ opens'[j] = opens[j]
      /\ streams'[i] = streams[i] /\ opens'[i] = opens[i]
      /\ streams'[i] <= MAX_STREAMS /\ opens'[i] <= MAX_OPENS
  BY <1>1, <1>3
<1>8. /\ StreamOf(q, i) = 1 /\ StreamOf(req[r], i) = 1
      /\ OpenOf(q, i) = 0 /\ OpenOf(req[r], i) = 0
  BY <1>1, <1>5 DEF StreamOf, OpenOf, WithStream
<1>9. /\ streams'[i] = streams[i] + StreamOf(q, i) - StreamOf(req[r], i)
      /\ opens'[i] = opens[i] + OpenOf(q, i) - OpenOf(req[r], i)
  BY <1>3, <1>7, <1>8
<1> HIDE DEF q
<1> QED
  BY <1>1, <1>3, <1>4, <1>5, <1>6, <1>7, <1>9, PermitMove

LEMMA RemoveStep ==
    ASSUME PoolConstants, PoolInv, NEW r \in Requests, remove_yamux_session(r)
    PROVE  PoolInv'
<1> DEFINE i == req[r].session
           q == Retried(req[r])
<1>1. req[r].pc = "remove" /\ UNCHANGED <<streams, opens, refill, faults>> /\ pool' \subseteq pool
  BY DEF remove_yamux_session
<1>2. req[r].pc \in WithSession /\ req[r].pc \notin WithStream
  BY <1>1 DEF WithSession, WithStream
<1>3. /\ req[r] \in RequestRecord /\ req[r].session \in Ids /\ closed \in [Ids -> BOOLEAN]
      /\ faults > 0 /\ refill \in RefillRecord
  BY <1>1, <1>2, InHand, RequestTyped DEF PoolInv, PoolTyped
<1>4. q \in RequestRecord /\ q.pc \in Between
  BY <1>3, RequestTypes
<1>5. req' = [req EXCEPT ![r] = q]
  BY DEF remove_yamux_session
<1>6. closed' \in [Ids -> BOOLEAN]
  BY <1>3 DEF remove_yamux_session
<1> HIDE DEF q
<1>7. q.pc \notin WithStream /\ q.pc \notin WithSession /\ q.pc # "remove"
  BY <1>4, BetweenIsQuiet
<1> QED
  BY <1>1, <1>2, <1>3, <1>4, <1>5, <1>6, <1>7, QuietMove

\* Steps that leave the requests and the permits alone.
LEMMA RequestsStay ==
    ASSUME PoolInv, UNCHANGED <<streams, opens, req>>, PoolTyped', RefillWithinTarget',
           SessionsCloseByFaultOnly', faults' >= faults
    PROVE  PoolInv'
<1>0. /\ PoolTyped /\ RemovalFollowsFault /\ SessionInHand /\ PermitsAreHeld
  BY DEF PoolInv
<1>1. RemovalFollowsFault' /\ SessionInHand'
  BY <1>0 DEF RemovalFollowsFault, SessionInHand, PoolTyped
<1>2. PermitsAreHeld'
  BY <1>0 DEF PermitsAreHeld, StreamHolders, Openers
<1> QED
  BY <1>1, <1>2 DEF PoolInv

LEMMA SessionStep ==
    ASSUME PoolConstants, PoolInv, NEW r \in Requests, SessionConnected(r) \/ SessionNotConnected(r)
    PROVE  PoolInv'
<1>0. PoolTyped /\ RefillWithinTarget /\ SessionsCloseByFaultOnly
  BY DEF PoolInv
<1>1. /\ refill \in RefillRecord /\ refill.creating \in Nat \ {0} /\ refill.target \in Nat
      /\ refill.success \in Nat /\ UNCHANGED <<streams, opens, req, faults>>
      /\ MAX_SESSIONS \in Nat /\ faults \in Nat
  BY <1>0 DEF PoolTyped, RefillRecord, SessionConnected, SessionNotConnected, PoolConstants
<1>2. Cardinality(pool) \in Nat /\ IsFiniteSet(pool)
  BY PrunedIsPart
<1>3. Cardinality(pool) + refill.creating <= refill.target /\ refill.target <= MAX_SESSIONS
  BY <1>0, <1>1 DEF RefillWithinTarget
<1>4. Cardinality(pool) < MAX_SESSIONS /\ ~(Cardinality(pool) >= refill.target)
  BY <1>1, <1>2, <1>3
<1>5. CASE SessionConnected(r)
  <2>1. FreshId \in Ids /\ FreshId \notin pool
    BY <1>0, <1>4, FreshIdIsFree
  <2>2. /\ pool' = pool \cup {FreshId} /\ closed' = [closed EXCEPT ![FreshId] = FALSE]
        /\ refill' = [refill EXCEPT !.creating = @ - 1, !.success = @ + 1]
    BY <1>4, <1>5 DEF SessionConnected
  <2>3. Cardinality(pool') = Cardinality(pool) + 1
    BY <1>2, <2>1, <2>2, FS_AddElement
  <2>4. refill' \in RefillRecord /\ refill'.creating = refill.creating - 1 /\ refill'.target = refill.target
    <3>1. refill.creating - 1 \in Nat /\ refill.success + 1 \in Nat
      BY <1>1
    <3>2. refill' = [refill EXCEPT !.creating = refill.creating - 1, !.success = refill.success + 1]
      BY <2>2
    <3>3. refill' \in RefillRecord
      BY <1>1, <3>1, <3>2 DEF RefillRecord
    <3>4. refill'.creating = refill.creating - 1 /\ refill'.target = refill.target
      BY <1>1, <3>2 DEF RefillRecord
    <3> QED
      BY <3>3, <3>4
  <2>5. PoolTyped'
    BY <1>0, <1>1, <2>1, <2>2, <2>4 DEF PoolTyped
  <2>6. RefillWithinTarget'
    BY <1>1, <1>2, <1>3, <1>4, <2>3, <2>4 DEF RefillWithinTarget
  <2>7. SessionsCloseByFaultOnly'
    BY <1>0, <1>1, <2>1, <2>2 DEF SessionsCloseByFaultOnly, PoolTyped
  <2> QED
    BY <1>1, <2>5, <2>6, <2>7, RequestsStay
<1>6. CASE SessionNotConnected(r)
  <2>1. refill' = [refill EXCEPT !.creating = @ - 1] /\ UNCHANGED <<pool, closed>>
    BY <1>6 DEF SessionNotConnected
  <2>2. refill' \in RefillRecord /\ refill'.creating = refill.creating - 1 /\ refill'.target = refill.target
    BY <1>1, <2>1 DEF RefillRecord
  <2>3. PoolTyped'
    BY <1>0, <1>1, <2>1, <2>2 DEF PoolTyped
  <2>4. RefillWithinTarget'
    BY <1>1, <1>2, <1>3, <1>4, <2>1, <2>2 DEF RefillWithinTarget
  <2>5. SessionsCloseByFaultOnly'
    BY <1>0, <1>1, <2>1 DEF SessionsCloseByFaultOnly
  <2> QED
    BY <1>1, <2>3, <2>4, <2>5, RequestsStay
<1> QED
  BY <1>5, <1>6

LEMMA EndsStep ==
    ASSUME PoolConstants, PoolInv, NEW i \in Ids, SessionEnds(i)
    PROVE  PoolInv'
<1>0. PoolTyped /\ RefillWithinTarget /\ faults \in Nat
  BY DEF PoolInv, PoolTyped
<1>1. /\ faults' = faults + 1 /\ closed' = [closed EXCEPT ![i] = TRUE]
      /\ UNCHANGED <<pool, streams, opens, refill, req>>
  BY DEF SessionEnds
<1>2. PoolTyped'
  BY <1>0, <1>1 DEF PoolTyped
<1>3. RefillWithinTarget'
  BY <1>0, <1>1 DEF RefillWithinTarget
<1>4. SessionsCloseByFaultOnly' /\ faults' >= faults
  BY <1>0, <1>1 DEF SessionsCloseByFaultOnly
<1> QED
  BY <1>1, <1>2, <1>3, <1>4, RequestsStay
-----------------------------------------------------------------------------
LEMMA PoolStep == ASSUME PoolConstants, PoolInv, [Next]_vars PROVE PoolInv'
<1>1. CASE UNCHANGED vars
  BY <1>1 DEF vars, PoolInv, PoolTyped, RefillWithinTarget, SessionsCloseByFaultOnly,
              RemovalFollowsFault, SessionInHand, PermitsAreHeld, StreamHolders, Openers
<1>2. CASE \E i \in Ids : SessionEnds(i)
  BY <1>2, EndsStep
<1>3. ASSUME NEW r \in Requests, open_target_stream(r) \/ Progress(r) \/ Waiting(r)
      PROVE  PoolInv'
  <2>1. CASE open_target_stream(r)
    BY <2>1, StartStep
  <2>2. CASE Progress(r)
    BY <2>2, EnsureStep, AdditionalStep, FinishStep, SessionStep, PickStep, DispatchStep, TryStep,
       AcquireStep, NotOpenedStep, ConnectedStep, ReturnStep, RemoveStep DEF Progress
  <2>3. CASE Waiting(r)
    BY <2>3, LockStep, AcquireStep DEF Waiting
  <2> QED
    BY <1>3, <2>1, <2>2, <2>3
<1> QED
  BY <1>1, <1>2, <1>3 DEF Next

LEMMA PoolInvImplies == ASSUME PoolConstants, PoolInv PROVE PoolIsKept
<1>0. /\ PoolTyped /\ RefillWithinTarget /\ SessionsCloseByFaultOnly /\ PermitsAreHeld
  BY DEF PoolInv
<1>1. TypeOK
  BY <1>0 DEF PoolTyped, TypeOK, RefillRecord, RequestRecord
<1>2. /\ refill.creating \in Nat /\ refill.target \in Nat /\ MAX_SESSIONS \in Nat
      /\ Cardinality(pool) \in Nat
  BY <1>0, PrunedIsPart DEF PoolTyped, RefillRecord, PoolConstants
<1>3. RefillFitsPool
  BY <1>0, <1>2 DEF RefillWithinTarget, RefillFitsPool
<1> QED
  BY <1>0, <1>1, <1>3 DEF PoolIsKept

\* For any number of concurrent open_target_stream calls, any limits and any number of
\* faults: sessions being created and sessions pooled stay within the limit together (no
\* connected session is dropped unused), only a fault closes a session, and the permits
\* taken of a session are exactly those of the requests that use it.
THEOREM PoolKept == ASSUME PoolConstants PROVE Spec => []PoolIsKept
<1>1. Init => PoolInv
  BY PoolInit
<1>2. PoolInv /\ [Next]_vars => PoolInv'
  BY PoolStep
<1>3. PoolInv => PoolIsKept
  BY PoolInvImplies
<1> QED
  BY <1>1, <1>2, <1>3, PTL DEF Spec
=============================================================================
