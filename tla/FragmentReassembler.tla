------------------------ MODULE FragmentReassembler ------------------------
(***************************************************************************)
(* The bounded fragment accumulator of one native UDP session              *)
(* (protocol/src/udp_transport/reassembly.rs).  Fragments that passed the  *)
(* replay check are pushed one at a time; the table of incomplete messages *)
(* is bounded in entries, in bytes and in time.                            *)
(*                                                                         *)
(* Time is kept as the age of each entry, in ticks, capped at TIMEOUT: the *)
(* code only compares `updated_at` of two entries, and ages with TIMEOUT.  *)
(* The key is the message id alone, open_datagram having already refused   *)
(* every other session id.                                                 *)
(***************************************************************************)
EXTENDS Integers, FiniteSets

CONSTANTS MessageIds,          \* ids a fragment may carry
          Data,                \* payload contents told apart
          MAX_ENTRIES,         \* ReassemblyConfig::max_entries
          MAX_TOTAL_BYTES,     \* ReassemblyConfig::max_total_bytes
          TIMEOUT,             \* ReassemblyConfig::timeout, in ticks
          MAX_FRAGMENTS,       \* UDP_MAX_FRAGMENTS
          FRAGMENT_PLAINTEXT,  \* UDP_MAX_FRAGMENT_PLAINTEXT
          MAX_MESSAGE_SIZE     \* UDP_MAX_MESSAGE_SIZE

\* FragmentReassembler::new refuses a configuration with a zero in it.
ReassemblyConstants ==
    /\ {MAX_ENTRIES, MAX_TOTAL_BYTES, TIMEOUT} \subseteq Nat \ {0}
    /\ {MAX_FRAGMENTS, FRAGMENT_PLAINTEXT, MAX_MESSAGE_SIZE} \subseteq Nat

VARIABLES acc,       \* entries: message id -> ReassemblyEntry; total_bytes
          outcome    \* what the last push returned, and for which message

vars == <<acc, outcome>>
-----------------------------------------------------------------------------
Payloads == [len : 0..FRAGMENT_PLAINTEXT, data : Data]

\* A decrypted fragment: the header fields reassembly reads, and the payload.
Fragments == [message_id : MessageIds, index : 0..(MAX_FRAGMENTS - 1),
              count : 1..MAX_FRAGMENTS, total_len : 0..MAX_MESSAGE_SIZE,
              payload : Payloads]

\* UdpPacketHeader::validate, for an encrypted packet.
valid_header(f) ==
    /\ f.count \in 1..MAX_FRAGMENTS
    /\ f.index < f.count
    /\ f.total_len <= MAX_MESSAGE_SIZE
    /\ f.total_len = 0 => f.count = 1
    /\ f.total_len > 0 => f.count <= f.total_len
    /\ f.total_len <= f.count * FRAGMENT_PLAINTEXT

\* Every fragment handed to push has a header that UdpPacketHeader::decode let
\* through.
DecodedFragments == {f \in Fragments : valid_header(f)}

validate_fragment(f) ==
    /\ valid_header(f)
    /\ f.payload.len <= FRAGMENT_PLAINTEXT
    /\ f.payload.len <= f.total_len
    /\ f.total_len # 0 => f.payload.len # 0

new == [entries |-> << >>, total_bytes |-> 0]

Put(table, id, entry) ==
    [i \in DOMAIN table \cup {id} |-> IF i = id THEN entry ELSE table[i]]

\* The sum of the values of f, counted one by one.
Total(f) == Cardinality(UNION {{x} \X (1..f[x]) : x \in DOMAIN f})

\* Sum of received_bytes over some entries of an accumulator.
BytesOf(a, ids) == Total([id \in ids |-> a.entries[id].received_bytes])

\* Faulty variant: the bytes of the removed entries stay on the counter.
remove_leaky(a, ids) ==
    [a EXCEPT !.entries = [id \in DOMAIN @ \ ids |-> @[id]]]

\* Entries leave the table together with their bytes.
remove(a, ids) ==
    [entries     |-> [id \in DOMAIN a.entries \ ids |-> a.entries[id]],
     total_bytes |-> a.total_bytes - BytesOf(a, ids)]

cleanup_expired(a) ==
    remove(a, {id \in DOMAIN a.entries : a.entries[id].age >= TIMEOUT})

\* Faulty variant: the newest entries go first.
NewestFirst(a, gone, keep) ==
    \A id \in gone, other \in DOMAIN a.entries \ (gone \cup keep) :
        a.entries[id].age <= a.entries[other].age

\* No entry left by evicting `gone` is older than one of `gone`.
OldestFirst(a, gone, keep) ==
    \A id \in gone, other \in DOMAIN a.entries \ (gone \cup keep) :
        a.entries[id].age >= a.entries[other].age

\* What the loop over evict_oldest_except(Some(id)) can have removed when `len`
\* more bytes fit: oldest first (in any order between entries of one age, as a
\* HashMap has none) and not one entry more than needed.
evict_until_fits(a, id, len) ==
    {gone \in SUBSET (DOMAIN a.entries \ {id}) :
        /\ OldestFirst(a, gone, {id})
        /\ a.total_bytes - BytesOf(a, gone) + len <= MAX_TOTAL_BYTES
        /\ gone # {} => \E last \in gone :
             /\ \A other \in gone : a.entries[last].age <= a.entries[other].age
             /\ a.total_bytes - BytesOf(a, gone \ {last}) + len > MAX_TOTAL_BYTES}

\* Faulty variant: the table is allowed one entry more.
admit_one_more(a, f) ==
    {[remove(a, gone) EXCEPT !.entries = Put(@, f.message_id,
        [count |-> f.count, total_len |-> f.total_len, fragments |-> << >>,
         received_bytes |-> 0, age |-> 0])] :
        gone \in {g \in SUBSET DOMAIN a.entries :
                    /\ OldestFirst(a, g, {})
                    /\ Cardinality(g) = IF Cardinality(DOMAIN a.entries) > MAX_ENTRIES
                                          THEN 1 ELSE 0}}

\* A new, empty entry; a full table first loses its oldest one.
admit(a, f) ==
    {[remove(a, gone) EXCEPT !.entries = Put(@, f.message_id,
        [count |-> f.count, total_len |-> f.total_len, fragments |-> << >>,
         received_bytes |-> 0, age |-> 0])] :
        gone \in {g \in SUBSET DOMAIN a.entries :
                    /\ OldestFirst(a, g, {})
                    /\ Cardinality(g) = IF Cardinality(DOMAIN a.entries) >= MAX_ENTRIES
                                          THEN 1 ELSE 0}}

Result(a, kind, message) == [acc |-> a, kind |-> kind, message |-> message]

\* The table once the entries in `gone` made room and the payload is stored.
stored(a, f, gone) ==
    LET left  == remove(a, gone)
        entry == [a.entries[f.message_id] EXCEPT
                    !.fragments = Put(@, f.index, f.payload),
                    !.received_bytes = @ + f.payload.len,
                    !.age = 0]
    IN [entries     |-> Put(left.entries, f.message_id, entry),
        total_bytes |-> left.total_bytes + f.payload.len]

\* An entry that misses no fragment any more is taken out of the table.
settled(a, id) ==
    LET entry == a.entries[id]
    IN IF Cardinality(DOMAIN entry.fragments) # entry.count
         THEN Result(a, "partial", << >>)
       ELSE IF entry.received_bytes = entry.total_len
         THEN Result(remove(a, {id}), "complete", entry.fragments)
       ELSE Result(remove(a, {id}), "wrong_length", << >>)

\* The tail of push: make room for the payload, store it, and see whether the
\* message is complete.
store(a, f) ==
    LET room == evict_until_fits(a, f.message_id, f.payload.len)
    IN IF room = {} THEN {Result(a, "no_room", << >>)}
       ELSE {settled(stored(a, f, gone), f.message_id) : gone \in room}

\* The middle of push: the checks against the entry of the message.
merge(a, f) ==
    LET entry == a.entries[f.message_id]
        bytes == entry.received_bytes + f.payload.len
    IN IF \/ entry.count # f.count
          \/ entry.total_len # f.total_len
          \/ f.index \in DOMAIN entry.fragments /\ entry.fragments[f.index] # f.payload
         THEN {Result(a, "conflict", << >>)}
       ELSE IF f.index \in DOMAIN entry.fragments
         THEN {Result(a, "duplicate", << >>)}
       ELSE IF bytes > entry.total_len
         THEN {Result(a, "too_long", << >>)}
       ELSE IF bytes > MAX_TOTAL_BYTES
         THEN {Result(a, "too_large", << >>)}
       ELSE store(a, f)

\* FragmentReassembler::push: every result it can return.
push(a, f) ==
    LET live == cleanup_expired(a)
    IN IF ~validate_fragment(f) \/ (f.count = 1 /\ f.payload.len # f.total_len)
         THEN {Result(a, "invalid", << >>)}
       ELSE IF f.count = 1
         THEN {Result(a, "complete", [i \in {0} |-> f.payload])}
       ELSE IF f.message_id \in DOMAIN live.entries
         THEN merge(live, f)
       ELSE IF f.payload.len > MAX_TOTAL_BYTES
         THEN {Result(live, "too_large", << >>)}
       ELSE UNION {merge(a2, f) : a2 \in admit(live, f)}
-----------------------------------------------------------------------------
\* No push has just returned.
Quiet == [kind |-> "none", message_id |-> {}]

Init == /\ acc = new
        /\ outcome = Quiet

Push(f) == \E r \in push(acc, f) :
    /\ acc' = r.acc
    /\ outcome' = [kind |-> r.kind, message_id |-> f.message_id]

\* UdpSessionCodec::cleanup_expired, a public entry point.
Cleanup == /\ acc' = cleanup_expired(acc)
           /\ outcome' = Quiet

\* Every entry is one tick older.
aged(a) ==
    [entries     |-> [id \in DOMAIN a.entries |->
                        [a.entries[id] EXCEPT !.age = IF @ < TIMEOUT THEN @ + 1 ELSE @]],
     total_bytes |-> a.total_bytes]

\* Time passes.
Tick == /\ \E id \in DOMAIN acc.entries : acc.entries[id].age < TIMEOUT
        /\ acc' = aged(acc)
        /\ outcome' = Quiet

Next == Tick \/ Cleanup \/ \E f \in DecodedFragments : Push(f)

Spec == Init /\ [][Next]_vars
-----------------------------------------------------------------------------
Kinds == {"none", "invalid", "complete", "partial", "duplicate", "conflict",
          "too_long", "too_large", "wrong_length", "no_room"}

TypeOK ==
    /\ DOMAIN acc.entries \subseteq MessageIds
    /\ \A id \in DOMAIN acc.entries :
         LET e == acc.entries[id]
         IN /\ e.count \in 2..MAX_FRAGMENTS
            /\ e.total_len \in 1..MAX_MESSAGE_SIZE
            /\ DOMAIN e.fragments \subseteq 0..(e.count - 1)
            /\ \A i \in DOMAIN e.fragments : e.fragments[i] \in Payloads
            /\ e.received_bytes \in Nat
            /\ e.age \in 0..TIMEOUT
    /\ acc.total_bytes \in Int
    /\ outcome \in [kind : Kinds, message_id : MessageIds] \cup {Quiet}

\* The byte counters are true: each entry counts the bytes it holds and
\* total_bytes is their sum, through stores, completions, evictions and
\* expiries, so none of the `-=` of reassembly.rs can underflow.
ByteAccounting ==
    /\ acc.total_bytes = BytesOf(acc, DOMAIN acc.entries)
    /\ \A id \in DOMAIN acc.entries :
         LET e == acc.entries[id]
         IN e.received_bytes = Total([i \in DOMAIN e.fragments |-> e.fragments[i].len])

\* A session never buffers more than its limits (reassembly.rs:11-14).
WithinLimits == /\ Cardinality(DOMAIN acc.entries) <= MAX_ENTRIES
                /\ acc.total_bytes <= MAX_TOTAL_BYTES

\* No entry is dead weight: each holds a fragment, still misses one, and can
\* still be completed within its declared length.  In particular no error path
\* of push leaves behind the empty entry it inserted.
EntriesAreUseful ==
    \A id \in DOMAIN acc.entries :
        LET e == acc.entries[id]
        IN /\ Cardinality(DOMAIN e.fragments) \in 1..(e.count - 1)
           /\ e.received_bytes <= e.total_len

\* The errors for a table with nothing left to evict cannot happen: a payload
\* that fits the limit alone always finds room (reassembly.rs push).
AlwaysRoom == outcome.kind # "no_room"

\* A push that fails its checks costs no other message its buffered fragments,
\* apart from those whose time is up.
FailureCostsNobody ==
    outcome'.kind \in {"invalid", "duplicate", "conflict", "too_long", "too_large"} =>
        \A id \in DOMAIN acc.entries :
            acc.entries[id].age < TIMEOUT =>
                /\ id \in DOMAIN acc'.entries
                /\ acc'.entries[id] = acc.entries[id]

FailedPushEvictsNothing == [][FailureCostsNobody]_vars

\* A message is never put together from fragments on both sides of its
\* timeout: what the first fragment after it finds is an empty entry.
StartsAfreshOnceExpired ==
    \A id \in DOMAIN acc.entries :
        /\ acc.entries[id].age >= TIMEOUT
        /\ outcome' = [kind |-> "partial", message_id |-> id]
        => Cardinality(DOMAIN acc'.entries[id].fragments) = 1

ExpiredFragmentsAreDropped == [][StartsAfreshOnceExpired]_vars

\* A push never evicts the message it is about, and what it evicts of the others
\* is at least as old as what it keeps (evict_oldest_except).
KeepsOwnAndYoungest ==
    outcome'.kind = "partial" =>
        LET id == outcome'.message_id
            others == {i \in DOMAIN acc.entries : i # id /\ acc.entries[i].age < TIMEOUT}
            kept == others \cap DOMAIN acc'.entries
        IN /\ id \in DOMAIN acc'.entries
           /\ (id \in DOMAIN acc.entries /\ acc.entries[id].age < TIMEOUT) =>
                DOMAIN acc.entries[id].fragments \subseteq DOMAIN acc'.entries[id].fragments
           /\ \A i \in others \ kept, j \in kept : acc.entries[i].age >= acc.entries[j].age

EvictsOldestOthers == [][KeepsOwnAndYoungest]_vars
=============================================================================
