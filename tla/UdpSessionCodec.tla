-------------------------- MODULE UdpSessionCodec --------------------------
(***************************************************************************)
(* One direction of an authenticated native UDP session: the sending       *)
(* UdpSessionCodec::encode_message (fragmentation, sequence numbers used   *)
(* as AEAD nonces), a network that loses, duplicates and reorders          *)
(* datagrams, and the receiving decode_datagram, that composes the replay  *)
(* window and the fragment reassembler (protocol/src/udp_transport).       *)
(*                                                                         *)
(* Encryption is abstract: a datagram is what was sealed, and a datagram   *)
(* that was not is refused, as its tag does not verify.  The payload of    *)
(* fragment i of message m is the value <<m, i>>.                          *)
(***************************************************************************)
EXTENDS Integers, Sequences, FiniteSets

CONSTANTS WINDOW_SIZE, U64_MAX, MAX_ENTRIES, MAX_TOTAL_BYTES, TIMEOUT,
          MAX_FRAGMENTS, FRAGMENT_PLAINTEXT, MAX_MESSAGE_SIZE,
          MessageLens       \* plaintext lengths the sender is given

\* A fragment has room for a byte, and lengths are numbers.
CodecConstants == FRAGMENT_PLAINTEXT \in Nat \ {0} /\ MessageLens \subseteq Nat

VARIABLES next_send_sequence, send_sequence_exhausted,
          next_message_id, message_id_exhausted,   \* sending codec
          net,                                     \* every datagram sent so far
          window, accepted, acc,                   \* receiving codec
          sent, delivered                          \* history

sender == <<next_send_sequence, send_sequence_exhausted,
            next_message_id, message_id_exhausted>>
receiver == <<window, accepted, acc>>
vars == <<sender, net, receiver, sent, delivered>>

U64 == 0..U64_MAX
Indices == 0..(MAX_FRAGMENTS - 1)

Replay == INSTANCE ReplayWindow
Reassembler == INSTANCE FragmentReassembler
                 WITH MessageIds <- U64, Data <- U64 \X Indices, outcome <- << >>
-----------------------------------------------------------------------------
\* Number of fragments of a plaintext: at least one, even when it is empty.
fragment_count(len) ==
    IF len = 0 THEN 1 ELSE (len + FRAGMENT_PLAINTEXT - 1) \div FRAGMENT_PLAINTEXT

\* Length of fragment i: full, but for the last one.
fragment_len(len, i) ==
    IF (i + 1) * FRAGMENT_PLAINTEXT <= len
      THEN FRAGMENT_PLAINTEXT ELSE len - i * FRAGMENT_PLAINTEXT

\* Fragment i of message id, as the receiver decrypts it.
Fragment(id, len, i) ==
    [message_id |-> id, index |-> i, count |-> fragment_count(len),
     total_len |-> len,
     payload |-> [len |-> fragment_len(len, i), data |-> <<id, i>>]]

\* The message with this id and length, whole.
Message(id, len) ==
    [id |-> id,
     fragments |-> [i \in 0..(fragment_count(len) - 1) |-> Fragment(id, len, i).payload]]

Messages == {Message(id, len) : id \in U64, len \in MessageLens}
-----------------------------------------------------------------------------
Init == /\ next_send_sequence = 0
        /\ send_sequence_exhausted = FALSE
        /\ next_message_id = 0
        /\ message_id_exhausted = FALSE
        /\ net = {}
        /\ Replay!Init
        /\ acc = Reassembler!new
        /\ sent = {}
        /\ delivered = << >>

\* Faulty variant: the next number is computed modulo 2^64.
seal_message_wraps(len) ==
    LET count == fragment_count(len)
        last_sequence == next_send_sequence + count - 1
    IN /\ len <= MAX_MESSAGE_SIZE /\ count <= MAX_FRAGMENTS
       /\ net' = net \cup {[seq |-> (next_send_sequence + i) % (U64_MAX + 1),
                            fragment |-> Fragment(next_message_id, len, i)] : i \in 0..(count - 1)}
       /\ next_send_sequence' = (last_sequence + 1) % (U64_MAX + 1)
       /\ UNCHANGED send_sequence_exhausted

\* seal_message: one datagram per fragment, under consecutive sequence numbers.
\* The number after u64::MAX does not exist, so the sender stops for good.
seal_message(len) ==
    LET count == fragment_count(len)
        last_sequence == next_send_sequence + count - 1
    IN /\ len <= MAX_MESSAGE_SIZE /\ count <= MAX_FRAGMENTS
       /\ ~send_sequence_exhausted
       /\ last_sequence <= U64_MAX
       /\ net' = net \cup {[seq |-> next_send_sequence + i,
                            fragment |-> Fragment(next_message_id, len, i)] : i \in 0..(count - 1)}
       /\ IF last_sequence = U64_MAX
            THEN /\ send_sequence_exhausted' = TRUE
                 /\ UNCHANGED next_send_sequence
            ELSE /\ next_send_sequence' = last_sequence + 1
                 /\ UNCHANGED send_sequence_exhausted

\* encode_message; when it fails, nothing has changed and nothing is sent.
EncodeMessage(len) ==
    /\ ~message_id_exhausted
    /\ seal_message(len)
    /\ IF next_message_id = U64_MAX
         THEN /\ message_id_exhausted' = TRUE
              /\ UNCHANGED next_message_id
         ELSE /\ next_message_id' = next_message_id + 1
              /\ UNCHANGED message_id_exhausted
    /\ sent' = sent \cup {Message(next_message_id, len)}
    /\ UNCHANGED <<receiver, delivered>>

\* Faulty variant: the reassembler is fed before the replay check.
DecodeDatagram_unchecked(d) ==
    /\ window' = Replay!commit(window, d.seq)
    /\ accepted' = accepted \cup {d.seq}
    /\ \E r \in Reassembler!push(acc, d.fragment) :
         /\ acc' = r.acc
         /\ delivered' = IF r.kind = "complete"
                           THEN Append(delivered, [id |-> d.fragment.message_id,
                                                   fragments |-> r.message])
                           ELSE delivered
    /\ UNCHANGED <<sender, net, sent>>

\* decode_datagram_at on a datagram the peer sealed: open_datagram, then push.
\* A copy that the window refuses changes nothing.
DecodeDatagram(d) ==
    /\ Replay!OpenAuthentic(d.seq)
    /\ \E r \in Reassembler!push(acc, d.fragment) :
         /\ acc' = r.acc
         /\ delivered' = IF r.kind = "complete"
                           THEN Append(delivered, [id |-> d.fragment.message_id,
                                                   fragments |-> r.message])
                           ELSE delivered
    /\ UNCHANGED <<sender, net, sent>>

\* decode_datagram_at on a replay, a forgery or another session's datagram.
RefuseDatagram == UNCHANGED vars

\* Time passes for the incomplete messages.
Tick == /\ \E id \in DOMAIN acc.entries : acc.entries[id].age < TIMEOUT
        /\ acc' = Reassembler!aged(acc)
        /\ UNCHANGED <<sender, net, window, accepted, sent, delivered>>

Next == \/ \E len \in MessageLens : EncodeMessage(len)
        \/ \E d \in net : DecodeDatagram(d)
        \/ RefuseDatagram
        \/ Tick

Spec == Init /\ [][Next]_vars
-----------------------------------------------------------------------------
TypeOK ==
    /\ next_send_sequence \in U64 /\ send_sequence_exhausted \in BOOLEAN
    /\ next_message_id \in U64 /\ message_id_exhausted \in BOOLEAN
    /\ net \subseteq [seq : U64, fragment : Reassembler!DecodedFragments]
    /\ Replay!TypeOK
    /\ DOMAIN acc.entries \subseteq U64
    /\ sent \subseteq Messages
    /\ delivered \in Seq(Messages)

\* No AEAD nonce is used twice: two datagrams under one sequence number are one
\* datagram, up to and including the end of the u64 range (crypto.rs
\* seal_message, send_sequence_exhausted).
NonceUsedOnce == \A d, e \in net : d.seq = e.seq => d = e

Channel == INSTANCE DatagramChannel

\* Over a network that loses, duplicates and reorders, the codec delivers each
\* message whole and at most once, whatever was evicted or expired meanwhile.
ImplementsChannel == Channel!Spec
=============================================================================
