--------------------------- MODULE MCDatagramPath --------------------------
\* The datagrams of a native UDP session: the replay window, the words it
\* is kept in, reassembly, and the codec that puts window and reassembly
\* together.  Each behaviour is about one of them; the window of the
\* codec is the one of the first part.
EXTENDS ReplayWindow, TLC

CONSTANTS WORD_BITS, WORD_COUNT, BITMAP_MAX, MAX_ENTRIES, MAX_TOTAL_BYTES, TIMEOUT,
          MAX_FRAGMENTS, FRAGMENT_PLAINTEXT, MAX_MESSAGE_SIZE, MessageLens,
          MessageIds, Data, TABLE_TIMEOUT, TABLE_SIZE

VARIABLES
    part,     \* the component this behaviour is about
    highest, seen, bitmap_accepted,
    next_send_sequence, send_sequence_exhausted, next_message_id, message_id_exhausted,
    net, codec_acc, sent, delivered,
    reassembly_acc, outcome

Bitmap == INSTANCE ReplayBitmap WITH
    U64_MAX <- BITMAP_MAX, accepted <- bitmap_accepted
Codec == INSTANCE UdpSessionCodec WITH
    acc <- codec_acc
Table == INSTANCE FragmentReassembler WITH
    TIMEOUT <- TABLE_TIMEOUT, MAX_MESSAGE_SIZE <- TABLE_SIZE, acc <- reassembly_acc

bitmap_vars == <<highest, seen, bitmap_accepted>>
codec_vars == <<next_send_sequence, send_sequence_exhausted, next_message_id,
                message_id_exhausted, net, codec_acc, sent, delivered>>
reassembly_vars == <<reassembly_acc, outcome>>
suite_vars == <<part, vars, bitmap_vars, codec_vars, reassembly_vars>>

SuiteInit == /\ part \in {"window", "bitmap", "codec", "reassembly"}
             /\ Init /\ Bitmap!Init /\ Codec!Init /\ Table!Init

OnlyWindow == /\ part = "window"
              /\ UNCHANGED <<part, bitmap_vars, codec_vars, reassembly_vars>>
OnlyBitmap == /\ part = "bitmap"
              /\ UNCHANGED <<part, vars, codec_vars, reassembly_vars>>
OnlyCodec == /\ part = "codec"
             /\ UNCHANGED <<part, bitmap_vars, reassembly_vars>>
OnlyTable == /\ part = "reassembly"
             /\ UNCHANGED <<part, vars, bitmap_vars, codec_vars>>

SuiteNext == \/ OnlyWindow /\ Next
             \/ OnlyBitmap /\ Bitmap!Next
             \/ OnlyCodec /\ Codec!Next
             \/ OnlyTable /\ Table!Next

SuiteSpec == SuiteInit /\ [][SuiteNext]_suite_vars
-----------------------------------------------------------------------------
\* The words implement the window: every commit on the array, with its carries
\* between words and its dropped tail, is a commit of ReplayWindow.
ImplementsReplayWindow == Bitmap!ImplementsReplayWindow

\* No AEAD nonce is used twice: two datagrams under one sequence number are one
\* datagram, up to and including the end of the u64 range (crypto.rs
\* seal_message, send_sequence_exhausted).
NonceUsedOnce == Codec!NonceUsedOnce

\* Over a network that loses, duplicates and reorders, the codec delivers each
\* message whole and at most once, whatever was evicted or expired meanwhile.
ImplementsChannel == Codec!ImplementsChannel

\* The reassembly table through every sequence of stores, refusals, completions,
\* evictions and expiries: its byte counters are true, its limits hold, no entry is
\* dead weight and there is always room for another message.
TableIsTrue ==
    /\ Table!TypeOK /\ Table!ByteAccounting /\ Table!WithinLimits
    /\ Table!EntriesAreUseful /\ Table!AlwaysRoom

\* What a push does to other messages: it drops the expired, evicts the oldest of the
\* others and never its own message, and evicts nobody when it fails.
EvictionIsOrderly ==
    /\ Table!FailedPushEvictsNothing
    /\ Table!ExpiredFragmentsAreDropped
    /\ Table!EvictsOldestOthers

\* What the proofs assume of words and fragments holds of the ones chosen here.
ASSUME PathConstants ==
    Bitmap!BitmapConstants /\ Codec!CodecConstants /\ Table!ReassemblyConstants

\* Message ids are only compared for equality.
Symmetry == Permutations(MessageIds)

=============================================================================
