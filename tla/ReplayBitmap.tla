---------------------------- MODULE ReplayBitmap ----------------------------
(***************************************************************************)
(* The replay window as replay.rs stores it: `seen` is an array of         *)
(* WORD_COUNT words of WORD_BITS bits, bit d of the window being bit       *)
(* d % WORD_BITS of word d / WORD_BITS.  A word is the set of its one bits.*)
(* It implements module ReplayWindow, where the bitmap is one set.         *)
(***************************************************************************)
EXTENDS Integers

CONSTANTS WORD_BITS, WORD_COUNT, U64_MAX

\* u64::BITS and the number of words are positive, u64::MAX is a number.
BitmapConstants == /\ WORD_BITS \in Nat \ {0}
                   /\ WORD_COUNT \in Nat \ {0}
                   /\ U64_MAX \in Nat

UDP_REPLAY_WINDOW_SIZE == WORD_BITS * WORD_COUNT
Seqs == 0..U64_MAX
Words == 0..(WORD_COUNT - 1)
Bits == 0..(WORD_BITS - 1)
None == -1

VARIABLES highest, seen, accepted

vars == <<highest, seen, accepted>>
-----------------------------------------------------------------------------
no_bits == [word \in Words |-> {}]

bit_is_set(words, distance) ==
    (distance % WORD_BITS) \in words[distance \div WORD_BITS]

set_bit(words, distance) ==
    [words EXCEPT ![distance \div WORD_BITS] = @ \cup {distance % WORD_BITS}]

\* value << n and value >> n on one word: bits leaving the word are lost.
shl(value, n) == {b + n : b \in value} \cap Bits
shr(value, n) == {b - n : b \in value} \cap Bits

\* Faulty variant: the bits carried into the next word are forgotten.
shift_older_no_carry(words, distance) ==
    [destination \in Words |->
        LET source == destination - (distance \div WORD_BITS)
        IN IF source \in Words THEN shl(words[source], distance % WORD_BITS) ELSE {}]

\* Each source word contributes to the word `word_shift` further on and, when
\* the shift is not a whole number of words, carries into the one after it.
shift_older(words, distance) ==
    LET word_shift == distance \div WORD_BITS
        bit_shift  == distance % WORD_BITS
        low(destination) ==
            IF destination - word_shift \in Words
              THEN shl(words[destination - word_shift], bit_shift) ELSE {}
        carry(destination) ==
            IF bit_shift # 0 /\ destination - 1 - word_shift \in Words
              THEN shr(words[destination - 1 - word_shift], WORD_BITS - bit_shift) ELSE {}
    IN IF distance >= UDP_REPLAY_WINDOW_SIZE
         THEN no_bits
         ELSE [destination \in Words |-> low(destination) \cup carry(destination)]

may_accept(seq) ==
    \/ highest = None
    \/ seq > highest
    \/ /\ seq <= highest
       /\ highest - seq < UDP_REPLAY_WINDOW_SIZE
       /\ ~bit_is_set(seen, highest - seq)
-----------------------------------------------------------------------------
Init == /\ highest = None
        /\ seen = no_bits
        /\ accepted = {}

\* commit, first sequence number of the session.
CommitFirst(seq) ==
    /\ highest = None
    /\ highest' = seq
    /\ seen' = set_bit(seen, 0)

\* commit, a number above the highest: the window slides.
CommitNewer(seq) ==
    /\ highest # None /\ seq > highest
    /\ highest' = seq
    /\ seen' = set_bit(IF seq - highest >= UDP_REPLAY_WINDOW_SIZE
                         THEN no_bits
                         ELSE shift_older(seen, seq - highest), 0)

\* commit, a late number inside the window.
CommitOlder(seq) ==
    /\ highest # None /\ seq <= highest
    /\ highest' = highest
    /\ seen' = set_bit(seen, highest - seq)

OpenAuthentic(seq) ==
    /\ may_accept(seq)
    /\ CommitFirst(seq) \/ CommitNewer(seq) \/ CommitOlder(seq)
    /\ accepted' = accepted \cup {seq}

\* A replay or a forgery is refused without touching the window.
OpenRefused == UNCHANGED vars

Next == OpenRefused \/ \E seq \in Seqs : OpenAuthentic(seq)

Spec == Init /\ [][Next]_vars
-----------------------------------------------------------------------------
TypeOK == /\ highest \in Seqs \cup {None}
          /\ seen \in [Words -> SUBSET Bits]
          /\ accepted \subseteq Seqs

Window == INSTANCE ReplayWindow
            WITH WINDOW_SIZE <- UDP_REPLAY_WINDOW_SIZE,
                 window <- [highest |-> highest,
                            seen |-> {d \in 0..(UDP_REPLAY_WINDOW_SIZE - 1) : bit_is_set(seen, d)}]

\* The words implement the window: every commit on the array, with its carries
\* between words and its dropped tail, is a commit of ReplayWindow.
ImplementsReplayWindow == Window!Spec
=============================================================================
