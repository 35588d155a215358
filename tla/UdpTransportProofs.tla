------------------------- MODULE UdpTransportProofs -------------------------
(***************************************************************************)
(* Proofs about protocol/src/udp_transport: the replay window is exact for *)
(* every window size and sequence width; the array of words that replay.rs *)
(* keeps implements it; the codec that puts the window and the             *)
(* reassembler together implements DatagramChannel; and the reassembly     *)
(* table stays true, within its limits and orderly in what it evicts.      *)
(***************************************************************************)
EXTENDS MCDatagramPath, Sequences, FiniteSetTheorems, FunctionTheorems,
        WellFoundedInduction, TLAPS

USE WindowAssumption DEF Seqs, Distances, None

\* The two operations keep a well-typed window well typed (replay.rs commit).
LEMMA CommitTyped ==
    ASSUME NEW w \in Windows, NEW seq \in Seqs
    PROVE  commit(w, seq) \in Windows
<1>1. CASE ~may_accept(w, seq)
  BY <1>1 DEF commit
<1>2. CASE may_accept(w, seq) /\ w.highest = None
  BY <1>2 DEF commit, committed, Windows
<1>3. CASE may_accept(w, seq) /\ w.highest # None /\ seq > w.highest
  BY <1>3 DEF commit, committed, Windows, shift_older
<1>4. CASE may_accept(w, seq) /\ w.highest # None /\ ~(seq > w.highest)
  <2>1. w.highest - seq \in Distances
    BY <1>4 DEF may_accept, Windows
  <2> QED
    BY <1>4, <2>1 DEF commit, committed, Windows
<1> QED
  BY <1>1, <1>2, <1>3, <1>4

\* Every reachable window is well typed: the bit index computed by commit is
\* always inside the array.
THEOREM TypeCorrect == Spec => []TypeOK
<1>1. Init => TypeOK
  BY DEF Init, TypeOK, new, Windows
<1>2. TypeOK /\ [Next]_vars => TypeOK'
  <2> SUFFICES ASSUME TypeOK, [Next]_vars
               PROVE  TypeOK'
    OBVIOUS
  <2>1. ASSUME NEW seq \in Seqs, OpenAuthentic(seq)
        PROVE  TypeOK'
    BY <2>1, CommitTyped DEF OpenAuthentic, TypeOK
  <2>2. ASSUME NEW seq \in Seqs, OpenRefused(seq)
        PROVE  TypeOK'
    BY <2>2 DEF OpenRefused, TypeOK
  <2>3. CASE UNCHANGED vars
    BY <2>3 DEF vars, TypeOK
  <2> QED
    BY <2>1, <2>2, <2>3 DEF Next
<1> QED
  BY <1>1, <1>2, PTL DEF Spec

\* One commit keeps the window and the history of commits in agreement.
LEMMA CommitKeepsWindowInv ==
    ASSUME TypeOK, WindowInv, NEW seq \in Seqs, OpenAuthentic(seq)
    PROVE  WindowInv'
<1>0. /\ window' = committed(window, seq)
      /\ accepted' = accepted \cup {seq}
      /\ may_accept(window, seq)
  BY DEF OpenAuthentic, commit
<1>1. CASE window.highest = None
  <2>1. accepted = {} /\ window.seen = {}
    BY <1>1 DEF WindowInv, TypeOK, new
  <2>2. window' = [highest |-> seq, seen |-> {0}]
    BY <1>0, <1>1, <2>1 DEF committed
  <2>3. accepted' = {seq}
    BY <1>0, <2>1
  <2> QED
    BY <2>2, <2>3 DEF WindowInv
<1>2. CASE window.highest # None /\ seq > window.highest
  <2>1. /\ window.highest \in accepted
        /\ \A s \in accepted : s <= window.highest
        /\ \A d \in Distances : d \in window.seen <=> (window.highest - d) \in accepted
    BY <1>2 DEF WindowInv, new
  <2>2. window.highest \in Seqs /\ window.seen \subseteq Distances /\ accepted \subseteq Seqs
    BY <1>2 DEF TypeOK, Windows
  <2>3. window'.highest = seq
    BY <1>0, <1>2 DEF committed
  <2>4. \A d \in Distances :
          d \in window'.seen <=> (d = 0 \/ (d - (seq - window.highest)) \in window.seen)
    <3>1. CASE seq - window.highest >= WINDOW_SIZE
      BY <1>0, <1>2, <2>2, <3>1 DEF committed
    <3>2. CASE ~(seq - window.highest >= WINDOW_SIZE)
      <4>1. window'.seen = shift_older(window.seen, seq - window.highest) \cup {0}
        BY <1>0, <1>2, <3>2 DEF committed
      <4> QED
        BY <4>1 DEF shift_older
    <3> QED
      BY <3>1, <3>2
  <2>5. \A d \in Distances : d \in window'.seen <=> (seq - d) \in accepted'
    <3> SUFFICES ASSUME NEW d \in Distances
                 PROVE  d \in window'.seen <=> (seq - d) \in accepted'
      OBVIOUS
    <3> DEFINE e == d - (seq - window.highest)
    <3>1. seq - d = window.highest - e
      BY <2>2
    <3>2. CASE d = 0
      BY <1>0, <2>4, <3>2
    <3>3. CASE d # 0 /\ e \in Distances
      BY <1>0, <2>1, <2>2, <2>4, <3>1, <3>3
    <3>4. CASE d # 0 /\ e \notin Distances
      <4>1. seq - d > window.highest
        BY <2>2, <1>2, <3>4
      <4> QED
        BY <1>0, <2>1, <2>2, <2>4, <3>4, <4>1
    <3> QED
      BY <3>2, <3>3, <3>4
  <2> QED
    BY <1>0, <1>2, <2>1, <2>2, <2>3, <2>5 DEF WindowInv
<1>3. CASE window.highest # None /\ ~(seq > window.highest)
  <2>1. /\ window.highest \in accepted
        /\ \A s \in accepted : s <= window.highest
        /\ \A d \in Distances : d \in window.seen <=> (window.highest - d) \in accepted
    BY <1>3 DEF WindowInv, new
  <2>2. window.highest \in Seqs /\ window.seen \subseteq Distances /\ accepted \subseteq Seqs
    BY <1>3 DEF TypeOK, Windows
  <2>3. /\ window'.highest = window.highest
        /\ window'.seen = window.seen \cup {window.highest - seq}
    BY <1>0, <1>3 DEF committed, TypeOK, Windows
  <2>4. \A d \in Distances : d \in window'.seen <=> (window'.highest - d) \in accepted'
    BY <1>0, <2>1, <2>2, <2>3
  <2> QED
    BY <1>0, <1>3, <2>1, <2>2, <2>3, <2>4 DEF WindowInv
<1> QED
  BY <1>1, <1>2, <1>3

\* The bitmap always agrees with the history of commits.
THEOREM WindowInvariant == Spec => []WindowInv
<1>1. Init => WindowInv
  BY DEF Init, WindowInv
<1>2. TypeOK /\ WindowInv /\ [Next]_vars => WindowInv'
  <2> SUFFICES ASSUME TypeOK, WindowInv, [Next]_vars
               PROVE  WindowInv'
    OBVIOUS
  <2>1. ASSUME NEW seq \in Seqs, OpenAuthentic(seq)
        PROVE  WindowInv'
    BY <2>1, CommitKeepsWindowInv
  <2>2. ASSUME NEW seq \in Seqs, OpenRefused(seq)
        PROVE  WindowInv'
    BY <2>2 DEF OpenRefused, WindowInv
  <2>3. CASE UNCHANGED vars
    BY <2>3 DEF vars, WindowInv
  <2> QED
    BY <2>1, <2>2, <2>3 DEF Next
<1> QED
  BY <1>1, <1>2, TypeCorrect, PTL DEF Spec

\* The agreement makes every answer of may_accept the right one.
LEMMA WindowInvGivesExactAnswer ==
    TypeOK /\ WindowInv => ExactReplayAnswer
<1> SUFFICES ASSUME TypeOK, WindowInv, NEW seq \in Seqs
             PROVE  may_accept(window, seq) <=>
                        /\ seq \notin accepted
                        /\ \A s \in accepted : s - seq < WINDOW_SIZE
  BY DEF ExactReplayAnswer
<1>1. CASE accepted = {} /\ window = new
  BY <1>1 DEF may_accept, new
<1>2. CASE /\ window.highest \in accepted
           /\ \A s \in accepted : s <= window.highest
           /\ \A d \in Distances : d \in window.seen <=> (window.highest - d) \in accepted
  <2>1. window.highest \in Seqs /\ accepted \subseteq Seqs
    BY <1>2 DEF TypeOK
  <2>2. CASE seq > window.highest
    BY <1>2, <2>1, <2>2 DEF may_accept
  <2>3. CASE ~(seq > window.highest) /\ window.highest - seq < WINDOW_SIZE
    <3>1. window.highest - (window.highest - seq) = seq
      BY <2>1
    <3>2. (window.highest - seq) \in Distances
      BY <2>1, <2>3
    <3>3. (window.highest - seq) \in window.seen <=> seq \in accepted
      BY <1>2, <3>1, <3>2
    <3>4. \A s \in accepted : s - seq < WINDOW_SIZE
      BY <1>2, <2>1, <2>3
    <3> QED
      BY <2>1, <2>3, <3>3, <3>4 DEF may_accept
  <2>4. CASE ~(seq > window.highest) /\ ~(window.highest - seq < WINDOW_SIZE)
    BY <1>2, <2>1, <2>4 DEF may_accept
  <2> QED
    BY <2>2, <2>3, <2>4
<1> QED
  BY <1>1, <1>2 DEF WindowInv

\* No replay is accepted and no fresh number inside the window is refused, in
\* any order of arrival (replay.rs may_accept and commit).
THEOREM ExactReplay == Spec => []ExactReplayAnswer
BY TypeCorrect, WindowInvariant, WindowInvGivesExactAnswer, PTL
-----------------------------------------------------------------------------
(***************************************************************************)
(* The array of words implements the window.  Bit d of the window is bit   *)
(* d % WORD_BITS of word d / WORD_BITS, so the proof is about quotients    *)
(* and remainders: a shift by k takes bit d from bit d - k, which lies     *)
(* k / WORD_BITS words below when the remainders do not borrow (`low`) and *)
(* one word further when they do (`carry`).                                *)
(***************************************************************************)
BitmapPlaces == 0..(Bitmap!UDP_REPLAY_WINDOW_SIZE - 1)
WordArrays == [Bitmap!Words -> SUBSET Bitmap!Bits]

\* A greater quotient means at least a whole word more.
LEMMA WholeWord ==
    ASSUME NEW b \in Nat \ {0}, NEW x \in Int, NEW y \in Int, x >= y + 1
    PROVE  x * b >= y * b + b
OBVIOUS

\* Quotient and remainder are the only way to write a number so.
LEMMA DivisionIsUnique ==
    ASSUME NEW b \in Nat \ {0}, NEW q \in Int, NEW r \in 0..(b - 1)
    PROVE  (q * b + r) \div b = q /\ (q * b + r) % b = r
<1> DEFINE n == q * b + r
           p == n \div b
           m == n % b
<1>1. n \in Int /\ p \in Int /\ m \in 0..(b - 1) /\ n = p * b + m
  OBVIOUS
<1>2. n = q * b + r
  OBVIOUS
<1> HIDE DEF n, p, m
<1>3. ~(p >= q + 1)
  BY <1>1, <1>2, WholeWord
<1>4. ~(q >= p + 1)
  BY <1>1, <1>2, WholeWord
<1>5. p = q /\ m = r
  BY <1>1, <1>2, <1>3, <1>4
<1> QED
  BY <1>5 DEF p, m, n

\* A place of the window is a bit of a word of the array (replay.rs indexes
\* `seen` without a bounds check that could fail).
LEMMA PlaceHasWord ==
    ASSUME Bitmap!BitmapConstants, NEW d \in BitmapPlaces
    PROVE  /\ d \div WORD_BITS \in Bitmap!Words
           /\ d % WORD_BITS \in Bitmap!Bits
           /\ d = (d \div WORD_BITS) * WORD_BITS + (d % WORD_BITS)
<1> DEFINE q == d \div WORD_BITS
           r == d % WORD_BITS
<1>0. /\ WORD_BITS \in Nat \ {0} /\ WORD_COUNT \in Nat \ {0}
      /\ d \in Int /\ 0 <= d /\ d < WORD_COUNT * WORD_BITS
  BY DEF Bitmap!BitmapConstants, BitmapPlaces, Bitmap!UDP_REPLAY_WINDOW_SIZE
<1>1. q \in Int /\ r \in 0..(WORD_BITS - 1) /\ d = q * WORD_BITS + r
  BY <1>0
<1> HIDE DEF q, r
<1>2. ~(q >= WORD_COUNT)
  <2> SUFFICES ASSUME q >= (WORD_COUNT - 1) + 1 PROVE FALSE
    BY <1>0, <1>1
  <2>1. q * WORD_BITS >= (WORD_COUNT - 1) * WORD_BITS + WORD_BITS
    BY <1>0, <1>1, WholeWord
  <2>2. (WORD_COUNT - 1) * WORD_BITS + WORD_BITS = WORD_COUNT * WORD_BITS
    BY <1>0
  <2> QED
    BY <1>0, <1>1, <2>1, <2>2
<1>3. ~(0 >= q + 1)
  <2> SUFFICES ASSUME 0 >= q + 1 PROVE FALSE
    OBVIOUS
  <2>1. 0 * WORD_BITS >= q * WORD_BITS + WORD_BITS
    BY <1>0, <1>1, WholeWord
  <2> QED
    BY <1>0, <1>1, <2>1
<1>4. q \in Bitmap!Words /\ r \in Bitmap!Bits /\ d = q * WORD_BITS + r
  BY <1>0, <1>1, <1>2, <1>3 DEF Bitmap!Words, Bitmap!Bits
<1> QED
  BY <1>4 DEF q, r

\* Setting a bit sets that place and no other.
LEMMA SetBitSetsOne ==
    ASSUME Bitmap!BitmapConstants, NEW words \in WordArrays, NEW d \in BitmapPlaces
    PROVE  /\ Bitmap!set_bit(words, d) \in WordArrays
           /\ \A e \in BitmapPlaces :
                 Bitmap!bit_is_set(Bitmap!set_bit(words, d), e)
                    <=> (e = d \/ Bitmap!bit_is_set(words, e))
<1> DEFINE q == d \div WORD_BITS
           r == d % WORD_BITS
           new_words == [words EXCEPT ![q] = @ \cup {r}]
<1>1. q \in Bitmap!Words /\ r \in Bitmap!Bits /\ d = q * WORD_BITS + r
  BY PlaceHasWord
<1>2. Bitmap!set_bit(words, d) = new_words
  BY DEF Bitmap!set_bit
<1> HIDE DEF q, r
<1>3. new_words \in WordArrays
  BY <1>1 DEF WordArrays
<1>4. ASSUME NEW e \in BitmapPlaces
      PROVE  Bitmap!bit_is_set(new_words, e) <=> (e = d \/ Bitmap!bit_is_set(words, e))
  <2> DEFINE eq == e \div WORD_BITS
             er == e % WORD_BITS
  <2>1. eq \in Bitmap!Words /\ er \in Bitmap!Bits /\ e = eq * WORD_BITS + er
    BY PlaceHasWord
  <2>2. /\ Bitmap!bit_is_set(new_words, e) <=> er \in new_words[eq]
        /\ Bitmap!bit_is_set(words, e) <=> er \in words[eq]
    BY DEF Bitmap!bit_is_set
  <2>3. (eq = q /\ er = r) <=> e = d
    BY <1>1, <2>1 DEF q, r, eq, er
  <2> HIDE DEF eq, er
  <2>4. er \in new_words[eq] <=> ((eq = q /\ er = r) \/ er \in words[eq])
    BY <1>1, <2>1 DEF WordArrays
  <2> QED
    BY <2>2, <2>3, <2>4
<1> QED
  BY <1>2, <1>3, <1>4

\* A word shifted by n bits, either way: the bits that stay within it.
LEMMA WordShifts ==
    ASSUME NEW value \in SUBSET Bitmap!Bits, NEW n \in Int, NEW b \in Bitmap!Bits
    PROVE  /\ b \in Bitmap!shl(value, n) <=> b - n \in value
           /\ b \in Bitmap!shr(value, n) <=> b + n \in value
<1>1. \A x \in value : x \in Int
  BY DEF Bitmap!Bits
<1>2. b \in Int
  BY DEF Bitmap!Bits
<1>3. b \in Bitmap!shl(value, n) <=> \E x \in value : x + n = b
  BY DEF Bitmap!shl
<1>4. b \in Bitmap!shr(value, n) <=> \E x \in value : x - n = b
  BY DEF Bitmap!shr
<1>5. (\E x \in value : x + n = b) <=> b - n \in value
  BY <1>1, <1>2
<1>6. (\E x \in value : x - n = b) <=> b + n \in value
  BY <1>1, <1>2
<1> QED
  BY <1>3, <1>4, <1>5, <1>6

\* shift_older moves every bit `distance` places towards the older end, with
\* its carries from word to word, and drops those shifted past the end.
LEMMA ShiftMovesBits ==
    ASSUME Bitmap!BitmapConstants, NEW words \in WordArrays,
           NEW k \in BitmapPlaces
    PROVE  /\ Bitmap!shift_older(words, k) \in WordArrays
           /\ \A d \in BitmapPlaces :
                 Bitmap!bit_is_set(Bitmap!shift_older(words, k), d)
                    <=> (d - k \in BitmapPlaces /\ Bitmap!bit_is_set(words, d - k))
<1> DEFINE kq == k \div WORD_BITS
           kr == k % WORD_BITS
           low(w) == IF w - kq \in Bitmap!Words
                       THEN Bitmap!shl(words[w - kq], kr) ELSE {}
           carry(w) == IF kr # 0 /\ w - 1 - kq \in Bitmap!Words
                         THEN Bitmap!shr(words[w - 1 - kq], WORD_BITS - kr) ELSE {}
           shifted == [w \in Bitmap!Words |-> low(w) \cup carry(w)]
<1>0. /\ WORD_BITS \in Nat \ {0} /\ WORD_COUNT \in Nat \ {0}
      /\ Bitmap!UDP_REPLAY_WINDOW_SIZE \in Int
      /\ \A w \in Bitmap!Words : w \in Int /\ w >= 0
  BY DEF Bitmap!BitmapConstants, Bitmap!UDP_REPLAY_WINDOW_SIZE, Bitmap!Words
<1>1. kq \in Bitmap!Words /\ kr \in 0..(WORD_BITS - 1) /\ k = kq * WORD_BITS + kr
  BY PlaceHasWord DEF Bitmap!Bits
<1>2. Bitmap!shift_older(words, k) = shifted
  <2>1. ~(k >= Bitmap!UDP_REPLAY_WINDOW_SIZE)
    BY <1>0 DEF BitmapPlaces
  <2> QED
    BY <2>1 DEF Bitmap!shift_older
<1> HIDE DEF kq, kr
<1>3. shifted \in WordArrays
  <2>1. \A w \in Bitmap!Words : low(w) \subseteq Bitmap!Bits /\ carry(w) \subseteq Bitmap!Bits
    BY DEF Bitmap!shl, Bitmap!shr
  <2> QED
    BY <2>1 DEF WordArrays
<1>4. ASSUME NEW d \in BitmapPlaces
      PROVE  Bitmap!bit_is_set(shifted, d)
                <=> (d - k \in BitmapPlaces /\ Bitmap!bit_is_set(words, d - k))
  <2> DEFINE dq == d \div WORD_BITS
             dr == d % WORD_BITS
  <2>1. dq \in Bitmap!Words /\ dr \in Bitmap!Bits /\ d = dq * WORD_BITS + dr
    BY PlaceHasWord
  <2>2. Bitmap!bit_is_set(shifted, d) <=> dr \in shifted[dq]
    BY DEF Bitmap!bit_is_set
  <2> HIDE DEF dq, dr
  <2>3. dr \in shifted[dq] <=> (dr \in low(dq) \/ dr \in carry(dq))
    BY <2>1
  <2>4. dq \in Int /\ kq \in Int /\ kr \in Int /\ dr \in 0..(WORD_BITS - 1)
    BY <1>0, <1>1, <2>1 DEF Bitmap!Bits
  \* The place the bit comes from, written as word s and bit t.
  <2>5. ASSUME NEW s \in Int, NEW t \in Bitmap!Bits, d - k = s * WORD_BITS + t
        PROVE  (d - k \in BitmapPlaces /\ Bitmap!bit_is_set(words, d - k))
                  <=> (s \in Bitmap!Words /\ t \in words[s])
    <3>1. (d - k) \div WORD_BITS = s /\ (d - k) % WORD_BITS = t
      BY <1>0, <2>5, DivisionIsUnique DEF Bitmap!Bits
    <3>2. d - k \in BitmapPlaces => s \in Bitmap!Words
      BY <3>1, PlaceHasWord
    <3>3. s \in Bitmap!Words => d - k \in BitmapPlaces
      <4> SUFFICES ASSUME s \in Bitmap!Words PROVE d - k >= 0
        BY <1>0 DEF BitmapPlaces
      <4>1. s * WORD_BITS >= 0
        BY <1>0
      <4> QED
        BY <1>0, <2>5, <4>1 DEF Bitmap!Bits
    <3> QED
      BY <3>1, <3>2, <3>3 DEF Bitmap!bit_is_set
  <2>6. dr \in low(dq) <=> (dq - kq \in Bitmap!Words /\ dr - kr \in words[dq - kq])
    BY <2>1, <2>4, WordShifts DEF WordArrays
  <2>7. dr \in carry(dq) <=> /\ kr # 0 /\ dq - 1 - kq \in Bitmap!Words
                             /\ dr + (WORD_BITS - kr) \in words[dq - 1 - kq]
    BY <1>0, <2>1, <2>4, WordShifts DEF WordArrays
  <2>8. \A w \in Bitmap!Words : \A b \in words[w] : b \in Int /\ 0 <= b /\ b < WORD_BITS
    BY <1>0 DEF WordArrays, Bitmap!Bits
  <2>9. CASE dr >= kr
    <3>1. dr - kr \in Bitmap!Bits
      BY <1>0, <1>1, <2>4, <2>9 DEF Bitmap!Bits
    <3>2. d - k = (dq - kq) * WORD_BITS + (dr - kr)
      BY <1>0, <1>1, <2>1, <2>4
    <3>3. dr \notin carry(dq)
      BY <1>0, <2>4, <2>7, <2>8, <2>9
    <3> QED
      BY <2>2, <2>3, <2>4, <2>5, <2>6, <3>1, <3>2, <3>3
  <2>10. CASE dr < kr
    <3>1. dr + (WORD_BITS - kr) \in Bitmap!Bits
      BY <1>0, <1>1, <2>4, <2>10 DEF Bitmap!Bits
    <3>2. d - k = (dq - 1 - kq) * WORD_BITS + (dr + (WORD_BITS - kr))
      BY <1>0, <1>1, <2>1, <2>4
    <3>3. dr \notin low(dq)
      BY <1>0, <2>4, <2>6, <2>8, <2>10
    <3>4. kr # 0
      BY <2>4, <2>10
    <3> QED
      BY <2>2, <2>3, <2>4, <2>5, <2>7, <3>1, <3>2, <3>3, <3>4
  <2> QED
    BY <2>4, <2>9, <2>10
<1> QED
  BY <1>2, <1>3, <1>4

\* The bits of an array of words as the set that module ReplayWindow keeps.
BitsOf(words) == {d \in BitmapPlaces : Bitmap!bit_is_set(words, d)}

\* No bit of the empty array is set.
LEMMA NoBitsAreNone ==
    ASSUME Bitmap!BitmapConstants
    PROVE  Bitmap!no_bits \in WordArrays /\ BitsOf(Bitmap!no_bits) = {}
<1>1. Bitmap!no_bits \in WordArrays
  BY DEF Bitmap!no_bits, WordArrays
<1>2. \A d \in BitmapPlaces : ~Bitmap!bit_is_set(Bitmap!no_bits, d)
  BY PlaceHasWord DEF Bitmap!bit_is_set, Bitmap!no_bits
<1> QED
  BY <1>1, <1>2 DEF BitsOf

\* One authentic datagram, on the words and on the set: the same answer, and a
\* commit that leaves the same bits (replay.rs may_accept, commit).
LEMMA WordsCommit ==
    ASSUME Bitmap!BitmapConstants, Bitmap!TypeOK,
           NEW seq \in Bitmap!Seqs, Bitmap!OpenAuthentic(seq)
    PROVE  Bitmap!TypeOK' /\ Bitmap!Window!OpenAuthentic(seq)
<1> DEFINE W == Bitmap!UDP_REPLAY_WINDOW_SIZE
           bits == {d \in 0..(W - 1) : Bitmap!bit_is_set(seen, d)}
           w == [highest |-> highest, seen |-> bits]
           w1 == [highest |-> highest',
                  seen |-> {d \in 0..(W - 1) : Bitmap!bit_is_set(seen', d)}]
<1>0. /\ W \in Nat \ {0} /\ BITMAP_MAX \in Nat
      /\ highest \in Int /\ seq \in 0..BITMAP_MAX /\ highest \in 0..BITMAP_MAX \cup {-1}
      /\ seen \in WordArrays /\ bitmap_accepted \subseteq Bitmap!Seqs
      /\ BitmapPlaces = 0..(W - 1) /\ 0 \in BitmapPlaces
  BY DEF Bitmap!BitmapConstants, Bitmap!UDP_REPLAY_WINDOW_SIZE, Bitmap!TypeOK, Bitmap!Seqs,
         Bitmap!None, WordArrays, BitmapPlaces
<1>1. /\ Bitmap!may_accept(seq)
      /\ (Bitmap!CommitFirst(seq) \/ Bitmap!CommitNewer(seq) \/ Bitmap!CommitOlder(seq))
      /\ bitmap_accepted' = bitmap_accepted \cup {seq}
  BY DEF Bitmap!OpenAuthentic
<1> HIDE DEF W
<1>2. Bitmap!Window!may_accept(w, seq)
  BY <1>0, <1>1 DEF Bitmap!may_accept, Bitmap!None, W, Bitmap!Window!may_accept, Bitmap!Window!None
<1>3. /\ seen' \in WordArrays /\ highest' \in Bitmap!Seqs
      /\ w1 = Bitmap!Window!committed(w, seq)
  <2>1. CASE Bitmap!CommitFirst(seq)
    <3>1. highest = -1 /\ highest' = seq /\ seen' = Bitmap!set_bit(seen, 0)
      BY <2>1 DEF Bitmap!CommitFirst, Bitmap!None
    <3>2. /\ seen' \in WordArrays
          /\ {d \in 0..(W - 1) : Bitmap!bit_is_set(seen', d)} = bits \cup {0}
      BY <1>0, <3>1, SetBitSetsOne
    <3>3. Bitmap!Window!committed(w, seq) = [highest |-> seq, seen |-> bits \cup {0}]
      BY <3>1 DEF Bitmap!Window!committed, Bitmap!Window!None
    <3> QED
      BY <3>1, <3>2, <3>3
  <2>2. CASE Bitmap!CommitNewer(seq)
    <3> DEFINE k == seq - highest
               base == IF k >= W THEN Bitmap!no_bits ELSE Bitmap!shift_older(seen, k)
               moved == IF k >= W THEN {} ELSE {d \in 0..(W - 1) : (d - k) \in bits}
    <3>1. /\ highest # -1 /\ seq > highest /\ highest' = seq
          /\ seen' = Bitmap!set_bit(base, 0)
      BY <2>2 DEF Bitmap!CommitNewer, Bitmap!None, W
    <3>2. base \in WordArrays /\ \A d \in BitmapPlaces : Bitmap!bit_is_set(base, d) <=> d \in moved
      <4>1. CASE k >= W
        BY <4>1, NoBitsAreNone DEF BitsOf
      <4>2. CASE ~(k >= W)
        <5>1. k \in BitmapPlaces
          BY <1>0, <3>1, <4>2
        <5>2. /\ Bitmap!shift_older(seen, k) \in WordArrays
              /\ \A d \in BitmapPlaces :
                   Bitmap!bit_is_set(Bitmap!shift_older(seen, k), d)
                     <=> (d - k \in BitmapPlaces /\ Bitmap!bit_is_set(seen, d - k))
          BY <1>0, <5>1, ShiftMovesBits
        <5> QED
          BY <1>0, <4>2, <5>2
      <4> QED
        BY <4>1, <4>2
    <3> HIDE DEF base
    <3>3. /\ seen' \in WordArrays
          /\ \A d \in BitmapPlaces :
               Bitmap!bit_is_set(seen', d) <=> (d = 0 \/ Bitmap!bit_is_set(base, d))
      BY <1>0, <3>1, <3>2, SetBitSetsOne
    <3>4. {d \in 0..(W - 1) : Bitmap!bit_is_set(seen', d)} = moved \cup {0}
      BY <1>0, <3>2, <3>3
    <3>5. Bitmap!Window!committed(w, seq) = [highest |-> seq, seen |-> moved \cup {0}]
      BY <1>0, <3>1 DEF Bitmap!Window!committed, Bitmap!Window!None, Bitmap!Window!shift_older,
                        Bitmap!Window!Distances, W
    <3> QED
      BY <3>1, <3>3, <3>4, <3>5
  <2>3. CASE Bitmap!CommitOlder(seq)
    <3>1. /\ highest # -1 /\ ~(seq > highest) /\ highest' = highest
          /\ seen' = Bitmap!set_bit(seen, highest - seq)
      BY <1>0, <2>3 DEF Bitmap!CommitOlder, Bitmap!None
    <3>2. highest - seq \in BitmapPlaces
      BY <1>0, <1>1, <3>1 DEF Bitmap!may_accept, Bitmap!None, W
    <3>3. /\ seen' \in WordArrays
          /\ {d \in 0..(W - 1) : Bitmap!bit_is_set(seen', d)} = bits \cup {highest - seq}
      BY <1>0, <3>1, <3>2, SetBitSetsOne
    <3>4. Bitmap!Window!committed(w, seq)
             = [highest |-> highest, seen |-> bits \cup {highest - seq}]
      BY <3>1 DEF Bitmap!Window!committed, Bitmap!Window!None
    <3>5. highest' \in Bitmap!Seqs
      BY <1>0, <3>1 DEF Bitmap!Seqs
    <3> QED
      BY <3>1, <3>3, <3>4, <3>5
  <2> QED
    BY <1>1, <2>1, <2>2, <2>3 DEF Bitmap!Seqs
<1>4. Bitmap!TypeOK'
  BY <1>0, <1>1, <1>3 DEF Bitmap!TypeOK, WordArrays
<1>5. w1 = Bitmap!Window!commit(w, seq)
  BY <1>2, <1>3 DEF Bitmap!Window!commit
<1> QED
  BY <1>1, <1>2, <1>4, <1>5 DEF Bitmap!Window!OpenAuthentic, W

\* The array of words implements the window, for every word size and count:
\* an bitmap_accepted number is a commit of ReplayWindow, a refused one a refusal
\* (replay.rs shift_older, set_bit, bit_is_set).
LEMMA WordsFollowWindow ==
    ASSUME Bitmap!BitmapConstants
    PROVE  Bitmap!Spec => Bitmap!ImplementsReplayWindow
<1>1. Bitmap!Init => Bitmap!TypeOK /\ Bitmap!Window!Init
  <2> SUFFICES ASSUME Bitmap!Init PROVE Bitmap!TypeOK /\ Bitmap!Window!Init
    OBVIOUS
  <2>1. highest = -1 /\ seen = Bitmap!no_bits /\ bitmap_accepted = {}
    BY DEF Bitmap!Init, Bitmap!None
  <2>2. Bitmap!TypeOK
    BY <2>1, NoBitsAreNone DEF Bitmap!TypeOK, Bitmap!None, WordArrays
  <2>3. {d \in 0..(Bitmap!UDP_REPLAY_WINDOW_SIZE - 1) : Bitmap!bit_is_set(seen, d)} = {}
    BY <2>1, NoBitsAreNone DEF BitsOf, BitmapPlaces
  <2> QED
    BY <2>1, <2>2, <2>3 DEF Bitmap!Window!Init, Bitmap!Window!new, Bitmap!Window!None
<1>2. Bitmap!TypeOK /\ [Bitmap!Next]_(Bitmap!vars)
        => Bitmap!TypeOK' /\ [Bitmap!Window!Next]_(Bitmap!Window!vars)
  <2> SUFFICES ASSUME Bitmap!TypeOK, [Bitmap!Next]_(Bitmap!vars)
               PROVE  Bitmap!TypeOK' /\ [Bitmap!Window!Next]_(Bitmap!Window!vars)
    OBVIOUS
  <2>1. ASSUME NEW seq \in Bitmap!Seqs, Bitmap!OpenAuthentic(seq)
        PROVE  Bitmap!TypeOK' /\ Bitmap!Window!Next
    <3>1. Bitmap!TypeOK' /\ Bitmap!Window!OpenAuthentic(seq)
      BY <2>1, WordsCommit
    <3> QED
      BY <3>1 DEF Bitmap!Window!Next, Bitmap!Seqs, Bitmap!Window!Seqs
  <2>2. CASE UNCHANGED Bitmap!vars
    BY <2>2 DEF Bitmap!vars, Bitmap!TypeOK, Bitmap!Window!vars, Bitmap!bit_is_set
  <2> QED
    BY <2>1, <2>2 DEF Bitmap!Next, Bitmap!OpenRefused
<1> QED
  BY <1>1, <1>2, PTL DEF Bitmap!Spec, Bitmap!ImplementsReplayWindow, Bitmap!Window!Spec

\* The same of the suite, whose other parts leave the words alone.
THEOREM WordsImplementWindow ==
    ASSUME Bitmap!BitmapConstants
    PROVE  SuiteSpec => ImplementsReplayWindow
<1>1. SuiteInit => Bitmap!Init
  BY DEF SuiteInit
<1>2. [SuiteNext]_suite_vars => [Bitmap!Next]_(Bitmap!vars)
  BY DEF SuiteNext, OnlyWindow, OnlyBitmap, OnlyCodec, OnlyTable, suite_vars,
         bitmap_vars, Bitmap!vars
<1>3. Bitmap!Spec => Bitmap!ImplementsReplayWindow
  BY WordsFollowWindow
<1> QED
  BY <1>1, <1>2, <1>3, PTL DEF SuiteSpec, Bitmap!Spec, ImplementsReplayWindow
-----------------------------------------------------------------------------
(***************************************************************************)
(* The codec of one direction: nonces are used once, and what reaches the  *)
(* other side is a DatagramChannel.                                        *)
(***************************************************************************)
\* The reassembler counts with the Cardinality of every module.
LEMMA SameCardinality ==
    \A S : Codec!Reassembler!Cardinality(S) = Cardinality(S)
BY Zenon DEF Cardinality, Codec!Reassembler!Cardinality

\* A ReassemblyEntry has its five fields, and no other.
IsEntry(e) ==
    e \in [count : {e.count}, total_len : {e.total_len}, fragments : {e.fragments},
           received_bytes : {e.received_bytes}, age : {e.age}]

IsFunction(g) == g = [i \in DOMAIN g |-> g[i]]

\* Everything in `fragments` is fragment f or was in the entry of its message.
HoldsOf(fragments, a, f) ==
    \A i \in DOMAIN fragments :
        \/ i = f.index /\ fragments[i] = f.payload
        \/ /\ f.message_id \in DOMAIN a.entries
           /\ i \in DOMAIN a.entries[f.message_id].fragments
           /\ fragments[i] = a.entries[f.message_id].fragments[i]

\* An entry of the message of f that push can have made of what it found.
EntryAfter(e, a, f) ==
    /\ IsEntry(e)
    /\ e.count = f.count /\ e.total_len = f.total_len
    /\ HoldsOf(e.fragments, a, f)

\* Every entry of table b was in table a as it is, or is that of f.
TableAfter(b, a, f) ==
    \A id \in DOMAIN b.entries :
        \/ id \in DOMAIN a.entries /\ b.entries[id] = a.entries[id]
        \/ id = f.message_id /\ EntryAfter(b.entries[id], a, f)

\* What every result of push respects: nothing is invented, and a message is
\* returned only with all its fragments.
GoodResult(r, a, f) ==
    /\ TableAfter(r.acc, a, f)
    /\ r.kind = "complete" =>
         /\ IsFunction(r.message) /\ HoldsOf(r.message, a, f)
         /\ Cardinality(DOMAIN r.message) = f.count

\* What push is given: a table of entries, and a fragment with a place in its message.
PushInput(a, f) ==
    /\ \A id \in DOMAIN a.entries : IsEntry(a.entries[id])
    /\ f.index \in Nat /\ f.count \in Nat /\ f.index < f.count

\* Entries that leave the table change nothing for the others.
LEMMA RemoveKeepsOthers ==
    ASSUME NEW b, NEW a, NEW f, NEW ids, TableAfter(b, a, f), NEW c,
           c = Codec!Reassembler!remove(b, ids)
    PROVE  /\ TableAfter(c, a, f)
           /\ DOMAIN c.entries = DOMAIN b.entries \ ids
           /\ \A id \in DOMAIN c.entries : c.entries[id] = b.entries[id]
<1>1. c.entries = [id \in DOMAIN b.entries \ ids |-> b.entries[id]]
  BY DEF Codec!Reassembler!remove
<1>2. /\ DOMAIN c.entries = DOMAIN b.entries \ ids
      /\ \A id \in DOMAIN c.entries : c.entries[id] = b.entries[id]
  BY <1>1
<1>3. TableAfter(c, a, f)
  BY <1>2 DEF TableAfter
<1> QED
  BY <1>2, <1>3

\* The entry of the message with the fragment in it.
LEMMA EntryStored ==
    ASSUME NEW a, NEW f, NEW old, EntryAfter(old, a, f), NEW y, NEW entry,
           entry = [old EXCEPT !.fragments = Codec!Reassembler!Put(@, f.index, f.payload),
                               !.received_bytes = y,
                               !.age = 0]
    PROVE  EntryAfter(entry, a, f) /\ IsFunction(entry.fragments)
<1>0. /\ IsEntry(old) /\ old.count = f.count /\ old.total_len = f.total_len
      /\ HoldsOf(old.fragments, a, f)
  BY DEF EntryAfter
<1>1. /\ IsEntry(entry)
      /\ entry.count = old.count /\ entry.total_len = old.total_len
      /\ entry.fragments = Codec!Reassembler!Put(old.fragments, f.index, f.payload)
  <2> DEFINE x == Codec!Reassembler!Put(old.fragments, f.index, f.payload)
  <2>1. entry = [old EXCEPT !.fragments = x, !.received_bytes = y, !.age = 0]
    OBVIOUS
  <2> HIDE DEF x
  <2>2. entry \in [count : {old.count}, total_len : {old.total_len}, fragments : {x},
                   received_bytes : {y}, age : {0}]
    BY <1>0, <2>1 DEF IsEntry
  <2>3. /\ entry.count = old.count /\ entry.total_len = old.total_len
        /\ entry.fragments = x /\ entry.received_bytes = y /\ entry.age = 0
    BY <1>0, <2>1 DEF IsEntry
  <2>4. IsEntry(entry)
    BY <2>2, <2>3 DEF IsEntry
  <2> QED
    BY <2>3, <2>4 DEF x
<1>2. HoldsOf(entry.fragments, a, f)
  BY <1>0, <1>1 DEF HoldsOf, Codec!Reassembler!Put
<1>3. IsFunction(entry.fragments)
  BY <1>1 DEF IsFunction, Codec!Reassembler!Put
<1> QED
  BY <1>0, <1>1, <1>2, <1>3 DEF EntryAfter

\* The table with that entry in it, and some others gone.
LEMMA TableStored ==
    ASSUME NEW a, NEW f, NEW b, TableAfter(b, a, f), NEW entry, EntryAfter(entry, a, f),
           NEW gone, NEW t,
           t.entries = Codec!Reassembler!Put(Codec!Reassembler!remove(b, gone).entries,
                                             f.message_id, entry)
    PROVE  TableAfter(t, a, f)
<1> DEFINE left == Codec!Reassembler!remove(b, gone)
<1>1. TableAfter(left, a, f)
  BY RemoveKeepsOthers
<1>2. t.entries = [i \in DOMAIN left.entries \cup {f.message_id} |->
                     IF i = f.message_id THEN entry ELSE left.entries[i]]
  BY DEF Codec!Reassembler!Put
<1> HIDE DEF left
<1> QED
  BY <1>1, <1>2 DEF TableAfter

\* The tail of push: the fragment is added to the entry of its message, and a
\* full entry leaves the table as the message.
LEMMA StoreIsGood ==
    ASSUME NEW a, NEW f, NEW b, TableAfter(b, a, f),
           EntryAfter(b.entries[f.message_id], a, f),
           NEW r \in Codec!Reassembler!store(b, f)
    PROVE  GoodResult(r, a, f)
<1>1. CASE r = Codec!Reassembler!Result(b, "no_room", << >>)
  BY <1>1 DEF GoodResult, Codec!Reassembler!Result
<1>2. ASSUME NEW gone, NEW c, c = Codec!Reassembler!stored(b, f, gone),
             r = Codec!Reassembler!settled(c, f.message_id)
      PROVE  GoodResult(r, a, f)
  <2> DEFINE old == b.entries[f.message_id]
             entry == [old EXCEPT !.fragments = Codec!Reassembler!Put(@, f.index, f.payload),
                                  !.received_bytes = @ + f.payload.len,
                                  !.age = 0]
  <2>1. EntryAfter(entry, a, f) /\ IsFunction(entry.fragments)
    BY EntryStored
  <2>2. c.entries = Codec!Reassembler!Put(Codec!Reassembler!remove(b, gone).entries,
                                          f.message_id, entry)
    BY <1>2 DEF Codec!Reassembler!stored
  <2> HIDE DEF entry
  <2>3. TableAfter(c, a, f)
    BY <2>1, <2>2, TableStored
  <2>4. c.entries[f.message_id] = entry
    BY <2>2 DEF Codec!Reassembler!Put
  <2>5. TableAfter(Codec!Reassembler!remove(c, {f.message_id}), a, f)
    BY <2>3, RemoveKeepsOthers
  <2>6. /\ r.acc = c \/ r.acc = Codec!Reassembler!remove(c, {f.message_id})
        /\ r.kind = "complete" => /\ r.message = entry.fragments
                                  /\ Cardinality(DOMAIN entry.fragments) = entry.count
    <3>1. r = IF Cardinality(DOMAIN entry.fragments) # entry.count
                THEN Codec!Reassembler!Result(c, "partial", << >>)
              ELSE IF entry.received_bytes = entry.total_len
                THEN Codec!Reassembler!Result(Codec!Reassembler!remove(c, {f.message_id}),
                                              "complete", entry.fragments)
              ELSE Codec!Reassembler!Result(Codec!Reassembler!remove(c, {f.message_id}),
                                            "wrong_length", << >>)
      BY <1>2, <2>4, SameCardinality DEF Codec!Reassembler!settled
    <3>2. CASE Cardinality(DOMAIN entry.fragments) # entry.count
      BY <3>1, <3>2 DEF Codec!Reassembler!Result
    <3>3. CASE Cardinality(DOMAIN entry.fragments) = entry.count
      BY <3>1, <3>3 DEF Codec!Reassembler!Result
    <3> QED
      BY <3>2, <3>3
  <2> QED
    BY <2>1, <2>3, <2>5, <2>6 DEF GoodResult, EntryAfter
<1> QED
  BY <1>1, <1>2 DEF Codec!Reassembler!store

\* The middle of push: a fragment that does not fit the entry leaves the table
\* alone, and one that does is stored.
LEMMA MergeIsGood ==
    ASSUME NEW a, NEW f, PushInput(a, f), NEW b, TableAfter(b, a, f),
           f.message_id \in DOMAIN b.entries,
           NEW r \in Codec!Reassembler!merge(b, f)
    PROVE  GoodResult(r, a, f)
<1> DEFINE entry == b.entries[f.message_id]
<1>1. IsEntry(entry) /\ HoldsOf(entry.fragments, a, f)
  BY DEF TableAfter, EntryAfter, PushInput, HoldsOf
<1> HIDE DEF entry
<1>2. \/ \E k \in {"conflict", "duplicate", "too_long", "too_large"} :
           r = Codec!Reassembler!Result(b, k, << >>)
      \/ /\ entry.count = f.count /\ entry.total_len = f.total_len
         /\ r \in Codec!Reassembler!store(b, f)
  BY DEF Codec!Reassembler!merge, entry
<1>3. CASE \E k \in {"conflict", "duplicate", "too_long", "too_large"} :
             r = Codec!Reassembler!Result(b, k, << >>)
  BY <1>3 DEF GoodResult, Codec!Reassembler!Result
<1>4. CASE /\ entry.count = f.count /\ entry.total_len = f.total_len
           /\ r \in Codec!Reassembler!store(b, f)
  <2>1. EntryAfter(b.entries[f.message_id], a, f)
    BY <1>1, <1>4 DEF EntryAfter, entry
  <2> QED
    BY <1>4, <2>1, StoreIsGood
<1> QED
  BY <1>2, <1>3, <1>4

\* A table with a new, empty entry for the message of f.
LEMMA AdmitIsGood ==
    ASSUME NEW a, NEW f, NEW live, TableAfter(live, a, f),
           NEW b \in Codec!Reassembler!admit(live, f)
    PROVE  TableAfter(b, a, f) /\ f.message_id \in DOMAIN b.entries
<1> DEFINE fresh == [count |-> f.count, total_len |-> f.total_len, fragments |-> << >>,
                     received_bytes |-> 0, age |-> 0]
<1>1. PICK gone : b = [Codec!Reassembler!remove(live, gone) EXCEPT
                         !.entries = Codec!Reassembler!Put(@, f.message_id, fresh)]
  BY DEF Codec!Reassembler!admit
<1>2. EntryAfter(fresh, a, f)
  <2>1. HoldsOf(<< >>, a, f)
    BY DEF HoldsOf
  <2> QED
    BY <2>1 DEF EntryAfter, IsEntry
<1> HIDE DEF fresh
<1>3. b.entries = Codec!Reassembler!Put(Codec!Reassembler!remove(live, gone).entries,
                                        f.message_id, fresh)
  BY <1>1 DEF Codec!Reassembler!remove
<1>4. TableAfter(b, a, f)
  BY <1>2, <1>3, TableStored
<1>5. f.message_id \in DOMAIN b.entries
  BY <1>3 DEF Codec!Reassembler!Put
<1> QED
  BY <1>4, <1>5

\* push invents nothing, on none of its paths, and what it returns as complete
\* has as many fragments as the message (reassembly.rs push).
LEMMA PushIsGood ==
    ASSUME NEW a, NEW f, PushInput(a, f), NEW r \in Codec!Reassembler!push(a, f)
    PROVE  GoodResult(r, a, f)
<1> DEFINE live == Codec!Reassembler!cleanup_expired(a)
<1>0. TableAfter(a, a, f)
  BY DEF TableAfter
<1>1. TableAfter(live, a, f)
  BY <1>0, RemoveKeepsOthers DEF Codec!Reassembler!cleanup_expired
<1>2. \/ r = Codec!Reassembler!Result(a, "invalid", << >>)
      \/ f.count = 1 /\ \E m : /\ r = Codec!Reassembler!Result(a, "complete", m)
                              /\ m = [x \in {0} |-> f.payload]
      \/ f.message_id \in DOMAIN live.entries /\ r \in Codec!Reassembler!merge(live, f)
      \/ r = Codec!Reassembler!Result(live, "too_large", << >>)
      \/ \E b \in Codec!Reassembler!admit(live, f) : r \in Codec!Reassembler!merge(b, f)
  BY DEF Codec!Reassembler!push
<1> HIDE DEF live
<1>3. CASE r = Codec!Reassembler!Result(a, "invalid", << >>)
  BY <1>0, <1>3 DEF GoodResult, Codec!Reassembler!Result
<1>4. ASSUME f.count = 1, NEW m, r = Codec!Reassembler!Result(a, "complete", m),
             m = [x \in {0} |-> f.payload]
      PROVE  GoodResult(r, a, f)
  <2>1. f.index = 0
    BY <1>4 DEF PushInput
  <2>2. Cardinality(DOMAIN m) = f.count
    BY <1>4, FS_Singleton
  <2>3. HoldsOf(m, a, f) /\ IsFunction(m)
    BY <1>4, <2>1 DEF HoldsOf, IsFunction
  <2> QED
    BY <1>0, <1>4, <2>2, <2>3 DEF GoodResult, Codec!Reassembler!Result
<1>5. CASE f.message_id \in DOMAIN live.entries /\ r \in Codec!Reassembler!merge(live, f)
  BY <1>1, <1>5, MergeIsGood
<1>6. CASE r = Codec!Reassembler!Result(live, "too_large", << >>)
  BY <1>1, <1>6 DEF GoodResult, Codec!Reassembler!Result
<1>7. ASSUME NEW b \in Codec!Reassembler!admit(live, f), r \in Codec!Reassembler!merge(b, f)
      PROVE  GoodResult(r, a, f)
  BY <1>1, <1>7, AdmitIsGood, MergeIsGood
<1> QED
  BY <1>2, <1>3, <1>4, <1>5, <1>6, <1>7

\* What the codec knows of a datagram it has sealed: it is a fragment of a
\* message that was handed to it, under a number and an id it has passed.
Sealed(d) ==
    LET f == d.fragment
    IN /\ d = [seq |-> d.seq, fragment |-> f]
       /\ d.seq \in Codec!U64 /\ f.message_id \in Codec!U64 /\ f.total_len \in MessageLens
       /\ f.index \in 0..(Codec!fragment_count(f.total_len) - 1)
       /\ f = Codec!Fragment(f.message_id, f.total_len, f.index)
       /\ Codec!Message(f.message_id, f.total_len) \in sent
       /\ ~send_sequence_exhausted => d.seq < next_send_sequence
       /\ ~message_id_exhausted => f.message_id < next_message_id

SenderTyped ==
    /\ next_send_sequence \in Codec!U64 /\ next_message_id \in Codec!U64
    /\ send_sequence_exhausted \in BOOLEAN /\ message_id_exhausted \in BOOLEAN

\* The datagrams of one id are the fragments of one message, each sealed once.
OneMessagePerId ==
    \A d, e \in net :
        d.fragment.message_id = e.fragment.message_id =>
            /\ d.fragment.total_len = e.fragment.total_len
            /\ d.fragment.index = e.fragment.index => d = e

\* What is buffered was sealed by the peer, and its number is used up.
BufferedIsSealed ==
    \A id \in DOMAIN codec_acc.entries :
        /\ IsEntry(codec_acc.entries[id])
        /\ \A i \in DOMAIN codec_acc.entries[id].fragments :
             \E d \in net : /\ d.seq \in accepted
                            /\ d.fragment.message_id = id /\ d.fragment.index = i
                            /\ d.fragment.payload = codec_acc.entries[id].fragments[i]

\* Nothing of a delivered message can come again: the numbers of all its
\* datagrams are used up.
DeliveredIsUsedUp ==
    /\ delivered \in Seq(Codec!Messages)
    /\ \A m \in Codec!Channel!ToSet(delivered) :
         /\ ~message_id_exhausted => m.id < next_message_id
         /\ \A d \in net : d.fragment.message_id = m.id => d.seq \in accepted

CodecInv ==
    /\ SenderTyped
    /\ \A d \in net : Sealed(d)
    /\ Codec!NonceUsedOnce /\ OneMessagePerId
    /\ TypeOK /\ WindowInv
    /\ BufferedIsSealed /\ DeliveredIsUsedUp
    /\ sent \subseteq Codec!Messages

\* A plaintext has at least one fragment, even an empty one.
LEMMA CountIsPositive ==
    ASSUME Codec!CodecConstants, NEW len \in MessageLens
    PROVE  Codec!fragment_count(len) \in Nat \ {0}
<1>0. FRAGMENT_PLAINTEXT \in Nat \ {0} /\ len \in Nat
  BY DEF Codec!CodecConstants
<1>1. CASE len = 0
  BY <1>1 DEF Codec!fragment_count
<1>2. CASE len # 0
  <2> DEFINE n == len + FRAGMENT_PLAINTEXT - 1
             q == n \div FRAGMENT_PLAINTEXT
             r == n % FRAGMENT_PLAINTEXT
  <2>1. /\ n \in Int /\ n >= FRAGMENT_PLAINTEXT
        /\ q \in Int /\ r \in 0..(FRAGMENT_PLAINTEXT - 1) /\ n = q * FRAGMENT_PLAINTEXT + r
    BY <1>0, <1>2
  <2>2. Codec!fragment_count(len) = q
    BY <1>2 DEF Codec!fragment_count
  <2> HIDE DEF n, q, r
  <2>3. ~(0 >= q)
    <3> SUFFICES ASSUME 1 >= q + 1 PROVE FALSE
      BY <2>1
    <3>1. 1 * FRAGMENT_PLAINTEXT >= q * FRAGMENT_PLAINTEXT + FRAGMENT_PLAINTEXT
      BY <1>0, <2>1, WholeWord
    <3> QED
      BY <1>0, <2>1, <3>1
  <2> QED
    BY <2>1, <2>2, <2>3
<1> QED
  BY <1>1, <1>2

\* Sealing a message: fresh numbers and a fresh id, so nothing that was said of
\* the datagrams before changes.
LEMMA EncodeKeepsInv ==
    ASSUME Codec!CodecConstants, CodecInv, NEW len \in MessageLens, Codec!EncodeMessage(len)
    PROVE  CodecInv'
<1> DEFINE count == Codec!fragment_count(len)
           s == next_send_sequence
           k == next_message_id
           new_net == {[seq |-> s + i, fragment |-> Codec!Fragment(k, len, i)] : i \in 0..(count - 1)}
<1>0. /\ SenderTyped /\ \A d \in net : Sealed(d)
      /\ Codec!NonceUsedOnce /\ OneMessagePerId
      /\ TypeOK /\ WindowInv
      /\ BufferedIsSealed /\ DeliveredIsUsedUp
      /\ sent \subseteq Codec!Messages
  BY DEF CodecInv
<1>1. count \in Nat \ {0} /\ s \in 0..U64_MAX /\ k \in 0..U64_MAX
  BY <1>0, CountIsPositive DEF SenderTyped, Codec!U64
<1>2. /\ ~message_id_exhausted /\ ~send_sequence_exhausted
      /\ s + count - 1 <= U64_MAX
      /\ net' = net \cup new_net
      /\ sent' = sent \cup {Codec!Message(k, len)}
      /\ UNCHANGED <<window, accepted, codec_acc, delivered>>
  BY DEF Codec!EncodeMessage, Codec!seal_message, Codec!receiver
<1>3. /\ next_send_sequence' \in 0..U64_MAX /\ send_sequence_exhausted' \in BOOLEAN
      /\ ~send_sequence_exhausted' => next_send_sequence' = s + count
      /\ next_message_id' \in 0..U64_MAX /\ message_id_exhausted' \in BOOLEAN
      /\ ~message_id_exhausted' => next_message_id' = k + 1
  <2>1. IF s + count - 1 = U64_MAX
          THEN send_sequence_exhausted' = TRUE /\ next_send_sequence' = s
          ELSE /\ next_send_sequence' = s + count - 1 + 1
               /\ send_sequence_exhausted' = send_sequence_exhausted
    BY DEF Codec!EncodeMessage, Codec!seal_message
  <2>2. IF k = U64_MAX
          THEN message_id_exhausted' = TRUE /\ next_message_id' = k
          ELSE /\ next_message_id' = k + 1
               /\ message_id_exhausted' = message_id_exhausted
    BY DEF Codec!EncodeMessage
  <2> HIDE DEF s, k, count
  <2>3. /\ next_send_sequence' \in 0..U64_MAX
        /\ next_send_sequence' = s + count \/ send_sequence_exhausted' = TRUE
    BY <1>1, <1>2, <2>1
  <2>4. /\ next_message_id' \in 0..U64_MAX
        /\ next_message_id' = k + 1 \/ message_id_exhausted' = TRUE
    BY <1>1, <2>2
  <2>5. /\ send_sequence_exhausted' \in {TRUE, send_sequence_exhausted}
        /\ message_id_exhausted' \in {TRUE, message_id_exhausted}
    BY <2>1, <2>2
  <2>6. send_sequence_exhausted' \in BOOLEAN /\ message_id_exhausted' \in BOOLEAN
    BY <1>0, <2>5, Zenon DEF SenderTyped
  <2> QED
    BY <2>3, <2>4, <2>6, Zenon
<1> HIDE DEF count, s, k
<1>4. ASSUME NEW d \in net
      PROVE  /\ d.seq \in Int /\ d.seq < s
             /\ d.fragment.message_id \in Int /\ d.fragment.message_id < k
             /\ Sealed(d)'
  <2>1. /\ Sealed(d) /\ d.seq < s /\ d.fragment.message_id < k
        /\ d.seq \in Int /\ d.fragment.message_id \in Int
    BY <1>0, <1>2 DEF Sealed, s, k, Codec!U64
  <2> QED
    BY <1>1, <1>2, <1>3, <2>1 DEF Sealed
<1>5. ASSUME NEW d \in new_net
      PROVE  /\ Sealed(d)' /\ d.fragment.message_id = k /\ d.fragment.total_len = len
             /\ d.fragment.index \in Int /\ d.seq = s + d.fragment.index
             /\ d = [seq |-> d.seq, fragment |-> Codec!Fragment(k, len, d.fragment.index)]
  <2>1. PICK i \in 0..(count - 1) : d = [seq |-> s + i, fragment |-> Codec!Fragment(k, len, i)]
    OBVIOUS
  <2>2. /\ d.seq = s + i /\ d.fragment = Codec!Fragment(k, len, i)
        /\ d.fragment.message_id = k /\ d.fragment.total_len = len /\ d.fragment.index = i
    BY <2>1 DEF Codec!Fragment
  <2>3. d = [seq |-> d.seq, fragment |-> d.fragment]
    BY <2>1, <2>2
  <2>4. /\ d.seq \in 0..U64_MAX /\ d.seq < s + count
    BY <1>1, <1>2, <2>2
  <2>5. Sealed(d)'
    BY <1>1, <1>2, <1>3, <2>2, <2>3, <2>4 DEF Sealed, Codec!U64, count
  <2> QED
    BY <2>2, <2>3, <2>5
<1> HIDE DEF new_net
<1>6. SenderTyped' /\ (\A d \in net : Sealed(d))'
  BY <1>2, <1>3, <1>4, <1>5 DEF SenderTyped, Codec!U64
<1>7. Codec!NonceUsedOnce'
  <2> SUFFICES ASSUME NEW d \in net', NEW e \in net', d.seq = e.seq PROVE d = e
    BY DEF Codec!NonceUsedOnce
  <2>1. CASE d \in net /\ e \in net
    BY <1>0, <2>1 DEF Codec!NonceUsedOnce
  <2>2. CASE d \in new_net /\ e \in new_net
    <3>1. d.fragment.index = e.fragment.index
      BY <1>1, <1>5, <2>2
    <3> QED
      BY <1>5, <2>2, <3>1
  <2>3. ~(d \in net /\ e \in new_net) /\ ~(d \in new_net /\ e \in net)
    <3>1. \A x \in new_net : x.seq \in Int /\ x.seq >= s
      <4> SUFFICES ASSUME NEW x \in new_net PROVE x.seq \in Int /\ x.seq >= s
        OBVIOUS
      <4>1. PICK i \in 0..(count - 1) : x = [seq |-> s + i, fragment |-> Codec!Fragment(k, len, i)]
        BY DEF new_net
      <4> QED
        BY <1>1, <4>1
    <3> QED
      BY <1>1, <1>4, <3>1
  <2> QED
    BY <1>2, <2>1, <2>2, <2>3
<1>8. OneMessagePerId'
  BY <1>0, <1>1, <1>2, <1>4, <1>5 DEF OneMessagePerId
<1>9. TypeOK' /\ WindowInv'
  BY <1>0, <1>2 DEF TypeOK, WindowInv
<1>10. BufferedIsSealed'
  BY <1>0, <1>2 DEF BufferedIsSealed, IsEntry
<1>11. DeliveredIsUsedUp'
  <2>1. Codec!Channel!ToSet(delivered)' = Codec!Channel!ToSet(delivered)
    BY <1>2 DEF Codec!Channel!ToSet
  <2>2. delivered' \in Seq(Codec!Messages)'
    BY <1>0, <1>2 DEF DeliveredIsUsedUp, Codec!Messages
  <2>3. ASSUME NEW m \in Codec!Channel!ToSet(delivered)
        PROVE  /\ ~message_id_exhausted' => m.id < next_message_id'
               /\ \A d \in net' : d.fragment.message_id = m.id => d.seq \in accepted'
    <3>1. m.id < k /\ \A d \in net : d.fragment.message_id = m.id => d.seq \in accepted
      BY <1>0, <1>2 DEF DeliveredIsUsedUp, k
    <3>2. m.id \in Int
      <4>1. m \in Codec!Messages
        BY <1>0 DEF DeliveredIsUsedUp, Codec!Channel!ToSet
      <4> QED
        BY <4>1 DEF Codec!Messages, Codec!Message, Codec!U64
    <3> QED
      BY <1>1, <1>2, <1>3, <1>5, <3>1, <3>2
  <2> QED
    BY <2>1, <2>2, <2>3 DEF DeliveredIsUsedUp
<1>12. (sent \subseteq Codec!Messages)'
  BY <1>0, <1>1, <1>2 DEF Codec!Messages, Codec!U64
<1> QED
  BY <1>6, <1>7, <1>8, <1>9, <1>10, <1>11, <1>12 DEF CodecInv

\* The window of the codec is the window of module ReplayWindow.
LEMMA SameWindow ==
    ASSUME NEW seq
    PROVE  Codec!Replay!OpenAuthentic(seq) <=> OpenAuthentic(seq)
BY DEF Codec!Replay!OpenAuthentic, OpenAuthentic, Codec!Replay!may_accept, may_accept,
       Codec!Replay!commit, commit, Codec!Replay!committed, committed,
       Codec!Replay!shift_older, shift_older, Codec!Replay!None, Codec!Replay!Distances

\* A datagram the window lets through: nothing of its message was delivered,
\* and a message that is complete with it is one that was sent.
LEMMA DecodeKeepsInv ==
    ASSUME Codec!CodecConstants, CodecInv, NEW d \in net, Codec!DecodeDatagram(d)
    PROVE  /\ CodecInv'
           /\ Codec!Channel!Deliver \/ UNCHANGED <<sent, delivered>>
<1> DEFINE f == d.fragment
           id == f.message_id
           len == f.total_len
           count == Codec!fragment_count(len)
<1>0. /\ SenderTyped /\ \A e \in net : Sealed(e)
      /\ Codec!NonceUsedOnce /\ OneMessagePerId
      /\ TypeOK /\ WindowInv
      /\ BufferedIsSealed /\ DeliveredIsUsedUp
      /\ sent \subseteq Codec!Messages
  BY DEF CodecInv
<1>1. /\ len \in MessageLens /\ count \in Nat \ {0} /\ d.seq \in Seqs
      /\ f.index \in 0..(count - 1) /\ f.count = count
      /\ Codec!Message(id, len) \in sent
  <2>1. Sealed(d)
    BY <1>0
  <2>2. f = Codec!Fragment(id, len, f.index) /\ len \in MessageLens
    BY <2>1 DEF Sealed
  <2>3. f.count = count
    BY <2>2 DEF Codec!Fragment
  <2> QED
    BY <2>1, <2>3, CountIsPositive DEF Sealed, Codec!U64
<1>2. /\ d.seq \notin accepted /\ accepted' = accepted \cup {d.seq}
      /\ TypeOK' /\ WindowInv'
  <2>1. OpenAuthentic(d.seq)
    BY SameWindow DEF Codec!DecodeDatagram
  <2>2. WindowInv'
    BY <1>0, <1>1, <2>1, CommitKeepsWindowInv
  <2>3. TypeOK'
    BY <1>0, <1>1, <2>1, CommitTyped DEF OpenAuthentic, TypeOK
  <2>4. d.seq \notin accepted
    BY <1>0, <1>1, <2>1, WindowInvGivesExactAnswer DEF OpenAuthentic, ExactReplayAnswer
  <2> QED
    BY <2>1, <2>2, <2>3, <2>4 DEF OpenAuthentic
<1>3. PICK r \in Codec!Reassembler!push(codec_acc, f) :
        /\ codec_acc' = r.acc
        /\ delivered' = IF r.kind = "complete"
                          THEN Append(delivered, [id |-> id, fragments |-> r.message])
                          ELSE delivered
  BY DEF Codec!DecodeDatagram
<1>4. UNCHANGED <<next_send_sequence, send_sequence_exhausted, next_message_id,
                  message_id_exhausted, net, sent>>
  BY DEF Codec!DecodeDatagram, Codec!sender
<1> HIDE DEF f, id, len, count
<1>5. GoodResult(r, codec_acc, f)
  <2>1. PushInput(codec_acc, f)
    BY <1>0, <1>1 DEF PushInput, BufferedIsSealed
  <2> QED
    BY <2>1, PushIsGood
\* Whatever push holds of the message was sealed, and its number is used up.
<1>6. ASSUME NEW fragments, HoldsOf(fragments, codec_acc, f), NEW i \in DOMAIN fragments
      PROVE  \E e \in net : /\ e.seq \in accepted'
                            /\ e.fragment.message_id = id /\ e.fragment.index = i
                            /\ e.fragment.payload = fragments[i]
  <2>1. CASE i = f.index /\ fragments[i] = f.payload
    BY <1>2, <2>1 DEF f, id
  <2>2. CASE /\ id \in DOMAIN codec_acc.entries /\ i \in DOMAIN codec_acc.entries[id].fragments
             /\ fragments[i] = codec_acc.entries[id].fragments[i]
    BY <1>0, <1>2, <2>2 DEF BufferedIsSealed
  <2> QED
    BY <1>6, <2>1, <2>2 DEF HoldsOf, id
<1>7. BufferedIsSealed'
  <2> SUFFICES ASSUME NEW j \in DOMAIN codec_acc'.entries
               PROVE  /\ IsEntry(codec_acc'.entries[j])
                      /\ \A i \in DOMAIN codec_acc'.entries[j].fragments :
                           \E e \in net : /\ e.seq \in accepted'
                                          /\ e.fragment.message_id = j /\ e.fragment.index = i
                                          /\ e.fragment.payload = codec_acc'.entries[j].fragments[i]
    BY <1>4 DEF BufferedIsSealed, IsEntry
  <2>1. CASE j \in DOMAIN codec_acc.entries /\ codec_acc'.entries[j] = codec_acc.entries[j]
    BY <1>0, <1>2, <2>1 DEF BufferedIsSealed
  <2>2. CASE j = id /\ EntryAfter(codec_acc'.entries[j], codec_acc, f)
    BY <1>6, <2>2 DEF EntryAfter
  <2> QED
    BY <1>3, <1>5, <2>1, <2>2 DEF GoodResult, TableAfter, id
<1>8. /\ SenderTyped' /\ (\A e \in net : Sealed(e))' /\ Codec!NonceUsedOnce'
      /\ OneMessagePerId' /\ (sent \subseteq Codec!Messages)'
  <2>1. SenderTyped' /\ Codec!NonceUsedOnce' /\ OneMessagePerId'
    BY <1>0, <1>4 DEF SenderTyped, Codec!NonceUsedOnce, OneMessagePerId
  <2>2. (\A e \in net : Sealed(e))'
    BY <1>0, <1>4 DEF Sealed
  <2> QED
    BY <1>0, <1>4, <2>1, <2>2
<1>9. CASE r.kind # "complete"
  <2>1. delivered' = delivered
    BY <1>3, <1>9
  <2>2. DeliveredIsUsedUp'
    BY <1>0, <1>2, <1>4, <2>1 DEF DeliveredIsUsedUp, Codec!Channel!ToSet
  <2> QED
    BY <1>2, <1>4, <1>7, <1>8, <2>1, <2>2 DEF CodecInv
<1>10. CASE r.kind = "complete"
  <2> DEFINE m == [id |-> id, fragments |-> r.message]
  <2>1. /\ IsFunction(r.message) /\ HoldsOf(r.message, codec_acc, f)
        /\ Cardinality(DOMAIN r.message) = count
    BY <1>1, <1>5, <1>10 DEF GoodResult
  <2>2. ASSUME NEW i \in DOMAIN r.message
        PROVE  /\ i \in 0..(count - 1)
               /\ r.message[i] = Codec!Fragment(id, len, i).payload
    <3>1. PICK e \in net : /\ e.fragment.message_id = id /\ e.fragment.index = i
                           /\ e.fragment.payload = r.message[i]
      BY <1>6, <2>1
    <3>2. e.fragment.total_len = len
      BY <1>0, <3>1 DEF OneMessagePerId, f, id, len
    <3>3. /\ i \in 0..(Codec!fragment_count(len) - 1)
          /\ e.fragment = Codec!Fragment(id, len, i)
      BY <1>0, <3>1, <3>2 DEF Sealed
    <3> QED
      BY <3>1, <3>3 DEF count
  <2>3. DOMAIN r.message = 0..(count - 1)
    <3>1. IsFiniteSet(0..(count - 1)) /\ Cardinality(0..(count - 1)) = count
      BY <1>1, FS_Interval
    <3>2. DOMAIN r.message \in SUBSET (0..(count - 1))
      BY <2>2
    <3> QED
      BY <2>1, <3>1, <3>2, FS_Subset
  <2>4. m = Codec!Message(id, len)
    <3>1. r.message = [i \in 0..(count - 1) |-> Codec!Fragment(id, len, i).payload]
      BY <2>1, <2>2, <2>3 DEF IsFunction
    <3> QED
      BY <3>1 DEF Codec!Message, count
  <2>5. m \in sent /\ m \in Codec!Messages /\ m.id = id
    BY <1>0, <1>1, <2>4
  <2> HIDE DEF m
  <2>6. m \notin Codec!Channel!ToSet(delivered)
    BY <1>0, <1>2, <2>5 DEF DeliveredIsUsedUp, f, id
  <2>7. delivered' = Append(delivered, m)
    BY <1>3, <1>10 DEF m
  <2>8. Codec!Channel!Deliver
    BY <1>4, <2>5, <2>6, <2>7 DEF Codec!Channel!Deliver
  <2>9. ASSUME NEW e \in net, e.fragment.message_id = id
        PROVE  e.seq \in accepted'
    <3>1. e.fragment.total_len = len
      BY <1>0, <2>9 DEF OneMessagePerId, f, id, len
    <3>2. e.fragment.index \in DOMAIN r.message
      BY <1>0, <2>3, <3>1 DEF Sealed, count
    <3>3. PICK x \in net : /\ x.seq \in accepted' /\ x.fragment.message_id = id
                           /\ x.fragment.index = e.fragment.index
      BY <1>6, <2>1, <3>2
    <3>4. x = e
      BY <1>0, <2>9, <3>3 DEF OneMessagePerId
    <3> QED
      BY <3>3, <3>4
  <2>10. DeliveredIsUsedUp'
    <3>1. /\ delivered' \in Seq(Codec!Messages)
          /\ Codec!Channel!ToSet(delivered') = Codec!Channel!ToSet(delivered) \cup {m}
      <4>1. delivered \in Seq(Codec!Messages) /\ m \in Codec!Messages
        BY <1>0, <2>5 DEF DeliveredIsUsedUp
      <4> DEFINE S == Codec!Messages
                 p == delivered'
      <4>2. p = Append(delivered, m) /\ delivered \in Seq(S) /\ m \in S
        BY <2>7, <4>1
      <4> HIDE DEF p, S
      <4>3. p \in Seq(S) /\ Codec!Channel!ToSet(p) = Codec!Channel!ToSet(delivered) \cup {m}
        <5>1. /\ p \in Seq(S) /\ Len(delivered) \in Nat
              /\ DOMAIN delivered = 1..Len(delivered) /\ DOMAIN p = 1..(Len(delivered) + 1)
              /\ \A i \in DOMAIN delivered : p[i] = delivered[i]
              /\ p[Len(delivered) + 1] = m
          BY <4>2
        <5>2. \A i \in DOMAIN p : i \in DOMAIN delivered \/ i = Len(delivered) + 1
          BY <5>1
        <5>3. DOMAIN delivered \subseteq DOMAIN p /\ Len(delivered) + 1 \in DOMAIN p
          BY <5>1
        <5> QED
          BY <5>1, <5>2, <5>3 DEF Codec!Channel!ToSet
      <4> QED
        BY <4>3 DEF p, S
    <3>2. ~message_id_exhausted => id < next_message_id
      BY <1>0 DEF Sealed, f, id
    <3> QED
      BY <1>0, <1>2, <1>4, <2>5, <2>9, <3>1, <3>2 DEF DeliveredIsUsedUp
  <2> QED
    BY <1>2, <1>7, <1>8, <2>8, <2>10 DEF CodecInv
<1> QED
  BY <1>9, <1>10

\* Time passes: the entries grow older and nothing else.
LEMMA TickKeepsInv ==
    ASSUME CodecInv, Codec!Tick
    PROVE  CodecInv'
<1>0. /\ SenderTyped /\ \A e \in net : Sealed(e)
      /\ Codec!NonceUsedOnce /\ OneMessagePerId
      /\ TypeOK /\ WindowInv
      /\ BufferedIsSealed /\ DeliveredIsUsedUp
      /\ sent \subseteq Codec!Messages
  BY DEF CodecInv
<1>1. /\ codec_acc' = Codec!Reassembler!aged(codec_acc)
      /\ UNCHANGED <<next_send_sequence, send_sequence_exhausted, next_message_id,
                     message_id_exhausted, net, window, accepted, sent, delivered>>
  BY DEF Codec!Tick, Codec!sender
<1>2. /\ SenderTyped' /\ (\A e \in net : Sealed(e))' /\ Codec!NonceUsedOnce'
      /\ OneMessagePerId' /\ (sent \subseteq Codec!Messages)'
  <2>1. SenderTyped' /\ Codec!NonceUsedOnce' /\ OneMessagePerId'
    BY <1>0, <1>1 DEF SenderTyped, Codec!NonceUsedOnce, OneMessagePerId
  <2>2. (\A e \in net : Sealed(e))'
    BY <1>0, <1>1 DEF Sealed
  <2> QED
    BY <1>0, <1>1, <2>1, <2>2
<1>3. TypeOK' /\ WindowInv' /\ DeliveredIsUsedUp'
  BY <1>0, <1>1 DEF TypeOK, WindowInv, DeliveredIsUsedUp, Codec!Channel!ToSet
<1>4. BufferedIsSealed'
  <2> SUFFICES ASSUME NEW id \in DOMAIN codec_acc'.entries
               PROVE  /\ id \in DOMAIN codec_acc.entries
                      /\ IsEntry(codec_acc'.entries[id])
                      /\ codec_acc'.entries[id].fragments = codec_acc.entries[id].fragments
    BY <1>0, <1>1 DEF BufferedIsSealed, IsEntry
  <2>1. /\ id \in DOMAIN codec_acc.entries
        /\ codec_acc'.entries[id] = [codec_acc.entries[id] EXCEPT !.age = IF @ < TIMEOUT THEN @ + 1 ELSE @]
    BY <1>1 DEF Codec!Reassembler!aged
  <2> DEFINE old == codec_acc.entries[id]
             age == IF old.age < TIMEOUT THEN old.age + 1 ELSE old.age
             entry == codec_acc'.entries[id]
  <2>2. entry = [old EXCEPT !.age = age] /\ IsEntry(old)
    BY <1>0, <2>1 DEF BufferedIsSealed
  <2> HIDE DEF old, age, entry
  <2>3. entry \in [count : {old.count}, total_len : {old.total_len}, fragments : {old.fragments},
                   received_bytes : {old.received_bytes}, age : {age}]
    BY <2>2 DEF IsEntry
  <2>4. /\ entry.count = old.count /\ entry.total_len = old.total_len
        /\ entry.fragments = old.fragments /\ entry.received_bytes = old.received_bytes
        /\ entry.age = age
    BY <2>2 DEF IsEntry
  <2>5. IsEntry(entry)
    BY <2>3, <2>4 DEF IsEntry
  <2> QED
    BY <2>1, <2>4, <2>5 DEF entry, old
<1> QED
  BY <1>2, <1>3, <1>4 DEF CodecInv

\* Every step of the codec keeps the invariant and is a step of the channel.
LEMMA CodecStep ==
    ASSUME Codec!CodecConstants, CodecInv, [Codec!Next]_(Codec!vars)
    PROVE  CodecInv' /\ [Codec!Channel!Next]_(Codec!Channel!vars)
<1>1. ASSUME NEW len \in MessageLens, Codec!EncodeMessage(len)
      PROVE  CodecInv' /\ [Codec!Channel!Next]_(Codec!Channel!vars)
  <2>1. CodecInv'
    BY <1>1, EncodeKeepsInv
  <2>2. sent' = sent \cup {Codec!Message(next_message_id, len)} /\ UNCHANGED delivered
    BY <1>1 DEF Codec!EncodeMessage
  <2>3. Codec!Message(next_message_id, len) \in Codec!Messages
    BY DEF CodecInv, SenderTyped, Codec!Messages
  <2> QED
    BY <2>1, <2>2, <2>3 DEF Codec!Channel!Next, Codec!Channel!Send, Codec!Channel!vars
<1>2. ASSUME NEW d \in net, Codec!DecodeDatagram(d)
      PROVE  CodecInv' /\ [Codec!Channel!Next]_(Codec!Channel!vars)
  BY <1>2, DecodeKeepsInv DEF Codec!Channel!Next, Codec!Channel!vars
<1>3. CASE Codec!Tick
  BY <1>3, TickKeepsInv DEF Codec!Tick, Codec!Channel!vars
<1>4. CASE UNCHANGED Codec!vars
  BY <1>4 DEF Codec!vars, Codec!sender, Codec!receiver, Codec!Channel!vars, CodecInv, SenderTyped,
              Sealed, Codec!NonceUsedOnce, OneMessagePerId, TypeOK, WindowInv,
              BufferedIsSealed, DeliveredIsUsedUp, Codec!Channel!ToSet, IsEntry
<1> QED
  BY <1>1, <1>2, <1>3, <1>4 DEF Codec!Next, Codec!RefuseDatagram

\* A fresh codec satisfies the invariant, and is a fresh channel.
LEMMA CodecStarts ==
    ASSUME Codec!CodecConstants, Codec!Init
    PROVE  CodecInv /\ Codec!Channel!Init
<1>1. /\ next_send_sequence = 0 /\ send_sequence_exhausted = FALSE
      /\ next_message_id = 0 /\ message_id_exhausted = FALSE
      /\ net = {} /\ sent = {} /\ delivered = << >>
      /\ window = new /\ accepted = {}
      /\ codec_acc = [entries |-> << >>, total_bytes |-> 0]
  BY DEF Codec!Init, Codec!Replay!Init, Codec!Replay!new, new, Codec!Replay!None,
         Codec!Reassembler!new
<1>2. SenderTyped
  <2>1. next_send_sequence \in Codec!U64 /\ next_message_id \in Codec!U64
    BY <1>1 DEF Codec!U64
  <2>2. send_sequence_exhausted \in BOOLEAN /\ message_id_exhausted \in BOOLEAN
    BY <1>1, Zenon
  <2> QED
    BY <2>1, <2>2 DEF SenderTyped
<1>3. TypeOK /\ WindowInv
  BY <1>1 DEF TypeOK, WindowInv, Windows, new
<1>4. BufferedIsSealed
  BY <1>1 DEF BufferedIsSealed
<1>5. DeliveredIsUsedUp
  BY <1>1 DEF DeliveredIsUsedUp, Codec!Channel!ToSet
<1>6. Codec!NonceUsedOnce /\ OneMessagePerId /\ \A d \in net : Sealed(d)
  BY <1>1 DEF Codec!NonceUsedOnce, OneMessagePerId
<1> QED
  BY <1>1, <1>2, <1>3, <1>4, <1>5, <1>6 DEF CodecInv, Codec!Channel!Init

\* The window is shared with the first part of the suite, so the invariant is that
\* of the behaviours about the codec; in the others nothing is ever sent.
CodecPart == /\ part = "codec" => CodecInv
             /\ part # "codec" => net = {}

\* A step of the suite keeps the invariant and is a step of the channel.
LEMMA CodecPartStep ==
    ASSUME Codec!CodecConstants, CodecPart, [SuiteNext]_suite_vars
    PROVE  CodecPart' /\ [Codec!Channel!Next]_(Codec!Channel!vars)
<1>1. CASE part = "codec"
  <2>1. part' = "codec" /\ [Codec!Next]_(Codec!vars)
    <3>1. CASE OnlyCodec /\ Codec!Next
      BY <1>1, <3>1 DEF OnlyCodec
    <3>2. CASE UNCHANGED suite_vars
      BY <1>1, <3>2 DEF suite_vars, codec_vars, vars, Codec!vars, Codec!sender, Codec!receiver
    <3> QED
      BY <1>1, <3>1, <3>2 DEF SuiteNext, OnlyWindow, OnlyBitmap, OnlyTable
  <2>2. CodecInv' /\ [Codec!Channel!Next]_(Codec!Channel!vars)
    BY <1>1, <2>1, CodecStep DEF CodecPart
  <2> QED
    BY <2>1, <2>2 DEF CodecPart
<1>2. CASE part # "codec"
  <2>1. part' = part /\ UNCHANGED <<net, sent, delivered>>
    BY <1>2 DEF SuiteNext, OnlyWindow, OnlyBitmap, OnlyCodec, OnlyTable,
                suite_vars, codec_vars
  <2> QED
    BY <1>2, <2>1 DEF CodecPart, Codec!Channel!vars
<1> QED
  BY <1>1, <1>2

\* A fresh suite has a fresh codec.
LEMMA CodecPartStarts ==
    ASSUME Codec!CodecConstants, SuiteInit
    PROVE  CodecPart /\ Codec!Channel!Init
<1>1. Codec!Init
  BY DEF SuiteInit
<1>2. net = {}
  BY <1>1 DEF Codec!Init
<1> QED
  BY <1>1, <1>2, CodecStarts DEF CodecPart

\* No nonce is ever used twice, up to the end of the number range and for every
\* size of message (crypto.rs seal_message).
THEOREM NoncesAreFresh ==
    ASSUME Codec!CodecConstants
    PROVE  SuiteSpec => []NonceUsedOnce
<1>1. SuiteInit => CodecPart
  BY CodecPartStarts
<1>2. CodecPart /\ [SuiteNext]_suite_vars => CodecPart'
  BY CodecPartStep
<1>3. CodecPart => NonceUsedOnce
  BY DEF CodecPart, CodecInv, NonceUsedOnce, Codec!NonceUsedOnce
<1> QED
  BY <1>1, <1>2, <1>3, PTL DEF SuiteSpec

\* Over a network that loses, duplicates and reorders, every message arrives
\* whole and at most once, whatever the window size, the fragment size and the
\* limits of the reassembler are (crypto.rs decode_datagram_at).
THEOREM CodecImplementsChannel ==
    ASSUME Codec!CodecConstants
    PROVE  SuiteSpec => ImplementsChannel
<1>1. SuiteInit => CodecPart /\ Codec!Channel!Init
  BY CodecPartStarts
<1>2. CodecPart /\ [SuiteNext]_suite_vars
        => CodecPart' /\ [Codec!Channel!Next]_(Codec!Channel!vars)
  BY CodecPartStep
<1> QED
  BY <1>1, <1>2, PTL
     DEF SuiteSpec, ImplementsChannel, Codec!ImplementsChannel, Codec!Channel!Spec
-----------------------------------------------------------------------------
(***************************************************************************)
(* The reassembly table: its counters are true, its limits hold, there is  *)
(* always room, and what has to go is the oldest.                          *)
(***************************************************************************)
\* The table counts with the Cardinality of every module.
LEMMA TableCardinality ==
    \A S : Table!Cardinality(S) = Cardinality(S)
BY Zenon DEF Cardinality, Table!Cardinality

\* The cells that Table!Total counts.
Cells(g) == UNION {{x} \X (1..g[x]) : x \in DOMAIN g}

LEMMA CellMembers ==
    ASSUME NEW g
    PROVE  \A p : p \in Cells(g) <=> \E x \in DOMAIN g : p \in {x} \X (1..g[x])
BY DEF Cells

\* A line of cells has as many as the number says.
LEMMA CellsOfOne ==
    ASSUME NEW x, NEW n \in Nat
    PROVE  IsFiniteSet({x} \X (1..n)) /\ Cardinality({x} \X (1..n)) = n
<1>1. IsFiniteSet({x}) /\ Cardinality({x}) = 1
  BY FS_Singleton, Zenon
<1>2. IsFiniteSet(1..n) /\ Cardinality(1..n) = IF 1 > n THEN 0 ELSE n - 1 + 1
  BY FS_Interval
<1>3. Cardinality(1..n) = n
  BY <1>2
<1>4. /\ IsFiniteSet({x} \X (1..n))
      /\ Cardinality({x} \X (1..n)) = Cardinality({x}) * Cardinality(1..n)
  BY <1>1, <1>2, FS_Product
<1> QED
  BY <1>1, <1>3, <1>4

\* A total of finitely many natural numbers is a natural number.
LEMMA TotalIsNat ==
    ASSUME NEW g, IsFiniteSet(DOMAIN g), \A x \in DOMAIN g : g[x] \in Nat
    PROVE  /\ Table!Total(g) = Cardinality(Cells(g))
           /\ IsFiniteSet(Cells(g)) /\ Table!Total(g) \in Nat
<1>1. Table!Total(g) = Cardinality(Cells(g))
  BY TableCardinality DEF Table!Total, Cells
<1> DEFINE T == {{x} \X (1..g[x]) : x \in DOMAIN g}
           s == [x \in DOMAIN g |-> {x} \X (1..g[x])]
<1>2. s \in Surjection(DOMAIN g, T)
  BY DEF Surjection
<1>3. \A t \in T : IsFiniteSet(t)
  <2>1. \A x \in DOMAIN g : IsFiniteSet({x} \X (1..g[x]))
    BY CellsOfOne
  <2> QED
    BY <2>1
<1> HIDE DEF T, s
<1>4. IsFiniteSet(T)
  BY <1>2, FS_Surjection
<1>5. IsFiniteSet(UNION T)
  BY <1>3, <1>4, FS_UNION
<1>6. IsFiniteSet(Cells(g))
  BY <1>5 DEF Cells, T
<1> QED
  BY <1>1, <1>6, FS_CardinalityType

\* The total of one number, and of none.
LEMMA TotalOfOne ==
    ASSUME NEW g, NEW x, DOMAIN g = {x}, g[x] \in Nat
    PROVE  Table!Total(g) = g[x]
<1>1. Cells(g) = {x} \X (1..g[x])
  BY DEF Cells
<1>2. Cardinality({x} \X (1..g[x])) = g[x]
  BY CellsOfOne
<1> QED
  BY <1>1, <1>2, TableCardinality DEF Table!Total, Cells

LEMMA TotalOfNone ==
    ASSUME NEW g, DOMAIN g = {}
    PROVE  Table!Total(g) = 0
<1>1. Cells(g) = {}
  BY DEF Cells
<1> QED
  BY <1>1, FS_EmptySet, TableCardinality DEF Table!Total, Cells

\* The total over two disjoint domains is the sum of both.
LEMMA TotalOfBoth ==
    ASSUME NEW g, NEW h, NEW k,
           IsFiniteSet(DOMAIN k), \A x \in DOMAIN k : k[x] \in Nat,
           DOMAIN k = DOMAIN g \cup DOMAIN h, DOMAIN g \cap DOMAIN h = {},
           \A x \in DOMAIN g : g[x] = k[x],
           \A x \in DOMAIN h : h[x] = k[x]
    PROVE  /\ Table!Total(k) = Table!Total(g) + Table!Total(h)
           /\ Table!Total(k) \in Nat /\ Table!Total(g) \in Nat /\ Table!Total(h) \in Nat
<1>1. IsFiniteSet(DOMAIN g) /\ IsFiniteSet(DOMAIN h)
  <2>1. DOMAIN g \in SUBSET DOMAIN k /\ DOMAIN h \in SUBSET DOMAIN k
    OBVIOUS
  <2> QED
    BY <2>1, FS_Subset
<1>2. /\ Table!Total(k) = Cardinality(Cells(k)) /\ Table!Total(k) \in Nat
      /\ Table!Total(g) = Cardinality(Cells(g)) /\ Table!Total(g) \in Nat
      /\ Table!Total(h) = Cardinality(Cells(h)) /\ Table!Total(h) \in Nat
      /\ IsFiniteSet(Cells(g)) /\ IsFiniteSet(Cells(h))
  BY <1>1, TotalIsNat
<1>3. Cells(k) = Cells(g) \cup Cells(h)
  <2>1. \A p : p \in Cells(k) <=> p \in Cells(g) \/ p \in Cells(h)
    BY CellMembers
  <2> QED
    BY <2>1
<1>4. Cells(g) \cap Cells(h) = {}
  <2> SUFFICES ASSUME NEW p, p \in Cells(g), p \in Cells(h) PROVE FALSE
    OBVIOUS
  <2>1. PICK x \in DOMAIN g : p \in {x} \X (1..g[x])
    BY CellMembers
  <2>2. PICK y \in DOMAIN h : p \in {y} \X (1..h[y])
    BY CellMembers
  <2>3. p[1] = x /\ p[1] = y
    BY <2>1, <2>2
  <2> QED
    BY <2>3
<1>5. Cardinality(Cells(g) \cup Cells(h))
        = Cardinality(Cells(g)) + Cardinality(Cells(h)) - Cardinality(Cells(g) \cap Cells(h))
  BY <1>2, FS_Union
<1>6. Cardinality(Cells(g) \cap Cells(h)) = 0
  BY <1>4, FS_EmptySet
<1>7. Table!Total(k) = Table!Total(g) + Table!Total(h) - 0
  BY <1>2, <1>3, <1>5, <1>6
<1> QED
  BY <1>2, <1>7

\* Every entry counts a natural number of bytes.
Countable(a) ==
    /\ IsFiniteSet(DOMAIN a.entries)
    /\ \A id \in DOMAIN a.entries : a.entries[id].received_bytes \in Nat

\* The bytes of entries of the table: of two disjoint sets, and of one entry.
LEMMA BytesOfBoth ==
    ASSUME NEW a, Countable(a), NEW ids, NEW others, ids \cap others = {},
           ids \subseteq DOMAIN a.entries, others \subseteq DOMAIN a.entries
    PROVE  /\ Table!BytesOf(a, ids \cup others) = Table!BytesOf(a, ids) + Table!BytesOf(a, others)
           /\ Table!BytesOf(a, ids \cup others) \in Nat
           /\ Table!BytesOf(a, ids) \in Nat /\ Table!BytesOf(a, others) \in Nat
<1> DEFINE g == [id \in ids |-> a.entries[id].received_bytes]
           h == [id \in others |-> a.entries[id].received_bytes]
           k == [id \in ids \cup others |-> a.entries[id].received_bytes]
<1>1. IsFiniteSet(ids \cup others)
  <2>1. ids \cup others \in SUBSET DOMAIN a.entries
    OBVIOUS
  <2> QED
    BY <2>1, FS_Subset DEF Countable
<1>2. /\ DOMAIN k = ids \cup others /\ DOMAIN g = ids /\ DOMAIN h = others
      /\ \A x \in DOMAIN k : k[x] \in Nat
      /\ \A x \in DOMAIN g : g[x] = k[x]
      /\ \A x \in DOMAIN h : h[x] = k[x]
  BY DEF Countable
<1>3. /\ Table!BytesOf(a, ids) = Table!Total(g) /\ Table!BytesOf(a, others) = Table!Total(h)
      /\ Table!BytesOf(a, ids \cup others) = Table!Total(k)
  BY DEF Table!BytesOf
<1> HIDE DEF g, h, k
<1>4. /\ Table!Total(k) = Table!Total(g) + Table!Total(h)
      /\ Table!Total(k) \in Nat /\ Table!Total(g) \in Nat /\ Table!Total(h) \in Nat
  BY <1>1, <1>2, TotalOfBoth, ZenonT(60)
<1> QED
  BY <1>3, <1>4

LEMMA BytesOfOne ==
    ASSUME NEW a, Countable(a), NEW id \in DOMAIN a.entries
    PROVE  Table!BytesOf(a, {id}) = a.entries[id].received_bytes
<1> DEFINE g == [i \in {id} |-> a.entries[i].received_bytes]
<1>1. DOMAIN g = {id} /\ g[id] = a.entries[id].received_bytes /\ g[id] \in Nat
  BY DEF Countable
<1>2. Table!BytesOf(a, {id}) = Table!Total(g)
  BY DEF Table!BytesOf
<1> HIDE DEF g
<1> QED
  BY <1>1, <1>2, TotalOfOne

LEMMA BytesOfNone ==
    ASSUME NEW a
    PROVE  Table!BytesOf(a, {}) = 0
BY TotalOfNone DEF Table!BytesOf

\* Only the counters of the entries matter.
LEMMA BytesOfSame ==
    ASSUME NEW a, NEW b, NEW ids,
           \A id \in ids : a.entries[id].received_bytes = b.entries[id].received_bytes
    PROVE  Table!BytesOf(a, ids) = Table!BytesOf(b, ids)
<1>1. [id \in ids |-> a.entries[id].received_bytes] = [id \in ids |-> b.entries[id].received_bytes]
  OBVIOUS
<1> QED
  BY <1>1 DEF Table!BytesOf

\* An entry that is true to what it holds.
TrueEntry(e) ==
    /\ IsEntry(e)
    /\ e.count \in 2..MAX_FRAGMENTS /\ e.total_len \in 1..TABLE_SIZE
    /\ DOMAIN e.fragments \subseteq 0..(e.count - 1)
    /\ \A i \in DOMAIN e.fragments : e.fragments[i] \in Table!Payloads
    /\ e.received_bytes \in Nat /\ e.received_bytes <= e.total_len
    /\ e.received_bytes = Table!Total([i \in DOMAIN e.fragments |-> e.fragments[i].len])
    /\ e.age \in 0..TABLE_TIMEOUT

\* An entry that holds a fragment and misses one.
OpenEntry(e) == Cardinality(DOMAIN e.fragments) \in 1..(e.count - 1)

\* A table that is true to its entries and keeps its limits.
TrueTable(a) ==
    /\ DOMAIN a.entries \subseteq MessageIds /\ IsFiniteSet(DOMAIN a.entries)
    /\ \A id \in DOMAIN a.entries : TrueEntry(a.entries[id])
    /\ a.total_bytes \in Nat /\ a.total_bytes = Table!BytesOf(a, DOMAIN a.entries)
    /\ a.total_bytes <= MAX_TOTAL_BYTES
    /\ Cardinality(DOMAIN a.entries) <= MAX_ENTRIES

\* All entries but that of message `but` are open.
OpenBut(a, but) == \A id \in DOMAIN a.entries \ {but} : OpenEntry(a.entries[id])

OpenTable(a) == TrueTable(a) /\ \A id \in DOMAIN a.entries : OpenEntry(a.entries[id])

\* The numbers an entry keeps, and where its fragments can be.
LEMMA EntryNumbers ==
    ASSUME Table!ReassemblyConstants, NEW e, TrueEntry(e)
    PROVE  /\ e.received_bytes \in Nat /\ e.total_len \in Nat /\ e.count \in Nat
           /\ DOMAIN e.fragments \in SUBSET (0..(e.count - 1))
<1>1. MAX_FRAGMENTS \in Nat /\ TABLE_SIZE \in Nat
  BY DEF Table!ReassemblyConstants
<1>2. /\ e.received_bytes \in Nat /\ e.count \in 2..MAX_FRAGMENTS /\ e.total_len \in 1..TABLE_SIZE
      /\ DOMAIN e.fragments \subseteq 0..(e.count - 1)
  BY Zenon DEF TrueEntry
<1>3. e.total_len \in Nat
  BY <1>1, <1>2
<1>4. e.count \in Nat
  BY <1>1, <1>2
<1> QED
  BY <1>2, <1>3, <1>4

LEMMA TrueTableIsCountable ==
    ASSUME NEW a, TrueTable(a)
    PROVE  Countable(a)
BY DEF TrueTable, TrueEntry, Countable

\* Entries leave together with their bytes: the rest is a true table, and the
\* subtraction of remove does not underflow.
LEMMA RemoveIsTrue ==
    ASSUME MAX_ENTRIES \in Nat, MAX_TOTAL_BYTES \in Nat,
           NEW a, TrueTable(a), NEW ids, ids \subseteq DOMAIN a.entries, NEW c,
           c = Table!remove(a, ids)
    PROVE  /\ TrueTable(c)
           /\ DOMAIN c.entries = DOMAIN a.entries \ ids
           /\ \A id \in DOMAIN c.entries : c.entries[id] = a.entries[id]
           /\ c.total_bytes = a.total_bytes - Table!BytesOf(a, ids)
           /\ Table!BytesOf(a, ids) \in Nat
<1>1. /\ c.entries = [id \in DOMAIN a.entries \ ids |-> a.entries[id]]
      /\ c.total_bytes = a.total_bytes - Table!BytesOf(a, ids)
  BY DEF Table!remove
<1> DEFINE left == DOMAIN a.entries \ ids
<1>2. /\ DOMAIN c.entries = left
      /\ \A id \in DOMAIN c.entries : c.entries[id] = a.entries[id]
  BY <1>1
<1>3. left \cup ids = DOMAIN a.entries /\ left \cap ids = {} /\ left \subseteq DOMAIN a.entries
  OBVIOUS
<1> HIDE DEF left
<1>4. /\ Table!BytesOf(a, left \cup ids) = Table!BytesOf(a, left) + Table!BytesOf(a, ids)
      /\ Table!BytesOf(a, left) \in Nat /\ Table!BytesOf(a, ids) \in Nat
  BY <1>3, TrueTableIsCountable, BytesOfBoth
<1>5. Table!BytesOf(c, left) = Table!BytesOf(a, left)
  BY <1>2, BytesOfSame
<1>6. a.total_bytes \in Nat /\ a.total_bytes = Table!BytesOf(a, DOMAIN a.entries)
      /\ a.total_bytes <= MAX_TOTAL_BYTES
  BY DEF TrueTable
<1>7. /\ c.total_bytes \in Nat /\ c.total_bytes = Table!BytesOf(c, DOMAIN c.entries)
      /\ c.total_bytes <= MAX_TOTAL_BYTES
  <2>1. Table!BytesOf(c, DOMAIN c.entries) = Table!BytesOf(a, left)
    BY <1>2, <1>5
  <2>2. a.total_bytes = Table!BytesOf(a, left) + Table!BytesOf(a, ids)
    BY <1>3, <1>4, <1>6
  <2> QED
    BY <1>1, <1>4, <1>6, <2>1, <2>2
<1>8. IsFiniteSet(left) /\ Cardinality(left) <= MAX_ENTRIES
  <2>1. /\ IsFiniteSet(DOMAIN a.entries) /\ Cardinality(DOMAIN a.entries) <= MAX_ENTRIES
        /\ left \in SUBSET DOMAIN a.entries
    BY <1>3 DEF TrueTable
  <2>2. /\ IsFiniteSet(left) /\ Cardinality(left) <= Cardinality(DOMAIN a.entries)
    BY <2>1, FS_Subset
  <2>3. Cardinality(left) \in Nat /\ Cardinality(DOMAIN a.entries) \in Nat
    BY <2>1, <2>2, FS_CardinalityType
  <2> QED
    BY <2>1, <2>2, <2>3
<1>9. /\ DOMAIN c.entries \subseteq MessageIds
      /\ \A id \in DOMAIN c.entries : TrueEntry(c.entries[id])
  BY <1>2, <1>3 DEF TrueTable
<1>10. TrueTable(c)
  BY <1>2, <1>7, <1>8, <1>9 DEF TrueTable
<1> QED
  BY <1>1, <1>2, <1>4, <1>10 DEF left

\* Table c is table b with the entry of one message written, for the first time
\* or again, and `len` bytes added to both counters.
Written(c, b, id, entry, len) ==
    /\ id \in MessageIds /\ TrueEntry(entry) /\ len \in Nat
    /\ entry.received_bytes = Table!BytesOf(b, DOMAIN b.entries \cap {id}) + len
    /\ c.entries = Table!Put(b.entries, id, entry) /\ c.total_bytes = b.total_bytes + len
    /\ b.total_bytes + len <= MAX_TOTAL_BYTES
    /\ Cardinality(DOMAIN b.entries \cup {id}) <= MAX_ENTRIES

LEMMA WrittenIsTrue ==
    ASSUME MAX_ENTRIES \in Nat, MAX_TOTAL_BYTES \in Nat, NEW b, TrueTable(b),
           NEW c, NEW id, NEW entry, NEW len, Written(c, b, id, entry, len)
    PROVE  /\ TrueTable(c)
           /\ DOMAIN c.entries = DOMAIN b.entries \cup {id}
           /\ c.entries[id] = entry
           /\ \A i \in DOMAIN b.entries \ {id} : c.entries[i] = b.entries[i]
<1> USE DEF Written
<1>0. /\ DOMAIN b.entries \subseteq MessageIds /\ IsFiniteSet(DOMAIN b.entries)
      /\ \A i \in DOMAIN b.entries : TrueEntry(b.entries[i])
      /\ b.total_bytes \in Nat /\ b.total_bytes = Table!BytesOf(b, DOMAIN b.entries)
  BY DEF TrueTable
<1> DEFINE others == DOMAIN b.entries \ {id}
           own == DOMAIN b.entries \cap {id}
<1>1. /\ DOMAIN c.entries = DOMAIN b.entries \cup {id}
      /\ c.entries[id] = entry
      /\ \A i \in others : c.entries[i] = b.entries[i]
  BY DEF Table!Put
<1>2. /\ others \cup own = DOMAIN b.entries /\ others \cap own = {}
      /\ others \cup {id} = DOMAIN c.entries /\ others \cap {id} = {} /\ id \in DOMAIN c.entries
  BY <1>1
<1>3. \A i \in DOMAIN c.entries : TrueEntry(c.entries[i])
  BY <1>0, <1>1
<1>4. IsFiniteSet(DOMAIN c.entries) /\ DOMAIN c.entries \subseteq MessageIds
  BY <1>0, <1>1, FS_AddElement
<1>5. Countable(b) /\ Countable(c)
  BY <1>0, <1>3, <1>4 DEF Countable, TrueEntry
<1>6. /\ Table!BytesOf(b, DOMAIN b.entries) = Table!BytesOf(b, others) + Table!BytesOf(b, own)
      /\ Table!BytesOf(b, others) \in Nat /\ Table!BytesOf(b, own) \in Nat
  <2>1. others \subseteq DOMAIN b.entries /\ own \subseteq DOMAIN b.entries
    OBVIOUS
  <2> HIDE DEF others, own
  <2>2. /\ Table!BytesOf(b, others \cup own) = Table!BytesOf(b, others) + Table!BytesOf(b, own)
        /\ Table!BytesOf(b, others) \in Nat /\ Table!BytesOf(b, own) \in Nat
    BY <1>2, <1>5, <2>1, BytesOfBoth
  <2> QED
    BY <1>2, <2>2
<1>7. Table!BytesOf(c, DOMAIN c.entries) = Table!BytesOf(b, others) + entry.received_bytes
  <2>1. others \subseteq DOMAIN c.entries /\ {id} \subseteq DOMAIN c.entries
    BY <1>1
  <2> HIDE DEF others
  <2>2. Table!BytesOf(c, others \cup {id}) = Table!BytesOf(c, others) + Table!BytesOf(c, {id})
    BY <1>2, <1>5, <2>1, BytesOfBoth
  <2>3. Table!BytesOf(c, {id}) = entry.received_bytes
    BY <1>1, <1>2, <1>5, BytesOfOne
  <2>4. Table!BytesOf(c, others) = Table!BytesOf(b, others)
    BY <1>1, BytesOfSame
  <2> QED
    BY <1>2, <2>2, <2>3, <2>4
<1>8. entry.received_bytes = Table!BytesOf(b, own) + len
  OBVIOUS
<1> HIDE DEF others, own
<1>9. c.total_bytes = Table!BytesOf(c, DOMAIN c.entries) /\ c.total_bytes \in Nat
  BY <1>0, <1>6, <1>7, <1>8
<1>10. TrueTable(c)
  BY <1>1, <1>3, <1>4, <1>9 DEF TrueTable
<1> QED
  BY <1>1, <1>10 DEF others

\* A non-empty set of natural numbers has a least element.
LEMMA LeastNat ==
    ASSUME NEW S, S \subseteq Nat, S # {}
    PROVE  \E n \in S : \A m \in S : n <= m
<1>1. PICK n \in S : \A m \in S : ~(<<m, n>> \in OpToRel(<, Nat))
  BY NatLessThanWellFounded, WFMin
<1>2. \A m \in S : ~(m < n)
  BY <1>1 DEF OpToRel
<1>3. \A m \in S : n \in Nat /\ m \in Nat
  OBVIOUS
<1> QED
  BY <1>2, <1>3

\* What may be evicted for `len` more bytes, needed or not.
MakesRoom(b, id, len, gone) ==
    /\ gone \in SUBSET (DOMAIN b.entries \ {id})
    /\ Table!OldestFirst(b, gone, {id})
    /\ b.total_bytes - Table!BytesOf(b, gone) + len <= MAX_TOTAL_BYTES

\* A payload that fits the limit together with what its message holds always
\* finds room: evicting everything else is enough, and then an eviction that
\* takes as few as possible takes none too many.
LEMMA RoomIsFound ==
    ASSUME MAX_TOTAL_BYTES \in Nat, TABLE_TIMEOUT \in Nat,
           NEW b, TrueTable(b), NEW id \in DOMAIN b.entries,
           NEW len \in Nat, b.entries[id].received_bytes + len <= MAX_TOTAL_BYTES
    PROVE  Table!evict_until_fits(b, id, len) # {}
<1> DEFINE all == DOMAIN b.entries \ {id}
           sizes == {Cardinality(gone) : gone \in {g \in SUBSET all : MakesRoom(b, id, len, g)}}
<1>0. /\ Countable(b) /\ IsFiniteSet(all)
      /\ b.total_bytes \in Nat /\ b.total_bytes = Table!BytesOf(b, DOMAIN b.entries)
      /\ \A i \in DOMAIN b.entries : b.entries[i].age \in Nat
  <2>1. Countable(b)
    BY TrueTableIsCountable
  <2>2. IsFiniteSet(all)
    BY <2>1, FS_RemoveElement DEF Countable
  <2>3. \A i \in DOMAIN b.entries : b.entries[i].age \in Nat
    <3>1. \A i \in DOMAIN b.entries : b.entries[i].age \in 0..TABLE_TIMEOUT
      <4>1. \A i \in DOMAIN b.entries : TrueEntry(b.entries[i])
        BY DEF TrueTable
      <4> QED
        BY <4>1 DEF TrueEntry
    <3> QED
      BY <3>1
  <2> QED
    BY <2>1, <2>2, <2>3 DEF TrueTable
<1>1. MakesRoom(b, id, len, all)
  <2>1. Table!OldestFirst(b, all, {id})
    BY DEF Table!OldestFirst
  <2>2. all \cup {id} = DOMAIN b.entries /\ all \cap {id} = {} /\ all \subseteq DOMAIN b.entries
    OBVIOUS
  <2> HIDE DEF all
  <2>3. /\ Table!BytesOf(b, all \cup {id}) = Table!BytesOf(b, all) + Table!BytesOf(b, {id})
        /\ Table!BytesOf(b, all) \in Nat /\ Table!BytesOf(b, {id}) \in Nat
    BY <1>0, <2>2, BytesOfBoth
  <2>4. Table!BytesOf(b, {id}) = b.entries[id].received_bytes
    BY <1>0, BytesOfOne
  <2>5. b.total_bytes - Table!BytesOf(b, all) + len <= MAX_TOTAL_BYTES
    <3>1. b.total_bytes = Table!BytesOf(b, all) + b.entries[id].received_bytes
      BY <1>0, <2>2, <2>3, <2>4
    <3>2. b.total_bytes - Table!BytesOf(b, all) = b.entries[id].received_bytes
      BY <1>0, <2>3, <2>4, <3>1
    <3> QED
      BY <3>2
  <2> QED
    BY <2>1, <2>5 DEF MakesRoom, all
<1>2. ASSUME NEW g \in SUBSET all
      PROVE  IsFiniteSet(g) /\ Cardinality(g) \in Nat
  BY <1>0, FS_Subset, FS_CardinalityType
<1>3. sizes \subseteq Nat /\ sizes # {}
  BY <1>1, <1>2
<1>4. PICK n \in sizes : \A m \in sizes : n <= m
  BY <1>3, LeastNat
<1>5. PICK gone \in SUBSET all : MakesRoom(b, id, len, gone) /\ n = Cardinality(gone)
  BY <1>4
<1>6. ASSUME NEW g \in SUBSET all, MakesRoom(b, id, len, g)
      PROVE  Cardinality(gone) <= Cardinality(g)
  BY <1>4, <1>5, <1>6
<1> HIDE DEF sizes
<1>7. ASSUME gone # {}
      PROVE  \E last \in gone :
               /\ \A other \in gone : b.entries[last].age <= b.entries[other].age
               /\ b.total_bytes - Table!BytesOf(b, gone \ {last}) + len > MAX_TOTAL_BYTES
  <2> DEFINE ages == {b.entries[i].age : i \in gone}
  <2>1. ages \subseteq Nat /\ ages # {}
    BY <1>0, <1>7
  <2>2. PICK least \in ages : \A m \in ages : least <= m
    BY <2>1, LeastNat
  <2>3. PICK last \in gone : least = b.entries[last].age
    BY <2>2
  <2>4. \A other \in gone : b.entries[last].age <= b.entries[other].age
    BY <2>2, <2>3
  <2> HIDE DEF ages
  <2> DEFINE fewer == gone \ {last}
  <2>5. fewer \in SUBSET all /\ Cardinality(fewer) = Cardinality(gone) - 1
    BY <1>2, FS_RemoveElement
  <2>6. Table!OldestFirst(b, fewer, {id})
    <3>1. Table!OldestFirst(b, gone, {id})
      BY <1>5 DEF MakesRoom
    <3> SUFFICES ASSUME NEW i \in fewer, NEW other \in DOMAIN b.entries \ (fewer \cup {id})
                 PROVE  b.entries[i].age >= b.entries[other].age
      BY DEF Table!OldestFirst
    <3>2. CASE other = last
      BY <1>0, <2>4, <3>2
    <3>3. CASE other # last
      BY <3>1, <3>3 DEF Table!OldestFirst
    <3> QED
      BY <3>2, <3>3
  <2>7. ~MakesRoom(b, id, len, fewer)
    <3>1. Cardinality(gone) \in Nat
      BY <1>2
    <3> HIDE DEF fewer
    <3> QED
      BY <1>6, <2>5, <3>1
  <2>8. ~(b.total_bytes - Table!BytesOf(b, fewer) + len <= MAX_TOTAL_BYTES)
    BY <2>5, <2>6, <2>7 DEF MakesRoom
  <2>9. Table!BytesOf(b, fewer) \in Nat
    <3>1. fewer \cap {} = {} /\ fewer \subseteq DOMAIN b.entries /\ {} \subseteq DOMAIN b.entries
      OBVIOUS
    <3> HIDE DEF fewer
    <3> QED
      BY <1>0, <3>1, BytesOfBoth
  <2>10. b.total_bytes - Table!BytesOf(b, fewer) + len > MAX_TOTAL_BYTES
    BY <1>0, <2>8, <2>9
  <2> QED
    BY <2>4, <2>10
<1> QED
  BY <1>5, <1>7 DEF MakesRoom, Table!evict_until_fits

\* A fragment of a message in several parts, as push takes it to the table.
TrueFragment(f) ==
    /\ f.message_id \in MessageIds
    /\ f.count \in 2..MAX_FRAGMENTS /\ f.index \in 0..(f.count - 1)
    /\ f.total_len \in 1..TABLE_SIZE
    /\ f.payload \in Table!Payloads /\ f.payload.len \in Nat /\ f.payload.len <= f.total_len

\* An entry for the message of f that has a place for it.
HasPlaceFor(e, f) ==
    /\ e.count = f.count /\ e.total_len = f.total_len
    /\ f.index \notin DOMAIN e.fragments
    /\ e.received_bytes + f.payload.len <= e.total_len

\* A message of n fragments has n places.
LEMMA PlacesOfMessage ==
    ASSUME NEW n \in Nat
    PROVE  IsFiniteSet(0..(n - 1)) /\ Cardinality(0..(n - 1)) = n
<1>1. PICK m \in Int : m = n - 1
  OBVIOUS
<1>2. IsFiniteSet(0..m) /\ Cardinality(0..m) = IF 0 > m THEN 0 ELSE m - 0 + 1
  BY FS_Interval
<1> QED
  BY <1>1, <1>2

\* The new, empty entry of admit.
LEMMA FreshEntryIsTrue ==
    ASSUME Table!ReassemblyConstants, NEW f, TrueFragment(f), NEW e,
           e = [count |-> f.count, total_len |-> f.total_len, fragments |-> << >>,
                received_bytes |-> 0, age |-> 0]
    PROVE  /\ TrueEntry(e) /\ HasPlaceFor(e, f)
           /\ e.received_bytes = 0 /\ DOMAIN e.fragments = {}
<1>1. /\ IsEntry(e) /\ e.count = f.count /\ e.total_len = f.total_len
      /\ e.received_bytes = 0 /\ DOMAIN e.fragments = {} /\ e.age = 0
  BY DEF IsEntry
<1>2. Table!Total([i \in DOMAIN e.fragments |-> e.fragments[i].len]) = 0
  BY <1>1, TotalOfNone
<1>3. TABLE_TIMEOUT \in Nat
  BY DEF Table!ReassemblyConstants
<1>4. TrueEntry(e)
  BY <1>1, <1>2, <1>3 DEF TrueEntry, TrueFragment
<1>5. HasPlaceFor(e, f)
  BY <1>1 DEF HasPlaceFor, TrueFragment
<1> QED
  BY <1>1, <1>4, <1>5

\* The entry with the fragment in it counts its bytes too.
LEMMA EntryGrows ==
    ASSUME Table!ReassemblyConstants, NEW f, TrueFragment(f),
           NEW old, TrueEntry(old), HasPlaceFor(old, f), NEW e,
           e = [old EXCEPT !.fragments = Table!Put(@, f.index, f.payload),
                           !.received_bytes = @ + f.payload.len,
                           !.age = 0]
    PROVE  /\ TrueEntry(e) /\ e.count = old.count
           /\ e.received_bytes = old.received_bytes + f.payload.len
           /\ DOMAIN e.fragments = DOMAIN old.fragments \cup {f.index}
<1>0. /\ TABLE_TIMEOUT \in Nat /\ MAX_FRAGMENTS \in Nat /\ FRAGMENT_PLAINTEXT \in Nat
      /\ IsEntry(old) /\ old.received_bytes \in Nat
      /\ old.count \in 2..MAX_FRAGMENTS /\ old.total_len \in 1..TABLE_SIZE
      /\ DOMAIN old.fragments \subseteq 0..(old.count - 1)
      /\ \A i \in DOMAIN old.fragments : old.fragments[i] \in Table!Payloads
      /\ old.received_bytes = Table!Total([i \in DOMAIN old.fragments |-> old.fragments[i].len])
  BY DEF Table!ReassemblyConstants, TrueEntry
<1> DEFINE x == Table!Put(old.fragments, f.index, f.payload)
           y == old.received_bytes + f.payload.len
<1>1. e = [old EXCEPT !.fragments = x, !.received_bytes = y, !.age = 0]
  OBVIOUS
<1>2. /\ DOMAIN x = DOMAIN old.fragments \cup {f.index}
      /\ x[f.index] = f.payload
      /\ \A i \in DOMAIN old.fragments \ {f.index} : x[i] = old.fragments[i]
  BY DEF Table!Put
<1> HIDE DEF x, y
<1>3. e \in [count : {old.count}, total_len : {old.total_len}, fragments : {x},
             received_bytes : {y}, age : {0}]
  BY <1>0, <1>1 DEF IsEntry
<1>4. /\ e.count = old.count /\ e.total_len = old.total_len
      /\ e.fragments = x /\ e.received_bytes = y /\ e.age = 0
  BY <1>3
<1>5. IsEntry(e)
  BY <1>3, <1>4 DEF IsEntry
<1>6. \A p \in Table!Payloads : p.len \in Nat
  BY <1>0 DEF Table!Payloads
<1>7. y = Table!Total([i \in DOMAIN x |-> x[i].len])
  <2> DEFINE g == [i \in DOMAIN old.fragments |-> old.fragments[i].len]
             h == [i \in {f.index} |-> f.payload.len]
             k == [i \in DOMAIN x |-> x[i].len]
  <2>1. f.index \notin DOMAIN old.fragments /\ f.payload \in Table!Payloads
    BY DEF HasPlaceFor, TrueFragment
  <2>2. /\ DOMAIN k = DOMAIN g \cup DOMAIN h /\ DOMAIN g \cap DOMAIN h = {}
        /\ \A i \in DOMAIN g : g[i] = k[i]
        /\ \A i \in DOMAIN h : h[i] = k[i]
    BY <1>2, <2>1
  <2>3. \A i \in DOMAIN k : k[i] \in Nat
    BY <1>0, <1>2, <1>6, <2>1
  <2>4. IsFiniteSet(DOMAIN k)
    <3>1. DOMAIN old.fragments \in SUBSET (0..(old.count - 1)) /\ old.count - 1 \in Int
      BY <1>0
    <3>2. IsFiniteSet(0..(old.count - 1))
      BY <1>0, PlacesOfMessage, SMTT(60)
    <3>3. IsFiniteSet(DOMAIN old.fragments)
      BY <3>1, <3>2, FS_Subset
    <3> QED
      BY <1>2, <3>3, FS_AddElement
  <2>5. DOMAIN h = {f.index} /\ h[f.index] = f.payload.len
    OBVIOUS
  <2>6. Table!Total(g) = old.received_bytes
    BY <1>0
  <2> HIDE DEF g, h, k
  <2>7. Table!Total(k) = Table!Total(g) + Table!Total(h)
    BY <2>2, <2>3, <2>4, TotalOfBoth
  <2>8. Table!Total(h) = f.payload.len
    BY <1>6, <2>1, <2>5, TotalOfOne
  <2> QED
    BY <2>6, <2>7, <2>8 DEF y, k
<1>8. y \in Nat /\ y <= old.total_len
  BY <1>0 DEF y, HasPlaceFor, TrueFragment
<1>9. DOMAIN x \subseteq 0..(old.count - 1) /\ \A i \in DOMAIN x : x[i] \in Table!Payloads
  BY <1>0, <1>2 DEF HasPlaceFor, TrueFragment
<1>10. TrueEntry(e)
  BY <1>0, <1>4, <1>5, <1>7, <1>8, <1>9 DEF TrueEntry
<1> QED
  BY <1>2, <1>4, <1>10 DEF y

\* A full table loses an oldest entry before it takes a new message.
LEMMA AdmitIsTrue ==
    ASSUME Table!ReassemblyConstants, NEW a, OpenTable(a), NEW f, TrueFragment(f),
           f.message_id \notin DOMAIN a.entries, NEW b \in Table!admit(a, f)
    PROVE  /\ TrueTable(b) /\ OpenBut(b, f.message_id)
           /\ TrueEntry(b.entries[f.message_id]) /\ HasPlaceFor(b.entries[f.message_id], f)
           /\ b.entries[f.message_id].received_bytes = 0
           /\ DOMAIN b.entries[f.message_id].fragments = {}
           /\ \E gone \in SUBSET DOMAIN a.entries :
                /\ Table!OldestFirst(a, gone, {})
                /\ DOMAIN b.entries = (DOMAIN a.entries \ gone) \cup {f.message_id}
                /\ \A i \in DOMAIN a.entries \ gone : b.entries[i] = a.entries[i]
<1>0. /\ MAX_ENTRIES \in Nat \ {0} /\ MAX_TOTAL_BYTES \in Nat
      /\ TrueTable(a) /\ IsFiniteSet(DOMAIN a.entries)
      /\ Cardinality(DOMAIN a.entries) <= MAX_ENTRIES
      /\ \A id \in DOMAIN a.entries : OpenEntry(a.entries[id])
  BY DEF Table!ReassemblyConstants, OpenTable, TrueTable
<1> DEFINE id == f.message_id
           fresh == [count |-> f.count, total_len |-> f.total_len, fragments |-> << >>,
                     received_bytes |-> 0, age |-> 0]
<1>1. PICK gone \in SUBSET DOMAIN a.entries :
        /\ Table!OldestFirst(a, gone, {})
        /\ Table!Cardinality(gone)
             = IF Table!Cardinality(DOMAIN a.entries) >= MAX_ENTRIES THEN 1 ELSE 0
        /\ b = [Table!remove(a, gone) EXCEPT !.entries = Table!Put(@, id, fresh)]
  BY DEF Table!admit
<1> DEFINE left == Table!remove(a, gone)
<1>2. b.entries = Table!Put(left.entries, id, fresh) /\ b.total_bytes = left.total_bytes
  BY <1>1 DEF Table!remove
<1>3. /\ TrueTable(left) /\ DOMAIN left.entries = DOMAIN a.entries \ gone
      /\ \A i \in DOMAIN left.entries : left.entries[i] = a.entries[i]
  BY <1>0, RemoveIsTrue
<1>4. /\ TrueEntry(fresh) /\ HasPlaceFor(fresh, f)
      /\ fresh.received_bytes = 0 /\ DOMAIN fresh.fragments = {}
  BY FreshEntryIsTrue
<1> HIDE DEF left, fresh, id
<1>5. DOMAIN left.entries \cap {id} = {}
  BY <1>3 DEF id
<1>6. PICK none \in Nat : none = 0
  OBVIOUS
<1>7. Cardinality(DOMAIN left.entries \cup {id}) <= MAX_ENTRIES
  <2>1. /\ Cardinality(DOMAIN left.entries \cup {id}) = Cardinality(DOMAIN left.entries) + 1
    BY <1>3, <1>5, FS_AddElement DEF TrueTable
  <2>2. Cardinality(DOMAIN a.entries) \in Nat
    BY <1>0, FS_CardinalityType
  <2>3. Cardinality(gone) = IF Cardinality(DOMAIN a.entries) >= MAX_ENTRIES THEN 1 ELSE 0
    BY <1>1, TableCardinality
  <2>4. Cardinality(DOMAIN a.entries \ gone) = Cardinality(DOMAIN a.entries) - Cardinality(gone)
    <3>1. DOMAIN a.entries \cap gone = gone
      OBVIOUS
    <3>2. Cardinality(DOMAIN a.entries \ gone)
            = Cardinality(DOMAIN a.entries) - Cardinality(DOMAIN a.entries \cap gone)
      BY <1>0, FS_Difference
    <3> QED
      BY <3>1, <3>2
  <2> QED
    BY <1>0, <1>3, <2>1, <2>2, <2>3, <2>4
<1>8. /\ left.total_bytes \in Nat /\ left.total_bytes <= MAX_TOTAL_BYTES
      /\ b.total_bytes = left.total_bytes + none /\ left.total_bytes + none <= MAX_TOTAL_BYTES
      /\ fresh.received_bytes = Table!BytesOf(left, DOMAIN left.entries \cap {id}) + none
  <2>1. Table!BytesOf(left, DOMAIN left.entries \cap {id}) = 0
    BY <1>5, BytesOfNone
  <2>2. left.total_bytes \in Nat /\ left.total_bytes <= MAX_TOTAL_BYTES
    BY <1>3 DEF TrueTable
  <2> QED
    BY <1>2, <1>4, <1>6, <2>1, <2>2
<1>9. id \in MessageIds /\ MAX_ENTRIES \in Nat /\ MAX_TOTAL_BYTES \in Nat
  BY <1>0 DEF id, TrueFragment
<1>10. /\ TrueTable(b)
       /\ DOMAIN b.entries = DOMAIN left.entries \cup {id}
       /\ b.entries[id] = fresh
       /\ \A i \in DOMAIN left.entries \ {id} : b.entries[i] = left.entries[i]
  <2>1. Written(b, left, id, fresh, none)
    BY <1>2, <1>4, <1>7, <1>8, <1>9 DEF Written
  <2> QED
    BY <1>3, <1>9, <2>1, WrittenIsTrue
<1>11. OpenBut(b, id)
  BY <1>0, <1>3, <1>10 DEF OpenBut
<1>12. \A i \in DOMAIN a.entries \ gone : b.entries[i] = a.entries[i]
  BY <1>3, <1>5, <1>10
<1> QED
  BY <1>1, <1>3, <1>4, <1>10, <1>11, <1>12 DEF id

\* What is evicted for a stored fragment, and what is left.
EvictedFor(f, b, domain, gone) ==
    /\ gone \in SUBSET (DOMAIN b.entries \ {f.message_id})
    /\ Table!OldestFirst(b, gone, {f.message_id})
    /\ domain = DOMAIN b.entries \ gone

\* The table with room made and the fragment stored.
LEMMA StoredIsTrue ==
    ASSUME Table!ReassemblyConstants, NEW b, TrueTable(b), NEW f, TrueFragment(f),
           f.message_id \in DOMAIN b.entries, OpenBut(b, f.message_id),
           HasPlaceFor(b.entries[f.message_id], f),
           NEW gone \in Table!evict_until_fits(b, f.message_id, f.payload.len),
           NEW c, c = Table!stored(b, f, gone)
    PROVE  /\ TrueTable(c) /\ OpenBut(c, f.message_id)
           /\ EvictedFor(f, b, DOMAIN c.entries, gone)
           /\ f.message_id \in DOMAIN c.entries
           /\ DOMAIN c.entries[f.message_id].fragments
                = DOMAIN b.entries[f.message_id].fragments \cup {f.index}
<1>0. /\ MAX_ENTRIES \in Nat /\ MAX_TOTAL_BYTES \in Nat
      /\ \A i \in DOMAIN b.entries : TrueEntry(b.entries[i])
      /\ f.payload.len \in Nat /\ f.message_id \in MessageIds
  BY DEF Table!ReassemblyConstants, TrueTable, TrueFragment
<1> DEFINE id == f.message_id
           len == f.payload.len
           left == Table!remove(b, gone)
           entry == [b.entries[id] EXCEPT !.fragments = Table!Put(@, f.index, f.payload),
                                          !.received_bytes = @ + f.payload.len,
                                          !.age = 0]
<1>1. /\ gone \in SUBSET (DOMAIN b.entries \ {id})
      /\ Table!OldestFirst(b, gone, {id})
      /\ b.total_bytes - Table!BytesOf(b, gone) + len <= MAX_TOTAL_BYTES
  BY DEF Table!evict_until_fits
<1>2. /\ c.entries = Table!Put(left.entries, id, entry)
      /\ c.total_bytes = left.total_bytes + len
  BY DEF Table!stored
<1>3. /\ TrueEntry(entry) /\ entry.count = b.entries[id].count
      /\ entry.received_bytes = b.entries[id].received_bytes + len
      /\ DOMAIN entry.fragments = DOMAIN b.entries[id].fragments \cup {f.index}
  BY <1>0, EntryGrows
<1>4. /\ TrueTable(left) /\ DOMAIN left.entries = DOMAIN b.entries \ gone
      /\ \A i \in DOMAIN left.entries : left.entries[i] = b.entries[i]
      /\ left.total_bytes = b.total_bytes - Table!BytesOf(b, gone)
  <2>1. gone \subseteq DOMAIN b.entries
    BY <1>1
  <2> QED
    BY <1>0, <2>1, RemoveIsTrue
<1> HIDE DEF left, entry
<1>5. id \in DOMAIN left.entries /\ left.entries[id] = b.entries[id]
  BY <1>1, <1>4
<1>6. Table!BytesOf(left, DOMAIN left.entries \cap {id}) = b.entries[id].received_bytes
  <2>1. DOMAIN left.entries \cap {id} = {id}
    BY <1>5
  <2>2. Countable(left)
    BY <1>4, TrueTableIsCountable
  <2>3. Table!BytesOf(left, {id}) = left.entries[id].received_bytes
    BY <1>5, <2>2, BytesOfOne
  <2> QED
    BY <1>5, <2>1, <2>3
<1>7. Cardinality(DOMAIN left.entries \cup {id}) <= MAX_ENTRIES
  <2>1. DOMAIN left.entries \cup {id} = DOMAIN left.entries
    BY <1>5
  <2> QED
    BY <1>4, <2>1 DEF TrueTable
<1>8. Written(c, left, id, entry, len)
  BY <1>0, <1>1, <1>2, <1>3, <1>4, <1>6, <1>7 DEF Written
<1>9. /\ TrueTable(c)
      /\ DOMAIN c.entries = DOMAIN left.entries \cup {id}
      /\ c.entries[id] = entry
      /\ \A i \in DOMAIN left.entries \ {id} : c.entries[i] = left.entries[i]
  BY <1>0, <1>4, <1>8, WrittenIsTrue
<1>10. DOMAIN c.entries = DOMAIN b.entries \ gone
  BY <1>4, <1>5, <1>9
<1>11. OpenBut(c, id)
  BY <1>4, <1>9 DEF OpenBut
<1> QED
  BY <1>1, <1>3, <1>5, <1>9, <1>10, <1>11 DEF EvictedFor

\* What a result of push that leaves the message incomplete did to table b.
PartialOf(r, b, f) ==
    r.kind = "partial" =>
        /\ f.message_id \in DOMAIN r.acc.entries
        /\ DOMAIN r.acc.entries[f.message_id].fragments
             = DOMAIN b.entries[f.message_id].fragments \cup {f.index}
        /\ \E gone : EvictedFor(f, b, DOMAIN r.acc.entries, gone)

\* The tail of push: room is found, and the table is left with open entries only.
LEMMA StoreIsOrderly ==
    ASSUME Table!ReassemblyConstants, NEW b, TrueTable(b), NEW f, TrueFragment(f),
           f.message_id \in DOMAIN b.entries, OpenBut(b, f.message_id),
           HasPlaceFor(b.entries[f.message_id], f),
           b.entries[f.message_id].received_bytes + f.payload.len <= MAX_TOTAL_BYTES,
           NEW r \in Table!store(b, f)
    PROVE  /\ OpenTable(r.acc) /\ PartialOf(r, b, f)
           /\ r.kind \in {"partial", "complete", "wrong_length"}
<1> DEFINE id == f.message_id
<1>0. /\ MAX_ENTRIES \in Nat /\ MAX_TOTAL_BYTES \in Nat /\ TABLE_TIMEOUT \in Nat
      /\ f.payload.len \in Nat
  BY DEF Table!ReassemblyConstants, TrueFragment
<1>1. Table!evict_until_fits(b, id, f.payload.len) # {}
  BY <1>0, RoomIsFound
<1>2. PICK gone \in Table!evict_until_fits(b, id, f.payload.len) :
        r = Table!settled(Table!stored(b, f, gone), id)
  BY <1>1 DEF Table!store
<1> DEFINE c == Table!stored(b, f, gone)
           e == c.entries[id]
           d == Table!remove(c, {id})
<1>3. /\ TrueTable(c) /\ OpenBut(c, id) /\ EvictedFor(f, b, DOMAIN c.entries, gone)
      /\ id \in DOMAIN c.entries
      /\ DOMAIN e.fragments = DOMAIN b.entries[id].fragments \cup {f.index}
  BY StoredIsTrue
<1>4. r = IF Cardinality(DOMAIN e.fragments) # e.count THEN Table!Result(c, "partial", << >>)
          ELSE IF e.received_bytes = e.total_len THEN Table!Result(d, "complete", e.fragments)
          ELSE Table!Result(d, "wrong_length", << >>)
  BY <1>2, TableCardinality DEF Table!settled
<1> HIDE DEF c
<1>5. CASE Cardinality(DOMAIN e.fragments) # e.count
  <2>1. r.acc = c /\ r.kind = "partial"
    BY <1>4, <1>5 DEF Table!Result
  <2>2. OpenEntry(e)
    <3>1. e.count \in Nat /\ DOMAIN e.fragments \in SUBSET (0..(e.count - 1))
      <4>1. TrueEntry(e)
        BY <1>3 DEF TrueTable
      <4> HIDE DEF e
      <4> QED
        BY <4>1, EntryNumbers
    <3>2. IsFiniteSet(0..(e.count - 1)) /\ Cardinality(0..(e.count - 1)) = e.count
      BY <3>1, PlacesOfMessage
    <3>3. IsFiniteSet(DOMAIN e.fragments) /\ Cardinality(DOMAIN e.fragments) <= e.count
      BY <3>1, <3>2, FS_Subset
    <3>4. Cardinality(DOMAIN e.fragments) \in Nat /\ Cardinality(DOMAIN e.fragments) # 0
      BY <1>3, <3>3, FS_CardinalityType, FS_EmptySet
    <3> HIDE DEF e
    <3> QED
      BY <1>5, <3>1, <3>3, <3>4 DEF OpenEntry
  <2>3. OpenTable(c)
    BY <1>3, <2>2 DEF OpenTable, OpenBut
  <2> QED
    BY <1>3, <2>1, <2>3 DEF PartialOf
<1>6. CASE Cardinality(DOMAIN e.fragments) = e.count
  <2>1. r.acc = d /\ r.kind \in {"complete", "wrong_length"}
    BY <1>4, <1>6 DEF Table!Result
  <2>2. /\ TrueTable(d) /\ DOMAIN d.entries = DOMAIN c.entries \ {id}
        /\ \A i \in DOMAIN d.entries : d.entries[i] = c.entries[i]
    <3>1. {id} \subseteq DOMAIN c.entries
      BY <1>3
    <3> QED
      BY <1>0, <1>3, <3>1, RemoveIsTrue
  <2>3. OpenTable(d)
    BY <1>3, <2>2 DEF OpenTable, OpenBut
  <2> QED
    BY <2>1, <2>3 DEF PartialOf
<1> QED
  BY <1>5, <1>6

\* The middle of push: a fragment that has no place in the entry leaves the
\* table alone, and one that has is stored.
LEMMA MergeIsOrderly ==
    ASSUME Table!ReassemblyConstants, NEW b, TrueTable(b), NEW f, TrueFragment(f),
           f.message_id \in DOMAIN b.entries, OpenBut(b, f.message_id),
           NEW r \in Table!merge(b, f)
    PROVE  \/ /\ r.acc = b /\ r.kind \in {"conflict", "duplicate", "too_long", "too_large"}
              /\ ~ /\ HasPlaceFor(b.entries[f.message_id], f)
                   /\ b.entries[f.message_id].received_bytes + f.payload.len <= MAX_TOTAL_BYTES
           \/ /\ OpenTable(r.acc) /\ PartialOf(r, b, f)
              /\ r.kind \in {"partial", "complete", "wrong_length"}
<1> DEFINE e == b.entries[f.message_id]
           bytes == e.received_bytes + f.payload.len
<1>0. /\ bytes \in Nat /\ e.total_len \in Nat /\ MAX_TOTAL_BYTES \in Nat
  <2>1. TrueEntry(e)
    BY DEF TrueTable
  <2> HIDE DEF e
  <2>2. e.received_bytes \in Nat /\ e.total_len \in Nat
    BY <2>1, EntryNumbers
  <2>3. f.payload.len \in Nat
    BY DEF TrueFragment
  <2>4. MAX_TOTAL_BYTES \in Nat
    BY DEF Table!ReassemblyConstants
  <2>5. bytes \in Nat
    BY <2>2, <2>3
  <2> QED
    BY <2>2, <2>4, <2>5
<1>1. \/ /\ \E k \in {"conflict", "duplicate", "too_long", "too_large"} :
              r = Table!Result(b, k, << >>)
         /\ \/ e.count # f.count \/ e.total_len # f.total_len
            \/ f.index \in DOMAIN e.fragments
            \/ bytes > e.total_len
            \/ bytes > MAX_TOTAL_BYTES
      \/ /\ e.count = f.count /\ e.total_len = f.total_len /\ f.index \notin DOMAIN e.fragments
         /\ ~(bytes > e.total_len) /\ ~(bytes > MAX_TOTAL_BYTES)
         /\ r \in Table!store(b, f)
  BY DEF Table!merge
<1>2. CASE /\ \E k \in {"conflict", "duplicate", "too_long", "too_large"} :
                r = Table!Result(b, k, << >>)
           /\ \/ e.count # f.count \/ e.total_len # f.total_len
              \/ f.index \in DOMAIN e.fragments
              \/ bytes > e.total_len
              \/ bytes > MAX_TOTAL_BYTES
  <2>1. r.acc = b /\ r.kind \in {"conflict", "duplicate", "too_long", "too_large"}
    BY <1>2 DEF Table!Result
  <2> HIDE DEF e
  <2>2. ~(HasPlaceFor(e, f) /\ bytes <= MAX_TOTAL_BYTES)
    BY <1>0, <1>2 DEF HasPlaceFor
  <2> QED
    BY <2>1, <2>2 DEF e
<1>3. CASE /\ e.count = f.count /\ e.total_len = f.total_len /\ f.index \notin DOMAIN e.fragments
           /\ ~(bytes > e.total_len) /\ ~(bytes > MAX_TOTAL_BYTES)
           /\ r \in Table!store(b, f)
  <2>1. HasPlaceFor(e, f) /\ bytes <= MAX_TOTAL_BYTES
    BY <1>0, <1>3 DEF HasPlaceFor
  <2> QED
    BY <1>3, <2>1, StoreIsOrderly
<1> QED
  BY <1>1, <1>2, <1>3

\* Nobody loses buffered fragments whose time is not up.
NothingLost(c, a) ==
    \A id \in DOMAIN a.entries :
        a.entries[id].age < TABLE_TIMEOUT =>
            id \in DOMAIN c.entries /\ c.entries[id] = a.entries[id]

\* What push did to the table when its message is still incomplete.
OldestGone(c, a, id) ==
    LET others == {i \in DOMAIN a.entries : i # id /\ a.entries[i].age < TABLE_TIMEOUT}
        kept == others \cap DOMAIN c.entries
        alive == id \in DOMAIN a.entries /\ a.entries[id].age < TABLE_TIMEOUT
    IN /\ id \in DOMAIN c.entries
       /\ alive => DOMAIN a.entries[id].fragments \subseteq DOMAIN c.entries[id].fragments
       /\ ~alive => Cardinality(DOMAIN c.entries[id].fragments) = 1
       /\ \A i \in others \ kept, j \in kept : a.entries[i].age >= a.entries[j].age

Failures == {"invalid", "duplicate", "conflict", "too_long", "too_large"}

PushIsOrderly(r, a, f) ==
    /\ OpenTable(r.acc)
    /\ r.kind \in Failures \cup {"partial", "complete", "wrong_length"}
    /\ r.kind \in Failures => NothingLost(r.acc, a)
    /\ r.kind = "partial" => OldestGone(r.acc, a, f.message_id)

\* Expiry takes exactly the entries whose time is up.
LEMMA CleanupIsOrderly ==
    ASSUME Table!ReassemblyConstants, NEW a, OpenTable(a), NEW c, c = Table!cleanup_expired(a)
    PROVE  /\ OpenTable(c) /\ NothingLost(c, a)
           /\ \A id \in DOMAIN c.entries :
                /\ id \in DOMAIN a.entries /\ a.entries[id].age < TABLE_TIMEOUT
                /\ c.entries[id] = a.entries[id]
<1> DEFINE gone == {id \in DOMAIN a.entries : a.entries[id].age >= TABLE_TIMEOUT}
<1>0. /\ MAX_ENTRIES \in Nat /\ MAX_TOTAL_BYTES \in Nat /\ TABLE_TIMEOUT \in Nat
      /\ TrueTable(a)
  BY DEF Table!ReassemblyConstants, OpenTable
<1>1. c = Table!remove(a, gone) /\ gone \subseteq DOMAIN a.entries
  BY DEF Table!cleanup_expired
<1>2. \A id \in DOMAIN a.entries : a.entries[id].age \in Nat
  <2>1. \A id \in DOMAIN a.entries : TrueEntry(a.entries[id])
    BY <1>0 DEF TrueTable
  <2>2. \A id \in DOMAIN a.entries : a.entries[id].age \in 0..TABLE_TIMEOUT
    BY <2>1 DEF TrueEntry
  <2> QED
    BY <1>0, <2>2
<1>3. \A id \in DOMAIN a.entries : id \in gone <=> ~(a.entries[id].age < TABLE_TIMEOUT)
  BY <1>0, <1>2
<1> HIDE DEF gone
<1>4. /\ TrueTable(c) /\ DOMAIN c.entries = DOMAIN a.entries \ gone
      /\ \A id \in DOMAIN c.entries : c.entries[id] = a.entries[id]
  BY <1>0, <1>1, RemoveIsTrue
<1>5. OpenTable(c)
  BY <1>4 DEF OpenTable
<1>6. NothingLost(c, a)
  BY <1>3, <1>4 DEF NothingLost
<1> QED
  BY <1>3, <1>4, <1>5, <1>6

\* push, on every path: the table stays true and within its limits, a failure
\* costs nobody anything, and what had to go was the oldest (reassembly.rs push).
LEMMA PushKeepsOrder ==
    ASSUME Table!ReassemblyConstants, NEW a, OpenTable(a), NEW f \in Table!DecodedFragments,
           NEW r \in Table!push(a, f)
    PROVE  PushIsOrderly(r, a, f)
<1> DEFINE live == Table!cleanup_expired(a)
           id == f.message_id
<1>0. /\ OpenTable(live) /\ NothingLost(live, a)
      /\ \A i \in DOMAIN live.entries :
           /\ i \in DOMAIN a.entries /\ a.entries[i].age < TABLE_TIMEOUT
           /\ live.entries[i] = a.entries[i]
  BY CleanupIsOrderly
<1>1. TrueTable(live) /\ OpenBut(live, id)
  BY <1>0 DEF OpenTable, OpenBut
<1>2. \/ r = Table!Result(a, "invalid", << >>)
      \/ \E m : r = Table!Result(a, "complete", m)
      \/ /\ Table!validate_fragment(f) /\ f.count # 1
         /\ \/ id \in DOMAIN live.entries /\ r \in Table!merge(live, f)
            \/ r = Table!Result(live, "too_large", << >>)
            \/ /\ id \notin DOMAIN live.entries /\ ~(f.payload.len > MAX_TOTAL_BYTES)
               /\ \E b \in Table!admit(live, f) : r \in Table!merge(b, f)
  BY DEF Table!push
<1> HIDE DEF live
<1>3. CASE r = Table!Result(a, "invalid", << >>)
  <2>1. r.acc = a /\ r.kind = "invalid"
    BY <1>3 DEF Table!Result
  <2> QED
    BY <2>1 DEF PushIsOrderly, NothingLost, Failures
<1>4. CASE \E m : r = Table!Result(a, "complete", m)
  <2>1. r.acc = a /\ r.kind = "complete"
    BY <1>4 DEF Table!Result
  <2> QED
    BY <2>1 DEF PushIsOrderly, Failures
<1>5. CASE r = Table!Result(live, "too_large", << >>)
  <2>1. r.acc = live /\ r.kind = "too_large"
    BY <1>5 DEF Table!Result
  <2> QED
    BY <1>0, <2>1 DEF PushIsOrderly, Failures
<1>6. ASSUME Table!validate_fragment(f), f.count # 1
      PROVE  TrueFragment(f)
  <2>1. /\ f \in Table!Fragments /\ Table!valid_header(f) /\ f.payload.len <= f.total_len
    BY <1>6 DEF Table!DecodedFragments, Table!validate_fragment
  <2>2. /\ MAX_FRAGMENTS \in Nat /\ TABLE_SIZE \in Nat /\ FRAGMENT_PLAINTEXT \in Nat
    BY DEF Table!ReassemblyConstants
  <2>3. /\ f.message_id \in MessageIds /\ f.index \in 0..(MAX_FRAGMENTS - 1)
        /\ f.count \in 1..MAX_FRAGMENTS /\ f.total_len \in 0..TABLE_SIZE
        /\ f.payload \in Table!Payloads
    BY <2>1 DEF Table!Fragments
  <2>4. f.payload.len \in Nat
    BY <2>2, <2>3 DEF Table!Payloads
  <2>5. f.index < f.count /\ (f.total_len = 0 => f.count = 1)
    BY <2>1 DEF Table!valid_header
  <2> QED
    BY <1>6, <2>1, <2>2, <2>3, <2>4, <2>5 DEF TrueFragment
<1>7. ASSUME TrueFragment(f), id \in DOMAIN live.entries, r \in Table!merge(live, f)
      PROVE  PushIsOrderly(r, a, f)
  <2>1. CASE r.acc = live /\ r.kind \in {"conflict", "duplicate", "too_long", "too_large"}
    BY <1>0, <2>1 DEF PushIsOrderly, Failures
  <2>2. CASE /\ OpenTable(r.acc) /\ PartialOf(r, live, f)
             /\ r.kind \in {"partial", "complete", "wrong_length"}
    <3>1. ASSUME r.kind = "partial" PROVE OldestGone(r.acc, a, id)
      <4>1. /\ id \in DOMAIN r.acc.entries
            /\ DOMAIN r.acc.entries[id].fragments
                 = DOMAIN live.entries[id].fragments \cup {f.index}
        BY <2>2, <3>1 DEF PartialOf
      <4>2. PICK gone : EvictedFor(f, live, DOMAIN r.acc.entries, gone)
        BY <2>2, <3>1 DEF PartialOf
      <4>3. \A i \in gone, j \in DOMAIN r.acc.entries \ {id} :
               live.entries[i].age >= live.entries[j].age
        BY <4>2 DEF EvictedFor, Table!OldestFirst
      <4>4. \A i \in DOMAIN a.entries :
               a.entries[i].age < TABLE_TIMEOUT => i \in DOMAIN live.entries
        BY <1>0 DEF NothingLost
      <4> QED
        BY <1>0, <1>7, <4>1, <4>2, <4>3, <4>4 DEF OldestGone, EvictedFor
    <3> QED
      BY <2>2, <3>1 DEF PushIsOrderly, Failures
  <2> QED
    BY <1>1, <1>7, <2>1, <2>2, MergeIsOrderly
<1>8. ASSUME TrueFragment(f), id \notin DOMAIN live.entries, ~(f.payload.len > MAX_TOTAL_BYTES),
             NEW b \in Table!admit(live, f), r \in Table!merge(b, f)
      PROVE  PushIsOrderly(r, a, f)
  <2>1. /\ TrueTable(b) /\ OpenBut(b, id)
        /\ TrueEntry(b.entries[id]) /\ HasPlaceFor(b.entries[id], f)
        /\ b.entries[id].received_bytes = 0 /\ DOMAIN b.entries[id].fragments = {}
    BY <1>0, <1>8, AdmitIsTrue
  <2>2. PICK first \in SUBSET DOMAIN live.entries :
          /\ Table!OldestFirst(live, first, {})
          /\ DOMAIN b.entries = (DOMAIN live.entries \ first) \cup {id}
          /\ \A i \in DOMAIN live.entries \ first : b.entries[i] = live.entries[i]
    BY <1>0, <1>8, AdmitIsTrue
  <2>3. b.entries[id].received_bytes + f.payload.len <= MAX_TOTAL_BYTES
    BY <1>8, <2>1 DEF TrueFragment, Table!ReassemblyConstants
  <2>4. /\ OpenTable(r.acc) /\ PartialOf(r, b, f)
        /\ r.kind \in {"partial", "complete", "wrong_length"}
    BY <1>8, <2>1, <2>2, <2>3, MergeIsOrderly
  <2>5. ASSUME r.kind = "partial" PROVE OldestGone(r.acc, a, id)
    <3>1. id \in DOMAIN r.acc.entries /\ DOMAIN r.acc.entries[id].fragments = {f.index}
      BY <2>1, <2>4, <2>5 DEF PartialOf
    <3>2. Cardinality(DOMAIN r.acc.entries[id].fragments) = 1
      BY <3>1, FS_Singleton, Zenon
    <3>3. PICK gone : EvictedFor(f, b, DOMAIN r.acc.entries, gone)
      BY <2>4, <2>5 DEF PartialOf
    <3>4. \A i \in gone, j \in DOMAIN r.acc.entries \ {id} : b.entries[i].age >= b.entries[j].age
      BY <3>3 DEF EvictedFor, Table!OldestFirst
    <3>5. \A i \in first, j \in DOMAIN live.entries \ first :
             live.entries[i].age >= live.entries[j].age
      BY <2>2 DEF Table!OldestFirst
    <3>6. \A i \in DOMAIN a.entries :
             a.entries[i].age < TABLE_TIMEOUT => i \in DOMAIN live.entries
      BY <1>0 DEF NothingLost
    <3>7. ~(id \in DOMAIN a.entries /\ a.entries[id].age < TABLE_TIMEOUT)
      BY <1>8, <3>6
    <3>8. ASSUME NEW i \in DOMAIN live.entries, i \notin DOMAIN r.acc.entries,
                 NEW j \in DOMAIN live.entries \cap DOMAIN r.acc.entries
          PROVE  live.entries[i].age >= live.entries[j].age
      <4>1. i # id /\ j # id /\ j \in DOMAIN live.entries \ first
        BY <1>8, <2>2, <3>3, <3>8 DEF EvictedFor
      <4>2. i \in first \/ (i \notin first /\ i \in gone)
        BY <2>2, <3>3, <3>8 DEF EvictedFor
      <4>3. CASE i \in first
        BY <3>5, <4>1, <4>3
      <4>4. CASE i \notin first /\ i \in gone
        BY <2>2, <3>4, <4>1, <4>4
      <4> QED
        BY <4>2, <4>3, <4>4
    <3> QED
      BY <1>0, <3>1, <3>2, <3>6, <3>7, <3>8 DEF OldestGone
  <2> QED
    BY <2>4, <2>5 DEF PushIsOrderly, Failures
<1> QED
  BY <1>2, <1>3, <1>4, <1>5, <1>6, <1>7, <1>8

\* An entry that is one tick older.
LEMMA AgedEntryIsTrue ==
    ASSUME Table!ReassemblyConstants, NEW old, TrueEntry(old), NEW e,
           e = [old EXCEPT !.age = IF @ < TABLE_TIMEOUT THEN @ + 1 ELSE @]
    PROVE  TrueEntry(e) /\ e.fragments = old.fragments /\ e.count = old.count
           /\ e.received_bytes = old.received_bytes
<1> DEFINE age == IF old.age < TABLE_TIMEOUT THEN old.age + 1 ELSE old.age
<1>0. e = [old EXCEPT !.age = age] /\ IsEntry(old)
  BY DEF TrueEntry
<1>1. age \in 0..TABLE_TIMEOUT
  <2>1. old.age \in 0..TABLE_TIMEOUT /\ TABLE_TIMEOUT \in Nat
    BY DEF TrueEntry, Table!ReassemblyConstants
  <2> QED
    BY <2>1
<1> HIDE DEF age
<1>2. e \in [count : {old.count}, total_len : {old.total_len}, fragments : {old.fragments},
             received_bytes : {old.received_bytes}, age : {age}]
  BY <1>0 DEF IsEntry
<1>3. /\ e.count = old.count /\ e.total_len = old.total_len /\ e.fragments = old.fragments
      /\ e.received_bytes = old.received_bytes /\ e.age = age
  BY <1>2
<1>4. IsEntry(e)
  BY <1>2, <1>3 DEF IsEntry
<1> QED
  BY <1>1, <1>3, <1>4 DEF TrueEntry

LEMMA AgedIsTrue ==
    ASSUME Table!ReassemblyConstants, NEW a, OpenTable(a), NEW c, c = Table!aged(a)
    PROVE  OpenTable(c)
<1>0. /\ TrueTable(a) /\ \A id \in DOMAIN a.entries : OpenEntry(a.entries[id])
      /\ \A id \in DOMAIN a.entries : TrueEntry(a.entries[id])
  BY DEF OpenTable, TrueTable
<1>1. /\ DOMAIN c.entries = DOMAIN a.entries /\ c.total_bytes = a.total_bytes
      /\ \A id \in DOMAIN c.entries :
           c.entries[id] = [a.entries[id] EXCEPT !.age = IF @ < TABLE_TIMEOUT THEN @ + 1 ELSE @]
  BY DEF Table!aged
<1>2. ASSUME NEW id \in DOMAIN c.entries
      PROVE  /\ TrueEntry(c.entries[id])
             /\ c.entries[id].fragments = a.entries[id].fragments
             /\ c.entries[id].count = a.entries[id].count
             /\ c.entries[id].received_bytes = a.entries[id].received_bytes
  BY <1>0, <1>1, AgedEntryIsTrue
<1>3. Table!BytesOf(c, DOMAIN c.entries) = Table!BytesOf(a, DOMAIN c.entries)
  BY <1>2, BytesOfSame
<1>4. TrueTable(c)
  BY <1>0, <1>1, <1>2, <1>3 DEF TrueTable
<1>5. \A id \in DOMAIN c.entries : OpenEntry(c.entries[id])
  BY <1>0, <1>1, <1>2 DEF OpenEntry
<1> QED
  BY <1>4, <1>5 DEF OpenTable

\* The inductive invariant of the table.
TableInv ==
    /\ OpenTable(reassembly_acc)
    /\ \/ outcome \in [kind : Table!Kinds \ {"none", "no_room"}, message_id : MessageIds]
       \/ outcome = Table!Quiet

LEMMA TableStarts ==
    ASSUME Table!ReassemblyConstants, Table!Init
    PROVE  TableInv
<1>1. reassembly_acc.entries = << >> /\ reassembly_acc.total_bytes = 0 /\ outcome = Table!Quiet
  BY DEF Table!Init, Table!new
<1>2. DOMAIN reassembly_acc.entries = {}
  BY <1>1
<1>3. Table!BytesOf(reassembly_acc, {}) = 0
  BY BytesOfNone
<1>4. TrueTable(reassembly_acc)
  BY <1>1, <1>2, <1>3, FS_EmptySet DEF TrueTable, Table!ReassemblyConstants
<1> QED
  BY <1>1, <1>2, <1>4 DEF TableInv, OpenTable

\* What a push did, seen from the state it left.
LEMMA PushStep ==
    ASSUME Table!ReassemblyConstants, TableInv, NEW f \in Table!DecodedFragments, Table!Push(f)
    PROVE  /\ TableInv'
           /\ outcome'.message_id = f.message_id
           /\ outcome'.kind \in Failures => NothingLost(reassembly_acc', reassembly_acc)
           /\ outcome'.kind = "partial" => OldestGone(reassembly_acc', reassembly_acc, f.message_id)
<1>1. PICK r \in Table!push(reassembly_acc, f) :
        /\ reassembly_acc' = r.acc
        /\ outcome' = [kind |-> r.kind, message_id |-> f.message_id]
  BY DEF Table!Push
<1>2. PushIsOrderly(r, reassembly_acc, f)
  BY PushKeepsOrder DEF TableInv
<1>3. outcome'.kind = r.kind /\ outcome'.message_id = f.message_id
  BY <1>1
<1>4. OpenTable(reassembly_acc')
  BY <1>1, <1>2 DEF PushIsOrderly
<1>5. outcome' \in [kind : Table!Kinds \ {"none", "no_room"}, message_id : MessageIds]
  BY <1>1, <1>2 DEF PushIsOrderly, Failures, Table!Kinds, Table!DecodedFragments, Table!Fragments
<1>6. TableInv'
  BY <1>4, <1>5 DEF TableInv, OpenTable, TrueTable, TrueEntry, OpenEntry, IsEntry
<1> QED
  BY <1>1, <1>2, <1>3, <1>6 DEF PushIsOrderly

LEMMA TableStep ==
    ASSUME Table!ReassemblyConstants, TableInv, [Table!Next]_(Table!vars)
    PROVE  TableInv'
<1>1. CASE Table!Tick
  BY <1>1, AgedIsTrue DEF Table!Tick, TableInv
<1>2. CASE Table!Cleanup
  BY <1>2, CleanupIsOrderly DEF Table!Cleanup, TableInv
<1>3. ASSUME NEW f \in Table!DecodedFragments, Table!Push(f) PROVE TableInv'
  BY <1>3, PushStep
<1>4. CASE UNCHANGED Table!vars
  BY <1>4 DEF Table!vars, TableInv
<1> QED
  BY <1>1, <1>2, <1>3, <1>4 DEF Table!Next

LEMMA TableInvIsEnough ==
    ASSUME Table!ReassemblyConstants, TableInv
    PROVE  TableIsTrue
<1> DEFINE a == reassembly_acc
<1>0. /\ TrueTable(a) /\ \A id \in DOMAIN a.entries : OpenEntry(a.entries[id])
      /\ \A id \in DOMAIN a.entries : TrueEntry(a.entries[id])
  BY DEF TableInv, OpenTable, TrueTable
<1>1. Table!TypeOK
  <2>1. outcome \in [kind : Table!Kinds, message_id : MessageIds] \cup {Table!Quiet}
    BY DEF TableInv
  <2>2. DOMAIN a.entries \subseteq MessageIds /\ a.total_bytes \in Int
    BY <1>0 DEF TrueTable
  <2> QED
    BY <1>0, <2>1, <2>2 DEF Table!TypeOK, TrueEntry
<1>2. Table!ByteAccounting
  BY <1>0 DEF Table!ByteAccounting, TrueTable, TrueEntry
<1>3. Table!WithinLimits
  BY <1>0, TableCardinality DEF Table!WithinLimits, TrueTable
<1>4. Table!EntriesAreUseful
  BY <1>0, TableCardinality DEF Table!EntriesAreUseful, TrueEntry, OpenEntry
<1>5. Table!AlwaysRoom
  BY DEF TableInv, Table!AlwaysRoom, Table!Quiet
<1> QED
  BY <1>1, <1>2, <1>3, <1>4, <1>5 DEF TableIsTrue

\* Through every sequence of pushes, expiries and ticks, for every limit: the
\* byte counters of the reassembly table are true and never underflow, the table
\* keeps its limits, holds no dead entry, and an admissible payload always finds
\* room (reassembly.rs push, evict_oldest_except, cleanup_expired).
THEOREM TableStaysTrue ==
    ASSUME Table!ReassemblyConstants
    PROVE  SuiteSpec => []TableIsTrue
<1>1. SuiteInit => TableInv
  BY TableStarts DEF SuiteInit
<1>2. TableInv /\ [SuiteNext]_suite_vars => TableInv'
  <2>1. [SuiteNext]_suite_vars => [Table!Next]_(Table!vars)
    BY DEF SuiteNext, OnlyWindow, OnlyBitmap, OnlyCodec, OnlyTable, suite_vars,
           reassembly_vars, Table!vars
  <2> QED
    BY <2>1, TableStep
<1>3. TableInv => TableIsTrue
  BY TableInvIsEnough
<1> QED
  BY <1>1, <1>2, <1>3, PTL DEF SuiteSpec

\* What a push does to the other messages, for every limit: a failed one costs
\* nobody anything, no message is put together across its timeout, and what is
\* evicted is never the message itself and never younger than what is kept
\* (reassembly.rs push, evict_oldest_except).
THEOREM PushesAreOrderly ==
    ASSUME Table!ReassemblyConstants
    PROVE  SuiteSpec => EvictionIsOrderly
<1> DEFINE Orderly ==
             /\ outcome'.kind \in Failures => NothingLost(reassembly_acc', reassembly_acc)
             /\ outcome'.kind = "partial" =>
                  OldestGone(reassembly_acc', reassembly_acc, outcome'.message_id)
<1>1. SuiteInit => TableInv
  BY TableStarts DEF SuiteInit
<1>2. [SuiteNext]_suite_vars => [Table!Next]_(Table!vars)
  BY DEF SuiteNext, OnlyWindow, OnlyBitmap, OnlyCodec, OnlyTable, suite_vars,
         reassembly_vars, Table!vars
<1>3. TableInv /\ [SuiteNext]_suite_vars => TableInv'
  BY <1>2, TableStep
<1>4. TableInv /\ [Table!Next]_(Table!vars) => [Orderly]_(Table!vars)
  <2> SUFFICES ASSUME TableInv, Table!Next PROVE Orderly
    OBVIOUS
  <2>1. CASE Table!Tick \/ Table!Cleanup
    BY <2>1 DEF Table!Tick, Table!Cleanup, Table!Quiet, Failures
  <2>2. ASSUME NEW f \in Table!DecodedFragments, Table!Push(f) PROVE Orderly
    BY <2>2, PushStep
  <2> QED
    BY <2>1, <2>2 DEF Table!Next
<1>5. [Orderly]_(Table!vars) => [Table!FailureCostsNobody]_(Table!vars)
  BY DEF NothingLost, Failures, Table!FailureCostsNobody, Table!vars
<1>6. TableInv /\ [Orderly]_(Table!vars) => [Table!StartsAfreshOnceExpired]_(Table!vars)
  <2> SUFFICES ASSUME TableInv, Orderly, NEW id \in DOMAIN reassembly_acc.entries,
                      reassembly_acc.entries[id].age >= TABLE_TIMEOUT,
                      outcome' = [kind |-> "partial", message_id |-> id]
               PROVE  Cardinality(DOMAIN reassembly_acc'.entries[id].fragments) = 1
    BY TableCardinality DEF Table!StartsAfreshOnceExpired, Table!vars
  <2>1. outcome'.kind = "partial" /\ outcome'.message_id = id
    OBVIOUS
  <2>2. ~(reassembly_acc.entries[id].age < TABLE_TIMEOUT)
    <3>1. TrueEntry(reassembly_acc.entries[id]) /\ TABLE_TIMEOUT \in Nat
      BY DEF TableInv, OpenTable, TrueTable, Table!ReassemblyConstants
    <3>2. reassembly_acc.entries[id].age \in Int
      BY <3>1 DEF TrueEntry
    <3> QED
      BY <3>1, <3>2
  <2> QED
    BY <2>1, <2>2 DEF OldestGone
<1>7. [Orderly]_(Table!vars) => [Table!KeepsOwnAndYoungest]_(Table!vars)
  BY DEF OldestGone, Table!KeepsOwnAndYoungest, Table!vars
<1> HIDE DEF Orderly
<1>8. TableInv /\ [SuiteNext]_suite_vars =>
        /\ [Table!FailureCostsNobody]_(Table!vars) /\ [Table!StartsAfreshOnceExpired]_(Table!vars)
        /\ [Table!KeepsOwnAndYoungest]_(Table!vars)
  BY <1>2, <1>4, <1>5, <1>6, <1>7
<1> QED
  BY <1>1, <1>3, <1>8, PTL DEF SuiteSpec, EvictionIsOrderly,
     Table!FailedPushEvictsNothing, Table!ExpiredFragmentsAreDropped, Table!EvictsOldestOthers

=============================================================================
