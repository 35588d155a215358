---------------------------- MODULE ReplayWindow ----------------------------
(***************************************************************************)
(* The sliding replay window of one direction of a native UDP session      *)
(* (protocol/src/udp_transport/replay.rs) and its only caller,             *)
(* UdpSessionCrypto::open_datagram (crypto.rs), which asks may_accept,     *)
(* authenticates the datagram and then commits its sequence number.        *)
(*                                                                         *)
(* The bitmap `seen` is kept as the set of its one bits, numbered by their *)
(* distance from `highest`; module ReplayBitmap has the u64 words.         *)
(***************************************************************************)
EXTENDS Integers

CONSTANTS WINDOW_SIZE,   \* UDP_REPLAY_WINDOW_SIZE
          U64_MAX        \* u64::MAX: sequence numbers are 0..U64_MAX

ASSUME WindowAssumption == /\ WINDOW_SIZE \in Nat \ {0}
                           /\ U64_MAX \in Nat

Seqs == 0..U64_MAX
Distances == 0..(WINDOW_SIZE - 1)
None == -1               \* Option::None of `highest`

VARIABLES window,        \* ReplayWindow { highest, seen }
          accepted       \* history: every sequence number committed so far

vars == <<window, accepted>>

Windows == [highest : Seqs \cup {None}, seen : SUBSET Distances]
-----------------------------------------------------------------------------
(* The operations of ReplayWindow, as functions of the record. *)

new == [highest |-> None, seen |-> {}]

may_accept(w, seq) ==
    \/ w.highest = None
    \/ seq > w.highest
    \/ /\ w.highest - seq < WINDOW_SIZE
       /\ (w.highest - seq) \notin w.seen

\* Faulty variant: the bit that lands on the oldest place is lost.
shift_older_short(seen, distance) ==
    {d \in 0..(WINDOW_SIZE - 2) : (d - distance) \in seen}

\* Bits move towards the older end; those shifted past the end fall off.
shift_older(seen, distance) ==
    {d \in Distances : (d - distance) \in seen}

\* The window after a commit that passed may_accept.
committed(w, seq) ==
    IF w.highest = None
      THEN [highest |-> seq, seen |-> w.seen \cup {0}]
    ELSE IF seq > w.highest
      THEN LET advance == seq - w.highest
           IN [highest |-> seq,
               seen    |-> (IF advance >= WINDOW_SIZE
                              THEN {} ELSE shift_older(w.seen, advance)) \cup {0}]
    ELSE [w EXCEPT !.seen = @ \cup {w.highest - seq}]

\* commit() re-checks may_accept and leaves the window alone when it fails.
commit(w, seq) == IF may_accept(w, seq) THEN committed(w, seq) ELSE w
-----------------------------------------------------------------------------
Init == /\ window = new
        /\ accepted = {}

\* open_datagram on a datagram whose tag verifies: replay check, decryption,
\* commit, delivery of the fragment.
OpenAuthentic(seq) ==
    /\ may_accept(window, seq)
    /\ window' = commit(window, seq)
    /\ accepted' = accepted \cup {seq}

\* open_datagram on a datagram whose header carries seq but that is refused,
\* by the replay check or because its tag does not verify.
OpenRefused(seq) ==
    /\ window' = window
    /\ UNCHANGED accepted

Next == \E seq \in Seqs : OpenAuthentic(seq) \/ OpenRefused(seq)

Spec == Init /\ [][Next]_vars
-----------------------------------------------------------------------------
TypeOK == /\ window \in Windows
          /\ accepted \subseteq Seqs

\* What the window must remember: the highest committed number and, within
\* the window below it, exactly the committed ones.
WindowInv ==
    \/ /\ accepted = {}
       /\ window = new
    \/ /\ window.highest \in accepted
       /\ \A s \in accepted : s <= window.highest
       /\ \A d \in Distances : d \in window.seen <=> (window.highest - d) \in accepted

\* The window answers exactly: whatever the order and the gaps of the commits
\* so far, a number is accepted iff it was never committed and it is not a
\* whole window behind the highest committed one.  So it admits no replay, and
\* a first copy is dropped only for being too old (replay.rs may_accept).
ExactReplayAnswer ==
    \A seq \in Seqs :
        may_accept(window, seq) <=>
            /\ seq \notin accepted
            /\ \A s \in accepted : s - seq < WINDOW_SIZE
=============================================================================
