-------------------------- MODULE DatagramChannel --------------------------
(***************************************************************************)
(* What one direction of an authenticated native UDP session promises to   *)
(* the code above it: messages may be lost and may overtake each other,    *)
(* but each one arrives whole and at most once.                            *)
(***************************************************************************)
EXTENDS Naturals, Sequences, SequencesExt

CONSTANT Messages

VARIABLES sent,        \* messages handed to the sending side
          delivered    \* messages handed out by the receiving side, in order

vars == <<sent, delivered>>

Init == sent = {} /\ delivered = << >>

Send == /\ UNCHANGED delivered
        /\ sent' # sent
        /\ \E m \in Messages : sent' = sent \cup {m}

Deliver == /\ UNCHANGED sent
           /\ \E m \in sent \ ToSet(delivered) : delivered' = Append(delivered, m)

Next == Send \/ Deliver

Spec == Init /\ [][Next]_vars
=============================================================================
