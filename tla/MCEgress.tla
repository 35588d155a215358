------------------------------ MODULE MCEgress ------------------------------
\* Two connections that share an address, each bound to an interface.
EXTENDS Egress

SharedAddress == [c \in {1, 2} |-> IF c = 2 THEN <<"a", "b">> ELSE <<"a">>]
=============================================================================
