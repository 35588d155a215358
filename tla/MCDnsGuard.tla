----------------------------- MODULE MCDnsGuard -----------------------------
(* Two interfaces, one with static servers and one with DHCP. *)
EXTENDS DnsGuard

CONSTANTS wifi, lan

TheSettings == [i \in Ifs |-> IF i = wifi THEN "user" ELSE "empty"]
=============================================================================
