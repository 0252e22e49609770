---------------------------- MODULE MC_Publishing ----------------------------
(* An instance of Publishing for TLC: c1 and c2 publish with a debug token *)
(* and only the debug queue of c1 exists, c3 has none; one exchange.       *)
EXTENDS Publishing

CONSTANTS c1, c2, c3

OneExchange == [c \in Calls |-> "amq.direct"]
=============================================================================
