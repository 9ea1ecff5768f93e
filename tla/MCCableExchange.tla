--------------------------- MODULE MCCableExchange ---------------------------
(* Small sets of adventures for CableExchange. *)
EXTENDS CableExchange

CONSTANTS red, blue, gold

\* Two adventures trade again and again.
SamePair == [t \in Exchange |-> {red, blue}]

\* A chain: the second exchange takes one adventure of the first.
Chain == [t \in Exchange |-> IF t = 1 THEN {red, blue} ELSE {blue, gold}]
==============================================================================
