---------------------------- MODULE MCManualQueue ----------------------------
(* Small queues for ManualQueue. *)
EXTENDS ManualQueue

CONSTANTS red, blue, gold

\* Chosen trades 1 .. M of red and blue; the automatic rows 11 .. share blue.
Pairs == [t \in Row |-> IF t \in Chosen THEN {red, blue} ELSE {blue, gold}]
Rows == Chosen \cup Automatic
NoAutomatic == {}
OneAutomatic == {11}
TwoAutomatic == {11, 12}
==============================================================================
