--------------------------- MODULE MCEntaExchange ---------------------------
(* Instances of EntaExchange for TLC: more packets than a channel holds.   *)
EXTENDS EntaExchange

Packets43 == [d \in Directions |-> IF d = "outbound" THEN 4 ELSE 3]
=============================================================================
