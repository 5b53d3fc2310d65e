------------------------------- MODULE MCEntg -------------------------------
(* Instances of Entg for TLC: more bytes than a copy and a stream hold.    *)
EXTENDS Entg

Bytes53 == [l \in Legs |-> IF l = "enta" THEN 5 ELSE 3]
=============================================================================
