----------------------------- MODULE MCEchoSvr -----------------------------
(* Instances of EchoSvr for TLC: more data than a connection and the       *)
(* server's buffer hold together.                                          *)
EXTENDS EchoSvr

CONSTANTS c1, c2
Clients == {c1, c2}
Data91 == [c \in Clients |-> IF c = c1 THEN 9 ELSE 1]
=============================================================================
