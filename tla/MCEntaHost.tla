----------------------------- MODULE MCEntaHost -----------------------------
(* Instances of EntaHost for TLC: the two ENTA of the demo on one host, or *)
(* one process that captures and replays and another that does neither.    *)
EXTENDS EntaHost

CONSTANTS client, server, p1, p2

Clients == {client, server}

Demo == [i \in Clients |-> [capture |-> IF i = client THEN p1 ELSE NoPort,
                            replay |-> IF i = server THEN p2 ELSE NoPort]]

Both == [i \in Clients |-> [capture |-> IF i = client THEN p1 ELSE NoPort,
                            replay |-> IF i = client THEN p2 ELSE NoPort]]

DemoOrBoth == {Demo, Both}
JustBoth == {Both}

Mishaps21 == [m \in Mishaps |-> IF m = "killed" THEN 2 ELSE 1]
OnlyCtrlC == [m \in Mishaps |-> IF m = "interruptedEarly" THEN 1 ELSE 0]
=============================================================================
