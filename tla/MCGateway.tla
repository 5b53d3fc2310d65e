----------------------------- MODULE MCGateway -----------------------------
(* Instances of Gateway for TLC.                                           *)
EXTENDS GatewayParts

Units21 == [s \in Sides |-> IF s = "left" THEN 2 ELSE 1]
Units55 == [s \in Sides |-> 5]

(* Every link and every hand is full both ways, with capacities of 1: the  *)
(* state in which 7 units have come from each TUN device, each has gone as *)
(* far as it can, and none has been delivered.                             *)
Full ==
  /\ in = [p \in Procs |-> [s \in Sides |->
             [i \in 1 .. IF s = "left" THEN 2 * (LastProc - p) + 1 ELSE 2 * p - 1 |-> i]]]
  /\ out = [p \in Procs |-> [s \in Sides |->
             [i \in 1 .. IF s = "left" THEN 2 * p - 2 ELSE 2 * (LastProc - p) |-> i]]]
  /\ port = [p \in Procs |-> [s \in Sides |-> "open"]]
  /\ reset = {}
  /\ faults = 0

FullSpec == Full /\ [][Next]_vars /\ Fairness
=============================================================================
