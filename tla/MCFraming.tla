----------------------------- MODULE MCFraming -----------------------------
(* Instances of Framing for TLC: bits for bytes and two of them for the    *)
(* length, so that contents look like headers; an empty packet, too.       *)
EXTENDS Framing

Packets31 == [e \in Ends |-> IF e = "client" THEN <<<<1, 0, 1>>, <<>>, <<1>>>> ELSE <<<<0>>>>]

(* What HeaderLen digits can say.                                          *)
ASSUME FitsIsBounded == \A n \in 0 .. 2 * Base ^ HeaderLen : Fits(n) <=> n < Base ^ HeaderLen
=============================================================================
