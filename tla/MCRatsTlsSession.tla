-------------------------- MODULE MCRatsTlsSession --------------------------
(* Instances of RatsTlsSession for TLC: bytes are numbered by their place  *)
(* in the stream, so that every loss, repetition or exchange shows.        *)
EXTENDS RatsTlsSession

MCByte == 1 .. 3
Payload21 == [e \in Ends |-> IF e = "client" THEN <<1, 2>> ELSE <<1>>]
Payload31 == [e \in Ends |-> IF e = "client" THEN <<1, 2, 3>> ELSE <<1>>]
Payload23 == [e \in Ends |-> IF e = "client" THEN <<1, 2>> ELSE <<1, 2, 3>>]
Payload33 == [e \in Ends |-> <<1, 2, 3>>]
=============================================================================
