----------------------------- MODULE DuplexLink -----------------------------
(***************************************************************************)
(* What a connection between two gateways promises the forwarding code,    *)
(* whether it is a TcpStream or the DuplexStream of a rats-tls session:    *)
(* two byte streams, each read in the order it was written, and an end of  *)
(* stream that, on a connection nothing disturbed, comes after the last    *)
(* byte.  Forwarding (entg's copy, enta's Framed) relies on this alone.    *)
(***************************************************************************)
EXTENDS Integers, Sequences

CONSTANT Byte

VARIABLES
  sent,      \* sent[e]: the bytes accepted from the application at e
  got,       \* got[e]: the bytes delivered to the application at e
  ended,     \* ended[e]: "open", or how the application's use of it ended
  disturbed  \* the connection failed, or was cut short

linkVars == <<sent, got, ended, disturbed>>

Ends == {"client", "server"}
Peer(e) == IF e = "client" THEN "server" ELSE "client"

Init ==
  /\ sent = [e \in Ends |-> <<>>]
  /\ got = [e \in Ends |-> <<>>]
  /\ ended = [e \in Ends |-> "open"]
  /\ disturbed = FALSE

Write(e) ==
  /\ ended[e] = "open"
  /\ \E b \in Byte : sent' = [sent EXCEPT ![e] = Append(@, b)]
  /\ UNCHANGED <<got, ended, disturbed>>

(* The next bytes of the peer's stream, one or more at a time.             *)
Read(e) ==
  /\ ended[e] = "open"
  /\ \E n \in Len(got[e]) + 1 .. Len(sent[Peer(e)]) :
       got' = [got EXCEPT ![e] = SubSeq(sent[Peer(e)], 1, n)]
  /\ UNCHANGED <<sent, ended, disturbed>>

(* The end of the stream: the peer writes no more, and unless the link was *)
(* disturbed everything it wrote has been read.                            *)
ReadEof(e) ==
  /\ ended[e] = "open"
  /\ disturbed \/ (ended[Peer(e)] # "open" /\ got[e] = sent[Peer(e)])
  /\ ended' = [ended EXCEPT ![e] = "eof"]
  /\ UNCHANGED <<sent, got, disturbed>>

(* The application drops its end; cutting a link may disturb it.           *)
Drop(e) ==
  /\ ended[e] = "open"
  /\ \E how \in {"dropped", "failed"} : ended' = [ended EXCEPT ![e] = how]
  /\ disturbed' \in {disturbed, TRUE}
  /\ UNCHANGED <<sent, got>>

Disturb ==
  /\ ~disturbed
  /\ disturbed' = TRUE
  /\ UNCHANGED <<sent, got, ended>>

Next == (\E e \in Ends : Write(e) \/ Read(e) \/ ReadEof(e) \/ Drop(e)) \/ Disturb

Spec == Init /\ [][Next]_linkVars
=============================================================================
