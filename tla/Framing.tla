------------------------------ MODULE Framing ------------------------------
(***************************************************************************)
(* The stream between the exchange_with_entg of two ENTAs (enta/src/main.rs) *)
(* down to its bytes, for which the gateways between them are one stream:  *)
(*                                                                         *)
(*   to_entg --encode--> wbuf --write--> pipe --read--> rbuf --decode--> from_entg *)
(*                                                                         *)
(* LengthDelimitedCodec puts the length of a packet, big-endian, in front  *)
(* of it.  The stream takes and gives bytes at any cut, and either end may *)
(* be dropped in the middle of a frame: each end runs to_entg and          *)
(* from_entg in a select!, and drops its stream with the first that ends.  *)
(***************************************************************************)
EXTENDS Integers, Sequences, SequencesExt

CONSTANTS
  Base,       \* number of values of a byte (256)
  HeaderLen,  \* bytes of the length field (4)
  Packets,    \* Packets[e]: the packets captured at e
  StreamCap,  \* bytes the stream takes before it exerts back-pressure
  Leavers,    \* the ends whose exchange may be dropped from outside
  MaxFaults   \* bound on the failures of the stream

Ends == {"client", "server"}
Peer(e) == IF e = "client" THEN "server" ELSE "client"

Byte == 0 .. Base - 1
NoFrame == -1  \* the decoder waits for the length of the next frame

\* Shifted(n)[k]: n without its last k digits.
Shifted(n) ==
  LET shifted[k \in 0 .. HeaderLen] == IF k = 0 THEN n ELSE shifted[k - 1] \div Base
  IN  shifted

\* A number of HeaderLen digits; encode() refuses a packet that is longer.
Fits(n) == Shifted(n)[HeaderLen] = 0

ASSUME FramingAssumption ==
  /\ Base \in Nat \ {0, 1}
  /\ HeaderLen \in Nat \ {0}
  /\ Packets \in [Ends -> Seq(Seq(Byte))]
  /\ \A e \in Ends : \A i \in DOMAIN Packets[e] : Fits(Len(Packets[e][i]))
  /\ StreamCap \in Nat \ {0}
  /\ Leavers \subseteq Ends
  /\ MaxFaults \in Nat

VARIABLES
  exchange,  \* exchange[e]: "open", or how exchange_with_entg ended at e
  fed,       \* fed[e]: the packets e has encoded
  wbuf,      \* wbuf[e]: encoded bytes the stream has not taken
  pipe,      \* pipe[e]: bytes from e to its peer
  rbuf,      \* rbuf[e]: bytes e has read and not decoded
  need,      \* need[e]: NoFrame, or the length of the frame e is reading
  decoded,   \* decoded[e]: the packets from_entg of e has received
  broken,    \* the stream has failed
  faults

sendVars == <<fed, wbuf>>
readVars == <<rbuf, need, decoded>>
vars == <<exchange, sendVars, pipe, readVars, broken, faults>>

Init ==
  /\ exchange = [e \in Ends |-> "open"]
  /\ fed = [e \in Ends |-> <<>>]
  /\ wbuf = [e \in Ends |-> <<>>]
  /\ pipe = [e \in Ends |-> <<>>]
  /\ rbuf = [e \in Ends |-> <<>>]
  /\ need = [e \in Ends |-> NoFrame]
  /\ decoded = [e \in Ends |-> <<>>]
  /\ broken = FALSE
  /\ faults = 0

Take(s, k) == SubSeq(s, 1, k)

\* Mutants of Skip: a short write, or a read of more than a frame, counts as
\* complete; what was taken is not forgotten.
SkipAll(s, k) == <<>>
SkipNone(s, k) == IF k = Len(s) THEN <<>> ELSE s

Skip(s, k) == SubSeq(s, k + 1, Len(s))

Header(n) == [i \in 1 .. HeaderLen |-> Shifted(n)[HeaderLen - i] % Base]

\* Mutant of LengthIn: the other byte order.
LengthInReverse(header) ==
  LET number[i \in 0 .. HeaderLen] ==
        IF i = 0 THEN 0 ELSE number[i - 1] * Base + header[HeaderLen + 1 - i]
  IN  number[HeaderLen]

LengthIn(header) ==
  LET number[i \in 0 .. HeaderLen] ==
        IF i = 0 THEN 0 ELSE number[i - 1] * Base + header[i]
  IN  number[HeaderLen]
-----------------------------------------------------------------------------
(* split_sink.send(packet) encodes the packet; the buffer is empty, since  *)
(* send has flushed the packet before.                                     *)
Sends(e) ==
  /\ exchange[e] = "open"
  /\ wbuf[e] = <<>>
  /\ Len(fed[e]) < Len(Packets[e])
  /\ LET packet == Packets[e][Len(fed[e]) + 1] IN
       /\ wbuf' = [wbuf EXCEPT ![e] = Header(Len(packet)) \o packet]
       /\ fed' = [fed EXCEPT ![e] = Append(@, packet)]
  /\ UNCHANGED <<exchange, pipe, readVars, broken, faults>>

(* The flush of send: the stream takes a part of the buffer.               *)
Flushes(e) ==
  /\ exchange[e] = "open"
  /\ ~broken
  /\ \E k \in 1 .. Len(wbuf[e]) :
       /\ Len(pipe[e]) + k <= StreamCap
       /\ pipe' = [pipe EXCEPT ![e] = @ \o Take(wbuf[e], k)]
       /\ wbuf' = [wbuf EXCEPT ![e] = Skip(@, k)]
  /\ UNCHANGED <<exchange, fed, readVars, broken, faults>>

(* split_stream.next() reads from the stream when there is no whole frame  *)
(* in its buffer.                                                          *)
HasHeader(e) == need[e] = NoFrame /\ Len(rbuf[e]) >= HeaderLen
HasFrame(e) == need[e] # NoFrame /\ Len(rbuf[e]) >= need[e]

Fills(e) ==
  /\ exchange[e] = "open"
  /\ ~broken /\ ~HasHeader(e) /\ ~HasFrame(e)
  /\ \E k \in 1 .. Len(pipe[Peer(e)]) :
       /\ rbuf' = [rbuf EXCEPT ![e] = @ \o Take(pipe[Peer(e)], k)]
       /\ pipe' = [pipe EXCEPT ![Peer(e)] = Skip(@, k)]
  /\ UNCHANGED <<exchange, sendVars, need, decoded, broken, faults>>

(* The decoder takes the length, then the packet.                          *)
DecodesHeader(e) ==
  /\ exchange[e] = "open"
  /\ HasHeader(e)
  /\ need' = [need EXCEPT ![e] = LengthIn(Take(rbuf[e], HeaderLen))]
  /\ rbuf' = [rbuf EXCEPT ![e] = Skip(@, HeaderLen)]
  /\ UNCHANGED <<exchange, sendVars, pipe, decoded, broken, faults>>

DecodesPacket(e) ==
  /\ exchange[e] = "open"
  /\ HasFrame(e)
  /\ decoded' = [decoded EXCEPT ![e] = Append(@, Take(rbuf[e], need[e]))]
  /\ rbuf' = [rbuf EXCEPT ![e] = Skip(@, need[e])]
  /\ need' = [need EXCEPT ![e] = NoFrame]
  /\ UNCHANGED <<exchange, sendVars, pipe, broken, faults>>

ExchangeEnds(e, how) ==
  /\ exchange[e] = "open"
  /\ exchange' = [exchange EXCEPT ![e] = how]
  /\ UNCHANGED <<sendVars, pipe, readVars>>

\* Mutant of HowEnded: no None after the error, so that from_entg does not break.
HowEndedGoesOn(e) == IF rbuf[e] = <<>> THEN "eof" ELSE "open"

HowEnded(e) == IF rbuf[e] = <<>> THEN "eof" ELSE "torn"

(* The stream is at its end: next() gives None, and from_entg breaks.  If  *)
(* bytes are left over, it gives an error before, which from_entg logs.    *)
(* The decoder does not see that a frame is missing after its header.      *)
ReadsEof(e) ==
  /\ ~broken /\ ~HasHeader(e) /\ ~HasFrame(e)
  /\ exchange[Peer(e)] # "open"
  /\ pipe[Peer(e)] = <<>>
  /\ ExchangeEnds(e, HowEnded(e))
  /\ UNCHANGED <<broken, faults>>

(* A read fails, and next() gives None after the error; or a write, as it  *)
(* may also when the peer has dropped its end.                             *)
Fails(e) ==
  /\ \/ broken /\ ~HasHeader(e) /\ ~HasFrame(e)
     \/ wbuf[e] # <<>> /\ (broken \/ exchange[Peer(e)] # "open")
  /\ ExchangeEnds(e, "failed")
  /\ UNCHANGED <<broken, faults>>

(* outbound_rx gives None between two packets; or inbound_tx is refused    *)
(* or run() is interrupted, at any moment.                                 *)
Leaves(e) ==
  /\ e \in Leavers
  /\ ExchangeEnds(e, "left")
  /\ UNCHANGED <<broken, faults>>

(* The stream fails; as it does when an end is dropped with bytes in it    *)
(* that this end has not read.                                             *)
Breaks ==
  /\ ~broken
  /\ broken' = TRUE
  /\ \/ faults < MaxFaults /\ faults' = faults + 1
     \/ /\ \E e \in Ends : exchange[e] # "open" /\ pipe[Peer(e)] # <<>>
        /\ UNCHANGED faults
  /\ UNCHANGED <<exchange, sendVars, pipe, readVars>>

to_entg(e) == Sends(e) \/ Flushes(e)
from_entg(e) == Fills(e) \/ DecodesHeader(e) \/ DecodesPacket(e) \/ ReadsEof(e)

Next ==
  \/ \E e \in Ends : to_entg(e) \/ from_entg(e) \/ Fails(e) \/ Leaves(e)
  \/ Breaks

(* Both futures are polled whenever they are woken, and the capturer takes *)
(* what from_entg has for it.  Nobody has to leave and nothing to break.   *)
Fairness ==
  \A e \in Ends : WF_vars(to_entg(e)) /\ WF_vars(from_entg(e)) /\ WF_vars(Fails(e))

Spec == Init /\ [][Next]_vars
FairSpec == Spec /\ Fairness
-----------------------------------------------------------------------------
(* However the bytes are cut into writes and reads, and wherever a frame   *)
(* is torn when an end goes, from_entg receives the packets that were sent *)
(* to it, whole and in order, and never a piece of one, or of a header.    *)
(* On a stream that did not fail, an end costs at most the packet that was *)
(* being sent when the peer dropped its stream (main.rs:149 in a select!), *)
(* and it costs none when the peer had nothing left to send.               *)
FramesIntact ==
  \A e \in Ends :
    /\ IsPrefix(decoded[e], fed[Peer(e)])
    /\ exchange[e] \in {"eof", "torn"} =>
         IF wbuf[Peer(e)] = <<>>
         THEN exchange[e] = "eof" /\ decoded[e] = fed[Peer(e)]
         ELSE Append(decoded[e], fed[Peer(e)][Len(fed[Peer(e)])]) = fed[Peer(e)]

(* Every packet that is sent is received, unless an end goes.              *)
AllReceived ==
  \A e \in Ends : \A n \in 1 .. Len(Packets[e]) :
    Len(fed[e]) >= n
      ~> Len(decoded[Peer(e)]) >= n \/ broken \/ \E f \in Ends : exchange[f] # "open"

(* When one end has gone, the exchange of the other ends too, in whatever  *)
(* state its decoder and its buffers are.                                  *)
BothEnd ==
  (\E e \in Ends : exchange[e] # "open") ~> (\A e \in Ends : exchange[e] # "open")

(* The link of packets that the framing makes of the link of bytes: a      *)
(* frame that its sender did not finish counts as a disturbance.           *)
PacketLink ==
  INSTANCE DuplexLink
    WITH Byte <- ToSet(Packets["client"]) \cup ToSet(Packets["server"]),
         sent <- fed, got <- decoded,
         ended <- [e \in Ends |->
                     IF exchange[e] \in {"eof", "torn"} THEN "eof"
                     ELSE IF exchange[e] = "left" THEN "dropped" ELSE exchange[e]],
         disturbed <- broken \/ \E e \in Ends :
                        exchange[e] \in {"left", "failed"} /\ wbuf[e] # <<>>
PacketLinkSpec == PacketLink!Spec
=============================================================================
