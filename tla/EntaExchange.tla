---------------------------- MODULE EntaExchange ----------------------------
(***************************************************************************)
(* The forwarding core of ENTA: run() of enta/src/main.rs from the moment  *)
(* the connection to ENTG and the TUN device exist.  Four loops carry IP   *)
(* packets through two mpsc channels:                                      *)
(*                                                                         *)
(*   tun  --from_tun-->  outbound  --to_entg-->  entg                      *)
(*   tun  <--to_tun---   inbound   <--from_entg--  entg                    *)
(*                                                                         *)
(* exchange_with_tun runs from_tun and to_tun, exchange_with_entg runs     *)
(* from_entg and to_entg, each pair in a select! that drops the loop which *)
(* has not finished; run() joins the two and can be interrupted.           *)
(*                                                                         *)
(* The directions are symmetric, so the loops are indexed by direction:    *)
(* reader[d] is from_tun or from_entg, writer[d] is to_entg or to_tun.     *)
(* Packets are numbered in the order in which they arrive.                 *)
(***************************************************************************)
EXTENDS Integers, Sequences

CONSTANTS
  ChanCap,    \* capacity of the mpsc channels (128 in the code)
  StreamCap,  \* packets the stream to ENTG takes before it exerts back-pressure
  MaxPackets  \* MaxPackets[d]: bound on the packets that arrive in direction d

Directions == {"outbound", "inbound"}
Other(d) == IF d = "outbound" THEN "inbound" ELSE "outbound"
Devices == {"tun", "entg"}
Source(d) == IF d = "outbound" THEN "tun" ELSE "entg"
Sink(d) == IF d = "outbound" THEN "entg" ELSE "tun"

ASSUME ExchangeAssumption ==
  /\ ChanCap \in Nat \ {0}
  /\ StreamCap \in Nat \ {0}
  /\ MaxPackets \in [Directions -> Nat]

VARIABLES
  device,    \* the TUN device and the stream to ENTG
  arriving,  \* arriving[d]: packets that Source(d) holds ready to be read
  taken,     \* taken[d]: history of the packets read from Source(d)
  reader,    \* from_tun, from_entg: program counter, or how the loop ended
  readHand,  \* the packet a reader has and its channel has not
  chan,      \* the two mpsc channels
  writer,    \* to_entg, to_tun: program counter, or how the loop ended
  writeHand, \* the packet a writer has and its sink has not
  put,       \* put[d]: history of the packets Sink(d) accepted
  unread,    \* packets the stream holds that ENTG has not read
  main       \* run(): joins the two tasks, or was interrupted

readVars == <<taken, reader, readHand>>
writeVars == <<writer, writeHand, put, unread>>
vars == <<device, arriving, readVars, chan, writeVars, main>>

ReaderLives(d) == reader[d] \in {"next", "send"}
WriterLives(d) == writer[d] \in {"recv", "send"}

Init ==
  /\ device = [x \in Devices |-> "up"]
  /\ arriving = [d \in Directions |-> <<>>]
  /\ taken = [d \in Directions |-> <<>>]
  /\ reader = [d \in Directions |-> "next"]
  /\ readHand = [d \in Directions |-> <<>>]
  /\ chan = [d \in Directions |-> <<>>]
  /\ writer = [d \in Directions |-> "recv"]
  /\ writeHand = [d \in Directions |-> <<>>]
  /\ put = [d \in Directions |-> <<>>]
  /\ unread = 0
  /\ main = "joining"
-----------------------------------------------------------------------------
(* The environment: packets arrive, ENTG reads, closes its side of the     *)
(* stream, and the stream or the TUN device breaks.                        *)
Arrive(d) ==
  /\ device[Source(d)] = "up"
  /\ Len(taken[d]) + Len(arriving[d]) < MaxPackets[d]
  /\ arriving' = [arriving EXCEPT ![d] = Append(@, Len(taken[d]) + Len(@) + 1)]
  /\ UNCHANGED <<device, readVars, chan, writeVars, main>>

EntgReads ==
  /\ unread > 0
  /\ unread' = unread - 1
  /\ UNCHANGED <<device, arriving, readVars, chan, writer, writeHand, put, main>>

EntgCloses ==
  /\ device["entg"] = "up"
  /\ device' = [device EXCEPT !["entg"] = "closed"]
  /\ UNCHANGED <<arriving, readVars, chan, writeVars, main>>

Breaks(x) ==
  /\ device[x] # "broken"
  /\ device' = [device EXCEPT ![x] = "broken"]
  /\ UNCHANGED <<arriving, readVars, chan, writeVars, main>>
-----------------------------------------------------------------------------
(* A loop has finished: the select! of its task completes and drops the    *)
(* loop it shares the task with, and with them the ends of the channels.   *)
ReaderEnds(d, how) ==
  /\ reader' = [reader EXCEPT ![d] = how]
  /\ writer' = [writer EXCEPT ![Other(d)] = "dropped"]

(* Mutant of WriterEnds: join! in place of select!.                        *)
WriterEndsAlone(d, how) ==
  /\ writer' = [writer EXCEPT ![d] = how]
  /\ UNCHANGED reader

WriterEnds(d, how) ==
  /\ writer' = [writer EXCEPT ![d] = how]
  /\ reader' = [reader EXCEPT ![Other(d)] = "dropped"]

(* split_stream.next() gives the next packet; one that is in the buffer of *)
(* Framed comes also after the source has broken.                          *)
ReaderTakes(d) ==
  /\ reader[d] = "next"
  /\ arriving[d] # <<>>
  /\ readHand' = [readHand EXCEPT ![d] = <<Head(arriving[d])>>]
  /\ arriving' = [arriving EXCEPT ![d] = Tail(@)]
  /\ taken' = [taken EXCEPT ![d] = Append(@, Head(arriving[d]))]
  /\ reader' = [reader EXCEPT ![d] = "send"]
  /\ UNCHANGED <<device, chan, writeVars, main>>

\* Mutant of AtEnd: no packet for now is taken for the end.
AtEndIdle(d) == arriving[d] = <<>>

AtEnd(d) ==
  \/ device[Source(d)] = "broken"
  \/ device[Source(d)] = "closed" /\ arriving[d] = <<>>

(* next() gives None: the source is closed and its packets are read, or it *)
(* gave an error before, after which Framed ends.                          *)
ReaderFinishes(d) ==
  /\ reader[d] = "next"
  /\ AtEnd(d)
  /\ ReaderEnds(d, "ended")
  /\ UNCHANGED <<device, arriving, taken, readHand, chan, writeHand, put, unread,
                 main>>

\* Mutant of HasRoom: an unbounded channel.
HasRoomAlways(d) == TRUE

HasRoom(d) == Len(chan[d]) < ChanCap

(* Mutant of ReaderSends: try_send, which drops what finds no room.        *)
ReaderTriesSend(d) ==
  /\ reader[d] = "send"
  /\ WriterLives(d)
  /\ chan' = IF HasRoom(d)
             THEN [chan EXCEPT ![d] = @ \o readHand[d]] ELSE chan
  /\ readHand' = [readHand EXCEPT ![d] = <<>>]
  /\ reader' = [reader EXCEPT ![d] = "next"]
  /\ UNCHANGED <<device, arriving, taken, writeVars, main>>

(* tx.send(packet) waits for room in the channel.                          *)
ReaderSends(d) ==
  /\ reader[d] = "send"
  /\ WriterLives(d)
  /\ HasRoom(d)
  /\ chan' = [chan EXCEPT ![d] = @ \o readHand[d]]
  /\ readHand' = [readHand EXCEPT ![d] = <<>>]
  /\ reader' = [reader EXCEPT ![d] = "next"]
  /\ UNCHANGED <<device, arriving, taken, writeVars, main>>

(* The receiver of the channel was dropped: send gives the packet back as  *)
(* an error and the loop breaks.                                           *)
ReaderRefused(d) ==
  /\ reader[d] = "send"
  /\ ~WriterLives(d)
  /\ ReaderEnds(d, "refused")
  /\ UNCHANGED <<device, arriving, taken, readHand, chan, writeHand, put, unread,
                 main>>

Reader(d) == ReaderTakes(d) \/ ReaderFinishes(d) \/ ReaderSends(d) \/ ReaderRefused(d)
-----------------------------------------------------------------------------
(* rx.recv() gives the next packet of the channel.                         *)
WriterTakes(d) ==
  /\ writer[d] = "recv"
  /\ chan[d] # <<>>
  /\ writeHand' = [writeHand EXCEPT ![d] = <<Head(chan[d])>>]
  /\ chan' = [chan EXCEPT ![d] = Tail(@)]
  /\ writer' = [writer EXCEPT ![d] = "send"]
  /\ UNCHANGED <<device, arriving, readVars, put, unread, main>>

\* Mutant of Exhausted: ends with the sender, packets or not.
ExhaustedEarly(d) == ~ReaderLives(d)

Exhausted(d) == chan[d] = <<>> /\ ~ReaderLives(d)

(* recv() gives None: the sender is dropped and the channel is empty.      *)
WriterFinishes(d) ==
  /\ writer[d] = "recv"
  /\ Exhausted(d)
  /\ WriterEnds(d, "drained")
  /\ UNCHANGED <<device, arriving, taken, readHand, chan, writeHand, put, unread,
                 main>>

(* Mutant of WriterPuts: feed in place of send, nothing is flushed.        *)
WriterFeeds(d) ==
  /\ writer[d] = "send"
  /\ device[Sink(d)] # "broken"
  /\ writeHand' = [writeHand EXCEPT ![d] = <<>>]
  /\ writer' = [writer EXCEPT ![d] = "recv"]
  /\ UNCHANGED <<device, arriving, readVars, chan, put, unread, main>>

(* split_sink.send(packet) has flushed the packet.  The TUN device takes   *)
(* it at once; the stream to ENTG may exert back-pressure, and one that    *)
(* ENTG has closed can still take it.                                      *)
WriterPuts(d) ==
  /\ writer[d] = "send"
  /\ device[Sink(d)] # "broken"
  /\ Sink(d) = "entg" => unread < StreamCap \/ device["entg"] = "closed"
  /\ put' = [put EXCEPT ![d] = @ \o writeHand[d]]
  /\ writeHand' = [writeHand EXCEPT ![d] = <<>>]
  /\ writer' = [writer EXCEPT ![d] = "recv"]
  /\ unread' = IF Sink(d) = "entg" /\ device["entg"] = "up"
               THEN unread + 1 ELSE unread
  /\ UNCHANGED <<device, arriving, readVars, chan, main>>

(* split_sink.send(packet) fails.                                          *)
WriterFails(d) ==
  /\ writer[d] = "send"
  /\ device[Sink(d)] # "up"
  /\ WriterEnds(d, "failed")
  /\ UNCHANGED <<device, arriving, taken, readHand, chan, writeHand, put, unread,
                 main>>

Writer(d) == WriterTakes(d) \/ WriterFinishes(d) \/ WriterPuts(d) \/ WriterFails(d)

from_tun == Reader("outbound")
to_entg == Writer("outbound")
from_entg == Reader("inbound")
to_tun == Writer("inbound")
-----------------------------------------------------------------------------
(* Both tasks of join! have completed.                                     *)
Joined ==
  /\ main = "joining"
  /\ \A d \in Directions : ~ReaderLives(d) /\ ~WriterLives(d)
  /\ main' = "joined"
  /\ UNCHANGED <<device, arriving, readVars, chan, writeVars>>

(* ctrl_c() wins the outer select!, which drops both tasks.                *)
Interrupted ==
  /\ main = "joining"
  /\ main' = "interrupted"
  /\ reader' = [d \in Directions |-> IF ReaderLives(d) THEN "dropped" ELSE reader[d]]
  /\ writer' = [d \in Directions |-> IF WriterLives(d) THEN "dropped" ELSE writer[d]]
  /\ UNCHANGED <<device, arriving, taken, readHand, chan, writeHand, put, unread>>

Next ==
  \/ from_tun \/ to_entg \/ from_entg \/ to_tun
  \/ Joined \/ Interrupted
  \/ EntgReads \/ EntgCloses
  \/ \E d \in Directions : Arrive(d)
  \/ \E x \in Devices : Breaks(x)

(* The loops are futures of one task, polled whenever they are woken, and  *)
(* ENTG goes on reading as long as it is there.  Packets, closing, breaking *)
(* and ctrl_c come when they will.                                         *)
Fairness ==
  /\ WF_vars(from_tun) /\ WF_vars(to_entg)
  /\ WF_vars(from_entg) /\ WF_vars(to_tun)
  /\ WF_vars(Joined) /\ WF_vars(EntgReads)

Spec == Init /\ [][Next]_vars
FairSpec == Spec /\ Fairness
-----------------------------------------------------------------------------
Packet == Nat \ {0}
UpTo(n) == {s \in Seq(Packet) : Len(s) <= n}

(* Types; no channel grows past its capacity, no loop holds two packets.   *)
TypeOK ==
  /\ device \in [Devices -> {"up", "closed", "broken"}]
  /\ reader \in [Directions -> {"next", "send", "ended", "refused", "dropped"}]
  /\ writer \in [Directions -> {"recv", "send", "drained", "failed", "dropped"}]
  /\ arriving \in [Directions -> Seq(Packet)]
  /\ taken \in [Directions -> Seq(Packet)]
  /\ readHand \in [Directions -> UpTo(1)]
  /\ chan \in [Directions -> UpTo(ChanCap)]
  /\ writeHand \in [Directions -> UpTo(1)]
  /\ put \in [Directions -> Seq(Packet)]
  /\ unread \in 0 .. StreamCap
  /\ main \in {"joining", "joined", "interrupted"}

(* At every moment, also after loops have failed or were dropped, the      *)
(* packets read from a device are, in order, the ones the other side has   *)
(* accepted, the one its writer holds, the channel and the one the reader  *)
(* holds: so no packet overtakes another or is sent twice, and the only    *)
(* packets ever lost are those that lie between two loops when run() ends. *)
Accounted ==
  \A d \in Directions :
    taken[d] = ((put[d] \o writeHand[d]) \o chan[d]) \o readHand[d]

(* A writer that stopped since there was nothing more to send (main.rs:154, *)
(* tun.rs:139) has sent every packet its channel ever accepted, although   *)
(* the reader had been dropped by another loop's failure.                  *)
DrainedIsDelivered ==
  \A d \in Directions :
    writer[d] = "drained" => taken[d] = put[d] \o readHand[d]

(* No loop stops, and run() does not return, while both devices are well   *)
(* and nobody interrupts it: a refused or a drained loop is always the     *)
(* consequence of a device that went, however many loops lie between.      *)
StopsForCause ==
  (\E d \in Directions : ~ReaderLives(d) \/ ~WriterLives(d))
    => main = "interrupted" \/ \E x \in Devices : device[x] # "up"

(* When the stream or the TUN device has gone, run() returns (and main     *)
(* goes on to clean up): no loop waits for ever on a channel.              *)
RunReturns == (\E x \in Devices : device[x] # "up") ~> main # "joining"

(* No packet stays in a channel or a hand for ever: again and again, each  *)
(* device has accepted all that was read from the other, through full      *)
(* channels and a slow ENTG, unless a device goes or run() is interrupted. *)
AllForwarded ==
  []<>\/ \A d \in Directions : put[d] = taken[d]
      \/ main # "joining"
      \/ \E x \in Devices : device[x] # "up"

(* The forwarder that run() implements.  A packet is taken when its channel *)
(* has accepted it; a side is the task that serves a device, which ends    *)
(* with either of its two loops.                                           *)
FromTo(x) == IF x = "tun" THEN "outbound" ELSE "inbound"
SideOf(x) ==
  IF reader[FromTo(x)] = "ended" THEN "ended"
  ELSE IF writer[Other(FromTo(x))] = "drained" THEN "drained"
  ELSE IF ReaderLives(FromTo(x)) THEN "open" ELSE "cut"

Chain == INSTANCE Forwarder
           WITH Sides <- Devices,
                in <- [x \in Devices |->
                         LET d == FromTo(x) IN (put[d] \o writeHand[d]) \o chan[d]],
                out <- [x \in Devices |-> put[Other(FromTo(x))]],
                port <- [x \in Devices |-> SideOf(x)]
ChainSpec == Chain!Spec
=============================================================================
