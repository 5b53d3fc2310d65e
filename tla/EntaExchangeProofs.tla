------------------------- MODULE EntaExchangeProofs -------------------------
(* Theorems about EntaExchange, for all channel and stream capacities and  *)
(* all numbers of packets.                                                 *)
EXTENDS EntaExchange, StreamLemmas

(* The two directions, and what each end of them is.                       *)
LEMMA DirectionFacts ==
  \A d \in Directions : /\ Other(d) \in Directions /\ Other(d) # d
                        /\ Source(d) \in Devices /\ Sink(d) \in Devices
BY DEF Directions, Other, Devices, Source, Sink

(* Hands and channels: what the loops put into them fits.                  *)
LEMMA BoundedFacts ==
  /\ \A n \in Nat : <<>> \in UpTo(n)
  /\ \A n \in Nat : \A s \in UpTo(n) : s \in Seq(Packet) /\ Len(s) \in 0 .. n
  /\ \A p \in Packet : <<p>> \in UpTo(1)
  /\ \A n \in Nat : \A s \in UpTo(n), h \in UpTo(1) :
       Len(s) < n => s \o h \in UpTo(n)
  /\ \A n \in Nat : \A s \in UpTo(n) :
       s # <<>> => Head(s) \in Packet /\ Tail(s) \in UpTo(n)
<1>1. \A n \in Nat : <<>> \in UpTo(n)
  BY EmptySeq DEF UpTo
<1>2. ASSUME NEW n \in Nat, NEW s \in UpTo(n) PROVE s \in Seq(Packet) /\ Len(s) \in 0 .. n
  BY LenProperties DEF UpTo
<1>3. \A p \in Packet : <<p>> \in UpTo(1)
  BY DEF UpTo
<1>4. ASSUME NEW n \in Nat, NEW s \in UpTo(n), NEW h \in UpTo(1), Len(s) < n
      PROVE  s \o h \in UpTo(n)
  <2>1. /\ s \in Seq(Packet) /\ Len(s) \in 0 .. n
        /\ h \in Seq(Packet) /\ Len(h) \in 0 .. 1
    BY <1>2
  <2>2. s \o h \in Seq(Packet) /\ Len(s \o h) = Len(s) + Len(h)
    BY <2>1, ConcatProperties
  <2>. QED
    BY <1>4, <2>1, <2>2 DEF UpTo
<1>5. ASSUME NEW n \in Nat, NEW s \in UpTo(n), s # <<>>
      PROVE  Head(s) \in Packet /\ Tail(s) \in UpTo(n)
  <2>1. s \in Seq(Packet) /\ Len(s) \in 0 .. n
    BY <1>2
  <2>2. /\ Head(s) \in Packet /\ Tail(s) \in Seq(Packet) /\ Len(Tail(s)) = Len(s) - 1
    BY <1>5, <2>1, HeadTailProperties
  <2>. QED
    BY <2>1, <2>2 DEF UpTo
<1>. QED
  BY <1>1, <1>2, <1>3, <1>4, <1>5
-----------------------------------------------------------------------------
(* The variables keep their types, no channel outgrows its capacity, and   *)
(* the stream to ENTG never holds more than it takes.                      *)
THEOREM ExchangeTypeCorrect == Spec => []TypeOK
<1>. USE ExchangeAssumption, DirectionFacts
<1>1. Init => TypeOK
  <2>1. <<>> \in UpTo(1) /\ <<>> \in UpTo(ChanCap) /\ <<>> \in Seq(Packet)
    BY BoundedFacts, EmptySeq
  <2>. QED
    BY <2>1 DEF Init, TypeOK
<1>2. TypeOK /\ [Next]_vars => TypeOK'
  <2> SUFFICES ASSUME TypeOK, [Next]_vars PROVE TypeOK'
    OBVIOUS
  <2>. USE DEF TypeOK
  <2>1. ASSUME NEW d \in Directions, ReaderTakes(d) PROVE TypeOK'
    <3>1. arriving[d] \in Seq(Packet) /\ arriving[d] # <<>> /\ taken[d] \in Seq(Packet)
      BY <2>1 DEF ReaderTakes
    <3>2. /\ Head(arriving[d]) \in Packet /\ Tail(arriving[d]) \in Seq(Packet)
          /\ Append(taken[d], Head(arriving[d])) \in Seq(Packet)
      BY <3>1, HeadTailProperties, AppendProperties
    <3>3. <<Head(arriving[d])>> \in UpTo(1)
      BY <3>2, BoundedFacts
    <3>. QED
      BY <2>1, <3>2, <3>3 DEF ReaderTakes, writeVars
  <2>2. ASSUME NEW d \in Directions, ReaderFinishes(d) PROVE TypeOK'
    BY <2>2 DEF ReaderFinishes, AtEnd, ReaderEnds
  <2>3. ASSUME NEW d \in Directions, ReaderSends(d) PROVE TypeOK'
    <3>1. chan[d] \o readHand[d] \in UpTo(ChanCap) /\ <<>> \in UpTo(1)
      BY <2>3, BoundedFacts DEF ReaderSends, HasRoom
    <3>. QED
      BY <2>3, <3>1 DEF ReaderSends, HasRoom, writeVars
  <2>4. ASSUME NEW d \in Directions, ReaderRefused(d) PROVE TypeOK'
    BY <2>4 DEF ReaderRefused, ReaderEnds
  <2>5. ASSUME NEW d \in Directions, WriterTakes(d) PROVE TypeOK'
    <3>1. Head(chan[d]) \in Packet /\ Tail(chan[d]) \in UpTo(ChanCap)
      BY <2>5, BoundedFacts DEF WriterTakes
    <3>2. <<Head(chan[d])>> \in UpTo(1)
      BY <3>1, BoundedFacts
    <3>. QED
      BY <2>5, <3>1, <3>2 DEF WriterTakes, readVars
  <2>6. ASSUME NEW d \in Directions, WriterFinishes(d) PROVE TypeOK'
    BY <2>6 DEF WriterFinishes, Exhausted, WriterEnds
  <2>7. ASSUME NEW d \in Directions, WriterPuts(d) PROVE TypeOK'
    <3>1. put[d] \in Seq(Packet) /\ writeHand[d] \in Seq(Packet) /\ <<>> \in UpTo(1)
      BY BoundedFacts
    <3>2. put[d] \o writeHand[d] \in Seq(Packet)
      BY <3>1, ConcatProperties
    <3>3. unread' \in 0 .. StreamCap
      BY <2>7 DEF WriterPuts, Devices
    <3>. QED
      BY <2>7, <3>1, <3>2, <3>3 DEF WriterPuts, readVars
  <2>8. ASSUME NEW d \in Directions, WriterFails(d) PROVE TypeOK'
    BY <2>8 DEF WriterFails, WriterEnds
  <2>9. CASE Joined
    BY <2>9 DEF Joined, readVars, writeVars
  <2>10. CASE Interrupted
    BY <2>10 DEF Interrupted
  <2>11. CASE EntgReads
    BY <2>11 DEF EntgReads, readVars
  <2>12. CASE EntgCloses
    BY <2>12 DEF EntgCloses, readVars, writeVars
  <2>13. ASSUME NEW d \in Directions, Arrive(d) PROVE TypeOK'
    <3>1. taken[d] \in Seq(Packet) /\ arriving[d] \in Seq(Packet)
      OBVIOUS
    <3>2. Len(taken[d]) + Len(arriving[d]) + 1 \in Packet
      BY <3>1, LenProperties DEF Packet
    <3>3. Append(arriving[d], Len(taken[d]) + Len(arriving[d]) + 1) \in Seq(Packet)
      BY <3>1, <3>2, AppendProperties
    <3>. QED
      BY <2>13, <3>3 DEF Arrive, readVars, writeVars
  <2>14. ASSUME NEW x \in Devices, Breaks(x) PROVE TypeOK'
    BY <2>14 DEF Breaks, readVars, writeVars
  <2>15. CASE UNCHANGED vars
    BY <2>15 DEF vars, readVars, writeVars
  <2>. QED
    BY <2>1, <2>2, <2>3, <2>4, <2>5, <2>6, <2>7, <2>8, <2>9, <2>10, <2>11, <2>12,
       <2>13, <2>14, <2>15
    DEF Next, from_tun, to_entg, from_entg, to_tun, Reader, Writer, Directions
<1>. QED
  BY <1>1, <1>2, PTL DEF Spec
-----------------------------------------------------------------------------
(* A loop holds a packet only while it is about to pass it on, and a writer *)
(* that drained its channel left nothing in it, then or later.             *)
HandsInv ==
  \A d \in Directions :
    /\ reader[d] = "next" => readHand[d] = <<>>
    /\ writer[d] \in {"recv", "drained"} => writeHand[d] = <<>>
    /\ writer[d] = "drained" => chan[d] = <<>>

(* HandsInv is inductive: the channel of a drained writer stays empty since *)
(* a sender whose receiver is gone is refused.                             *)
LEMMA HandsStep == TypeOK /\ HandsInv /\ [Next]_vars => HandsInv'
<1> SUFFICES ASSUME TypeOK, HandsInv, [Next]_vars PROVE HandsInv'
  OBVIOUS
<1>. USE DirectionFacts DEF HandsInv, TypeOK
<1>1. ASSUME NEW d \in Directions, ReaderTakes(d) PROVE HandsInv'
  BY <1>1 DEF ReaderTakes, writeVars
<1>2. ASSUME NEW d \in Directions, ReaderFinishes(d) PROVE HandsInv'
  BY <1>2 DEF ReaderFinishes, AtEnd, ReaderEnds
<1>3. ASSUME NEW d \in Directions, ReaderSends(d) PROVE HandsInv'
  BY <1>3 DEF ReaderSends, HasRoom, WriterLives, writeVars
<1>4. ASSUME NEW d \in Directions, ReaderRefused(d) PROVE HandsInv'
  BY <1>4 DEF ReaderRefused, ReaderEnds
<1>5. ASSUME NEW d \in Directions, WriterTakes(d) PROVE HandsInv'
  BY <1>5 DEF WriterTakes, readVars
<1>6. ASSUME NEW d \in Directions, WriterFinishes(d) PROVE HandsInv'
  BY <1>6 DEF WriterFinishes, Exhausted, WriterEnds
<1>7. ASSUME NEW d \in Directions, WriterPuts(d) PROVE HandsInv'
  BY <1>7 DEF WriterPuts, readVars
<1>8. ASSUME NEW d \in Directions, WriterFails(d) PROVE HandsInv'
  BY <1>8 DEF WriterFails, WriterEnds
<1>9. CASE Interrupted
  BY <1>9 DEF Interrupted, WriterLives, ReaderLives
<1>10. CASE UNCHANGED <<reader, readHand, writer, writeHand, chan>>
  BY <1>10
<1>. QED
  BY <1>1, <1>2, <1>3, <1>4, <1>5, <1>6, <1>7, <1>8, <1>9, <1>10
  DEF Next, from_tun, to_entg, from_entg, to_tun, Reader, Writer, Directions,
      Joined, EntgReads, EntgCloses, Arrive, Breaks, vars, readVars, writeVars

(* A packet that moves from the reader to the channel, from the writer to  *)
(* the sink, from the source to the reader or from the channel to the      *)
(* writer leaves the sequence of all packets as it is.                     *)
LEMMA SendSeam ==
  ASSUME NEW S, NEW q \in Seq(S), NEW c \in Seq(S), NEW h \in Seq(S)
  PROVE  (q \o c) \o h = (q \o (c \o h)) \o <<>>
<1>1. (q \o c) \o h = q \o (c \o h)
  BY ConcatAssociative
<1>2. q \o (c \o h) \in Seq(S)
  BY ConcatProperties
<1>3. (q \o (c \o h)) \o <<>> = q \o (c \o h)
  BY <1>2, ConcatEmptySeq
<1>. QED
  BY <1>1, <1>3, Zenon

(* A packet put in an empty place.                                         *)
LEMMA PutSeam ==
  ASSUME NEW S, NEW q \in Seq(S), NEW c, NEW h
  PROVE  (q \o c) \o h = ((q \o <<>>) \o c) \o h
<1>1. q \o <<>> = q
  BY ConcatEmptySeq
<1>. QED
  BY <1>1, Zenon

(* A packet taken from the device into an empty hand.                      *)
LEMMA ReadSeam ==
  ASSUME NEW S, NEW r \in Seq(S), NEW x \in S
  PROVE  Append(r \o <<>>, x) = r \o <<x>>
<1>1. r \o <<>> = r
  BY ConcatEmptySeq
<1>2. Append(r, x) = r \o <<x>>
  BY AppendIsConcat
<1>. QED
  BY <1>1, <1>2, Zenon

(* A packet taken from a channel into an empty hand.                       *)
LEMMA RecvSeam ==
  ASSUME NEW S, NEW p \in Seq(S), NEW c \in Seq(S), c # <<>>
  PROVE  (p \o <<>>) \o c = (p \o <<Head(c)>>) \o Tail(c)
<1>1. p \o <<>> = p
  BY ConcatEmptySeq
<1>. DEFINE y == <<Head(c)>>
            t == Tail(c)
<1>2. Head(c) \in S
  BY HeadTailProperties
<1>3. y \in Seq(S) /\ t \in Seq(S)
  BY <1>2, HeadTailProperties
<1>4. y \o t = c
  BY <1>2
<1>. HIDE DEF y, t
<1>5. (p \o y) \o t = p \o (y \o t)
  BY <1>3, ConcatAssociative
<1>. QED
  BY <1>1, <1>4, <1>5, Zenon DEF y, t

(* The sequences that a direction is made of.                              *)
LEMMA DirectionTypes ==
  ASSUME TypeOK, NEW d \in Directions
  PROVE  /\ put[d] \in Seq(Packet) /\ writeHand[d] \in Seq(Packet)
         /\ chan[d] \in Seq(Packet) /\ readHand[d] \in Seq(Packet)
         /\ put[d] \o writeHand[d] \in Seq(Packet)
         /\ (put[d] \o writeHand[d]) \o chan[d] \in Seq(Packet)
<1>1. /\ put[d] \in Seq(Packet) /\ writeHand[d] \in Seq(Packet)
      /\ chan[d] \in Seq(Packet) /\ readHand[d] \in Seq(Packet)
  BY BoundedFacts, ExchangeAssumption DEF TypeOK
<1>2. put[d] \o writeHand[d] \in Seq(Packet)
  BY <1>1, ConcatProperties
<1>3. (put[d] \o writeHand[d]) \o chan[d] \in Seq(Packet)
  BY <1>1, <1>2, ConcatProperties
<1>. QED
  BY <1>1, <1>2, <1>3

(* The same seams in a direction.                                          *)
LEMMA DirectionSeams ==
  ASSUME TypeOK, NEW d \in Directions
  PROVE  LET p == put[d]
             w == writeHand[d]
             c == chan[d]
             h == readHand[d]
         IN  /\ ((p \o w) \o c) \o h = ((p \o w) \o (c \o h)) \o <<>>
             /\ ((p \o w) \o c) \o h = (((p \o w) \o <<>>) \o c) \o h
             /\ \A x \in Packet :
                  Append(((p \o w) \o c) \o <<>>, x) = ((p \o w) \o c) \o <<x>>
             /\ c # <<>> => ((p \o <<>>) \o c) \o h
                               = ((p \o <<Head(c)>>) \o Tail(c)) \o h
             /\ ((p \o <<>>) \o <<>>) \o h = p \o h
<1>. DEFINE p == put[d]
            w == writeHand[d]
            c == chan[d]
            h == readHand[d]
            q == p \o w
            r == q \o c
<1>1. /\ p \in Seq(Packet) /\ c \in Seq(Packet) /\ h \in Seq(Packet)
      /\ q \in Seq(Packet) /\ r \in Seq(Packet)
  BY DirectionTypes
<1>. HIDE DEF p, w, c, h, q
<1>3. (q \o c) \o h = (q \o (c \o h)) \o <<>>
  BY <1>1, SendSeam
<1>4. (q \o c) \o h = ((q \o <<>>) \o c) \o h
  BY <1>1, PutSeam
<1>. HIDE DEF r
<1>5. \A x \in Packet : Append(r \o <<>>, x) = r \o <<x>>
  BY <1>1, ReadSeam
<1>6. c # <<>> => (p \o <<>>) \o c = (p \o <<Head(c)>>) \o Tail(c)
  BY <1>1, RecvSeam
<1>7. p \o <<>> = p
  BY <1>1, ConcatEmptySeq
<1>. QED
  BY <1>3, <1>4, <1>5, <1>6, <1>7, Zenon DEF p, w, c, h, q, r

(* The books of a direction balance after a step that moves a packet in it. *)
LEMMA AccountedStep == TypeOK /\ HandsInv /\ Accounted /\ [Next]_vars => Accounted'
<1> SUFFICES ASSUME TypeOK, HandsInv, Accounted, [Next]_vars PROVE Accounted'
  OBVIOUS
<1>. USE DirectionFacts DEF Accounted
<1>1. ASSUME NEW d \in Directions, ReaderTakes(d) PROVE Accounted'
  <2>1. /\ readHand[d] = <<>> /\ Head(arriving[d]) \in Packet
        /\ put[d] \in Seq(Packet) /\ writeHand[d] \in UpTo(1) /\ chan[d] \in UpTo(ChanCap)
    BY <1>1, HeadTailProperties DEF ReaderTakes, HandsInv, TypeOK
  <2>2. taken'[d] = ((put[d] \o writeHand[d]) \o chan[d]) \o <<Head(arriving[d])>>
    <3>1. taken'[d] = Append(taken[d], Head(arriving[d]))
      BY <1>1 DEF ReaderTakes, TypeOK
    <3>2. taken[d] = ((put[d] \o writeHand[d]) \o chan[d]) \o <<>>
      BY <2>1
    <3>3. Append(((put[d] \o writeHand[d]) \o chan[d]) \o <<>>, Head(arriving[d]))
            = ((put[d] \o writeHand[d]) \o chan[d]) \o <<Head(arriving[d])>>
      BY <2>1, DirectionSeams, Zenon
    <3>. QED
      BY <3>1, <3>2, <3>3, Zenon
  <2>. QED
    BY <1>1, <2>2 DEF ReaderTakes, writeVars, TypeOK
<1>2. ASSUME NEW d \in Directions, ReaderSends(d) PROVE Accounted'
  <2>1. taken[d] = ((put[d] \o writeHand[d]) \o (chan[d] \o readHand[d])) \o <<>>
    BY DirectionSeams, Zenon
  <2>. QED
    BY <1>2, <2>1 DEF ReaderSends, HasRoom, writeVars, TypeOK
<1>3. ASSUME NEW d \in Directions, WriterTakes(d) PROVE Accounted'
  <2>1. writeHand[d] = <<>> /\ chan[d] # <<>>
    BY <1>3 DEF WriterTakes, HandsInv
  <2>2. taken[d] = ((put[d] \o <<Head(chan[d])>>) \o Tail(chan[d])) \o readHand[d]
    <3>1. taken[d] = ((put[d] \o <<>>) \o chan[d]) \o readHand[d]
      BY <2>1
    <3>. QED
      BY <2>1, <3>1, DirectionSeams, Zenon
  <2>. QED
    BY <1>3, <2>2 DEF WriterTakes, readVars, TypeOK
<1>4. ASSUME NEW d \in Directions, WriterPuts(d) PROVE Accounted'
  <2>1. taken[d] = (((put[d] \o writeHand[d]) \o <<>>) \o chan[d]) \o readHand[d]
    BY DirectionSeams, Zenon
  <2>. QED
    BY <1>4, <2>1 DEF WriterPuts, readVars, TypeOK
<1>5. CASE UNCHANGED <<taken, readHand, chan, writeHand, put>>
  BY <1>5
<1>. QED
  BY <1>1, <1>2, <1>3, <1>4, <1>5
  DEF Next, from_tun, to_entg, from_entg, to_tun, Reader, Writer, Directions,
      ReaderFinishes, AtEnd, ReaderRefused, WriterFinishes, Exhausted, WriterFails, Joined,
      Interrupted,
      EntgReads, EntgCloses, Arrive, Breaks, vars, readVars, writeVars

(* No packet is lost, duplicated or overtaken between the loops, whatever  *)
(* the order in which they stop.                                           *)
THEOREM AlwaysAccounted == Spec => []Accounted
<1>1. Init => HandsInv /\ Accounted
  <2>1. <<>> \in Seq(Packet) /\ <<>> \o <<>> = <<>>
    BY ConcatEmptySeq, EmptySeq
  <2>. QED
    BY <2>1 DEF Init, HandsInv, Accounted
<1>. QED
  BY <1>1, HandsStep, AccountedStep, ExchangeTypeCorrect, PTL DEF Spec

(* A writer that drained its channel delivered all that was ever sent: what *)
(* is accounted for is in no hand of its own and not in the channel.       *)
THEOREM AlwaysDrained == Spec => []DrainedIsDelivered
<1>1. Init => HandsInv
  BY DEF Init, HandsInv
<1>2. TypeOK /\ HandsInv /\ Accounted => DrainedIsDelivered
  <2> SUFFICES ASSUME TypeOK, HandsInv, Accounted,
                      NEW d \in Directions, writer[d] = "drained"
               PROVE  taken[d] = put[d] \o readHand[d]
    BY DEF DrainedIsDelivered
  <2>1. taken[d] = ((put[d] \o <<>>) \o <<>>) \o readHand[d]
    BY DEF HandsInv, Accounted
  <2>. QED
    BY <2>1, DirectionSeams, Zenon
<1>. QED
  BY <1>1, <1>2, HandsStep, AlwaysAccounted, ExchangeTypeCorrect, PTL DEF Spec

(* Whichever loop stops first, a device or the user is behind it.          *)
THEOREM AlwaysForCause == Spec => []StopsForCause
<1>1. Init => StopsForCause
  BY DEF Init, StopsForCause, ReaderLives, WriterLives
<1>2. TypeOK /\ StopsForCause /\ [Next]_vars => StopsForCause'
  <2> SUFFICES ASSUME TypeOK, StopsForCause, [Next]_vars PROVE StopsForCause'
    OBVIOUS
  <2>. DEFINE Cause == main = "interrupted" \/ \E x \in Devices : device[x] # "up"
              AllLive == \A d \in Directions : ReaderLives(d) /\ WriterLives(d)
  <2>1. Cause \/ AllLive
    BY DEF StopsForCause
  <2>2. Cause => Cause'
    BY DirectionFacts
    DEF TypeOK, Next, from_tun, to_entg, from_entg, to_tun, Reader, Writer, Directions,
        ReaderTakes, ReaderFinishes, AtEnd, ReaderSends, HasRoom, ReaderRefused,
        WriterTakes, WriterFinishes, Exhausted, WriterPuts, WriterFails, Joined, Interrupted,
        EntgReads, EntgCloses, Arrive, Breaks, vars
  <2>3. CASE AllLive /\ ~Cause
    <3>1. ASSUME NEW d \in Directions, Reader(d) \/ Writer(d) PROVE AllLive'
      <4>1. ~ReaderFinishes(d) /\ ~WriterFails(d)
        BY <2>3, DirectionFacts DEF ReaderFinishes, AtEnd, WriterFails
      <4>2. ~ReaderRefused(d) /\ ~WriterFinishes(d)
        BY <2>3 DEF ReaderRefused, WriterFinishes, Exhausted
      <4>. QED
        BY <2>3, <3>1, <4>1, <4>2
        DEF Reader, Writer, ReaderTakes, ReaderSends, HasRoom, WriterTakes, WriterPuts, TypeOK,
            ReaderLives, WriterLives, readVars, writeVars
    <3>2. CASE Interrupted
      BY <3>2 DEF Interrupted, StopsForCause
    <3>3. CASE UNCHANGED <<reader, writer>>
      BY <2>3, <3>3 DEF StopsForCause, ReaderLives, WriterLives
    <3>. QED
      BY <3>1, <3>2, <3>3
      DEF Next, from_tun, to_entg, from_entg, to_tun, Directions, StopsForCause,
          ReaderLives, WriterLives,
          Joined, EntgReads, EntgCloses, Arrive, Breaks, vars, readVars, writeVars
  <2>. QED
    BY <2>1, <2>2, <2>3 DEF StopsForCause, ReaderLives, WriterLives
<1>. QED
  BY <1>1, <1>2, ExchangeTypeCorrect, PTL DEF Spec
-----------------------------------------------------------------------------
(* The loops of a task live and stop together, and a loop that is sending  *)
(* has something to send.                                                  *)
TaskInv ==
  \A d \in Directions :
    /\ ReaderLives(d) <=> WriterLives(Other(d))
    /\ reader[d] = "send" => readHand[d] # <<>>
    /\ writer[d] = "send" => writeHand[d] # <<>>

(* What the loops move within a direction leaves the other one alone.      *)
LEMMA TaskStep == TypeOK /\ TaskInv /\ [Next]_vars => TaskInv'
<1> SUFFICES ASSUME TypeOK, TaskInv, [Next]_vars PROVE TaskInv'
  OBVIOUS
<1>0. \A d \in Directions : Other(d) \in Directions /\ Other(Other(d)) = d /\ Other(d) # d
  BY DEF Directions, Other
<1>. USE <1>0 DEF TaskInv, TypeOK, ReaderLives, WriterLives
<1>1. ASSUME NEW d \in Directions, ReaderTakes(d) PROVE TaskInv'
  BY <1>1 DEF ReaderTakes, writeVars
<1>2. ASSUME NEW d \in Directions, ReaderFinishes(d) PROVE TaskInv'
  BY <1>2 DEF ReaderFinishes, ReaderEnds
<1>3. ASSUME NEW d \in Directions, ReaderSends(d) PROVE TaskInv'
  BY <1>3 DEF ReaderSends, writeVars
<1>4. ASSUME NEW d \in Directions, ReaderRefused(d) PROVE TaskInv'
  BY <1>4 DEF ReaderRefused, ReaderEnds
<1>5. ASSUME NEW d \in Directions, WriterTakes(d) PROVE TaskInv'
  BY <1>5 DEF WriterTakes, readVars
<1>6. ASSUME NEW d \in Directions, WriterFinishes(d) PROVE TaskInv'
  BY <1>6 DEF WriterFinishes, WriterEnds
<1>7. ASSUME NEW d \in Directions, WriterPuts(d) PROVE TaskInv'
  BY <1>7 DEF WriterPuts, readVars
<1>8. ASSUME NEW d \in Directions, WriterFails(d) PROVE TaskInv'
  BY <1>8 DEF WriterFails, WriterEnds
<1>9. CASE Interrupted
  BY <1>9 DEF Interrupted
<1>10. CASE UNCHANGED <<reader, readHand, writer, writeHand>>
  BY <1>10
<1>. QED
  BY <1>1, <1>2, <1>3, <1>4, <1>5, <1>6, <1>7, <1>8, <1>9, <1>10
  DEF Next, from_tun, to_entg, from_entg, to_tun, Reader, Writer, Directions,
      Joined, EntgReads, EntgCloses, Arrive, Breaks, vars, readVars, writeVars

(* The invariants that the refinement rests on hold at every moment.       *)
LEMMA TaskAlways == Spec => [](TypeOK /\ HandsInv /\ TaskInv)
<1>1. Init => HandsInv /\ TaskInv
  BY DirectionFacts DEF Init, HandsInv, TaskInv, ReaderLives, WriterLives
<1>. QED
  BY <1>1, HandsStep, TaskStep, ExchangeTypeCorrect, PTL DEF Spec

(* What run() implements the Forwarder with: the packets a direction has   *)
(* accepted, those it has delivered, and the tasks.                        *)
Way(d) == (put[d] \o writeHand[d]) \o chan[d]
accepted == [x \in Devices |->
               LET d == FromTo(x) IN (put[d] \o writeHand[d]) \o chan[d]]
given == [x \in Devices |-> put[Other(FromTo(x))]]
ports == [x \in Devices |-> SideOf(x)]

(* The devices at the ends of a direction, and that the two modules mean   *)
(* the same by the other side and by a prefix.                             *)
LEMMA DeviceFacts ==
  /\ \A d \in Directions :
       /\ Source(d) \in Devices /\ Sink(d) \in Devices /\ Source(d) # Sink(d)
       /\ FromTo(Source(d)) = d /\ Other(FromTo(Sink(d))) = d
       /\ Chain!Across(Sink(d)) = Source(d) /\ Chain!Across(Source(d)) = Sink(d)
       /\ Other(d) \in Directions /\ Other(d) # d /\ Other(Other(d)) = d
       /\ FromTo(Sink(d)) = Other(d)
       /\ \A x \in Devices : x = Source(d) \/ x = Sink(d)
  /\ \A x \in Devices : /\ FromTo(x) \in Directions
                        /\ x = Source(FromTo(x)) /\ x = Sink(Other(FromTo(x)))
  /\ \A s, t : /\ Chain!IsPrefix(s, t) <=> IsPrefix(s, t)
               /\ Chain!IsStrictPrefix(s, t) <=> IsStrictPrefix(s, t)
<1>1. ASSUME NEW d \in Directions
      PROVE  Chain!Across(Sink(d)) = Source(d) /\ Chain!Across(Source(d)) = Sink(d)
  BY DEF Chain!Across, Directions, Source, Sink, Devices
<1>2. \A s, t : Chain!IsPrefix(s, t) <=> IsPrefix(s, t)
  BY Zenon DEF Chain!IsPrefix, IsPrefix
<1>3. \A s, t : Chain!IsStrictPrefix(s, t) <=> IsStrictPrefix(s, t)
  BY <1>2, Zenon DEF Chain!IsStrictPrefix, IsStrictPrefix
<1>. QED
  BY <1>1, <1>2, <1>3 DEF Directions, Other, Devices, Source, Sink, FromTo

(* A side is open as long as the reader of its task lives.                 *)
LEMMA SideFacts ==
  /\ \A x \in Devices :
       ports[x] = IF reader[FromTo(x)] = "ended" THEN "ended"
                  ELSE IF writer[Other(FromTo(x))] = "drained" THEN "drained"
                  ELSE IF ReaderLives(FromTo(x)) THEN "open" ELSE "cut"
  /\ TaskInv => \A x \in Devices : ports[x] = "open" <=> ReaderLives(FromTo(x))
<1>1. \A x \in Devices :
        ports[x] = IF reader[FromTo(x)] = "ended" THEN "ended"
                   ELSE IF writer[Other(FromTo(x))] = "drained" THEN "drained"
                   ELSE IF ReaderLives(FromTo(x)) THEN "open" ELSE "cut"
  BY DEF ports, SideOf
<1>2. ASSUME TaskInv, NEW x \in Devices
      PROVE  ports[x] = "open" <=> ReaderLives(FromTo(x))
  BY <1>1, <1>2, DeviceFacts DEF TaskInv, ReaderLives, WriterLives
<1>. QED
  BY <1>1, <1>2

(* Steps that leave the ends of the loops alone leave the ports alone.     *)
LEMMA SidesStutter ==
  ASSUME TypeOK, TaskInv, TaskInv',
         \A d \in Directions : ReaderLives(d) => (ReaderLives(d))',
         \A d \in Directions : ~ReaderLives(d) => reader'[d] = reader[d],
         \A d \in Directions : ~WriterLives(d) => writer'[d] = writer[d]
  PROVE  ports' = ports
<1>1. ASSUME NEW x \in Devices PROVE (SideOf(x))' = SideOf(x)
  BY DeviceFacts DEF SideOf, TaskInv, ReaderLives, WriterLives
<1>2. ports' = [x \in Devices |-> (SideOf(x))']
  BY Zenon DEF ports
<1>3. ports = [x \in Devices |-> SideOf(x)]
  BY Zenon DEF ports
<1>. QED
  BY <1>1, <1>2, <1>3, Zenon

(* What leaves the loops alone does not show.                              *)
LEMMA ChainStutters ==
  ASSUME UNCHANGED <<reader, writer, chan, writeHand, put>>
  PROVE  UNCHANGED Chain!forwarderVars
<1>1. accepted' = accepted
  BY Zenon DEF accepted
<1>2. given' = given
  BY Zenon DEF given
<1>3. ports' = ports
  BY Zenon DEF ports, SideOf, ReaderLives
<1>. QED
  BY <1>1, <1>2, <1>3, Zenon DEF Chain!forwarderVars, accepted, given, ports

(* At the start nothing is taken and both sides are open.                  *)
LEMMA ChainInit == Init => Chain!Init
<1> SUFFICES ASSUME Init PROVE Chain!Init
  OBVIOUS
<1>1. <<>> \o <<>> = <<>>
  BY ConcatEmptySeq, EmptySeq
<1>2. ASSUME NEW d \in Directions PROVE Way(d) = <<>> /\ put[d] = <<>>
  <2>1. put[d] = <<>> /\ writeHand[d] = <<>> /\ chan[d] = <<>>
    BY DEF Init
  <2>. QED
    BY <1>1, <2>1, Zenon DEF Way
<1>3. accepted = [x \in Devices |-> <<>>]
  <2>1. \A x \in Devices : Way(FromTo(x)) = <<>>
    BY <1>2, DeviceFacts, Zenon
  <2>. QED
    BY <2>1, Zenon DEF accepted, Way
<1>4. given = [x \in Devices |-> <<>>]
  <2>1. \A x \in Devices : put[Other(FromTo(x))] = <<>>
    BY <1>2, DeviceFacts, Zenon
  <2>. QED
    BY <2>1, Zenon DEF given
<1>5. ports = [x \in Devices |-> "open"]
  <2>1. \A x \in Devices : SideOf(x) = "open"
    BY DeviceFacts DEF Init, SideOf, ReaderLives
  <2>. QED
    BY <2>1, Zenon DEF ports
<1>. QED
  BY <1>3, <1>4, <1>5, Zenon DEF Chain!Init, accepted, given, ports

(* A packet that its channel has accepted is taken.                        *)
LEMMA ChainSends ==
  ASSUME TypeOK, TaskInv, TaskInv', NEW d \in Directions, ReaderSends(d)
  PROVE  Chain!Take(Source(d))
<1>. DEFINE x == Source(d)
            w == Way(d)
            wh == w \o readHand[d]
<1>1. /\ reader[d] = "send" /\ reader' = [reader EXCEPT ![d] = "next"]
      /\ WriterLives(d) /\ chan' = [chan EXCEPT ![d] = chan[d] \o readHand[d]]
      /\ UNCHANGED <<writer, writeHand, put>>
  BY DEF ReaderSends, writeVars
<1>2. x \in Devices /\ FromTo(x) = d /\ \A y \in Devices : y # x => FromTo(y) # d
  BY DeviceFacts
<1>3. ports[x] = "open" /\ ports[Chain!Across(x)] = "open"
  <2>1. ports[x] = "open"
    BY <1>1, <1>2, SideFacts DEF ReaderLives
  <2>2. ReaderLives(Other(d))
    BY <1>1, DeviceFacts DEF TaskInv
  <2>3. Chain!Across(x) = Sink(d) /\ Sink(d) \in Devices /\ FromTo(Sink(d)) = Other(d)
    BY DeviceFacts
  <2>. QED
    BY <2>1, <2>2, <2>3, SideFacts
<1>4. ports' = ports
  <2>1. \A e \in Directions : ReaderLives(e) => (ReaderLives(e))'
    BY <1>1 DEF TypeOK, ReaderLives
  <2>2. \A e \in Directions : ~ReaderLives(e) => reader'[e] = reader[e]
    BY <1>1 DEF TypeOK, ReaderLives
  <2>3. \A e \in Directions : ~WriterLives(e) => writer'[e] = writer[e]
    BY <1>1
  <2>. QED
    BY <2>1, <2>2, <2>3, SidesStutter
<1>5. /\ w \in Seq(Packet) /\ readHand[d] \in Seq(Packet) /\ readHand[d] # <<>>
      /\ put[d] \o writeHand[d] \in Seq(Packet) /\ chan[d] \in Seq(Packet)
  BY <1>1, DirectionTypes DEF Way, TaskInv
<1>6. (Way(d))' = wh
  <2>. DEFINE q == put[d] \o writeHand[d]
              c == chan[d]
              h == readHand[d]
  <2>1. (Way(d))' = q \o (c \o h)
    <3>1. chan'[d] = chan[d] \o readHand[d]
      BY <1>1 DEF TypeOK
    <3>. QED
      BY <1>1, <3>1, Zenon DEF Way
  <2>2. q \in Seq(Packet) /\ c \in Seq(Packet) /\ h \in Seq(Packet)
    BY <1>5
  <2>. HIDE DEF q, c, h
  <2>3. (q \o c) \o h = q \o (c \o h)
    BY <2>2, ConcatAssociative
  <2>. QED
    BY <2>1, <2>3, Zenon DEF q, c, h, Way
<1>7. IsStrictPrefix(w, wh)
  <2>. HIDE DEF w
  <2>. QED
    BY <1>5, PrefixOfConcat
<1>. HIDE DEF w, wh
<1>8. accepted[x] = w /\ accepted' = [accepted EXCEPT ![x] = wh]
  <2>1. accepted = [y \in Devices |-> Way(FromTo(y))]
    BY Zenon DEF accepted, Way
  <2>2. accepted' = [y \in Devices |-> (Way(FromTo(y)))']
    BY Zenon DEF accepted, Way
  <2>3. ASSUME NEW y \in Devices
        PROVE  (Way(FromTo(y)))' = IF y = x THEN wh ELSE Way(FromTo(y))
    <3>1. CASE y = x
      BY <1>2, <1>6, <3>1, Zenon
    <3>2. CASE y # x
      <4>1. FromTo(y) # d
        BY <1>2, <3>2
      <4>2. chan'[FromTo(y)] = chan[FromTo(y)]
        BY <1>1, <4>1, DeviceFacts DEF TypeOK
      <4>3. (Way(FromTo(y)))' = Way(FromTo(y))
        BY <1>1, <4>2, Zenon DEF Way
      <4>. QED
        BY <3>2, <4>3, Zenon
    <3>. QED
      BY <3>1, <3>2
  <2>4. accepted' = [y \in Devices |-> IF y = x THEN wh ELSE Way(FromTo(y))]
    BY <2>2, <2>3, Zenon
  <2>5. accepted[x] = w
    BY <1>2, <2>1, Zenon DEF w
  <2>. HIDE DEF x
  <2>. QED
    BY <2>1, <2>4, <2>5
<1>9. accepted'[x] = wh /\ accepted' = [accepted EXCEPT ![x] = accepted'[x]]
  <2>1. DOMAIN accepted = Devices
    BY Zenon DEF accepted
  <2>. HIDE DEF x
  <2>. QED
    BY <1>2, <1>8, <2>1
<1>10. Chain!IsStrictPrefix(accepted[x], accepted'[x])
  BY <1>7, <1>8, <1>9, DeviceFacts, Zenon
<1>11. given' = given
  BY <1>1, Zenon DEF given
<1>. QED
  BY <1>3, <1>4, <1>9, <1>10, <1>11, Zenon
  DEF Chain!Take, accepted, given, ports

(* A packet that moves from its channel to the writer stays accepted.      *)
LEMMA ChainReceives ==
  ASSUME TypeOK, HandsInv, TaskInv, TaskInv', NEW d \in Directions, WriterTakes(d)
  PROVE  UNCHANGED Chain!forwarderVars
<1>1. /\ writer[d] = "recv" /\ chan[d] # <<>> /\ writeHand[d] = <<>>
      /\ writer' = [writer EXCEPT ![d] = "send"]
      /\ writeHand' = [writeHand EXCEPT ![d] = <<Head(chan[d])>>]
      /\ chan' = [chan EXCEPT ![d] = Tail(chan[d])]
      /\ UNCHANGED <<reader, put>>
  BY DEF WriterTakes, readVars, HandsInv
<1>2. ports' = ports
  <2>1. \A e \in Directions : ReaderLives(e) => (ReaderLives(e))'
    BY <1>1 DEF ReaderLives
  <2>2. \A e \in Directions : ~ReaderLives(e) => reader'[e] = reader[e]
    BY <1>1
  <2>3. \A e \in Directions : ~WriterLives(e) => writer'[e] = writer[e]
    BY <1>1 DEF TypeOK, WriterLives
  <2>. QED
    BY <2>1, <2>2, <2>3, SidesStutter
<1>3. ASSUME NEW e \in Directions PROVE (Way(e))' = Way(e)
  <2>1. CASE e = d
    <3>1. put[d] \in Seq(Packet) /\ chan[d] \in Seq(Packet)
      BY DirectionTypes
    <3>2. (put[d] \o <<>>) \o chan[d] = (put[d] \o <<Head(chan[d])>>) \o Tail(chan[d])
      BY <1>1, <3>1, RecvSeam
    <3>3. chan'[d] = Tail(chan[d]) /\ writeHand'[d] = <<Head(chan[d])>> /\ put' = put
      BY <1>1 DEF TypeOK
    <3>. QED
      BY <1>1, <2>1, <3>2, <3>3, Zenon DEF Way
  <2>2. CASE e # d
    <3>1. chan'[e] = chan[e] /\ writeHand'[e] = writeHand[e] /\ put' = put
      BY <1>1, <2>2 DEF TypeOK
    <3>. QED
      BY <3>1, Zenon DEF Way
  <2>. QED
    BY <2>1, <2>2
<1>4. accepted' = accepted
  <2>1. accepted = [y \in Devices |-> Way(FromTo(y))]
    BY Zenon DEF accepted, Way
  <2>2. accepted' = [y \in Devices |-> (Way(FromTo(y)))']
    BY Zenon DEF accepted, Way
  <2>3. \A y \in Devices : (Way(FromTo(y)))' = Way(FromTo(y))
    BY <1>3, DeviceFacts, Zenon
  <2>. QED
    BY <2>1, <2>2, <2>3, Zenon
<1>5. given' = given
  BY <1>1, Zenon DEF given
<1>. QED
  BY <1>2, <1>4, <1>5, Zenon DEF Chain!forwarderVars, accepted, given, ports

(* A packet that its device has accepted is given to it, and was taken.    *)
LEMMA ChainPuts ==
  ASSUME TypeOK, TaskInv, TaskInv', NEW d \in Directions, WriterPuts(d)
  PROVE  Chain!Put(Sink(d))
<1>. DEFINE x == Sink(d)
            p == put[d]
            ph == p \o writeHand[d]
<1>1. /\ writer[d] = "send" /\ writer' = [writer EXCEPT ![d] = "recv"]
      /\ writeHand' = [writeHand EXCEPT ![d] = <<>>]
      /\ put' = [put EXCEPT ![d] = ph]
      /\ UNCHANGED <<reader, chan>>
  BY DEF WriterPuts, readVars
<1>2. /\ x \in Devices /\ Other(FromTo(x)) = d
      /\ \A y \in Devices : y # x => Other(FromTo(y)) # d
  BY DeviceFacts
<1>3. ports[x] = "open"
  <2>1. ReaderLives(FromTo(x))
    BY <1>1, <1>2, DeviceFacts DEF TaskInv, WriterLives
  <2>. QED
    BY <1>2, <2>1, SideFacts
<1>4. ports' = ports
  <2>1. \A e \in Directions : ReaderLives(e) => (ReaderLives(e))'
    BY <1>1 DEF ReaderLives
  <2>2. \A e \in Directions : ~ReaderLives(e) => reader'[e] = reader[e]
    BY <1>1
  <2>3. \A e \in Directions : ~WriterLives(e) => writer'[e] = writer[e]
    BY <1>1 DEF TypeOK, WriterLives
  <2>. QED
    BY <2>1, <2>2, <2>3, SidesStutter
<1>5. /\ p \in Seq(Packet) /\ writeHand[d] \in Seq(Packet) /\ writeHand[d] # <<>>
      /\ ph \in Seq(Packet) /\ chan[d] \in Seq(Packet)
  BY <1>1, DirectionTypes DEF TaskInv
<1>6. IsStrictPrefix(p, ph)
  <2>. HIDE DEF p
  <2>. QED
    BY <1>5, PrefixOfConcat
<1>7. IsPrefix(ph, Way(d)) /\ Way(d) = (ph \o <<>>) \o chan[d]
  <2>1. Way(d) = ph \o chan[d]
    BY Zenon DEF Way
  <2>. HIDE DEF ph
  <2>2. IsPrefix(ph, ph \o chan[d]) /\ ph \o <<>> = ph
    BY <1>5, PrefixOfConcat, ConcatEmptySeq
  <2>. QED
    BY <2>1, <2>2, Zenon
<1>. HIDE DEF p, ph
<1>8. ASSUME NEW e \in Directions PROVE (Way(e))' = Way(e)
  <2>1. CASE e = d
    <3>1. put'[d] = ph /\ writeHand'[d] = <<>> /\ chan' = chan
      BY <1>1 DEF TypeOK
    <3>2. (Way(d))' = (ph \o <<>>) \o chan[d]
      BY <3>1, Zenon DEF Way
    <3>. QED
      BY <1>7, <2>1, <3>2, Zenon
  <2>2. CASE e # d
    <3>1. put'[e] = put[e] /\ writeHand'[e] = writeHand[e] /\ chan' = chan
      BY <1>1, <2>2 DEF TypeOK
    <3>. QED
      BY <3>1, Zenon DEF Way
  <2>. QED
    BY <2>1, <2>2
<1>9. accepted' = accepted
  <2>1. accepted = [y \in Devices |-> Way(FromTo(y))]
    BY Zenon DEF accepted, Way
  <2>2. accepted' = [y \in Devices |-> (Way(FromTo(y)))']
    BY Zenon DEF accepted, Way
  <2>3. \A y \in Devices : (Way(FromTo(y)))' = Way(FromTo(y))
    BY <1>8, DeviceFacts, Zenon
  <2>. QED
    BY <2>1, <2>2, <2>3, Zenon
<1>10. given[x] = p /\ given' = [given EXCEPT ![x] = ph]
  <2>1. given = [y \in Devices |-> put[Other(FromTo(y))]]
    BY Zenon DEF given
  <2>2. given' = [y \in Devices |-> put'[Other(FromTo(y))]]
    BY Zenon DEF given
  <2>3. ASSUME NEW y \in Devices
        PROVE  put'[Other(FromTo(y))] = IF y = x THEN ph ELSE put[Other(FromTo(y))]
    <3>1. Other(FromTo(y)) \in Directions
      BY DeviceFacts
    <3>. QED
      BY <1>1, <1>2, <3>1 DEF TypeOK
  <2>4. given' = [y \in Devices |-> IF y = x THEN ph ELSE put[Other(FromTo(y))]]
    BY <2>2, <2>3, Zenon
  <2>5. given[x] = p
    BY <1>2, <2>1, Zenon DEF p
  <2>. HIDE DEF x
  <2>. QED
    BY <2>1, <2>4, <2>5
<1>11. given'[x] = ph /\ given' = [given EXCEPT ![x] = given'[x]]
  <2>1. DOMAIN given = Devices
    BY Zenon DEF given
  <2>. HIDE DEF x
  <2>. QED
    BY <1>2, <1>10, <2>1
<1>12. /\ Chain!IsStrictPrefix(given[x], given'[x])
       /\ Chain!IsPrefix(given'[x], accepted[Chain!Across(x)])
  <2>1. Chain!Across(x) = Source(d) /\ Source(d) \in Devices /\ FromTo(Source(d)) = d
    BY DeviceFacts
  <2>2. accepted[Source(d)] = Way(d)
    BY <2>1, Zenon DEF accepted, Way
  <2>3. Chain!IsStrictPrefix(p, ph) /\ Chain!IsPrefix(ph, Way(d))
    BY <1>6, <1>7, DeviceFacts, Zenon
  <2>4. given[x] = p /\ given'[x] = ph /\ accepted[Chain!Across(x)] = Way(d)
    BY <1>10, <1>11, <2>1, <2>2, Zenon
  <2>. HIDE DEF x
  <2>. QED
    BY <2>3, <2>4, Zenon
<1>. QED
  BY <1>3, <1>4, <1>9, <1>11, <1>12, Zenon
  DEF Chain!Put, accepted, given, ports

(* Any number of sides close, each as Forwarder allows.                    *)
LEMMA ChainCloses ==
  ASSUME UNCHANGED <<chan, writeHand, put>>,
         \A x \in Devices :
           \/ ports'[x] = ports[x]
           \/ /\ ports[x] = "open"
              /\ \/ ports'[x] \in {"ended", "cut"}
                 \/ /\ ports'[x] = "drained" /\ ports'[Chain!Across(x)] # "open"
                    /\ given[x] = accepted[Chain!Across(x)]
  PROVE  [Chain!Next]_(Chain!forwarderVars)
<1>1. accepted' = accepted /\ given' = given
  BY Zenon DEF accepted, given
<1>2. \A x \in Devices : Chain!Closes(x) \/ ports'[x] = ports[x]
  BY Zenon DEF Chain!Closes, ports, given, accepted
<1>3. ports' = [x \in Devices |-> ports'[x]] /\ ports = [x \in Devices |-> ports[x]]
  BY Zenon DEF ports
<1>4. CASE \E x \in Devices : Chain!Closes(x)
  <2>1. Chain!Close
    BY <1>1, <1>2, <1>3, <1>4, Zenon DEF Chain!Close, accepted, given, ports
  <2>. QED
    BY <2>1, Zenon DEF Chain!Next
<1>5. CASE ~\E x \in Devices : Chain!Closes(x)
  <2>1. ports' = ports
    BY <1>2, <1>3, <1>5, Zenon
  <2>. QED
    BY <1>1, <2>1, Zenon DEF Chain!forwarderVars, accepted, given, ports
<1>. QED
  BY <1>4, <1>5

(* The end of a loop closes the side that its task serves; a writer whose  *)
(* channel is drained has given all that the other side took.              *)
LEMMA ChainEnds ==
  ASSUME TypeOK, HandsInv, TaskInv, TaskInv', NEW d \in Directions,
         ReaderFinishes(d) \/ ReaderRefused(d) \/ WriterFinishes(d) \/ WriterFails(d)
  PROVE  [Chain!Next]_(Chain!forwarderVars)
<1>0. UNCHANGED <<chan, writeHand, put>>
  BY DEF ReaderFinishes, ReaderRefused, WriterFinishes, WriterFails
<1>1. CASE ReaderFinishes(d) \/ ReaderRefused(d)
  <2>1. PICK how \in {"ended", "refused"} : ReaderEnds(d, how) /\ ReaderLives(d)
    BY <1>1 DEF ReaderFinishes, ReaderRefused, ReaderLives
  <2>2. /\ reader' = [reader EXCEPT ![d] = how]
        /\ writer' = [writer EXCEPT ![Other(d)] = "dropped"]
    BY <2>1 DEF ReaderEnds
  <2>3. ASSUME NEW x \in Devices
        PROVE  \/ ports'[x] = ports[x]
               \/ ports[x] = "open" /\ ports'[x] \in {"ended", "cut"}
    <3>1. CASE FromTo(x) = d
      <4>1. ports[x] = "open"
        BY <2>1, <3>1, SideFacts
      <4>2. reader'[FromTo(x)] = how /\ writer'[Other(FromTo(x))] = "dropped"
        BY <2>2, <3>1, DeviceFacts DEF TypeOK
      <4>3. (SideOf(x))' \in {"ended", "cut"}
        BY <4>2 DEF SideOf, ReaderLives
      <4>4. ports'[x] = (SideOf(x))'
        BY Zenon DEF ports
      <4>. QED
        BY <4>1, <4>3, <4>4
    <3>2. CASE FromTo(x) # d
      <4>1. /\ reader'[FromTo(x)] = reader[FromTo(x)]
            /\ writer'[Other(FromTo(x))] = writer[Other(FromTo(x))]
        BY <2>2, <3>2, DeviceFacts DEF TypeOK
      <4>. QED
        BY <4>1, Zenon DEF ports, SideOf, ReaderLives
    <3>. QED
      BY <3>1, <3>2
  <2>. QED
    BY <1>0, <2>3, ChainCloses
<1>2. CASE WriterFinishes(d) \/ WriterFails(d)
  <2>1. PICK how \in {"drained", "failed"} :
          /\ WriterEnds(d, how) /\ WriterLives(d)
          /\ how = "drained" => chan[d] = <<>> /\ ~ReaderLives(d) /\ writer[d] = "recv"
    BY <1>2 DEF WriterFinishes, Exhausted, WriterFails, WriterLives
  <2>2. /\ writer' = [writer EXCEPT ![d] = how]
        /\ reader' = [reader EXCEPT ![Other(d)] = "dropped"]
    BY <2>1 DEF WriterEnds
  <2>3. /\ ports[Sink(d)] = "open"
        /\ ports'[Sink(d)] = IF how = "drained" THEN "drained" ELSE "cut"
    <3>1. FromTo(Sink(d)) = Other(d) /\ Other(FromTo(Sink(d))) = d /\ Sink(d) \in Devices
      BY DeviceFacts
    <3>2. ports[Sink(d)] = "open"
      BY <2>1, <3>1, DeviceFacts, SideFacts DEF TaskInv
    <3>3. reader'[FromTo(Sink(d))] = "dropped" /\ writer'[Other(FromTo(Sink(d)))] = how
      BY <2>2, <3>1, DeviceFacts DEF TypeOK
    <3>4. (SideOf(Sink(d)))' = IF how = "drained" THEN "drained" ELSE "cut"
      BY <3>3 DEF SideOf, ReaderLives
    <3>5. ports'[Sink(d)] = (SideOf(Sink(d)))'
      BY <3>1, Zenon DEF ports
    <3>. QED
      BY <3>2, <3>4, <3>5, Zenon
  <2>4. ports'[Source(d)] = ports[Source(d)]
    <3>1. FromTo(Source(d)) = d /\ Source(d) \in Devices /\ d # Other(d)
      BY DeviceFacts
    <3>2. /\ reader'[FromTo(Source(d))] = reader[FromTo(Source(d))]
          /\ writer'[Other(FromTo(Source(d)))] = writer[Other(FromTo(Source(d)))]
      BY <2>2, <3>1, DeviceFacts DEF TypeOK
    <3>. QED
      BY <3>1, <3>2, Zenon DEF ports, SideOf, ReaderLives
  <2>5. ASSUME how = "drained"
        PROVE  ports[Source(d)] # "open" /\ given[Sink(d)] = accepted[Source(d)]
    <3>1. ports[Source(d)] # "open"
      BY <2>1, <2>5, DeviceFacts, SideFacts
    <3>2. writeHand[d] = <<>> /\ chan[d] = <<>> /\ put[d] \in Seq(Packet)
      BY <2>1, <2>5, DirectionTypes DEF HandsInv
    <3>3. Way(d) = put[d]
      <4>. DEFINE p == put[d]
      <4>1. Way(d) = (p \o <<>>) \o <<>> /\ p \in Seq(Packet)
        BY <3>2 DEF Way
      <4>. HIDE DEF p
      <4>2. p \o <<>> = p
        BY <4>1, ConcatEmptySeq
      <4>. QED
        BY <4>1, <4>2, Zenon DEF p
    <3>4. /\ FromTo(Source(d)) = d /\ Source(d) \in Devices
          /\ Sink(d) \in Devices /\ Other(FromTo(Sink(d))) = d
      BY DeviceFacts
    <3>5. given[Sink(d)] = put[d] /\ accepted[Source(d)] = Way(d)
      BY <3>4, Zenon DEF given, accepted, Way
    <3>. QED
      BY <3>1, <3>3, <3>5, Zenon
  <2>6. ASSUME NEW x \in Devices
        PROVE  \/ ports'[x] = ports[x]
               \/ /\ ports[x] = "open"
                  /\ \/ ports'[x] \in {"ended", "cut"}
                     \/ /\ ports'[x] = "drained" /\ ports'[Chain!Across(x)] # "open"
                        /\ given[x] = accepted[Chain!Across(x)]
    <3>1. x = Source(d) \/ x = Sink(d)
      BY DeviceFacts
    <3>2. Chain!Across(Sink(d)) = Source(d)
      BY DeviceFacts
    <3>. QED
      BY <2>3, <2>4, <2>5, <3>1, <3>2
  <2>. QED
    BY <1>0, <2>6, ChainCloses
<1>. QED
  BY <1>1, <1>2

(* ctrl_c cuts the sides that are still open.                              *)
LEMMA ChainInterrupted ==
  ASSUME TypeOK, TaskInv, Interrupted
  PROVE  [Chain!Next]_(Chain!forwarderVars)
<1>0. UNCHANGED <<chan, writeHand, put>>
  BY DEF Interrupted
<1>1. ASSUME NEW x \in Devices
      PROVE  \/ ports'[x] = ports[x]
             \/ ports[x] = "open" /\ ports'[x] = "cut"
  <2>1. FromTo(x) \in Directions /\ Other(FromTo(x)) \in Directions
    BY DeviceFacts
  <2>2. CASE ReaderLives(FromTo(x))
    <3>1. reader'[FromTo(x)] = "dropped" /\ writer'[Other(FromTo(x))] = "dropped"
      BY <2>1, <2>2 DEF Interrupted, TaskInv
    <3>2. (SideOf(x))' = "cut"
      BY <3>1 DEF SideOf, ReaderLives
    <3>3. ports'[x] = (SideOf(x))'
      BY Zenon DEF ports
    <3>4. ports[x] = "open"
      BY <2>2, SideFacts
    <3>. QED
      BY <3>2, <3>3, <3>4
  <2>3. CASE ~ReaderLives(FromTo(x))
    <3>1. /\ reader'[FromTo(x)] = reader[FromTo(x)]
          /\ writer'[Other(FromTo(x))] = writer[Other(FromTo(x))]
      BY <2>1, <2>3 DEF Interrupted, TaskInv
    <3>2. (SideOf(x))' = SideOf(x)
      BY <3>1 DEF SideOf, ReaderLives
    <3>3. ports'[x] = (SideOf(x))' /\ ports[x] = SideOf(x)
      BY Zenon DEF ports
    <3>. QED
      BY <3>2, <3>3, Zenon
  <2>. QED
    BY <2>2, <2>3
<1>. QED
  BY <1>0, <1>1, ChainCloses

(* Every step of run() is a step of the Forwarder, or none.                *)
LEMMA ChainStep ==
  TypeOK /\ HandsInv /\ TaskInv /\ TaskInv' /\ [Next]_vars
    => [Chain!Next]_(Chain!forwarderVars)
<1> SUFFICES ASSUME TypeOK, HandsInv, TaskInv, TaskInv', [Next]_vars
             PROVE  [Chain!Next]_(Chain!forwarderVars)
  OBVIOUS
<1>1. ASSUME NEW d \in Directions, Reader(d)
      PROVE  [Chain!Next]_(Chain!forwarderVars)
  <2>1. CASE ReaderTakes(d)
    <3>1. /\ reader[d] = "next" /\ reader' = [reader EXCEPT ![d] = "send"]
          /\ UNCHANGED <<writer, chan, writeHand, put>>
      BY <2>1 DEF ReaderTakes, writeVars
    <3>2. \A e \in Directions : ReaderLives(e) => (ReaderLives(e))'
      BY <3>1 DEF TypeOK, ReaderLives
    <3>3. \A e \in Directions : ~ReaderLives(e) => reader'[e] = reader[e]
      BY <3>1 DEF TypeOK, ReaderLives
    <3>4. \A e \in Directions : ~WriterLives(e) => writer'[e] = writer[e]
      BY <3>1
    <3>5. ports' = ports
      BY <3>2, <3>3, <3>4, SidesStutter
    <3>6. accepted' = accepted /\ given' = given
      BY <3>1, Zenon DEF accepted, given
    <3>. QED
      BY <3>5, <3>6, Zenon DEF Chain!forwarderVars, accepted, given, ports
  <2>2. CASE ReaderSends(d)
    <3>1. Source(d) \in Devices
      BY DeviceFacts
    <3>. QED
      BY <2>2, <3>1, ChainSends, Zenon DEF Chain!Next
  <2>. QED
    BY <1>1, <2>1, <2>2, ChainEnds DEF Reader
<1>2. ASSUME NEW d \in Directions, Writer(d)
      PROVE  [Chain!Next]_(Chain!forwarderVars)
  <2>1. CASE WriterPuts(d)
    <3>1. Sink(d) \in Devices
      BY DeviceFacts
    <3>. QED
      BY <2>1, <3>1, ChainPuts, Zenon DEF Chain!Next
  <2>. QED
    BY <1>2, <2>1, ChainReceives, ChainEnds DEF Writer
<1>3. CASE Interrupted
  BY <1>3, ChainInterrupted
<1>4. ASSUME \/ Joined \/ EntgReads \/ EntgCloses \/ UNCHANGED vars
             \/ \E d \in Directions : Arrive(d)
             \/ \E x \in Devices : Breaks(x)
      PROVE  UNCHANGED Chain!forwarderVars
  <2>1. UNCHANGED <<reader, writer, chan, writeHand, put>>
    BY <1>4, Zenon DEF Joined, EntgReads, EntgCloses, Arrive, Breaks, vars,
      readVars, writeVars
  <2>. QED
    BY <2>1, ChainStutters
<1>5. "outbound" \in Directions /\ "inbound" \in Directions
  BY DEF Directions
<1>. QED
  BY <1>1, <1>2, <1>3, <1>4, <1>5, Zenon
  DEF Next, from_tun, to_entg, from_entg, to_tun

(* run() is a Forwarder between the TUN device and ENTG, for all capacities *)
(* and every order in which its loops stop.                                *)
THEOREM ExchangeImplementsForwarder == Spec => ChainSpec
BY ChainInit, ChainStep, TaskAlways, PTL DEF Spec, ChainSpec, Chain!Spec
=============================================================================
