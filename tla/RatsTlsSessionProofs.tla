------------------------ MODULE RatsTlsSessionProofs ------------------------
(* Theorems about RatsTlsSession, for all payloads, capacities and bounds  *)
(* on the faults.                                                          *)
EXTENDS RatsTlsSession, SequenceTheorems, TLAPS

(* Each end has one peer, the other end.                                   *)
LEMMA PeerFacts ==
  \A e \in Ends : Peer(e) \in Ends /\ Peer(e) # e /\ Peer(Peer(e)) = e
BY DEF Ends, Peer

(* A sequence is split in two without loss.                                *)
LEMMA TakeSkip ==
  ASSUME NEW S, NEW s \in Seq(S), NEW k \in 0 .. Len(s)
  PROVE  /\ Take(s, k) \in Seq(S) /\ Len(Take(s, k)) = k
         /\ \A i \in 1 .. k : Take(s, k)[i] = s[i]
         /\ Skip(s, k) \in Seq(S) /\ Len(Skip(s, k)) = Len(s) - k
         /\ \A i \in 1 .. Len(s) - k : Skip(s, k)[i] = s[k + i]
<1>1. Len(s) \in Nat /\ k \in Nat /\ k <= Len(s)
  BY LenProperties
<1>2. \A i \in 1 .. Len(s) : s[i] \in S
  BY <1>1, ElementOfSeq
<1>3. /\ Take(s, k) \in Seq(S) /\ Len(Take(s, k)) = k
      /\ \A i \in 1 .. k : Take(s, k)[i] = s[i]
  BY <1>1, <1>2, SubSeqProperties DEF Take
<1>4. /\ Skip(s, k) \in Seq(S) /\ Len(Skip(s, k)) = Len(s) - k
      /\ \A i \in 1 .. Len(s) - k : Skip(s, k)[i] = s[k + i]
  BY <1>1, <1>2, SubSeqProperties DEF Skip
<1>. QED
  BY <1>3, <1>4

(* Bounded buffers: what their operations return fits again.               *)
LEMMA BufferFacts ==
  /\ \A cap \in Nat : <<>> \in Bytes(cap)
  /\ \A cap \in Nat : \A s \in Seq(Byte) :
       \A k \in 0 .. Len(s) : k <= cap => Take(s, k) \in Bytes(cap)
  /\ \A cap \in Nat : \A s \in Bytes(cap) :
       \A k \in 0 .. Len(s) : Skip(s, k) \in Bytes(cap)
  /\ \A cap \in Nat : \A s \in Bytes(cap), t \in Seq(Byte) :
       Len(s) + Len(t) <= cap => s \o t \in Bytes(cap)
  /\ \A cap \in Nat : \A s \in Bytes(cap), b \in Byte :
       Len(s) < cap => Append(s, b) \in Bytes(cap)
<1>1. \A cap \in Nat : <<>> \in Bytes(cap)
  BY EmptySeq DEF Bytes
<1>2. ASSUME NEW cap \in Nat, NEW s \in Seq(Byte), NEW k \in 0 .. Len(s), k <= cap
      PROVE  Take(s, k) \in Bytes(cap)
  BY <1>2, TakeSkip DEF Bytes
<1>3. ASSUME NEW cap \in Nat, NEW s \in Bytes(cap), NEW k \in 0 .. Len(s)
      PROVE  Skip(s, k) \in Bytes(cap)
  <2>1. s \in Seq(Byte) /\ Len(s) \in Nat /\ Len(s) <= cap
    BY LenProperties DEF Bytes
  <2>. QED
    BY <2>1, TakeSkip DEF Bytes
<1>4. ASSUME NEW cap \in Nat, NEW s \in Bytes(cap), NEW t \in Seq(Byte),
             Len(s) + Len(t) <= cap
      PROVE  s \o t \in Bytes(cap)
  BY <1>4, ConcatProperties DEF Bytes
<1>5. ASSUME NEW cap \in Nat, NEW s \in Bytes(cap), NEW b \in Byte, Len(s) < cap
      PROVE  Append(s, b) \in Bytes(cap)
  BY <1>5, AppendProperties, LenProperties DEF Bytes
<1>. QED
  BY <1>1, <1>2, <1>3, <1>4, <1>5
-----------------------------------------------------------------------------
(* Dropping a clone of the Arc keeps the types of what it changes.         *)
LEMMA DropCloneType ==
  ASSUME NEW e \in Ends, NEW h, TypeOK, DropClone(e, h)
  PROVE  /\ holders' \in [Ends -> SUBSET Holders]
         /\ handle' \in [Ends -> {"none", "live", "cleaned", "leaked"}]
         /\ fin' \in [Ends -> BOOLEAN]
         /\ reset' \in BOOLEAN
<1>1. holders' \in [Ends -> SUBSET Holders]
  BY DEF DropClone, TypeOK
<1>2. CASE holders[e] = {h}
  BY <1>1, <1>2 DEF DropClone, TypeOK
<1>3. CASE holders[e] # {h}
  BY <1>1, <1>3 DEF DropClone, TypeOK
<1>. QED
  BY <1>2, <1>3

(* Every step of the session keeps the variables' types, and no buffer ever *)
(* outgrows its capacity.                                                  *)
THEOREM TypeCorrect == Spec => []TypeOK
<1>. USE SessionAssumption
<1>1. Init => TypeOK
  <2>1. /\ <<>> \in Bytes(DuplexCap) /\ <<>> \in Bytes(BufSize)
        /\ <<>> \in Bytes(WireCap) /\ <<>> \in Seq(Byte)
    BY BufferFacts, EmptySeq
  <2>2. ASSUME Init
        PROVE  /\ caller \in [Ends -> Stages]
               /\ negotiation \in [Ends -> {"none", "running", "ok", "err"}]
               /\ holders \in [Ends -> SUBSET Holders]
               /\ handle \in [Ends -> {"none", "live", "cleaned", "leaked"}]
               /\ writer \in [Ends -> WriterStages]
               /\ reader \in [Ends -> ReaderStages]
    BY <2>2 DEF Init, Stages, WriterStages, ReaderStages
  <2>3. ASSUME Init
        PROVE  /\ outPipe \in [Ends -> Bytes(DuplexCap)]
               /\ inPipe \in [Ends -> Bytes(DuplexCap)]
               /\ wbuf \in [Ends -> Bytes(BufSize)]
               /\ rbuf \in [Ends -> Bytes(BufSize)]
               /\ wire \in [Ends -> Bytes(WireCap)]
               /\ sent \in [Ends -> Seq(Byte)]
               /\ got \in [Ends -> Seq(Byte)]
    BY <2>1, <2>3 DEF Init
  <2>4. ASSUME Init
        PROVE  fin \in [Ends -> BOOLEAN] /\ reset \in BOOLEAN /\ faults \in 0 .. MaxFaults
    <3>1. fin \in [Ends -> BOOLEAN] /\ reset \in BOOLEAN
      BY <2>4, Zenon DEF Init
    <3>2. faults \in 0 .. MaxFaults
      BY <2>4 DEF Init
    <3>. QED
      BY <3>1, <3>2, Zenon
  <2>. QED
    BY <2>2, <2>3, <2>4, Zenon DEF TypeOK
<1>2. TypeOK /\ [Next]_vars => TypeOK'
  <2> SUFFICES ASSUME TypeOK, [Next]_vars PROVE TypeOK'
    OBVIOUS
  <2>. USE DEF TypeOK, Stages, WriterStages, ReaderStages, Holders
  <2>1. ASSUME NEW e \in Ends, NewSession(e) PROVE TypeOK'
    BY <2>1 DEF NewSession, outVars, inVars
  <2>2. ASSUME NEW e \in Ends, NewFails(e) PROVE TypeOK'
    BY <2>2 DEF NewFails, outVars, inVars
  <2>3. ASSUME NEW e \in Ends, Negotiate(e) PROVE TypeOK'
    <3>1. /\ negotiation' \in [Ends -> {"none", "running", "ok", "err"}]
          /\ DropClone(e, "negotiator")
          /\ UNCHANGED <<caller, writer, reader, outVars, inVars, wire>>
      BY <2>3 DEF Negotiate
    <3>2. faults' \in 0 .. MaxFaults
      BY <2>3, SessionAssumption DEF Negotiate
    <3>. QED
      BY <3>1, <3>2, DropCloneType DEF outVars, inVars
  <2>4. ASSUME NEW e \in Ends, NegotiateReturns(e) PROVE TypeOK'
    <3>1. UNCHANGED <<negotiation, outVars, inVars, wire, faults>>
      BY <2>4 DEF NegotiateReturns
    <3>2. /\ caller' \in [Ends -> Stages]
          /\ writer' \in [Ends -> WriterStages]
          /\ reader' \in [Ends -> ReaderStages]
      BY <2>4 DEF NegotiateReturns
    <3>3. CASE /\ holders' = [holders EXCEPT ![e] = {"writer", "reader"}]
               /\ UNCHANGED <<handle, fin, reset>>
      BY <3>1, <3>2, <3>3 DEF outVars, inVars
    <3>4. CASE DropClone(e, "caller")
      BY <3>1, <3>2, <3>4, DropCloneType DEF outVars, inVars
    <3>. QED
      BY <2>4, <3>3, <3>4 DEF NegotiateReturns
  <2>5. ASSUME NEW e \in Ends, AppWrite(e) PROVE TypeOK'
    <3>1. Len(sent[e]) \in Nat /\ Len(Payload[e]) \in Nat
      BY LenProperties
    <3>2. Payload[e][Len(sent[e]) + 1] \in Byte
      BY <2>5, <3>1, ElementOfSeq DEF AppWrite
    <3>3. /\ Append(outPipe[e], Payload[e][Len(sent[e]) + 1]) \in Bytes(DuplexCap)
          /\ Append(sent[e], Payload[e][Len(sent[e]) + 1]) \in Seq(Byte)
      BY <2>5, <3>2, BufferFacts, AppendProperties DEF AppWrite
    <3>. QED
      BY <2>5, <3>3 DEF AppWrite, ctlVars, arcVars, inVars
  <2>6. ASSUME NEW e \in Ends, AppRead(e) PROVE TypeOK'
    <3>1. PICK k \in 1 .. Len(inPipe[e]) :
            /\ got' = [got EXCEPT ![e] = @ \o Take(inPipe[e], k)]
            /\ inPipe' = [inPipe EXCEPT ![e] = Skip(@, k)]
      BY <2>6 DEF AppRead
    <3>2. inPipe[e] \in Seq(Byte) /\ Len(inPipe[e]) \in Nat
      BY LenProperties DEF Bytes
    <3>3. /\ got[e] \o Take(inPipe[e], k) \in Seq(Byte)
          /\ Skip(inPipe[e], k) \in Bytes(DuplexCap)
      BY <3>2, BufferFacts, TakeSkip, ConcatProperties
    <3>. QED
      BY <2>6, <3>1, <3>3 DEF AppRead, ctlVars, arcVars, outVars
  <2>7. ASSUME NEW e \in Ends, AppReadsEof(e) PROVE TypeOK'
    BY <2>7 DEF AppReadsEof, arcVars, outVars, inVars
  <2>8. ASSUME NEW e \in Ends, AppDrops(e) PROVE TypeOK'
    <3>1. CASE UNCHANGED arcVars
      BY <2>8, <3>1 DEF AppDrops, arcVars, outVars, inVars
    <3>2. CASE DropClone(e, "caller")
      BY <2>8, <3>2, DropCloneType DEF AppDrops, outVars, inVars
    <3>. QED
      BY <2>8, <3>1, <3>2 DEF AppDrops
  <2>9. ASSUME NEW e \in Ends, WriterRead(e) PROVE TypeOK'
    <3>. DEFINE r_len == SmallerOf(BufSize, Len(outPipe[e]))
    <3>1. outPipe[e] \in Seq(Byte) /\ Len(outPipe[e]) \in Nat
      BY LenProperties DEF Bytes
    <3>2. r_len \in 0 .. Len(outPipe[e]) /\ r_len <= BufSize
      BY <3>1 DEF SmallerOf
    <3>3. /\ Take(outPipe[e], r_len) \in Bytes(BufSize)
          /\ Skip(outPipe[e], r_len) \in Bytes(DuplexCap)
      BY <3>1, <3>2, BufferFacts
    <3>. QED
      BY <2>9, <3>3 DEF WriterRead, arcVars, inVars
  <2>10. ASSUME NEW e \in Ends, WriterReadsEof(e) PROVE TypeOK'
    BY <2>10 DEF WriterReadsEof, arcVars, outVars, inVars
  <2>11. ASSUME NEW e \in Ends, WriterTransmit(e) PROVE TypeOK'
    <3>1. PICK w_len \in 1 .. SmallerOf(Len(wbuf[e]), WireCap - Len(wire[e])) :
            /\ wire' = [wire EXCEPT ![e] = @ \o Take(wbuf[e], w_len)]
            /\ wbuf' = [wbuf EXCEPT ![e] = Skip(@, w_len)]
            /\ writer' = IF w_len = Len(wbuf[e])
                         THEN [writer EXCEPT ![e] = "read"] ELSE writer
      BY <2>11 DEF WriterTransmit
    <3>2. /\ wbuf[e] \in Seq(Byte) /\ Len(wbuf[e]) \in Nat
          /\ wire[e] \in Seq(Byte) /\ Len(wire[e]) \in Nat
      BY LenProperties DEF Bytes
    <3>3. w_len \in 0 .. Len(wbuf[e]) /\ Len(wire[e]) + w_len <= WireCap
      BY <3>2 DEF SmallerOf
    <3>4. /\ wire[e] \o Take(wbuf[e], w_len) \in Bytes(WireCap)
          /\ Skip(wbuf[e], w_len) \in Bytes(BufSize)
      BY <3>2, <3>3, BufferFacts, TakeSkip
    <3>5. reset' \in BOOLEAN
      BY <2>11 DEF WriterTransmit, SocketClosed
    <3>. QED
      BY <2>11, <3>1, <3>4, <3>5 DEF WriterTransmit, inVars
  <2>12. ASSUME NEW e \in Ends, WriterTransmitFails(e) PROVE TypeOK'
    BY <2>12 DEF WriterTransmitFails, arcVars, outVars, inVars
  <2>13. ASSUME NEW e \in Ends, WriterCloses(e) PROVE TypeOK'
    BY <2>13 DEF WriterCloses, outVars, inVars
  <2>14. ASSUME NEW e \in Ends, WriterReleases(e) PROVE TypeOK'
    BY <2>14, DropCloneType DEF WriterReleases, outVars, inVars
  <2>15. ASSUME NEW e \in Ends, ReaderReceive(e) PROVE TypeOK'
    <3>. DEFINE p == Peer(e)
    <3>1. p \in Ends /\ wire[p] \in Seq(Byte) /\ Len(wire[p]) \in Nat
      BY PeerFacts, LenProperties DEF Bytes
    <3>2. PICK r_len \in 1 .. SmallerOf(BufSize, Len(wire[p])) :
            /\ rbuf' = [rbuf EXCEPT ![e] = Take(wire[p], r_len)]
            /\ wire' = [wire EXCEPT ![p] = Skip(@, r_len)]
      BY <2>15 DEF ReaderReceive
    <3>3. r_len \in 0 .. Len(wire[p]) /\ r_len <= BufSize
      BY <3>1 DEF SmallerOf
    <3>4. /\ Take(wire[p], r_len) \in Bytes(BufSize)
          /\ Skip(wire[p], r_len) \in Bytes(WireCap)
      BY <3>1, <3>3, BufferFacts
    <3>. QED
      BY <2>15, <3>1, <3>2, <3>4 DEF ReaderReceive, arcVars, outVars
  <2>16. ASSUME NEW e \in Ends, ReaderReceiveFails(e) PROVE TypeOK'
    BY <2>16 DEF ReaderReceiveFails, arcVars, outVars, inVars
  <2>17. ASSUME NEW e \in Ends, ReaderWrite(e) PROVE TypeOK'
    <3>. DEFINE n == SmallerOf(Len(rbuf[e]), DuplexCap - Len(inPipe[e]))
    <3>1. /\ rbuf[e] \in Seq(Byte) /\ Len(rbuf[e]) \in Nat
          /\ inPipe[e] \in Seq(Byte) /\ Len(inPipe[e]) \in Nat
      BY LenProperties DEF Bytes
    <3>2. n \in 0 .. Len(rbuf[e]) /\ Len(inPipe[e]) + n <= DuplexCap
      BY <2>17, <3>1 DEF ReaderWrite, SmallerOf
    <3>3. /\ inPipe[e] \o Take(rbuf[e], n) \in Bytes(DuplexCap)
          /\ Skip(rbuf[e], n) \in Bytes(BufSize)
      BY <3>1, <3>2, BufferFacts, TakeSkip
    <3>. QED
      BY <2>17, <3>3 DEF ReaderWrite, arcVars, outVars
  <2>18. ASSUME NEW e \in Ends, ReaderWriteFails(e) PROVE TypeOK'
    BY <2>18 DEF ReaderWriteFails, arcVars, outVars, inVars
  <2>19. ASSUME NEW e \in Ends, ReaderCloses(e) PROVE TypeOK'
    BY <2>19 DEF ReaderCloses, arcVars, outVars, inVars
  <2>20. ASSUME NEW e \in Ends, ReaderReleases(e) PROVE TypeOK'
    BY <2>20, DropCloneType DEF ReaderReleases, outVars, inVars
  <2>21. ASSUME NetworkFails PROVE TypeOK'
    BY <2>21 DEF NetworkFails, ctlVars, outVars, inVars
  <2>22. ASSUME UNCHANGED vars PROVE TypeOK'
    BY <2>22 DEF vars, ctlVars, arcVars, outVars, inVars
  <2>. QED
    BY <2>1, <2>2, <2>3, <2>4, <2>5, <2>6, <2>7, <2>8, <2>9, <2>10, <2>11,
       <2>12, <2>13, <2>14, <2>15, <2>16, <2>17, <2>18, <2>19, <2>20, <2>21,
       <2>22 DEF Next, AppStep, WriterStep, ReaderStep
<1>. QED
  BY <1>1, <1>2, PTL DEF Spec
-----------------------------------------------------------------------------
(* Who holds a clone of the Arc is exactly who may still use the handle:   *)
(* a clone is given before its holder starts and dropped after it ends.    *)
Working == {"read", "receive", "transmit", "write", "close", "release"}

ArcOK(e) ==
  /\ caller[e] = "new" => negotiation[e] = "none" /\ handle[e] = "none"
  /\ caller[e] \in {"new", "awaiting", "failed"} =>
       writer[e] = "none" /\ reader[e] = "none"
  /\ caller[e] \in {"using", "eof"} => negotiation[e] = "ok"
  /\ "caller" \in holders[e] <=> caller[e] = "awaiting"
  /\ "negotiator" \in holders[e] <=> negotiation[e] = "running"
  /\ "writer" \in holders[e] <=> writer[e] \in Working
  /\ "reader" \in holders[e] <=> reader[e] \in Working
  /\ handle[e] = "live" <=> holders[e] # {}
  /\ handle[e] = "leaked" => caller[e] = "failed"

ArcInv == \A e \in Ends : ArcOK(e)

(* No thread runs and no handle exists at the start.                       *)
LEMMA ArcInit == Init => ArcInv
BY DEF Init, ArcInv, ArcOK, Working

(* Every step keeps the clones of the Arc in accord with who is at work.   *)
LEMMA ArcStep == TypeOK /\ ArcInv /\ [Next]_vars => ArcInv'
<1> SUFFICES ASSUME TypeOK, ArcInv, [Next]_vars PROVE ArcInv'
  OBVIOUS
<1>. USE DEF ArcInv, ArcOK, Working
<1>. DEFINE Typed ==
       /\ caller \in [Ends -> Stages]
       /\ negotiation \in [Ends -> {"none", "running", "ok", "err"}]
       /\ holders \in [Ends -> SUBSET Holders]
       /\ handle \in [Ends -> {"none", "live", "cleaned", "leaked"}]
       /\ writer \in [Ends -> WriterStages]
       /\ reader \in [Ends -> ReaderStages]
<1>1. Typed
  BY DEF TypeOK
<1>. USE DEF Stages, Holders, WriterStages, ReaderStages
<1>2. ASSUME NEW e \in Ends, NewSession(e) PROVE ArcInv'
  BY <1>1, <1>2 DEF NewSession
<1>3. ASSUME NEW e \in Ends, NewFails(e) PROVE ArcInv'
  BY <1>1, <1>3 DEF NewFails
<1>4. ASSUME NEW e \in Ends, Negotiate(e) PROVE ArcInv'
  BY <1>1, <1>4 DEF Negotiate, DropClone
<1>5. ASSUME NEW e \in Ends, NegotiateReturns(e) PROVE ArcInv'
  BY <1>1, <1>5 DEF NegotiateReturns, DropClone
<1>6. ASSUME NEW e \in Ends, AppReadsEof(e) PROVE ArcInv'
  BY <1>1, <1>6 DEF AppReadsEof, arcVars
<1>7. ASSUME NEW e \in Ends, AppDrops(e) PROVE ArcInv'
  BY <1>1, <1>7 DEF AppDrops, DropClone, arcVars
<1>8. ASSUME NEW e \in Ends, AppWrite(e) \/ AppRead(e) PROVE ArcInv'
  <2>1. UNCHANGED <<ctlVars, arcVars>>
    BY <1>8, Zenon DEF AppWrite, AppRead
  <2>. QED
    BY <2>1 DEF ctlVars, arcVars
<1>9. ASSUME NEW e \in Ends, WriterStep(e), ~WriterReleases(e) PROVE ArcInv'
  <2>1. /\ UNCHANGED <<caller, negotiation, reader, holders, handle>>
        /\ writer' = writer \/ \E w \in Working \cap WriterStages :
             writer[e] \in Working /\ writer' = [writer EXCEPT ![e] = w]
    BY <1>9 DEF WriterStep, WriterRead, WriterReadsEof, WriterTransmit,
                WriterTransmitFails, WriterCloses, arcVars
  <2>. QED
    BY <1>1, <2>1
<1>10. ASSUME NEW e \in Ends, ReaderStep(e), ~ReaderReleases(e) PROVE ArcInv'
  <2>1. /\ UNCHANGED <<caller, negotiation, writer, holders, handle>>
        /\ reader' = reader \/ \E r \in Working \cap ReaderStages :
             reader[e] \in Working /\ reader' = [reader EXCEPT ![e] = r]
    BY <1>10 DEF ReaderStep, ReaderReceive, ReaderReceiveFails, ReaderWrite,
                 ReaderWriteFails, ReaderCloses, arcVars
  <2>. QED
    BY <1>1, <2>1
<1>11. ASSUME NEW e \in Ends, WriterReleases(e) PROVE ArcInv'
  BY <1>1, <1>11 DEF WriterReleases, DropClone
<1>12. ASSUME NEW e \in Ends, ReaderReleases(e) PROVE ArcInv'
  BY <1>1, <1>12 DEF ReaderReleases, DropClone
<1>13. ASSUME NetworkFails \/ UNCHANGED vars PROVE ArcInv'
  BY <1>1, <1>13 DEF NetworkFails, vars, ctlVars, arcVars
<1>. QED
  BY <1>2, <1>3, <1>4, <1>5, <1>6, <1>7, <1>8, <1>9, <1>10, <1>11, <1>12, <1>13
  DEF Next, AppStep

(* The accounting of the Arc's clones (lib.rs:136-218) holds throughout:   *)
(* exactly those at work hold one, and the handle lives while anyone does. *)
THEOREM ArcCorrect == Spec => []ArcInv
<1>. QED
  BY TypeCorrect, ArcInit, ArcStep, PTL DEF Spec

(* No thread is ever inside librats_tls with a handle that was cleaned up, *)
(* nor with a socket that was closed.                                      *)
THEOREM NeverUsedAfterCleanup == Spec => []NoUseAfterCleanup
<1>1. TypeOK /\ ArcInv => NoUseAfterCleanup
  BY DEF TypeOK, ArcInv, ArcOK, Working, NoUseAfterCleanup, UsesHandle, SocketClosed
<1>. QED
  BY <1>1, TypeCorrect, ArcCorrect, PTL

(* A finished session has given its handle back.                           *)
THEOREM AlwaysReturned == Spec => []HandleReturned
<1>1. TypeOK /\ ArcInv => HandleReturned
  <2> SUFFICES ASSUME TypeOK, ArcInv, NEW e \in Ends
               PROVE  /\ Finished(e) => handle[e] # "live"
                      /\ handle[e] = "leaked" => caller[e] = "failed"
    BY DEF HandleReturned
  <2>1. ArcOK(e) /\ holders[e] \subseteq Holders
    BY DEF TypeOK, ArcInv
  <2>2. Finished(e) => holders[e] = {}
    BY <2>1 DEF ArcOK, Working, Holders, Finished, Gone
  <2>. QED
    BY <2>1, <2>2 DEF ArcOK
<1>. QED
  BY <1>1, TypeCorrect, ArcCorrect, PTL
-----------------------------------------------------------------------------
(* Where each byte is.  The bytes accepted from the application at e lie,  *)
(* in the order they were written, in what the peer has read, the peer's   *)
(* pipe and reader buffer, the connection, e's writer buffer and e's pipe. *)
Slice(s, off, x) == \A i \in 1 .. Len(x) : x[i] = s[off + i]

Chain(s, g, i, r, w, b, o) ==
  /\ Len(s) = Len(g) + Len(i) + Len(r) + Len(w) + Len(b) + Len(o)
  /\ Slice(s, 0, g)
  /\ Slice(s, Len(g), i)
  /\ Slice(s, Len(g) + Len(i), r)
  /\ Slice(s, Len(g) + Len(i) + Len(r), w)
  /\ Slice(s, Len(g) + Len(i) + Len(r) + Len(w), b)
  /\ Slice(s, Len(g) + Len(i) + Len(r) + Len(w) + Len(b), o)

(* The part taken from the front of a buffer and appended to the buffer    *)
(* before it, and the part that is left, are still slices of the stream.   *)
LEMMA SliceMove ==
  ASSUME NEW S, NEW s \in Seq(S), NEW a \in Seq(S), NEW b \in Seq(S),
         NEW off \in Nat, NEW k \in 0 .. Len(b),
         Slice(s, off, a), Slice(s, off + Len(a), b)
  PROVE  /\ a \o Take(b, k) \in Seq(S) /\ Len(a \o Take(b, k)) = Len(a) + k
         /\ Skip(b, k) \in Seq(S) /\ Len(Skip(b, k)) = Len(b) - k
         /\ Slice(s, off, a \o Take(b, k))
         /\ Slice(s, off + Len(a) + k, Skip(b, k))
<1>1. Len(a) \in Nat /\ Len(b) \in Nat /\ k \in Nat /\ k <= Len(b)
  BY LenProperties
<1>2. /\ Take(b, k) \in Seq(S) /\ Len(Take(b, k)) = k
      /\ \A i \in 1 .. k : Take(b, k)[i] = b[i]
      /\ Skip(b, k) \in Seq(S) /\ Len(Skip(b, k)) = Len(b) - k
      /\ \A i \in 1 .. Len(b) - k : Skip(b, k)[i] = b[k + i]
  BY TakeSkip
<1>3. /\ a \o Take(b, k) \in Seq(S) /\ Len(a \o Take(b, k)) = Len(a) + k
      /\ \A i \in 1 .. Len(a) + k : (a \o Take(b, k))[i] =
           IF i <= Len(a) THEN a[i] ELSE Take(b, k)[i - Len(a)]
  <2>1. \A t \in Seq(S) :
          /\ a \o t \in Seq(S) /\ Len(a \o t) = Len(a) + Len(t)
          /\ \A i \in 1 .. Len(a) + Len(t) :
               (a \o t)[i] = IF i <= Len(a) THEN a[i] ELSE t[i - Len(a)]
    BY ConcatProperties
  <2>. QED
    BY <1>2, <2>1, Zenon
<1>4. Slice(s, off, a \o Take(b, k))
  <2> SUFFICES ASSUME NEW i \in 1 .. Len(a) + k
               PROVE  (a \o Take(b, k))[i] = s[off + i]
    BY <1>3 DEF Slice
  <2>1. CASE i <= Len(a)
    BY <1>1, <1>3, <2>1 DEF Slice
  <2>2. CASE i > Len(a)
    <3>1. i - Len(a) \in 1 .. k /\ i - Len(a) \in 1 .. Len(b)
      BY <1>1, <2>2
    <3>2. (a \o Take(b, k))[i] = b[i - Len(a)]
      BY <1>1, <1>2, <1>3, <2>2, <3>1
    <3>3. b[i - Len(a)] = s[(off + Len(a)) + (i - Len(a))]
      BY <3>1 DEF Slice
    <3>4. (off + Len(a)) + (i - Len(a)) = off + i
      BY <1>1
    <3>. QED
      BY <3>2, <3>3, <3>4
  <2>3. i <= Len(a) \/ i > Len(a)
    BY <1>1
  <2>. QED
    BY <2>1, <2>2, <2>3
<1>5. Slice(s, off + Len(a) + k, Skip(b, k))
  <2> SUFFICES ASSUME NEW i \in 1 .. Len(b) - k
               PROVE  Skip(b, k)[i] = s[off + Len(a) + k + i]
    BY <1>2 DEF Slice
  <2>1. k + i \in 1 .. Len(b) /\ off + Len(a) + (k + i) = off + Len(a) + k + i
    BY <1>1
  <2>2. Skip(b, k)[i] = b[k + i]
    BY <1>2
  <2>3. b[k + i] = s[(off + Len(a)) + (k + i)]
    BY <2>1 DEF Slice
  <2>. QED
    BY <2>1, <2>2, <2>3
<1>. QED
  BY <1>2, <1>3, <1>4, <1>5

(* A step that moves bytes from a buffer to the one before it keeps every  *)
(* byte of the stream in its place, and so does accepting a new byte.      *)
LEMMA ChainMoves ==
  ASSUME NEW S, NEW s \in Seq(S), NEW g \in Seq(S), NEW i \in Seq(S),
         NEW r \in Seq(S), NEW w \in Seq(S), NEW b \in Seq(S), NEW o \in Seq(S),
         Chain(s, g, i, r, w, b, o)
  PROVE  /\ \A k \in 0 .. Len(i) : Chain(s, g \o Take(i, k), Skip(i, k), r, w, b, o)
         /\ \A k \in 0 .. Len(r) : Chain(s, g, i \o Take(r, k), Skip(r, k), w, b, o)
         /\ \A k \in 0 .. Len(w) : Chain(s, g, i, r \o Take(w, k), Skip(w, k), b, o)
         /\ \A k \in 0 .. Len(b) : Chain(s, g, i, r, w \o Take(b, k), Skip(b, k), o)
         /\ \A k \in 0 .. Len(o) : Chain(s, g, i, r, w, b \o Take(o, k), Skip(o, k))
         /\ \A x \in S : Chain(Append(s, x), g, i, r, w, b, Append(o, x))
<1>1. /\ Len(s) \in Nat /\ Len(g) \in Nat /\ Len(i) \in Nat /\ Len(r) \in Nat
      /\ Len(w) \in Nat /\ Len(b) \in Nat /\ Len(o) \in Nat
  BY LenProperties
<1>2. ASSUME NEW k \in 0 .. Len(i)
      PROVE  Chain(s, g \o Take(i, k), Skip(i, k), r, w, b, o)
  <2>1. /\ Len(g \o Take(i, k)) = Len(g) + k /\ Len(Skip(i, k)) = Len(i) - k
        /\ Slice(s, 0, g \o Take(i, k)) /\ Slice(s, 0 + Len(g) + k, Skip(i, k))
    <3>1. Slice(s, 0, g) /\ Slice(s, 0 + Len(g), i)
      BY <1>1 DEF Chain
    <3>. QED
      BY <3>1, SliceMove
  <2>. QED
    BY <1>1, <2>1 DEF Chain
<1>3. ASSUME NEW k \in 0 .. Len(r)
      PROVE  Chain(s, g, i \o Take(r, k), Skip(r, k), w, b, o)
  <2>. DEFINE off == Len(g)
  <2>1. /\ Len(i \o Take(r, k)) = Len(i) + k /\ Len(Skip(r, k)) = Len(r) - k
        /\ Slice(s, off, i \o Take(r, k)) /\ Slice(s, off + Len(i) + k, Skip(r, k))
    <3>1. off \in Nat /\ Slice(s, off, i) /\ Slice(s, off + Len(i), r)
      BY <1>1 DEF Chain
    <3>. HIDE DEF off
    <3>. QED
      BY <3>1, SliceMove
  <2>. QED
    BY <1>1, <2>1 DEF Chain
<1>4. ASSUME NEW k \in 0 .. Len(w)
      PROVE  Chain(s, g, i, r \o Take(w, k), Skip(w, k), b, o)
  <2>. DEFINE off == Len(g) + Len(i)
  <2>1. /\ Len(r \o Take(w, k)) = Len(r) + k /\ Len(Skip(w, k)) = Len(w) - k
        /\ Slice(s, off, r \o Take(w, k)) /\ Slice(s, off + Len(r) + k, Skip(w, k))
    <3>1. off \in Nat /\ Slice(s, off, r) /\ Slice(s, off + Len(r), w)
      BY <1>1 DEF Chain
    <3>. HIDE DEF off
    <3>. QED
      BY <3>1, SliceMove
  <2>. QED
    BY <1>1, <2>1 DEF Chain
<1>5. ASSUME NEW k \in 0 .. Len(b)
      PROVE  Chain(s, g, i, r, w \o Take(b, k), Skip(b, k), o)
  <2>. DEFINE off == Len(g) + Len(i) + Len(r)
  <2>1. /\ Len(w \o Take(b, k)) = Len(w) + k /\ Len(Skip(b, k)) = Len(b) - k
        /\ Slice(s, off, w \o Take(b, k)) /\ Slice(s, off + Len(w) + k, Skip(b, k))
    <3>1. off \in Nat /\ Slice(s, off, w) /\ Slice(s, off + Len(w), b)
      BY <1>1 DEF Chain
    <3>. HIDE DEF off
    <3>. QED
      BY <3>1, SliceMove
  <2>. QED
    BY <1>1, <2>1 DEF Chain
<1>6. ASSUME NEW k \in 0 .. Len(o)
      PROVE  Chain(s, g, i, r, w, b \o Take(o, k), Skip(o, k))
  <2>. DEFINE off == Len(g) + Len(i) + Len(r) + Len(w)
  <2>1. /\ Len(b \o Take(o, k)) = Len(b) + k /\ Len(Skip(o, k)) = Len(o) - k
        /\ Slice(s, off, b \o Take(o, k)) /\ Slice(s, off + Len(b) + k, Skip(o, k))
    <3>1. off \in Nat /\ Slice(s, off, b) /\ Slice(s, off + Len(b), o)
      BY <1>1 DEF Chain
    <3>. HIDE DEF off
    <3>. QED
      BY <3>1, SliceMove
  <2>. QED
    BY <1>1, <2>1 DEF Chain
<1>7. ASSUME NEW x \in S
      PROVE  Chain(Append(s, x), g, i, r, w, b, Append(o, x))
  <2>1. /\ Len(Append(s, x)) = Len(s) + 1 /\ Len(Append(o, x)) = Len(o) + 1
        /\ \A n \in 1 .. Len(s) : Append(s, x)[n] = s[n]
        /\ Append(s, x)[Len(s) + 1] = x
        /\ \A n \in 1 .. Len(o) : Append(o, x)[n] = o[n]
        /\ Append(o, x)[Len(o) + 1] = x
    BY AppendProperties
  <2>2. ASSUME NEW off \in Nat, NEW y \in Seq(S), Slice(s, off, y),
               off + Len(y) <= Len(s)
        PROVE  Slice(Append(s, x), off, y)
    BY <1>1, <2>1, <2>2, LenProperties DEF Slice
  <2>3. Slice(Append(s, x), Len(s) - Len(o), Append(o, x))
    <3>1. Len(s) - Len(o) \in Nat /\ Slice(s, Len(s) - Len(o), o)
      BY <1>1 DEF Chain
    <3>2. ASSUME NEW n \in 1 .. Len(o)
          PROVE  Append(o, x)[n] = Append(s, x)[Len(s) - Len(o) + n]
      BY <1>1, <2>1, <3>1 DEF Slice
    <3>3. Append(o, x)[Len(o) + 1] = Append(s, x)[Len(s) - Len(o) + (Len(o) + 1)]
      BY <1>1, <2>1
    <3>4. \A n \in 1 .. Len(o) + 1 : n \in 1 .. Len(o) \/ n = Len(o) + 1
      BY <1>1
    <3>5. \A n \in 1 .. Len(Append(o, x)) :
            Append(o, x)[n] = Append(s, x)[Len(s) - Len(o) + n]
      BY <2>1, <3>2, <3>3, <3>4, Zenon
    <3>. QED
      BY <3>5, Zenon DEF Slice
  <2>. QED
    BY <1>1, <2>1, <2>2, <2>3 DEF Chain
<1>. QED
  BY <1>2, <1>3, <1>4, <1>5, <1>6, <1>7

FlowOK(e) ==
  /\ Chain(sent[e], got[Peer(e)], inPipe[Peer(e)], rbuf[Peer(e)], wire[e],
           wbuf[e], outPipe[e])
  /\ writer[e] \in {"none", "read"} => wbuf[e] = <<>>
  /\ reader[e] \in {"none", "receive"} => rbuf[e] = <<>>

FlowInv == \A e \in Ends : FlowOK(e)

(* Empty buffers are a chain of slices of an empty stream.                 *)
LEMMA FlowInit == Init => FlowInv
<1>1. Chain(<<>>, <<>>, <<>>, <<>>, <<>>, <<>>, <<>>)
  BY DEF Chain, Slice
<1>. QED
  BY <1>1, PeerFacts DEF Init, FlowInv, FlowOK

(* Every step keeps the bytes of the stream in their places.               *)
LEMMA FlowStep == TypeOK /\ ArcInv /\ FlowInv /\ [Next]_vars => FlowInv'
<1> SUFFICES ASSUME TypeOK, ArcInv, FlowInv, [Next]_vars PROVE FlowInv'
  OBVIOUS
<1>1. /\ caller \in [Ends -> Stages] /\ writer \in [Ends -> WriterStages]
      /\ reader \in [Ends -> ReaderStages]
      /\ sent \in [Ends -> Seq(Byte)] /\ got \in [Ends -> Seq(Byte)]
      /\ outPipe \in [Ends -> Seq(Byte)] /\ inPipe \in [Ends -> Seq(Byte)]
      /\ wbuf \in [Ends -> Seq(Byte)] /\ rbuf \in [Ends -> Seq(Byte)]
      /\ wire \in [Ends -> Seq(Byte)]
  BY DEF TypeOK, Bytes
(* The steps that move no byte.                                            *)
<1>2. ASSUME UNCHANGED <<outVars, inVars, wire>>,
             \A e \in Ends :
               /\ writer'[e] \in {"none", "read"} => wbuf[e] = <<>>
               /\ reader'[e] \in {"none", "receive"} => rbuf[e] = <<>>
      PROVE  FlowInv'
  BY <1>2, PeerFacts DEF FlowInv, FlowOK, outVars, inVars
<1>3. ASSUME NEW e \in Ends, NewSession(e) \/ NewFails(e) \/ Negotiate(e)
                             \/ AppReadsEof(e) \/ AppDrops(e)
      PROVE  FlowInv'
  <2>1. UNCHANGED <<writer, reader, outVars, inVars, wire>>
    BY <1>3, Zenon DEF NewSession, NewFails, Negotiate, AppReadsEof, AppDrops
  <2>. QED
    BY <1>2, <2>1 DEF FlowInv, FlowOK
<1>4. ASSUME NEW e \in Ends, NegotiateReturns(e) PROVE FlowInv'
  <2>1. writer[e] = "none" /\ reader[e] = "none"
    BY <1>4 DEF NegotiateReturns, ArcInv, ArcOK
  <2>2. /\ wbuf[e] = <<>> /\ rbuf[e] = <<>>
        /\ UNCHANGED <<outVars, inVars, wire>>
        /\ \A f \in Ends \ {e} : writer'[f] = writer[f] /\ reader'[f] = reader[f]
    BY <1>1, <1>4, <2>1, PeerFacts DEF NegotiateReturns, FlowInv, FlowOK
  <2>. QED
    BY <1>2, <2>2, PeerFacts DEF FlowInv, FlowOK
(* The steps that move some: only the stream from d changes.               *)
<1>5. ASSUME NEW d \in Ends,
             Chain(sent'[d], got'[Peer(d)], inPipe'[Peer(d)], rbuf'[Peer(d)],
                   wire'[d], wbuf'[d], outPipe'[d]),
             \A f \in Ends \ {d} :
               /\ sent'[f] = sent[f] /\ got'[Peer(f)] = got[Peer(f)]
               /\ inPipe'[Peer(f)] = inPipe[Peer(f)] /\ rbuf'[Peer(f)] = rbuf[Peer(f)]
               /\ wire'[f] = wire[f] /\ wbuf'[f] = wbuf[f]
               /\ outPipe'[f] = outPipe[f],
             \A e \in Ends :
               /\ writer'[e] \in {"none", "read"} => wbuf'[e] = <<>>
               /\ reader'[e] \in {"none", "receive"} => rbuf'[e] = <<>>
      PROVE  FlowInv'
  <2> SUFFICES ASSUME NEW e \in Ends PROVE FlowOK(e)'
    BY DEF FlowInv
  <2>1. CASE e = d
    BY <1>5, <2>1 DEF FlowOK
  <2>2. CASE e # d
    BY <1>5, <2>2 DEF FlowInv, FlowOK
  <2>. QED
    BY <2>1, <2>2
<1>6. \A e \in Ends :
        /\ Peer(e) \in Ends
        /\ Chain(sent[e], got[Peer(e)], inPipe[Peer(e)], rbuf[Peer(e)], wire[e],
                 wbuf[e], outPipe[e])
        /\ writer[e] \in {"none", "read"} => wbuf[e] = <<>>
        /\ reader[e] \in {"none", "receive"} => rbuf[e] = <<>>
  BY PeerFacts DEF FlowInv, FlowOK
<1>7. ASSUME NEW e \in Ends, AppWrite(e) PROVE FlowInv'
  <2>. DEFINE x == Payload[e][Len(sent[e]) + 1]
  <2>1. x \in Byte
    <3>1. Payload[e] \in Seq(Byte) /\ Len(sent[e]) \in Nat /\ Len(Payload[e]) \in Nat
      BY <1>1, SessionAssumption, LenProperties
    <3>. QED
      BY <1>7, <3>1, ElementOfSeq DEF AppWrite
  <2>2. /\ outPipe' = [outPipe EXCEPT ![e] = Append(@, x)]
        /\ sent' = [sent EXCEPT ![e] = Append(@, x)]
        /\ UNCHANGED <<writer, reader, wbuf, wire>>
        /\ UNCHANGED <<inPipe, rbuf, got>>
    BY <1>7 DEF AppWrite, ctlVars, inVars
  <2>. HIDE DEF x
  <2>3. Chain(Append(sent[e], x), got[Peer(e)], inPipe[Peer(e)], rbuf[Peer(e)],
              wire[e], wbuf[e], Append(outPipe[e], x))
    BY <1>1, <1>6, <2>1, ChainMoves
  <2>. QED
    BY <1>1, <1>5, <1>6, <2>2, <2>3
<1>8. ASSUME NEW e \in Ends, AppRead(e) PROVE FlowInv'
  <2>. DEFINE d == Peer(e)
  <2>1. d \in Ends /\ Peer(d) = e /\ \A f \in Ends \ {d} : Peer(f) # e
    BY PeerFacts DEF Ends
  <2>2. PICK k \in 1 .. Len(inPipe[e]) :
          /\ got' = [got EXCEPT ![e] = @ \o Take(inPipe[e], k)]
          /\ inPipe' = [inPipe EXCEPT ![e] = Skip(@, k)]
    BY <1>8 DEF AppRead
  <2>3. UNCHANGED <<writer, reader, outPipe, wbuf, sent, rbuf, wire>>
    BY <1>8 DEF AppRead, ctlVars, outVars
  <2>4. k \in 0 .. Len(inPipe[e])
    OBVIOUS
  <2>5. Chain(sent[d], got[e] \o Take(inPipe[e], k), Skip(inPipe[e], k), rbuf[e],
              wire[d], wbuf[d], outPipe[d])
    BY <1>1, <1>6, <2>1, <2>4, ChainMoves
  <2>. QED
    BY <1>1, <1>5, <1>6, <2>1, <2>2, <2>3, <2>5
<1>9. ASSUME NEW e \in Ends, WriterRead(e) PROVE FlowInv'
  <2>. DEFINE r_len == SmallerOf(BufSize, Len(outPipe[e]))
  <2>1. r_len \in 0 .. Len(outPipe[e])
    BY <1>1, SessionAssumption, LenProperties DEF SmallerOf
  <2>2. /\ wbuf' = [wbuf EXCEPT ![e] = Take(outPipe[e], r_len)]
        /\ outPipe' = [outPipe EXCEPT ![e] = Skip(@, r_len)]
        /\ writer' = [writer EXCEPT ![e] = "transmit"] /\ writer[e] = "read"
        /\ UNCHANGED <<reader, sent, inPipe, rbuf, got, wire>>
    BY <1>9 DEF WriterRead, inVars
  <2>. HIDE DEF r_len
  <2>3. wbuf[e] \o Take(outPipe[e], r_len) = Take(outPipe[e], r_len)
    <3>1. wbuf[e] = <<>> /\ outPipe[e] \in Seq(Byte)
      BY <1>1, <1>6, <2>2
    <3>2. Take(outPipe[e], r_len) \in Seq(Byte)
      BY <2>1, <3>1, TakeSkip
    <3>. QED
      BY <3>1, <3>2, ConcatEmptySeq
  <2>4. Chain(sent[e], got[Peer(e)], inPipe[Peer(e)], rbuf[Peer(e)], wire[e],
              wbuf[e] \o Take(outPipe[e], r_len), Skip(outPipe[e], r_len))
    BY <1>1, <1>6, <2>1, ChainMoves
  <2>. QED
    BY <1>1, <1>5, <1>6, <2>2, <2>3, <2>4 DEF WriterStages
<1>10. ASSUME NEW e \in Ends, WriterTransmit(e) PROVE FlowInv'
  <2>1. PICK w_len \in 1 .. SmallerOf(Len(wbuf[e]), WireCap - Len(wire[e])) :
          /\ wire' = [wire EXCEPT ![e] = @ \o Take(wbuf[e], w_len)]
          /\ wbuf' = [wbuf EXCEPT ![e] = Skip(@, w_len)]
          /\ writer' = IF w_len = Len(wbuf[e])
                       THEN [writer EXCEPT ![e] = "read"] ELSE writer
    BY <1>10 DEF WriterTransmit
  <2>2. /\ writer[e] = "transmit"
        /\ UNCHANGED <<reader, outPipe, sent, inPipe, rbuf, got>>
    BY <1>10 DEF WriterTransmit, inVars
  <2>3. w_len \in 0 .. Len(wbuf[e]) /\ Len(wbuf[e]) \in Nat
    BY <1>1, SessionAssumption, LenProperties DEF SmallerOf
  <2>4. Chain(sent[e], got[Peer(e)], inPipe[Peer(e)], rbuf[Peer(e)],
              wire[e] \o Take(wbuf[e], w_len), Skip(wbuf[e], w_len), outPipe[e])
    BY <1>1, <1>6, <2>3, ChainMoves
  <2>5. w_len = Len(wbuf[e]) => Skip(wbuf[e], w_len) = <<>>
    <3>1. /\ Skip(wbuf[e], w_len) \in Seq(Byte)
          /\ Len(Skip(wbuf[e], w_len)) = Len(wbuf[e]) - w_len
      <4>1. wbuf[e] \in Seq(Byte)
        BY <1>1
      <4>. QED
        BY <2>3, <4>1, TakeSkip
    <3>. QED
      BY <2>3, <3>1, EmptySeq
  <2>6. writer'[e] \in {"none", "read"} => wbuf'[e] = <<>>
    BY <1>1, <2>1, <2>2, <2>5
  <2>. QED
    BY <1>1, <1>5, <1>6, <2>1, <2>2, <2>4, <2>6
<1>11. ASSUME NEW e \in Ends, ReaderReceive(e) PROVE FlowInv'
  <2>. DEFINE d == Peer(e)
  <2>1. d \in Ends /\ Peer(d) = e /\ \A f \in Ends \ {d} : Peer(f) # e
    BY PeerFacts DEF Ends
  <2>2. PICK r_len \in 1 .. SmallerOf(BufSize, Len(wire[d])) :
          /\ rbuf' = [rbuf EXCEPT ![e] = Take(wire[d], r_len)]
          /\ wire' = [wire EXCEPT ![d] = Skip(@, r_len)]
    BY <1>11 DEF ReaderReceive
  <2>3. /\ reader[e] = "receive" /\ reader' = [reader EXCEPT ![e] = "write"]
        /\ UNCHANGED <<writer, outPipe, wbuf, sent, inPipe, got>>
    BY <1>11 DEF ReaderReceive, outVars
  <2>4. r_len \in 0 .. Len(wire[d])
    BY <1>1, <2>1, SessionAssumption, LenProperties DEF SmallerOf
  <2>5. rbuf[e] \o Take(wire[d], r_len) = Take(wire[d], r_len)
    <3>1. rbuf[e] = <<>> /\ wire[d] \in Seq(Byte)
      BY <1>1, <1>6, <2>1, <2>3
    <3>2. Take(wire[d], r_len) \in Seq(Byte)
      BY <2>4, <3>1, TakeSkip
    <3>. QED
      BY <3>1, <3>2, ConcatEmptySeq
  <2>6. Chain(sent[d], got[e], inPipe[e], rbuf[e] \o Take(wire[d], r_len),
              Skip(wire[d], r_len), wbuf[d], outPipe[d])
    BY <1>1, <1>6, <2>1, <2>4, ChainMoves
  <2>7. Chain(sent'[d], got'[e], inPipe'[e], rbuf'[e], wire'[d], wbuf'[d], outPipe'[d])
    BY <1>1, <2>1, <2>2, <2>3, <2>5, <2>6
  <2>8. reader'[e] = "write" /\ \A f \in Ends \ {e} : reader'[f] = reader[f] /\ rbuf'[f] = rbuf[f]
    BY <1>1, <2>2, <2>3
  <2>. QED
    <3>1. \A f \in Ends \ {d} :
            /\ sent'[f] = sent[f] /\ got'[Peer(f)] = got[Peer(f)]
            /\ inPipe'[Peer(f)] = inPipe[Peer(f)] /\ rbuf'[Peer(f)] = rbuf[Peer(f)]
            /\ wire'[f] = wire[f] /\ wbuf'[f] = wbuf[f]
            /\ outPipe'[f] = outPipe[f]
      BY <1>1, <1>6, <2>1, <2>2, <2>3
    <3>2. \A f \in Ends :
            /\ writer'[f] \in {"none", "read"} => wbuf'[f] = <<>>
            /\ reader'[f] \in {"none", "receive"} => rbuf'[f] = <<>>
      BY <1>1, <1>6, <2>3, <2>8
    <3>. QED
      BY <1>5, <2>1, <2>7, <3>1, <3>2
<1>12. ASSUME NEW e \in Ends, ReaderWrite(e) PROVE FlowInv'
  <2>. DEFINE d == Peer(e)
              n == SmallerOf(Len(rbuf[e]), DuplexCap - Len(inPipe[e]))
  <2>1. d \in Ends /\ Peer(d) = e /\ \A f \in Ends \ {d} : Peer(f) # e
    BY PeerFacts DEF Ends
  <2>2. n \in 0 .. Len(rbuf[e]) /\ Len(rbuf[e]) \in Nat
    BY <1>1, <1>12, SessionAssumption, LenProperties DEF SmallerOf, ReaderWrite
  <2>3. /\ inPipe' = [inPipe EXCEPT ![e] = @ \o Take(rbuf[e], n)]
        /\ rbuf' = [rbuf EXCEPT ![e] = Skip(@, n)]
        /\ reader' = IF n = Len(rbuf[e])
                     THEN [reader EXCEPT ![e] = "receive"] ELSE reader
        /\ reader[e] = "write"
        /\ UNCHANGED <<writer, outPipe, wbuf, sent, got, wire>>
    BY <1>12 DEF ReaderWrite, outVars
  <2>. HIDE DEF n
  <2>4. Chain(sent[d], got[e], inPipe[e] \o Take(rbuf[e], n), Skip(rbuf[e], n),
              wire[d], wbuf[d], outPipe[d])
    BY <1>1, <1>6, <2>1, <2>2, ChainMoves
  <2>5. n = Len(rbuf[e]) => Skip(rbuf[e], n) = <<>>
    <3>1. /\ Skip(rbuf[e], n) \in Seq(Byte)
          /\ Len(Skip(rbuf[e], n)) = Len(rbuf[e]) - n
      BY <1>1, <2>2, TakeSkip
    <3>. QED
      BY <2>2, <3>1, EmptySeq
  <2>6. reader'[e] \in {"none", "receive"} => rbuf'[e] = <<>>
    BY <1>1, <2>3, <2>5
  <2>. QED
    BY <1>1, <1>5, <1>6, <2>1, <2>3, <2>4, <2>6
<1>13. ASSUME NEW e \in Ends,
              \/ WriterReadsEof(e) \/ WriterTransmitFails(e) \/ WriterCloses(e)
              \/ WriterReleases(e) \/ ReaderReceiveFails(e) \/ ReaderWriteFails(e)
              \/ ReaderCloses(e) \/ ReaderReleases(e)
       PROVE  FlowInv'
  <2>1. /\ UNCHANGED <<outVars, inVars, wire>>
        /\ \A f \in Ends : writer'[f] = writer[f] \/ writer'[f] \notin {"none", "read"}
        /\ \A f \in Ends : reader'[f] = reader[f] \/ reader'[f] \notin {"none", "receive"}
    BY <1>1, <1>13 DEF WriterReadsEof, WriterTransmitFails, WriterCloses,
         WriterReleases, ReaderReceiveFails, ReaderWriteFails, ReaderCloses,
         ReaderReleases
  <2>. QED
    BY <1>2, <1>6, <2>1
<1>14. ASSUME NetworkFails \/ UNCHANGED vars PROVE FlowInv'
  <2>1. UNCHANGED <<writer, reader, outVars, inVars, wire>>
    BY <1>14 DEF NetworkFails, vars, ctlVars
  <2>. QED
    BY <1>2, <1>6, <2>1
<1>. QED
  BY <1>3, <1>4, <1>7, <1>8, <1>9, <1>10, <1>11, <1>12, <1>13, <1>14
  DEF Next, AppStep, WriterStep, ReaderStep

(* The buffers between two applications (lib.rs:155-217) always hold        *)
(* consecutive slices of the stream, whoever moves bytes when.             *)
THEOREM FlowCorrect == Spec => []FlowInv
<1>. QED
  BY TypeCorrect, ArcCorrect, FlowInit, FlowStep, PTL DEF Spec

(* A chain of slices makes what was read a prefix of what was written.     *)
LEMMA PrefixOfSent == TypeOK /\ FlowInv => InOrderDelivery
<1> SUFFICES ASSUME TypeOK, FlowInv, NEW e \in Ends
             PROVE  /\ Len(got[Peer(e)]) <= Len(sent[e])
                    /\ \A i \in 1 .. Len(got[Peer(e)]) : got[Peer(e)][i] = sent[e][i]
  BY DEF InOrderDelivery
<1>1. Chain(sent[e], got[Peer(e)], inPipe[Peer(e)], rbuf[Peer(e)], wire[e],
            wbuf[e], outPipe[e])
  BY DEF FlowInv, FlowOK
<1>2. /\ Len(got[Peer(e)]) \in Nat /\ Len(inPipe[Peer(e)]) \in Nat
      /\ Len(rbuf[Peer(e)]) \in Nat /\ Len(wire[e]) \in Nat
      /\ Len(wbuf[e]) \in Nat /\ Len(outPipe[e]) \in Nat
  BY PeerFacts, LenProperties DEF TypeOK, Bytes
<1>3. /\ Len(sent[e]) = Len(got[Peer(e)]) + Len(inPipe[Peer(e)])
                           + Len(rbuf[Peer(e)]) + Len(wire[e]) + Len(wbuf[e])
                           + Len(outPipe[e])
      /\ Slice(sent[e], 0, got[Peer(e)])
  BY <1>1, Zenon DEF Chain
<1>4. Len(got[Peer(e)]) <= Len(sent[e])
  <2>1. \A k1, k2, k3, k4, k5, k6 \in Nat : k1 <= k1 + k2 + k3 + k4 + k5 + k6
    OBVIOUS
  <2>2. Len(got[Peer(e)]) <= Len(got[Peer(e)]) + Len(inPipe[Peer(e)])
                              + Len(rbuf[Peer(e)]) + Len(wire[e]) + Len(wbuf[e])
                              + Len(outPipe[e])
    BY <1>2, <2>1, Zenon
  <2>. QED
    BY <1>3, <2>2
<1>5. \A i \in 1 .. Len(got[Peer(e)]) : got[Peer(e)][i] = sent[e][i]
  BY <1>2, <1>3 DEF Slice
<1>. QED
  BY <1>4, <1>5

(* For every payload, capacity and interleaving, what an application has   *)
(* read is a prefix of what the application at the other end has written.  *)
THEOREM AlwaysInOrder == Spec => []InOrderDelivery
<1>. QED
  BY PrefixOfSent, TypeCorrect, FlowCorrect, PTL
-----------------------------------------------------------------------------
(* What DuplexLink promises: on an undisturbed connection the end of the   *)
(* stream comes last, and every step of the session is one of the link, or *)
(* none.                                                                   *)
Ended == {"close", "release", "done"}

(* What the caller has done with s2 and where its two threads are; an      *)
(* application that has read the end of the stream has read all of inPipe. *)
StageOK(e) ==
  /\ caller[e] \in {"using", "eof"} => writer[e] # "none"
  /\ writer[e] = "none" <=> reader[e] = "none"
  /\ writer[e] = "none" => outPipe[e] = <<>>
  /\ caller[e] = "eof" => WhDropped(e) /\ inPipe[e] = <<>>

(* The application at e writes no more and nothing it wrote is still at e. *)
Drained(e) == Gone(e) /\ outPipe[e] = <<>> /\ wbuf[e] = <<>>

(* All that the peer of e will ever send has arrived and left the reader.  *)
Emptied(e) == fin[Peer(e)] /\ wire[Peer(e)] = <<>> /\ rbuf[e] = <<>>

EndOK(e) ==
  /\ fin[e] => Drained(e)
  /\ writer[e] \in Ended => Drained(e)
  /\ reader[e] \in Ended => caller[e] \in {"dropped", "failed"} \/ Emptied(e)

StageInv == \A e \in Ends : StageOK(e)
EndInv == Undisturbed => \A e \in Ends : EndOK(e)

(* At the start nobody has a stream and nothing was closed.                *)
LEMMA StageInit == Init => StageInv
BY DEF Init, StageInv, StageOK

(* No end is reached at the start.                                        *)
LEMMA EndInit == Init => EndInv
<1> SUFFICES ASSUME Init, NEW e \in Ends PROVE EndOK(e)
  BY DEF EndInv
<1>1. ~fin[e] /\ writer[e] = "none" /\ reader[e] = "none"
  BY DEF Init
<1>. QED
  BY <1>1 DEF EndOK, Ended

(* Every step keeps the threads in accord with the caller.                 *)
LEMMA StageStep == TypeOK /\ ArcInv /\ StageInv /\ [Next]_vars => StageInv'
<1> SUFFICES ASSUME TypeOK, ArcInv, StageInv, [Next]_vars PROVE StageInv'
  OBVIOUS
<1>1. /\ caller \in [Ends -> Stages] /\ writer \in [Ends -> WriterStages]
      /\ reader \in [Ends -> ReaderStages] /\ outPipe \in [Ends -> Bytes(DuplexCap)]
      /\ inPipe \in [Ends -> Bytes(DuplexCap)]
  BY DEF TypeOK
<1>. USE DEF StageInv, StageOK, WhDropped, Stages, WriterStages, ReaderStages
<1>2. ASSUME NEW e \in Ends, NewSession(e) \/ NewFails(e) \/ Negotiate(e)
      PROVE  StageInv'
  <2>1. /\ UNCHANGED <<writer, reader, outPipe, inPipe>>
        /\ \/ caller' = caller
           \/ caller' = [caller EXCEPT ![e] = "awaiting"]
           \/ caller' = [caller EXCEPT ![e] = "failed"]
    BY <1>2 DEF NewSession, NewFails, Negotiate, outVars, inVars
  <2>. QED
    BY <1>1, <2>1
<1>3. ASSUME NEW e \in Ends, NegotiateReturns(e) PROVE StageInv'
  <2>1. writer[e] = "none" /\ reader[e] = "none"
    BY <1>3 DEF NegotiateReturns, ArcInv, ArcOK
  <2>. QED
    BY <1>1, <1>3, <2>1 DEF NegotiateReturns, outVars, inVars
<1>4. ASSUME NEW e \in Ends, AppWrite(e) PROVE StageInv'
  BY <1>1, <1>4 DEF AppWrite, ctlVars, inVars
<1>5. ASSUME NEW e \in Ends, AppRead(e) PROVE StageInv'
  BY <1>1, <1>5 DEF AppRead, ctlVars, outVars
<1>6. ASSUME NEW e \in Ends, AppReadsEof(e) PROVE StageInv'
  BY <1>1, <1>6 DEF AppReadsEof, outVars, inVars
<1>7. ASSUME NEW e \in Ends, AppDrops(e) PROVE StageInv'
  <2>1. /\ UNCHANGED <<writer, reader, outPipe, inPipe>>
        /\ caller' = [caller EXCEPT ![e] = "dropped"]
    BY <1>7, Zenon DEF AppDrops, outVars, inVars
  <2>. QED
    BY <1>1, <2>1
<1>8. ASSUME NEW e \in Ends, WriterStep(e) PROVE StageInv'
  <2>1. /\ UNCHANGED <<caller, reader, inPipe>>
        /\ writer[e] # "none"
        /\ writer' = writer \/ \E w \in WriterStages \ {"none"} :
             writer' = [writer EXCEPT ![e] = w]
        /\ \A f \in Ends : writer[f] = "none" => outPipe'[f] = outPipe[f]
    BY <1>1, <1>8 DEF WriterStep, WriterRead, WriterReadsEof, WriterTransmit,
      WriterTransmitFails, WriterCloses, WriterReleases, outVars, inVars
  <2>. QED
    BY <1>1, <2>1
<1>9. ASSUME NEW e \in Ends, ReaderStep(e) PROVE StageInv'
  <2>1. /\ UNCHANGED <<caller, writer, outPipe>>
        /\ reader[e] # "none"
        /\ \/ /\ reader[e] \notin {"release", "done"}
              /\ reader' = reader \/ \E r \in ReaderStages \ {"none"} :
                   reader' = [reader EXCEPT ![e] = r]
           \/ /\ reader' = [reader EXCEPT ![e] = "done"]
              /\ UNCHANGED inPipe
        /\ \A f \in Ends \ {e} : inPipe'[f] = inPipe[f]
    BY <1>1, <1>9 DEF ReaderStep, ReaderReceive, ReaderReceiveFails, ReaderWrite,
      ReaderWriteFails, ReaderCloses, ReaderReleases, outVars, inVars
  <2>. QED
    BY <1>1, <2>1
<1>10. ASSUME NetworkFails \/ UNCHANGED vars PROVE StageInv'
  BY <1>1, <1>10 DEF NetworkFails, vars, ctlVars, outVars, inVars
<1>. QED
  BY <1>2, <1>3, <1>4, <1>5, <1>6, <1>7, <1>8, <1>9, <1>10 DEF Next, AppStep

(* A disturbed connection stays disturbed.                                 *)
LEMMA DisturbedStays == TypeOK /\ [Next]_vars /\ Undisturbed' => Undisturbed
<1> SUFFICES ASSUME TypeOK, [Next]_vars, Undisturbed' PROVE Undisturbed
  OBVIOUS
<1>1. faults \in Nat
  BY SessionAssumption DEF TypeOK
<1>2. faults' = faults \/ faults' = faults + 1
  <2>1. ASSUME NEW e \in Ends, WriterStep(e) PROVE faults' = faults \/ faults' = faults + 1
    BY <2>1, Zenon DEF WriterStep, WriterRead, WriterReadsEof, WriterTransmit,
      WriterTransmitFails, WriterCloses, WriterReleases
  <2>2. ASSUME NEW e \in Ends, ReaderStep(e) PROVE faults' = faults \/ faults' = faults + 1
    BY <2>2, Zenon DEF ReaderStep, ReaderReceive, ReaderReceiveFails, ReaderWrite,
      ReaderWriteFails, ReaderCloses, ReaderReleases
  <2>3. ASSUME NEW e \in Ends, NewSession(e) \/ NewFails(e) \/ Negotiate(e)
                 \/ AppStep(e) \/ AppWrite(e) \/ AppDrops(e)
        PROVE  faults' = faults \/ faults' = faults + 1
    BY <2>3, Zenon DEF NewSession, NewFails, Negotiate, AppStep, AppRead, AppReadsEof,
      NegotiateReturns, AppWrite, AppDrops
  <2>4. ASSUME NetworkFails \/ UNCHANGED vars PROVE faults' = faults \/ faults' = faults + 1
    BY <2>4, Zenon DEF NetworkFails, vars
  <2>. QED
    BY <2>1, <2>2, <2>3, <2>4, Zenon DEF Next
<1>3. reset => reset'
  <2>1. ASSUME NEW e \in Ends, WriterStep(e) PROVE reset => reset'
    BY <2>1, Zenon DEF WriterStep, WriterRead, WriterReadsEof, WriterTransmit,
      WriterTransmitFails, WriterCloses, WriterReleases, DropClone, arcVars
  <2>2. ASSUME NEW e \in Ends, ReaderStep(e) PROVE reset => reset'
    BY <2>2, Zenon DEF ReaderStep, ReaderReceive, ReaderReceiveFails, ReaderWrite,
      ReaderWriteFails, ReaderCloses, ReaderReleases, DropClone, arcVars
  <2>3. ASSUME NEW e \in Ends, NewSession(e) \/ NewFails(e) \/ Negotiate(e)
                 \/ AppStep(e) \/ AppWrite(e) \/ AppDrops(e)
        PROVE  reset => reset'
    BY <2>3, Zenon DEF NewSession, NewFails, Negotiate, AppStep, AppRead, AppReadsEof,
      NegotiateReturns, AppWrite, AppDrops, DropClone, arcVars
  <2>4. ASSUME NetworkFails \/ UNCHANGED vars PROVE reset => reset'
    BY <2>4, Zenon DEF NetworkFails, vars, arcVars
  <2>. QED
    BY <2>1, <2>2, <2>3, <2>4, Zenon DEF Next
<1>4. faults = 0
  BY <1>1, <1>2 DEF Undisturbed
<1>. QED
  BY <1>3, <1>4, Zenon DEF Undisturbed

(* What the drop of a clone does to the socket: the last one shuts it.     *)
LEMMA DropCloneFin ==
  ASSUME NEW e \in Ends, NEW h, fin \in [Ends -> BOOLEAN], DropClone(e, h)
  PROVE  \A f \in Ends : /\ fin[f] => fin'[f]
                         /\ fin'[f] => fin[f] \/ (f = e /\ holders[e] = {h})
BY DEF DropClone

(* A step that moves no byte keeps EndOK, if it only ends what is drained  *)
(* or emptied and keeps an application that has gone away.                 *)
LEMMA EndKept ==
  ASSUME UNCHANGED <<outPipe, wbuf, rbuf, wire>>,
         \A f \in Ends : EndOK(f),
         \A f \in Ends : /\ Gone(f) => Gone(f)'
                         /\ caller[f] \in {"dropped", "failed"} => caller'[f] \in {"dropped", "failed"}
                         /\ fin[f] => fin'[f]
                         /\ fin'[f] => fin[f] \/ Drained(f)'
                         /\ writer'[f] \in Ended => writer[f] \in Ended \/ Drained(f)'
                         /\ reader'[f] \in Ended =>
                              \/ reader[f] \in Ended
                              \/ caller'[f] \in {"dropped", "failed"}
                              \/ Emptied(f)'
  PROVE  \A f \in Ends : EndOK(f)'
<1> SUFFICES ASSUME NEW f \in Ends PROVE EndOK(f)'
  OBVIOUS
<1>1. Peer(f) \in Ends
  BY PeerFacts
<1>2. Drained(f) => Drained(f)'
  BY Zenon DEF Drained
<1>3. Emptied(f) => Emptied(f)'
  BY <1>1, Zenon DEF Emptied
<1>. QED
  BY <1>2, <1>3, Zenon DEF EndOK

(* While nothing disturbs the connection, a thread ends and a socket is    *)
(* shut only when there is nothing left to send or to receive.             *)
LEMMA EndStep ==
  TypeOK /\ ArcInv /\ FlowInv /\ StageInv /\ EndInv /\ [Next]_vars => EndInv'
<1> SUFFICES ASSUME TypeOK, ArcInv, FlowInv, StageInv, EndInv, [Next]_vars, Undisturbed'
             PROVE  \A f \in Ends : EndOK(f)'
  BY DEF EndInv
<1>1. /\ caller \in [Ends -> Stages] /\ writer \in [Ends -> WriterStages]
      /\ reader \in [Ends -> ReaderStages] /\ fin \in [Ends -> BOOLEAN]
      /\ holders \in [Ends -> SUBSET Holders]
      /\ outPipe \in [Ends -> Bytes(DuplexCap)]
      /\ wbuf \in [Ends -> Bytes(BufSize)] /\ rbuf \in [Ends -> Bytes(BufSize)]
      /\ wire \in [Ends -> Bytes(WireCap)]
  BY DEF TypeOK
<1>2. ~reset' /\ faults' = 0 /\ ~reset /\ faults = 0
  BY DisturbedStays, Zenon DEF Undisturbed
<1>3. \A f \in Ends : EndOK(f)
  BY <1>2 DEF EndInv, Undisturbed
<1>4. \A f \in Ends :
        /\ writer[f] \in {"none", "read"} => wbuf[f] = <<>>
        /\ reader[f] \in {"none", "receive"} => rbuf[f] = <<>>
  BY DEF FlowInv, FlowOK
<1>5. \A f \in Ends : StageOK(f) /\ ArcOK(f)
  BY DEF StageInv, ArcInv
(* Where no writer works, nothing is left to send.                         *)
<1>6. \A f \in Ends : Gone(f) /\ writer[f] \notin Working => Drained(f)
  BY <1>1, <1>3, <1>4, <1>5
  DEF EndOK, StageOK, Drained, Ended, Working, WriterStages
(* The steps that move no byte.                                            *)
<1>7. ASSUME NEW e \in Ends, NewSession(e) PROVE \A f \in Ends : EndOK(f)'
  <2>1. UNCHANGED <<outPipe, wbuf, rbuf, wire, fin, writer, reader>>
    BY <1>7, Zenon DEF NewSession, outVars, inVars
  <2>2. caller[e] = "new" /\ caller' = [caller EXCEPT ![e] = "awaiting"]
    BY <1>7, Zenon DEF NewSession
  <2>. QED
    BY <1>1, <1>3, <2>1, <2>2, EndKept DEF Gone
<1>8. ASSUME NEW e \in Ends, NewFails(e) PROVE \A f \in Ends : EndOK(f)'
  <2>1. UNCHANGED <<outPipe, wbuf, rbuf, wire, writer, reader>>
    BY <1>8, Zenon DEF NewFails, outVars, inVars
  <2>2. /\ caller[e] = "new" /\ caller' = [caller EXCEPT ![e] = "failed"]
        /\ fin' = [fin EXCEPT ![e] = TRUE]
    BY <1>8, Zenon DEF NewFails
  <2>3. outPipe[e] = <<>> /\ wbuf[e] = <<>>
    BY <1>4, <1>5, <2>2 DEF StageOK, ArcOK
  <2>. QED
    BY <1>1, <1>3, <2>1, <2>2, <2>3, EndKept DEF Gone, Drained
<1>9. ASSUME NEW e \in Ends, Negotiate(e) PROVE \A f \in Ends : EndOK(f)'
  <2>1. UNCHANGED <<outPipe, wbuf, rbuf, wire, caller, writer, reader>>
    BY <1>9, Zenon DEF Negotiate, outVars, inVars
  <2>2. DropClone(e, "negotiator") /\ negotiation[e] = "running"
    BY <1>9, Zenon DEF Negotiate
  <2>3. holders[e] = {"negotiator"} => Drained(e)
    BY <1>1, <1>5, <1>6, <2>2 DEF ArcOK, Gone, Stages
  <2>. QED
    BY <1>1, <1>3, <2>1, <2>2, <2>3, DropCloneFin, EndKept DEF Gone, Drained
<1>10. ASSUME NEW e \in Ends, NegotiateReturns(e) PROVE \A f \in Ends : EndOK(f)'
  <2>1. UNCHANGED <<outPipe, wbuf, rbuf, wire>>
    BY <1>10, Zenon DEF NegotiateReturns, outVars, inVars
  <2>2. /\ caller[e] = "awaiting" /\ writer[e] = "none" /\ reader[e] = "none"
        /\ outPipe[e] = <<>> /\ wbuf[e] = <<>>
    BY <1>4, <1>5, <1>10 DEF NegotiateReturns, StageOK, ArcOK
  <2>3. CASE negotiation[e] = "ok"
    <3>1. /\ caller' = [caller EXCEPT ![e] = "using"]
          /\ writer' = [writer EXCEPT ![e] = "read"]
          /\ reader' = [reader EXCEPT ![e] = "receive"]
          /\ fin' = fin
      BY <1>10, <2>3 DEF NegotiateReturns
    <3>. QED
      BY <1>1, <1>3, <2>1, <2>2, <3>1, EndKept DEF Gone, Ended
  <2>4. CASE negotiation[e] # "ok"
    <3>1. /\ caller' = [caller EXCEPT ![e] = "failed"] /\ DropClone(e, "caller")
          /\ UNCHANGED <<writer, reader>>
      BY <1>10, <2>4 DEF NegotiateReturns
    <3>. QED
      BY <1>1, <1>3, <2>1, <2>2, <3>1, DropCloneFin, EndKept DEF Gone, Drained
  <2>. QED
    BY <2>3, <2>4
<1>11. ASSUME NEW e \in Ends, AppRead(e) PROVE \A f \in Ends : EndOK(f)'
  <2>1. UNCHANGED <<outPipe, wbuf, rbuf, wire, caller, writer, reader, fin>>
    BY <1>11, Zenon DEF AppRead, outVars, ctlVars, arcVars
  <2>. QED
    BY <1>3, <2>1, EndKept DEF Gone
<1>12. ASSUME NEW e \in Ends, AppReadsEof(e) PROVE \A f \in Ends : EndOK(f)'
  <2>1. UNCHANGED <<outPipe, wbuf, rbuf, wire, writer, reader, fin>>
    BY <1>12, Zenon DEF AppReadsEof, outVars, inVars, arcVars
  <2>2. caller[e] = "using" /\ caller' = [caller EXCEPT ![e] = "eof"]
    BY <1>12, Zenon DEF AppReadsEof
  <2>. QED
    BY <1>1, <1>3, <2>1, <2>2, EndKept DEF Gone
<1>13. ASSUME NEW e \in Ends, AppDrops(e) PROVE \A f \in Ends : EndOK(f)'
  <2>1. UNCHANGED <<outPipe, wbuf, rbuf, wire, writer, reader>>
    BY <1>13, Zenon DEF AppDrops, outVars, inVars
  <2>2. caller' = [caller EXCEPT ![e] = "dropped"]
    BY <1>13, Zenon DEF AppDrops
  <2>3. CASE fin' = fin
    BY <1>1, <1>3, <2>1, <2>2, <2>3, EndKept DEF Gone
  <2>4. CASE caller[e] = "awaiting" /\ DropClone(e, "caller")
    <3>1. outPipe[e] = <<>> /\ wbuf[e] = <<>>
      BY <1>4, <1>5, <2>4 DEF StageOK, ArcOK
    <3>. QED
      BY <1>1, <1>3, <2>1, <2>2, <2>4, <3>1, DropCloneFin, EndKept DEF Gone, Drained
  <2>. QED
    BY <1>13, <2>3, <2>4, Zenon DEF AppDrops, arcVars
<1>14. ASSUME NEW e \in Ends, WriterReadsEof(e) PROVE \A f \in Ends : EndOK(f)'
  <2>1. UNCHANGED <<outPipe, wbuf, rbuf, wire, caller, reader, fin>>
    BY <1>14, Zenon DEF WriterReadsEof, outVars, inVars, arcVars
  <2>2. Drained(e) /\ writer' = [writer EXCEPT ![e] = "close"]
    BY <1>4, <1>14 DEF WriterReadsEof, Drained
  <2>. QED
    BY <1>1, <1>3, <2>1, <2>2, EndKept DEF Gone, Drained
<1>15. ASSUME NEW e \in Ends, WriterTransmitFails(e) PROVE FALSE
  BY <1>2, <1>15 DEF WriterTransmitFails
<1>16. ASSUME NEW e \in Ends, WriterCloses(e) PROVE \A f \in Ends : EndOK(f)'
  <2>1. UNCHANGED <<outPipe, wbuf, rbuf, wire, caller, reader>>
    BY <1>16, Zenon DEF WriterCloses, outVars, inVars
  <2>2. /\ writer[e] = "close" /\ writer' = [writer EXCEPT ![e] = "release"]
        /\ fin' = [fin EXCEPT ![e] = TRUE]
    BY <1>16, Zenon DEF WriterCloses
  <2>3. Drained(e)
    BY <1>3, <2>2 DEF EndOK, Ended
  <2>. QED
    BY <1>1, <1>3, <2>1, <2>2, <2>3, EndKept DEF Gone, Drained
<1>17. ASSUME NEW e \in Ends, WriterReleases(e) PROVE \A f \in Ends : EndOK(f)'
  <2>1. UNCHANGED <<outPipe, wbuf, rbuf, wire, caller, reader>>
    BY <1>17, Zenon DEF WriterReleases, outVars, inVars
  <2>2. /\ writer[e] = "release" /\ writer' = [writer EXCEPT ![e] = "done"]
        /\ DropClone(e, "writer")
    BY <1>17, Zenon DEF WriterReleases
  <2>3. Drained(e)
    BY <1>3, <2>2 DEF EndOK, Ended
  <2>. QED
    BY <1>1, <1>3, <2>1, <2>2, <2>3, DropCloneFin, EndKept DEF Gone, Drained
<1>18. ASSUME NEW e \in Ends, ReaderReceiveFails(e) PROVE \A f \in Ends : EndOK(f)'
  <2>1. UNCHANGED <<outPipe, wbuf, rbuf, wire, caller, writer, fin>>
    BY <1>18, Zenon DEF ReaderReceiveFails, outVars, inVars, arcVars
  <2>2. Emptied(e) /\ reader' = [reader EXCEPT ![e] = "close"]
    BY <1>2, <1>4, <1>18 DEF ReaderReceiveFails, Emptied
  <2>. QED
    BY <1>1, <1>3, <2>1, <2>2, EndKept DEF Gone, Emptied
<1>19. ASSUME NEW e \in Ends, ReaderWriteFails(e) PROVE \A f \in Ends : EndOK(f)'
  <2>1. UNCHANGED <<outPipe, wbuf, rbuf, wire, caller, writer, fin>>
    BY <1>19, Zenon DEF ReaderWriteFails, outVars, inVars, arcVars
  <2>2. reader[e] = "write" /\ Gone(e) /\ reader' = [reader EXCEPT ![e] = "close"]
    BY <1>19, Zenon DEF ReaderWriteFails
  <2>3. caller[e] \in {"dropped", "failed"}
    BY <1>5, <2>2 DEF StageOK, WhDropped, Gone
  <2>. QED
    BY <1>1, <1>3, <2>1, <2>2, <2>3, EndKept DEF Gone
<1>20. ASSUME NEW e \in Ends, ReaderCloses(e) PROVE \A f \in Ends : EndOK(f)'
  <2>1. UNCHANGED <<outPipe, wbuf, rbuf, wire, caller, writer, fin>>
    BY <1>20, Zenon DEF ReaderCloses, outVars, inVars, arcVars
  <2>2. reader[e] = "close" /\ reader' = [reader EXCEPT ![e] = "release"]
    BY <1>20, Zenon DEF ReaderCloses
  <2>. QED
    BY <1>1, <1>3, <2>1, <2>2, EndKept DEF Gone, Ended
<1>21. ASSUME NEW e \in Ends, ReaderReleases(e) PROVE \A f \in Ends : EndOK(f)'
  <2>1. UNCHANGED <<outPipe, wbuf, rbuf, wire, caller, writer>>
    BY <1>21, Zenon DEF ReaderReleases, outVars, inVars
  <2>2. /\ reader[e] = "release" /\ reader' = [reader EXCEPT ![e] = "done"]
        /\ DropClone(e, "reader")
    BY <1>21, Zenon DEF ReaderReleases
  <2>3. holders[e] = {"reader"} => writer[e] \notin Working /\ writer[e] # "none"
    BY <1>5, <2>2 DEF ArcOK, StageOK
  <2>4. holders[e] = {"reader"} => Drained(e)
    BY <1>1, <1>3, <2>3 DEF EndOK, Ended, Working, WriterStages
  <2>. QED
    BY <1>1, <1>3, <2>1, <2>2, <2>4, DropCloneFin, EndKept DEF Gone, Drained, Ended
(* The steps that move bytes towards the reader of the peer.               *)
<1>22. ASSUME NEW e \in Ends, AppWrite(e) PROVE \A f \in Ends : EndOK(f)'
  <2>1. UNCHANGED <<wbuf, rbuf, wire, caller, writer, reader, fin>>
    BY <1>22, Zenon DEF AppWrite, inVars, ctlVars, arcVars
  <2>2. caller[e] = "using" /\ \A f \in Ends \ {e} : outPipe'[f] = outPipe[f]
    BY <1>1, <1>22 DEF AppWrite
  <2>3. ~Drained(e)
    BY <2>2 DEF Drained, Gone
  <2>. QED
    BY <1>3, <2>1, <2>2, <2>3, PeerFacts DEF EndOK, Drained, Emptied, Gone
<1>23. ASSUME NEW e \in Ends, WriterRead(e) PROVE \A f \in Ends : EndOK(f)'
  <2>1. UNCHANGED <<rbuf, wire, caller, reader, fin>>
    BY <1>23, Zenon DEF WriterRead, inVars, arcVars
  <2>2. /\ outPipe[e] # <<>> /\ writer' = [writer EXCEPT ![e] = "transmit"]
        /\ \A f \in Ends \ {e} : outPipe'[f] = outPipe[f] /\ wbuf'[f] = wbuf[f]
    BY <1>1, <1>23 DEF WriterRead
  <2>3. ~Drained(e)
    BY <2>2 DEF Drained
  <2>. QED
    BY <1>1, <1>3, <2>1, <2>2, <2>3, PeerFacts DEF EndOK, Drained, Emptied, Gone, Ended
<1>24. ASSUME NEW e \in Ends, WriterTransmit(e) PROVE \A f \in Ends : EndOK(f)'
  <2>1. UNCHANGED <<rbuf, outPipe, caller, reader, fin>>
    BY <1>24, Zenon DEF WriterTransmit, inVars
  <2>2. /\ wbuf[e] # <<>> /\ writer[e] = "transmit"
        /\ writer' = writer \/ writer' = [writer EXCEPT ![e] = "read"]
        /\ \A f \in Ends \ {e} : wire'[f] = wire[f] /\ wbuf'[f] = wbuf[f]
    <3>1. PICK w_len \in 1 .. SmallerOf(Len(wbuf[e]), WireCap - Len(wire[e])) :
            /\ wire' = [wire EXCEPT ![e] = @ \o Take(wbuf[e], w_len)]
            /\ wbuf' = [wbuf EXCEPT ![e] = Skip(@, w_len)]
            /\ writer' = IF w_len = Len(wbuf[e])
                         THEN [writer EXCEPT ![e] = "read"] ELSE writer
      BY <1>24, Zenon DEF WriterTransmit
    <3>2. Len(wbuf[e]) \in Nat /\ Len(wire[e]) \in Nat
      BY <1>1, LenProperties DEF Bytes
    <3>3. wbuf[e] # <<>>
      BY <3>1, <3>2, SessionAssumption, EmptySeq DEF SmallerOf
    <3>. QED
      BY <1>1, <1>24, <3>1, <3>3 DEF WriterTransmit
  <2>3. ~Drained(e)
    BY <2>2 DEF Drained
  <2>. QED
    BY <1>1, <1>3, <2>1, <2>2, <2>3, PeerFacts DEF EndOK, Drained, Emptied, Gone, Ended
<1>25. ASSUME NEW e \in Ends, ReaderReceive(e) PROVE \A f \in Ends : EndOK(f)'
  <2>1. UNCHANGED <<outPipe, wbuf, caller, writer, fin>>
    BY <1>25, Zenon DEF ReaderReceive, outVars, arcVars
  <2>2. /\ reader' = [reader EXCEPT ![e] = "write"]
        /\ \A f \in Ends \ {e} : rbuf'[f] = rbuf[f] /\ wire'[Peer(f)] = wire[Peer(f)]
    BY <1>1, <1>25, PeerFacts DEF ReaderReceive
  <2>. QED
    BY <1>1, <1>3, <2>1, <2>2, PeerFacts DEF EndOK, Drained, Emptied, Gone, Ended
<1>26. ASSUME NEW e \in Ends, ReaderWrite(e) PROVE \A f \in Ends : EndOK(f)'
  <2>1. UNCHANGED <<outPipe, wbuf, wire, caller, writer, fin>>
    BY <1>26, Zenon DEF ReaderWrite, outVars, arcVars
  <2>2. /\ reader[e] = "write"
        /\ reader' = reader \/ reader' = [reader EXCEPT ![e] = "receive"]
        /\ \A f \in Ends \ {e} : rbuf'[f] = rbuf[f]
    BY <1>1, <1>26 DEF ReaderWrite
  <2>. QED
    BY <1>1, <1>3, <2>1, <2>2, PeerFacts DEF EndOK, Drained, Emptied, Gone, Ended
<1>27. ASSUME NetworkFails PROVE FALSE
  BY <1>2, <1>27 DEF NetworkFails
<1>28. ASSUME UNCHANGED vars PROVE \A f \in Ends : EndOK(f)'
  <2>1. UNCHANGED <<outPipe, wbuf, rbuf, wire, caller, writer, reader, fin>>
    BY <1>28, Zenon DEF vars, outVars, inVars, ctlVars, arcVars
  <2>. QED
    BY <1>3, <2>1, EndKept DEF Gone
<1>. QED
  BY <1>7, <1>8, <1>9, <1>10, <1>11, <1>12, <1>13, <1>14, <1>15, <1>16, <1>17, <1>18,
     <1>19, <1>20, <1>21, <1>22, <1>23, <1>24, <1>25, <1>26, <1>27, <1>28
  DEF Next, AppStep, WriterStep, ReaderStep

(* The threads and the caller agree at every moment (lib.rs:128-221).      *)
THEOREM StageCorrect == Spec => []StageInv
<1>. QED
  BY TypeCorrect, ArcCorrect, StageInit, StageStep, PTL DEF Spec

(* While nothing disturbs the connection, threads end and sockets are shut *)
(* (lib.rs:188, lib.rs:203-217) only when there is nothing left to carry.  *)
THEOREM EndCorrect == Spec => []EndInv
<1>. QED
  BY TypeCorrect, ArcCorrect, FlowCorrect, StageCorrect, EndInit, EndStep, PTL DEF Spec

(* On a connection without reset and fault, an application that has read   *)
(* the end of the stream has read all that its peer wrote, for every       *)
(* payload, capacity and interleaving (lib.rs:128-221).                    *)
THEOREM AlwaysComplete == Spec => []EofMeansComplete
<1>1. TypeOK /\ FlowInv /\ StageInv /\ EndInv => EofMeansComplete
  <2> SUFFICES ASSUME TypeOK, FlowInv, StageInv, EndInv, NEW e \in Ends,
                      caller[Peer(e)] = "eof", Undisturbed
               PROVE  got[Peer(e)] = sent[e]
    BY DEF EofMeansComplete
  <2>. DEFINE p == Peer(e)
  <2>1. p \in Ends /\ Peer(p) = e
    BY PeerFacts
  <2>2. WhDropped(p) /\ inPipe[p] = <<>>
    BY <2>1 DEF StageInv, StageOK
  <2>3. Emptied(p)
    BY <2>1, <2>2 DEF EndInv, EndOK, WhDropped, Ended
  <2>4. Drained(e)
    BY <2>1, <2>3 DEF EndInv, EndOK, Emptied
  <2>5. Chain(sent[e], got[p], <<>>, <<>>, <<>>, <<>>, <<>>)
    BY <2>1, <2>2, <2>3, <2>4 DEF FlowInv, FlowOK, Emptied, Drained
  <2>6. sent[e] \in Seq(Byte) /\ got[p] \in Seq(Byte)
    BY <2>1 DEF TypeOK
  <2>7. Len(got[p]) \in Nat /\ Len(sent[e]) \in Nat
    BY <2>6, LenProperties
  <2>8. Len(sent[e]) = Len(got[p])
    BY <2>5, <2>7, EmptySeq DEF Chain
  <2>9. \A i \in 1 .. Len(got[p]) : got[p][i] = sent[e][i]
    BY <2>5, <2>7 DEF Chain, Slice
  <2>. QED
    BY <2>6, <2>8, <2>9, SeqEqual
<1>. QED
  BY <1>1, TypeCorrect, FlowCorrect, StageCorrect, EndCorrect, PTL
-----------------------------------------------------------------------------
(* A caller that waits for its stream and a writer at work have an open    *)
(* socket, and the application whose writer is at work did not drop its    *)
(* stream because of a failed write.                                       *)
AtWork == {"read", "transmit", "close"}

BusyOK(e) ==
  /\ writer[e] \in AtWork => ~fin[e]
  /\ caller[e] \in {"new", "awaiting"} => ~fin[e]
  /\ caller[e] = "dropped" => e \in Droppers \/ writer[e] \notin AtWork

BusyInv == \A e \in Ends : BusyOK(e)

(* No socket is shut and no stream dropped at the start.                   *)
LEMMA BusyInit == Init => BusyInv
BY DEF Init, BusyInv, BusyOK, AtWork

(* A clone that is dropped while the writer is at work, or the caller      *)
(* waits, is not the last.                                                 *)
LEMMA DropCloneBusy ==
  ASSUME TypeOK, ArcInv, BusyInv, NEW e \in Ends, NEW h, h # "writer", DropClone(e, h)
  PROVE  \A f \in Ends :
           /\ writer[f] \in AtWork => ~fin'[f]
           /\ caller[f] \in {"new", "awaiting"} => ~fin'[f] \/ (f = e /\ h = "caller")
<1> SUFFICES ASSUME NEW f \in Ends, writer[f] \in AtWork \/ caller[f] \in {"new", "awaiting"},
                    f = e => ~(h = "caller" /\ caller[f] \in {"new", "awaiting"})
                             \/ writer[f] \in AtWork
             PROVE  ~fin'[f]
  OBVIOUS
<1>1. ~fin[f] /\ ArcOK(f) /\ holders[f] \subseteq Holders
  BY DEF ArcInv, BusyInv, BusyOK, TypeOK
<1>2. fin \in [Ends -> BOOLEAN]
  BY DEF TypeOK
<1>3. writer[f] \in AtWork => "writer" \in holders[f]
  BY <1>1 DEF ArcOK, Working, AtWork
<1>4. caller[f] = "awaiting" => "caller" \in holders[f]
  BY <1>1 DEF ArcOK
<1>5. caller[f] = "new" => holders[f] = {}
  BY <1>1 DEF ArcOK, Working, Holders
<1>6. f = e => holders[e] # {h}
  BY <1>3, <1>4, <1>5
<1>. QED
  BY <1>1, <1>2, <1>6, DropCloneFin

(* Every step keeps a working writer's socket open.                        *)
LEMMA BusyStep == TypeOK /\ ArcInv /\ BusyInv /\ [Next]_vars => BusyInv'
<1> SUFFICES ASSUME TypeOK, ArcInv, BusyInv, [Next]_vars PROVE BusyInv'
  OBVIOUS
<1>1. /\ caller \in [Ends -> Stages] /\ writer \in [Ends -> WriterStages]
      /\ fin \in [Ends -> BOOLEAN]
  BY DEF TypeOK
<1>2. \A f \in Ends : BusyOK(f) /\ ArcOK(f)
  BY DEF BusyInv, ArcInv
<1>3. ASSUME NEW e \in Ends, NewSession(e) \/ NewFails(e) PROVE BusyInv'
  <2>1. /\ writer[e] = "none" /\ UNCHANGED writer
        /\ \A f \in Ends \ {e} : fin'[f] = fin[f]
        /\ \/ caller' = [caller EXCEPT ![e] = "awaiting"] /\ ~fin'[e]
           \/ caller' = [caller EXCEPT ![e] = "failed"]
    BY <1>1, <1>2, <1>3 DEF NewSession, NewFails, ArcOK, BusyOK
  <2>. QED
    BY <1>1, <1>2, <2>1 DEF BusyInv, BusyOK, AtWork
<1>4. ASSUME NEW e \in Ends, Negotiate(e) PROVE BusyInv'
  <2>1. UNCHANGED <<caller, writer>> /\ DropClone(e, "negotiator")
    BY <1>4 DEF Negotiate
  <2>2. \A f \in Ends :
          writer[f] \in AtWork \/ caller[f] \in {"new", "awaiting"} => ~fin'[f]
    BY <2>1, DropCloneBusy
  <2>. QED
    BY <1>2, <2>1, <2>2 DEF BusyInv, BusyOK
<1>5. ASSUME NEW e \in Ends, NegotiateReturns(e) PROVE BusyInv'
  <2>1. CASE negotiation[e] = "ok"
    <3>1. /\ caller' = [caller EXCEPT ![e] = "using"]
          /\ writer' = [writer EXCEPT ![e] = "read"]
          /\ UNCHANGED fin
      BY <1>5, <2>1 DEF NegotiateReturns
    <3>2. ~fin[e]
      BY <1>2, <1>5 DEF NegotiateReturns, BusyOK
    <3>. QED
      BY <1>1, <1>2, <3>1, <3>2 DEF BusyInv, BusyOK, AtWork
  <2>2. CASE negotiation[e] # "ok"
    <3>1. /\ caller' = [caller EXCEPT ![e] = "failed"]
          /\ UNCHANGED writer /\ DropClone(e, "caller")
      BY <1>5, <2>2 DEF NegotiateReturns
    <3>2. \A f \in Ends :
            /\ writer[f] \in AtWork => ~fin'[f]
            /\ f # e /\ caller[f] \in {"new", "awaiting"} => ~fin'[f]
      BY <3>1, DropCloneBusy
    <3>. QED
      BY <1>1, <1>2, <3>1, <3>2 DEF BusyInv, BusyOK
  <2>. QED
    BY <2>1, <2>2
<1>6. ASSUME NEW e \in Ends, AppWrite(e) \/ AppRead(e) \/ AppReadsEof(e) PROVE BusyInv'
  <2>1. /\ UNCHANGED <<writer, fin>>
        /\ caller' = caller \/ caller' = [caller EXCEPT ![e] = "eof"]
    BY <1>6 DEF AppWrite, AppRead, AppReadsEof, ctlVars, arcVars
  <2>. QED
    BY <1>1, <1>2, <2>1 DEF BusyInv, BusyOK
<1>7. ASSUME NEW e \in Ends, AppDrops(e) PROVE BusyInv'
  <2>1. UNCHANGED writer /\ caller' = [caller EXCEPT ![e] = "dropped"]
    BY <1>7 DEF AppDrops
  <2>2. e \in Droppers \/ writer[e] \notin AtWork
    BY <1>7 DEF AppDrops, S1Dropped, RhDropped, AtWork
  <2>3. \A f \in Ends :
          /\ writer[f] \in AtWork => ~fin'[f]
          /\ f # e /\ caller[f] \in {"new", "awaiting"} => ~fin'[f]
    <3>1. CASE UNCHANGED arcVars
      BY <1>2, <3>1 DEF arcVars, BusyOK
    <3>2. CASE DropClone(e, "caller")
      BY <3>2, DropCloneBusy
    <3>. QED
      BY <1>7, <3>1, <3>2 DEF AppDrops
  <2>. QED
    BY <1>1, <1>2, <2>1, <2>2, <2>3 DEF BusyInv, BusyOK
<1>8. ASSUME NEW e \in Ends, WriterStep(e), ~WriterCloses(e), ~WriterReleases(e)
      PROVE  BusyInv'
  <2>1. /\ UNCHANGED <<caller, fin>> /\ writer[e] \in AtWork
        /\ writer' = writer \/ \E w \in AtWork : writer' = [writer EXCEPT ![e] = w]
    BY <1>8 DEF WriterStep, WriterRead, WriterReadsEof, WriterTransmit,
      WriterTransmitFails, arcVars, AtWork
  <2>. QED
    BY <1>1, <1>2, <2>1 DEF BusyInv, BusyOK
<1>9. ASSUME NEW e \in Ends, WriterCloses(e) PROVE BusyInv'
  <2>1. /\ UNCHANGED caller /\ writer' = [writer EXCEPT ![e] = "release"]
        /\ fin' = [fin EXCEPT ![e] = TRUE]
        /\ caller[e] \notin {"new", "awaiting"}
    BY <1>2, <1>9 DEF WriterCloses, ArcOK
  <2>. QED
    BY <1>1, <1>2, <2>1 DEF BusyInv, BusyOK, AtWork
<1>10. ASSUME NEW e \in Ends, WriterReleases(e) PROVE BusyInv'
  <2>1. /\ UNCHANGED caller /\ writer' = [writer EXCEPT ![e] = "done"]
        /\ DropClone(e, "writer") /\ caller[e] \notin {"new", "awaiting"}
    BY <1>2, <1>10 DEF WriterReleases, ArcOK
  <2>2. \A f \in Ends \ {e} : fin'[f] => fin[f]
    BY <1>1, <2>1, DropCloneFin
  <2>. QED
    BY <1>1, <1>2, <2>1, <2>2 DEF BusyInv, BusyOK, AtWork
<1>11. ASSUME NEW e \in Ends, ReaderStep(e), ~ReaderReleases(e) PROVE BusyInv'
  <2>1. UNCHANGED <<caller, writer, fin>>
    BY <1>11 DEF ReaderStep, ReaderReceive, ReaderReceiveFails, ReaderWrite,
      ReaderWriteFails, ReaderCloses, arcVars
  <2>. QED
    BY <1>2, <2>1 DEF BusyInv, BusyOK
<1>12. ASSUME NEW e \in Ends, ReaderReleases(e) PROVE BusyInv'
  <2>1. UNCHANGED <<caller, writer>> /\ DropClone(e, "reader")
    BY <1>12 DEF ReaderReleases
  <2>2. \A f \in Ends :
          writer[f] \in AtWork \/ caller[f] \in {"new", "awaiting"} => ~fin'[f]
    BY <2>1, DropCloneBusy
  <2>. QED
    BY <1>2, <2>1, <2>2 DEF BusyInv, BusyOK
<1>13. ASSUME NetworkFails \/ UNCHANGED vars PROVE BusyInv'
  BY <1>2, <1>13 DEF NetworkFails, vars, ctlVars, arcVars, BusyInv, BusyOK
<1>. QED
  BY <1>3, <1>4, <1>5, <1>6, <1>7, <1>8, <1>9, <1>10, <1>11, <1>12, <1>13
  DEF Next, AppStep

(* Without a failure the mutual back-pressure takes two applications that  *)
(* both dropped their streams by themselves: a reader stops for its own    *)
(* application or at the end of a stream whose writer has closed the       *)
(* socket, and that writer is not in transmit (lib.rs:169-217).            *)
THEOREM OneReaderSuffices == Spec => []WedgeTakesBoth
<1>1. TypeOK /\ ArcInv /\ EndInv /\ BusyInv => WedgeTakesBoth
  <2> SUFFICES ASSUME ArcInv, EndInv, BusyInv, MutualBackpressure, faults = 0,
                      NEW e \in Ends
               PROVE  e \in Droppers /\ caller[e] = "dropped"
    BY DEF WedgeTakesBoth
  <2>1. EndOK(e)
    BY DEF EndInv, Undisturbed, MutualBackpressure
  <2>2. Peer(e) \in Ends /\ ~fin[Peer(e)]
    BY PeerFacts DEF MutualBackpressure, BusyInv, BusyOK, AtWork
  <2>3. writer[e] = "transmit" /\ reader[e] = "done"
    BY DEF MutualBackpressure
  <2>4. caller[e] \in {"dropped", "failed"}
    BY <2>1, <2>2, <2>3 DEF EndOK, Ended, Emptied
  <2>5. caller[e] # "failed"
    BY <2>3 DEF ArcInv, ArcOK
  <2>. QED
    BY <2>3, <2>4, <2>5 DEF BusyInv, BusyOK, AtWork
<1>2. Spec => []BusyInv
  BY TypeCorrect, ArcCorrect, BusyInit, BusyStep, PTL DEF Spec
<1>. QED
  BY <1>1, <1>2, TypeCorrect, ArcCorrect, EndCorrect, PTL
-----------------------------------------------------------------------------
(* The application has left its end of the link.                           *)
ended == [e \in Ends |-> IF Gone(e) THEN caller[e] ELSE "open"]

(* The two modules mean the same by an end and its peer.                   *)
LEMMA SameEnds == Link!Ends = Ends /\ \A e \in Ends : Link!Peer(e) = Peer(e)
BY DEF Link!Ends, Ends, Link!Peer, Peer

(* The session starts as a link that is open at both ends.                 *)
LEMMA LinkInit == Init => Link!Init
<1> SUFFICES ASSUME Init PROVE Link!Init
  OBVIOUS
<1>1. sent = [e \in Ends |-> <<>>] /\ got = [e \in Ends |-> <<>>]
  BY DEF Init
<1>2. ended = [e \in Ends |-> "open"]
  BY DEF Init, ended, Gone
<1>3. ~(~Undisturbed)
  BY DEF Init, Undisturbed
<1>. QED
  BY <1>1, <1>2, <1>3, SameEnds DEF Link!Init, ended

(* Steps that neither write, read nor leave: nothing, or a disturbance.    *)
LEMMA LinkStutters ==
  ASSUME UNCHANGED <<sent, got>>, ended' = ended, Undisturbed' => Undisturbed
  PROVE  [Link!Next]_(Link!linkVars)
<1>1. CASE Undisturbed' <=> Undisturbed
  <2>1. (~Undisturbed)' = ~Undisturbed
    BY <1>1, Zenon
  <2>. QED
    BY <2>1, Zenon DEF Link!linkVars, ended
<1>2. CASE Undisturbed /\ ~Undisturbed'
  <2>1. (~Undisturbed)' = TRUE
    BY <1>2, Zenon
  <2>2. Link!Disturb
    BY <1>2, <2>1, Zenon DEF Link!Disturb, ended
  <2>. QED
    BY <2>2, Zenon DEF Link!Next
<1>. QED
  BY <1>1, <1>2, Zenon

(* A byte that s2 accepts is written to the link.                          *)
LEMMA LinkWrite ==
  ASSUME TypeOK, NEW e \in Ends, AppWrite(e)
  PROVE  [Link!Next]_(Link!linkVars)
<1>1. Payload[e] \in Seq(Byte) /\ Len(Payload[e]) \in Nat /\ Len(sent[e]) \in Nat
  BY SessionAssumption, LenProperties DEF TypeOK
<1>2. Payload[e][Len(sent[e]) + 1] \in Byte
  BY <1>1, ElementOfSeq DEF AppWrite
<1>3. /\ sent' = [sent EXCEPT ![e] = Append(@, Payload[e][Len(sent[e]) + 1])]
      /\ got' = got /\ caller' = caller /\ caller[e] = "using"
      /\ reset' = reset /\ faults' = faults
  BY DEF AppWrite, ctlVars, inVars, arcVars
<1>4. ended' = ended /\ ended[e] = "open"
  BY <1>3 DEF ended, Gone
<1>5. (~Undisturbed)' = ~Undisturbed
  BY <1>3, Zenon DEF Undisturbed
<1>6. Link!Write(e)
  BY <1>2, <1>3, <1>4, <1>5, Zenon DEF Link!Write, ended
<1>. QED
  BY <1>6, SameEnds, Zenon DEF Link!Next

(* Bytes that the application reads from s2 are the next ones of the link. *)
LEMMA LinkRead ==
  ASSUME TypeOK, InOrderDelivery', NEW e \in Ends, AppRead(e)
  PROVE  [Link!Next]_(Link!linkVars)
<1>. DEFINE p == Peer(e)
            s == sent[p]
<1>1. p \in Ends /\ Peer(p) = e
  BY PeerFacts
<1>2. /\ sent' = sent /\ caller' = caller /\ caller[e] = "using"
      /\ reset' = reset /\ faults' = faults
  BY DEF AppRead, ctlVars, outVars, arcVars
<1>3. ended' = ended /\ ended[e] = "open"
  BY <1>2 DEF ended, Gone
<1>4. (~Undisturbed)' = ~Undisturbed
  BY <1>2, Zenon DEF Undisturbed
<1>5. PICK k \in 1 .. Len(inPipe[e]) :
        /\ got' = [got EXCEPT ![e] = @ \o Take(inPipe[e], k)]
        /\ inPipe' = [inPipe EXCEPT ![e] = Skip(@, k)]
  BY Zenon DEF AppRead
<1>6. /\ inPipe[e] \in Seq(Byte) /\ got[e] \in Seq(Byte) /\ s \in Seq(Byte)
      /\ Len(inPipe[e]) \in Nat /\ Len(got[e]) \in Nat /\ Len(s) \in Nat
  BY <1>1, LenProperties DEF TypeOK, Bytes
<1>7. Take(inPipe[e], k) \in Seq(Byte) /\ Len(Take(inPipe[e], k)) = k
  <2>1. k \in 0 .. Len(inPipe[e])
    BY <1>6
  <2>. QED
    BY <1>6, <2>1, TakeSkip
<1>8. /\ got'[e] \in Seq(Byte) /\ Len(got'[e]) = Len(got[e]) + k
      /\ got' = [got EXCEPT ![e] = got'[e]]
  <2>1. got \in [Ends -> Seq(Byte)]
    BY DEF TypeOK
  <2>2. got'[e] = got[e] \o Take(inPipe[e], k)
    BY <1>5, <2>1
  <2>3. /\ got[e] \o Take(inPipe[e], k) \in Seq(Byte)
        /\ Len(got[e] \o Take(inPipe[e], k)) = Len(got[e]) + Len(Take(inPipe[e], k))
    <3>. DEFINE t == Take(inPipe[e], k)
    <3>1. t \in Seq(Byte)
      BY <1>7
    <3>. HIDE DEF t
    <3>2. got[e] \o t \in Seq(Byte) /\ Len(got[e] \o t) = Len(got[e]) + Len(t)
      BY <1>6, <3>1, ConcatProperties
    <3>. QED
      BY <3>2, Zenon DEF t
  <2>4. got' = [got EXCEPT ![e] = got'[e]]
    BY <1>5, <2>2, Zenon
  <2>. QED
    BY <1>7, <2>2, <2>3, <2>4, Zenon
<1>9. Len(got'[e]) <= Len(s) /\ \A i \in 1 .. Len(got'[e]) : got'[e][i] = s[i]
  BY <1>1, <1>2 DEF InOrderDelivery
<1>10. got'[e] = SubSeq(s, 1, Len(got'[e]))
  <2>1. /\ SubSeq(s, 1, Len(got'[e])) \in Seq(Byte)
        /\ Len(SubSeq(s, 1, Len(got'[e]))) = Len(got'[e])
        /\ \A i \in 1 .. Len(got'[e]) : SubSeq(s, 1, Len(got'[e]))[i] = s[i]
    <3>1. Len(got'[e]) \in 0 .. Len(s)
      BY <1>6, <1>8, <1>9
    <3>. QED
      BY <1>6, <3>1, TakeSkip DEF Take
  <2>. QED
    BY <1>8, <1>9, <2>1, SeqEqual
<1>11. Len(got'[e]) \in Len(got[e]) + 1 .. Len(s)
  BY <1>6, <1>8, <1>9
<1>12. Link!Read(e)
  BY <1>2, <1>3, <1>4, <1>8, <1>10, <1>11, SameEnds, Zenon DEF Link!Read, ended
<1>. QED
  BY <1>12, SameEnds, Zenon DEF Link!Next

(* The end of the stream is the end of the link.                           *)
LEMMA LinkReadEof ==
  ASSUME TypeOK, EndInv, EofMeansComplete', NEW e \in Ends, AppReadsEof(e)
  PROVE  [Link!Next]_(Link!linkVars)
<1>1. Peer(e) \in Ends /\ Peer(Peer(e)) = e
  BY PeerFacts
<1>2. /\ sent' = sent /\ got' = got /\ caller' = [caller EXCEPT ![e] = "eof"]
      /\ caller[e] = "using" /\ WhDropped(e)
      /\ reset' = reset /\ faults' = faults
  BY DEF AppReadsEof, outVars, inVars, arcVars
<1>3. caller \in [Ends -> Stages]
  BY DEF TypeOK
<1>4. ended[e] = "open" /\ ended' = [ended EXCEPT ![e] = "eof"]
  BY <1>2, <1>3 DEF ended, Gone
<1>5. (~Undisturbed)' = ~Undisturbed
  BY <1>2, Zenon DEF Undisturbed
<1>6. ASSUME Undisturbed PROVE ended[Peer(e)] # "open" /\ got[e] = sent[Peer(e)]
  <2>1. Emptied(e)
    BY <1>2, <1>6 DEF EndInv, EndOK, WhDropped, Ended
  <2>2. Gone(Peer(e))
    BY <1>1, <1>6, <2>1 DEF EndInv, EndOK, Emptied, Drained
  <2>3. ended[Peer(e)] # "open"
    BY <1>1, <2>2 DEF ended, Gone
  <2>4. caller'[e] = "eof" /\ Undisturbed'
    BY <1>2, <1>3, <1>6 DEF Undisturbed
  <2>5. got'[e] = sent'[Peer(e)]
    BY <1>1, <2>4 DEF EofMeansComplete
  <2>. QED
    BY <1>2, <2>3, <2>5
<1>7. Link!ReadEof(e)
  BY <1>2, <1>4, <1>5, <1>6, SameEnds, Zenon DEF Link!ReadEof, ended
<1>. QED
  BY <1>7, SameEnds, Zenon DEF Link!Next

(* An application that leaves, or never got a stream, drops the link.      *)
LEMMA LinkDrop ==
  ASSUME TypeOK, NEW e \in Ends, NEW how \in {"dropped", "failed"},
         ~Gone(e), caller' = [caller EXCEPT ![e] = how],
         UNCHANGED <<sent, got>>, Undisturbed' => Undisturbed
  PROVE  [Link!Next]_(Link!linkVars)
<1>1. caller \in [Ends -> Stages]
  BY DEF TypeOK
<1>2. ended[e] = "open" /\ ended' = [ended EXCEPT ![e] = how]
  BY <1>1 DEF ended, Gone
<1>3. (~Undisturbed)' \in {~Undisturbed, TRUE}
  BY Zenon
<1>4. Link!Drop(e)
  BY <1>2, <1>3, Zenon DEF Link!Drop, ended
<1>. QED
  BY <1>4, SameEnds, Zenon DEF Link!Next

(* Every step of the session is a step of the link, or none.               *)
LEMMA LinkStep ==
  TypeOK /\ InOrderDelivery' /\ EndInv /\ EofMeansComplete' /\ [Next]_vars
    => [Link!Next]_(Link!linkVars)
<1> SUFFICES ASSUME TypeOK, InOrderDelivery', EndInv, EofMeansComplete', [Next]_vars
             PROVE  [Link!Next]_(Link!linkVars)
  OBVIOUS
<1>1. Undisturbed' => Undisturbed
  BY DisturbedStays
<1>2. caller \in [Ends -> Stages]
  BY DEF TypeOK
<1>3. ASSUME NEW e \in Ends, NewSession(e) PROVE [Link!Next]_(Link!linkVars)
  <2>1. UNCHANGED <<sent, got>> /\ ended' = ended
    BY <1>2, <1>3 DEF NewSession, outVars, inVars, ended, Gone
  <2>. QED
    BY <1>1, <2>1, LinkStutters, Zenon
<1>4. ASSUME NEW e \in Ends, NewFails(e) PROVE [Link!Next]_(Link!linkVars)
  <2>1. /\ UNCHANGED <<sent, got>> /\ ~Gone(e)
        /\ caller' = [caller EXCEPT ![e] = "failed"]
    BY <1>4 DEF NewFails, outVars, inVars, Gone
  <2>. QED
    BY <1>1, <2>1, LinkDrop
<1>5. ASSUME NEW e \in Ends, NegotiateReturns(e) PROVE [Link!Next]_(Link!linkVars)
  <2>1. UNCHANGED <<sent, got>> /\ ~Gone(e)
    BY <1>5 DEF NegotiateReturns, outVars, inVars, Gone
  <2>2. CASE caller' = [caller EXCEPT ![e] = "failed"]
    BY <1>1, <2>1, <2>2, LinkDrop
  <2>3. CASE caller' = [caller EXCEPT ![e] = "using"]
    <3>1. ended' = ended
      BY <1>2, <2>1, <2>3 DEF ended, Gone
    <3>. QED
      BY <1>1, <2>1, <3>1, LinkStutters, Zenon
  <2>. QED
    BY <1>5, <2>2, <2>3, Zenon DEF NegotiateReturns
<1>6. ASSUME NEW e \in Ends, AppDrops(e) PROVE [Link!Next]_(Link!linkVars)
  <2>1. /\ UNCHANGED <<sent, got>> /\ ~Gone(e)
        /\ caller' = [caller EXCEPT ![e] = "dropped"]
    BY <1>6 DEF AppDrops, outVars, inVars, Gone
  <2>. QED
    BY <1>1, <2>1, LinkDrop
(* The other steps do not show.                                            *)
<1>7. ASSUME UNCHANGED <<caller, sent, got>> PROVE [Link!Next]_(Link!linkVars)
  <2>1. ended' = ended
    BY <1>7, Zenon DEF ended, Gone
  <2>. QED
    BY <1>1, <1>7, <2>1, LinkStutters, Zenon
<1>8. ASSUME NEW e \in Ends, Negotiate(e) PROVE UNCHANGED <<caller, sent, got>>
  BY <1>8, Zenon DEF Negotiate, outVars, inVars
<1>9. ASSUME NEW e \in Ends, WriterStep(e) PROVE UNCHANGED <<caller, sent, got>>
  BY <1>9, Zenon DEF WriterStep, WriterRead, WriterReadsEof, WriterTransmit,
    WriterTransmitFails, WriterCloses, WriterReleases, outVars, inVars
<1>10. ASSUME NEW e \in Ends, ReaderStep(e) PROVE UNCHANGED <<caller, sent, got>>
  BY <1>10, Zenon DEF ReaderStep, ReaderReceive, ReaderReceiveFails, ReaderWrite,
    ReaderWriteFails, ReaderCloses, ReaderReleases, outVars, inVars
<1>11. ASSUME NetworkFails \/ UNCHANGED vars PROVE UNCHANGED <<caller, sent, got>>
  BY <1>11, Zenon DEF NetworkFails, vars, ctlVars, outVars, inVars
<1>. QED
  BY <1>3, <1>4, <1>5, <1>6, <1>7, <1>8, <1>9, <1>10, <1>11, LinkWrite, LinkRead,
     LinkReadEof, Zenon DEF Next, AppStep

(* The rats-tls session of lib.rs implements the abstract link, for every  *)
(* payload, capacity and interleaving.                                     *)
THEOREM ImplementsLink == Spec => LinkSpec
<1>1. Init => Link!Init
  BY LinkInit
<1>. QED
  BY <1>1, LinkStep, TypeCorrect, AlwaysInOrder, EndCorrect, AlwaysComplete, PTL
  DEF Spec, LinkSpec, Link!Spec
=============================================================================
