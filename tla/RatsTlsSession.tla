--------------------------- MODULE RatsTlsSession ---------------------------
(***************************************************************************)
(* One rats-tls connection, as RatsTls::new and RatsTls::negotiate_async   *)
(* (rats-tls/src/lib.rs) build it at BOTH of its ends.                     *)
(*                                                                         *)
(* librats_tls.so is blocking, the gateways are asynchronous.  So each end *)
(* keeps two tokio blocking threads between a DuplexStream pair (s1, s2)   *)
(* and the TCP socket:                                                     *)
(*                                                                         *)
(*   app --s2--> outPipe --> writer(wbuf) --transmit--> wire --> the peer  *)
(*   app <--s2-- inPipe  <-- reader(rbuf) <--receive--- wire <-- the peer  *)
(*                                                                         *)
(* The threads and the caller share Arc<(RatsTls, TcpStream)>; whoever     *)
(* drops the last clone runs rats_tls_cleanup and closes the socket.       *)
(*                                                                         *)
(* Bytes keep their value and their order; the transit buffers are never   *)
(* cleared when a thread gives up, so that what is lost stays visible.     *)
(***************************************************************************)
EXTENDS Integers, Sequences

CONSTANTS
  Byte,       \* the values a byte of plaintext may have
  Payload,    \* Payload[e]: all the bytes the application at e will write
  DuplexCap,  \* capacity of each pipe of tokio::io::duplex (1024 in the code)
  BufSize,    \* size of the threads' buf vectors (1024 in the code)
  WireCap,    \* bytes the TCP connection buffers in one direction
  Droppers,   \* the ends whose application may drop the stream on its own
  MaxFaults   \* bound on the failures of the network and of librats_tls

Ends == {"client", "server"}
Peer(e) == IF e = "client" THEN "server" ELSE "client"

ASSUME SessionAssumption ==
  /\ Payload \in [Ends -> Seq(Byte)]
  /\ DuplexCap \in Nat \ {0}
  /\ BufSize \in Nat \ {0}
  /\ WireCap \in Nat \ {0}
  /\ Droppers \subseteq Ends
  /\ MaxFaults \in Nat

VARIABLES
  caller,       \* the async code that calls new, negotiate_async, then holds s2
  negotiation,  \* the blocking task that runs rats_tls_negotiate
  holders,      \* who holds a clone of the Arc
  handle,       \* the rats_tls_handle
  writer,       \* program counter of the writer task
  reader,       \* program counter of the reader task
  outPipe,      \* bytes written to s2 and not yet read by the writer task
  inPipe,       \* bytes written by the reader task and not yet read from s2
  wbuf,         \* buf[w_off..r_len] of the writer task
  rbuf,         \* the part of buf[..r_len] the reader task still has to write
  wire,         \* wire[e]: bytes on the TCP connection from e to its peer
  fin,          \* fin[e]: e has shut the write side of its socket down
  reset,        \* the TCP connection has been reset
  faults,       \* failures so far
  sent,         \* history: the bytes s2 has accepted from the application
  got           \* history: the bytes the application has read from s2

ctlVars == <<caller, negotiation, writer, reader>>
arcVars == <<holders, handle, fin, reset>>
outVars == <<outPipe, wbuf, sent>>
inVars  == <<inPipe, rbuf, got>>
vars == <<ctlVars, arcVars, outVars, inVars, wire, faults>>

Take(s, k) == SubSeq(s, 1, k)

\* Mutants of Skip: w_off stays 0 until all is taken at once; what was taken in
\* part, by transmit or by write, counts as complete.
SkipNone(s, k) == IF k = Len(s) THEN <<>> ELSE s
SkipAll(s, k) == <<>>

Skip(s, k) == SubSeq(s, k + 1, Len(s))

SmallerOf(m, n) == IF m < n THEN m ELSE n

\* The application is done with the session: it dropped s2, it saw the end of
\* the stream, or it never got a stream.
Gone(e) == caller[e] \in {"dropped", "eof", "failed"}

\* The halves of s1 are dropped when their thread has left its loop; s1 itself,
\* and with it the read end of outPipe, when both are.
RhDropped(e) == writer[e] \in {"release", "done"}
WhDropped(e) == reader[e] \in {"release", "done"}
S1Dropped(e) == RhDropped(e) /\ WhDropped(e)

\* The TcpStream is owned by the caller until new has returned, then by the Arc.
SocketClosed(e) == holders[e] = {} /\ caller[e] # "new"

Init ==
  /\ caller = [e \in Ends |-> "new"]
  /\ negotiation = [e \in Ends |-> "none"]
  /\ holders = [e \in Ends |-> {}]
  /\ handle = [e \in Ends |-> "none"]
  /\ writer = [e \in Ends |-> "none"]
  /\ reader = [e \in Ends |-> "none"]
  /\ outPipe = [e \in Ends |-> <<>>]
  /\ inPipe = [e \in Ends |-> <<>>]
  /\ wbuf = [e \in Ends |-> <<>>]
  /\ rbuf = [e \in Ends |-> <<>>]
  /\ wire = [e \in Ends |-> <<>>]
  /\ fin = [e \in Ends |-> FALSE]
  /\ reset = FALSE
  /\ faults = 0
  /\ sent = [e \in Ends |-> <<>>]
  /\ got = [e \in Ends |-> <<>>]
-----------------------------------------------------------------------------
(* Mutant of DropClone: the Arc is leaked, cleanup is never called.        *)
DropCloneLeaks(e, h) ==
  /\ holders' = [holders EXCEPT ![e] = @ \ {h}]
  /\ UNCHANGED <<handle, fin, reset>>

(* The Arc.  Dropping the last clone drops the tuple: RatsTls::drop calls  *)
(* rats_tls_cleanup, then TcpStream is closed.  A socket closed with bytes *)
(* nobody read is closed with a reset.                                     *)
DropClone(e, h) ==
  /\ holders' = [holders EXCEPT ![e] = @ \ {h}]
  /\ IF holders[e] = {h}
     THEN /\ handle' = [handle EXCEPT ![e] = "cleaned"]
          /\ fin' = [fin EXCEPT ![e] = TRUE]
          /\ reset' = (reset \/ wire[Peer(e)] # <<>>)
     ELSE UNCHANGED <<handle, fin, reset>>

(* RatsTls::new succeeds and negotiate_async starts: it wraps the handle   *)
(* and the blocking socket in the Arc and gives a clone to the negotiator. *)
NewSession(e) ==
  /\ caller[e] = "new"
  /\ caller' = [caller EXCEPT ![e] = "awaiting"]
  /\ negotiation' = [negotiation EXCEPT ![e] = "running"]
  /\ holders' = [holders EXCEPT ![e] = {"caller", "negotiator"}]
  /\ handle' = [handle EXCEPT ![e] = "live"]
  /\ UNCHANGED <<writer, reader, fin, reset, outVars, inVars, wire, faults>>

(* RatsTls::new fails: rats_tls_init returned an error and there is no     *)
(* handle, or the callback could not be set and the handle is returned to  *)
(* nobody; or into_std fails in negotiate_async, which drops the RatsTls.  *)
(* The caller's TcpStream goes with the error.                             *)
NewFails(e) ==
  /\ caller[e] = "new"
  /\ caller' = [caller EXCEPT ![e] = "failed"]
  /\ \E h \in {"none", "leaked", "cleaned"} : handle' = [handle EXCEPT ![e] = h]
  /\ fin' = [fin EXCEPT ![e] = TRUE]
  /\ UNCHANGED <<negotiation, writer, reader, holders, reset, outVars, inVars,
                 wire, faults>>

(* The blocking task of negotiate_async ends and drops its clone.  The     *)
(* handshake succeeds only with a peer that takes part in it; it fails     *)
(* when the peer refuses or is gone, or by a fault of the library's own.   *)
(* A peer that is silent keeps it waiting: there is no time limit.         *)
Negotiate(e) ==
  /\ negotiation[e] = "running"
  /\ \/ /\ negotiation[Peer(e)] \in {"running", "ok"} /\ ~reset
        /\ negotiation' = [negotiation EXCEPT ![e] = "ok"]
        /\ UNCHANGED faults
     \/ /\ caller[Peer(e)] # "new" \/ reset
        /\ negotiation' = [negotiation EXCEPT ![e] = "err"]
        /\ UNCHANGED faults
     \/ /\ faults < MaxFaults /\ faults' = faults + 1
        /\ negotiation' = [negotiation EXCEPT ![e] = "err"]
  /\ DropClone(e, "negotiator")
  /\ UNCHANGED <<caller, writer, reader, outVars, inVars, wire>>

(* Mutant of NegotiateReturns: the writer borrows from the reader's clone. *)
NegotiateReturnsOneClone(e) ==
  /\ caller[e] = "awaiting"
  /\ negotiation[e] = "ok"
  /\ caller' = [caller EXCEPT ![e] = "using"]
  /\ writer' = [writer EXCEPT ![e] = "read"]
  /\ reader' = [reader EXCEPT ![e] = "receive"]
  /\ holders' = [holders EXCEPT ![e] = {"reader"}]
  /\ UNCHANGED <<negotiation, handle, fin, reset, outVars, inVars, wire, faults>>

(* The await returns: Ok makes the duplex pair and spawns the two threads  *)
(* (one clone, and the caller's own one moved), Err drops everything.      *)
NegotiateReturns(e) ==
  /\ caller[e] = "awaiting"
  /\ \/ /\ negotiation[e] = "ok"
        /\ caller' = [caller EXCEPT ![e] = "using"]
        /\ writer' = [writer EXCEPT ![e] = "read"]
        /\ reader' = [reader EXCEPT ![e] = "receive"]
        /\ holders' = [holders EXCEPT ![e] = {"writer", "reader"}]
        /\ UNCHANGED <<handle, fin, reset>>
     \/ /\ negotiation[e] = "err"
        /\ caller' = [caller EXCEPT ![e] = "failed"]
        /\ DropClone(e, "caller")
        /\ UNCHANGED <<writer, reader>>
  /\ UNCHANGED <<negotiation, outVars, inVars, wire, faults>>
-----------------------------------------------------------------------------
(* Mutant of AppWrite: a duplex without back-pressure.                     *)
AppWriteUnbounded(e) ==
  /\ caller[e] = "using"
  /\ ~S1Dropped(e)
  /\ Len(sent[e]) < Len(Payload[e])
  /\ LET b == Payload[e][Len(sent[e]) + 1] IN
       /\ outPipe' = [outPipe EXCEPT ![e] = Append(@, b)]
       /\ sent' = [sent EXCEPT ![e] = Append(@, b)]
  /\ UNCHANGED <<ctlVars, arcVars, wbuf, inVars, wire, faults>>

(* The application's side of s2: tokio::io::copy of entg, Framed of enta.  *)
AppWrite(e) ==
  /\ caller[e] = "using"
  /\ ~S1Dropped(e)
  /\ Len(outPipe[e]) < DuplexCap
  /\ Len(sent[e]) < Len(Payload[e])
  /\ LET b == Payload[e][Len(sent[e]) + 1] IN
       /\ outPipe' = [outPipe EXCEPT ![e] = Append(@, b)]
       /\ sent' = [sent EXCEPT ![e] = Append(@, b)]
  /\ UNCHANGED <<ctlVars, arcVars, wbuf, inVars, wire, faults>>

AppRead(e) ==
  /\ caller[e] = "using"
  /\ \E k \in 1 .. Len(inPipe[e]) :
       /\ got' = [got EXCEPT ![e] = @ \o Take(inPipe[e], k)]
       /\ inPipe' = [inPipe EXCEPT ![e] = Skip(@, k)]
  /\ UNCHANGED <<ctlVars, arcVars, outVars, rbuf, wire, faults>>

(* A read of s2 returns 0: copy() ends, or from_entg gets None; in both    *)
(* programs the select! around it completes and drops the stream.          *)
AppReadsEof(e) ==
  /\ caller[e] = "using"
  /\ inPipe[e] = <<>>
  /\ WhDropped(e)
  /\ caller' = [caller EXCEPT ![e] = "eof"]
  /\ UNCHANGED <<negotiation, writer, reader, arcVars, outVars, inVars, wire,
                 faults>>

(* The application ends for a reason of its own (its other connection, its *)
(* TUN device, ctrl_c), or since a write to s2 fails once s1 is dropped;   *)
(* it drops s2, or the future of negotiate_async it was waiting for.       *)
AppDrops(e) ==
  /\ \/ /\ caller[e] = "using"
        /\ e \in Droppers \/ S1Dropped(e)
        /\ UNCHANGED arcVars
     \/ /\ caller[e] = "awaiting"
        /\ e \in Droppers
        /\ DropClone(e, "caller")
  /\ caller' = [caller EXCEPT ![e] = "dropped"]
  /\ UNCHANGED <<negotiation, writer, reader, outVars, inVars, wire, faults>>
-----------------------------------------------------------------------------
(* The writer task: while let Ok(r_len) = rh.read(&mut buf).               *)
WriterRead(e) ==
  /\ writer[e] = "read"
  /\ outPipe[e] # <<>>
  /\ LET r_len == SmallerOf(BufSize, Len(outPipe[e])) IN
       /\ wbuf' = [wbuf EXCEPT ![e] = Take(outPipe[e], r_len)]
       /\ outPipe' = [outPipe EXCEPT ![e] = Skip(@, r_len)]
  /\ writer' = [writer EXCEPT ![e] = "transmit"]
  /\ UNCHANGED <<caller, negotiation, reader, arcVars, sent, inVars, wire,
                 faults>>

(* Mutant of WriterReadsEof: ends with s2 although the pipe has bytes.     *)
WriterReadsEofEarly(e) ==
  /\ writer[e] = "read"
  /\ Gone(e)
  /\ writer' = [writer EXCEPT ![e] = "close"]
  /\ UNCHANGED <<caller, negotiation, reader, arcVars, outVars, inVars, wire,
                 faults>>

(* read() returns 0 once s2 is dropped and the pipe is empty.              *)
WriterReadsEof(e) ==
  /\ writer[e] = "read"
  /\ outPipe[e] = <<>>
  /\ Gone(e)
  /\ writer' = [writer EXCEPT ![e] = "close"]
  /\ UNCHANGED <<caller, negotiation, reader, arcVars, outVars, inVars, wire,
                 faults>>

(* Mutant of WriterTransmit: a lock around the handle, which the reader    *)
(* holds while it waits in receive.                                        *)
WriterTransmitLocked(e) ==
  /\ reader[e] # "receive"
  /\ writer[e] = "transmit"
  /\ \E w_len \in 1 .. SmallerOf(Len(wbuf[e]), WireCap - Len(wire[e])) :
       /\ wire' = [wire EXCEPT ![e] = @ \o Take(wbuf[e], w_len)]
       /\ wbuf' = [wbuf EXCEPT ![e] = Skip(@, w_len)]
       /\ writer' = IF w_len = Len(wbuf[e])
                    THEN [writer EXCEPT ![e] = "read"] ELSE writer
  /\ reset' = (reset \/ SocketClosed(Peer(e)))
  /\ UNCHANGED <<caller, negotiation, reader, holders, handle, fin, outPipe,
                 sent, inVars, faults>>

(* transmit(&buf[w_off..r_len]) took w_len bytes; a peer whose socket is   *)
(* closed answers them with a reset.                                       *)
WriterTransmit(e) ==
  /\ writer[e] = "transmit"
  /\ \E w_len \in 1 .. SmallerOf(Len(wbuf[e]), WireCap - Len(wire[e])) :
       /\ wire' = [wire EXCEPT ![e] = @ \o Take(wbuf[e], w_len)]
       /\ wbuf' = [wbuf EXCEPT ![e] = Skip(@, w_len)]
       /\ writer' = IF w_len = Len(wbuf[e])
                    THEN [writer EXCEPT ![e] = "read"] ELSE writer
  /\ reset' = (reset \/ SocketClosed(Peer(e)))
  /\ UNCHANGED <<caller, negotiation, reader, holders, handle, fin, outPipe,
                 sent, inVars, faults>>

(* transmit() fails, on a reset connection or by a fault: break 'outer.    *)
WriterTransmitFails(e) ==
  /\ writer[e] = "transmit"
  /\ \/ reset /\ UNCHANGED faults
     \/ faults < MaxFaults /\ faults' = faults + 1
  /\ writer' = [writer EXCEPT ![e] = "close"]
  /\ UNCHANGED <<caller, negotiation, reader, arcVars, outVars, inVars, wire>>

(* Mutant of WriterCloses: no shutdown, the peer never sees the end.       *)
WriterClosesSilently(e) ==
  /\ writer[e] = "close"
  /\ writer' = [writer EXCEPT ![e] = "release"]
  /\ UNCHANGED <<caller, negotiation, reader, arcVars, outVars, inVars, wire,
                 faults>>

(* After the loop: shutdown(Shutdown::Write), then rh is dropped.          *)
WriterCloses(e) ==
  /\ writer[e] = "close"
  /\ fin' = [fin EXCEPT ![e] = TRUE]
  /\ writer' = [writer EXCEPT ![e] = "release"]
  /\ UNCHANGED <<caller, negotiation, reader, holders, handle, reset, outVars,
                 inVars, wire, faults>>

WriterReleases(e) ==
  /\ writer[e] = "release"
  /\ writer' = [writer EXCEPT ![e] = "done"]
  /\ DropClone(e, "writer")
  /\ UNCHANGED <<caller, negotiation, reader, outVars, inVars, wire, faults>>
-----------------------------------------------------------------------------
(* The reader task: receive(&mut buf) returns up to buf.len() bytes.       *)
ReaderReceive(e) ==
  /\ reader[e] = "receive"
  /\ \E r_len \in 1 .. SmallerOf(BufSize, Len(wire[Peer(e)])) :
       /\ rbuf' = [rbuf EXCEPT ![e] = Take(wire[Peer(e)], r_len)]
       /\ wire' = [wire EXCEPT ![Peer(e)] = Skip(@, r_len)]
  /\ reader' = [reader EXCEPT ![e] = "write"]
  /\ UNCHANGED <<caller, negotiation, writer, arcVars, outVars, inPipe, got,
                 faults>>

(* Mutant of ReaderReceiveFails: the socket was left in non-blocking mode. *)
ReaderReceiveFailsIdle(e) ==
  /\ reader[e] = "receive"
  /\ \/ /\ reset \/ wire[Peer(e)] = <<>>
        /\ UNCHANGED faults
     \/ faults < MaxFaults /\ faults' = faults + 1
  /\ reader' = [reader EXCEPT ![e] = "close"]
  /\ UNCHANGED <<caller, negotiation, writer, arcVars, outVars, inVars, wire>>

(* receive() fails: the peer has shut down and its bytes are consumed, the *)
(* connection was reset, or a fault.                                       *)
ReaderReceiveFails(e) ==
  /\ reader[e] = "receive"
  /\ \/ /\ reset \/ (fin[Peer(e)] /\ wire[Peer(e)] = <<>>)
        /\ UNCHANGED faults
     \/ faults < MaxFaults /\ faults' = faults + 1
  /\ reader' = [reader EXCEPT ![e] = "close"]
  /\ UNCHANGED <<caller, negotiation, writer, arcVars, outVars, inVars, wire>>

(* One write() of write_all: as much as the pipe has room for.             *)
ReaderWrite(e) ==
  /\ reader[e] = "write"
  /\ ~Gone(e)
  /\ Len(inPipe[e]) < DuplexCap
  /\ LET n == SmallerOf(Len(rbuf[e]), DuplexCap - Len(inPipe[e])) IN
       /\ inPipe' = [inPipe EXCEPT ![e] = @ \o Take(rbuf[e], n)]
       /\ rbuf' = [rbuf EXCEPT ![e] = Skip(@, n)]
       /\ reader' = IF n = Len(rbuf[e])
                    THEN [reader EXCEPT ![e] = "receive"] ELSE reader
  /\ UNCHANGED <<caller, negotiation, writer, arcVars, outVars, got, wire,
                 faults>>

(* write_all fails with BrokenPipe as soon as s2 is dropped.               *)
ReaderWriteFails(e) ==
  /\ reader[e] = "write"
  /\ Gone(e)
  /\ reader' = [reader EXCEPT ![e] = "close"]
  /\ UNCHANGED <<caller, negotiation, writer, arcVars, outVars, inVars, wire,
                 faults>>

(* After the loop: shutdown(Shutdown::Read), then ShutdownOnDrop shuts the *)
(* write side of the pipe down and drops wh.                               *)
ReaderCloses(e) ==
  /\ reader[e] = "close"
  /\ reader' = [reader EXCEPT ![e] = "release"]
  /\ UNCHANGED <<caller, negotiation, writer, arcVars, outVars, inVars, wire,
                 faults>>

ReaderReleases(e) ==
  /\ reader[e] = "release"
  /\ reader' = [reader EXCEPT ![e] = "done"]
  /\ DropClone(e, "reader")
  /\ UNCHANGED <<caller, negotiation, writer, outVars, inVars, wire, faults>>
-----------------------------------------------------------------------------
(* The network loses the connection.                                       *)
NetworkFails ==
  /\ faults < MaxFaults
  /\ ~reset
  /\ faults' = faults + 1
  /\ reset' = TRUE
  /\ UNCHANGED <<ctlVars, holders, handle, fin, outVars, inVars, wire>>

AppStep(e) == AppRead(e) \/ AppReadsEof(e) \/ NegotiateReturns(e)
WriterStep(e) == WriterRead(e) \/ WriterReadsEof(e) \/ WriterTransmit(e)
                 \/ WriterTransmitFails(e) \/ WriterCloses(e) \/ WriterReleases(e)
ReaderStep(e) == ReaderReceive(e) \/ ReaderReceiveFails(e) \/ ReaderWrite(e)
                 \/ ReaderWriteFails(e) \/ ReaderCloses(e) \/ ReaderReleases(e)

(* Everything at the end e is finished: its process can exit.              *)
Finished(e) ==
  /\ Gone(e)
  /\ negotiation[e] # "running"
  /\ writer[e] \in {"none", "done"}
  /\ reader[e] \in {"none", "done"}

Next ==
  \/ \E e \in Ends :
       \/ NewSession(e) \/ NewFails(e) \/ Negotiate(e)
       \/ AppStep(e) \/ AppWrite(e) \/ AppDrops(e)
       \/ WriterStep(e) \/ ReaderStep(e)
  \/ NetworkFails

(* Blocking threads are OS threads and the futures are polled whenever     *)
(* they are woken, so each keeps running while it can.  Nothing makes a    *)
(* peer start its handshake, or an application write or drop its stream,   *)
(* and a blocked thread may not hope for a fault.                          *)
Fairness ==
  \A e \in Ends :
    /\ WF_vars(Negotiate(e) /\ faults' = faults)
    /\ WF_vars(AppStep(e))
    /\ WF_vars(WriterStep(e) /\ faults' = faults)
    /\ WF_vars(ReaderStep(e) /\ faults' = faults)

Spec == Init /\ [][Next]_vars
FairSpec == Spec /\ Fairness
-----------------------------------------------------------------------------
Stages == {"new", "awaiting", "using", "dropped", "eof", "failed"}
WriterStages == {"none", "read", "transmit", "close", "release", "done"}
ReaderStages == {"none", "receive", "write", "close", "release", "done"}
Holders == {"caller", "negotiator", "writer", "reader"}
Bytes(cap) == {s \in Seq(Byte) : Len(s) <= cap}

(* Every variable has its type, and no buffer outgrows its capacity.       *)
TypeOK ==
  /\ caller \in [Ends -> Stages]
  /\ negotiation \in [Ends -> {"none", "running", "ok", "err"}]
  /\ holders \in [Ends -> SUBSET Holders]
  /\ handle \in [Ends -> {"none", "live", "cleaned", "leaked"}]
  /\ writer \in [Ends -> WriterStages]
  /\ reader \in [Ends -> ReaderStages]
  /\ outPipe \in [Ends -> Bytes(DuplexCap)]
  /\ inPipe \in [Ends -> Bytes(DuplexCap)]
  /\ wbuf \in [Ends -> Bytes(BufSize)]
  /\ rbuf \in [Ends -> Bytes(BufSize)]
  /\ wire \in [Ends -> Bytes(WireCap)]
  /\ fin \in [Ends -> BOOLEAN]
  /\ reset \in BOOLEAN
  /\ faults \in 0 .. MaxFaults
  /\ sent \in [Ends -> Seq(Byte)]
  /\ got \in [Ends -> Seq(Byte)]

(* Whatever the threads' interleaving, the partial transmits and receives  *)
(* and the way the session ends, the application at one end reads a prefix *)
(* of what the application at the other end wrote: nothing is lost from    *)
(* the middle, duplicated or reordered (the loops of lib.rs:169-217).      *)
InOrderDelivery ==
  \A e \in Ends :
    /\ Len(got[Peer(e)]) <= Len(sent[e])
    /\ \A i \in 1 .. Len(got[Peer(e)]) : got[Peer(e)][i] = sent[e][i]

(* The connection did what TCP promises: no reset and no fault.            *)
Undisturbed == ~reset /\ faults = 0

(* On an undisturbed connection an application that reads the end of the   *)
(* stream has read everything the peer wrote before it dropped its stream: *)
(* the writer drains the duplex before it shuts the socket down, and the   *)
(* reader drains the socket before it shuts the duplex down.               *)
EofMeansComplete ==
  \A e \in Ends :
    caller[Peer(e)] = "eof" /\ Undisturbed => got[Peer(e)] = sent[e]

(* No thread is inside librats_tls with a handle that was cleaned up, and  *)
(* the descriptor it uses is open: the clones of the Arc cover every use,  *)
(* also that of a negotiation whose caller was cancelled (lib.rs:136-152). *)
UsesHandle(e) ==
  \/ negotiation[e] = "running"
  \/ writer[e] \in {"transmit", "close"}
  \/ reader[e] \in {"receive", "close"}

NoUseAfterCleanup ==
  \A e \in Ends : UsesHandle(e) => handle[e] = "live" /\ ~SocketClosed(e)

(* A session that has finished has given its handle back, by exactly one   *)
(* rats_tls_cleanup; the one exception is RatsTls::new itself, when the    *)
(* callback cannot be set (lib.rs:120-125).                                *)
HandleReturned ==
  \A e \in Ends :
    (Finished(e) => handle[e] # "live") /\ (handle[e] = "leaked" => caller[e] = "failed")

(* The reader stops only for a reason: the peer is done, the connection or *)
(* the library failed, or the application has dropped its stream.          *)
ReaderStops(e) == reader[e] \in {"receive", "write"} /\ reader'[e] = "close"

(* lib.rs:163 says the reader task keeps running until the peer shuts its  *)
(* writer down (or, here, until the connection fails).                     *)
ReaderRunsUntilPeerShutdown ==
  [][\A e \in Ends : ReaderStops(e) => fin[Peer(e)] \/ reset' \/ faults' > 0]_vars

(* An end whose blocking task waits for a peer that never says anything.   *)
SilentPeer(e) == negotiation[e] = "running" /\ caller[Peer(e)] = "new"

(* Both writers are blocked in rats_tls_transmit by a full connection that *)
(* nobody will read, and neither socket is closed, since each writer has   *)
(* its clone of the Arc.                                                   *)
MutualBackpressure ==
  /\ ~reset
  /\ \A e \in Ends :
       writer[e] = "transmit" /\ Len(wire[e]) = WireCap /\ reader[e] = "done"

(* Once one application is gone, both threads of both ends stop, both      *)
(* handles are given back, and so both processes can leave their runtime;  *)
(* a peer that is silent keeps one (lib.rs:143), and the one other way in  *)
(* which threads can stay for ever is mutual back-pressure.                *)
OnlyBackpressureWedges ==
  (\E e \in Ends : Gone(e))
    ~> \/ \A e \in Ends : caller[e] = "new" \/ Finished(e) \/ SilentPeer(e)
       \/ MutualBackpressure

(* That takes two: as long as nothing fails, one application that reads    *)
(* its stream to the end keeps the session from the mutual back-pressure,  *)
(* however much either of them has still to send when the other one stops. *)
WedgeTakesBoth ==
  MutualBackpressure /\ faults = 0 => \A e \in Ends : e \in Droppers /\ caller[e] = "dropped"

(* No byte stays under way for ever: again and again, each application has *)
(* read all that the other one wrote, unless one of them goes.             *)
AllDelivered ==
  []<>((\A e \in Ends : got[Peer(e)] = sent[e]) \/ (\E e \in Ends : Gone(e)))

(* The abstract link this session implements.                              *)
Link == INSTANCE DuplexLink
          WITH ended <- [e \in Ends |-> IF Gone(e) THEN caller[e] ELSE "open"],
               disturbed <- ~Undisturbed
LinkSpec == Link!Spec
=============================================================================
