-------------------------------- MODULE Entg --------------------------------
(***************************************************************************)
(* One ENTG process (entg/src/main.rs).  It waits for an ENTA, connects to *)
(* or waits for the peer ENTG, in either order, each over TCP or over      *)
(* rats-tls; then it copies bytes both ways until one copy ends, and ends. *)
(*                                                                         *)
(* A leg is one of the two connections.  task[l] is the future that makes  *)
(* it (get_enta_stream, get_entg_stream), stream[l] the variable of main() *)
(* that receives it; copier[l] is the io::copy that reads from leg l.      *)
(* Bytes are numbered in the order in which the peer of a leg sends them.  *)
(***************************************************************************)
EXTENDS Integers, Sequences

CONSTANTS
  BufSize,    \* size of the buffer of io::copy (8192 in tokio)
  StreamCap,  \* bytes a stream takes before it exerts back-pressure
  MaxBytes,   \* MaxBytes[l]: bound on the bytes the peer of l sends
  MaxFaults   \* bound on binds, handshakes and streams that fail

Legs == {"enta", "entg"}
Other(l) == IF l = "enta" THEN "entg" ELSE "enta"

ASSUME EntgAssumption ==
  /\ BufSize \in Nat \ {0}
  /\ StreamCap \in Nat \ {0}
  /\ MaxBytes \in [Legs -> Nat]
  /\ MaxFaults \in Nat

VARIABLES
  main,     \* where main() is
  task,     \* task[l]: progress of the future that makes leg l
  stream,   \* stream[l]: main() has the stream of leg l
  peer,     \* the program at the other end of leg l
  coming,   \* coming[l]: bytes the peer of l sent and no copy has read
  copier,   \* copier[l]: the copy from leg l, or how it ended
  copyBuf,  \* copyBuf[l]: bytes that copy has read and not written
  sent,     \* sent[l]: how many bytes the peer of l has sent
  went,     \* went[l]: history of the bytes that leg l has accepted
  unread,   \* unread[l]: how many of those the peer of l has not read
  faults

setupVars == <<task, stream>>
copyVars == <<copier, copyBuf>>
vars == <<main, setupVars, peer, coming, copyVars, sent, went, unread, faults>>

SmallerOf(m, n) == IF m < n THEN m ELSE n

(* With --entg-connect the peer ENTG is connected to, else it is listened  *)
(* for, as the ENTA always is.                                             *)
Init ==
  /\ main = "waiting"
  /\ task \in {[enta |-> "bind", entg |-> start] : start \in {"bind", "connect"}}
  /\ stream = [l \in Legs |-> FALSE]
  /\ peer = [l \in Legs |-> "away"]
  /\ coming = [l \in Legs |-> <<>>]
  /\ copier = [l \in Legs |-> "none"]
  /\ copyBuf = [l \in Legs |-> <<>>]
  /\ sent = [l \in Legs |-> 0]
  /\ went = [l \in Legs |-> <<>>]
  /\ unread = [l \in Legs |-> 0]
  /\ faults = 0

Fault == faults < MaxFaults /\ faults' = faults + 1
-----------------------------------------------------------------------------
(* The peers.  One that is to be connected to comes up by itself; one that *)
(* is listened for connects when it is listened for.                       *)
PeerComes(l) ==
  /\ peer[l] = "away"
  /\ task[l] \in {"connect", "listening"}
  /\ peer' = [peer EXCEPT ![l] = "up"]
  /\ UNCHANGED <<main, setupVars, coming, copyVars, sent, went, unread, faults>>

PeerSends(l) ==
  /\ peer[l] = "up"
  /\ task[l] \in {"ok", "taken"}
  /\ sent[l] < MaxBytes[l]
  /\ sent' = [sent EXCEPT ![l] = @ + 1]
  /\ coming' = [coming EXCEPT ![l] = Append(@, sent'[l])]
  /\ UNCHANGED <<main, setupVars, peer, copyVars, went, unread, faults>>

PeerReads(l) ==
  /\ peer[l] = "up"
  /\ unread[l] > 0
  /\ unread' = [unread EXCEPT ![l] = @ - 1]
  /\ UNCHANGED <<main, setupVars, peer, coming, copyVars, sent, went, faults>>

PeerCloses(l) ==
  /\ peer[l] = "up"
  /\ peer' = [peer EXCEPT ![l] = "closed"]
  /\ UNCHANGED <<main, setupVars, coming, copyVars, sent, went, unread, faults>>

StreamBreaks(l) ==
  /\ peer[l] \in {"up", "closed"}
  /\ Fault
  /\ peer' = [peer EXCEPT ![l] = "broken"]
  /\ UNCHANGED <<main, setupVars, coming, copyVars, sent, went, unread>>
-----------------------------------------------------------------------------
(* Mutant of Polled: the select! branches lose their `if` guards.          *)
PolledAlways(l) == main = "waiting"

(* The futures.  They run only while main() polls them in its select!.     *)
Polled(l) == main = "waiting" /\ ~stream[l]

TaskGoes(l, to) ==
  /\ task' = [task EXCEPT ![l] = to]
  /\ UNCHANGED <<main, stream, peer, coming, copyVars, sent, went, unread>>

(* listen_on_port binds the port.                                          *)
Listens(l) ==
  /\ Polled(l)
  /\ task[l] = "bind"
  /\ TaskGoes(l, "listening")
  /\ UNCHANGED faults

(* accept or connect has a connection: it is upgraded to rats-tls or is    *)
(* the stream, as the options say.  peer_addr fails if it is gone already. *)
HasConnection(l) ==
  /\ Polled(l)
  /\ task[l] \in {"connect", "listening"}
  /\ peer[l] # "away"
  /\ IF peer[l] = "broken" THEN TaskGoes(l, "err")
     ELSE TaskGoes(l, "negotiating") \/ TaskGoes(l, "ok")
  /\ UNCHANGED faults

(* connect_to fails at once where nobody listens; it is not tried again.   *)
ConnectFails(l) ==
  /\ Polled(l)
  /\ task[l] = "connect"
  /\ peer[l] = "away"
  /\ TaskGoes(l, "err")
  /\ UNCHANGED faults

(* upgrade_to_rats_tls: RatsTls::new and negotiate_async (RatsTlsSession). *)
(* It has no time limit: only a peer that takes part ends the handshake.   *)
Upgrades(l) ==
  /\ Polled(l)
  /\ task[l] = "negotiating"
  /\ TaskGoes(l, IF peer[l] = "up" THEN "ok" ELSE "err")
  /\ UNCHANGED faults

(* bind, accept, connect or the handshake fails by itself: ? returns it.   *)
TaskFails(l) ==
  /\ Polled(l)
  /\ task[l] \in {"bind", "listening", "connect", "negotiating"}
  /\ TaskGoes(l, "err")
  /\ Fault

(* select! takes the result of a future; v1? and v2? return its error.  A  *)
(* future that has returned before panics when it is polled again.         *)
Selected(l) ==
  /\ Polled(l)
  /\ task[l] \in {"ok", "err", "taken"}
  /\ task' = [task EXCEPT ![l] = "taken"]
  /\ stream' = [stream EXCEPT ![l] = task[l] = "ok"]
  /\ main' = CASE task[l] = "ok" -> main
               [] task[l] = "err" -> "failed"
               [] task[l] = "taken" -> "panicked"
  /\ UNCHANGED <<peer, coming, copyVars, sent, went, unread, faults>>

(* Mutant of StillWaiting: looks at the futures, which were consumed.      *)
StillWaitingForTasks == \E l \in Legs : task[l] # "ok"

(* while enta_stream.is_none() || entg_stream.is_none()                    *)
StillWaiting == \E l \in Legs : ~stream[l]

(* The loop is left; unwrap panics where there is no stream.               *)
StartForwarding ==
  /\ main = "waiting"
  /\ ~StillWaiting
  /\ IF \A l \in Legs : stream[l]
     THEN /\ main' = "forwarding"
          /\ copier' = [l \in Legs |-> "read"]
     ELSE main' = "panicked" /\ UNCHANGED copier
  /\ UNCHANGED <<setupVars, peer, coming, copyBuf, sent, went, unread, faults>>
-----------------------------------------------------------------------------
Fill(l) == SmallerOf(BufSize, Len(coming[l]))

\* Mutant of Skip: a short write counts as complete.
SkipAll(s, k) == <<>>

Skip(s, k) == SubSeq(s, k + 1, Len(s))

(* io::copy: reads when its buffer is empty, writes until it is.  What the *)
(* duplex of a rats-tls leg holds can be read after the leg has broken.    *)
CopyReads(l) ==
  /\ copier[l] = "read"
  /\ \E n \in 1 .. Fill(l) :
       /\ copyBuf' = [copyBuf EXCEPT ![l] = SubSeq(coming[l], 1, n)]
       /\ coming' = [coming EXCEPT ![l] = Skip(@, n)]
  /\ copier' = [copier EXCEPT ![l] = "write"]
  /\ UNCHANGED <<main, setupVars, peer, sent, went, unread, faults>>

CopyWrites(l) ==
  LET to == Other(l) IN
  /\ copier[l] = "write"
  /\ peer[to] # "broken"
  /\ \E n \in 1 .. Len(copyBuf[l]) :
       /\ peer[to] = "up" => n <= StreamCap - unread[to]
       /\ went' = [went EXCEPT ![to] = @ \o SubSeq(copyBuf[l], 1, n)]
       /\ unread' = IF peer[to] = "up" THEN [unread EXCEPT ![to] = @ + n] ELSE unread
       /\ copyBuf' = [copyBuf EXCEPT ![l] = Skip(@, n)]
  /\ copier' = IF copyBuf'[l] = <<>> THEN [copier EXCEPT ![l] = "read"] ELSE copier
  /\ UNCHANGED <<main, setupVars, peer, coming, sent, faults>>

(* Mutant of CopyEnds: join! in place of select!.                          *)
CopyEndsAlone(l, how) ==
  /\ copier' = [copier EXCEPT ![l] = how]
  /\ main' = IF copier[Other(l)] \in {"eof", "error"} THEN "done" ELSE main
  /\ UNCHANGED <<setupVars, peer, coming, copyBuf, sent, went, unread, faults>>

(* A copy has ended: the select! drops the other one, both streams are     *)
(* dropped without a shutdown, and main() returns.                         *)
CopyEnds(l, how) ==
  /\ copier' = [copier EXCEPT ![l] = how, ![Other(l)] = "dropped"]
  /\ main' = IF how = "eof" THEN "done" ELSE "failed"
  /\ UNCHANGED <<setupVars, peer, coming, copyBuf, sent, went, unread, faults>>

\* Mutant of AtEof: the end with the peer, read or not.
AtEofEarly(l) == peer[l] = "closed"

AtEof(l) == peer[l] = "closed" /\ coming[l] = <<>>

CopyReadsEof(l) ==
  /\ copier[l] = "read"
  /\ AtEof(l)
  /\ CopyEnds(l, "eof")

(* A read fails, or a write to a stream whose peer is gone.                *)
CopyFails(l) ==
  /\ \/ copier[l] = "read" /\ peer[l] = "broken"
     \/ copier[l] = "write" /\ peer[Other(l)] # "up"
  /\ CopyEnds(l, "error")

Task(l) == Listens(l) \/ HasConnection(l) \/ ConnectFails(l) \/ Upgrades(l)
           \/ TaskFails(l) \/ Selected(l)
Copy(l) == CopyReads(l) \/ CopyWrites(l) \/ CopyReadsEof(l) \/ CopyFails(l)

Next ==
  \/ \E l \in Legs :
       \/ Task(l) \/ Copy(l)
       \/ PeerComes(l) \/ PeerSends(l) \/ PeerReads(l) \/ PeerCloses(l)
       \/ StreamBreaks(l)
  \/ StartForwarding

(* The peer of l is connected and the handshake with it has not ended.     *)
InHandshake(l) == task[l] = "negotiating" /\ peer[l] = "up"

(* main() is one task that is polled whenever it is woken; the peers read  *)
(* what they are sent.  No peer has to come, to take part in a handshake,  *)
(* to send or to close, and nothing has to fail.                           *)
Proceeds(l) ==
  ~InHandshake(l) /\ (Listens(l) \/ HasConnection(l) \/ ConnectFails(l) \/ Upgrades(l)
                       \/ Selected(l))

Fairness ==
  /\ \A l \in Legs : WF_vars(Proceeds(l)) /\ WF_vars(Copy(l)) /\ WF_vars(PeerReads(l))
  /\ WF_vars(StartForwarding)

Spec == Init /\ [][Next]_vars
FairSpec == Spec /\ Fairness
-----------------------------------------------------------------------------
TypeOK ==
  /\ main \in {"waiting", "forwarding", "done", "failed", "panicked"}
  /\ task \in [Legs -> {"bind", "connect", "listening", "negotiating", "ok", "err", "taken"}]
  /\ stream \in [Legs -> BOOLEAN]
  /\ peer \in [Legs -> {"away", "up", "closed", "broken"}]
  /\ copier \in [Legs -> {"none", "read", "write", "eof", "error", "dropped"}]
  /\ sent \in [Legs -> Nat]
  /\ \A l \in Legs :
       /\ coming[l] \in Seq(1 .. MaxBytes[l])
       /\ copyBuf[l] \in Seq(1 .. MaxBytes[l]) /\ Len(copyBuf[l]) <= BufSize
       /\ went[l] \in Seq(1 .. MaxBytes[Other(l)])
       /\ unread[l] \in 0 .. StreamCap
  /\ faults \in 0 .. MaxFaults

(* The order in which the two legs come up, and a leg that fails while the *)
(* other is up already, never make main() poll a future that has returned  *)
(* nor unwrap a stream it has not got (the loop of entg/src/main.rs:63-75). *)
NeverPanics == main # "panicked"

(* The bytes a peer sent are at every moment, in order, those the other    *)
(* leg accepted, the copy's buffer and the leg's own: what an early peer   *)
(* sends while the other leg is still being made is kept for it, too.      *)
Relayed ==
  \A l \in Legs :
    (went[Other(l)] \o copyBuf[l]) \o coming[l] = [n \in 1 .. sent[l] |-> n]

(* A peer that sends and closes has all its bytes forwarded before ENTG    *)
(* ends because of it, however slowly the other peer reads.                *)
ClosedIsForwarded ==
  \A l \in Legs : copier[l] = "eof" => Len(went[Other(l)]) = sent[l]

(* Once a peer has gone, ENTG ends: a copy that waits for the other peer   *)
(* to send something does not keep it alive.                               *)
EndsWithPeer ==
  main = "forwarding" /\ (\E l \in Legs : peer[l] # "up")
    ~> main \in {"done", "failed"}

(* When both peers have come, ENTG starts to forward, or gives up since    *)
(* one of them has gone again or something failed.  It waits on for ever   *)
(* only where a connected peer never ends its rats-tls handshake, for      *)
(* which there is no time limit.                                           *)
StartsForwarding ==
  []<>~(/\ main = "waiting"
        /\ \A l \in Legs : peer[l] # "away" /\ ~InHandshake(l))

(* ENTG gives up only for a reason: a peer that is not there, or a fault.  *)
GivesUpForCause ==
  main \in {"failed", "done"} =>
    \/ faults > 0
    \/ \E l \in Legs : peer[l] = "closed"
    \/ \E l \in Legs : peer[l] = "away" /\ task[l] = "taken"

(* The forwarder that this process implements: what a copy has in its      *)
(* buffer is taken, and select! closes both sides together, the one whose  *)
(* copy read the end and the other, which has then been given everything.  *)
Chain == INSTANCE Forwarder
           WITH Sides <- Legs,
                in <- [l \in Legs |-> went[Other(l)] \o copyBuf[l]],
                out <- went,
                port <- [l \in Legs |->
                           IF copier[l] = "eof" THEN "ended"
                           ELSE IF copier[Other(l)] = "eof" THEN "drained"
                           ELSE IF main \in {"failed", "panicked"} THEN "cut"
                           ELSE "open"]
ChainSpec == Chain!Spec
=============================================================================
