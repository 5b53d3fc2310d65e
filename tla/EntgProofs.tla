----------------------------- MODULE EntgProofs -----------------------------
(* Theorems about Entg, for all sizes of buffers and streams, numbers of   *)
(* bytes and bounds on the faults.                                         *)
EXTENDS Entg, StreamLemmas

(* Each leg has one other leg.                                             *)
LEMMA LegFacts ==
  \A l \in Legs : /\ Other(l) \in Legs /\ Other(l) # l /\ Other(Other(l)) = l
                  /\ \A k \in Legs : k # l => k = Other(l) /\ l = Other(k)
BY DEF Legs, Other

(* The bytes that the peer of l may send.                                  *)
Data(l) == Seq(1 .. MaxBytes[l])

(* TypeOK speaks of the values of these; they are also functions on Legs.  *)
OnLegs(f) == f = [l \in Legs |-> f[l]]
Shape == OnLegs(coming) /\ OnLegs(copyBuf) /\ OnLegs(went) /\ OnLegs(unread)

TypeInv == TypeOK /\ Shape

(* A function on Legs stays one when it is changed at a leg.               *)
LEMMA OnLegsExcept ==
  ASSUME NEW f, OnLegs(f), NEW l \in Legs, NEW v
  PROVE  /\ OnLegs([f EXCEPT ![l] = v])
         /\ [f EXCEPT ![l] = v][l] = v
         /\ [f EXCEPT ![l] = v][Other(l)] = f[Other(l)]
         /\ \A k \in Legs : [f EXCEPT ![l] = v][k] = IF k = l THEN v ELSE f[k]
BY LegFacts DEF OnLegs

(* A read of the copy moves the first bytes of the leg into its buffer.    *)
LEMMA CopyReadsFacts ==
  ASSUME TypeInv, NEW l \in Legs, CopyReads(l)
  PROVE  \E p, q \in Data(l) :
           /\ p # <<>> /\ Len(p) <= BufSize /\ coming[l] = p \o q
           /\ copyBuf' = [copyBuf EXCEPT ![l] = p]
           /\ coming' = [coming EXCEPT ![l] = q]
<1>. DEFINE s == coming[l]
<1>1. s \in Data(l) /\ Len(s) \in Nat
  BY LenProperties DEF TypeInv, TypeOK, Data
<1>2. PICK n \in 1 .. Fill(l) :
        /\ copyBuf' = [copyBuf EXCEPT ![l] = SubSeq(s, 1, n)]
        /\ coming' = [coming EXCEPT ![l] = Skip(s, n)]
  BY DEF CopyReads
<1>3. n \in Nat \ {0} /\ n \in 0 .. Len(s) /\ n <= BufSize
  BY <1>1, EntgAssumption DEF Fill, SmallerOf
<1>. DEFINE p == SubSeq(s, 1, n)
            q == Skip(s, n)
<1>4. p \in Data(l) /\ Len(p) = n /\ q \in Data(l) /\ p \o q = s
  BY <1>1, <1>3, CutInTwo DEF Data, Skip
<1>5. p # <<>> /\ Len(p) <= BufSize
  <2>. HIDE DEF p
  <2>. QED
    BY <1>3, <1>4, EmptySeq DEF Data
<1>. HIDE DEF p, q
<1>6. copyBuf' = [copyBuf EXCEPT ![l] = p] /\ coming' = [coming EXCEPT ![l] = q]
  BY <1>2, Zenon DEF p, q
<1>. QED
  BY <1>4, <1>5, <1>6, Zenon

(* A write of the copy moves the first bytes of its buffer to the other    *)
(* leg, which has room for them if its peer is up.                         *)
LEMMA CopyWritesFacts ==
  ASSUME TypeInv, NEW l \in Legs, CopyWrites(l)
  PROVE  \E p, q \in Data(l) :
           /\ p # <<>> /\ copyBuf[l] = p \o q /\ Len(q) <= BufSize
           /\ copyBuf' = [copyBuf EXCEPT ![l] = q]
           /\ went' = [went EXCEPT ![Other(l)] = went[Other(l)] \o p]
           /\ \/ unread' = unread
              \/ \E u \in 0 .. StreamCap : unread' = [unread EXCEPT ![Other(l)] = u]
           /\ copier' = IF q = <<>> THEN [copier EXCEPT ![l] = "read"] ELSE copier
<1>. DEFINE s == copyBuf[l]
            to == Other(l)
<1>1. s \in Data(l) /\ Len(s) \in Nat /\ Len(s) <= BufSize
  BY LenProperties DEF TypeInv, TypeOK, Data
<1>2. PICK n \in 1 .. Len(s) :
        /\ peer[to] = "up" => n <= StreamCap - unread[to]
        /\ went' = [went EXCEPT ![to] = @ \o SubSeq(s, 1, n)]
        /\ unread' = IF peer[to] = "up" THEN [unread EXCEPT ![to] = @ + n] ELSE unread
        /\ copyBuf' = [copyBuf EXCEPT ![l] = Skip(s, n)]
  BY DEF CopyWrites
<1>3. n \in Nat \ {0} /\ n \in 0 .. Len(s)
  BY <1>1
<1>. DEFINE p == SubSeq(s, 1, n)
            q == Skip(s, n)
<1>4. /\ p \in Data(l) /\ Len(p) = n /\ q \in Data(l) /\ p \o q = s
      /\ Len(q) = Len(s) - n
  BY <1>1, <1>3, CutInTwo DEF Data, Skip
<1>5. p # <<>> /\ Len(q) <= BufSize
  <2>. HIDE DEF p, q
  <2>. QED
    BY <1>1, <1>3, <1>4, EmptySeq, EntgAssumption DEF Data
<1>. HIDE DEF p, q
<1>6. /\ copyBuf' = [copyBuf EXCEPT ![l] = q]
      /\ went' = [went EXCEPT ![to] = went[to] \o p]
  BY <1>2, Zenon DEF p, q
<1>7. copyBuf'[l] = q
  <2>1. OnLegs(copyBuf)
    BY DEF TypeInv, Shape
  <2>2. [copyBuf EXCEPT ![l] = q][l] = q
    BY <2>1 DEF OnLegs
  <2>. QED
    BY <1>6, <2>2, Zenon
<1>8. copier' = IF q = <<>> THEN [copier EXCEPT ![l] = "read"] ELSE copier
  BY <1>7 DEF CopyWrites
<1>9. \/ unread' = unread
      \/ \E u \in 0 .. StreamCap : unread' = [unread EXCEPT ![to] = u]
  <2>1. CASE peer[to] # "up"
    BY <1>2, <2>1
  <2>2. CASE peer[to] = "up"
    <3>1. unread[to] \in 0 .. StreamCap /\ unread[to] + n \in 0 .. StreamCap
      <4>1. unread[to] \in 0 .. StreamCap
        BY LegFacts DEF TypeInv, TypeOK
      <4>2. n <= StreamCap - unread[to]
        BY <1>2, <2>2
      <4>. QED
        BY <1>3, <4>1, <4>2, EntgAssumption
    <3>2. unread' = [unread EXCEPT ![to] = unread[to] + n]
      BY <1>2, <2>2
    <3>. QED
      BY <3>1, <3>2
  <2>. QED
    BY <2>1, <2>2
<1>. QED
  BY <1>4, <1>5, <1>6, <1>8, <1>9, Zenon
-----------------------------------------------------------------------------
(* The conjuncts of TypeOK about the bytes, and the ones about the rest.   *)
DataOK(l) ==
  /\ coming[l] \in Data(l)
  /\ copyBuf[l] \in Data(l) /\ Len(copyBuf[l]) <= BufSize
  /\ went[l] \in Data(Other(l))
  /\ unread[l] \in 0 .. StreamCap

ControlOK ==
  /\ main \in {"waiting", "forwarding", "done", "failed", "panicked"}
  /\ task \in [Legs -> {"bind", "connect", "listening", "negotiating", "ok", "err", "taken"}]
  /\ stream \in [Legs -> BOOLEAN]
  /\ peer \in [Legs -> {"away", "up", "closed", "broken"}]
  /\ copier \in [Legs -> {"none", "read", "write", "eof", "error", "dropped"}]
  /\ sent \in [Legs -> Nat]
  /\ faults \in 0 .. MaxFaults

(* TypeInv is those conjuncts together, before and after a step.           *)
LEMMA TypeParts ==
  /\ TypeInv <=> ControlOK /\ Shape /\ \A l \in Legs : DataOK(l)
  /\ TypeInv' <=> ControlOK' /\ Shape' /\ \A l \in Legs : DataOK(l)'
BY DEF TypeInv, TypeOK, ControlOK, DataOK, Data

(* The process starts with nothing in any buffer.                          *)
LEMMA TypeInit == Init => TypeInv
<1> SUFFICES ASSUME Init PROVE TypeInv
  OBVIOUS
<1>1. ControlOK
  <2>1. PICK start \in {"bind", "connect"} : task = [enta |-> "bind", entg |-> start]
    BY DEF Init
  <2>2. task = [l \in Legs |-> IF l = "enta" THEN "bind" ELSE start]
    BY <2>1 DEF Legs
  <2>. QED
    BY <2>2, EntgAssumption DEF Init, ControlOK
<1>2. Shape
  BY DEF Init, Shape, OnLegs
<1>3. ASSUME NEW l \in Legs PROVE DataOK(l)
  <2>1. /\ <<>> \in Data(l) /\ <<>> \in Data(Other(l)) /\ Len(<<>>) = 0
    BY EmptySeq DEF Data
  <2>2. coming[l] = <<>> /\ copyBuf[l] = <<>> /\ went[l] = <<>> /\ unread[l] = 0
    BY <1>3 DEF Init
  <2>3. 0 \in 0 .. StreamCap /\ 0 <= BufSize
    BY EntgAssumption
  <2>. QED
    BY <2>1, <2>2, <2>3, Zenon DEF DataOK
<1>. QED
  BY <1>1, <1>2, <1>3, TypeParts

(* The steps of the futures, of main() and of the copies keep the types of *)
(* everything but the bytes.                                               *)
LEMMA ControlStep ==
  ASSUME ControlOK, Next
  PROVE  ControlOK'
<1>. USE DEF ControlOK
<1>1. ASSUME NEW l \in Legs, Task(l) PROVE ControlOK'
  <2>1. CASE Listens(l)
    BY <2>1 DEF Listens, TaskGoes, copyVars
  <2>2. CASE HasConnection(l)
    BY <2>2 DEF HasConnection, TaskGoes, copyVars
  <2>3. CASE ConnectFails(l)
    BY <2>3 DEF ConnectFails, TaskGoes, copyVars
  <2>4. CASE Upgrades(l)
    BY <2>4 DEF Upgrades, TaskGoes, copyVars
  <2>5. CASE TaskFails(l)
    BY <2>5, EntgAssumption DEF TaskFails, TaskGoes, Fault, copyVars
  <2>6. CASE Selected(l)
    BY <2>6 DEF Selected, copyVars
  <2>. QED
    BY <1>1, <2>1, <2>2, <2>3, <2>4, <2>5, <2>6 DEF Task
<1>2. ASSUME NEW l \in Legs, Copy(l) PROVE ControlOK'
  <2>. USE LegFacts
  <2>1. CASE CopyReads(l)
    BY <2>1 DEF CopyReads, setupVars
  <2>2. CASE CopyWrites(l)
    BY <2>2 DEF CopyWrites, setupVars
  <2>3. CASE CopyReadsEof(l)
    BY <2>3 DEF CopyReadsEof, CopyEnds, setupVars
  <2>4. CASE CopyFails(l)
    BY <2>4 DEF CopyFails, CopyEnds, setupVars
  <2>. QED
    BY <1>2, <2>1, <2>2, <2>3, <2>4 DEF Copy
<1>3. ASSUME NEW l \in Legs, PeerComes(l) \/ PeerReads(l) \/ PeerCloses(l)
      PROVE  ControlOK'
  BY <1>3 DEF PeerComes, PeerReads, PeerCloses, setupVars, copyVars
<1>4. ASSUME NEW l \in Legs, PeerSends(l) \/ StreamBreaks(l) PROVE ControlOK'
  <2>1. CASE PeerSends(l)
    BY <2>1 DEF PeerSends, setupVars, copyVars
  <2>2. CASE StreamBreaks(l)
    BY <2>2, EntgAssumption DEF StreamBreaks, Fault, setupVars, copyVars
  <2>. QED
    BY <1>4, <2>1, <2>2
<1>5. CASE StartForwarding
  BY <1>5 DEF StartForwarding, setupVars
<1>. HIDE DEF ControlOK
<1>. QED
  BY <1>1, <1>2, <1>3, <1>4, <1>5, Zenon DEF Next

(* What leaves the bytes alone.                                            *)
dataVars == <<coming, copyBuf, went, unread>>

(* The set-up, an end and a failure leave them alone.                      *)
LEMMA DataStutters ==
  /\ \A l \in Legs : Task(l) \/ CopyReadsEof(l) \/ CopyFails(l) \/ PeerComes(l)
                     \/ PeerCloses(l) \/ StreamBreaks(l) => UNCHANGED dataVars
  /\ StartForwarding => UNCHANGED dataVars
<1>1. ASSUME NEW l \in Legs, Task(l) PROVE UNCHANGED dataVars
  BY <1>1, Zenon DEF Task, Listens, HasConnection, ConnectFails, Upgrades, TaskFails,
    Selected, TaskGoes, dataVars, copyVars
<1>2. ASSUME NEW l \in Legs, CopyReadsEof(l) \/ CopyFails(l) PROVE UNCHANGED dataVars
  BY <1>2, Zenon DEF CopyReadsEof, CopyFails, CopyEnds, dataVars
<1>3. ASSUME NEW l \in Legs, PeerComes(l) \/ PeerCloses(l) \/ StreamBreaks(l)
      PROVE  UNCHANGED dataVars
  BY <1>3, Zenon DEF PeerComes, PeerCloses, StreamBreaks, dataVars, copyVars
<1>4. ASSUME StartForwarding PROVE UNCHANGED dataVars
  BY <1>4, Zenon DEF StartForwarding, dataVars
<1>. QED
  BY <1>1, <1>2, <1>3, <1>4

(* A peer appends to what is coming from it.                               *)
LEMMA PeerSendsFacts ==
  ASSUME TypeInv, NEW l \in Legs, PeerSends(l)
  PROVE  LET n == sent[l] + 1 IN
         /\ n \in 1 .. MaxBytes[l]
         /\ sent' = [sent EXCEPT ![l] = n]
         /\ coming' = [coming EXCEPT ![l] = Append(coming[l], n)]
         /\ Append(coming[l], n) \in Data(l)
         /\ UNCHANGED <<copyBuf, went, unread>>
<1>. DEFINE n == sent[l] + 1
<1>1. sent \in [Legs -> Nat] /\ coming[l] \in Data(l) /\ MaxBytes[l] \in Nat
  BY EntgAssumption DEF TypeInv, TypeOK, Data
<1>2. n \in 1 .. MaxBytes[l]
  BY <1>1 DEF PeerSends
<1>3. sent' = [sent EXCEPT ![l] = n] /\ sent'[l] = n
  BY <1>1 DEF PeerSends
<1>4. coming' = [coming EXCEPT ![l] = Append(coming[l], n)]
  BY <1>3 DEF PeerSends
<1>5. Append(coming[l], n) \in Data(l)
  BY <1>1, <1>2, AppendProperties DEF Data
<1>6. UNCHANGED <<copyBuf, went, unread>>
  BY DEF PeerSends, copyVars
<1>. QED
  BY <1>2, <1>3, <1>4, <1>5, <1>6

(* No step lets a buffer outgrow its capacity or mixes the bytes of the    *)
(* two peers.                                                              *)
LEMMA DataStep ==
  ASSUME TypeInv, Next
  PROVE  Shape' /\ \A l \in Legs : DataOK(l)'
<1>. DEFINE Goal == Shape' /\ \A l \in Legs : DataOK(l)'
<1>0. Shape /\ \A l \in Legs : DataOK(l)
  BY TypeParts
<1>1. ASSUME UNCHANGED dataVars PROVE Goal
  BY <1>0, <1>1 DEF dataVars, Shape, OnLegs, DataOK
<1>2. ASSUME NEW l \in Legs, PeerSends(l) PROVE Goal
  <2>. DEFINE c == Append(coming[l], sent[l] + 1)
  <2>1. /\ coming' = [coming EXCEPT ![l] = c] /\ c \in Data(l)
        /\ UNCHANGED <<copyBuf, went, unread>>
    BY <1>2, PeerSendsFacts
  <2>. HIDE DEF c
  <2>. QED
    BY <1>0, <2>1 DEF Shape, OnLegs, DataOK
<1>3. ASSUME NEW l \in Legs, PeerReads(l) PROVE Goal
  <2>1. /\ unread' = [unread EXCEPT ![l] = unread[l] - 1] /\ unread[l] > 0
        /\ UNCHANGED <<coming, copyBuf, went>>
    BY <1>3 DEF PeerReads, copyVars
  <2>2. unread[l] - 1 \in 0 .. StreamCap
    BY <1>0, <2>1, EntgAssumption DEF DataOK
  <2>. QED
    BY <1>0, <2>1, <2>2 DEF Shape, OnLegs, DataOK
<1>4. ASSUME NEW l \in Legs, CopyReads(l) PROVE Goal
  <2>1. PICK p, q \in Data(l) :
          /\ Len(p) <= BufSize
          /\ copyBuf' = [copyBuf EXCEPT ![l] = p]
          /\ coming' = [coming EXCEPT ![l] = q]
    BY <1>4, CopyReadsFacts, Zenon
  <2>2. UNCHANGED <<went, unread>>
    BY <1>4 DEF CopyReads
  <2>. QED
    BY <1>0, <2>1, <2>2 DEF Shape, OnLegs, DataOK
<1>5. ASSUME NEW l \in Legs, CopyWrites(l) PROVE Goal
  <2>1. PICK p, q \in Data(l) :
          /\ Len(q) <= BufSize
          /\ copyBuf' = [copyBuf EXCEPT ![l] = q]
          /\ went' = [went EXCEPT ![Other(l)] = went[Other(l)] \o p]
          /\ \/ unread' = unread
             \/ \E u \in 0 .. StreamCap : unread' = [unread EXCEPT ![Other(l)] = u]
    BY <1>5, CopyWritesFacts, Zenon
  <2>2. UNCHANGED coming
    BY <1>5 DEF CopyWrites
  <2>. DEFINE w == went[Other(l)] \o p
  <2>3. w \in Data(l)
    <3>1. went[Other(l)] \in Data(l)
      BY <1>0, LegFacts DEF DataOK
    <3>. QED
      BY <2>1, <3>1, ConcatProperties DEF Data
  <2>4. went' = [went EXCEPT ![Other(l)] = w]
    BY <2>1
  <2>. HIDE DEF w
  <2>5. Shape'
    BY <1>0, <2>1, <2>2, <2>4 DEF Shape, OnLegs
  <2>6. ASSUME NEW k \in Legs PROVE DataOK(k)'
    <3>1. went'[k] \in Data(Other(k))
      BY <1>0, <2>3, <2>4, LegFacts DEF Shape, OnLegs, DataOK
    <3>2. copyBuf'[k] \in Data(k) /\ Len(copyBuf'[k]) <= BufSize
      BY <1>0, <2>1 DEF Shape, OnLegs, DataOK
    <3>3. unread'[k] \in 0 .. StreamCap
      BY <1>0, <2>1 DEF Shape, OnLegs, DataOK
    <3>. QED
      BY <1>0, <2>2, <3>1, <3>2, <3>3 DEF DataOK
  <2>. QED
    BY <2>5, <2>6
<1>. QED
  BY <1>1, <1>2, <1>3, <1>4, <1>5, DataStutters, Zenon DEF Next, Copy

(* Every step keeps the types.                                             *)
LEMMA TypeStep == TypeInv /\ [Next]_vars => TypeInv'
<1>1. ASSUME TypeInv, Next PROVE TypeInv'
  BY <1>1, TypeParts, ControlStep, DataStep
<1>2. ASSUME TypeInv, UNCHANGED vars PROVE TypeInv'
  <2>1. ControlOK /\ Shape /\ \A l \in Legs : DataOK(l)
    BY <1>2, TypeParts
  <2>2. ControlOK'
    BY <1>2, <2>1, Zenon DEF ControlOK, vars, setupVars, copyVars
  <2>3. Shape' /\ \A l \in Legs : DataOK(l)'
    BY <1>2, <2>1 DEF Shape, OnLegs, DataOK, vars, copyVars
  <2>. QED
    BY <2>2, <2>3, TypeParts
<1>. QED
  BY <1>1, <1>2

(* The types hold for ever.                                                *)
LEMMA TypeAlways == Spec => []TypeInv
BY TypeInit, TypeStep, PTL DEF Spec

(* No buffer of ENTG and no stream outgrows its capacity, and no byte that *)
(* one peer sends is returned to it.                                       *)
THEOREM TypeCorrect == Spec => []TypeOK
<1>1. TypeInv => TypeOK
  BY DEF TypeInv
<1>. QED
  BY <1>1, TypeAlways, PTL
-----------------------------------------------------------------------------
(* While main() waits, it has the streams of the futures that returned one; *)
(* no future is polled after that.                                         *)
SetupInv ==
  /\ NeverPanics
  /\ \A l \in Legs : main = "waiting" => (stream[l] <=> task[l] = "taken")

(* The select! keeps what main() has and what has returned in step.        *)
LEMMA SetupStep == TypeInv /\ SetupInv /\ [Next]_vars => SetupInv'
<1> SUFFICES ASSUME TypeInv, SetupInv, [Next]_vars PROVE SetupInv'
  OBVIOUS
<1>. USE DEF SetupInv, NeverPanics
<1>0. task \in [Legs -> {"bind", "connect", "listening", "negotiating", "ok", "err", "taken"}]
  BY DEF TypeInv, TypeOK
<1>1. ASSUME NEW l \in Legs, NEW to \in {"listening", "negotiating", "ok", "err"},
             Polled(l), task[l] # "taken", TaskGoes(l, to)
      PROVE  SetupInv'
  BY <1>0, <1>1 DEF Polled, TaskGoes
<1>2. ASSUME NEW l \in Legs,
             \/ Listens(l) \/ HasConnection(l) \/ ConnectFails(l) \/ Upgrades(l)
             \/ TaskFails(l)
      PROVE  SetupInv'
  <2>1. Polled(l) /\ task[l] # "taken"
    BY <1>2 DEF Listens, HasConnection, ConnectFails, Upgrades, TaskFails
  <2>2. \E to \in {"listening", "negotiating", "ok", "err"} : TaskGoes(l, to)
    BY <1>2 DEF Listens, HasConnection, ConnectFails, Upgrades, TaskFails
  <2>. QED
    BY <1>1, <2>1, <2>2
<1>3. ASSUME NEW l \in Legs, Selected(l) PROVE SetupInv'
  <2>1. main = "waiting" /\ ~stream[l] /\ task[l] \in {"ok", "err"}
    BY <1>3 DEF Selected, Polled
  <2>2. CASE task[l] = "ok"
    <3>1. main' = "waiting" /\ task' = [task EXCEPT ![l] = "taken"]
          /\ stream' = [stream EXCEPT ![l] = TRUE]
      BY <1>3, <2>1, <2>2 DEF Selected
    <3>2. stream \in [Legs -> BOOLEAN]
      BY DEF TypeInv, TypeOK
    <3>. QED
      BY <1>0, <2>1, <3>1, <3>2
  <2>3. CASE task[l] = "err"
    BY <1>3, <2>1, <2>3 DEF Selected
  <2>. QED
    BY <2>1, <2>2, <2>3
<1>4. ASSUME NEW l \in Legs, Copy(l) PROVE SetupInv'
  <2>1. UNCHANGED setupVars /\ (main' = main \/ main' \in {"done", "failed"})
    BY <1>4 DEF Copy, CopyReads, CopyWrites, CopyReadsEof, CopyFails, CopyEnds
  <2>. QED
    BY <2>1 DEF setupVars
<1>5. ASSUME NEW l \in Legs,
             PeerComes(l) \/ PeerSends(l) \/ PeerReads(l) \/ PeerCloses(l) \/ StreamBreaks(l)
      PROVE  SetupInv'
  <2>1. UNCHANGED <<main, task, stream>>
    BY <1>5 DEF PeerComes, PeerSends, PeerReads, PeerCloses, StreamBreaks, setupVars
  <2>. QED
    BY <2>1
<1>6. CASE StartForwarding
  BY <1>6 DEF StartForwarding, StillWaiting, setupVars
<1>7. CASE UNCHANGED vars
  BY <1>7 DEF vars, setupVars
<1>. QED
  BY <1>2, <1>3, <1>4, <1>5, <1>6, <1>7 DEF Next, Task

(* What the set-up relies on holds for ever.                               *)
LEMMA SetupAlways == Spec => []SetupInv
<1>1. Init => SetupInv
  BY DEF Init, SetupInv, NeverPanics, Legs
<1>. QED
  BY <1>1, SetupStep, TypeAlways, PTL DEF Spec

(* Whatever the order in which the legs come up or fail, main() neither    *)
(* polls a future that has returned nor unwraps a stream it has not got.   *)
THEOREM NoPanic == Spec => []NeverPanics
<1>1. SetupInv => NeverPanics
  BY DEF SetupInv
<1>. QED
  BY <1>1, SetupAlways, PTL
-----------------------------------------------------------------------------
(* A copy's buffer holds something only between a read and the writes that *)
(* follow it; the copies run together, and only while main() forwards.     *)
CopyOK(l) ==
  /\ main = "waiting" => copier[l] = "none"
  /\ copier[l] \in {"none", "read", "eof"} => copyBuf[l] = <<>>
  /\ copier[l] = "eof" => peer[l] \in {"closed", "broken"} /\ coming[l] = <<>>
  /\ copier[l] \in {"read", "write"} =>
       main = "forwarding" /\ copier[Other(l)] \in {"read", "write"}

CopyInv == \A l \in Legs : CopyOK(l)

(* What one copy does is seen by that copy, and by the other when it ends. *)
LEMMA CopyStep == TypeInv /\ CopyInv /\ [Next]_vars => CopyInv'
<1> SUFFICES ASSUME TypeInv, CopyInv, [Next]_vars PROVE CopyInv'
  OBVIOUS
<1>0. /\ \A k \in Legs : CopyOK(k)
      /\ OnLegs(copyBuf) /\ OnLegs(coming)
      /\ copier \in [Legs -> {"none", "read", "write", "eof", "error", "dropped"}]
      /\ peer \in [Legs -> {"away", "up", "closed", "broken"}]
  BY DEF CopyInv, TypeInv, TypeOK, Shape
<1>1. ASSUME UNCHANGED <<copier, copyBuf, coming>>,
             main' = main \/ (main = "waiting" /\ main' # "waiting"),
             \A k \in Legs : peer[k] \in {"closed", "broken"} => peer'[k] \in {"closed", "broken"}
      PROVE  CopyInv'
  BY <1>0, <1>1, LegFacts DEF CopyInv, CopyOK
<1>2. ASSUME NEW l \in Legs, Task(l) PROVE CopyInv'
  <2>1. UNCHANGED <<copier, copyBuf, coming, peer>>
    BY <1>2, Zenon DEF Task, Listens, HasConnection, ConnectFails, Upgrades, TaskFails,
      Selected, TaskGoes, copyVars
  <2>2. main' = main \/ (main = "waiting" /\ main' # "waiting")
    <3>1. main = "waiting"
      BY <1>2 DEF Task, Listens, HasConnection, ConnectFails, Upgrades, TaskFails,
        Selected, Polled
    <3>. QED
      BY <3>1
  <2>. QED
    BY <1>1, <2>1, <2>2
<1>3. ASSUME NEW l \in Legs, PeerComes(l) \/ PeerReads(l) \/ PeerCloses(l) \/ StreamBreaks(l)
      PROVE  CopyInv'
  <2>1. UNCHANGED <<copier, copyBuf, coming, main>>
    BY <1>3, Zenon DEF PeerComes, PeerReads, PeerCloses, StreamBreaks, copyVars
  <2>2. \A k \in Legs : peer[k] \in {"closed", "broken"} => peer'[k] \in {"closed", "broken"}
    BY <1>0, <1>3 DEF PeerComes, PeerReads, PeerCloses, StreamBreaks
  <2>. QED
    BY <1>1, <2>1, <2>2
<1>4. ASSUME NEW l \in Legs, PeerSends(l) PROVE CopyInv'
  <2>. DEFINE c == Append(coming[l], sent[l] + 1)
  <2>1. coming' = [coming EXCEPT ![l] = c]
    BY <1>4, PeerSendsFacts
  <2>2. UNCHANGED <<copier, copyBuf, main, peer>> /\ peer[l] = "up"
    BY <1>4 DEF PeerSends, copyVars
  <2>. HIDE DEF c
  <2>. QED
    BY <1>0, <2>1, <2>2, LegFacts DEF CopyInv, CopyOK, OnLegs
<1>5. ASSUME NEW l \in Legs, CopyReads(l) PROVE CopyInv'
  <2>1. PICK p, q \in Data(l) :
          /\ copyBuf' = [copyBuf EXCEPT ![l] = p]
          /\ coming' = [coming EXCEPT ![l] = q]
    BY <1>5, CopyReadsFacts, Zenon
  <2>2. copier[l] = "read" /\ copier' = [copier EXCEPT ![l] = "write"]
        /\ UNCHANGED <<main, peer>>
    BY <1>5 DEF CopyReads
  <2>3. CopyOK(l)'
    BY <1>0, <2>1, <2>2, LegFacts DEF CopyOK
  <2>4. ASSUME NEW k \in Legs, k # l PROVE CopyOK(k)'
    <3>1. copyBuf'[k] = copyBuf[k] /\ coming'[k] = coming[k] /\ copier'[k] = copier[k]
      BY <1>0, <2>1, <2>2, <2>4 DEF OnLegs
    <3>2. copier'[Other(k)] \in {"read", "write"}
      BY <1>0, <2>2, <2>4, LegFacts DEF CopyOK
    <3>. QED
      BY <1>0, <2>2, <3>1, <3>2 DEF CopyOK
  <2>. QED
    BY <2>3, <2>4 DEF CopyInv
<1>6. ASSUME NEW l \in Legs, CopyWrites(l) PROVE CopyInv'
  <2>1. PICK p, q \in Data(l) :
          /\ copyBuf' = [copyBuf EXCEPT ![l] = q]
          /\ copier' = IF q = <<>> THEN [copier EXCEPT ![l] = "read"] ELSE copier
    BY <1>6, CopyWritesFacts, Zenon
  <2>2. copier[l] = "write" /\ UNCHANGED <<main, peer, coming>>
    BY <1>6 DEF CopyWrites
  <2>3. CopyOK(l)'
    <3>1. copyBuf'[l] = q
      BY <1>0, <2>1 DEF OnLegs
    <3>2. copier'[l] = (IF q = <<>> THEN "read" ELSE "write")
      BY <1>0, <2>1, <2>2
    <3>3. main = "forwarding" /\ copier'[Other(l)] \in {"read", "write"}
      BY <1>0, <2>1, <2>2, LegFacts DEF CopyOK
    <3>. QED
      BY <2>2, <3>1, <3>2, <3>3 DEF CopyOK
  <2>4. ASSUME NEW k \in Legs, k # l PROVE CopyOK(k)'
    <3>1. copyBuf'[k] = copyBuf[k] /\ copier'[k] = copier[k]
      BY <1>0, <2>1, <2>4 DEF OnLegs
    <3>2. copier'[Other(k)] \in {"read", "write"}
      BY <1>0, <2>1, <2>2, <2>4, LegFacts
    <3>. QED
      BY <1>0, <2>2, <3>1, <3>2 DEF CopyOK
  <2>. QED
    BY <2>3, <2>4 DEF CopyInv
<1>7. ASSUME NEW l \in Legs, CopyReadsEof(l) \/ CopyFails(l) PROVE CopyInv'
  <2>1. PICK how \in {"eof", "error"} :
          /\ CopyEnds(l, how)
          /\ how = "eof" => copier[l] = "read" /\ peer[l] = "closed" /\ coming[l] = <<>>
    BY <1>7 DEF CopyReadsEof, CopyFails, AtEof
  <2>2. copier[l] \in {"read", "write"} /\ main = "forwarding"
    BY <1>0, <1>7 DEF CopyReadsEof, CopyFails, CopyOK
  <2>. QED
    BY <1>0, <2>1, <2>2, LegFacts DEF CopyEnds, CopyInv, CopyOK
<1>8. CASE StartForwarding
  <2>1. /\ main = "waiting" /\ main' # "waiting" /\ UNCHANGED <<copyBuf, coming, peer>>
        /\ \/ main' = "forwarding" /\ copier' = [l \in Legs |-> "read"]
           \/ copier' = copier
    BY <1>8 DEF StartForwarding
  <2>. QED
    BY <1>0, <2>1, LegFacts DEF CopyInv, CopyOK
<1>9. CASE UNCHANGED vars
  BY <1>1, <1>9 DEF vars, copyVars
<1>. QED
  BY <1>2, <1>3, <1>4, <1>5, <1>6, <1>7, <1>8, <1>9 DEF Next, Copy

(* What the two copies rely on holds for ever.                             *)
LEMMA CopyAlways == Spec => []CopyInv
<1>1. Init => CopyInv
  BY DEF Init, CopyInv, CopyOK
<1>. QED
  BY <1>1, CopyStep, TypeAlways, PTL DEF Spec
-----------------------------------------------------------------------------
(* The bytes of l on their way through ENTG, and all that l has sent.      *)
Way(l) == (went[Other(l)] \o copyBuf[l]) \o coming[l]
AllSent(l) == [n \in 1 .. sent[l] |-> n]

(* A read of the copy moves bytes along the way, so does a write.          *)
LEMMA CopyKeepsWay ==
  ASSUME TypeInv, CopyInv, NEW l \in Legs, CopyReads(l) \/ CopyWrites(l)
  PROVE  \A k \in Legs : Way(k)' = Way(k)
<1>0. /\ OnLegs(coming) /\ OnLegs(copyBuf) /\ OnLegs(went)
      /\ went[Other(l)] \in Data(l) /\ copyBuf[l] \in Data(l) /\ coming[l] \in Data(l)
  <2>1. DataOK(l) /\ DataOK(Other(l)) /\ Shape /\ Other(Other(l)) = l
    BY TypeParts, LegFacts
  <2>. QED
    BY <2>1 DEF DataOK, Shape
<1>1. ASSUME CopyReads(l) PROVE Way(l)' = Way(l) /\ Way(Other(l))' = Way(Other(l))
  <2>1. PICK p, q \in Data(l) :
          /\ coming[l] = p \o q
          /\ copyBuf' = [copyBuf EXCEPT ![l] = p]
          /\ coming' = [coming EXCEPT ![l] = q]
    BY <1>1, CopyReadsFacts, Zenon
  <2>2. copyBuf[l] = <<>> /\ UNCHANGED went
    BY <1>1 DEF CopyInv, CopyOK, CopyReads
  <2>3. /\ copyBuf'[l] = p /\ coming'[l] = q
        /\ copyBuf'[Other(l)] = copyBuf[Other(l)] /\ coming'[Other(l)] = coming[Other(l)]
    BY <1>0, <2>1, LegFacts DEF OnLegs
  <2>. DEFINE w == went[Other(l)]
  <2>4. w \o <<>> = w /\ (w \o p) \o q = w \o (p \o q)
    <3>1. w \in Data(l)
      BY <1>0
    <3>. HIDE DEF w
    <3>. QED
      BY <2>1, <3>1, ConcatEmptySeq, ConcatAssociative DEF Data
  <2>5. Way(l)' = (w \o p) \o q
    BY <2>2, <2>3, Zenon DEF Way
  <2>6. Way(l) = w \o (p \o q)
    BY <2>1, <2>2, <2>4, Zenon DEF Way
  <2>7. Way(Other(l))' = Way(Other(l))
    BY <2>2, <2>3, Zenon DEF Way
  <2>. QED
    BY <2>4, <2>5, <2>6, <2>7, Zenon
<1>2. ASSUME CopyWrites(l) PROVE Way(l)' = Way(l) /\ Way(Other(l))' = Way(Other(l))
  <2>. DEFINE w == went[Other(l)]
  <2>1. PICK p, q \in Data(l) :
          /\ copyBuf[l] = p \o q
          /\ copyBuf' = [copyBuf EXCEPT ![l] = q]
          /\ went' = [went EXCEPT ![Other(l)] = w \o p]
    BY <1>2, CopyWritesFacts, Zenon
  <2>2. UNCHANGED coming
    BY <1>2 DEF CopyWrites
  <2>. DEFINE wp == w \o p
  <2>3. went' = [went EXCEPT ![Other(l)] = wp]
    BY <2>1
  <2>. HIDE DEF wp
  <2>4. /\ copyBuf'[l] = q /\ went'[Other(l)] = wp
        /\ copyBuf'[Other(l)] = copyBuf[Other(l)]
        /\ went'[Other(Other(l))] = went[Other(Other(l))]
    BY <1>0, <2>1, <2>3, LegFacts DEF OnLegs
  <2>5. wp \o q = w \o (p \o q)
    <3>1. w \in Data(l)
      BY <1>0
    <3>. HIDE DEF w
    <3>2. (w \o p) \o q = w \o (p \o q)
      BY <2>1, <3>1, ConcatAssociative DEF Data
    <3>. QED
      BY <3>2, Zenon DEF wp
  <2>6. Way(l)' = (wp \o q) \o coming[l]
    BY <2>2, <2>4, Zenon DEF Way
  <2>7. Way(l) = (w \o (p \o q)) \o coming[l]
    BY <2>1, Zenon DEF Way
  <2>8. Way(Other(l))' = Way(Other(l))
    BY <2>2, <2>4, Zenon DEF Way
  <2>. QED
    BY <2>5, <2>6, <2>7, <2>8, Zenon
<1>. QED
  BY <1>1, <1>2, LegFacts, Zenon

(* A byte that a peer sends joins the end of the way.                      *)
LEMMA SendJoinsWay ==
  ASSUME TypeInv, NEW l \in Legs, PeerSends(l)
  PROVE  /\ Way(l)' = Append(Way(l), sent[l] + 1) /\ Way(Other(l))' = Way(Other(l))
         /\ AllSent(l)' = Append(AllSent(l), sent[l] + 1)
         /\ AllSent(Other(l))' = AllSent(Other(l))
<1>. DEFINE n == sent[l] + 1
            c == coming[l]
            w == went[Other(l)] \o copyBuf[l]
<1>1. /\ n \in 1 .. MaxBytes[l] /\ sent' = [sent EXCEPT ![l] = n]
      /\ coming' = [coming EXCEPT ![l] = Append(c, n)]
      /\ UNCHANGED <<copyBuf, went>>
  BY PeerSendsFacts
<1>2. /\ OnLegs(coming) /\ sent \in [Legs -> Nat]
      /\ went[Other(l)] \in Data(l) /\ copyBuf[l] \in Data(l) /\ c \in Data(l)
  <2>1. DataOK(l) /\ DataOK(Other(l)) /\ Shape /\ Other(Other(l)) = l /\ ControlOK
    BY TypeParts, LegFacts
  <2>. QED
    BY <2>1 DEF DataOK, Shape, ControlOK
<1>3. w \in Data(l)
  BY <1>2, ConcatProperties DEF Data
<1>. HIDE DEF c, w
<1>4. w \o Append(c, n) = Append(w \o c, n)
  <2>. HIDE DEF n
  <2>. QED
    BY <1>1, <1>2, <1>3, ConcatAppend DEF Data
<1>5. coming'[l] = Append(c, n) /\ coming'[Other(l)] = coming[Other(l)]
  <2>. DEFINE a == Append(c, n)
  <2>1. coming' = [coming EXCEPT ![l] = a]
    BY <1>1
  <2>. HIDE DEF a
  <2>2. coming'[l] = a /\ coming'[Other(l)] = coming[Other(l)]
    BY <1>2, <2>1, LegFacts DEF OnLegs
  <2>. QED
    BY <2>2, Zenon DEF a
<1>6. sent'[l] = n /\ sent'[Other(l)] = sent[Other(l)] /\ sent[l] \in Nat
  BY <1>1, <1>2, LegFacts
<1>7. Way(l)' = w \o Append(c, n) /\ Way(l) = w \o c
  BY <1>1, <1>5, Zenon DEF Way, w, c
<1>8. Way(Other(l))' = Way(Other(l))
  BY <1>1, <1>5, Zenon DEF Way
<1>9. AllSent(l)' = Append(AllSent(l), n)
  <2>1. Append([m \in 1 .. sent[l] |-> m], sent[l] + 1) = [m \in 1 .. sent[l] + 1 |-> m]
    BY <1>6, CountOn
  <2>2. AllSent(l)' = [m \in 1 .. sent[l] + 1 |-> m]
    BY <1>6 DEF AllSent
  <2>. QED
    BY <2>1, <2>2, Zenon DEF AllSent
<1>10. AllSent(Other(l))' = AllSent(Other(l))
  BY <1>6, Zenon DEF AllSent
<1>. QED
  BY <1>4, <1>7, <1>8, <1>9, <1>10, Zenon

(* The other steps leave the way and what was sent alone.                  *)
LEMMA WayStutters ==
  ASSUME UNCHANGED <<coming, copyBuf, went, sent>>
  PROVE  \A l \in Legs : Way(l)' = Way(l) /\ AllSent(l)' = AllSent(l)
BY Zenon DEF Way, AllSent

(* No step loses, repeats or swaps a byte.                                 *)
LEMMA RelayedStep == TypeInv /\ CopyInv /\ Relayed /\ [Next]_vars => Relayed'
<1> SUFFICES ASSUME TypeInv, CopyInv, Relayed, [Next]_vars PROVE Relayed'
  OBVIOUS
<1>0. \A l \in Legs : Way(l) = AllSent(l)
  BY Zenon DEF Relayed, Way, AllSent
<1> SUFFICES \A l \in Legs : Way(l)' = AllSent(l)'
  BY Zenon DEF Relayed, Way, AllSent
<1>1. CASE UNCHANGED <<coming, copyBuf, went, sent>>
  BY <1>0, <1>1, WayStutters, Zenon
<1>2. CASE \E l \in Legs : CopyReads(l) \/ CopyWrites(l)
  <2>1. UNCHANGED sent
    BY <1>2 DEF CopyReads, CopyWrites
  <2>2. \A l \in Legs : AllSent(l)' = AllSent(l)
    BY <2>1, Zenon DEF AllSent
  <2>3. \A l \in Legs : Way(l)' = Way(l)
    BY <1>2, CopyKeepsWay
  <2>. QED
    BY <1>0, <2>2, <2>3, Zenon
<1>3. CASE \E l \in Legs : PeerSends(l)
  <2>1. PICK l \in Legs : PeerSends(l)
    BY <1>3
  <2>2. Other(l) \in Legs /\ \A k \in Legs : k = l \/ k = Other(l)
    BY LegFacts
  <2>3. /\ Way(l)' = Append(Way(l), sent[l] + 1) /\ Way(Other(l))' = Way(Other(l))
        /\ AllSent(l)' = Append(AllSent(l), sent[l] + 1)
        /\ AllSent(Other(l))' = AllSent(Other(l))
    BY <2>1, SendJoinsWay, Zenon
  <2>4. Way(l)' = AllSent(l)' /\ Way(Other(l))' = AllSent(Other(l))'
    BY <1>0, <2>2, <2>3, Zenon
  <2>. QED
    BY <2>2, <2>4, Zenon
<1>4. ASSUME NEW l \in Legs, PeerReads(l) PROVE UNCHANGED <<coming, copyBuf, went, sent>>
  BY <1>4, Zenon DEF PeerReads, copyVars
<1>5. ASSUME Next PROVE UNCHANGED sent \/ \E l \in Legs : PeerSends(l)
  BY <1>5, Zenon DEF Next, Task, Listens, HasConnection, ConnectFails, Upgrades, TaskFails,
    Selected, TaskGoes, Copy, CopyReads, CopyWrites, CopyReadsEof, CopyFails, CopyEnds,
    PeerComes, PeerReads, PeerCloses, StreamBreaks, StartForwarding
<1>6. ASSUME UNCHANGED vars PROVE UNCHANGED <<coming, copyBuf, went, sent>>
  BY <1>6, Zenon DEF vars, copyVars
<1>7. ASSUME UNCHANGED dataVars PROVE UNCHANGED <<coming, copyBuf, went>>
  BY <1>7 DEF dataVars
<1>. QED
  BY <1>1, <1>2, <1>3, <1>4, <1>5, <1>6, <1>7, DataStutters, Zenon DEF Next, Copy

(* Every byte that a peer has sent is, in its place, with the other peer,  *)
(* in the copy's buffer or still in the stream, also while the legs come   *)
(* up and after one of them has gone.                                      *)
THEOREM AlwaysRelayed == Spec => []Relayed
<1>1. Init => Relayed
  <2> SUFFICES ASSUME Init, NEW l \in Legs PROVE Way(l) = AllSent(l)
    BY Zenon DEF Relayed, Way, AllSent
  <2>1. went[Other(l)] = <<>> /\ copyBuf[l] = <<>> /\ coming[l] = <<>> /\ sent[l] = 0
    BY LegFacts DEF Init
  <2>2. (<<>> \o <<>>) \o <<>> = <<>>
    BY ConcatEmptySeq, EmptySeq
  <2>3. [n \in 1 .. 0 |-> n] = <<>>
    OBVIOUS
  <2>4. Way(l) = (<<>> \o <<>>) \o <<>>
    BY <2>1, Zenon DEF Way
  <2>5. AllSent(l) = [n \in 1 .. 0 |-> n]
    BY <2>1, Zenon DEF AllSent
  <2>. QED
    BY <2>2, <2>3, <2>4, <2>5, Zenon
<1>. QED
  BY <1>1, RelayedStep, TypeAlways, CopyAlways, PTL DEF Spec

(* ENTG ends because of a peer that closed only after it has forwarded all *)
(* that this peer sent.                                                    *)
THEOREM AlwaysForwarded == Spec => []ClosedIsForwarded
<1>1. TypeInv /\ CopyInv /\ Relayed => ClosedIsForwarded
  <2> SUFFICES ASSUME TypeInv, CopyInv, Relayed, NEW l \in Legs, copier[l] = "eof"
               PROVE  Len(went[Other(l)]) = sent[l]
    BY DEF ClosedIsForwarded
  <2>. DEFINE w == went[Other(l)]
  <2>1. copyBuf[l] = <<>> /\ coming[l] = <<>>
    BY DEF CopyInv, CopyOK
  <2>2. w \in Data(l) /\ sent[l] \in Nat
    <3>1. DataOK(Other(l)) /\ Other(Other(l)) = l /\ ControlOK
      BY TypeParts, LegFacts
    <3>. QED
      BY <3>1 DEF DataOK, ControlOK
  <2>3. (w \o <<>>) \o <<>> = [n \in 1 .. sent[l] |-> n]
    BY <2>1, Zenon DEF Relayed
  <2>4. w \o <<>> = w
    BY <2>2, ConcatEmptySeq DEF Data
  <2>5. w = [n \in 1 .. sent[l] |-> n]
    BY <2>3, <2>4, Zenon
  <2>. QED
    BY <2>2, <2>5, CountOn
<1>. QED
  BY <1>1, TypeAlways, CopyAlways, AlwaysRelayed, PTL
-----------------------------------------------------------------------------
(* A stream that broke was a fault; a future fails because of one or of a  *)
(* peer that is not there, and gives a stream only of a peer that came.    *)
CauseOK(l) ==
  /\ peer[l] = "broken" => faults > 0
  /\ task[l] \in {"negotiating", "ok"} \/ stream[l] => peer[l] # "away"
  /\ task[l] = "err" => faults > 0 \/ peer[l] # "up"
  /\ copier[l] # "none" => stream[l] /\ stream[Other(l)]

CauseInv == GivesUpForCause /\ \A l \in Legs : CauseOK(l)

(* No step makes a failure without leaving its cause to be seen.           *)
LEMMA CauseStep == TypeInv /\ CopyInv /\ CauseInv /\ [Next]_vars => CauseInv'
<1> SUFFICES ASSUME TypeInv, CopyInv, CauseInv, [Next]_vars PROVE CauseInv'
  OBVIOUS
<1>0. /\ GivesUpForCause /\ \A k \in Legs : CauseOK(k)
      /\ task \in [Legs -> {"bind", "connect", "listening", "negotiating", "ok", "err", "taken"}]
      /\ stream \in [Legs -> BOOLEAN]
      /\ peer \in [Legs -> {"away", "up", "closed", "broken"}]
      /\ copier \in [Legs -> {"none", "read", "write", "eof", "error", "dropped"}]
      /\ faults \in Nat
  BY EntgAssumption DEF CauseInv, TypeInv, TypeOK
<1>1. ASSUME NEW l \in Legs, NEW to \in {"listening", "negotiating", "ok", "err"},
             Polled(l), TaskGoes(l, to), task[l] # "taken",
             faults' = faults \/ faults' = faults + 1,
             to \in {"negotiating", "ok"} => peer[l] # "away",
             to = "err" => faults' > 0 \/ peer[l] # "up"
      PROVE  CauseInv'
  <2>1. /\ task' = [task EXCEPT ![l] = to] /\ UNCHANGED <<main, stream, peer, copier>>
        /\ main = "waiting" /\ ~stream[l]
    BY <1>1 DEF TaskGoes, Polled, copyVars
  <2>2. GivesUpForCause'
    BY <2>1 DEF GivesUpForCause
  <2>3. CauseOK(l)'
    BY <1>0, <1>1, <2>1 DEF CauseOK
  <2>4. ASSUME NEW k \in Legs, k # l PROVE CauseOK(k)'
    BY <1>0, <1>1, <2>1, <2>4 DEF CauseOK
  <2>. QED
    BY <2>2, <2>3, <2>4 DEF CauseInv
<1>2. ASSUME NEW l \in Legs,
             \/ Listens(l) \/ HasConnection(l) \/ ConnectFails(l) \/ Upgrades(l)
             \/ TaskFails(l)
      PROVE  CauseInv'
  <2>1. CASE Listens(l)
    BY <1>0, <1>1, <2>1 DEF Listens
  <2>2. CASE HasConnection(l)
    BY <1>0, <1>1, <2>2 DEF HasConnection
  <2>3. CASE ConnectFails(l)
    BY <1>0, <1>1, <2>3 DEF ConnectFails
  <2>4. CASE Upgrades(l)
    <3>1. peer[l] # "away"
      BY <1>0, <2>4 DEF Upgrades, CauseOK
    <3>. QED
      BY <1>0, <1>1, <2>4, <3>1 DEF Upgrades
  <2>5. CASE TaskFails(l)
    BY <1>0, <1>1, <2>5 DEF TaskFails, Fault
  <2>. QED
    BY <1>2, <2>1, <2>2, <2>3, <2>4, <2>5
<1>3. ASSUME NEW l \in Legs, Selected(l) PROVE CauseInv'
  <2>1. /\ main = "waiting" /\ ~stream[l] /\ task[l] \in {"ok", "err", "taken"}
        /\ task' = [task EXCEPT ![l] = "taken"]
        /\ UNCHANGED <<peer, copier, faults>>
        /\ task[l] = "ok" => stream' = [stream EXCEPT ![l] = TRUE] /\ main' = main
        /\ task[l] # "ok" => stream' = [stream EXCEPT ![l] = FALSE]
        /\ task[l] = "taken" => main' = "panicked"
    BY <1>3 DEF Selected, Polled, copyVars
  <2>2. GivesUpForCause'
    <3>1. CASE task[l] = "err"
      <4>1. faults > 0 \/ peer[l] \in {"away", "closed"}
        BY <1>0, <3>1 DEF CauseOK
      <4>2. task'[l] = "taken"
        BY <1>0, <2>1
      <4>. QED
        BY <2>1, <4>1, <4>2 DEF GivesUpForCause
    <3>2. CASE task[l] # "err"
      BY <2>1, <3>2 DEF GivesUpForCause
    <3>. QED
      BY <3>1, <3>2
  <2>3. \A k \in Legs : copier[k] = "none"
    BY <2>1 DEF CopyInv, CopyOK
  <2>4. CauseOK(l)'
    BY <1>0, <2>1, <2>3 DEF CauseOK
  <2>5. ASSUME NEW k \in Legs, k # l PROVE CauseOK(k)'
    BY <1>0, <2>1, <2>3, <2>5 DEF CauseOK
  <2>. QED
    BY <2>2, <2>4, <2>5 DEF CauseInv
<1>4. ASSUME NEW l \in Legs, CopyReads(l) \/ CopyWrites(l) PROVE CauseInv'
  <2>1. /\ UNCHANGED <<main, task, stream, peer, faults>> /\ copier[l] # "none"
        /\ copier' = copier \/ \E s \in {"read", "write"} : copier' = [copier EXCEPT ![l] = s]
    BY <1>4 DEF CopyReads, CopyWrites, setupVars
  <2>. QED
    BY <1>0, <2>1 DEF CauseInv, GivesUpForCause, CauseOK
<1>5. ASSUME NEW l \in Legs, CopyReadsEof(l) \/ CopyFails(l) PROVE CauseInv'
  <2>1. /\ UNCHANGED <<task, stream, peer, faults>> /\ copier[l] # "none"
        /\ \E k \in Legs : peer[k] # "up"
        /\ \E how \in {"eof", "error"} :
             copier' = [copier EXCEPT ![l] = how, ![Other(l)] = "dropped"]
    BY <1>5, LegFacts DEF CopyReadsEof, CopyFails, CopyEnds, AtEof, setupVars
  <2>2. stream[l] /\ stream[Other(l)]
    BY <1>0, <2>1 DEF CauseOK
  <2>3. \A k \in Legs : stream[k] /\ stream[Other(k)] /\ peer[k] # "away"
    BY <1>0, <2>2, LegFacts DEF CauseOK
  <2>4. GivesUpForCause'
    BY <1>0, <2>1, <2>3 DEF GivesUpForCause, CauseOK
  <2>5. ASSUME NEW k \in Legs PROVE CauseOK(k)'
    BY <1>0, <2>1, <2>3, <2>5 DEF CauseOK
  <2>. QED
    BY <2>4, <2>5 DEF CauseInv
<1>6. ASSUME NEW l \in Legs, PeerComes(l) PROVE CauseInv'
  <2>1. /\ UNCHANGED <<main, task, stream, copier, faults>>
        /\ peer[l] = "away" /\ task[l] \in {"connect", "listening"}
        /\ peer' = [peer EXCEPT ![l] = "up"]
    BY <1>6 DEF PeerComes, setupVars, copyVars
  <2>2. GivesUpForCause'
    BY <1>0, <2>1 DEF GivesUpForCause
  <2>3. ASSUME NEW k \in Legs PROVE CauseOK(k)'
    BY <1>0, <2>1, <2>3 DEF CauseOK
  <2>. QED
    BY <2>2, <2>3 DEF CauseInv
<1>7. ASSUME NEW l \in Legs, PeerCloses(l) \/ StreamBreaks(l) PROVE CauseInv'
  <2>1. /\ UNCHANGED <<main, task, stream, copier>>
        /\ peer[l] # "away"
        /\ \/ peer' = [peer EXCEPT ![l] = "closed"] /\ faults' = faults /\ peer[l] = "up"
           \/ peer' = [peer EXCEPT ![l] = "broken"] /\ faults' = faults + 1
    BY <1>7 DEF PeerCloses, StreamBreaks, Fault, setupVars, copyVars
  <2>2. GivesUpForCause'
    BY <1>0, <2>1 DEF GivesUpForCause
  <2>3. ASSUME NEW k \in Legs PROVE CauseOK(k)'
    BY <1>0, <2>1, <2>3 DEF CauseOK
  <2>. QED
    BY <2>2, <2>3 DEF CauseInv
<1>8. ASSUME UNCHANGED <<main, task, stream, peer, copier, faults>> PROVE CauseInv'
  BY <1>0, <1>8 DEF CauseInv, GivesUpForCause, CauseOK
<1>9. ASSUME (\E l \in Legs : PeerSends(l) \/ PeerReads(l)) \/ UNCHANGED vars
      PROVE  UNCHANGED <<main, task, stream, peer, copier, faults>>
  BY <1>9, Zenon DEF PeerSends, PeerReads, setupVars, copyVars, vars
<1>10. CASE StartForwarding
  <2>1. /\ UNCHANGED <<task, stream, peer, faults>> /\ \A l \in Legs : stream[l]
        /\ main' \in {"forwarding", "panicked"}
    BY <1>10 DEF StartForwarding, StillWaiting, setupVars
  <2>. QED
    BY <1>0, <2>1, LegFacts DEF CauseInv, GivesUpForCause, CauseOK
<1>. QED
  BY <1>2, <1>3, <1>4, <1>5, <1>6, <1>7, <1>8, <1>9, <1>10, Zenon DEF Next, Task, Copy

(* What counts as a cause stays one.                                       *)
LEMMA CauseAlways == Spec => []CauseInv
<1>1. Init => CauseInv
  <2> SUFFICES ASSUME Init PROVE CauseInv
    OBVIOUS
  <2>1. \A l \in Legs : task[l] \in {"bind", "connect"}
    BY DEF Init, Legs
  <2>. QED
    BY <2>1, LegFacts DEF Init, CauseInv, GivesUpForCause, CauseOK
<1>. QED
  BY <1>1, CauseStep, TypeAlways, CopyAlways, PTL DEF Spec

(* ENTG gives up, while it sets up as well as while it forwards, only      *)
(* after a fault or because of a peer that closed or is not there.         *)
THEOREM AlwaysForCause == Spec => []GivesUpForCause
<1>1. CauseInv => GivesUpForCause
  BY DEF CauseInv
<1>. QED
  BY <1>1, CauseAlways, PTL
-----------------------------------------------------------------------------
(* ENTG implements the Forwarder: what a copy has read is taken, what it   *)
(* has written is given, and the process closes both sides together.       *)
taken == [l \in Legs |-> went[Other(l)] \o copyBuf[l]]
ports == [l \in Legs |->
            IF copier[l] = "eof" THEN "ended"
            ELSE IF copier[Other(l)] = "eof" THEN "drained"
            ELSE IF main \in {"failed", "panicked"} THEN "cut"
            ELSE "open"]

(* The two modules mean the same by the other side and by a prefix.        *)
LEMMA SameWords ==
  /\ \A l \in Legs : Chain!Across(l) = Other(l)
  /\ \A s, t : /\ Chain!IsPrefix(s, t) <=> IsPrefix(s, t)
               /\ Chain!IsStrictPrefix(s, t) <=> IsStrictPrefix(s, t)
<1>1. ASSUME NEW l \in Legs PROVE Chain!Across(l) = Other(l)
  BY LegFacts DEF Chain!Across
<1>2. \A s, t : Chain!IsPrefix(s, t) <=> IsPrefix(s, t)
  BY Zenon DEF Chain!IsPrefix, IsPrefix
<1>3. \A s, t : Chain!IsStrictPrefix(s, t) <=> IsStrictPrefix(s, t)
  BY <1>2, Zenon DEF Chain!IsStrictPrefix, IsStrictPrefix
<1>. QED
  BY <1>1, <1>2, <1>3

(* A port is open while no copy has ended and main() has not failed.       *)
LEMMA PortFacts ==
  ASSUME NEW l \in Legs
  PROVE  /\ copier[l] = "eof" => ports[l] = "ended"
         /\ copier[l] # "eof" /\ copier[Other(l)] = "eof" => ports[l] = "drained"
         /\ copier[l] # "eof" /\ copier[Other(l)] # "eof" =>
              ports[l] = IF main \in {"failed", "panicked"} THEN "cut" ELSE "open"
BY DEF ports

(* What leaves the buffers and the ends of the copies alone does not show. *)
LEMMA ChainStutters ==
  ASSUME UNCHANGED <<main, copier, copyBuf, went>>
  PROVE  UNCHANGED Chain!forwarderVars
<1>1. taken' = taken
  BY Zenon DEF taken
<1>2. ports' = ports
  BY Zenon DEF ports
<1>. QED
  BY <1>1, <1>2, Zenon DEF Chain!forwarderVars, taken, ports

(* A process that has not begun to forward is a Forwarder that has not.    *)
LEMMA ChainInit == Init => Chain!Init
<1> SUFFICES ASSUME Init PROVE Chain!Init
  OBVIOUS
<1>1. /\ went = [l \in Legs |-> <<>>] /\ copyBuf = [l \in Legs |-> <<>>]
      /\ copier = [l \in Legs |-> "none"] /\ main = "waiting"
  BY DEF Init
<1>2. taken = [l \in Legs |-> <<>>]
  <2>1. <<>> \o <<>> = <<>>
    BY ConcatEmptySeq, EmptySeq
  <2>2. ASSUME NEW l \in Legs PROVE went[Other(l)] \o copyBuf[l] = <<>>
    <3>1. went[Other(l)] = <<>> /\ copyBuf[l] = <<>>
      BY <1>1, LegFacts
    <3>. QED
      BY <2>1, <3>1, Zenon
  <2>. QED
    BY <2>2, Zenon DEF taken
<1>3. ports = [l \in Legs |-> "open"]
  BY <1>1, LegFacts DEF ports
<1>. QED
  BY <1>1, <1>2, <1>3, Zenon DEF Chain!Init, taken, ports

(* A copy that reads takes more of what its leg has.                       *)
LEMMA ChainReads ==
  ASSUME TypeInv, CopyInv, NEW l \in Legs, CopyReads(l)
  PROVE  Chain!Take(l)
<1>. DEFINE w == went[Other(l)]
<1>1. /\ copier[l] = "read" /\ copier' = [copier EXCEPT ![l] = "write"]
      /\ UNCHANGED <<main, went>>
  BY DEF CopyReads
<1>2. PICK p \in Data(l) : p # <<>> /\ copyBuf' = [copyBuf EXCEPT ![l] = p]
  BY CopyReadsFacts, Zenon
<1>3. copyBuf[l] = <<>> /\ main = "forwarding" /\ copier[Other(l)] \in {"read", "write"}
  BY <1>1 DEF CopyInv, CopyOK
<1>4. /\ w \in Data(l) /\ OnLegs(copyBuf)
      /\ copier \in [Legs -> {"none", "read", "write", "eof", "error", "dropped"}]
  <2>1. DataOK(Other(l)) /\ Shape /\ Other(Other(l)) = l /\ ControlOK
    BY TypeParts, LegFacts
  <2>. QED
    BY <2>1 DEF DataOK, Shape, ControlOK
<1>5. ports[l] = "open" /\ ports[Chain!Across(l)] = "open" /\ ports' = ports
  <2>1. ports[l] = "open" /\ ports[Other(l)] = "open" /\ ports' = ports
    BY <1>1, <1>3, <1>4, LegFacts DEF ports
  <2>. QED
    BY <2>1, SameWords
<1>6. taken[l] = w
  <2>1. taken[l] = w \o <<>>
    BY <1>3 DEF taken
  <2>. HIDE DEF w
  <2>. QED
    BY <1>4, <2>1, ConcatEmptySeq DEF Data
<1>. DEFINE wp == w \o p
<1>7. taken' = [taken EXCEPT ![l] = wp]
  <2>1. copyBuf'[l] = p /\ copyBuf'[Other(l)] = copyBuf[Other(l)]
    BY <1>2, <1>4, LegFacts DEF OnLegs
  <2>2. ASSUME NEW k \in Legs
        PROVE  went'[Other(k)] \o copyBuf'[k] = IF k = l THEN wp ELSE taken[k]
    <3>1. went' = went
      BY <1>1
    <3>2. CASE k = l
      BY <2>1, <3>1, <3>2, Zenon
    <3>3. CASE k # l
      <4>1. copyBuf'[k] = copyBuf[k]
        BY <2>1, <3>3, LegFacts
      <4>2. taken[k] = went[Other(k)] \o copyBuf[k]
        BY Zenon DEF taken
      <4>. QED
        BY <3>1, <3>3, <4>1, <4>2, Zenon
    <3>. QED
      BY <3>2, <3>3
  <2>3. taken' = [k \in Legs |-> went'[Other(k)] \o copyBuf'[k]]
    BY Zenon DEF taken
  <2>4. DOMAIN taken = Legs /\ taken = [k \in Legs |-> taken[k]]
    BY Zenon DEF taken
  <2>5. taken' = [k \in Legs |-> IF k = l THEN wp ELSE taken[k]]
    BY <2>2, <2>3, Zenon
  <2>. HIDE DEF wp
  <2>. QED
    BY <2>4, <2>5
<1>8. IsStrictPrefix(w, wp)
  <2>. HIDE DEF w
  <2>. QED
    BY <1>2, <1>4, PrefixOfConcat DEF Data
<1>. HIDE DEF w, wp
<1>9. taken'[l] = wp /\ taken' = [taken EXCEPT ![l] = taken'[l]]
  <2>1. DOMAIN taken = Legs
    BY Zenon DEF taken
  <2>. QED
    BY <1>7, <2>1
<1>10. Chain!IsStrictPrefix(taken[l], taken'[l])
  BY <1>6, <1>8, <1>9, SameWords, Zenon
<1>11. went' = went
  BY <1>1
<1>. QED
  BY <1>5, <1>9, <1>10, <1>11, Zenon DEF Chain!Take, taken, ports

(* A copy that writes gives the other leg more of what it has taken.       *)
LEMMA ChainWrites ==
  ASSUME TypeInv, CopyInv, NEW l \in Legs, CopyWrites(l)
  PROVE  Chain!Put(Other(l))
<1>. DEFINE w == went[Other(l)]
<1>0. Other(l) \in Legs /\ Other(Other(l)) = l /\ Other(l) # l
  BY LegFacts
<1>1. copier[l] = "write" /\ main' = main
  BY DEF CopyWrites
<1>2. PICK p, q \in Data(l) :
        /\ p # <<>> /\ copyBuf[l] = p \o q
        /\ copyBuf' = [copyBuf EXCEPT ![l] = q]
        /\ went' = [went EXCEPT ![Other(l)] = w \o p]
        /\ copier' = IF q = <<>> THEN [copier EXCEPT ![l] = "read"] ELSE copier
  BY CopyWritesFacts, Zenon
<1>3. main = "forwarding" /\ copier[Other(l)] \in {"read", "write"}
  BY <1>1 DEF CopyInv, CopyOK
<1>4. /\ w \in Data(l) /\ OnLegs(copyBuf) /\ OnLegs(went)
      /\ copier \in [Legs -> {"none", "read", "write", "eof", "error", "dropped"}]
  <2>1. DataOK(Other(l)) /\ Shape /\ ControlOK
    BY <1>0, TypeParts
  <2>. QED
    BY <1>0, <2>1 DEF DataOK, Shape, ControlOK
<1>5. ports[Other(l)] = "open" /\ ports' = ports
  BY <1>0, <1>1, <1>2, <1>3, <1>4, LegFacts DEF ports
<1>. DEFINE wp == w \o p
<1>6. IsStrictPrefix(w, wp) /\ IsPrefix(wp, wp \o q) /\ wp \o q = w \o (p \o q)
  <2>1. w \in Data(l)
    BY <1>4
  <2>. HIDE DEF w
  <2>2. wp \in Data(l)
    BY <1>2, <2>1, ConcatProperties DEF Data
  <2>3. IsStrictPrefix(w, wp) /\ wp \o q = w \o (p \o q)
    BY <1>2, <2>1, PrefixOfConcat, ConcatAssociative DEF Data
  <2>. HIDE DEF wp
  <2>4. IsPrefix(wp, wp \o q)
    BY <1>2, <2>2, PrefixOfConcat DEF Data
  <2>. QED
    BY <2>3, <2>4
<1>7. went' = [went EXCEPT ![Other(l)] = wp]
  BY <1>2
<1>. HIDE DEF wp
<1>8. went'[Other(l)] = wp /\ went' = [went EXCEPT ![Other(l)] = went'[Other(l)]]
      /\ went'[l] = went[l] /\ copyBuf'[l] = q /\ copyBuf'[Other(l)] = copyBuf[Other(l)]
  BY <1>0, <1>2, <1>4, <1>7 DEF OnLegs
<1>9. taken[l] = wp \o q
  BY <1>2, <1>6, Zenon DEF taken
<1>10. taken' = taken
  <2>1. went'[Other(l)] \o copyBuf'[l] = taken[l]
    BY <1>8, <1>9, Zenon
  <2>2. went'[Other(Other(l))] \o copyBuf'[Other(l)] = taken[Other(l)]
    BY <1>0, <1>8, Zenon DEF taken
  <2>3. ASSUME NEW k \in Legs PROVE went'[Other(k)] \o copyBuf'[k] = taken[k]
    <3>1. k = l \/ k = Other(l)
      BY LegFacts
    <3>. QED
      BY <2>1, <2>2, <3>1, Zenon
  <2>4. taken' = [k \in Legs |-> went'[Other(k)] \o copyBuf'[k]]
    BY Zenon DEF taken
  <2>5. taken = [k \in Legs |-> taken[k]]
    BY Zenon DEF taken
  <2>. QED
    BY <2>3, <2>4, <2>5, Zenon
<1>11. /\ Chain!IsStrictPrefix(went[Other(l)], went'[Other(l)])
       /\ Chain!IsPrefix(went'[Other(l)], taken[Chain!Across(Other(l))])
  <2>1. Chain!Across(Other(l)) = l
    BY <1>0, SameWords
  <2>2. IsPrefix(went'[Other(l)], taken[l]) /\ IsStrictPrefix(went[Other(l)], went'[Other(l)])
    BY <1>6, <1>8, <1>9, Zenon
  <2>. QED
    BY <2>1, <2>2, SameWords, Zenon
<1>. QED
  BY <1>5, <1>8, <1>10, <1>11, Zenon DEF Chain!Put, taken, ports

(* Both ports close at once, each as Forwarder allows.                     *)
LEMMA ChainCloses ==
  ASSUME NEW l \in Legs, UNCHANGED <<copyBuf, went>>,
         \A k \in Legs : ports[k] = "open",
         \/ ports'[l] = "cut" /\ ports'[Other(l)] = "cut"
         \/ /\ ports'[l] = "ended" /\ ports'[Other(l)] = "drained"
            /\ went[Other(l)] = taken[l]
  PROVE  Chain!Close
<1>1. taken' = taken
  BY Zenon DEF taken
<1>2. Other(l) \in Legs /\ Chain!Across(l) = Other(l) /\ Chain!Across(Other(l)) = l
  BY LegFacts, SameWords
<1>3. Chain!Closes(l)
  BY <1>2, Zenon DEF Chain!Closes, ports
<1>4. Chain!Closes(Other(l))
  <2>1. CASE ports'[Other(l)] = "cut"
    BY <1>2, <2>1, Zenon DEF Chain!Closes, ports
  <2>2. CASE /\ ports'[l] = "ended" /\ ports'[Other(l)] = "drained"
             /\ went[Other(l)] = taken[l]
    <3>1. ports'[l] # "open" /\ ports[Other(l)] = "open"
      BY <1>2, <2>2
    <3>. QED
      BY <1>2, <2>2, <3>1, Zenon DEF Chain!Closes, ports, taken
  <2>. QED
    BY <2>1, <2>2
<1>5. \A k \in Legs : Chain!Closes(k)
  BY <1>3, <1>4, LegFacts, Zenon
<1>6. ports' = [k \in Legs |-> ports'[k]]
  BY DEF ports
<1>. QED
  BY <1>1, <1>3, <1>5, <1>6, Zenon DEF Chain!Close, ports, taken

(* The end that a copy reads closes both sides: the one is drained.        *)
LEMMA ChainEnds ==
  ASSUME TypeInv, CopyInv, NEW l \in Legs, CopyReadsEof(l) \/ CopyFails(l)
  PROVE  Chain!Close
<1>0. Other(l) \in Legs /\ Other(Other(l)) = l /\ Other(l) # l
  BY LegFacts
<1>1. PICK how \in {"eof", "error"} :
        /\ CopyEnds(l, how)
        /\ how = "eof" => copier[l] = "read"
  BY DEF CopyReadsEof, CopyFails
<1>2. /\ copier[l] \in {"read", "write"} /\ copier[Other(l)] \in {"read", "write"}
      /\ main = "forwarding"
  BY DEF CopyReadsEof, CopyFails, CopyInv, CopyOK
<1>3. \A k \in Legs : ports[k] = "open"
  <2>1. \A k \in Legs : copier[k] # "eof" /\ copier[Other(k)] # "eof"
    BY <1>2, LegFacts
  <2>. QED
    BY <1>2, <2>1, PortFacts
<1>4. /\ copier'[l] = how /\ copier'[Other(l)] = "dropped"
      /\ main' = (IF how = "eof" THEN "done" ELSE "failed")
      /\ UNCHANGED <<copyBuf, went>>
  <2>1. copier \in [Legs -> {"none", "read", "write", "eof", "error", "dropped"}]
    BY DEF TypeInv, TypeOK
  <2>. QED
    BY <1>0, <1>1, <2>1 DEF CopyEnds
<1>5. ports'[l] = IF how = "eof" THEN "ended" ELSE "cut"
  BY <1>0, <1>4 DEF ports
<1>6. ports'[Other(l)] = IF how = "eof" THEN "drained" ELSE "cut"
  BY <1>0, <1>4 DEF ports
<1>7. ASSUME how = "eof" PROVE went[Other(l)] = taken[l]
  <2>. DEFINE w == went[Other(l)]
  <2>1. copyBuf[l] = <<>>
    BY <1>1, <1>7 DEF CopyInv, CopyOK
  <2>2. w \in Data(l)
    <3>1. DataOK(Other(l))
      BY <1>0, TypeParts
    <3>. QED
      BY <1>0, <3>1 DEF DataOK
  <2>3. taken[l] = w \o <<>>
    BY <2>1 DEF taken
  <2>. HIDE DEF w
  <2>4. taken[l] = w
    BY <2>2, <2>3, ConcatEmptySeq DEF Data
  <2>. QED
    BY <2>4 DEF w
<1>. QED
  BY <1>3, <1>4, <1>5, <1>6, <1>7, ChainCloses

(* An error of a future ends main() before anything was taken.             *)
LEMMA ChainSelected ==
  ASSUME TypeInv, SetupInv, CopyInv, NEW l \in Legs, Selected(l)
  PROVE  [Chain!Next]_(Chain!forwarderVars)
<1>1. /\ main = "waiting" /\ ~stream[l] /\ task[l] \in {"ok", "err", "taken"}
      /\ UNCHANGED <<copier, copyBuf, went>>
      /\ task[l] = "ok" => main' = main
      /\ task[l] = "err" => main' = "failed"
  BY DEF Selected, Polled, copyVars
<1>2. CASE task[l] = "ok"
  BY <1>1, <1>2, ChainStutters
<1>3. CASE task[l] = "err"
  <2>1. \A k \in Legs : copier[k] = "none" /\ copier[Other(k)] = "none"
    BY <1>1, LegFacts DEF CopyInv, CopyOK
  <2>2. \A k \in Legs : ports[k] = "open"
    BY <1>1, <2>1, PortFacts
  <2>3. \A k \in Legs : ports'[k] = "cut"
    <3> SUFFICES ASSUME NEW k \in Legs PROVE ports'[k] = "cut"
      OBVIOUS
    <3>1. copier'[k] # "eof" /\ copier'[Other(k)] # "eof" /\ main' = "failed"
      BY <1>1, <1>3, <2>1
    <3>. QED
      BY <3>1 DEF ports
  <2>4. Other(l) \in Legs
    BY LegFacts
  <2>5. Chain!Close
    BY <1>1, <2>2, <2>3, <2>4, ChainCloses
  <2>. QED
    BY <2>5, Zenon DEF Chain!Next
<1>4. task[l] # "taken"
  BY <1>1 DEF SetupInv
<1>. QED
  BY <1>1, <1>2, <1>3, <1>4

(* The copies start; nothing is taken yet.                                 *)
LEMMA ChainStarts ==
  ASSUME CopyInv, StartForwarding
  PROVE  UNCHANGED Chain!forwarderVars
<1>1. /\ main = "waiting" /\ main' = "forwarding" /\ copier' = [l \in Legs |-> "read"]
      /\ UNCHANGED <<copyBuf, went>>
  BY DEF StartForwarding, StillWaiting
<1>2. \A k \in Legs : copier[k] = "none" /\ copier[Other(k)] = "none"
  BY <1>1, LegFacts DEF CopyInv, CopyOK
<1>3. \A k \in Legs : copier'[k] = "read" /\ copier'[Other(k)] = "read"
  BY <1>1, LegFacts
<1>4. ports' = [l \in Legs |-> "open"] /\ ports = [l \in Legs |-> "open"]
  BY <1>1, <1>2, <1>3 DEF ports
<1>5. taken' = taken
  BY <1>1, Zenon DEF taken
<1>6. ports' = ports
  BY <1>4, Zenon
<1>. QED
  BY <1>1, <1>5, <1>6, Zenon DEF Chain!forwarderVars, taken, ports

(* Every step of the process is a step of the Forwarder, or none.          *)
LEMMA ChainStep ==
  TypeInv /\ SetupInv /\ CopyInv /\ [Next]_vars => [Chain!Next]_(Chain!forwarderVars)
<1> SUFFICES ASSUME TypeInv, SetupInv, CopyInv, [Next]_vars
             PROVE  [Chain!Next]_(Chain!forwarderVars)
  OBVIOUS
<1>1. ASSUME NEW l \in Legs, CopyReads(l) \/ CopyWrites(l) PROVE Chain!Next
  <2>1. Other(l) \in Legs
    BY LegFacts
  <2>. QED
    BY <1>1, <2>1, ChainReads, ChainWrites, Zenon DEF Chain!Next
<1>2. ASSUME NEW l \in Legs, CopyReadsEof(l) \/ CopyFails(l) PROVE Chain!Next
  BY <1>2, ChainEnds, Zenon DEF Chain!Next
<1>3. ASSUME NEW l \in Legs,
             \/ Listens(l) \/ HasConnection(l) \/ ConnectFails(l) \/ Upgrades(l)
             \/ TaskFails(l) \/ PeerComes(l) \/ PeerSends(l) \/ PeerReads(l)
             \/ PeerCloses(l) \/ StreamBreaks(l)
      PROVE  UNCHANGED <<main, copier, copyBuf, went>>
  BY <1>3, Zenon DEF Listens, HasConnection, ConnectFails, Upgrades, TaskFails,
    TaskGoes, PeerComes, PeerSends, PeerReads, PeerCloses, StreamBreaks, copyVars
<1>4. ASSUME UNCHANGED vars PROVE UNCHANGED <<main, copier, copyBuf, went>>
  BY <1>4, Zenon DEF vars, copyVars
<1>. QED
  BY <1>1, <1>2, <1>3, <1>4, ChainStutters, ChainSelected, ChainStarts, Zenon
  DEF Next, Task, Copy

(* An ENTG is a Forwarder between its two legs, for every order in which   *)
(* they come up and fail, and all sizes of the copies' buffers.            *)
THEOREM ImplementsForwarder == Spec => ChainSpec
BY ChainInit, ChainStep, TypeAlways, SetupAlways, CopyAlways, PTL
DEF Spec, ChainSpec, Chain!Spec
=============================================================================
