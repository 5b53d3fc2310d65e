--------------------------- MODULE EchoSvrProofs ---------------------------
(* Theorems about EchoSvr, for any number of clients, all lengths of data, *)
(* sizes of buffers and connections, and any number of faults.             *)
EXTENDS EchoSvr, StreamLemmas

Bytes == Seq(Nat)

(* The types of the variables; nobody writes more than its data.           *)
TypeOK ==
  /\ server \in {"listening", "failed"}
  /\ task \in [Client -> {"none", "backlog", "read", "write", "close", "closed",
                          "panicked", "dropped"}]
  /\ buf \in [Client -> Bytes]
  /\ write_data \in [Client -> {"none", "running", "ok", "err"}]
  /\ read_data \in [Client -> {"none", "running", "ok", "err"}]
  /\ result \in [Client -> {"none", "error", "PASS", "FAILED"}]
  /\ written \in [Client -> Nat]
  /\ \A c \in Client : written[c] <= DataLen[c]
  /\ up \in [Client -> Bytes]
  /\ down \in [Client -> Bytes]
  /\ received \in [Client -> Bytes]
  /\ reset \subseteq Client
  /\ faults \in Nat

(* The data of a client, and what of it is written.                        *)
LEMMA DataFacts ==
  ASSUME NEW c \in Client
  PROVE  /\ DataLen[c] \in Nat /\ data(c) \in Bytes /\ Len(data(c)) = DataLen[c]
         /\ \A w \in 0 .. DataLen[c] : /\ SubSeq(data(c), 1, w) \in Bytes
                                       /\ Len(SubSeq(data(c), 1, w)) = w
         /\ SubSeq(data(c), 1, DataLen[c]) = data(c)
         /\ SubSeq(data(c), 1, 0) = <<>>
<1>1. DataLen[c] \in Nat
  BY EchoAssumption
<1>2. data(c) \in Bytes /\ Len(data(c)) = DataLen[c]
  BY <1>1, CountOn DEF data, Bytes
<1>. HIDE DEF data
<1>3. ASSUME NEW w \in 0 .. DataLen[c]
      PROVE  SubSeq(data(c), 1, w) \in Bytes /\ Len(SubSeq(data(c), 1, w)) = w
  BY <1>1, <1>2, CutInTwo DEF Bytes
<1>4. SubSeq(data(c), 1, DataLen[c]) = data(c)
  BY <1>2, SubSeqFull DEF Bytes
<1>5. SubSeq(data(c), 1, 0) = <<>>
  <2>1. SubSeq(data(c), 1, 0) \in Bytes /\ Len(SubSeq(data(c), 1, 0)) = 0
    BY <1>1, <1>3
  <2>. QED
    BY <2>1, EmptySeq DEF Bytes
<1>. QED
  BY <1>1, <1>2, <1>3, <1>4, <1>5

(* A read or a write moves the beginning of what there is.                 *)
LEMMA Moved ==
  ASSUME NEW s \in Bytes, NEW k \in 1 .. Len(s)
  PROVE  /\ SubSeq(s, 1, k) \in Bytes /\ SubSeq(s, 1, k) # <<>> /\ Skip(s, k) \in Bytes
         /\ s = SubSeq(s, 1, k) \o Skip(s, k)
<1>1. Len(s) \in Nat /\ k \in 0 .. Len(s) /\ k # 0
  BY LenProperties DEF Bytes
<1>2. /\ SubSeq(s, 1, k) \in Bytes /\ Len(SubSeq(s, 1, k)) = k
      /\ SubSeq(s, k + 1, Len(s)) \in Bytes
      /\ SubSeq(s, 1, k) \o SubSeq(s, k + 1, Len(s)) = s
  BY <1>1, CutInTwo DEF Bytes
<1>3. SubSeq(s, 1, k) # <<>>
  BY <1>1, <1>2, EmptySeq DEF Bytes
<1>. QED
  BY <1>2, <1>3, Zenon DEF Skip
-----------------------------------------------------------------------------
(* What the steps that move bytes do: TaskReads takes the beginning p of   *)
(* what has come up and leaves the rest q, and so on.                      *)
LEMMA TaskReadsFacts ==
  ASSUME TypeOK, NEW c \in Client, TaskReads(c)
  PROVE  \E p, q \in Bytes :
           /\ task[c] = "read" /\ task' = [task EXCEPT ![c] = "write"]
           /\ up[c] = p \o q
           /\ buf' = [buf EXCEPT ![c] = p] /\ up' = [up EXCEPT ![c] = q]
           /\ UNCHANGED <<server, write_data, read_data, result, written, received, down,
                          reset, faults>>
<1>1. up[c] \in Bytes
  BY DEF TypeOK
<1>2. PICK k \in 1 .. Len(up[c]) :
        /\ buf' = [buf EXCEPT ![c] = SubSeq(up[c], 1, k)]
        /\ up' = [up EXCEPT ![c] = Skip(up[c], k)]
  BY DEF TaskReads
<1>3. /\ task[c] = "read" /\ task' = [task EXCEPT ![c] = "write"]
      /\ UNCHANGED <<server, write_data, read_data, result, written, received, down,
                     reset, faults>>
  BY DEF TaskReads, clientVars
<1>. DEFINE p == SubSeq(up[c], 1, k)
            q == Skip(up[c], k)
<1>4. p \in Bytes /\ q \in Bytes /\ up[c] = p \o q
  BY <1>1, Moved
<1>. HIDE DEF p, q
<1>5. buf' = [buf EXCEPT ![c] = p] /\ up' = [up EXCEPT ![c] = q]
  BY <1>2, Zenon DEF p, q
<1>. QED
  BY <1>3, <1>4, <1>5, Zenon

(* What the server's write_all passes on leaves its buffer.                *)
LEMMA TaskWritesFacts ==
  ASSUME TypeOK, NEW c \in Client, TaskWrites(c)
  PROVE  \E p, q \in Bytes :
           /\ task[c] = "write"
           /\ task' = [task EXCEPT ![c] = IF q = <<>> THEN "read" ELSE "write"]
           /\ buf[c] = p \o q
           /\ buf' = [buf EXCEPT ![c] = q] /\ down' = [down EXCEPT ![c] = down[c] \o p]
           /\ reset' = (IF result[c] = "none" THEN reset ELSE reset \cup {c})
           /\ UNCHANGED <<server, write_data, read_data, result, written, received, up,
                          faults>>
<1>1. buf[c] \in Bytes /\ buf \in [Client -> Bytes]
  BY DEF TypeOK
<1>2. PICK k \in 1 .. Len(buf[c]) :
        /\ buf' = [buf EXCEPT ![c] = Skip(buf[c], k)]
        /\ down' = [down EXCEPT ![c] = down[c] \o SubSeq(buf[c], 1, k)]
  BY DEF TaskWrites
<1>3. /\ task[c] = "write"
      /\ task' = [task EXCEPT ![c] = IF buf'[c] = <<>> THEN "read" ELSE task[c]]
      /\ reset' = (IF result[c] = "none" THEN reset ELSE reset \cup {c})
      /\ UNCHANGED <<server, write_data, read_data, result, written, received, up,
                     faults>>
  BY DEF TaskWrites, clientVars
<1>. DEFINE p == SubSeq(buf[c], 1, k)
            q == Skip(buf[c], k)
<1>4. p \in Bytes /\ q \in Bytes /\ buf[c] = p \o q
  BY <1>1, Moved
<1>5. buf' = [buf EXCEPT ![c] = q] /\ down' = [down EXCEPT ![c] = down[c] \o p]
  BY <1>2, Zenon DEF p, q
<1>. HIDE DEF p, q
<1>6. buf'[c] = q
  BY <1>1, <1>5
<1>7. task' = [task EXCEPT ![c] = IF q = <<>> THEN "read" ELSE "write"]
  BY <1>3, <1>6, Zenon
<1>. QED
  BY <1>3, <1>4, <1>5, <1>7, Zenon

(* What the client's write_all passes on comes next in its data.           *)
LEMMA WritesFacts ==
  ASSUME TypeOK, NEW c \in Client, Writes(c)
  PROVE  \E k \in Nat, p \in Bytes :
           /\ write_data[c] = "running"
           /\ written[c] + k <= DataLen[c]
           /\ SubSeq(data(c), 1, written[c] + k) = SubSeq(data(c), 1, written[c]) \o p
           /\ up' = [up EXCEPT ![c] = up[c] \o p]
           /\ written' = [written EXCEPT ![c] = written[c] + k]
           /\ reset' = (IF ServerClosed(c) THEN reset \cup {c} ELSE reset)
           /\ UNCHANGED <<server, task, buf, write_data, read_data, result, received, down,
                          faults>>
<1>1. written[c] \in Nat /\ written[c] <= DataLen[c] /\ DataLen[c] \in Nat
  BY EchoAssumption DEF TypeOK
<1>2. PICK k \in 1 .. DataLen[c] - written[c] :
        /\ up' = [up EXCEPT ![c] = up[c] \o SubSeq(data(c), written[c] + 1, written[c] + k)]
        /\ written' = [written EXCEPT ![c] = written[c] + k]
  BY DEF Writes
<1>3. /\ write_data[c] = "running"
      /\ reset' = (IF ServerClosed(c) THEN reset \cup {c} ELSE reset)
      /\ UNCHANGED <<server, task, buf, write_data, read_data, result, received, down,
                     faults>>
  BY DEF Writes
<1>. DEFINE s == data(c)
            w == written[c]
            p == SubSeq(s, w + 1, w + k)
<1>4. s \in Bytes /\ Len(s) = DataLen[c]
  BY DataFacts
<1>5. k \in Nat /\ w + k <= DataLen[c] /\ w \in Nat
  BY <1>1, <1>2
<1>. HIDE DEF s, w
<1>6. p \in Bytes
  <2>1. \A i \in w + 1 .. w + k : s[i] \in Nat
    BY <1>4, <1>5, ElementOfSeq DEF Bytes
  <2>. QED
    BY <1>5, <2>1, SubSeqProperties DEF Bytes
<1>7. SubSeq(s, 1, w + k) = SubSeq(s, 1, w) \o p
  <2>1. 1 \in 1 .. Len(s) + 1 /\ w \in 1 - 1 .. Len(s) /\ w + k \in w .. Len(s)
    BY <1>1, <1>4, <1>5
  <2>. QED
    BY <1>4, <2>1, ConcatAdjacentSubSeq DEF Bytes
<1>. HIDE DEF p
<1>8. up' = [up EXCEPT ![c] = up[c] \o p]
  BY <1>2, Zenon DEF s, w, p
<1>. QED
  BY <1>2, <1>3, <1>5, <1>6, <1>7, <1>8, Zenon DEF s, w

(* What the client reads leaves the connection.                            *)
LEMMA ReadsFacts ==
  ASSUME TypeOK, NEW c \in Client, Reads(c)
  PROVE  \E p, q \in Bytes :
           /\ read_data[c] = "running"
           /\ down[c] = p \o q
           /\ received' = [received EXCEPT ![c] = received[c] \o p]
           /\ down' = [down EXCEPT ![c] = q]
           /\ read_data' = [read_data EXCEPT ![c] =
                              IF Len(received'[c]) > DataLen[c] THEN "ok" ELSE "running"]
           /\ UNCHANGED <<server, task, buf, write_data, result, written, up, reset,
                          faults>>
<1>1. down[c] \in Bytes
  BY DEF TypeOK
<1>2. PICK k \in 1 .. Len(down[c]) :
        /\ received' = [received EXCEPT ![c] = received[c] \o SubSeq(down[c], 1, k)]
        /\ down' = [down EXCEPT ![c] = Skip(down[c], k)]
  BY DEF Reads
<1>3. /\ read_data[c] = "running"
      /\ read_data' = [read_data EXCEPT ![c] =
                         IF Len(received'[c]) > DataLen[c] THEN "ok" ELSE read_data[c]]
      /\ UNCHANGED <<server, task, buf, write_data, result, written, up, reset,
                     faults>>
  BY DEF Reads
<1>. DEFINE p == SubSeq(down[c], 1, k)
            q == Skip(down[c], k)
<1>4. p \in Bytes /\ q \in Bytes /\ down[c] = p \o q
  BY <1>1, Moved
<1>. HIDE DEF p, q
<1>5. received' = [received EXCEPT ![c] = received[c] \o p] /\ down' = [down EXCEPT ![c] = q]
  BY <1>2, Zenon DEF p, q
<1>6. read_data' = [read_data EXCEPT ![c] =
                      IF Len(received'[c]) > DataLen[c] THEN "ok" ELSE "running"]
  BY <1>3, Zenon
<1>. QED
  BY <1>3, <1>4, <1>5, <1>6, Zenon
-----------------------------------------------------------------------------
(* Every variable keeps its type.                                          *)
LEMMA TypeStep == TypeOK /\ [Next]_vars => TypeOK'
<1> SUFFICES ASSUME TypeOK, [Next]_vars PROVE TypeOK'
  OBVIOUS
<1>1. ASSUME NEW c \in Client, TaskReads(c) PROVE TypeOK'
  <2>1. PICK p, q \in Bytes :
          /\ task' = [task EXCEPT ![c] = "write"]
          /\ buf' = [buf EXCEPT ![c] = p] /\ up' = [up EXCEPT ![c] = q]
          /\ UNCHANGED <<server, write_data, read_data, result, written, received, down,
                         reset, faults>>
    BY <1>1, TaskReadsFacts
  <2>. QED
    BY <2>1 DEF TypeOK
<1>2. ASSUME NEW c \in Client, TaskWrites(c) PROVE TypeOK'
  <2>1. PICK p, q \in Bytes :
          /\ task' = [task EXCEPT ![c] = IF q = <<>> THEN "read" ELSE "write"]
          /\ buf' = [buf EXCEPT ![c] = q] /\ down' = [down EXCEPT ![c] = down[c] \o p]
          /\ reset' = (IF result[c] = "none" THEN reset ELSE reset \cup {c})
          /\ UNCHANGED <<server, write_data, read_data, result, written, received, up,
                         faults>>
    BY <1>2, TaskWritesFacts
  <2>. DEFINE d == down[c] \o p
  <2>2. d \in Bytes
    BY <2>1, ConcatProperties DEF TypeOK, Bytes
  <2>3. down' = [down EXCEPT ![c] = d]
    BY <2>1
  <2>4. UNCHANGED <<server, write_data, read_data, result, written, received, up, faults>>
    BY <2>1
  <2>5. task' \in [Client -> {"none", "backlog", "read", "write", "close", "closed",
                             "panicked", "dropped"}]
    BY <2>1 DEF TypeOK
  <2>6. buf' \in [Client -> Bytes] /\ reset' \subseteq Client
    BY <2>1 DEF TypeOK
  <2>. HIDE DEF d
  <2>7. down' \in [Client -> Bytes]
    BY <2>2, <2>3 DEF TypeOK
  <2>. QED
    BY <2>4, <2>5, <2>6, <2>7 DEF TypeOK
<1>3. ASSUME NEW c \in Client, Writes(c) PROVE TypeOK'
  <2>1. PICK k \in Nat, p \in Bytes :
          /\ written[c] + k <= DataLen[c]
          /\ up' = [up EXCEPT ![c] = up[c] \o p]
          /\ written' = [written EXCEPT ![c] = written[c] + k]
          /\ reset' = (IF ServerClosed(c) THEN reset \cup {c} ELSE reset)
          /\ UNCHANGED <<server, task, buf, write_data, read_data, result, received, down,
                         faults>>
    BY <1>3, WritesFacts
  <2>. DEFINE u == up[c] \o p
  <2>2. u \in Bytes
    BY <2>1, ConcatProperties DEF TypeOK, Bytes
  <2>3. up' = [up EXCEPT ![c] = u]
    BY <2>1
  <2>4. UNCHANGED <<server, task, buf, write_data, read_data, result, received, down,
                    faults>>
    BY <2>1
  <2>5. written' = [written EXCEPT ![c] = written[c] + k] /\ written[c] + k <= DataLen[c]
    BY <2>1
  <2>6. written' \in [Client -> Nat] /\ \A e \in Client : written'[e] <= DataLen[e]
    BY <2>5 DEF TypeOK
  <2>7. reset' \subseteq Client
    BY <2>1 DEF TypeOK
  <2>. HIDE DEF u
  <2>8. up' \in [Client -> Bytes]
    BY <2>2, <2>3 DEF TypeOK
  <2>. QED
    BY <2>4, <2>6, <2>7, <2>8 DEF TypeOK
<1>4. ASSUME NEW c \in Client, Reads(c) PROVE TypeOK'
  <2>1. PICK p, q \in Bytes :
          /\ received' = [received EXCEPT ![c] = received[c] \o p]
          /\ down' = [down EXCEPT ![c] = q]
          /\ read_data' = [read_data EXCEPT ![c] =
                             IF Len(received'[c]) > DataLen[c] THEN "ok" ELSE "running"]
          /\ UNCHANGED <<server, task, buf, write_data, result, written, up, reset,
                         faults>>
    BY <1>4, ReadsFacts
  <2>. DEFINE r == received[c] \o p
              h == IF Len(received'[c]) > DataLen[c] THEN "ok" ELSE "running"
  <2>2. r \in Bytes
    BY <2>1, ConcatProperties DEF TypeOK, Bytes
  <2>3. h \in {"ok", "running"}
    OBVIOUS
  <2>4. received' = [received EXCEPT ![c] = r] /\ read_data' = [read_data EXCEPT ![c] = h]
    BY <2>1
  <2>5. UNCHANGED <<server, task, buf, write_data, result, written, up, reset, faults>>
    BY <2>1
  <2>6. down' \in [Client -> Bytes]
    BY <2>1 DEF TypeOK
  <2>. HIDE DEF r, h
  <2>7. received' \in [Client -> Bytes]
    BY <2>2, <2>4 DEF TypeOK
  <2>8. read_data' \in [Client -> {"none", "running", "ok", "err"}]
    BY <2>3, <2>4 DEF TypeOK
  <2>. QED
    BY <2>5, <2>6, <2>7, <2>8 DEF TypeOK
<1>5. ASSUME ServerEnds, UNCHANGED <<buf, clientVars, up, down>>, faults' \in Nat
      PROVE  TypeOK'
  BY <1>5 DEF TypeOK, ServerEnds, clientVars
<1>6. ASSUME NEW c \in Client, Accept(c) PROVE TypeOK'
  <2>1. CASE c \in reset
    BY <1>5, <1>6, <2>1 DEF Accept, TypeOK
  <2>2. CASE c \notin reset
    BY <1>6, <2>2 DEF Accept, TypeOK, clientVars
  <2>. QED
    BY <2>1, <2>2
<1>7. CASE AcceptFails
  BY <1>5, <1>7 DEF AcceptFails, Fault, TypeOK
<1>8. ASSUME NEW c \in Client, TaskBreaks(c) \/ TaskCloses(c) PROVE TypeOK'
  BY <1>8 DEF TaskBreaks, TaskCloses, TypeOK, clientVars
<1>9. ASSUME NEW c \in Client, Connects(c) PROVE TypeOK'
  BY <1>9 DEF Connects, TypeOK
<1>10. ASSUME NEW c \in Client, Shuts(c) \/ ReadsEnd(c) PROVE TypeOK'
  BY <1>10 DEF Shuts, ReadsEnd, TypeOK
<1>11. ASSUME NEW c \in Client, Finishes(c) PROVE TypeOK'
  BY <1>11 DEF Finishes, TypeOK
<1>12. ASSUME NEW c \in Client, ConnectionBreaks(c) PROVE TypeOK'
  BY <1>12 DEF ConnectionBreaks, Fault, TypeOK, clientVars
<1>13. CASE UNCHANGED vars
  BY <1>13 DEF vars, TypeOK, clientVars
<1>. QED
  BY <1>1, <1>2, <1>3, <1>4, <1>6, <1>7, <1>8, <1>9, <1>10, <1>11, <1>12, <1>13
  DEF Next, Task, WriteData, ReadData
-----------------------------------------------------------------------------
(* A task has nothing in its buffer when it reads, and a client that has   *)
(* not connected has no task.                                              *)
IdleInv ==
  \A c \in Client :
    /\ write_data[c] = "none" => task[c] = "none"
    /\ task[c] \in {"none", "backlog", "read"} => buf[c] = <<>>

(* Where the bytes are that a client has written: with it again, on the    *)
(* way back, with the task, on the way up.  None is anywhere else.         *)
Whole(c) == ((received[c] \o down[c]) \o buf[c]) \o up[c]
Books == \A c \in Client : Whole(c) = SubSeq(data(c), 1, written[c])

(* A task or a client moves on, and IdleInv with it.                       *)
LEMMA IdleStep == TypeOK /\ IdleInv /\ [Next]_vars => IdleInv'
<1> SUFFICES ASSUME TypeOK, IdleInv, [Next]_vars PROVE IdleInv'
  OBVIOUS
<1>1. ASSUME NEW c \in Client, TaskReads(c) PROVE IdleInv'
  BY <1>1, TaskReadsFacts DEF IdleInv, TypeOK
<1>2. ASSUME NEW c \in Client, TaskWrites(c) PROVE IdleInv'
  <2>1. PICK q \in Bytes :
          /\ task[c] = "write"
          /\ task' = [task EXCEPT ![c] = IF q = <<>> THEN "read" ELSE "write"]
          /\ buf' = [buf EXCEPT ![c] = q] /\ UNCHANGED write_data
    BY <1>2, TaskWritesFacts
  <2>2. ASSUME NEW e \in Client
        PROVE  /\ write_data'[e] = "none" => task'[e] = "none"
               /\ task'[e] \in {"none", "backlog", "read"} => buf'[e] = <<>>
    <3>1. CASE e = c
      BY <2>1, <3>1 DEF IdleInv, TypeOK
    <3>2. CASE e # c
      BY <2>1, <3>2 DEF IdleInv, TypeOK
    <3>. QED
      BY <3>1, <3>2
  <2>. QED
    BY <2>2 DEF IdleInv
<1>3. ASSUME ServerEnds, UNCHANGED <<buf, write_data>> PROVE IdleInv'
  BY <1>3 DEF IdleInv, TypeOK, ServerEnds, Running
<1>4. ASSUME NEW c \in Client, Accept(c) PROVE IdleInv'
  <2>1. CASE c \in reset
    BY <1>3, <1>4, <2>1 DEF Accept, clientVars
  <2>2. CASE c \notin reset
    BY <1>4, <2>2 DEF Accept, IdleInv, TypeOK, clientVars
  <2>. QED
    BY <2>1, <2>2
<1>5. CASE AcceptFails
  BY <1>3, <1>5 DEF AcceptFails, clientVars
<1>6. ASSUME NEW c \in Client, TaskBreaks(c) \/ TaskCloses(c) PROVE IdleInv'
  BY <1>6 DEF TaskBreaks, LoopOver, TaskCloses, IdleInv, TypeOK, clientVars
<1>7. ASSUME NEW c \in Client, Connects(c) PROVE IdleInv'
  BY <1>7 DEF Connects, IdleInv, TypeOK
<1>8. ASSUME NEW c \in Client, Shuts(c) PROVE IdleInv'
  BY <1>8 DEF Shuts, IdleInv, TypeOK
<1>9. CASE UNCHANGED <<write_data, task, buf>>
  BY <1>9 DEF IdleInv
<1>10. ASSUME NEW c \in Client,
              Writes(c) \/ ReadData(c) \/ Finishes(c) \/ ConnectionBreaks(c)
       PROVE  UNCHANGED <<write_data, task, buf>>
  BY <1>10 DEF Writes, ReadData, Reads, ReadsEnd, Finishes, ConnectionBreaks, clientVars
<1>11. ASSUME UNCHANGED vars PROVE UNCHANGED <<write_data, task, buf>>
  BY <1>11 DEF vars, clientVars
<1>. QED
  BY <1>1, <1>2, <1>4, <1>5, <1>6, <1>7, <1>8, <1>9, <1>10, <1>11
  DEF Next, Task, WriteData

(* A piece p that moves over a seam between neighbours leaves the sequence *)
(* that they make up as it is.                                             *)
LEMMA MoveSeam ==
  ASSUME NEW S, NEW s \in Seq(S), NEW p \in Seq(S), NEW t \in Seq(S)
  PROVE  s \o (p \o t) = (s \o p) \o t
<1>1. (s \o p) \o t = s \o (p \o t)
  BY ConcatAssociative
<1>. QED
  BY <1>1, Zenon

(* A read from the front, when nothing stands before it.                   *)
LEMMA ReadSeam ==
  ASSUME NEW S, NEW s \in Seq(S), NEW p \in Seq(S), NEW t \in Seq(S)
  PROVE  (s \o <<>>) \o (p \o t) = (s \o p) \o t
<1>1. s \o <<>> = s
  BY ConcatEmptySeq
<1>2. s \o (p \o t) = (s \o p) \o t
  BY MoveSeam
<1>. QED
  BY <1>1, <1>2, Zenon

(* The two seams, for bytes.                                               *)
LEMMA ByteSeams ==
  \A s, p, t \in Bytes : /\ s \o (p \o t) = (s \o p) \o t
                         /\ (s \o <<>>) \o (p \o t) = (s \o p) \o t
<1>1. ASSUME NEW s \in Bytes, NEW p \in Bytes, NEW t \in Bytes
      PROVE  s \o (p \o t) = (s \o p) \o t
  BY MoveSeam DEF Bytes
<1>2. ASSUME NEW s \in Bytes, NEW p \in Bytes, NEW t \in Bytes
      PROVE  (s \o <<>>) \o (p \o t) = (s \o p) \o t
  BY ReadSeam DEF Bytes
<1>. QED
  BY <1>1, <1>2, Zenon

(* The sequences that the bytes of a client are in.                        *)
LEMMA PartTypes ==
  ASSUME TypeOK, NEW c \in Client
  PROVE  /\ received[c] \in Bytes /\ down[c] \in Bytes /\ buf[c] \in Bytes
         /\ up[c] \in Bytes /\ received[c] \o down[c] \in Bytes
         /\ (received[c] \o down[c]) \o buf[c] \in Bytes
<1>1. /\ received[c] \in Bytes /\ down[c] \in Bytes /\ buf[c] \in Bytes
      /\ up[c] \in Bytes
  BY DEF TypeOK
<1>2. received[c] \o down[c] \in Bytes
  BY <1>1, ConcatProperties DEF Bytes
<1>3. (received[c] \o down[c]) \o buf[c] \in Bytes
  BY <1>1, <1>2, ConcatProperties DEF Bytes
<1>. QED
  BY <1>1, <1>2, <1>3

(* The bytes of a client that nobody moved are where they were.            *)
LEMMA BooksKept ==
  ASSUME NEW c \in Client, Whole(c) = SubSeq(data(c), 1, written[c]),
         received'[c] = received[c], down'[c] = down[c], buf'[c] = buf[c],
         up'[c] = up[c], written'[c] = written[c]
  PROVE  (Whole(c) = SubSeq(data(c), 1, written[c]))'
BY Zenon DEF Whole, data

(* Every step keeps the books.                                             *)
LEMMA BooksStep == TypeOK /\ IdleInv /\ Books /\ [Next]_vars => Books'
<1> SUFFICES ASSUME TypeOK, IdleInv, Books, [Next]_vars PROVE Books'
  OBVIOUS
<1>. DEFINE Kept(c) == (Whole(c) = SubSeq(data(c), 1, written[c]))'
<1>0. ASSUME \A c \in Client : Kept(c) PROVE Books'
  BY <1>0, Zenon DEF Books
<1>1. ASSUME NEW c \in Client, TaskReads(c), NEW e \in Client PROVE Kept(e)
  <2>1. PICK p, q \in Bytes :
          /\ task[c] = "read" /\ up[c] = p \o q
          /\ buf' = [buf EXCEPT ![c] = p] /\ up' = [up EXCEPT ![c] = q]
          /\ UNCHANGED <<written, received, down>>
    BY <1>1, TaskReadsFacts
  <2>2. CASE e = c
    <3>. DEFINE rd == received[c] \o down[c]
    <3>1. buf[c] = <<>> /\ buf'[c] = p /\ up'[c] = q
      BY <2>1 DEF IdleInv, TypeOK
    <3>2. rd \in Bytes
      BY PartTypes
    <3>3. p \in Bytes /\ q \in Bytes
      OBVIOUS
    <3>. HIDE DEF rd
    <3>4. (rd \o <<>>) \o (p \o q) = (rd \o p) \o q
      BY <3>2, <3>3, ByteSeams
    <3>5. Whole(c) = (rd \o <<>>) \o (p \o q)
      BY <2>1, <3>1, Zenon DEF Whole, rd
    <3>6. (Whole(c))' = (rd \o p) \o q
      BY <2>1, <3>1, Zenon DEF Whole, rd
    <3>7. Whole(c) = SubSeq(data(c), 1, written[c])
      BY DEF Books
    <3>. QED
      BY <2>1, <2>2, <3>4, <3>5, <3>6, <3>7, Zenon DEF data
  <2>3. CASE e # c
    <3>1. buf'[e] = buf[e] /\ up'[e] = up[e]
      BY <2>1, <2>3 DEF TypeOK
    <3>. QED
      BY <2>1, <3>1, BooksKept DEF Books
  <2>. QED
    BY <2>2, <2>3
<1>2. ASSUME NEW c \in Client, TaskWrites(c), NEW e \in Client PROVE Kept(e)
  <2>1. PICK p, q \in Bytes :
          /\ buf[c] = p \o q
          /\ buf' = [buf EXCEPT ![c] = q] /\ down' = [down EXCEPT ![c] = down[c] \o p]
          /\ UNCHANGED <<written, received, up>>
    BY <1>2, TaskWritesFacts
  <2>2. CASE e = c
    <3>. DEFINE r == received[c]
                d == down[c]
                rd == r \o d
    <3>0. down \in [Client -> Bytes] /\ buf \in [Client -> Bytes]
      BY DEF TypeOK
    <3>1. buf'[c] = q /\ down'[c] = d \o p
      BY <2>1, <3>0, Zenon
    <3>2. r \in Bytes /\ d \in Bytes /\ rd \in Bytes
      BY PartTypes
    <3>3. p \in Bytes /\ q \in Bytes
      OBVIOUS
    <3>. HIDE DEF r, d
    <3>4. r \o (d \o p) = rd \o p
      BY <3>2, <3>3, ByteSeams
    <3>. HIDE DEF rd
    <3>5. rd \o (p \o q) = (rd \o p) \o q
      BY <3>2, <3>3, ByteSeams
    <3>6. (r \o d) \o (p \o q) = (r \o (d \o p)) \o q
      BY <3>4, <3>5, Zenon DEF rd
    <3>7. Whole(c) = ((r \o d) \o (p \o q)) \o up[c]
      BY <2>1, Zenon DEF Whole, r, d
    <3>8. (Whole(c))' = ((r \o (d \o p)) \o q) \o up[c]
      BY <2>1, <3>1, Zenon DEF Whole, r
    <3>9. Whole(c) = SubSeq(data(c), 1, written[c])
      BY DEF Books
    <3>. QED
      BY <2>1, <2>2, <3>6, <3>7, <3>8, <3>9, Zenon DEF data
  <2>3. CASE e # c
    <3>1. buf'[e] = buf[e]
      BY <2>1, <2>3 DEF TypeOK
    <3>2. down'[e] = down[e]
      BY <2>1, <2>3, Zenon DEF TypeOK
    <3>. QED
      BY <2>1, <3>1, <3>2, BooksKept DEF Books
  <2>. QED
    BY <2>2, <2>3
<1>3. ASSUME NEW c \in Client, Writes(c), NEW e \in Client PROVE Kept(e)
  <2>1. PICK k \in Nat, p \in Bytes :
          /\ SubSeq(data(c), 1, written[c] + k) = SubSeq(data(c), 1, written[c]) \o p
          /\ up' = [up EXCEPT ![c] = up[c] \o p]
          /\ written' = [written EXCEPT ![c] = written[c] + k]
          /\ UNCHANGED <<buf, received, down>>
    BY <1>3, WritesFacts
  <2>2. CASE e = c
    <3>. DEFINE m == (received[c] \o down[c]) \o buf[c]
                u == up[c]
    <3>0. up \in [Client -> Bytes] /\ written \in [Client -> Nat]
      BY DEF TypeOK
    <3>1. up'[c] = u \o p /\ written'[c] = written[c] + k
      BY <2>1, <3>0, Zenon
    <3>2. m \in Bytes /\ u \in Bytes
      BY PartTypes
    <3>. HIDE DEF m, u
    <3>3. m \o (u \o p) = (m \o u) \o p
      BY <3>2, ByteSeams
    <3>4. Whole(c) = m \o u
      BY Zenon DEF Whole, m, u
    <3>5. (Whole(c))' = m \o (u \o p)
      BY <2>1, <3>1, Zenon DEF Whole, m
    <3>6. Whole(c) = SubSeq(data(c), 1, written[c])
      BY DEF Books
    <3>7. (Whole(c))' = SubSeq(data(c), 1, written[c] + k)
      BY <2>1, <3>3, <3>4, <3>5, <3>6, Zenon
    <3>. QED
      BY <2>2, <3>1, <3>7, Zenon DEF data
  <2>3. CASE e # c
    <3>1. up'[e] = up[e] /\ written'[e] = written[e]
      BY <2>1, <2>3, Zenon DEF TypeOK
    <3>. QED
      BY <2>1, <3>1, BooksKept DEF Books
  <2>. QED
    BY <2>2, <2>3
<1>4. ASSUME NEW c \in Client, Reads(c), NEW e \in Client PROVE Kept(e)
  <2>1. PICK p, q \in Bytes :
          /\ read_data[c] = "running"
          /\ down[c] = p \o q
          /\ received' = [received EXCEPT ![c] = received[c] \o p]
          /\ down' = [down EXCEPT ![c] = q]
          /\ read_data' = [read_data EXCEPT ![c] =
                             IF Len(received'[c]) > DataLen[c] THEN "ok" ELSE "running"]
          /\ UNCHANGED <<server, task, buf, write_data, result, written, up, reset,
                         faults>>
    BY <1>4, ReadsFacts, Zenon
  <2>2. CASE e = c
    <3>. DEFINE r == received[c]
    <3>0. received \in [Client -> Bytes] /\ down \in [Client -> Bytes]
      BY DEF TypeOK
    <3>1. received'[c] = r \o p /\ down'[c] = q
      BY <2>1, <3>0, Zenon
    <3>2. r \in Bytes
      BY PartTypes
    <3>3. p \in Bytes /\ q \in Bytes
      OBVIOUS
    <3>. HIDE DEF r
    <3>4. r \o (p \o q) = (r \o p) \o q
      BY <3>2, <3>3, ByteSeams
    <3>5. Whole(c) = ((r \o (p \o q)) \o buf[c]) \o up[c]
      BY <2>1, Zenon DEF Whole, r
    <3>6. (Whole(c))' = (((r \o p) \o q) \o buf[c]) \o up[c]
      BY <2>1, <3>1, Zenon DEF Whole
    <3>7. Whole(c) = SubSeq(data(c), 1, written[c])
      BY DEF Books
    <3>. QED
      BY <2>1, <2>2, <3>4, <3>5, <3>6, <3>7, Zenon DEF data
  <2>3. CASE e # c
    <3>1. received'[e] = received[e] /\ down'[e] = down[e]
      BY <2>1, <2>3, Zenon DEF TypeOK
    <3>. QED
      BY <2>1, <3>1, BooksKept DEF Books
  <2>. QED
    BY <2>2, <2>3
<1>5. ASSUME UNCHANGED <<received, down, buf, up, written>>, NEW e \in Client
      PROVE  Kept(e)
  BY <1>5, BooksKept DEF Books
<1>6. ASSUME \/ \E c \in Client :
                  \/ Accept(c) \/ TaskBreaks(c) \/ TaskCloses(c) \/ Connects(c)
                  \/ Shuts(c) \/ ReadsEnd(c) \/ Finishes(c) \/ ConnectionBreaks(c)
             \/ AcceptFails \/ UNCHANGED vars
      PROVE  UNCHANGED <<received, down, buf, up, written>>
  BY <1>6, Zenon DEF Accept, TaskBreaks, TaskCloses, Connects, Shuts, ReadsEnd,
    Finishes, ConnectionBreaks, AcceptFails, vars, clientVars
<1>. HIDE DEF Kept
<1>. QED
  BY <1>0, <1>1, <1>2, <1>3, <1>4, <1>5, <1>6, Zenon DEF Next, Task, WriteData, ReadData

(* The invariants hold in every state.                                     *)
LEMMA BooksAlways == Spec => [](TypeOK /\ IdleInv /\ Books)
<1>1. Init => TypeOK /\ IdleInv /\ Books
  <2> SUFFICES ASSUME Init PROVE TypeOK /\ IdleInv /\ Books
    OBVIOUS
  <2>1. TypeOK
    <3>1. <<>> \in Bytes
      BY EmptySeq DEF Bytes
    <3>2. \A c \in Client : DataLen[c] \in Nat
      BY EchoAssumption
    <3>. QED
      BY <3>1, <3>2 DEF Init, TypeOK
  <2>2. IdleInv
    BY DEF Init, IdleInv
  <2>3. ASSUME NEW c \in Client PROVE Whole(c) = SubSeq(data(c), 1, written[c])
    <3>1. /\ received[c] = <<>> /\ down[c] = <<>> /\ buf[c] = <<>> /\ up[c] = <<>>
          /\ written[c] = 0
      BY DEF Init
    <3>2. <<>> \o <<>> = <<>>
      BY EmptySeq, ConcatEmptySeq
    <3>3. SubSeq(data(c), 1, 0) = <<>>
      BY DataFacts
    <3>. QED
      BY <3>1, <3>2, <3>3, Zenon DEF Whole
  <2>. QED
    BY <2>1, <2>2, <2>3 DEF Books
<1>. QED
  BY <1>1, TypeStep, IdleStep, BooksStep, PTL DEF Spec
-----------------------------------------------------------------------------
(* What comes back is a beginning of what was written.                     *)
LEMMA BooksArePrefix ==
  ASSUME TypeOK, Books, NEW c \in Client
  PROVE  IsPrefix(received[c], SubSeq(data(c), 1, written[c]))
<1>. DEFINE r == received[c]
            d == down[c]
            b == buf[c]
            u == up[c]
            rd == r \o d
            rdb == rd \o b
            w == rdb \o u
<1>1. r \in Bytes /\ d \in Bytes /\ b \in Bytes /\ u \in Bytes /\ rd \in Bytes /\ rdb \in Bytes
  BY PartTypes
<1>2. w = SubSeq(data(c), 1, written[c])
  BY Zenon DEF Books, Whole
<1>. HIDE DEF r, d, b, u
<1>3. IsPrefix(r, rd)
  BY <1>1, PrefixOfConcat DEF Bytes
<1>. HIDE DEF rd
<1>4. IsPrefix(rd, rdb)
  BY <1>1, PrefixOfConcat DEF Bytes
<1>. HIDE DEF rdb
<1>5. IsPrefix(rdb, w) /\ w \in Bytes
  BY <1>1, PrefixOfConcat, ConcatProperties DEF Bytes
<1>. HIDE DEF w
<1>6. IsPrefix(r, rdb)
  BY <1>1, <1>3, <1>4, PrefixTransitive DEF Bytes
<1>7. IsPrefix(r, w)
  BY <1>1, <1>5, <1>6, PrefixTransitive DEF Bytes
<1>. QED
  BY <1>2, <1>7 DEF r

(* What a client has received is a beginning of what it wrote, through     *)
(* resets, panics and the end of the server, for all sizes of the buffers. *)
THEOREM AlwaysEchoes == Spec => []EchoIsPrefix
<1>1. TypeOK /\ Books => EchoIsPrefix
  BY BooksArePrefix DEF EchoIsPrefix
<1>. QED
  BY <1>1, BooksAlways, PTL
-----------------------------------------------------------------------------
(* What a client and its task are up to while nothing has failed: the task *)
(* closes only after the client has shut down and everything is on its way *)
(* back, and the client has its end only after it has read all of it.      *)
QuietClient(c) ==
  /\ task[c] \notin {"panicked", "dropped"}
  /\ write_data[c] # "err" /\ read_data[c] # "err"
  /\ Shut(c) => written[c] = DataLen[c]
  /\ task[c] # "write" => buf[c] = <<>>
  /\ task[c] \in {"close", "closed"} => Shut(c) /\ up[c] = <<>>
  /\ read_data[c] = "ok" => task[c] = "closed" /\ down[c] = <<>>
  /\ result[c] # "none" => result[c] = "PASS" /\ read_data[c] = "ok"

QuietInv ==
  faults = 0 => /\ server = "listening" /\ reset = {}
                /\ \A c \in Client : QuietClient(c)

(* A client that nobody moved is as quiet as before.                       *)
LEMMA QuietKept ==
  ASSUME NEW c \in Client, QuietClient(c),
         task'[c] = task[c], buf'[c] = buf[c], up'[c] = up[c], down'[c] = down[c],
         write_data'[c] = write_data[c], read_data'[c] = read_data[c],
         written'[c] = written[c], result'[c] = result[c]
  PROVE  QuietClient(c)'
BY DEF QuietClient, Shut

(* A client whose loop of reading goes on has read no more than it wrote.  *)
LEMMA NoOverrun ==
  ASSUME TypeOK', Books', NEW c \in Client
  PROVE  ~(Len(received'[c]) > DataLen[c])
<1>. DEFINE r == received'[c]
            w == written'[c]
            s == SubSeq(data(c), 1, w)
<1>1. (TypeOK /\ Books => IsPrefix(received[c], SubSeq(data(c), 1, written[c])))'
  BY BooksArePrefix, PTL
<1>2. IsPrefix(r, s)
  BY <1>1 DEF data
<1>3. r \in Bytes /\ w \in Nat /\ w <= DataLen[c] /\ DataLen[c] \in Nat
  BY EchoAssumption DEF TypeOK
<1>4. s \in Bytes /\ Len(s) = w
  BY <1>3, DataFacts
<1>. HIDE DEF r, w, s
<1>5. Len(r) <= Len(s) /\ Len(r) \in Nat
  BY <1>2, <1>3, <1>4, PrefixPointwise, LenProperties DEF Bytes
<1>. QED
  BY <1>3, <1>4, <1>5 DEF r

(* Whatever the order in which the clients and their tasks go on.          *)
LEMMA QuietStep ==
  TypeOK /\ TypeOK' /\ IdleInv /\ Books /\ Books' /\ QuietInv /\ [Next]_vars => QuietInv'
<1> SUFFICES ASSUME TypeOK, TypeOK', IdleInv, Books, Books', QuietInv, [Next]_vars,
                    faults' = 0
             PROVE  /\ server' = "listening" /\ reset' = {}
                    /\ \A e \in Client : QuietClient(e)'
  BY DEF QuietInv
<1>1. /\ faults = 0 /\ ~AcceptFails
      /\ \A c \in Client : ~ConnectionBreaks(c)
  <2>1. faults' = faults \/ faults' = faults + 1
    BY DEF Next, AcceptFails, Fault, Accept, Task, TaskReads, TaskWrites, TaskBreaks,
      TaskCloses, Connects, WriteData, Writes, Shuts, ReadData, Reads, ReadsEnd, Finishes,
      ConnectionBreaks, vars
  <2>2. AcceptFails \/ (\E c \in Client : ConnectionBreaks(c)) => faults' = faults + 1
    BY DEF AcceptFails, ConnectionBreaks, Fault
  <2>. QED
    BY <2>1, <2>2 DEF TypeOK
<1>2. /\ server = "listening" /\ reset = {}
      /\ \A e \in Client : QuietClient(e)
  BY <1>1 DEF QuietInv
<1>3. ASSUME NEW c \in Client, Accept(c), NEW e \in Client
      PROVE  server' = "listening" /\ reset' = {} /\ QuietClient(e)'
  <2>1. /\ task[c] = "backlog" /\ task' = [task EXCEPT ![c] = "read"]
        /\ UNCHANGED <<server, reset, buf, clientVars, up, down>>
    BY <1>2, <1>3 DEF Accept
  <2>2. buf[c] = <<>>
    BY <2>1 DEF IdleInv
  <2>. QED
    BY <1>2, <2>1, <2>2 DEF TypeOK, QuietClient, Shut, clientVars
<1>4. ASSUME NEW c \in Client, TaskReads(c), NEW e \in Client
      PROVE  server' = "listening" /\ reset' = {} /\ QuietClient(e)'
  <2>1. PICK p, q \in Bytes :
          /\ task[c] = "read" /\ task' = [task EXCEPT ![c] = "write"]
          /\ buf' = [buf EXCEPT ![c] = p] /\ up' = [up EXCEPT ![c] = q]
          /\ UNCHANGED <<server, write_data, read_data, result, written, received, down,
                         reset, faults>>
    BY <1>4, TaskReadsFacts
  <2>. QED
    BY <1>2, <2>1 DEF TypeOK, QuietClient, Shut
<1>5. ASSUME NEW c \in Client, TaskWrites(c), NEW e \in Client
      PROVE  server' = "listening" /\ reset' = {} /\ QuietClient(e)'
  <2>1. PICK p, q \in Bytes :
          /\ task[c] = "write"
          /\ task' = [task EXCEPT ![c] = IF q = <<>> THEN "read" ELSE "write"]
          /\ buf' = [buf EXCEPT ![c] = q] /\ down' = [down EXCEPT ![c] = down[c] \o p]
          /\ reset' = (IF result[c] = "none" THEN reset ELSE reset \cup {c})
          /\ UNCHANGED <<server, write_data, read_data, result, written, received, up,
                         faults>>
    BY <1>5, TaskWritesFacts
  <2>2. read_data[c] # "ok" /\ result[c] = "none"
    BY <1>2, <2>1 DEF QuietClient
  <2>3. server' = "listening" /\ reset' = {}
    BY <1>2, <2>1, <2>2
  <2>4. CASE e = c
    <3>1. /\ task'[c] = (IF q = <<>> THEN "read" ELSE "write") /\ buf'[c] = q
          /\ UNCHANGED <<write_data, read_data, result, written, up>>
      BY <2>1 DEF TypeOK
    <3>. QED
      BY <1>2, <2>2, <2>3, <2>4, <3>1 DEF QuietClient, Shut
  <2>5. CASE e # c
    <3>1. task'[e] = task[e] /\ buf'[e] = buf[e]
      BY <2>1, <2>5 DEF TypeOK
    <3>2. down'[e] = down[e]
      <4>1. down' = [down EXCEPT ![c] = down[c] \o p]
        BY <2>1
      <4>2. down \in [Client -> Bytes]
        BY DEF TypeOK
      <4>. QED
        BY <2>5, <4>1, <4>2, Zenon
    <3>. QED
      BY <1>2, <2>1, <2>3, <3>1, <3>2, QuietKept
  <2>. QED
    BY <2>4, <2>5
<1>6. ASSUME NEW c \in Client, TaskBreaks(c), NEW e \in Client
      PROVE  server' = "listening" /\ reset' = {} /\ QuietClient(e)'
  <2>1. /\ task[c] = "read" /\ up[c] = <<>> /\ Shut(c)
        /\ task' = [task EXCEPT ![c] = "close"]
        /\ UNCHANGED <<server, buf, clientVars, up, down, reset>>
    BY <1>2, <1>6 DEF TaskBreaks, LoopOver
  <2>. QED
    BY <1>2, <2>1 DEF TypeOK, QuietClient, Shut, clientVars
<1>7. ASSUME NEW c \in Client, TaskCloses(c), NEW e \in Client
      PROVE  server' = "listening" /\ reset' = {} /\ QuietClient(e)'
  <2>1. /\ task[c] = "close" /\ task' = [task EXCEPT ![c] = "closed"]
        /\ UNCHANGED <<server, buf, clientVars, up, down, reset>>
    BY <1>2, <1>7 DEF TaskCloses
  <2>. QED
    BY <1>2, <2>1 DEF TypeOK, QuietClient, Shut, clientVars
<1>8. ASSUME NEW c \in Client, Connects(c), NEW e \in Client
      PROVE  server' = "listening" /\ reset' = {} /\ QuietClient(e)'
  <2>1. /\ write_data[c] = "none" /\ result[c] = "none"
        /\ task' = [task EXCEPT ![c] = "backlog"]
        /\ write_data' = [write_data EXCEPT ![c] = "running"]
        /\ read_data' = [read_data EXCEPT ![c] = "running"]
        /\ UNCHANGED <<server, buf, written, received, up, down, reset, result>>
    BY <1>2, <1>8 DEF Connects
  <2>2. task[c] = "none" /\ buf[c] = <<>>
    BY <2>1 DEF IdleInv
  <2>. QED
    BY <1>2, <2>1, <2>2 DEF TypeOK, QuietClient, Shut
<1>9. ASSUME NEW c \in Client, Writes(c), NEW e \in Client
      PROVE  server' = "listening" /\ reset' = {} /\ QuietClient(e)'
  <2>1. PICK k \in Nat, p \in Bytes :
          /\ write_data[c] = "running"
          /\ up' = [up EXCEPT ![c] = up[c] \o p]
          /\ written' = [written EXCEPT ![c] = written[c] + k]
          /\ reset' = (IF ServerClosed(c) THEN reset \cup {c} ELSE reset)
          /\ UNCHANGED <<server, task, buf, write_data, read_data, result, received, down,
                         faults>>
    BY <1>9, WritesFacts
  <2>2. task[c] \notin {"close", "closed", "panicked", "dropped"}
    BY <1>2, <2>1 DEF QuietClient, Shut
  <2>3. server' = "listening" /\ reset' = {}
    BY <1>2, <2>1, <2>2 DEF ServerClosed
  <2>4. CASE e = c
    BY <1>2, <2>1, <2>2, <2>3, <2>4 DEF QuietClient, Shut
  <2>5. CASE e # c
    <3>1. up'[e] = up[e] /\ written'[e] = written[e]
      BY <2>1, <2>5, Zenon DEF TypeOK
    <3>. QED
      BY <1>2, <2>1, <2>3, <3>1, QuietKept
  <2>. QED
    BY <2>4, <2>5
<1>10. ASSUME NEW c \in Client, Shuts(c), NEW e \in Client
       PROVE  server' = "listening" /\ reset' = {} /\ QuietClient(e)'
  <2>1. /\ written[c] = DataLen[c] /\ write_data' = [write_data EXCEPT ![c] = "ok"]
        /\ UNCHANGED <<server, task, buf, read_data, result, written, received, up, down,
                       reset>>
    BY <1>2, <1>10 DEF Shuts
  <2>. QED
    BY <1>2, <2>1 DEF TypeOK, QuietClient, Shut
<1>11. ASSUME NEW c \in Client, Reads(c), NEW e \in Client
       PROVE  server' = "listening" /\ reset' = {} /\ QuietClient(e)'
  <2>1. PICK p, q \in Bytes :
          /\ read_data[c] = "running"
          /\ down[c] = p \o q
          /\ received' = [received EXCEPT ![c] = received[c] \o p]
          /\ down' = [down EXCEPT ![c] = q]
          /\ read_data' = [read_data EXCEPT ![c] =
                             IF Len(received'[c]) > DataLen[c] THEN "ok" ELSE "running"]
          /\ UNCHANGED <<server, task, buf, write_data, result, written, up, reset,
                         faults>>
    BY <1>11, ReadsFacts, Zenon
  <2>2. read_data' = [read_data EXCEPT ![c] = "running"]
    <3>1. ~(Len(received'[c]) > DataLen[c])
      BY NoOverrun
    <3>. QED
      BY <2>1, <3>1, Zenon
  <2>3. read_data' = read_data
    <3>1. read_data[c] = "running"
      BY <2>1, Zenon
    <3>. QED
      BY <2>2, <3>1 DEF TypeOK
  <2>4. server' = "listening" /\ reset' = {}
    BY <1>2, <2>1, Zenon
  <2>5. UNCHANGED <<task, buf, write_data, result, written, up>>
    BY <2>1, Zenon
  <2>6. CASE e = c
    <3>1. read_data[c] # "ok"
      BY <2>1
    <3>. QED
      BY <1>2, <2>3, <2>4, <2>5, <2>6, <3>1 DEF QuietClient, Shut
  <2>7. CASE e # c
    <3>1. down'[e] = down[e]
      BY <2>1, <2>7, Zenon DEF TypeOK
    <3>. QED
      BY <1>2, <2>3, <2>4, <2>5, <3>1, QuietKept
  <2>. QED
    BY <2>6, <2>7
<1>12. ASSUME NEW c \in Client, ReadsEnd(c), NEW e \in Client
       PROVE  server' = "listening" /\ reset' = {} /\ QuietClient(e)'
  <2>1. /\ down[c] = <<>> /\ task[c] = "closed" /\ read_data[c] = "running"
        /\ read_data' = [read_data EXCEPT ![c] = "ok"]
        /\ UNCHANGED <<server, task, buf, write_data, result, written, received, up, down,
                       reset>>
    BY <1>2, <1>12 DEF ReadsEnd, ServerClosed, QuietClient
  <2>. QED
    BY <1>2, <2>1 DEF TypeOK, QuietClient, Shut
<1>13. ASSUME NEW c \in Client, Finishes(c), NEW e \in Client
       PROVE  server' = "listening" /\ reset' = {} /\ QuietClient(e)'
  <2>1. /\ Shut(c) /\ write_data[c] = "ok" /\ read_data[c] = "ok"
        /\ task[c] = "closed" /\ down[c] = <<>> /\ buf[c] = <<>> /\ up[c] = <<>>
        /\ written[c] = DataLen[c]
    BY <1>2, <1>13 DEF Finishes, QuietClient, Shut
  <2>2. received[c] = data(c)
    <3>. DEFINE r == received[c]
    <3>1. Whole(c) = SubSeq(data(c), 1, DataLen[c])
      BY <2>1 DEF Books
    <3>2. Whole(c) = ((r \o <<>>) \o <<>>) \o <<>>
      BY <2>1, Zenon DEF Whole
    <3>3. r \in Bytes
      BY PartTypes
    <3>4. SubSeq(data(c), 1, DataLen[c]) = data(c)
      BY DataFacts
    <3>. HIDE DEF r
    <3>5. r \o <<>> = r
      BY <3>3, ConcatEmptySeq DEF Bytes
    <3>. QED
      BY <3>1, <3>2, <3>4, <3>5, Zenon DEF r
  <2>3. /\ result' = [result EXCEPT ![c] = "PASS"] /\ reset' = reset
        /\ UNCHANGED <<server, task, buf, write_data, read_data, written, up, down>>
    BY <1>13, <2>1, <2>2 DEF Finishes
  <2>. QED
    BY <1>2, <2>1, <2>3 DEF TypeOK, QuietClient, Shut
<1>14. ASSUME UNCHANGED vars, NEW e \in Client
       PROVE  server' = "listening" /\ reset' = {} /\ QuietClient(e)'
  BY <1>2, <1>14, QuietKept DEF vars, clientVars
<1>15. CASE UNCHANGED vars
  BY <1>2, <1>14, <1>15 DEF vars
<1>16. CASE Next
  <2>1. PICK c \in Client :
          \/ Accept(c) \/ Task(c) \/ Connects(c) \/ WriteData(c) \/ ReadData(c) \/ Finishes(c)
    BY <1>1, <1>16 DEF Next
  <2>2. \A e \in Client : server' = "listening" /\ reset' = {} /\ QuietClient(e)'
    BY <1>3, <1>4, <1>5, <1>6, <1>7, <1>8, <1>9, <1>10, <1>11, <1>12, <1>13, <2>1, Zenon
    DEF Task, WriteData, ReadData
  <2>. QED
    BY <2>2
<1>. QED
  BY <1>15, <1>16

(* While nothing fails, no client is told that its echo differs, no task   *)
(* panics and the server stays, for any number of clients at once.         *)
THEOREM AlwaysPasses == Spec => []PassesUnlessFault
<1>1. Init => QuietInv
  BY DEF Init, QuietInv, QuietClient, Shut
<1>2. QuietInv => PassesUnlessFault
  BY DEF QuietInv, QuietClient, PassesUnlessFault
<1>. QED
  BY <1>1, <1>2, QuietStep, BooksAlways, PTL DEF Spec
=============================================================================
