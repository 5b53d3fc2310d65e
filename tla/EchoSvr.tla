------------------------------ MODULE EchoSvr ------------------------------
(***************************************************************************)
(* The application the gateways are tried with (examples/echosvr): a       *)
(* server that spawns a task for every connection, which writes back what  *)
(* it reads, and clients that send their data, shut their side down and    *)
(* meanwhile read until the end of the stream, at most one byte more than  *)
(* they sent.  The bytes of the data are numbered.                         *)
(***************************************************************************)
EXTENDS Integers, Sequences, SequencesExt

CONSTANTS
  Client,     \* the clients, each with one connection
  Idle,       \* those that may stop to run at any point
  DataLen,    \* DataLen[c]: length of the data c sends
  BufSize,    \* size of the server task's buffer (1024 in the code)
  StreamCap,  \* bytes a connection holds in one direction
  MaxFaults   \* bound on failing connections and accepts

ASSUME EchoAssumption ==
  /\ Idle \subseteq Client
  /\ DataLen \in [Client -> Nat]
  /\ BufSize \in Nat \ {0}
  /\ StreamCap \in Nat \ {0}
  /\ MaxFaults \in Nat

VARIABLES
  server,      \* the accept loop
  task,        \* task[c]: the connection of c in the backlog, or its task
  buf,         \* buf[c]: what that task has read and not written back
  write_data,  \* write_data[c]: the future that sends, or what it returned
  read_data,   \* read_data[c]: the future that receives, or what it returned
  result,      \* result[c]: what the client prints, or "error"
  written,     \* written[c]: how many bytes c has written
  up,          \* up[c]: bytes on the way to the server
  down,        \* down[c]: bytes on the way back
  received,    \* received[c]: buf[..recv_size] of c
  reset,       \* the connections that were reset
  faults

clientVars == <<write_data, read_data, result, written, received>>
vars == <<server, task, buf, clientVars, up, down, reset, faults>>

data(c) == [n \in 1 .. DataLen[c] |-> n]

\* Mutant of Skip: a partial write counts as complete.
SkipAll(s, k) == <<>>

Skip(s, k) == SubSeq(s, k + 1, Len(s))

Running(c) == task[c] \in {"read", "write", "close"}
Shut(c) == write_data[c] \in {"ok", "err"}
ServerClosed(c) == task[c] \in {"closed", "panicked", "dropped"}

Init ==
  /\ server = "listening"
  /\ task = [c \in Client |-> "none"]
  /\ buf = [c \in Client |-> <<>>]
  /\ write_data = [c \in Client |-> "none"]
  /\ read_data = [c \in Client |-> "none"]
  /\ result = [c \in Client |-> "none"]
  /\ written = [c \in Client |-> 0]
  /\ up = [c \in Client |-> <<>>]
  /\ down = [c \in Client |-> <<>>]
  /\ received = [c \in Client |-> <<>>]
  /\ reset = {}
  /\ faults = 0

Fault == faults < MaxFaults /\ faults' = faults + 1

ConnectionBreaks(c) ==
  /\ task[c] # "none" /\ c \notin reset
  /\ reset' = reset \cup {c}
  /\ Fault
  /\ UNCHANGED <<server, task, buf, clientVars, up, down>>
-----------------------------------------------------------------------------
(* run_echo_server returns with an error, and the runtime drops the tasks. *)
ServerEnds ==
  /\ server' = "failed"
  /\ task' = [c \in Client |-> IF task[c] = "backlog" \/ Running(c) THEN "dropped" ELSE task[c]]
  /\ reset' = reset \cup {c \in Client : task[c] = "backlog" \/ (Running(c) /\ up[c] # <<>>)}

(* accept() gives the next connection, or fails; peer_addr()? fails, and   *)
(* ends the server, if that connection has been reset meanwhile.           *)
Accept(c) ==
  /\ server = "listening"
  /\ task[c] = "backlog"
  /\ IF c \in reset
     THEN ServerEnds
     ELSE task' = [task EXCEPT ![c] = "read"] /\ UNCHANGED <<server, reset>>
  /\ UNCHANGED <<buf, clientVars, up, down, faults>>

AcceptFails ==
  /\ server = "listening"
  /\ ServerEnds
  /\ Fault
  /\ UNCHANGED <<buf, clientVars, up, down>>

Fits(k) == k <= BufSize

TaskReads(c) ==
  /\ task[c] = "read"
  /\ \E k \in 1 .. Len(up[c]) :
       /\ Fits(k)
       /\ buf' = [buf EXCEPT ![c] = SubSeq(up[c], 1, k)]
       /\ up' = [up EXCEPT ![c] = Skip(@, k)]
  /\ task' = [task EXCEPT ![c] = "write"]
  /\ UNCHANGED <<server, clientVars, down, reset, faults>>

(* write_all; a client that is gone answers with a reset.                  *)
TaskWrites(c) ==
  /\ task[c] = "write" /\ c \notin reset
  /\ \E k \in 1 .. Len(buf[c]) :
       /\ Len(down[c]) + k <= StreamCap
       /\ down' = [down EXCEPT ![c] = @ \o SubSeq(buf[c], 1, k)]
       /\ buf' = [buf EXCEPT ![c] = Skip(@, k)]
  /\ task' = [task EXCEPT ![c] = IF buf'[c] = <<>> THEN "read" ELSE @]
  /\ reset' = IF result[c] = "none" THEN reset ELSE reset \cup {c}
  /\ UNCHANGED <<server, clientVars, up, faults>>

\* Mutant of LoopOver: the end is seen before the bytes.
LoopOverEarly(c) ==
  \/ task[c] = "read" /\ Shut(c)
  \/ task[c] \in {"read", "write"} /\ c \in reset

LoopOver(c) ==
  \/ task[c] = "read" /\ up[c] = <<>> /\ Shut(c)
  \/ task[c] \in {"read", "write"} /\ c \in reset

(* The loop breaks: the client has shut its side down, or an error.        *)
TaskBreaks(c) ==
  /\ LoopOver(c)
  /\ task' = [task EXCEPT ![c] = "close"]
  /\ UNCHANGED <<server, buf, clientVars, up, down, reset, faults>>

(* peer_addr().unwrap() panics on a connection that was reset; the task    *)
(* alone ends, and its stream is dropped.                                  *)
TaskCloses(c) ==
  /\ task[c] = "close"
  /\ task' = [task EXCEPT ![c] = IF c \in reset THEN "panicked" ELSE "closed"]
  /\ UNCHANGED <<server, buf, clientVars, up, down, reset, faults>>
-----------------------------------------------------------------------------
(* Mutant of MayRead: the client sends everything, then receives.          *)
MayReadAfterSending(c) == Shut(c)

(* join! polls both futures.                                               *)
MayRead(c) == TRUE

Connects(c) ==
  /\ write_data[c] = "none" /\ result[c] = "none"
  /\ IF server = "listening"
     THEN /\ task' = [task EXCEPT ![c] = "backlog"]
          /\ write_data' = [write_data EXCEPT ![c] = "running"]
          /\ read_data' = [read_data EXCEPT ![c] = "running"]
          /\ UNCHANGED result
     ELSE /\ result' = [result EXCEPT ![c] = "error"]
          /\ UNCHANGED <<task, write_data, read_data>>
  /\ UNCHANGED <<server, buf, written, received, up, down, reset, faults>>

(* write_all(data); a server that is gone answers with a reset.            *)
Writes(c) ==
  /\ write_data[c] = "running" /\ c \notin reset
  /\ \E k \in 1 .. DataLen[c] - written[c] :
       /\ Len(up[c]) + k <= StreamCap
       /\ up' = [up EXCEPT ![c] = @ \o SubSeq(data(c), written[c] + 1, written[c] + k)]
       /\ written' = [written EXCEPT ![c] = @ + k]
  /\ reset' = IF ServerClosed(c) THEN reset \cup {c} ELSE reset
  /\ UNCHANGED <<server, task, buf, write_data, read_data, result, received, down, faults>>

(* shutdown() follows in any case; both fail on a reset connection.        *)
Shuts(c) ==
  /\ write_data[c] = "running"
  /\ written[c] = DataLen[c] \/ c \in reset
  /\ write_data' = [write_data EXCEPT ![c] = IF c \in reset THEN "err" ELSE "ok"]
  /\ UNCHANGED <<server, task, buf, read_data, result, written, received, up, down,
                 reset, faults>>

(* The loop of read_data, until its buffer of data.len() + 1 is full.      *)
Reads(c) ==
  /\ read_data[c] = "running" /\ MayRead(c)
  /\ \E k \in 1 .. Len(down[c]) :
       /\ Len(received[c]) + k <= DataLen[c] + 1
       /\ received' = [received EXCEPT ![c] = @ \o SubSeq(down[c], 1, k)]
       /\ down' = [down EXCEPT ![c] = Skip(@, k)]
  /\ read_data' = [read_data EXCEPT ![c] = IF Len(received'[c]) > DataLen[c] THEN "ok" ELSE @]
  /\ UNCHANGED <<server, task, buf, write_data, result, written, up, reset, faults>>

ReadsEnd(c) ==
  /\ read_data[c] = "running" /\ MayRead(c)
  /\ \/ c \in reset /\ read_data' = [read_data EXCEPT ![c] = "err"]
     \/ /\ c \notin reset /\ down[c] = <<>> /\ ServerClosed(c)
        /\ read_data' = [read_data EXCEPT ![c] = "ok"]
  /\ UNCHANGED <<server, task, buf, write_data, result, written, received, up, down,
                 reset, faults>>

(* The futures have returned: the client checks what it received, and goes.*)
Finishes(c) ==
  /\ result[c] = "none" /\ Shut(c) /\ read_data[c] \in {"ok", "err"}
  /\ result' = [result EXCEPT ![c] =
       IF write_data[c] = "err" \/ read_data[c] = "err" THEN "error"
       ELSE IF received[c] = data(c) THEN "PASS"
       ELSE "FAILED"]
  /\ reset' = IF down[c] # <<>> THEN reset \cup {c} ELSE reset
  /\ UNCHANGED <<server, task, buf, write_data, read_data, written, received, up, down,
                 faults>>

Task(c) == TaskReads(c) \/ TaskWrites(c) \/ TaskBreaks(c) \/ TaskCloses(c)
WriteData(c) == Writes(c) \/ Shuts(c)
ReadData(c) == Reads(c) \/ ReadsEnd(c)

Next ==
  \/ \E c \in Client : \/ Accept(c) \/ Task(c) \/ Connects(c) \/ WriteData(c)
                       \/ ReadData(c) \/ Finishes(c) \/ ConnectionBreaks(c)
  \/ AcceptFails

(* The runtime polls every task it has woken, and the clients that are not *)
(* idle go on.                                                             *)
Fairness ==
  /\ \A c \in Client : WF_vars(Accept(c)) /\ WF_vars(Task(c))
  /\ \A c \in Client \ Idle :
       WF_vars(WriteData(c)) /\ WF_vars(ReadData(c)) /\ WF_vars(Finishes(c))

Spec == Init /\ [][Next]_vars
FairSpec == Spec /\ Fairness
-----------------------------------------------------------------------------
(* What a client has received is at every moment the beginning of what it  *)
(* has written, through partial reads and writes on four sides, and also   *)
(* after resets and the end of the server.                                 *)
EchoIsPrefix == \A c \in Client : IsPrefix(received[c], SubSeq(data(c), 1, written[c]))

(* While nothing fails the check of main.rs:86-101 never prints FAILED, no *)
(* client ends with an error, no task panics and the server stays: a task  *)
(* closes after it has written everything back, and the client after it    *)
(* has read it, so that neither close meets bytes that were not read.      *)
PassesUnlessFault ==
  faults = 0 =>
    /\ server = "listening"
    /\ \A c \in Client : result[c] \in {"none", "PASS"} /\ task[c] # "panicked"

(* Every client that goes on finishes, with more data than the buffers and *)
(* connections hold, and with others that do not go on; and its task ends. *)
ClientFinishes ==
  \A c \in Client \ Idle :
    write_data[c] # "none" ~> result[c] # "none" /\ ~Running(c)
=============================================================================
