# TLA+ verification of the enclave network gateway

The gateway carries TCP connections of an application into an enclave. Packets
are captured by an **ENTA** on the client's host, forwarded by an **ENTG** to
the **ENTG** of the server, and replayed by the **ENTA** on the server's host:

    app - TUN - ENTA --tcp or rats-tls-- ENTG --tcp or rats-tls-- ENTG --tcp or rats-tls-- ENTA - TUN - app

This directory holds TLA+ models of these programs, the TLC configurations that
check them on small instances, and TLAPS proofs of the results that hold for
every instance. Line numbers below refer to the sources in the repository.

## 1. Inventory

| component | source | state | operations |
|---|---|---|---|
| rats-tls session | `rats-tls/src/lib.rs` | handle and socket in an `Arc`, a duplex pipe pair, the buffers of two blocking threads | `new`, `negotiate_async`, the negotiation task, the writer task, the reader task, dropping |
| ENTA packet exchange | `enta/src/main.rs`, `enta/src/capture/tun.rs` | two `mpsc` channels, four loops | `from_tun`, `to_tun`, `from_entg`, `to_entg`, two inner `select!`, `join!`, Ctrl-C |
| ENTA process life | same files | the host's netfilter and routing rules, the TUN device | connect, `setup_tun`, `setup_netfilter`, exchange, `clean_up` |
| ENTG process | `entg/src/main.rs` | two futures and two `Option<stream>`, two `io::copy` buffers | wait, connect or listen, upgrade, forward |
| framing | `LengthDelimitedCodec` in `enta/src/main.rs` | encode and decode buffers, the length of the frame begun | send, flush, read, decode, end of stream |
| gateway chain | all of these, connected | two ENTA, ENTGs between them, the links | forwarding end to end, ending together |
| librats_tls binding | `rats-tls/src/ffi.rs` | none (generated declarations) | - |
| echo server | `examples/echosvr` | an accept loop, a task per connection, a client's two futures | connect, send, receive, accept, echo, close |

How they interact. ENTA and ENTG use a connection only through `AsyncRead` and
`AsyncWrite`; it is a `TcpStream` or the `DuplexStream` that `negotiate_async`
returns. `negotiate_async` has two OS threads behind the duplex, because
librats_tls blocks; they talk to the same two threads of the peer process over
TCP. In ENTA the loops of one process talk through bounded channels. ENTA
processes of one host, and the same process before and after a restart, talk
through the host's rule tables, which nobody owns. A process ends when its
`main` returns *and* the blocking threads of its runtime have ended.

What is hard here, and what makes each part correct:

* **rats-tls session.** Up to five parties at each end drop their share of the
  handle and socket in any order; a chunk is transmitted in parts of any size;
  the end of a stream passes through four buffers and two threads; nothing can
  be cancelled. Correct means: order and completeness of the byte stream, no
  use of a handle after its cleanup, one cleanup per handle, and both processes
  able to exit.
* **ENTA exchange.** Each `select!` drops a loop at its await point. Correct
  means: no packet vanishes between two running loops, packets keep their
  order, nothing stops without a cause, and everything stops when there is one.
* **ENTA life.** Rules outlive a process. Correct means: a running ENTA has
  its rules in place, an ENTA that exited left none, and kills do not
  accumulate damage.
* **ENTG.** Two futures complete in any order, with errors. Correct means: no
  panic, no byte lost or reordered while both peers are there, the end of one
  peer ends the process after that peer's bytes are forwarded.
* **Framing.** Writes, reads and the end of the stream cut frames anywhere, and
  a `select!` may drop the sender inside one. Correct means: whole packets in
  order, at most the packet in flight is lost, and no decoder that waits for
  the rest of a frame that will not come.
* **Chain.** Each process reacts to the end of its neighbours by dropping both
  of its connections. Correct means: the far device gets a prefix of what the
  near one gave, all of it after an orderly end, and all processes end, however
  full the chain is.
* **Echo server.** Partial reads and writes on four sides and back-pressure
  both ways. Correct means: what comes back is what was sent, the client's
  check passes unless something failed, and clients do not hold each other up.

The full list of hazards, each with its line and the properties about it, is in
`PROJECT.json`.

## 2. Modules

| module | models | role |
|---|---|---|
| `DuplexLink` | what a connection promises | abstract specification |
| `Forwarder` | what a process between two connections promises | abstract specification |
| `RatsTlsSession` | both ends of a rats-tls connection | implements `DuplexLink` |
| `RatsTlsSessionProofs` | - | theorems about `RatsTlsSession`: types, handle, order, the end comes last, implements `DuplexLink` |
| `StreamLemmas` | - | lemmas about streams cut, moved and compared, for the modules below |
| `EntaExchange` | `run` of ENTA once connected | implements `Forwarder` |
| `EntaExchangeProofs` | - | theorems: nothing vanishes, causes, implements `Forwarder` |
| `EntaHost` | `main`, set-up and clean-up of the ENTA processes of a host | component |
| `EntaHostProofs` | - | theorems: rules in place, clean exit, leftovers, restarts |
| `Entg` | an ENTG process | implements `Forwarder` |
| `EntgProofs` | - | theorems: no panic, order, causes, implements `Forwarder` |
| `Framing` | the codec of `exchange_with_entg` over a byte stream | implements `DuplexLink`, packets for bytes |
| `FramingProofs` | - | theorems: the header, whole packets in order, implements `DuplexLink` |
| `Gateway` | the established chain | composes `Forwarder`s and `DuplexLink`s |
| `GatewayParts` | - | the refinement: the parts of `Gateway` as instances |
| `GatewayProofs` | - | theorems: end to end, causes, never stuck, each part is what it should be |
| `EchoSvr` | the echo server and its clients | component |
| `EchoSvrProofs` | - | theorems: the echo is right, nothing is blamed without a fault |
| `MC*` | - | constants for TLC |

How they fit together. A program is modelled in detail and shown to implement a
short abstract specification; the chain is built of the abstract ones.

    RatsTlsSession => DuplexLink  (proved)        |
    Framing        => DuplexLink  (proved)        |   Gateway = n Forwarder + n - 1 DuplexLink
    EntaExchange   => Forwarder   (proved)        |   (PartsSpec, proved part by part
    Entg           => Forwarder   (proved)        |    and checked as a whole)

`PartsSpec` (in `GatewayParts`) says that every step of `Gateway` is, for each
process and each link, a step of its abstract specification or a stutter: in the
chain no part does what its abstract specification forbids. It does not say the
converse, that every step of a program has its counterpart in the chain; that is
by construction (each way in which a side stops in `EntaExchange` or `Entg` is
an action of `Gateway`, see below). The unit of `Gateway` stands for a byte or a
packet; `Framing` relates the two.

Operators whose comment begins with *Mutant of* are variants of the definition
that follows, each with a plausible mistake in it. No specification uses them;
they show that a property can fail (see section 5).

### RatsTlsSession (`lib.rs:56-309`)

The two ends run the same code, so all variables are functions of the end.
`caller` is the asynchronous code (the one that awaits `negotiate_async`, later
the application that uses `s2`), `negotiation` the first blocking task,
`writer` and `reader` the two threads, with the buffers `outPipe` and `inPipe`
(the duplex), `wbuf` and `rbuf` (the threads' `buf`) and `wire` (what TCP
holds). `holders[e]` is the set of clones of the `Arc`; `DropClone` is the drop
of one, and the last one runs `rats_tls_cleanup` and closes the socket.

| code | actions |
|---|---|
| `RatsTls::new` 79-126, `into_std` 130-134 | `NewSession`, `NewFails` (with the three error paths) |
| negotiation task and its await 138-152 | `Negotiate`, `NegotiateReturns`, `AppDrops` in stage `awaiting` |
| writer task 169-189 | `WriterRead`, `WriterReadsEof`, `WriterTransmit`, `WriterTransmitFails`, `WriterCloses`, `WriterReleases` |
| reader task 193-217, `ShutdownOnDrop` 265-309 | `ReaderReceive`, `ReaderReceiveFails`, `ReaderWrite`, `ReaderWriteFails`, `ReaderCloses`, `ReaderReleases` |
| the user of `s2` (`copy` of ENTG, `Framed` of ENTA) | `AppWrite`, `AppRead`, `AppReadsEof`, `AppDrops` |

Three remarks. A handshake succeeds only with a peer that takes part in it, and
fails when the peer refuses or is gone, or by a failure of the library; with a
peer that stays silent `Negotiate` is not possible at all, since `negotiate`
has no time limit (143). `AppWrite` moves one byte: several bytes at once is several steps.
`s1` is dropped when both of its halves are, so a reader that has stopped does
not make writes to `s2` fail while the writer goes on (`S1Dropped`).

`DuplexLink` is what forwarding code relies on: two streams read in order, and
an end of stream that, on an undisturbed link, comes after everything. The
refinement mapping maps `ended` to the application's stage and `disturbed` to
"the connection was reset or something failed".

### EntaExchange (`main.rs:74-191`, `tun.rs:122-174`)

The two directions are symmetric; `reader[d]` is `from_tun` or `from_entg`,
`writer[d]` is `to_entg` or `to_tun`. `ReaderEnds` and `WriterEnds` contain
what the `select!` does as soon as one branch completes: the other loop of the
task is dropped in the same step, with the packet it holds. After an error
`Framed` gives `None`, so `Some(Err(_))` followed by `None` is one step
(`ReaderFinishes`). A packet is a number; the TUN device takes any packet at
once, the stream to ENTG has a capacity.

As a `Forwarder` (`Chain`), a packet is taken once its channel has accepted it,
so that a side takes nothing when the task of the other side has ended, and a
side is the task of a device. A side that ends since its channel is exhausted is
"drained", which obliges it to have given everything away; one whose send is
refused is "cut".

### EntaHost (`main.rs:55-132`, `tun.rs:13-120`)

Each line of a script is a step, taken by the process in the stages `setup`
and `cleaning`. `ip rule add` and `ip route add` fail on what exists,
`iptables -A` does not. The TUN device, and with it the routes through it,
vanishes when the process closes it (`DeviceGoes`), which is when `run`
returns, before `clean_up`. `options` is the command line of each process,
chosen at the beginning from `Options` and the same at every start. Mishaps, each bounded: a kill at any point, with or
without the shell (`Killed`, `ShellOutlives`, `OrphanLine`), SIGINT before
`ctrl_c()` is polled (`InterruptedEarly`), a set-up line that fails, a clean-up
line that fails (`CleanLineFails`), a clean-up that stops at any line
(`CleanUpFails`: a second Ctrl-C goes to its shell, too).

### Entg (`entg/src/main.rs:46-181`)

`task[l]` is the future of a leg, `stream[l]` the variable of `main`. A future
runs only while `main` polls it (`Polled`); `Selected` is the `select!` that
takes a result, and goes to `panicked` if the future had been consumed before.
The command line is a choice: `Init` lets the leg to the peer ENTG listen or
connect, and an accepted connection is upgraded or not (`HasConnection`). The
upgrade to rats-tls is one step (`Upgrades`), `RatsTlsSession` has the detail;
with a peer that has connected and stays silent it may never come (section 4).
`TaskFails` is the `?` of each await: bind, accept, connect or the upgrade may
fail by itself. `CopyEnds`
is the end of the second `select!`, with the other copy dropped. As a
`Forwarder`, what is in a copy's buffer is taken, and both sides close together.

### Framing (`enta/src/main.rs:134-191`)

The stream between the two ENTA, for which the gateways in between are one
stream of bytes, and the two ends of it. `Sends` encodes a packet into `wbuf`,
`Flushes` moves any part of it into `pipe`, `Fills` reads any part of that,
`DecodesHeader` and `DecodesPacket` are the two states of the decoder (`need`).
Bytes are numbers below `Base` and a length is `HeaderLen` of them, big-endian,
so a decoder that is off by one meets real wrong lengths. A packet has to fit:
`Fits(n)` says that nothing is left of n after its last `HeaderLen` digits
(`Shifted`), the run checks that this is `n < Base ^ HeaderLen`, and
`HeaderIsUnique` says that no other length has a header. The select! is
`ExchangeEnds`: an end that has stopped neither writes nor reads, whatever is in
its buffers. `ReadsEof` is the end of the stream: `None`, after an error if
bytes are left over (`HowEnded`). The codec itself is a library, its
definitions are marked external.

### Gateway (the processes above, `entg/src/main.rs:74-89`, `enta/src/main.rs:74-94, 134-191`, `tun.rs:122-174`)

Processes 1 and `LastProc` are ENTA, those between them ENTG: two as in the
picture above, or one, when both ENTA connect to it (an ENTG without
`--entg-connect` listens on both legs, `entg/src/main.rs:153`). `in[p][s]` and
`out[p][s]` are what process p took from and gave to its side s, so that what a
link holds is the difference of the histories at its two ends. A side stops in
one of these ways:

| action | code |
|---|---|
| `Ends` | a read gives the end of a link (`from_entg` gets `None`, `io::copy` returns) |
| `Fails` | a read or a write fails, on a link that was reset or whose other end is closed |
| `Drains` | the other task of an ENTA has ended, and the channel is empty (`recv` gives `None`, `main.rs:154`, `tun.rs:139`) |
| `Refused` | the other task of an ENTA has ended, and a packet that has just been read is refused by its channel (`main.rs:167-173`, `tun.rs:153-158`) |
| `TunEnds`, `TunFails` | the TUN device goes, at any time, or fails to take a packet |
| `Dies` | the process is interrupted or killed |

`Drains` and `Refused` race: the `select!` drops `to_entg` with the packets
still in the channel when `from_entg` is refused first (`main.rs:185-188`), and
the same at the TUN device. It is also what brings down a chain that is full in
both directions, where nothing can drain. `Closed` holds the other difference between
the programs: the `select!` of an ENTG drops both connections, that of an ENTA's
task one side. Causes from outside are a TUN device that ends, and,
bounded by `MaxFaults`, a process that dies, a device that refuses a packet or a link that
fails. A socket closed with unread units may reset its link (`Resets`), which is no
cause of its own; it need not, since a refused unit had been read.

### EchoSvr (`examples/echosvr/src/main.rs:41-134`)

`task[c]` is the spawned task of the connection of client c, `write_data` and
`read_data` are the client's two futures, with the code's names. The server's
`?` in the accept loop (`ServerEnds`) drops all tasks with the runtime, and the
`unwrap` of the task's last line panics on a connection that was reset
(`TaskCloses`). The data of a client is numbered; its length, one for each
client, and the size of the server's buffer are constants, since "Hello world" and 1024 make neither a
partial read nor back-pressure likely.

## 3. Runs

All runs have `CHECK_DEADLOCK FALSE`: every one of these programs is meant to
stop. Whether it stops where it should is the subject of the liveness properties.

| run | bounds | what it shows |
|---|---|---|
| `SessionSafety` | payloads of 3 and 1 bytes, all buffers of 2, both applications may drop, 1 fault | types, order, completeness at end of stream, handle discipline, refinement of `DuplexLink` |
| `SessionShutdown` | payloads of 2 and 3 bytes, all buffers of 1, only the client drops by itself, 1 fault | all threads finish once one application is gone, unless the peer is silent in the handshake or the fault made the back-pressure mutual; every byte arrives while none is gone |
| `SessionWedge` | 3 bytes each way, all buffers of 1, both may drop, no fault | the only ways to hang are mutual back-pressure and a silent peer, and the first takes two applications that both dropped their streams |
| `SessionReaderComment` | buffers of 1, no fault | violated: a reader stops without its peer's shutdown |
| `Exchange` | channels and stream of 1, 4 and 3 packets, either device may break, Ctrl-C | nothing vanishes, order, a drained writer has sent everything, no stop without cause, `run` returns when a device has gone, packets get through, implements `Forwarder` |
| `Host` | two ENTA, one capturing and one replaying, or one doing both and one neither; 6 starts, 2 kills, 1 of each other mishap | rules in place while running, the two do not disturb each other, clean exit, leftovers bounded, restarts recover |
| `HostCtrlC` | one ENTA with both options, one without, 2 starts, one early Ctrl-C | violated: an early Ctrl-C leaves rules |
| `Entg` | listening twice or connecting to the peer, each leg over TCP or rats-tls, 5 and 3 bytes, buffers and streams of 2, 1 fault | no panic, relay in order, closing is forwarded, ends with a peer, starts when both are there, implements `Forwarder` |
| `Gateway` | 4 processes, links and hands of 1, 2 and 1 units, both TUN devices may end, 1 process, device or link may fail | prefix at the far end, everything after an orderly end, no stop without cause, never stuck half open, the parts are `Forwarder`s and `DuplexLink`s |
| `GatewayFull` | 3 processes, links and hands of 1, 5 units each way, all under way at the start; both TUN devices may end, 1 process, device or link may fail | of a chain full both ways, every unit arrives unless something goes, and then all processes end |
| `Framing` | bytes are bits, a length of 2, packets of 3, 0, 1 and 1 bytes, a stream of 2, both ends may leave, 1 fault | whole packets in order, an end costs one packet, packets come through, both exchanges end, implements `DuplexLink` |
| `EchoSvr` | 2 clients, one may stop, data of 9 and 1, buffer 2, connection 3 each way, 1 fault | echo is a prefix, passes unless something failed, the other client finishes and its task ends |

Why the bounds are enough. The buffers are smaller than what passes through
them, so each is full and empty at some time, chunks are split (where
capacities are 2), and writers wait for readers. Where back-pressure through
several buffers matters they are all full at once: 3 bytes are one in the hands
of a reader, one on the connection and one in a writer that then blocks, which is what mutual
back-pressure takes of each direction (2 suffice of the other one when its
reader has failed before the first byte); the 9 bytes of an echo client exceed
what its connection (3 each way) and the server's buffer (2) hold together; and
the 4 packets of `Exchange` fill both hands, the channel and the stream. A chain
of three processes has five places in each direction, and `GatewayFull` begins
with all of them taken, both ways (`Full` in `MCGateway`). `Init` reaches this
state, by 5 units from each device that go as far as they can; to begin there
leaves out only how it fills. `Gateway` has a fourth process with fewer
units. What neither run covers, full chains of four processes and longer ones,
is covered for the safety part by the theorems (`ChainNeverStuck` among them).
One failure is enough because a failed connection stays failed;
in the chain the ends of the two TUN devices come on top of it, so that a
process goes while the end of another is on its way. In `Framing` every
packet and every frame is cut at every place, a packet's bytes look like a
header, and the empty packet is a header alone. Six starts leave room for both
kills, the early Ctrl-C, the failing lines and undisturbed lives after or between
them. The bounds on failures, starts, bytes and packets are the constants
`MaxFaults`, `MaxMishaps`, `MaxStarts`, `Payload`, `Packets`, `MaxUnits`,
`MaxBytes`, `DataLen` and `MaxPackets`.

Type invariants are properties of the runs of `RatsTlsSession` and
`EntaExchange`. The other modules are pinned down by their refinements and
histories; the types that the proofs about them need are stated in the modules
of the proofs, or proved (`TypeOK` of `Entg`, like `GivesUpForCause` there, is a
theorem and no run checks it).

Symmetry is not used: the ends, directions, legs, sides and clients differ in
their constants, and most runs check liveness.

### What the violated runs say

* `ReaderRunsUntilPeerShutdown`. `lib.rs:163` says the reader task keeps
  running until the peer shuts its writer down. It also stops when its own
  application has dropped `s2` and one more chunk arrives (`lib.rs:199-201`).
  The comment is right for an idle peer: a reader blocked in `receive` stays.
* `CleanExitOnCtrlC`. `main.rs:67` promises a clean-up before the program
  exits. Ctrl-C is handled only from the moment `ctrl_c()` is first polled
  (`main.rs:92`); before, the signal kills the process.

## 4. Fairness

Weak fairness only, and only of what the runtime schedules:

* blocking threads are OS threads (`WriterStep`, `ReaderStep`, `Negotiate`),
  and fairness is only of their steps that are not failures (`faults' = faults`),
  so that no property holds because something had to fail;
* futures are polled when they are woken (`AppStep`, the loops of ENTA, the
  tasks and copies of ENTG, `Joined`, `StartForwarding`, `to_entg`, `from_entg`
  and `Fails` of `Framing`, `Take`, `Put` and `Stops` of `Gateway`, the tasks
  and futures of `EchoSvr`). In `Gateway` this is narrowed to where a loop has
  to go on (`MustTake`, `MustStop`): a reset link is noticed by a loop that
  reads it, having room, or writes to it, not by one that waits for its channel;
  and whether a TUN device gives another packet, to be taken or refused, is
  not assumed. In `Entg` it covers what a future does by itself (`Proceeds`), not the
  end of the handshake with a peer that is connected and says nothing:
  `StartsForwarding` has this as its exception.

No application has to write or to drop, no device has to break, no packet has
to arrive, no peer has to come or to start a handshake, no echo client of `Idle`
has to go on. Two assumptions concern the other side and should be known: the
user of a session goes on reading `s2` while it holds it (`copy` and `from_entg`
do; back-pressure behind them is not in this module); and the peers of
`EntaExchange` and `Entg` read what they were sent (`EntgReads`, `PeerReads`).
`Gateway` needs neither: there the reader of every link is a process of the
model, and only the TUN devices are assumed to take what they are given.

## 5. Mutants

For each property `PROJECT.json` names one mutant: a definition of the code and
a variant of it with a plausible bug, such as `try_send` for `send`, `write`
for `write_all`, `join!` for `select!`, an `Arc` clone that is missing or
leaked, a script without a line, `run(args).await?` before `clean_up`, a
length read in the wrong byte order, an end of stream that is seen before the bytes in
front of it. With the variant in place TLC finds the property violated.

## 6. Proofs

The theorems hold for all payloads, capacities, numbers of packets, clients,
processes, starts and failures. The assumptions are those on the constants:
`SessionAssumption`, `ExchangeAssumption`, `EntgAssumption`, `GatewayAssumption`,
`FramingAssumption`, `HostAssumption`, `OneOfAKind` (section 7) and
`EchoAssumption`, which TLC evaluates in every run of the module.

All proofs have the same shape. An action that moves data gets a lemma that says
what it does in terms of whole pieces (`...Facts`); the step of an invariant has
one case per action and uses these lemmas instead of the definitions; a theorem
combines the invariants with `PTL`.

`RatsTlsSessionProofs`:

* `TypeCorrect`: `Spec => []TypeOK`, by itself inductive. The content is that
  no pipe or buffer outgrows its capacity.
* `NeverUsedAfterCleanup` and `AlwaysReturned`: from the invariant `ArcInv`.
  `NoUseAfterCleanup` is not inductive: that the handle is live while a thread
  is at work does not say that the thread's clone keeps it alive when somebody
  else drops theirs. `ArcInv` adds exactly that: each clone is held if and only
  if its holder is at work, and the handle is live if and only if somebody
  holds a clone. `ArcStep` has one step per action.
* `AlwaysInOrder`: from the invariant `FlowInv`. That `got` is a prefix of
  `sent` says nothing about the bytes under way. `FlowInv` says that `got`,
  the reader's pipe, the reader's buffer, the connection, the writer's buffer
  and the writer's pipe are, in this order, consecutive slices of `sent`
  (`Chain`), and that a thread that waits for new bytes has an empty buffer.
  Every action moves a piece from the front of one slice to the end of the
  slice before it: `SliceMove` is that fact about sequences, `ChainMoves`
  applies it to the five places, and `FlowStep` uses it once per action. It
  needs `ArcInv` for the start of the threads, whose buffers must be empty.
* `AlwaysComplete`: `Spec => []EofMeansComplete`. That an application has read
  an end of stream says nothing about how the end came to it. `EndInv` follows
  the end backwards, as long as nothing failed and no connection was reset: a
  writer that has left its loop, or a socket that sent its end, has nothing
  left of what its application wrote, and a reader that has left its loop on
  behalf of a live application has emptied the connection and its buffer.
  `StageInv` adds that the end is read from an empty pipe. With `FlowInv` all
  slices between `got` and the end of `sent` are then empty. The delicate step is
  the drop of the last clone, which ends the stream for the peer
  (`DropCloneFin`): by `ArcInv` it is taken by the slower of the two threads,
  and by `EndInv` the writer has drained its pipe by then.
* `OneReaderSuffices`: `Spec => []WedgeTakesBoth`. `EndInv` says why a reader
  has stopped, as long as nothing failed: its application has gone, or the peer
  has shut its socket. `BusyInv` adds that a writer in `transmit` has not, and
  that its application, if gone, went by itself. In mutual back-pressure, with
  both writers in `transmit`, only the first reason is left, at both ends.
* `ImplementsLink`: `Spec => LinkSpec`. There is one lemma per kind of step;
  reading uses order (`InOrderDelivery'`), reading the end uses completeness
  (`EofMeansComplete'`), and everything the threads do is a stutter or a
  disturbance of the link.

`EntaExchangeProofs`, for all capacities and numbers of packets
(`ExchangeAssumption`):

* `ExchangeTypeCorrect`: no channel or stream outgrows its capacity, no loop
  holds two packets.
* `AlwaysAccounted`: `Accounted` alone is not inductive, a step that takes a
  packet must not overwrite one. `HandsInv` says that a loop that waits holds
  none. `SendSeam`, `PutSeam`, `ReadSeam` and `RecvSeam` are the four moves of
  a packet as facts about sequences.
* `AlwaysDrained`: what `HandsInv` says of a writer that drained its channel
  makes two of the pieces of `Accounted` empty. It stays so because a reader
  whose receiver is gone is refused.
* `AlwaysForCause`: while no device has gone and nobody interrupted `run`, all
  four loops live, so that none of them can be refused or find its channel
  finished.
* `ExchangeImplementsForwarder`: `Spec => ChainSpec`. `TaskInv` says that the
  two loops of one task live together (the `select!`), which is why a side of
  the `Forwarder` closes in one step, and that a loop on its way to give a
  packet has one. Each action is a take, a give, an end or a drain of the
  abstract process, or a stutter; that a drained side had given everything is
  `AlwaysDrained` at work.

`EntgProofs`, for all buffers, streams and amounts of data (`EntgAssumption`):

* `TypeCorrect`: the copies' buffers and the streams stay within their
  capacities.
* `NoPanic`: `SetupInv` adds to `NeverPanics` that, while `main` waits, it has
  the stream of exactly those legs whose future has been consumed. A future that
  is polled is then never a finished one, and the loop ends with both streams.
* `AlwaysRelayed` and `AlwaysForwarded`: `CopyInv` says that a copy that reads
  has an empty buffer (`write_all` of the copy has finished), that one which read the end
  found the peer gone and the stream empty, and that the two copies run
  together. Without it a read could overwrite bytes, and the end of a stream
  could overtake the bytes in front of it.
* `AlwaysForCause`: `CauseInv` relates each visible failure to what made it:
  a broken peer to a fault, a connection in use to a peer that came, a failed
  future to a fault or a peer that is not there.
* `ImplementsForwarder`: `Spec => ChainSpec`, with one lemma per kind of step.
  What a copy has read is taken, so that a read of several bytes needs the facts
  on prefixes of `StreamLemmas`.

`GatewayProofs`, for chains of any length from three processes on, all
capacities and amounts (`GatewayAssumption`):

* `AlwaysEndToEnd`: `FlowInv` is the chain of prefixes from one device to the
  other: what a process has given is a prefix of what it took, and what it took
  a prefix of what its neighbour gave, with equality where an end of stream was
  read or a channel drained. The claims about the far device follow by induction
  along the chain: `Hop(s, k)` is the k-th process from side s, and the set of
  the k for which the claim holds has 0 and with k its successor (`Induction` of
  `StreamLemmas`, from the library's `WFMin`, since the induction
  theorems have an operator for a parameter).
* `StopsForCause`: `ChainStopsForCause` is inductive with `FlowInv`, by which
  whatever closes a side has a neighbour, or another side, that is closed
  already, unless it is a device that ends or a failure.
* `ChainNeverStuck`: `Spec => []NeverStuck`, from `FlowInv`. Assume that no loop
  can go on (`AllWait`). Then nobody holds anything (`NobodyHolds`): the process that
  faces the device has nothing to give, or it could, and each process behind
  it waits for the next one only (`WaitsForNext`), by induction along the chain. So every
  hand has room, both sides of a process are open or closed together, since else an ENTA
  would drain (`BothSides`), and so are both ends of a link that is whole, since
  else one would read its end (`BothEnds`). Hence all is open or all is closed,
  and no link between open sides was reset.
* `EachProcessForwards` and `EachLinkDelivers`: for an arbitrary process
  `ThisProc` and an arbitrary link `ThisLink`, the chain implements the
  `Forwarder` and the `DuplexLink` of that part. Together they are `PartsSpec`,
  whose instances with parameters (`Proc(p)!Next`) `tlapm` does not expand.

`EntaHostProofs`, for any number of processes, ports, starts and mishaps
(`HostAssumption`), at most one of the processes capturing and at most one
replaying (`OneOfAKind`):

* `ScriptInv`: a script that runs consists of lines of the set-up or the
  clean-up of its process, and no line comes twice; the device is there exactly
  during set-up and run. `StepMoves` sorts all steps of a process into four
  kinds: it goes on to its next stage (`Goes`), `run` returns (`Returns`), a
  line takes effect (`Runs`), or a mishap happens (`Suffers`).
* `HostInv` says for each kind of rule how many there are. `Added` is "the line
  that adds it has run in this life", `Holds` "added and not yet removed by the
  clean-up", `Adds` "may still be added by the orphaned shell". A rule that its
  process does not hold is paid for by a mishap, and one that an orphaned shell may still
  add is paid for in advance. A restart needs no mishap to pay for what it
  finds, since the set-up that is refused is followed by a clean-up which removes it.
  `OneOfAKind` makes the other processes leave these rules alone
  (`OtherMoves`).
* `AlwaysCaptured`, `AlwaysCleanExit`, `AlwaysBounded` and `AlwaysRecover` follow from
  `Inv`, the conjunction of these.

`EchoSvrProofs`, for any number of clients (`EchoAssumption`):

* `AlwaysEchoes`: `Books` says that what a client received, what is on the way
  down, what its task holds and what is on the way up are together what the
  client has written. `IdleInv` adds that a task that reads holds nothing.
* `AlwaysPasses`: `QuietInv` holds while nothing failed. It follows the end of
  a client's data through the connection: a task closes after it has read
  everything and holds nothing, and the client reads its end after that, so that
  `Books` leaves nothing between `received` and the data.

`FramingProofs`, for every base and length of the header, all packets that it
can announce and every capacity of the stream (`FramingAssumption`):

* `HeaderSurvives` and `HeaderIsUnique`: the encoder's digits and the decoder's
  number are inverse to each other, so that the lengths that fit are exactly
  those that `HeaderLen` bytes can say. Both are recursive functions on
  `0 .. HeaderLen`. That such a function exists (`RecursiveExists`) and what it
  yields is shown by induction over the set of the places for which the claim
  holds (`Induction`).
* `AlwaysDecodes`: that the packets received are a prefix of those sent says
  nothing about the bytes under way, of which a decoder may hold half a header.
  `FlowOK` says, for each direction, that decoder's buffer, stream and sender's
  buffer together are what is left of the stream of frames behind the last packet
  received (`Tails`, `Decodes`), or behind its successor's header when the decoder
  waits for a packet; and that the sender's buffer is a part of the last frame.
  Bytes that are flushed or read move a cut inside this (`Moved`), a packet that
  is sent appends a frame to all tails (`DecodesMore`), and `TakeOff` takes a
  header or a packet off the front (`DecodesHeaderFacts`, `DecodesPacketFacts`).
* `AlwaysIntact`: `Spec => []FramesIntact`. `DecodesStuck` is the step that
  matters: a decoder that has all bytes which left its peer, and finds neither a
  header nor a packet among them, has received everything, or everything but
  the packet whose frame the peer did not finish. `EndInv` keeps what held
  at that moment, since neither end moves after it.
* `FramesImplementLink`: `Spec => PacketLinkSpec`. A packet sent is written, a
  packet decoded is read, and bytes that move are stutters. An end of stream
  without all packets needs a disturbance: by `EndInv` a peer whose frame
  is unfinished has not met the end of the stream itself, so it left or failed.

Only model-checked are

* all liveness properties (`AllDelivered`, `OnlyBackpressureWedges`,
  `RunReturns`, `AllForwarded` and those of ENTG, of
  the chain, of the framing and of the echo server): the prover handles neither
  fairness nor `ENABLED`;
* `PartsSpec` as one formula (proved part by part, see above);
* that `Fits` is the bound `Base ^ HeaderLen` (the prover knows no powers;
  `HeaderIsUnique` says the same without them).

Every other property of the passing runs is a theorem.

## 7. Limits

* *Two capturing ENTA on one host* are excluded (`OneOfAKind`). Table 8 and
  its rules are shared, so the clean-up of the second would take them from the
  first. Nothing in the documents says that this is supported.
* *An orphaned shell* is assumed to have finished before the process is
  started again; a start that overlaps with it is not modelled.
* *librats_tls* is a stream with partial transfers and failures. Whether it may
  be called from two threads at once, and calls that succeed with length 0, are
  questions about the library.
* *A silent peer* in the handshake keeps a process in its runtime for ever
  (`SilentPeer`, an exception in `OnlyBackpressureWedges`), as mutual back-pressure
  does (`MutualBackpressure`, the other one), and so does a blocking
  read of an idle connection (the code comments say so, `lib.rs:159-165`).
* *A peer that vanishes without a word* (no FIN, no RST) is noticed by nobody:
  the programs have no timer and set no keepalive. The models' liveness is for
  ends and failures that the network reports.
* *Starting the chain* is in `EntaHost` (host set-up), `Entg` (both legs, any
  order) and `RatsTlsSession` (the handshake), not in `Gateway`, which begins
  when all processes forward.

### Not modelled

* `rats-tls/src/ffi.rs` is generated by bindgen: constants, struct layouts and
  `extern` declarations without control flow. What the functions do is modelled
  from their use in `lib.rs`.
* `rats-tls/build.rs`, `entg/build.rs`, `enta/build.rs`, the Dockerfile, the
  Occlum scripts and the documents have no state while the programs run.
* The parsing of arguments, logging, and the options given to librats_tls.

## 8. Plan

1. `RatsTlsSession` with `DuplexLink` and its theorems (done).
2. `EntaExchange` with its theorems, `EntaHost`, `Entg` (done).
3. `Framing`, `Forwarder` and its two refinements, `Gateway`, `EchoSvr` (done).
4. Proofs about `Entg`, `Gateway`, `EntaExchange`, `EntaHost`, `EchoSvr` and
   `Framing` (done).

What would come next depends on others: the contract of librats_tls (section 7)
when it is written down, and the time limits and keepalives that the programs do
not have.
