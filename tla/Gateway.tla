------------------------------ MODULE Gateway ------------------------------
(***************************************************************************)
(* The chain that tunnels the IP packets of one host to another one:       *)
(*                                                                         *)
(*   TUN - ENTA 1 -- link 1 -- ENTG 2 -- link 2 -- ENTG 3 -- link 3 -- ENTA 4 - TUN *)
(*                                                                         *)
(* once it has been set up.  Each process is the Forwarder that the module *)
(* of its program was shown to implement (EntaExchange, Entg), each link a *)
(* DuplexLink (RatsTlsSession); here they run together, and end together.  *)
(* Units are numbered in the order in which they come from a TUN device.   *)
(***************************************************************************)
EXTENDS Integers, Sequences, SequencesExt

CONSTANTS
  LastProc,      \* number of processes: an ENTA at each end, ENTGs between them
  LinkCap,   \* units a link holds in one direction
  HandCap,   \* units a process holds in one direction
  MaxUnits,  \* MaxUnits[s]: bound on the units from the TUN device at side s
  MaxFaults  \* bound on the links and processes that fail

Procs == 1 .. LastProc
Links == 1 .. LastProc - 1
ENTAs == {1, LastProc}
Sides == {"left", "right"}
Other(s) == IF s = "left" THEN "right" ELSE "left"

ASSUME GatewayAssumption ==
  /\ LastProc \in Nat /\ LastProc >= 3
  /\ LinkCap \in Nat \ {0}
  /\ HandCap \in Nat \ {0}
  /\ MaxUnits \in [Sides -> Nat]
  /\ MaxFaults \in Nat

VARIABLES
  in,     \* in[p][s]: the units that process p took from its side s
  out,    \* out[p][s]: the units that p gave to side s, in order
  port,   \* port[p][s]: as in Forwarder
  reset,  \* the links whose connection was reset
  faults  \* links and processes that failed by themselves

vars == <<in, out, port, reset, faults>>

Beyond(p, s) == IF s = "left" THEN p - 1 ELSE p + 1
AtTun(p, s) == Beyond(p, s) \notin Procs
LinkOf(p, s) == IF s = "left" THEN p - 1 ELSE p
\* What waits to be taken at side s of p, and what the side across it is to get.
Facing(p, s) == out[Beyond(p, s)][Other(s)]
Held(p, s) == Len(in[p][s]) - Len(out[p][Other(s)])

\* Mutants of PeerGone and HasRoom: nothing to read for now counts as the end; one
\* buffer serves both directions in turn.
PeerGoneOrIdle(p, s) == TRUE
HasRoomForBoth(p, s) == Held(p, s) + Held(p, Other(s)) < HandCap

PeerGone(p, s) == port[Beyond(p, s)][Other(s)] # "open"

HasRoom(p, s) == Held(p, s) < HandCap

LinkHasRoom(p, s) == Len(out[p][s]) < Len(in[Beyond(p, s)][Other(s)]) + LinkCap

Init ==
  /\ in = [p \in Procs |-> [s \in Sides |-> <<>>]]
  /\ out = [p \in Procs |-> [s \in Sides |-> <<>>]]
  /\ port = [p \in Procs |-> [s \in Sides |-> "open"]]
  /\ reset = {}
  /\ faults = 0
-----------------------------------------------------------------------------
NextUnit(p, s) == Facing(p, s)[Len(in[p][s]) + 1]

Waiting(p, s) ==
  IF AtTun(p, s) THEN Len(in[p][s]) < MaxUnits[s] ELSE Len(in[p][s]) < Len(Facing(p, s))

\* Mutant of CanTake: the refusal of a unit is ignored, it just waits in the channel.
CanTakeAlone(p, s) == port[p][s] = "open" /\ HasRoom(p, s) /\ Waiting(p, s)

CanTake(p, s) ==
  /\ \A t \in Sides : port[p][t] = "open"
  /\ HasRoom(p, s)
  /\ Waiting(p, s)

(* io::copy or from_entg reads from a link, from_tun from the TUN device,  *)
(* and what it was read for, the copy's buffer or the channel, accepts it. *)
Take(p, s) ==
  /\ CanTake(p, s)
  /\ in' = [in EXCEPT ![p][s] =
              Append(@, IF AtTun(p, s) THEN Len(@) + 1 ELSE NextUnit(p, s))]
  /\ UNCHANGED <<out, port, reset, faults>>

CanPut(p, s) ==
  /\ port[p][s] = "open"
  /\ Held(p, Other(s)) > 0
  /\ ~AtTun(p, s) => PeerGone(p, s) \/ LinkHasRoom(p, s)

(* The other copy's write, to_entg or to_tun.  A link whose other end was  *)
(* closed may still accept a unit, which nobody reads.                     *)
Put(p, s) ==
  /\ CanPut(p, s)
  /\ out' = [out EXCEPT ![p][s] = Append(@, in[p][Other(s)][Len(@) + 1])]
  /\ UNCHANGED <<in, port, reset, faults>>

(* Mutant of Closed: join! in place of select! around the two copies.      *)
ClosedAlone(p, s, how) == [port[p] EXCEPT ![s] = how]

(* Side s of p closes.  The select! of an ENTG drops both its connections. *)
(* That of an ENTA's task drops the two loops of that side: the loops of   *)
(* the other side find one channel without receiver, the other without     *)
(* sender.                                                                 *)
Closed(p, s, how) ==
  IF p \in ENTAs
  THEN [port[p] EXCEPT ![s] = how]
  ELSE [port[p] EXCEPT ![s] = how,
                       ![Other(s)] = IF how = "ended" THEN "drained" ELSE "cut"]

Closes(p, s, how) ==
  /\ port[p][s] = "open"
  /\ port' = [port EXCEPT ![p] = Closed(p, s, how)]
  /\ UNCHANGED <<in, out>>

(* Mutant of AtEnd: the end of a link is seen before the units in it.      *)
AtEndEarly(p, s) == TRUE

(* Everything that was put into the link has been taken; an ENTG's copy    *)
(* has written it, too, before it reads again.                             *)
AtEnd(p, s) ==
  /\ in[p][s] = Facing(p, s)
  /\ p \notin ENTAs => Held(p, s) = 0

CanEnd(p, s) ==
  /\ port[p][s] = "open"
  /\ ~AtTun(p, s)
  /\ LinkOf(p, s) \notin reset
  /\ PeerGone(p, s)
  /\ AtEnd(p, s)

(* A read gives the end of a link that is whole.                           *)
Ends(p, s) == CanEnd(p, s) /\ Closes(p, s, "ended") /\ UNCHANGED <<reset, faults>>

CanFail(p, s) ==
  /\ port[p][s] = "open"
  /\ ~AtTun(p, s)
  /\ \/ LinkOf(p, s) \in reset
     \/ PeerGone(p, s) /\ Held(p, Other(s)) > 0

(* A read or a write fails: the link is reset, or its other end closed.    *)
Fails(p, s) == CanFail(p, s) /\ Closes(p, s, "cut") /\ UNCHANGED <<reset, faults>>

CanDrain(p, s) ==
  /\ p \in ENTAs
  /\ port[p][s] = "open"
  /\ port[p][Other(s)] # "open"
  /\ Held(p, Other(s)) = 0

(* The other task of an ENTA has ended, and the loop that it fed has sent  *)
(* all that was left in the channel: recv() gives None.                    *)
Drains(p, s) == CanDrain(p, s) /\ Closes(p, s, "drained") /\ UNCHANGED <<reset, faults>>

\* Mutant of IsRefused: the loop stays where it is, as on a channel that is full.
IsRefusedNever(p, s) == FALSE

IsRefused(p, s) ==
  /\ p \in ENTAs
  /\ port[p][s] = "open"
  /\ port[p][Other(s)] # "open"
  /\ Waiting(p, s)

(* The other task of an ENTA has ended, and the loop that fed it sends to  *)
(* a channel without receiver: it breaks, and select! drops the loop it    *)
(* shares its task with, with all that was left in the channel.            *)
Refused(p, s) == IsRefused(p, s) /\ Closes(p, s, "cut") /\ UNCHANGED <<reset, faults>>
-----------------------------------------------------------------------------
(* A TUN device goes, as each may at its own time.                         *)
TunEnds(p, s) == AtTun(p, s) /\ Closes(p, s, "ended") /\ UNCHANGED <<reset, faults>>

(* A process is interrupted or killed, a connection or a device fails.     *)
Fault == faults < MaxFaults /\ faults' = faults + 1

Dies(p) ==
  /\ \E s \in Sides : port[p][s] = "open"
  /\ port' = [port EXCEPT ![p] =
                [s \in Sides |-> IF @[s] = "open" THEN "cut" ELSE @[s]]]
  /\ Fault
  /\ UNCHANGED <<in, out, reset>>

(* The TUN device fails to take a packet.                                  *)
TunFails(p, s) ==
  /\ AtTun(p, s)
  /\ Held(p, Other(s)) > 0
  /\ Closes(p, s, "cut")
  /\ Fault
  /\ UNCHANGED reset

LinkFails(k) ==
  /\ k \notin reset
  /\ reset' = reset \cup {k}
  /\ Fault
  /\ UNCHANGED <<in, out, port>>

(* An end that was closed with units it has not read resets the link.  It  *)
(* may: a unit that was refused had been read.                             *)
Resets(p, s) ==
  /\ ~AtTun(p, s)
  /\ port[p][s] # "open"
  /\ in[p][s] # Facing(p, s)
  /\ LinkOf(p, s) \notin reset
  /\ reset' = reset \cup {LinkOf(p, s)}
  /\ UNCHANGED <<in, out, port, faults>>

Stops(p, s) == Ends(p, s) \/ Fails(p, s) \/ Drains(p, s) \/ Refused(p, s)

Next ==
  \/ \E p \in Procs :
       \/ Dies(p)
       \/ \E s \in Sides : \/ Take(p, s) \/ Put(p, s) \/ Stops(p, s)
                           \/ TunEnds(p, s) \/ TunFails(p, s) \/ Resets(p, s)
  \/ \E k \in Links : LinkFails(k)

(* Where a loop has to go on.  A failure is noticed by a loop that reads   *)
(* from the link, since there is room for more, or has a unit to write;    *)
(* what arrives at a TUN device, and what fails, comes when it will.       *)
MustTake(p, s) == ~AtTun(p, s) /\ CanTake(p, s)
MustStop(p, s) ==
  \/ CanEnd(p, s)
  \/ CanFail(p, s) /\ (HasRoom(p, s) \/ Held(p, Other(s)) > 0)
  \/ CanDrain(p, s)
  \/ ~AtTun(p, s) /\ IsRefused(p, s)

Fairness ==
  \A p \in Procs : \A s \in Sides :
    /\ WF_vars(MustTake(p, s) /\ Take(p, s))
    /\ WF_vars(Put(p, s))
    /\ WF_vars(MustStop(p, s) /\ Stops(p, s))

Spec == Init /\ [][Next]_vars
FairSpec == Spec /\ Fairness
-----------------------------------------------------------------------------
Unit == 1 .. (MaxUnits["left"] + MaxUnits["right"])

Near(s) == IF s = "left" THEN 1 ELSE LastProc
Far(s) == IF s = "left" THEN LastProc ELSE 1

Travelled(s) == \A p \in Procs : port[p][s] = "ended" /\ port[p][Other(s)] = "drained"

(* Whatever fails and however the chain goes down, the far TUN device is   *)
(* given what came from the near one, in order and without gaps: units are *)
(* lost only from the end of the stream.  And none is lost when the end    *)
(* has travelled down the whole chain as an end of stream, with no process *)
(* on its way that was cut, although select! dropped the copies of the     *)
(* other direction on the way.                                             *)
EndToEnd ==
  \A s \in Sides :
    /\ IsPrefix(out[Far(s)][Other(s)], in[Near(s)][s])
    /\ Travelled(s) => out[Far(s)][Other(s)] = in[Near(s)][s]

(* Nothing stops while no device, link or process has gone.                *)
SomethingWent == faults > 0 \/ \E s \in Sides : port[Near(s)][s] = "ended"

ChainStopsForCause ==
  (reset # {} \/ \E p \in Procs : \E s \in Sides : port[p][s] # "open") => SomethingWent

(* A chain that has begun to go down is never stuck before it is down: in  *)
(* whichever order its sides have closed, and however full its links and   *)
(* hands are both ways, some loop can go on, and be it by losing units.    *)
GoingDown ==
  /\ \E p \in Procs : \E s \in Sides : port[p][s] = "open"
  /\ reset # {} \/ \E p \in Procs : \E s \in Sides : port[p][s] # "open"

NeverStuck ==
  GoingDown => \E p \in Procs : \E s \in Sides :
                 MustTake(p, s) \/ CanPut(p, s) \/ MustStop(p, s)

(* The chain does not stay half open: when one process stops to serve a    *)
(* side, or a link is reset, all of them end, and nobody waits for ever on a  *)
(* peer that is gone, in whichever direction the units flow.               *)
AllEnd == []<>~GoingDown

(* No unit stays in the chain for ever: again and again, each TUN device   *)
(* has been given all that came from the other, through full links and     *)
(* hands, unless something goes.                                           *)
AllArrive ==
  []<>(SomethingWent \/ \A s \in Sides : out[Far(s)][Other(s)] = in[Near(s)][s])

(* The chain's part of link k: what its two ends have been given, have     *)
(* delivered, and how they were used last.                                 *)
LinkEnds == {"client", "server"}
SideAt(e) == IF e = "client" THEN "right" ELSE "left"
ProcAt(k, e) == IF e = "client" THEN k ELSE k + 1

LinkSent(k) == [e \in LinkEnds |-> out[ProcAt(k, e)][SideAt(e)]]
LinkGot(k) == [e \in LinkEnds |-> in[ProcAt(k, e)][SideAt(e)]]
LinkEnded(k) ==
  [e \in LinkEnds |-> LET how == port[ProcAt(k, e)][SideAt(e)] IN
                      IF how = "open" THEN "open"
                      ELSE IF how = "ended" THEN "eof" ELSE "dropped"]
=============================================================================
