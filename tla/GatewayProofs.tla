--------------------------- MODULE GatewayProofs ---------------------------
(* Theorems about Gateway, for all lengths of the chain, capacities of the *)
(* links and processes, numbers of units and bounds on the faults.         *)
EXTENDS Gateway, StreamLemmas

Stages == {"open", "ended", "drained", "cut"}

TypeInv ==
  /\ in \in [Procs -> [Sides -> Seq(Unit)]]
  /\ out \in [Procs -> [Sides -> Seq(Unit)]]
  /\ port \in [Procs -> [Sides -> Stages]]
  /\ reset \in SUBSET Links
  /\ faults \in Nat

(* Each process has two sides, each but the outermost with a neighbour,    *)
(* whose neighbour it is.                                                  *)
LEMMA SideFacts ==
  \A s \in Sides : /\ Other(s) \in Sides /\ Other(s) # s /\ Other(Other(s)) = s
                   /\ \A t \in Sides : t # s => t = Other(s)
BY DEF Sides, Other

(* A side is that of a neighbour, or of a TUN device.                      *)
LEMMA ChainFacts ==
  ASSUME NEW p \in Procs, NEW s \in Sides
  PROVE  /\ ~AtTun(p, s) =>
              /\ Beyond(p, s) \in Procs /\ Beyond(p, s) # p
              /\ ~AtTun(Beyond(p, s), Other(s))
              /\ Beyond(Beyond(p, s), Other(s)) = p
              /\ LinkOf(p, s) \in Links
         /\ AtTun(p, s) => p \in ENTAs /\ p = Near(s)
BY GatewayAssumption DEF Procs, Sides, Links, ENTAs, Beyond, AtTun, Other, LinkOf, Near

(* A change at one side of one process.                                    *)
LEMMA SideExcept ==
  ASSUME NEW X, NEW f \in [Procs -> [Sides -> X]], NEW p \in Procs, NEW s \in Sides,
         NEW v \in X
  PROVE  /\ [f EXCEPT ![p][s] = v] \in [Procs -> [Sides -> X]]
         /\ \A q \in Procs, t \in Sides :
              [f EXCEPT ![p][s] = v][q][t] = IF q = p /\ t = s THEN v ELSE f[q][t]
OBVIOUS
-----------------------------------------------------------------------------
(* What a process has given is the beginning of what it took, what it took *)
(* the beginning of what its neighbour gave.  An end was read after the    *)
(* neighbour had closed and everything had been taken; a drained side was  *)
(* given everything and the other one has closed; and an ENTG closes both  *)
(* its sides together.                                                     *)
FlowOK(p, s) ==
  /\ IsPrefix(out[p][s], in[p][Other(s)])
  /\ ~AtTun(p, s) => IsPrefix(in[p][s], Facing(p, s))
  /\ port[p][s] = "ended" /\ ~AtTun(p, s) => PeerGone(p, s) /\ in[p][s] = Facing(p, s)
  /\ port[p][s] = "drained" => out[p][s] = in[p][Other(s)] /\ port[p][Other(s)] # "open"
  /\ p \notin ENTAs /\ port[p][s] = "open" => port[p][Other(s)] = "open"

FlowInv == \A p \in Procs, s \in Sides : FlowOK(p, s)

(* Nothing has been taken, given or closed.                                *)
LEMMA FlowInit == Init => TypeInv /\ FlowInv
<1> SUFFICES ASSUME Init PROVE TypeInv /\ FlowInv
  OBVIOUS
<1>1. <<>> \in Seq(Unit) /\ IsPrefix(<<>>, <<>>)
  <2>1. <<>> \in Seq(Unit) /\ Len(<<>>) = 0
    BY EmptySeq
  <2>2. IsPrefix(<<>>, <<>>) <=> /\ Len(<<>>) <= Len(<<>>)
                               /\ \A i \in 1 .. Len(<<>>) : <<>>[i] = <<>>[i]
    BY <2>1, PrefixPointwise
  <2>. QED
    BY <2>1, <2>2
<1>2. TypeInv
  BY <1>1 DEF Init, TypeInv, Stages
<1>3. ASSUME NEW p \in Procs, NEW s \in Sides PROVE FlowOK(p, s)
  <2>1. in[p][s] = <<>> /\ in[p][Other(s)] = <<>> /\ out[p][s] = <<>>
        /\ port[p][s] = "open" /\ port[p][Other(s)] = "open"
    BY SideFacts DEF Init
  <2>2. ~AtTun(p, s) => Facing(p, s) = <<>>
    BY ChainFacts, SideFacts DEF Init, Facing
  <2>. QED
    BY <1>1, <2>1, <2>2 DEF FlowOK
<1>. QED
  BY <1>2, <1>3 DEF FlowInv

(* A unit is taken from what the neighbour gave, or from a TUN device.     *)
LEMMA TakeFacts ==
  ASSUME TypeInv, FlowInv, NEW p \in Procs, NEW s \in Sides, Take(p, s)
  PROVE  /\ \A t \in Sides : port[p][t] = "open"
         /\ UNCHANGED <<out, port, reset, faults>>
         /\ \E u \in Unit : LET v == Append(in[p][s], u) IN
              /\ v \in Seq(Unit) /\ IsStrictPrefix(in[p][s], v)
              /\ in' = [in EXCEPT ![p][s] = v]
              /\ ~AtTun(p, s) => IsPrefix(v, Facing(p, s))
<1>. DEFINE i == in[p][s]
            f == Facing(p, s)
<1>1. i \in Seq(Unit) /\ Len(i) \in Nat
  BY LenProperties DEF TypeInv
<1>2. (\A t \in Sides : port[p][t] = "open") /\ UNCHANGED <<out, port, reset, faults>>
  BY DEF Take, CanTake
<1>3. CASE AtTun(p, s)
  <2>1. Len(i) < MaxUnits[s] /\ in' = [in EXCEPT ![p][s] = Append(i, Len(i) + 1)]
    BY <1>3 DEF Take, CanTake, Waiting
  <2>2. Len(i) + 1 \in Unit
    BY <1>1, <2>1, GatewayAssumption DEF Unit, Sides
  <2>. DEFINE u == Len(i) + 1
  <2>. HIDE DEF i, u
  <2>3. IsPrefix(i, i)
    BY <1>1, PrefixPointwise
  <2>4. Append(i, u) \in Seq(Unit) /\ IsStrictPrefix(i, Append(i, u))
    BY <1>1, <2>2, <2>3, PrefixAppend DEF u
  <2>. QED
    BY <1>2, <1>3, <2>1, <2>2, <2>4, Zenon DEF i, u
<1>4. CASE ~AtTun(p, s)
  <2>1. Len(i) < Len(f) /\ in' = [in EXCEPT ![p][s] = Append(i, f[Len(i) + 1])]
    BY <1>4 DEF Take, CanTake, Waiting, NextUnit
  <2>2. f \in Seq(Unit)
    BY <1>4, ChainFacts, SideFacts DEF TypeInv, Facing
  <2>3. IsPrefix(i, f)
    BY <1>4 DEF FlowInv, FlowOK
  <2>. DEFINE u == f[Len(i) + 1]
  <2>. HIDE DEF i, f
  <2>4. u \in Unit /\ Append(i, u) \in Seq(Unit) /\ IsPrefix(Append(i, u), f)
    BY <1>1, <2>1, <2>2, <2>3, PrefixNext
  <2>. HIDE DEF u
  <2>5. IsPrefix(i, i)
    BY <1>1, PrefixPointwise
  <2>6. IsStrictPrefix(i, Append(i, u))
    BY <1>1, <2>4, <2>5, PrefixAppend
  <2>. QED
    BY <1>2, <2>1, <2>4, <2>6, Zenon DEF i, f, u
<1>. QED
  BY <1>3, <1>4

(* A unit is given from what was taken at the other side.                  *)
LEMMA PutFacts ==
  ASSUME TypeInv, FlowInv, NEW p \in Procs, NEW s \in Sides, Put(p, s)
  PROVE  /\ port[p][s] = "open" /\ UNCHANGED <<in, port, reset, faults>>
         /\ \E u \in Unit : LET v == Append(out[p][s], u) IN
              /\ v \in Seq(Unit) /\ IsStrictPrefix(out[p][s], v)
              /\ out' = [out EXCEPT ![p][s] = v]
              /\ IsPrefix(v, in[p][Other(s)])
<1>. DEFINE o == out[p][s]
            i == in[p][Other(s)]
<1>1. o \in Seq(Unit) /\ i \in Seq(Unit) /\ Len(o) \in Nat /\ Len(i) \in Nat
  BY SideFacts, LenProperties DEF TypeInv
<1>2. /\ port[p][s] = "open" /\ UNCHANGED <<in, port, reset, faults>>
      /\ out' = [out EXCEPT ![p][s] = Append(o, i[Len(o) + 1])]
  BY DEF Put, CanPut
<1>3. Len(o) < Len(i)
  <2>1. Held(p, Other(s)) > 0 /\ Other(Other(s)) = s
    BY SideFacts DEF Put, CanPut
  <2>2. Held(p, Other(s)) = Len(i) - Len(o)
    BY <2>1, Zenon DEF Held
  <2>. HIDE DEF i, o
  <2>. QED
    BY <1>1, <2>1, <2>2
<1>4. IsPrefix(o, i)
  BY DEF FlowInv, FlowOK
<1>. DEFINE u == i[Len(o) + 1]
<1>. HIDE DEF o, i
<1>5. u \in Unit /\ Append(o, u) \in Seq(Unit) /\ IsPrefix(Append(o, u), i)
  BY <1>1, <1>3, <1>4, PrefixNext
<1>. HIDE DEF u
<1>6. IsPrefix(o, o)
  BY <1>1, PrefixPointwise
<1>7. IsStrictPrefix(o, Append(o, u))
  BY <1>1, <1>5, <1>6, PrefixAppend
<1>. QED
  BY <1>2, <1>5, <1>7, Zenon DEF o, i, u

(* One process closes sides that were open, each for a reason that holds.  *)
ClosedWell(q, t) ==
  /\ port[q][t] = "open"
  /\ port'[q][t] \in Stages \ {"open"}
  /\ port'[q][t] = "ended" /\ ~AtTun(q, t) =>
       PeerGone(q, t) /\ in[q][t] = Facing(q, t) /\ LinkOf(q, t) \notin reset
  /\ port'[q][t] = "drained" => out[q][t] = in[q][Other(t)] /\ port'[q][Other(t)] # "open"

ProcessCloses(p) ==
  /\ UNCHANGED <<in, out, reset>>
  /\ port' = [port EXCEPT ![p] = port'[p]] /\ port'[p] \in [Sides -> Stages]
  /\ \A t \in Sides : port'[p][t] = port[p][t] \/ ClosedWell(p, t)
  /\ \E t \in Sides : port'[p][t] # port[p][t]
  /\ p \notin ENTAs => \A t \in Sides : port'[p][t] # "open"

(* All that was taken has been given when nothing is held.                 *)
LEMMA NothingHeld ==
  ASSUME TypeInv, FlowInv, NEW p \in Procs, NEW s \in Sides, Held(p, s) = 0
  PROVE  out[p][Other(s)] = in[p][s]
<1>. DEFINE o == out[p][Other(s)]
            i == in[p][s]
<1>1. o \in Seq(Unit) /\ i \in Seq(Unit)
  BY SideFacts DEF TypeInv
<1>2. IsPrefix(o, i)
  <2>1. Other(s) \in Sides /\ Other(Other(s)) = s
    BY SideFacts
  <2>. QED
    BY <2>1 DEF FlowInv, FlowOK
<1>3. Len(i) - Len(o) = 0
  BY DEF Held
<1>. HIDE DEF o, i
<1>4. Len(o) >= Len(i)
  BY <1>1, <1>3, LenProperties
<1>5. o = i
  BY <1>1, <1>2, <1>4, PrefixFull
<1>. QED
  BY <1>5 DEF o, i

(* A side that closes does so alone in an ENTA, with the other in an ENTG. *)
LEMMA CloseFacts ==
  ASSUME TypeInv, FlowInv, NEW p \in Procs, NEW s \in Sides,
         NEW how \in Stages \ {"open"}, Closes(p, s, how),
         how = "ended" /\ ~AtTun(p, s) =>
           PeerGone(p, s) /\ in[p][s] = Facing(p, s) /\ LinkOf(p, s) \notin reset,
         how = "ended" /\ p \notin ENTAs => Held(p, s) = 0,
         how = "drained" => p \in ENTAs /\ port[p][Other(s)] # "open" /\ Held(p, Other(s)) = 0,
         reset' = reset
  PROVE  ProcessCloses(p)
<1>0. Other(s) \in Sides /\ Other(s) # s /\ Other(Other(s)) = s
      /\ \A t \in Sides : t = s \/ t = Other(s)
  BY SideFacts
<1>1. /\ UNCHANGED <<in, out, reset>> /\ port[p][s] = "open"
      /\ port' = [port EXCEPT ![p] = Closed(p, s, how)]
  BY DEF Closes
<1>2. port \in [Procs -> [Sides -> Stages]] /\ port[p] \in [Sides -> Stages]
  BY DEF TypeInv
<1>3. /\ port'[p] = Closed(p, s, how) /\ port' = [port EXCEPT ![p] = port'[p]]
      /\ port'[p] \in [Sides -> Stages]
  <2>. DEFINE c == Closed(p, s, how)
  <2>1. port' = [port EXCEPT ![p] = c]
    BY <1>1
  <2>. HIDE DEF c
  <2>2. port'[p] = c
    BY <1>2, <2>1
  <2>3. c \in [Sides -> Stages]
    BY <1>2 DEF c, Closed, Stages
  <2>. QED
    BY <2>1, <2>2, <2>3 DEF c
<1>4. port'[p][s] = how
  BY <1>0, <1>2, <1>3 DEF Closed
<1>5. CASE p \in ENTAs
  <2>1. port'[p][Other(s)] = port[p][Other(s)]
    BY <1>0, <1>2, <1>3, <1>5 DEF Closed
  <2>2. how = "drained" => out[p][s] = in[p][Other(s)]
    BY <1>0, NothingHeld
  <2>3. ClosedWell(p, s)
    BY <1>1, <1>4, <2>1, <2>2 DEF ClosedWell
  <2>. QED
    BY <1>0, <1>1, <1>3, <1>4, <1>5, <2>1, <2>3, Zenon DEF ProcessCloses
<1>6. CASE p \notin ENTAs
  <2>1. port'[p][Other(s)] = IF how = "ended" THEN "drained" ELSE "cut"
    BY <1>0, <1>2, <1>3, <1>6 DEF Closed
  <2>2. port[p][Other(s)] = "open"
    BY <1>1, <1>6 DEF FlowInv, FlowOK
  <2>3. how = "ended" => out[p][Other(s)] = in[p][s]
    BY <1>6, NothingHeld
  <2>4. how # "drained" /\ how # "open"
    BY <1>6
  <2>5. ClosedWell(p, s)
    BY <1>1, <1>4, <2>4 DEF ClosedWell
  <2>6. ClosedWell(p, Other(s))
    <3>1. port'[p][Other(s)] \in Stages \ {"open"} /\ port'[p][Other(s)] # "ended"
      BY <2>1 DEF Stages
    <3>2. port'[p][Other(s)] = "drained" => how = "ended"
      BY <2>1
    <3>3. port'[p][Other(Other(s))] # "open"
      BY <1>0, <1>4, <2>4
    <3>. QED
      BY <1>0, <2>2, <2>3, <3>1, <3>2, <3>3 DEF ClosedWell
  <2>7. \A t \in Sides : ClosedWell(p, t) /\ port'[p][t] # "open"
    BY <1>0, <2>5, <2>6 DEF ClosedWell
  <2>8. port'[p][s] # port[p][s]
    BY <1>1, <1>4, <2>4
  <2>. QED
    BY <1>1, <1>3, <2>7, <2>8 DEF ProcessCloses
<1>. QED
  BY <1>5, <1>6

(* Every way in which a process stops to use its sides is one of those.    *)
LEMMA StopFacts ==
  ASSUME TypeInv, FlowInv, NEW p \in Procs, NEW s \in Sides, Stops(p, s) \/ TunEnds(p, s)
  PROVE  ProcessCloses(p) /\ faults' = faults
<1>1. CASE Ends(p, s)
  BY <1>1, CloseFacts DEF Ends, CanEnd, AtEnd, Stages
<1>2. CASE Fails(p, s)
  BY <1>2, CloseFacts DEF Fails, Stages
<1>3. CASE Drains(p, s)
  BY <1>3, CloseFacts DEF Drains, CanDrain, Stages
<1>4. CASE Refused(p, s)
  BY <1>4, CloseFacts DEF Refused, Stages
<1>5. CASE TunEnds(p, s)
  BY <1>5, ChainFacts, CloseFacts DEF TunEnds, Stages
<1>. QED
  BY <1>1, <1>2, <1>3, <1>4, <1>5 DEF Stops

LEMMA TunFailsFacts ==
  ASSUME TypeInv, FlowInv, NEW p \in Procs, NEW s \in Sides, TunFails(p, s)
  PROVE  ProcessCloses(p) /\ faults' = faults + 1
BY CloseFacts DEF TunFails, Fault, Stages

(* A process that dies cuts the sides that were open.                      *)
LEMMA DiesFacts ==
  ASSUME TypeInv, FlowInv, NEW p \in Procs, Dies(p)
  PROVE  ProcessCloses(p) /\ faults' = faults + 1
<1>. DEFINE c == [s \in Sides |-> IF port[p][s] = "open" THEN "cut" ELSE port[p][s]]
<1>1. /\ \E s \in Sides : port[p][s] = "open"
      /\ port' = [port EXCEPT ![p] = c]
      /\ UNCHANGED <<in, out, reset>> /\ faults' = faults + 1
  BY DEF Dies, Fault
<1>2. port \in [Procs -> [Sides -> Stages]]
  BY DEF TypeInv
<1>3. port'[p] = c /\ port' = [port EXCEPT ![p] = port'[p]] /\ c \in [Sides -> Stages]
  BY <1>1, <1>2 DEF Stages
<1>4. \A t \in Sides : port'[p][t] = IF port[p][t] = "open" THEN "cut" ELSE port[p][t]
  BY <1>3
<1>5. \A t \in Sides : port'[p][t] = port[p][t] \/ ClosedWell(p, t)
  BY <1>4 DEF ClosedWell, Stages
<1>6. \A t \in Sides : port'[p][t] # "open"
  BY <1>4
<1>7. \E t \in Sides : port'[p][t] # port[p][t]
  BY <1>1, <1>6
<1>. QED
  BY <1>1, <1>3, <1>5, <1>6, <1>7 DEF ProcessCloses
-----------------------------------------------------------------------------
(* How the sequences of units look after a step that takes one.            *)
LEMMA FlowTake ==
  ASSUME TypeInv, FlowInv, NEW p \in Procs, NEW s \in Sides, Take(p, s)
  PROVE  TypeInv' /\ FlowInv'
<1>1. port[p][s] = "open" /\ UNCHANGED <<out, port, reset, faults>>
  BY TakeFacts
<1>2. PICK v \in Seq(Unit) :
        /\ IsPrefix(in[p][s], v)
        /\ in' = [in EXCEPT ![p][s] = v]
        /\ ~AtTun(p, s) => IsPrefix(v, Facing(p, s))
  <2>1. PICK u \in Unit :
          /\ Append(in[p][s], u) \in Seq(Unit) /\ IsStrictPrefix(in[p][s], Append(in[p][s], u))
          /\ in' = [in EXCEPT ![p][s] = Append(in[p][s], u)]
          /\ ~AtTun(p, s) => IsPrefix(Append(in[p][s], u), Facing(p, s))
    BY TakeFacts, Zenon
  <2>. QED
    BY <2>1, Zenon DEF IsStrictPrefix
<1>3. in' \in [Procs -> [Sides -> Seq(Unit)]]
      /\ \A q \in Procs, t \in Sides : in'[q][t] = IF q = p /\ t = s THEN v ELSE in[q][t]
  BY <1>2, SideExcept DEF TypeInv
<1>4. TypeInv'
  BY <1>1, <1>3 DEF TypeInv
<1>5. ASSUME NEW q \in Procs, NEW t \in Sides PROVE FlowOK(q, t)'
  <2>0. Other(t) \in Sides /\ FlowOK(q, t)
    BY SideFacts DEF FlowInv
  <2>1. Facing(q, t)' = Facing(q, t) /\ (PeerGone(q, t)' <=> PeerGone(q, t))
    BY <1>1, Zenon DEF Facing, PeerGone
  <2>2. IsPrefix(out[q][t], in'[q][Other(t)])
    <3>1. CASE q = p /\ Other(t) = s
      <4>1. IsPrefix(out[q][t], in[p][s]) /\ out[q][t] \in Seq(Unit) /\ in[p][s] \in Seq(Unit)
        BY <2>0, <3>1 DEF FlowOK, TypeInv
      <4>2. IsPrefix(out[q][t], v)
        BY <1>2, <4>1, PrefixTransitive
      <4>. QED
        BY <1>3, <2>0, <3>1, <4>2
    <3>2. CASE ~(q = p /\ Other(t) = s)
      BY <1>3, <2>0, <3>2 DEF FlowOK
    <3>. QED
      BY <3>1, <3>2
  <2>3. ~AtTun(q, t) => IsPrefix(in'[q][t], Facing(q, t))
    BY <1>2, <1>3, <2>0 DEF FlowOK
  <2>4. port[q][t] = "ended" => in'[q][t] = in[q][t]
    BY <1>1, <1>3
  <2>5. port[q][t] = "drained" => in'[q][Other(t)] = in[q][Other(t)]
    BY <1>1, <1>3, <2>0 DEF FlowOK
  <2>. QED
    BY <1>1, <2>0, <2>1, <2>2, <2>3, <2>4, <2>5 DEF FlowOK, AtTun
<1>. QED
  BY <1>4, <1>5 DEF FlowInv

(* ... and after one that gives one.                                       *)
LEMMA FlowPut ==
  ASSUME TypeInv, FlowInv, NEW p \in Procs, NEW s \in Sides, Put(p, s)
  PROVE  TypeInv' /\ FlowInv'
<1>1. port[p][s] = "open" /\ UNCHANGED <<in, port, reset, faults>>
  BY PutFacts
<1>2. PICK v \in Seq(Unit) :
        /\ IsPrefix(out[p][s], v)
        /\ out' = [out EXCEPT ![p][s] = v]
        /\ IsPrefix(v, in[p][Other(s)])
  <2>1. PICK u \in Unit :
          /\ Append(out[p][s], u) \in Seq(Unit)
          /\ IsStrictPrefix(out[p][s], Append(out[p][s], u))
          /\ out' = [out EXCEPT ![p][s] = Append(out[p][s], u)]
          /\ IsPrefix(Append(out[p][s], u), in[p][Other(s)])
    BY PutFacts, Zenon
  <2>. QED
    BY <2>1, Zenon DEF IsStrictPrefix
<1>3. out' \in [Procs -> [Sides -> Seq(Unit)]]
      /\ \A q \in Procs, t \in Sides : out'[q][t] = IF q = p /\ t = s THEN v ELSE out[q][t]
  BY <1>2, SideExcept DEF TypeInv
<1>4. TypeInv'
  BY <1>1, <1>3 DEF TypeInv
<1>5. ASSUME NEW q \in Procs, NEW t \in Sides PROVE FlowOK(q, t)'
  <2>0. Other(t) \in Sides /\ FlowOK(q, t)
    BY SideFacts DEF FlowInv
  <2>1. PeerGone(q, t)' <=> PeerGone(q, t)
    BY <1>1, Zenon DEF PeerGone
  <2>2. IsPrefix(out'[q][t], in[q][Other(t)])
    BY <1>2, <1>3, <2>0 DEF FlowOK
  <2>3. ASSUME ~AtTun(q, t)
        PROVE  /\ IsPrefix(in[q][t], Facing(q, t)')
               /\ PeerGone(q, t) => Facing(q, t)' = Facing(q, t)
    <3>1. Beyond(q, t) \in Procs
      BY <2>3, ChainFacts
    <3>2. Facing(q, t)' = IF Beyond(q, t) = p /\ Other(t) = s THEN v ELSE Facing(q, t)
      BY <1>3, <2>0, <3>1 DEF Facing
    <3>3. CASE Beyond(q, t) = p /\ Other(t) = s
      <4>1. Facing(q, t) = out[p][s] /\ (PeerGone(q, t) => port[p][s] # "open")
        BY <3>3 DEF Facing, PeerGone
      <4>2. IsPrefix(in[q][t], out[p][s]) /\ in[q][t] \in Seq(Unit) /\ out[p][s] \in Seq(Unit)
        BY <2>0, <2>3, <4>1 DEF FlowOK, TypeInv
      <4>3. IsPrefix(in[q][t], v)
        BY <1>2, <4>2, PrefixTransitive
      <4>. QED
        BY <1>1, <3>2, <3>3, <4>1, <4>3
    <3>4. CASE ~(Beyond(q, t) = p /\ Other(t) = s)
      BY <2>0, <2>3, <3>2, <3>4 DEF FlowOK
    <3>. QED
      BY <3>3, <3>4
  <2>4. port[q][t] = "drained" => out'[q][t] = out[q][t]
    BY <1>1, <1>3
  <2>. QED
    BY <1>1, <2>0, <2>1, <2>2, <2>3, <2>4 DEF FlowOK, AtTun
<1>. QED
  BY <1>4, <1>5 DEF FlowInv

(* What has closed stays as it is.                                         *)
LEMMA ClosedStays ==
  ASSUME TypeInv, NEW p \in Procs, ProcessCloses(p)
  PROVE  /\ port' \in [Procs -> [Sides -> Stages]]
         /\ \A q \in Procs, t \in Sides :
              /\ port'[q][t] = port[q][t] \/ (q = p /\ ClosedWell(q, t))
              /\ port[q][t] # "open" => port'[q][t] = port[q][t]
<1>1. \A q \in Procs : q # p => port'[q] = port[q]
  BY DEF ProcessCloses, TypeInv
<1>2. ASSUME NEW q \in Procs, NEW t \in Sides
      PROVE  /\ port'[q][t] = port[q][t] \/ (q = p /\ ClosedWell(q, t))
             /\ port[q][t] # "open" => port'[q][t] = port[q][t]
             /\ port'[q][t] \in Stages
  BY <1>1 DEF ProcessCloses, ClosedWell, TypeInv
<1>3. port' \in [Procs -> [Sides -> Stages]]
  BY <1>2 DEF ProcessCloses, TypeInv
<1>. QED
  BY <1>2, <1>3

(* Closing moves no unit.                                                  *)
LEMMA FlowClose ==
  ASSUME TypeInv, FlowInv, NEW p \in Procs, ProcessCloses(p), faults' \in Nat
  PROVE  TypeInv' /\ FlowInv'
<1>1. UNCHANGED <<in, out, reset>>
  BY DEF ProcessCloses
<1>2. TypeInv'
  BY <1>1, ClosedStays DEF TypeInv
<1>3. ASSUME NEW q \in Procs, NEW t \in Sides PROVE FlowOK(q, t)'
  <2>0. Other(t) \in Sides /\ Other(Other(t)) = t /\ FlowOK(q, t)
    BY SideFacts DEF FlowInv
  <2>1. Facing(q, t)' = Facing(q, t)
    BY <1>1, Zenon DEF Facing
  <2>2. ~AtTun(q, t) /\ PeerGone(q, t) => PeerGone(q, t)'
    BY <2>0, ChainFacts, ClosedStays DEF PeerGone
  <2>3. CASE port'[q][t] = port[q][t]
    <3>1. port[q][Other(t)] # "open" => port'[q][Other(t)] # "open"
      BY <2>0, ClosedStays
    <3>2. q \notin ENTAs /\ port'[q][t] = "open" => port'[q][Other(t)] = "open"
      <4>1. CASE q = p
        BY <4>1 DEF ProcessCloses
      <4>2. CASE q # p
        BY <2>0, <2>3, <4>2, ClosedStays DEF FlowOK
      <4>. QED
        BY <4>1, <4>2
    <3>. QED
      BY <1>1, <2>0, <2>1, <2>2, <2>3, <3>1, <3>2 DEF FlowOK, AtTun
  <2>4. CASE q = p /\ ClosedWell(q, t)
    BY <1>1, <2>0, <2>1, <2>2, <2>4 DEF FlowOK, ClosedWell, AtTun
  <2>. QED
    BY <2>3, <2>4, ClosedStays
<1>. QED
  BY <1>2, <1>3 DEF FlowInv

(* Every step keeps the types and the flow.                                *)
LEMMA FlowStep == TypeInv /\ FlowInv /\ [Next]_vars => TypeInv' /\ FlowInv'
<1> SUFFICES ASSUME TypeInv, FlowInv, [Next]_vars PROVE TypeInv' /\ FlowInv'
  OBVIOUS
<1>0. faults \in Nat /\ faults + 1 \in Nat
  BY DEF TypeInv
<1>1. ASSUME NEW p \in Procs, NEW s \in Sides, Stops(p, s) \/ TunEnds(p, s)
      PROVE  TypeInv' /\ FlowInv'
  BY <1>0, <1>1, StopFacts, FlowClose
<1>2. ASSUME NEW p \in Procs, Dies(p) \/ \E s \in Sides : TunFails(p, s)
      PROVE  TypeInv' /\ FlowInv'
  BY <1>0, <1>2, DiesFacts, TunFailsFacts, FlowClose
<1>3. ASSUME UNCHANGED <<in, out, port>>, reset' \in SUBSET Links, faults' \in Nat
      PROVE  TypeInv' /\ FlowInv'
  <2>1. ASSUME NEW p \in Procs, NEW s \in Sides PROVE FlowOK(p, s)'
    <3>1. Facing(p, s)' = Facing(p, s) /\ (PeerGone(p, s)' <=> PeerGone(p, s))
      BY <1>3, Zenon DEF Facing, PeerGone
    <3>. QED
      BY <1>3, <3>1 DEF FlowInv, FlowOK, AtTun
  <2>. QED
    BY <1>3, <2>1 DEF TypeInv, FlowInv
<1>4. ASSUME NEW p \in Procs, NEW s \in Sides, Resets(p, s) PROVE TypeInv' /\ FlowInv'
  BY <1>0, <1>3, <1>4, ChainFacts DEF Resets, TypeInv
<1>5. ASSUME NEW k \in Links, LinkFails(k) PROVE TypeInv' /\ FlowInv'
  BY <1>0, <1>3, <1>5 DEF LinkFails, Fault, TypeInv
<1>6. CASE UNCHANGED vars
  BY <1>3, <1>6 DEF vars, TypeInv
<1>. QED
  BY <1>1, <1>2, <1>4, <1>5, <1>6, FlowTake, FlowPut, Zenon DEF Next

(* The types and the flow hold for ever.                                   *)
LEMMA FlowAlways == Spec => [](TypeInv /\ FlowInv)
BY FlowInit, FlowStep, PTL DEF Spec
-----------------------------------------------------------------------------
(* What a process has given to its far side is the beginning of what the   *)
(* process before it has given, and all of it when the end came through.   *)
LEMMA OneHop ==
  ASSUME TypeInv, FlowInv, NEW p \in Procs, NEW s \in Sides, ~AtTun(p, s)
  PROVE  /\ IsPrefix(out[p][Other(s)], out[Beyond(p, s)][Other(s)])
         /\ Travelled(s) => out[p][Other(s)] = out[Beyond(p, s)][Other(s)]
<1>1. Other(s) \in Sides /\ Other(Other(s)) = s /\ Beyond(p, s) \in Procs
  BY SideFacts, ChainFacts
<1>2. FlowOK(p, s) /\ FlowOK(p, Other(s))
  BY <1>1 DEF FlowInv
<1>3. /\ IsPrefix(out[p][Other(s)], in[p][s])
      /\ IsPrefix(in[p][s], out[Beyond(p, s)][Other(s)])
  BY <1>1, <1>2 DEF FlowOK, Facing
<1>4. /\ out[p][Other(s)] \in Seq(Unit) /\ in[p][s] \in Seq(Unit)
      /\ out[Beyond(p, s)][Other(s)] \in Seq(Unit)
  BY <1>1 DEF TypeInv
<1>5. Travelled(s) =>
        out[p][Other(s)] = in[p][s] /\ in[p][s] = out[Beyond(p, s)][Other(s)]
  BY <1>1, <1>2 DEF Travelled, FlowOK, Facing
<1>. QED
  BY <1>3, <1>4, <1>5, PrefixTransitive

(* The processes in the order in which the units from side s reach them.   *)
Hop(s, k) == IF s = "left" THEN 1 + k ELSE LastProc - k

LEMMA HopFacts ==
  ASSUME NEW s \in Sides
  PROVE  /\ Hop(s, 0) = Near(s) /\ Hop(s, LastProc - 1) = Far(s) /\ AtTun(Near(s), s)
         /\ LastProc - 1 \in Nat /\ 0 \in 0 .. LastProc - 1
         /\ \A k \in 0 .. LastProc - 1 : Hop(s, k) \in Procs
         /\ \A k \in 0 .. LastProc - 2 :
              /\ k \in 0 .. LastProc - 1 /\ k + 1 \in 0 .. LastProc - 1
              /\ ~AtTun(Hop(s, k + 1), s) /\ Beyond(Hop(s, k + 1), s) = Hop(s, k)
         /\ \A p \in Procs : \E k \in 0 .. LastProc - 1 : p = Hop(s, k)
<1>1. LastProc \in Nat /\ LastProc >= 3
  BY GatewayAssumption
<1>2. ASSUME NEW p \in Procs PROVE \E k \in 0 .. LastProc - 1 : p = Hop(s, k)
  <2>1. CASE s = "left"
    <3>1. p - 1 \in 0 .. LastProc - 1 /\ p = Hop(s, p - 1)
      BY <1>1, <2>1 DEF Hop, Procs
    <3>. QED
      BY <3>1
  <2>2. CASE s # "left"
    <3>1. LastProc - p \in 0 .. LastProc - 1 /\ p = Hop(s, LastProc - p)
      BY <1>1, <2>2 DEF Hop, Procs
    <3>. QED
      BY <3>1
  <2>. QED
    BY <2>1, <2>2
<1>. QED
  BY <1>1, <1>2 DEF Hop, Near, Far, Beyond, AtTun, Procs, Sides

(* Units are lost only from the end of the stream, whatever fails, and     *)
(* none when the end of the stream itself has come through: by induction   *)
(* along the chain.                                                        *)
THEOREM AlwaysEndToEnd == Spec => []EndToEnd
<1>1. TypeInv /\ FlowInv => EndToEnd
  <2> SUFFICES ASSUME TypeInv, FlowInv, NEW s \in Sides
               PROVE  /\ IsPrefix(out[Far(s)][Other(s)], in[Near(s)][s])
                      /\ Travelled(s) => out[Far(s)][Other(s)] = in[Near(s)][s]
    BY DEF EndToEnd
  <2>. DEFINE i == in[Near(s)][s]
              Given(k) == out[Hop(s, k)][Other(s)]
              Right(k) == IsPrefix(Given(k), i) /\ (Travelled(s) => Given(k) = i)
              T == {k \in 0 .. LastProc - 1 : Right(k)}
  <2>0. Other(s) \in Sides /\ Other(Other(s)) = s
    BY SideFacts
  <2>1. 0 \in T
    <3>1. Near(s) \in Procs /\ Hop(s, 0) = Near(s) /\ 0 \in 0 .. LastProc - 1
      BY HopFacts
    <3>2. FlowOK(Near(s), Other(s))
      BY <2>0, <3>1 DEF FlowInv
    <3>. QED
      BY <2>0, <3>1, <3>2 DEF FlowOK, Travelled
  <2>2. ASSUME NEW k \in 0 .. LastProc - 2, k \in T PROVE k + 1 \in T
    <3>1. /\ Hop(s, k) \in Procs /\ Hop(s, k + 1) \in Procs /\ Near(s) \in Procs
          /\ ~AtTun(Hop(s, k + 1), s) /\ Beyond(Hop(s, k + 1), s) = Hop(s, k)
          /\ k + 1 \in 0 .. LastProc - 1
      BY HopFacts
    <3>2. /\ IsPrefix(Given(k + 1), Given(k))
          /\ Travelled(s) => Given(k + 1) = Given(k)
      BY <3>1, OneHop
    <3>3. Given(k) \in Seq(Unit) /\ Given(k + 1) \in Seq(Unit) /\ i \in Seq(Unit)
      BY <2>0, <3>1 DEF TypeInv
    <3>4. Right(k)
      BY <2>2
    <3>. HIDE DEF Given, i
    <3>5. Right(k + 1)
      BY <3>2, <3>3, <3>4, PrefixTransitive
    <3>. QED
      BY <3>1, <3>5
  <2>3. LastProc - 1 \in Nat /\ (LastProc - 1) - 1 = LastProc - 2
        /\ LastProc - 1 \in 0 .. LastProc - 1 /\ Hop(s, LastProc - 1) = Far(s)
    BY HopFacts, GatewayAssumption
  <2>. HIDE DEF T
  <2>4. \A k \in 0 .. LastProc - 1 : k \in T
    BY <2>1, <2>2, <2>3, Induction
  <2>5. LastProc - 1 \in T
    BY <2>3, <2>4
  <2>. QED
    BY <2>3, <2>5 DEF T
<1>. QED
  BY <1>1, FlowAlways, PTL

(* A chain that goes down has a cause: the first side to close, or the     *)
(* first connection to be reset, was a fault or a device that went.        *)
LEMMA CauseStep ==
  TypeInv /\ FlowInv /\ ChainStopsForCause /\ [Next]_vars => ChainStopsForCause'
<1> SUFFICES ASSUME TypeInv, FlowInv, ChainStopsForCause, [Next]_vars
             PROVE  ChainStopsForCause'
  OBVIOUS
<1>. DEFINE Down == reset # {} \/ \E p \in Procs : \E s \in Sides : port[p][s] # "open"
<1>0. /\ faults \in Nat /\ (Down => SomethingWent)
      /\ \A s \in Sides : Near(s) \in Procs
  BY GatewayAssumption DEF TypeInv, ChainStopsForCause, Near, Procs
<1>1. ASSUME NEW p \in Procs, ProcessCloses(p), faults' = faults, SomethingWent
      PROVE  SomethingWent'
  BY <1>0, <1>1, ClosedStays DEF SomethingWent
<1>2. ASSUME NEW p \in Procs, NEW s \in Sides, Stops(p, s) PROVE SomethingWent'
  <2>1. Down
    <3>1. ~AtTun(p, s) => Beyond(p, s) \in Procs /\ Other(s) \in Sides
      BY ChainFacts, SideFacts
    <3>2. CASE Ends(p, s)
      BY <3>1, <3>2 DEF Ends, CanEnd, PeerGone
    <3>3. CASE Fails(p, s)
      BY <3>1, <3>3 DEF Fails, CanFail, PeerGone
    <3>4. CASE Drains(p, s) \/ Refused(p, s)
      BY <3>4, SideFacts DEF Drains, CanDrain, Refused, IsRefused
    <3>. QED
      BY <1>2, <3>2, <3>3, <3>4 DEF Stops
  <2>. QED
    BY <1>0, <1>1, <1>2, <2>1, StopFacts
<1>3. ASSUME NEW p \in Procs, NEW s \in Sides, TunEnds(p, s) PROVE SomethingWent'
  <2>1. p = Near(s) /\ p \in ENTAs
    BY <1>3, ChainFacts DEF TunEnds
  <2>2. port' = [port EXCEPT ![p] = [port[p] EXCEPT ![s] = "ended"]]
    BY <1>3, <2>1 DEF TunEnds, Closes, Closed
  <2>3. port'[p][s] = "ended"
    BY <2>2 DEF TypeInv
  <2>. QED
    BY <2>1, <2>3 DEF SomethingWent
<1>4. ASSUME faults' = faults + 1 PROVE SomethingWent'
  BY <1>0, <1>4 DEF SomethingWent
<1>5. ASSUME UNCHANGED <<port, faults>>, SomethingWent PROVE SomethingWent'
  BY <1>5 DEF SomethingWent
<1>6. ASSUME NEW p \in Procs, NEW s \in Sides, Resets(p, s) PROVE SomethingWent'
  <2>1. Down /\ UNCHANGED <<port, faults>>
    BY <1>6 DEF Resets
  <2>. QED
    BY <1>0, <1>5, <2>1
<1>7. ASSUME NEW p \in Procs, NEW s \in Sides, Take(p, s) \/ Put(p, s)
      PROVE  ChainStopsForCause'
  <2>1. UNCHANGED <<port, faults, reset>>
    BY <1>7, TakeFacts, PutFacts
  <2>. QED
    BY <1>0, <1>5, <2>1 DEF ChainStopsForCause
<1>8. CASE UNCHANGED vars
  <2>1. UNCHANGED <<port, faults, reset>>
    BY <1>8 DEF vars
  <2>. QED
    BY <1>0, <1>5, <2>1 DEF ChainStopsForCause
<1>9. ASSUME NEW p \in Procs, Dies(p) \/ \E s \in Sides : TunFails(p, s)
      PROVE  SomethingWent'
  BY <1>4, <1>9, DiesFacts, TunFailsFacts
<1>10. ASSUME NEW k \in Links, LinkFails(k) PROVE SomethingWent'
  BY <1>4, <1>10 DEF LinkFails, Fault
<1>11. ASSUME SomethingWent' PROVE ChainStopsForCause'
  BY <1>11 DEF ChainStopsForCause
<1>. QED
  BY <1>2, <1>3, <1>6, <1>7, <1>8, <1>9, <1>10, <1>11, Zenon DEF Next

(* No side closes and no connection is reset while every TUN device, link  *)
(* and process goes on.                                                    *)
THEOREM StopsForCause == Spec => []ChainStopsForCause
<1>1. Init => ChainStopsForCause
  BY DEF Init, ChainStopsForCause
<1>. QED
  BY <1>1, CauseStep, FlowAlways, PTL DEF Spec
-----------------------------------------------------------------------------
(* No loop can go on.                                                      *)
AllWait ==
  \A p \in Procs, s \in Sides : ~MustTake(p, s) /\ ~CanPut(p, s) /\ ~MustStop(p, s)

(* How much a process holds, and whether its link has a unit for it.       *)
LEMMA HeldFacts ==
  ASSUME TypeInv, FlowInv, NEW p \in Procs, NEW s \in Sides
  PROVE  /\ Held(p, s) \in Nat /\ HandCap \in Nat \ {0}
         /\ ~AtTun(p, s) /\ ~Waiting(p, s) => in[p][s] = Facing(p, s)
<1>. DEFINE i == in[p][s]
            o == out[p][Other(s)]
            f == Facing(p, s)
<1>0. Other(s) \in Sides /\ Other(Other(s)) = s
  BY SideFacts
<1>1. i \in Seq(Unit) /\ o \in Seq(Unit) /\ IsPrefix(o, i)
  BY <1>0 DEF TypeInv, FlowInv, FlowOK
<1>2. ASSUME ~AtTun(p, s) PROVE f \in Seq(Unit) /\ IsPrefix(i, f)
  BY <1>0, <1>2, ChainFacts DEF TypeInv, FlowInv, FlowOK, Facing
<1>3. Held(p, s) = Len(i) - Len(o)
  BY DEF Held
<1>4. ~AtTun(p, s) /\ ~Waiting(p, s) => ~(Len(i) < Len(f))
  BY DEF Waiting
<1>. HIDE DEF i, o, f
<1>5. Len(i) - Len(o) \in Nat
  BY <1>1, PrefixPointwise, LenProperties
<1>6. ASSUME ~AtTun(p, s), ~(Len(i) < Len(f)) PROVE i = f
  <2>1. Len(i) >= Len(f)
    BY <1>1, <1>2, <1>6, LenProperties
  <2>. QED
    BY <1>1, <1>2, <1>6, <2>1, PrefixFull
<1>. QED
  BY <1>3, <1>4, <1>5, <1>6, GatewayAssumption, Zenon DEF i, f

(* A unit that waits before a link that has no room waits for the process  *)
(* beyond it, which holds one, too.                                        *)
LEMMA WaitsForNext ==
  ASSUME TypeInv, FlowInv, AllWait, NEW p \in Procs, NEW s \in Sides, ~AtTun(p, s),
         port[p][s] = "open", Held(p, Other(s)) > 0
  PROVE  port[Beyond(p, s)][s] = "open" /\ Held(Beyond(p, s), Other(s)) > 0
<1>. DEFINE q == Beyond(p, s)
            t == Other(s)
<1>1. /\ q \in Procs /\ t \in Sides /\ Other(t) = s /\ ~AtTun(q, t) /\ Beyond(q, t) = p
      /\ \A r \in Sides : r = s \/ r = t
  BY ChainFacts, SideFacts
<1>2. ~PeerGone(p, s) /\ ~LinkHasRoom(p, s)
  BY DEF AllWait, CanPut
<1>3. port[q][t] = "open"
  BY <1>2 DEF PeerGone
<1>4. Waiting(q, t)
  <2>1. ~(Len(out[p][s]) < Len(in[q][t]) + LinkCap) /\ Facing(q, t) = out[p][s]
    BY <1>1, <1>2 DEF LinkHasRoom, Facing
  <2>2. Len(out[p][s]) \in Nat /\ Len(in[q][t]) \in Nat /\ LinkCap \in Nat \ {0}
    BY <1>1, LenProperties, GatewayAssumption DEF TypeInv
  <2>3. Len(in[q][t]) < Len(Facing(q, t))
    BY <2>1, <2>2
  <2>. QED
    BY <1>1, <2>3 DEF Waiting
<1>5. port[q][s] = "open"
  <2>1. CASE q \in ENTAs
    <3>1. ~IsRefused(q, t)
      BY <1>1 DEF AllWait, MustStop
    <3>. QED
      BY <1>1, <1>3, <1>4, <2>1, <3>1 DEF IsRefused
  <2>2. CASE q \notin ENTAs
    BY <1>1, <1>3, <2>2 DEF FlowInv, FlowOK
  <2>. QED
    BY <2>1, <2>2
<1>6. ~HasRoom(q, t)
  <2>1. ~CanTake(q, t)
    BY <1>1 DEF AllWait, MustTake
  <2>. QED
    BY <1>1, <1>3, <1>4, <1>5, <2>1 DEF CanTake
<1>7. Held(q, t) > 0
  <2>1. ~(Held(q, t) < HandCap)
    BY <1>6 DEF HasRoom
  <2>. QED
    BY <1>1, <2>1, HeldFacts
<1>. QED
  BY <1>5, <1>7

(* So, up to the TUN device, which takes what it is given, nobody waits to *)
(* give a unit to a side that is open.                                     *)
LEMMA NobodyHolds ==
  ASSUME TypeInv, FlowInv, AllWait, NEW p \in Procs, NEW s \in Sides, port[p][s] = "open"
  PROVE  Held(p, Other(s)) = 0
<1>. DEFINE Empty(q) == port[q][s] = "open" => ~(Held(q, Other(s)) > 0)
            T == {k \in 0 .. LastProc - 1 : Empty(Hop(s, k))}
<1>1. 0 \in T
  <2>1. Near(s) \in Procs /\ AtTun(Near(s), s) /\ Hop(s, 0) = Near(s)
        /\ 0 \in 0 .. LastProc - 1
    BY HopFacts
  <2>2. ~CanPut(Near(s), s)
    BY <2>1 DEF AllWait
  <2>. QED
    BY <2>1, <2>2 DEF CanPut
<1>2. ASSUME NEW k \in 0 .. LastProc - 2, k \in T PROVE k + 1 \in T
  <2>1. /\ Hop(s, k + 1) \in Procs /\ ~AtTun(Hop(s, k + 1), s)
        /\ Beyond(Hop(s, k + 1), s) = Hop(s, k) /\ k + 1 \in 0 .. LastProc - 1
    BY HopFacts
  <2>2. Empty(Hop(s, k))
    BY <1>2
  <2>3. Empty(Hop(s, k + 1))
    BY <2>1, <2>2, WaitsForNext
  <2>. QED
    BY <2>1, <2>3
<1>3. LastProc - 1 \in Nat /\ (LastProc - 1) - 1 = LastProc - 2
  BY HopFacts, GatewayAssumption
<1>4. PICK k \in 0 .. LastProc - 1 : p = Hop(s, k)
  BY HopFacts
<1>. HIDE DEF T
<1>5. \A j \in 0 .. LastProc - 1 : j \in T
  BY <1>1, <1>2, <1>3, Induction
<1>6. Empty(Hop(s, k))
  BY <1>5 DEF T
<1>7. Other(s) \in Sides
  BY SideFacts
<1>. QED
  BY <1>4, <1>6, <1>7, HeldFacts

(* Where no loop can go on, the two sides of a process are open or closed  *)
(* together, ...                                                           *)
LEMMA BothSides ==
  ASSUME TypeInv, FlowInv, AllWait, NEW p \in Procs, NEW s \in Sides, port[p][s] = "open"
  PROVE  port[p][Other(s)] = "open"
<1>1. CASE p \in ENTAs
  <2>1. ~CanDrain(p, s)
    BY DEF AllWait, MustStop
  <2>. QED
    BY <1>1, <2>1, NobodyHolds DEF CanDrain
<1>2. CASE p \notin ENTAs
  BY <1>2 DEF FlowInv, FlowOK
<1>. QED
  BY <1>1, <1>2

(* ... and so are the two ends of a link, which has not been reset.        *)
LEMMA BothEnds ==
  ASSUME TypeInv, FlowInv, AllWait, NEW p \in Procs, NEW s \in Sides, ~AtTun(p, s),
         port[p][s] = "open"
  PROVE  port[Beyond(p, s)][Other(s)] = "open" /\ LinkOf(p, s) \notin reset
<1>1. /\ Other(s) \in Sides /\ Other(Other(s)) = s /\ port[p][Other(s)] = "open"
      /\ \A r \in Sides : r = s \/ r = Other(s)
  BY SideFacts, BothSides
<1>2. Held(p, s) = 0 /\ Held(p, s) < HandCap
  BY <1>1, NobodyHolds, HeldFacts
<1>3. LinkOf(p, s) \notin reset
  BY <1>2 DEF AllWait, MustStop, CanFail, HasRoom
<1>4. in[p][s] = Facing(p, s)
  <2>1. ~CanTake(p, s)
    BY DEF AllWait, MustTake
  <2>2. ~Waiting(p, s)
    BY <1>1, <1>2, <2>1 DEF CanTake, HasRoom
  <2>. QED
    BY <2>2, HeldFacts
<1>5. ~CanEnd(p, s)
  BY DEF AllWait, MustStop
<1>. QED
  BY <1>2, <1>3, <1>4, <1>5 DEF CanEnd, AtEnd, PeerGone

(* A chain that has begun to go down can always go on: else its processes  *)
(* would all be open, or all closed, and no link be reset.                 *)
THEOREM ChainNeverStuck == Spec => []NeverStuck
<1>1. TypeInv /\ FlowInv => NeverStuck
  <2> SUFFICES ASSUME TypeInv, FlowInv, AllWait PROVE ~GoingDown
    BY Zenon DEF NeverStuck, AllWait
  <2>. DEFINE Up(p) == \A s \in Sides : port[p][s] = "open"
              First == Hop("left", 0)
              T == {k \in 0 .. LastProc - 1 : Up(Hop("left", k)) <=> Up(First)}
  <2>0. "left" \in Sides /\ "right" \in Sides /\ Other("left") = "right"
        /\ Other("right") = "left"
    BY DEF Sides, Other
  <2>1. ASSUME NEW p \in Procs, NEW s \in Sides, port[p][s] = "open" PROVE Up(p)
    BY <2>1, BothSides, SideFacts
  <2>2. 0 \in T
    BY HopFacts, <2>0
  <2>3. ASSUME NEW k \in 0 .. LastProc - 2, k \in T PROVE k + 1 \in T
    <3>. DEFINE p == Hop("left", k + 1)
                q == Hop("left", k)
    <3>1. /\ p \in Procs /\ q \in Procs /\ ~AtTun(p, "left") /\ Beyond(p, "left") = q
          /\ k + 1 \in 0 .. LastProc - 1
      BY <2>0, HopFacts
    <3>2. ~AtTun(q, "right") /\ Beyond(q, "right") = p
      BY <2>0, <3>1, ChainFacts
    <3>3. Up(p) => Up(q)
      BY <2>0, <2>1, <3>1, BothEnds
    <3>4. Up(q) => Up(p)
      BY <2>0, <2>1, <3>1, <3>2, BothEnds
    <3>. HIDE DEF Up
    <3>. QED
      BY <2>3, <3>1, <3>3, <3>4
  <2>4. LastProc - 1 \in Nat /\ (LastProc - 1) - 1 = LastProc - 2
    BY <2>0, HopFacts, GatewayAssumption
  <2>. HIDE DEF T
  <2>5. \A k \in 0 .. LastProc - 1 : k \in T
    BY <2>2, <2>3, <2>4, Induction
  <2>6. ASSUME NEW p \in Procs PROVE Up(p) <=> Up(First)
    <3>1. PICK k \in 0 .. LastProc - 1 : p = Hop("left", k)
      BY <2>0, HopFacts
    <3>2. k \in T
      BY <2>5
    <3>. HIDE DEF Up, First
    <3>. QED
      BY <3>1, <3>2 DEF T
  <2>7. ASSUME NEW p \in Procs, NEW s \in Sides, port[p][s] = "open"
        PROVE  \A q \in Procs, t \in Sides : port[q][t] = "open"
    BY <2>1, <2>6, <2>7
  <2>8. ASSUME NEW k \in reset, \A q \in Procs, t \in Sides : port[q][t] = "open"
        PROVE  FALSE
    <3>1. k \in Procs /\ ~AtTun(k, "right") /\ LinkOf(k, "right") = k
      BY GatewayAssumption DEF TypeInv, Links, Procs, AtTun, Beyond, LinkOf
    <3>. QED
      BY <2>0, <2>8, <3>1, BothEnds
  <2>. QED
    BY <2>7, <2>8 DEF GoingDown
<1>. QED
  BY <1>1, FlowAlways, PTL
-----------------------------------------------------------------------------
(* One process and one link of the chain, whichever.                       *)
CONSTANTS ThisProc, ThisLink

Proc == INSTANCE Forwarder
          WITH in <- in[ThisProc], out <- out[ThisProc], port <- port[ThisProc]

ThroughLink == INSTANCE DuplexLink
                 WITH Byte <- Unit, sent <- LinkSent(ThisLink), got <- LinkGot(ThisLink),
                      ended <- LinkEnded(ThisLink), disturbed <- ThisLink \in reset

(* The two modules mean the same by the other side and by a prefix.        *)
LEMMA SameWords ==
  /\ \A s \in Sides : Proc!Across(s) = Other(s)
  /\ \A s, t : /\ Proc!IsPrefix(s, t) <=> IsPrefix(s, t)
               /\ Proc!IsStrictPrefix(s, t) <=> IsStrictPrefix(s, t)
<1>1. ASSUME NEW s \in Sides PROVE Proc!Across(s) = Other(s)
  BY SideFacts DEF Proc!Across
<1>2. \A s, t : Proc!IsPrefix(s, t) <=> IsPrefix(s, t)
  BY Zenon DEF Proc!IsPrefix, IsPrefix
<1>3. \A s, t : Proc!IsStrictPrefix(s, t) <=> IsStrictPrefix(s, t)
  BY <1>2, Zenon DEF Proc!IsStrictPrefix, IsStrictPrefix
<1>. QED
  BY <1>1, <1>2, <1>3

(* A process of the chain starts as a Forwarder.                           *)
LEMMA ProcInit == ThisProc \in Procs /\ Init => Proc!Init
<1> SUFFICES ASSUME ThisProc \in Procs, Init PROVE Proc!Init
  OBVIOUS
<1>1. /\ in[ThisProc] = [s \in Sides |-> <<>>] /\ out[ThisProc] = [s \in Sides |-> <<>>]
      /\ port[ThisProc] = [s \in Sides |-> "open"]
  BY DEF Init
<1>. QED
  BY <1>1, Zenon DEF Proc!Init

(* What the process takes and gives, it takes and gives as a Forwarder.    *)
LEMMA ProcTakes ==
  ASSUME ThisProc \in Procs, TypeInv, FlowInv, NEW s \in Sides, Take(ThisProc, s)
  PROVE  Proc!Take(s)
<1>1. /\ port[ThisProc][s] = "open" /\ port[ThisProc][Proc!Across(s)] = "open"
      /\ UNCHANGED <<out, port>>
  BY TakeFacts, SameWords, SideFacts
<1>2. PICK v : IsStrictPrefix(in[ThisProc][s], v) /\ in' = [in EXCEPT ![ThisProc][s] = v]
  BY TakeFacts, Zenon
<1>3. in'[ThisProc] = [in[ThisProc] EXCEPT ![s] = v] /\ in'[ThisProc][s] = v
  BY <1>2 DEF TypeInv
<1>4. Proc!IsStrictPrefix(in[ThisProc][s], in'[ThisProc][s])
  BY <1>2, <1>3, SameWords, Zenon
<1>5. in'[ThisProc] = [in[ThisProc] EXCEPT ![s] = in'[ThisProc][s]]
  BY <1>3, Zenon
<1>. QED
  BY <1>1, <1>4, <1>5, Zenon DEF Proc!Take

(* What it gives is what a Forwarder may give.                             *)
LEMMA ProcPuts ==
  ASSUME ThisProc \in Procs, TypeInv, FlowInv, NEW s \in Sides, Put(ThisProc, s)
  PROVE  Proc!Put(s)
<1>1. port[ThisProc][s] = "open" /\ UNCHANGED <<in, port>>
  BY PutFacts
<1>2. PICK v : /\ IsStrictPrefix(out[ThisProc][s], v)
               /\ out' = [out EXCEPT ![ThisProc][s] = v]
               /\ IsPrefix(v, in[ThisProc][Other(s)])
  BY PutFacts, Zenon
<1>3. out'[ThisProc] = [out[ThisProc] EXCEPT ![s] = v] /\ out'[ThisProc][s] = v
  BY <1>2 DEF TypeInv
<1>4. /\ Proc!IsStrictPrefix(out[ThisProc][s], out'[ThisProc][s])
      /\ Proc!IsPrefix(out'[ThisProc][s], in[ThisProc][Proc!Across(s)])
  BY <1>2, <1>3, SameWords, Zenon
<1>5. out'[ThisProc] = [out[ThisProc] EXCEPT ![s] = out'[ThisProc][s]]
  BY <1>3, Zenon
<1>. QED
  BY <1>1, <1>4, <1>5, Zenon DEF Proc!Put

(* It closes one side or both, as a Forwarder may.                         *)
LEMMA ProcCloses ==
  ASSUME ThisProc \in Procs, TypeInv, ProcessCloses(ThisProc)
  PROVE  Proc!Close
<1>1. /\ UNCHANGED <<in, out>>
      /\ port'[ThisProc] = [s \in Sides |-> port'[ThisProc][s]]
      /\ \A t \in Sides : port'[ThisProc][t] = port[ThisProc][t] \/ ClosedWell(ThisProc, t)
      /\ \E t \in Sides : port'[ThisProc][t] # port[ThisProc][t]
  BY DEF ProcessCloses
<1>2. ASSUME NEW t \in Sides, ClosedWell(ThisProc, t) PROVE Proc!Closes(t)
  <2>1. port'[ThisProc][t] \in {"ended", "cut", "drained"} /\ port[ThisProc][t] = "open"
    BY <1>2 DEF ClosedWell, Stages
  <2>2. CASE port'[ThisProc][t] \in {"ended", "cut"}
    BY <2>1, <2>2, Zenon DEF Proc!Closes
  <2>3. CASE port'[ThisProc][t] = "drained"
    <3>1. /\ out[ThisProc][t] = in[ThisProc][Proc!Across(t)]
          /\ port'[ThisProc][Proc!Across(t)] # "open"
      BY <1>2, <2>3, SameWords, Zenon DEF ClosedWell
    <3>. QED
      BY <2>1, <2>3, <3>1, Zenon DEF Proc!Closes
  <2>. QED
    BY <2>1, <2>2, <2>3
<1>3. \A t \in Sides : Proc!Closes(t) \/ port'[ThisProc][t] = port[ThisProc][t]
  BY <1>1, <1>2, Zenon
<1>4. \E t \in Sides : Proc!Closes(t)
  BY <1>1, <1>3, Zenon
<1>. QED
  BY <1>1, <1>3, <1>4, Zenon DEF Proc!Close

(* What another process does is not seen here.                             *)
LEMMA ProcStutters ==
  ASSUME ThisProc \in Procs, TypeInv, NEW p \in Procs, p # ThisProc,
         ProcessCloses(p) \/ \E s \in Sides : Take(p, s) \/ Put(p, s)
  PROVE  UNCHANGED Proc!forwarderVars
<1>1. in'[ThisProc] = in[ThisProc] /\ out'[ThisProc] = out[ThisProc]
      /\ port'[ThisProc] = port[ThisProc]
  BY DEF ProcessCloses, Take, Put, TypeInv
<1>. QED
  BY <1>1, Zenon DEF Proc!forwarderVars

(* Every step of the chain is one of that process, or none.                *)
LEMMA ProcStep ==
  ThisProc \in Procs /\ TypeInv /\ FlowInv /\ [Next]_vars
    => [Proc!Next]_(Proc!forwarderVars)
<1> SUFFICES ASSUME ThisProc \in Procs, TypeInv, FlowInv, [Next]_vars
             PROVE  [Proc!Next]_(Proc!forwarderVars)
  OBVIOUS
<1>1. ASSUME NEW p \in Procs, ProcessCloses(p) PROVE [Proc!Next]_(Proc!forwarderVars)
  BY <1>1, ProcCloses, ProcStutters, Zenon DEF Proc!Next
<1>2. ASSUME NEW p \in Procs, NEW s \in Sides, Take(p, s) \/ Put(p, s)
      PROVE  [Proc!Next]_(Proc!forwarderVars)
  BY <1>2, ProcTakes, ProcPuts, ProcStutters, Zenon DEF Proc!Next
<1>3. ASSUME UNCHANGED <<in, out, port>> PROVE UNCHANGED Proc!forwarderVars
  BY <1>3, Zenon DEF Proc!forwarderVars
<1>4. ASSUME NEW p \in Procs, NEW s \in Sides, Resets(p, s) PROVE UNCHANGED <<in, out, port>>
  BY <1>4 DEF Resets
<1>5. ASSUME NEW k \in Links, LinkFails(k) PROVE UNCHANGED <<in, out, port>>
  BY <1>5 DEF LinkFails
<1>6. ASSUME UNCHANGED vars PROVE UNCHANGED <<in, out, port>>
  BY <1>6 DEF vars
<1>. QED
  BY <1>1, <1>2, <1>3, <1>4, <1>5, <1>6, StopFacts, TunFailsFacts, DiesFacts, Zenon DEF Next

(* Each process of the chain is a Forwarder.                               *)
THEOREM EachProcessForwards == ThisProc \in Procs => (Spec => Proc!Spec)
<1> SUFFICES ASSUME ThisProc \in Procs PROVE Spec => Proc!Spec
  OBVIOUS
<1>1. Init => Proc!Init
  BY ProcInit
<1>2. TypeInv /\ FlowInv /\ [Next]_vars => [Proc!Next]_(Proc!forwarderVars)
  BY ProcStep
<1>. QED
  BY <1>1, <1>2, FlowAlways, PTL DEF Spec, Proc!Spec
-----------------------------------------------------------------------------
PeerEnd(e) == IF e = "client" THEN "server" ELSE "client"

(* Each end of a link is a side of a process that faces the other end, and *)
(* each side that faces a process is an end of a link.                     *)
LEMMA EndFacts ==
  ASSUME ThisLink \in Links
  PROVE  /\ ThroughLink!Ends = LinkEnds
         /\ \A e \in LinkEnds :
              /\ ThroughLink!Peer(e) = PeerEnd(e) /\ PeerEnd(e) \in LinkEnds
              /\ ProcAt(ThisLink, e) \in Procs /\ SideAt(e) \in Sides
              /\ ~AtTun(ProcAt(ThisLink, e), SideAt(e))
              /\ Beyond(ProcAt(ThisLink, e), SideAt(e)) = ProcAt(ThisLink, PeerEnd(e))
              /\ Other(SideAt(e)) = SideAt(PeerEnd(e))
              /\ LinkOf(ProcAt(ThisLink, e), SideAt(e)) = ThisLink
         /\ \A e, f \in LinkEnds : ProcAt(ThisLink, e) = ProcAt(ThisLink, f) => e = f
BY GatewayAssumption
DEF ThroughLink!Ends, ThroughLink!Peer, LinkEnds, PeerEnd, ProcAt, SideAt, Links, Procs,
   Sides, AtTun, Beyond, Other, LinkOf

(* What the mapping says of an end.                                        *)
LEMMA LinkValues ==
  ASSUME NEW e \in LinkEnds
  PROVE  /\ LinkSent(ThisLink)[e] = out[ProcAt(ThisLink, e)][SideAt(e)]
         /\ LinkGot(ThisLink)[e] = in[ProcAt(ThisLink, e)][SideAt(e)]
         /\ LET how == port[ProcAt(ThisLink, e)][SideAt(e)] IN
            LinkEnded(ThisLink)[e] =
              IF how = "open" THEN "open" ELSE IF how = "ended" THEN "eof" ELSE "dropped"
BY DEF LinkSent, LinkGot, LinkEnded

(* A link of the chain starts as a DuplexLink.                             *)
LEMMA LinkInit == ThisLink \in Links /\ Init => ThroughLink!Init
<1> SUFFICES ASSUME ThisLink \in Links, Init PROVE ThroughLink!Init
  OBVIOUS
<1>1. \A e \in LinkEnds : ProcAt(ThisLink, e) \in Procs /\ SideAt(e) \in Sides
  BY EndFacts
<1>2. /\ LinkSent(ThisLink) = [e \in LinkEnds |-> <<>>]
      /\ LinkGot(ThisLink) = [e \in LinkEnds |-> <<>>]
      /\ LinkEnded(ThisLink) = [e \in LinkEnds |-> "open"]
  BY <1>1 DEF Init, LinkSent, LinkGot, LinkEnded
<1>3. (ThisLink \in reset) = FALSE
  BY DEF Init
<1>. QED
  BY <1>2, <1>3, EndFacts, Zenon DEF ThroughLink!Init

(* A unit that a process takes at an end of the link is read from it.      *)
LEMMA LinkReads ==
  ASSUME ThisLink \in Links, TypeInv, FlowInv, NEW e \in LinkEnds,
         Take(ProcAt(ThisLink, e), SideAt(e))
  PROVE  ThroughLink!Read(e)
<1>. DEFINE p == ProcAt(ThisLink, e)
            s == SideAt(e)
            f == PeerEnd(e)
            g == in[p][s]
            w == Facing(p, s)
<1>1. /\ p \in Procs /\ s \in Sides /\ ~AtTun(p, s) /\ f \in LinkEnds
      /\ w = LinkSent(ThisLink)[f] /\ ThroughLink!Peer(e) = f
  BY EndFacts, LinkValues, Zenon DEF Facing
<1>2. port[p][s] = "open" /\ UNCHANGED <<out, port, reset>>
  BY <1>1, TakeFacts
<1>3. PICK u \in Unit : /\ Append(g, u) \in Seq(Unit)
                        /\ in' = [in EXCEPT ![p][s] = Append(g, u)]
                        /\ IsPrefix(Append(g, u), w)
  BY <1>1, TakeFacts, Zenon
<1>4. g \in Seq(Unit) /\ w \in Seq(Unit)
  BY <1>1, ChainFacts, SideFacts DEF TypeInv, Facing
<1>. DEFINE v == Append(g, u)
<1>5. Len(v) = Len(g) + 1 /\ v = SubSeq(w, 1, Len(v)) /\ Len(v) \in Len(g) + 1 .. Len(w)
  <2>1. IsPrefix(v, w) /\ v \in Seq(Unit)
    BY <1>3
  <2>. HIDE DEF g, w
  <2>2. Len(v) = Len(g) + 1
    BY <1>4, AppendProperties
  <2>. HIDE DEF v
  <2>3. Len(g) \in Nat /\ Len(v) \in Nat /\ Len(w) \in Nat
    BY <1>4, <2>1, LenProperties
  <2>4. v = SubSeq(v, 1, Len(v))
    BY <2>1, SubSeqFull
  <2>5. Len(v) <= Len(w) /\ v = SubSeq(w, 1, Len(v))
    BY <2>1, <2>4 DEF IsPrefix
  <2>. QED
    BY <2>2, <2>3, <2>5
<1>6. LinkGot(ThisLink)' = [LinkGot(ThisLink) EXCEPT ![e] = v]
  <2>1. in' = [in EXCEPT ![p][s] = v]
    BY <1>3
  <2>. HIDE DEF v
  <2>2. in'[p][s] = v
    BY <1>1, <2>1 DEF TypeInv
  <2>3. \A q \in Procs, t \in Sides : ~(q = p /\ t = s) => in'[q][t] = in[q][t]
    BY <2>1 DEF TypeInv
  <2>4. ASSUME NEW d \in LinkEnds
        PROVE  in'[ProcAt(ThisLink, d)][SideAt(d)] =
                 IF d = e THEN v ELSE in[ProcAt(ThisLink, d)][SideAt(d)]
    <3>1. CASE d = e
      BY <2>2, <3>1
    <3>2. CASE d # e
      <4>1. ProcAt(ThisLink, d) \in Procs /\ SideAt(d) \in Sides /\ ProcAt(ThisLink, d) # p
        BY <3>2, EndFacts
      <4>. QED
        BY <2>3, <3>2, <4>1, Zenon
    <3>. QED
      BY <3>1, <3>2
  <2>. HIDE DEF p, s
  <2>. QED
    BY <2>4 DEF LinkGot
<1>7. LinkGot(ThisLink)[e] = g /\ LinkEnded(ThisLink)[e] = "open"
  BY <1>2, LinkValues
<1>8. /\ LinkSent(ThisLink)' = LinkSent(ThisLink)
      /\ LinkEnded(ThisLink)' = LinkEnded(ThisLink)
      /\ (ThisLink \in reset)' = (ThisLink \in reset)
  BY <1>2, Zenon DEF LinkSent, LinkEnded
<1>9. PICK n : /\ n \in Len(LinkGot(ThisLink)[e]) + 1 .. Len(LinkSent(ThisLink)[f])
               /\ LinkGot(ThisLink)' =
                    [LinkGot(ThisLink) EXCEPT ![e] = SubSeq(LinkSent(ThisLink)[f], 1, n)]
  BY <1>1, <1>5, <1>6, <1>7, Zenon
<1>. QED
  BY <1>1, <1>7, <1>8, <1>9, Zenon DEF ThroughLink!Read

(* A unit that a process gives to an end of the link is written to it.     *)
LEMMA LinkWrites ==
  ASSUME ThisLink \in Links, TypeInv, FlowInv, NEW e \in LinkEnds,
         Put(ProcAt(ThisLink, e), SideAt(e))
  PROVE  ThroughLink!Write(e)
<1>. DEFINE p == ProcAt(ThisLink, e)
            s == SideAt(e)
            o == out[p][s]
<1>1. p \in Procs /\ s \in Sides
  BY EndFacts
<1>2. port[p][s] = "open" /\ UNCHANGED <<in, port, reset>>
  BY <1>1, PutFacts
<1>3. PICK u \in Unit : Append(o, u) \in Seq(Unit) /\ out' = [out EXCEPT ![p][s] = Append(o, u)]
  BY <1>1, PutFacts, Zenon
<1>. DEFINE v == Append(o, u)
<1>4. LinkSent(ThisLink)' = [LinkSent(ThisLink) EXCEPT ![e] = v]
  <2>1. out' = [out EXCEPT ![p][s] = v]
    BY <1>3
  <2>. HIDE DEF v
  <2>2. out'[p][s] = v
    BY <1>1, <2>1 DEF TypeInv
  <2>3. \A q \in Procs, t \in Sides : ~(q = p /\ t = s) => out'[q][t] = out[q][t]
    BY <2>1 DEF TypeInv
  <2>4. ASSUME NEW d \in LinkEnds
        PROVE  out'[ProcAt(ThisLink, d)][SideAt(d)] =
                 IF d = e THEN v ELSE out[ProcAt(ThisLink, d)][SideAt(d)]
    <3>1. CASE d = e
      BY <2>2, <3>1
    <3>2. CASE d # e
      <4>1. ProcAt(ThisLink, d) \in Procs /\ SideAt(d) \in Sides /\ ProcAt(ThisLink, d) # p
        BY <3>2, EndFacts
      <4>. QED
        BY <2>3, <3>2, <4>1, Zenon
    <3>. QED
      BY <3>1, <3>2
  <2>. HIDE DEF p, s
  <2>. QED
    BY <2>4 DEF LinkSent
<1>5. LinkSent(ThisLink)[e] = o /\ LinkEnded(ThisLink)[e] = "open"
  BY <1>2, LinkValues
<1>6. /\ LinkGot(ThisLink)' = LinkGot(ThisLink)
      /\ LinkEnded(ThisLink)' = LinkEnded(ThisLink)
      /\ (ThisLink \in reset)' = (ThisLink \in reset)
  BY <1>2, Zenon DEF LinkGot, LinkEnded
<1>. QED
  BY <1>3, <1>4, <1>5, <1>6, Zenon DEF ThroughLink!Write

(* Steps that leave the ends of the link alone.                            *)
LEMMA LinkStutters ==
  ASSUME \A e \in LinkEnds : LET p == ProcAt(ThisLink, e)
                                 s == SideAt(e)
                             IN  /\ in'[p][s] = in[p][s] /\ out'[p][s] = out[p][s]
                                 /\ port'[p][s] = port[p][s],
         reset' = reset
  PROVE  UNCHANGED ThroughLink!linkVars
<1>1. /\ LinkSent(ThisLink)' = LinkSent(ThisLink) /\ LinkGot(ThisLink)' = LinkGot(ThisLink)
      /\ LinkEnded(ThisLink)' = LinkEnded(ThisLink)
  BY DEF LinkSent, LinkGot, LinkEnded
<1>2. (ThisLink \in reset)' = (ThisLink \in reset)
  BY Zenon
<1>. QED
  BY <1>1, <1>2, Zenon DEF ThroughLink!linkVars

(* A process that closes its end reads the end of the link or drops it.    *)
LEMMA LinkCloses ==
  ASSUME ThisLink \in Links, TypeInv, NEW e \in LinkEnds, ProcessCloses(ProcAt(ThisLink, e))
  PROVE  [ThroughLink!Next]_(ThroughLink!linkVars)
<1>. DEFINE p == ProcAt(ThisLink, e)
            s == SideAt(e)
            f == PeerEnd(e)
<1>1. /\ p \in Procs /\ s \in Sides /\ ~AtTun(p, s) /\ f \in LinkEnds
      /\ ThroughLink!Peer(e) = f /\ LinkOf(p, s) = ThisLink
      /\ Beyond(p, s) = ProcAt(ThisLink, f) /\ Other(s) = SideAt(f)
  BY EndFacts, Zenon
<1>2. UNCHANGED <<in, out, reset>>
  BY DEF ProcessCloses
<1>3. ASSUME NEW d \in LinkEnds, d # e
      PROVE  port'[ProcAt(ThisLink, d)][SideAt(d)] = port[ProcAt(ThisLink, d)][SideAt(d)]
  <2>1. ProcAt(ThisLink, d) \in Procs /\ SideAt(d) \in Sides /\ ProcAt(ThisLink, d) # p
    BY <1>3, EndFacts
  <2>. QED
    BY <1>1, <2>1, ClosedStays
<1>4. /\ LinkSent(ThisLink)' = LinkSent(ThisLink) /\ LinkGot(ThisLink)' = LinkGot(ThisLink)
      /\ (ThisLink \in reset)' = (ThisLink \in reset)
  BY <1>2, Zenon DEF LinkSent, LinkGot
<1>5. CASE port'[p][s] = port[p][s]
  <2>1. \A d \in LinkEnds : LET q == ProcAt(ThisLink, d)
                                t == SideAt(d)
                            IN  /\ in'[q][t] = in[q][t] /\ out'[q][t] = out[q][t]
                                /\ port'[q][t] = port[q][t]
    BY <1>2, <1>3, <1>5, Zenon
  <2>. QED
    BY <1>2, <2>1, LinkStutters, Zenon
<1>6. CASE ClosedWell(p, s)
  <2>. DEFINE how == IF port'[p][s] = "ended" THEN "eof" ELSE "dropped"
  <2>1. port[p][s] = "open" /\ port'[p][s] # "open"
    BY <1>6 DEF ClosedWell
  <2>2. LinkEnded(ThisLink)[e] = "open"
    BY <2>1, LinkValues
  <2>3. LinkEnded(ThisLink)' = [LinkEnded(ThisLink) EXCEPT ![e] = how]
    <3>1. ASSUME NEW d \in LinkEnds
          PROVE  (LET h == port'[ProcAt(ThisLink, d)][SideAt(d)] IN
                  IF h = "open" THEN "open" ELSE IF h = "ended" THEN "eof" ELSE "dropped")
                   = IF d = e THEN how ELSE LinkEnded(ThisLink)[d]
      BY <1>3, <2>1, LinkValues
    <3>2. LinkEnded(ThisLink)' =
            [d \in LinkEnds |-> LET h == port'[ProcAt(ThisLink, d)][SideAt(d)] IN
               IF h = "open" THEN "open" ELSE IF h = "ended" THEN "eof" ELSE "dropped"]
      BY DEF LinkEnded
    <3>3. LinkEnded(ThisLink)' = [d \in LinkEnds |-> IF d = e THEN how ELSE LinkEnded(ThisLink)[d]]
      BY <3>1, <3>2, Zenon
    <3>4. LinkEnded(ThisLink) = [d \in LinkEnds |-> LinkEnded(ThisLink)[d]]
      BY Zenon DEF LinkEnded
    <3>. HIDE DEF how
    <3>. QED
      BY <3>3, <3>4
  <2>4. CASE port'[p][s] = "ended"
    <3>1. PeerGone(p, s) /\ in[p][s] = Facing(p, s)
      BY <1>1, <1>6, <2>4 DEF ClosedWell
    <3>2. LinkEnded(ThisLink)[f] # "open"
      BY <1>1, <3>1, LinkValues DEF PeerGone
    <3>3. LinkGot(ThisLink)[e] = LinkSent(ThisLink)[f]
      BY <1>1, <3>1, LinkValues, Zenon DEF Facing
    <3>4. LinkEnded(ThisLink)' = [LinkEnded(ThisLink) EXCEPT ![e] = "eof"]
      BY <2>3, <2>4
    <3>5. ThroughLink!ReadEof(e)
      BY <1>1, <1>4, <2>2, <3>2, <3>3, <3>4, Zenon DEF ThroughLink!ReadEof
    <3>. QED
      BY <3>5, EndFacts, Zenon DEF ThroughLink!Next
  <2>5. CASE port'[p][s] # "ended"
    <3>1. LinkEnded(ThisLink)' = [LinkEnded(ThisLink) EXCEPT ![e] = "dropped"]
      BY <2>3, <2>5
    <3>2. (ThisLink \in reset)' \in {(ThisLink \in reset), TRUE}
      BY <1>4, Zenon
    <3>3. ThroughLink!Drop(e)
      BY <1>4, <2>2, <3>1, <3>2, Zenon DEF ThroughLink!Drop
    <3>. QED
      BY <3>3, EndFacts, Zenon DEF ThroughLink!Next
  <2>. QED
    BY <2>4, <2>5
<1>. QED
  BY <1>1, <1>5, <1>6, ClosedStays, Zenon

(* A reset disturbs the link it is of.                                     *)
LEMMA LinkResets ==
  ASSUME ThisLink \in Links, UNCHANGED <<in, out, port>>, NEW k \in Links, k \notin reset,
         reset' = reset \cup {k}
  PROVE  [ThroughLink!Next]_(ThroughLink!linkVars)
<1>1. /\ LinkSent(ThisLink)' = LinkSent(ThisLink) /\ LinkGot(ThisLink)' = LinkGot(ThisLink)
      /\ LinkEnded(ThisLink)' = LinkEnded(ThisLink)
  BY Zenon DEF LinkSent, LinkGot, LinkEnded
<1>2. CASE k = ThisLink
  <2>1. ThisLink \notin reset /\ (ThisLink \in reset)' = TRUE
    BY <1>2
  <2>2. ThroughLink!Disturb
    BY <1>1, <2>1, Zenon DEF ThroughLink!Disturb
  <2>. QED
    BY <2>2, Zenon DEF ThroughLink!Next
<1>3. CASE k # ThisLink
  <2>1. (ThisLink \in reset)' <=> (ThisLink \in reset)
    BY <1>3
  <2>2. (ThisLink \in reset)' = (ThisLink \in reset)
    BY <2>1
  <2>. QED
    BY <1>1, <2>2, Zenon DEF ThroughLink!linkVars
<1>. QED
  BY <1>2, <1>3

(* Units that pass elsewhere are not seen by this link.                    *)
LEMMA LinkElsewhere ==
  ASSUME ThisLink \in Links, TypeInv, NEW p \in Procs,
         \/ /\ ProcessCloses(p) /\ \A e \in LinkEnds : ProcAt(ThisLink, e) # p
         \/ \E s \in Sides : /\ Take(p, s) \/ Put(p, s)
                             /\ \A e \in LinkEnds : ProcAt(ThisLink, e) = p => SideAt(e) # s
  PROVE  UNCHANGED ThroughLink!linkVars
<1>1. \A e \in LinkEnds : ProcAt(ThisLink, e) \in Procs /\ SideAt(e) \in Sides
  BY EndFacts
<1>2. CASE ProcessCloses(p) /\ \A e \in LinkEnds : ProcAt(ThisLink, e) # p
  <2>1. UNCHANGED <<in, out, reset>>
    BY <1>2 DEF ProcessCloses
  <2>2. \A e \in LinkEnds :
          port'[ProcAt(ThisLink, e)][SideAt(e)] = port[ProcAt(ThisLink, e)][SideAt(e)]
    BY <1>1, <1>2, ClosedStays
  <2>. QED
    BY <2>1, <2>2, LinkStutters
<1>3. ASSUME NEW s \in Sides, Take(p, s) \/ Put(p, s),
             \A e \in LinkEnds : ProcAt(ThisLink, e) = p => SideAt(e) # s
      PROVE  UNCHANGED ThroughLink!linkVars
  <2>1. UNCHANGED <<port, reset>>
    BY <1>3 DEF Take, Put
  <2>2. \A q \in Procs, t \in Sides :
          ~(q = p /\ t = s) => in'[q][t] = in[q][t] /\ out'[q][t] = out[q][t]
    BY <1>3 DEF Take, Put, TypeInv
  <2>3. \A e \in LinkEnds :
          /\ in'[ProcAt(ThisLink, e)][SideAt(e)] = in[ProcAt(ThisLink, e)][SideAt(e)]
          /\ out'[ProcAt(ThisLink, e)][SideAt(e)] = out[ProcAt(ThisLink, e)][SideAt(e)]
    BY <1>1, <1>3, <2>2
  <2>. QED
    BY <2>1, <2>3, LinkStutters, Zenon
<1>. QED
  BY <1>2, <1>3

(* Every step of the chain is one of that link, or none.                   *)
LEMMA LinkStep ==
  ThisLink \in Links /\ TypeInv /\ FlowInv /\ [Next]_vars
    => [ThroughLink!Next]_(ThroughLink!linkVars)
<1> SUFFICES ASSUME ThisLink \in Links, TypeInv, FlowInv, [Next]_vars
             PROVE  [ThroughLink!Next]_(ThroughLink!linkVars)
  OBVIOUS
<1>. DEFINE Goal == [ThroughLink!Next]_(ThroughLink!linkVars)
<1>1. ASSUME NEW p \in Procs, ProcessCloses(p) PROVE Goal
  BY <1>1, LinkCloses, LinkElsewhere, Zenon
<1>2. ASSUME NEW p \in Procs, NEW s \in Sides, Take(p, s) \/ Put(p, s) PROVE Goal
  <2>1. CASE \A e \in LinkEnds : ProcAt(ThisLink, e) = p => SideAt(e) # s
    BY <1>2, <2>1, LinkElsewhere, Zenon
  <2>2. CASE \E e \in LinkEnds : ProcAt(ThisLink, e) = p /\ SideAt(e) = s
    <3>1. PICK e \in LinkEnds : ProcAt(ThisLink, e) = p /\ SideAt(e) = s
      BY <2>2
    <3>2. ThroughLink!Read(e) \/ ThroughLink!Write(e)
      BY <1>2, <3>1, LinkReads, LinkWrites, Zenon
    <3>. QED
      BY <3>1, <3>2, EndFacts, Zenon DEF ThroughLink!Next
  <2>. QED
    BY <2>1, <2>2, Zenon
<1>3. ASSUME NEW p \in Procs, NEW s \in Sides, Resets(p, s) PROVE Goal
  <2>1. /\ UNCHANGED <<in, out, port>> /\ LinkOf(p, s) \notin reset
        /\ reset' = reset \cup {LinkOf(p, s)} /\ LinkOf(p, s) \in Links
    BY <1>3, ChainFacts DEF Resets
  <2>. QED
    BY <2>1, LinkResets, Zenon
<1>4. ASSUME NEW k \in Links, LinkFails(k) PROVE Goal
  BY <1>4, LinkResets, Zenon DEF LinkFails
<1>5. ASSUME UNCHANGED vars PROVE Goal
  <2>1. UNCHANGED <<in, out, port, reset>>
    BY <1>5 DEF vars
  <2>2. UNCHANGED ThroughLink!linkVars
    BY <2>1, LinkStutters
  <2>. QED
    BY <2>2, Zenon
<1>. QED
  BY <1>1, <1>2, <1>3, <1>4, <1>5, StopFacts, TunFailsFacts, DiesFacts, Zenon DEF Next

(* Each connection of the chain is a DuplexLink, as a TcpStream or the     *)
(* DuplexStream of a rats-tls session is.                                  *)
THEOREM EachLinkDelivers == ThisLink \in Links => (Spec => ThroughLink!Spec)
<1> SUFFICES ASSUME ThisLink \in Links PROVE Spec => ThroughLink!Spec
  OBVIOUS
<1>1. Init => ThroughLink!Init
  BY LinkInit
<1>2. TypeInv /\ FlowInv /\ [Next]_vars => [ThroughLink!Next]_(ThroughLink!linkVars)
  BY LinkStep
<1>. QED
  BY <1>1, <1>2, FlowAlways, PTL DEF Spec, ThroughLink!Spec
=============================================================================
