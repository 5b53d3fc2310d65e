----------------------------- MODULE Forwarder -----------------------------
(***************************************************************************)
(* What a process of the chain promises the two it connects, whether it is *)
(* an ENTA between its TUN device and an ENTG, or an ENTG between an ENTA  *)
(* and the other ENTG: it has two sides, and gives each, in order, what it *)
(* took from the other.  A side that closes as "drained", because nothing  *)
(* more will come from the other side, was given all of it.                *)
(***************************************************************************)
EXTENDS Sequences, SequencesExt

CONSTANT Sides  \* the two of them

VARIABLES
  in,   \* in[s]: what the process took from side s
  out,  \* out[s]: what it has given to side s
  port  \* port[s]: "open", or how the process' use of side s ended

forwarderVars == <<in, out, port>>

Across(s) == CHOOSE t \in Sides : t # s

Init ==
  /\ in = [s \in Sides |-> <<>>]
  /\ out = [s \in Sides |-> <<>>]
  /\ port = [s \in Sides |-> "open"]

(* Nothing more is taken when it could not be given.                       *)
Take(s) ==
  /\ port[s] = "open" /\ port[Across(s)] = "open"
  /\ IsStrictPrefix(in[s], in'[s])
  /\ in' = [in EXCEPT ![s] = in'[s]]
  /\ UNCHANGED <<out, port>>

Put(s) ==
  /\ port[s] = "open"
  /\ IsStrictPrefix(out[s], out'[s])
  /\ IsPrefix(out'[s], in[Across(s)])
  /\ out' = [out EXCEPT ![s] = out'[s]]
  /\ UNCHANGED <<in, port>>

(* One side closes, or both at once: its stream has ended, it was drained, *)
(* or it was cut.                                                          *)
Closes(s) ==
  /\ port[s] = "open"
  /\ \/ port'[s] \in {"ended", "cut"}
     \/ port'[s] = "drained" /\ port'[Across(s)] # "open" /\ out[s] = in[Across(s)]

Close ==
  /\ \E s \in Sides : Closes(s)
  /\ \A s \in Sides : Closes(s) \/ port'[s] = port[s]
  /\ port' = [s \in Sides |-> port'[s]]
  /\ UNCHANGED <<in, out>>

Next == Close \/ \E s \in Sides : Take(s) \/ Put(s)

Spec == Init /\ [][Next]_forwarderVars
=============================================================================
