---------------------------- MODULE GatewayParts ----------------------------
(* The chain of Gateway, seen as its parts: each process and each link has *)
(* the variables of its own module as a part of those of the chain.        *)
EXTENDS Gateway

Proc(p) == INSTANCE Forwarder WITH in <- in[p], out <- out[p], port <- port[p]

ThroughLink(k) == INSTANCE DuplexLink
  WITH Byte <- Unit, sent <- LinkSent(k), got <- LinkGot(k), ended <- LinkEnded(k),
       disturbed <- k \in reset

(* The parts are the ones their own modules are shown to implement.        *)
PartsSpec ==
  /\ \A p \in Procs : Proc(p)!Init
  /\ \A k \in Links : ThroughLink(k)!Init
  /\ [][/\ \A p \in Procs : UNCHANGED Proc(p)!forwarderVars \/ Proc(p)!Next
        /\ \A k \in Links : UNCHANGED ThroughLink(k)!linkVars \/ ThroughLink(k)!Next]_vars
=============================================================================
