------------------------------ MODULE EntaHost ------------------------------
(***************************************************************************)
(* The life of the ENTA processes of one host: main() and the setup half   *)
(* of run() in enta/src/main.rs, setup_tun, setup_netfilter and clean_up   *)
(* in enta/src/capture/tun.rs.  The state that matters is the host's, not  *)
(* the process's: netfilter rules and policy routing outlive a process     *)
(* that dies, and a later process finds them.                              *)
(*                                                                         *)
(* Each line of the shell scripts is a step of its own, since a process    *)
(* can be killed between any two of them.  `ip route flush cache` changes  *)
(* nothing here; it matters as the line that decides the script's status.  *)
(***************************************************************************)
EXTENDS Integers, Sequences, FiniteSets

CONSTANTS
  Enta,        \* the ENTA processes a host may run
  Port,        \* TCP ports
  NoPort,      \* the value of an option that is not given
  Options,     \* the command lines a host may use: what options may be
  MaxStarts,   \* bound on how often processes are started
  MaxMishaps   \* MaxMishaps[m]: bound on the mishaps of each kind

Mishaps == {"killed", "interruptedEarly", "setupFault", "cleanFault"}

ASSUME HostAssumption ==
  /\ NoPort \notin Port
  /\ Options \subseteq [Enta -> [capture : Port \cup {NoPort}, replay : Port \cup {NoPort}]]
  /\ MaxStarts \in Nat
  /\ MaxMishaps \in [Mishaps -> Nat]

(* At most one process of a host captures and at most one replays; two     *)
(* capturing ones take each other's table 8 away, see the README.          *)
ASSUME OneOfAKind ==
  \A o \in Options : \A i, j \in Enta : i # j =>
    /\ o[i].capture = NoPort \/ o[j].capture = NoPort
    /\ o[i].replay = NoPort \/ o[j].replay = NoPort

VARIABLES
  options,   \* options[i]: the --capture and --replay of i, the same at every start
  stage,     \* where main() of each process is
  lines,     \* the script lines it still has to run in that stage
  devices,   \* the processes whose TUN device exists
  dnat,      \* dnat[p]: rules of nat OUTPUT that send dport p to 192.168.0.254
  table8,    \* the processes through whose TUN device table 8 routes
  ipRules,   \* the ports that an ip rule sends to table 8
  redirect,  \* redirect[p]: rules of nat PREROUTING that redirect to port p
  starts,    \* how often processes were started
  refused,   \* history: setups that failed as the host was not clean
  mishaps    \* mishaps[m]: mishaps of each kind so far

procVars == <<stage, lines, devices, starts>>
hostVars == <<dnat, table8, ipRules, redirect>>
vars == <<options, procVars, hostVars, refused, mishaps>>

Capture(i) == options[i].capture

Replay(i) == options[i].replay

Captures(i) == Capture(i) # NoPort

Replays(i) == Replay(i) # NoPort

\* Mutants of CaptureClean: the DNAT rule is forgotten; the ip rules are.
CaptureCleanNoDnat == <<"route flush", "rule flush", "flush cache">>
CaptureCleanNoRule == <<"-D OUTPUT", "route flush", "flush cache">>

CaptureClean == <<"-D OUTPUT", "route flush", "rule flush", "flush cache">>

CaptureSetup == <<"-A OUTPUT", "route add", "rule add", "flush cache">>

\* Mutant of CleanLines: the routes are cleaned whatever the options are.
CleanLinesAll(i) == Tail(CaptureClean) \o (IF Replays(i) THEN <<"-D PREROUTING">> ELSE <<>>)

CleanLines(i) == (IF Captures(i) THEN CaptureClean ELSE <<>>)
                   \o (IF Replays(i) THEN <<"-D PREROUTING">> ELSE <<>>)

SetupLines(i) == (IF Captures(i) THEN CaptureSetup ELSE <<>>)
                   \o (IF Replays(i) THEN <<"-A PREROUTING">> ELSE <<>>)

ReplayLines == {"-A PREROUTING", "-D PREROUTING"}

OneLess(n) == IF n = 0 THEN 0 ELSE n - 1

Init ==
  /\ options \in Options
  /\ stage = [i \in Enta |-> "off"]
  /\ lines = [i \in Enta |-> <<>>]
  /\ devices = {}
  /\ dnat = [p \in Port |-> 0]
  /\ table8 = {}
  /\ ipRules = {}
  /\ redirect = [p \in Port |-> 0]
  /\ starts = 0
  /\ refused = 0
  /\ mishaps = [m \in Mishaps |-> 0]

Mishap(m) ==
  /\ mishaps[m] < MaxMishaps[m]
  /\ mishaps' = [mishaps EXCEPT ![m] = @ + 1]

(* The TUN device goes with its file, and the routes through it go too.    *)
DeviceGoes(i) ==
  /\ devices' = devices \ {i}
  /\ table8' = table8 \ {i}
-----------------------------------------------------------------------------
Start(i) ==
  /\ stage[i] = "off"
  /\ starts < MaxStarts
  /\ starts' = starts + 1
  /\ stage' = [stage EXCEPT ![i] = "connecting"]
  /\ UNCHANGED <<lines, devices, hostVars, refused, mishaps>>

(* Mutant of RunReturns: let result = run(args).await? skips clean_up.     *)
RunReturnsAtOnce(i) ==
  /\ stage' = [stage EXCEPT ![i] = IF @ = "running" THEN "cleaning" ELSE "off"]
  /\ lines' = [lines EXCEPT ![i] = IF stage[i] = "running" THEN CleanLines(i) ELSE <<>>]
  /\ DeviceGoes(i)
  /\ UNCHANGED <<dnat, ipRules, redirect, starts>>

(* run() returns, with an error or not, and main() calls clean_up.         *)
RunReturns(i) ==
  /\ stage' = [stage EXCEPT ![i] = "cleaning"]
  /\ lines' = [lines EXCEPT ![i] = CleanLines(i)]
  /\ DeviceGoes(i)
  /\ UNCHANGED <<dnat, ipRules, redirect, starts>>

(* connect_to_entg, with or without the rats-tls upgrade.                  *)
Connects(i) ==
  /\ stage[i] = "connecting"
  /\ stage' = [stage EXCEPT ![i] = "device"]
  /\ UNCHANGED <<lines, devices, starts, hostVars, refused, mishaps>>

ConnectFails(i) ==
  /\ stage[i] = "connecting"
  /\ RunReturns(i)
  /\ UNCHANGED <<refused, mishaps>>

CreatesDevice(i) ==
  /\ stage[i] = "device"
  /\ \/ /\ devices' = devices \cup {i}
        /\ stage' = [stage EXCEPT ![i] = "setup"]
        /\ lines' = [lines EXCEPT ![i] = SetupLines(i)]
        /\ UNCHANGED <<starts, hostVars, refused, mishaps>>
     \/ Mishap("setupFault") /\ RunReturns(i) /\ UNCHANGED refused

(* The effect of a script line that succeeds.                              *)
Effect(i, line) ==
  /\ dnat' = CASE line = "-A OUTPUT" -> [dnat EXCEPT ![Capture(i)] = @ + 1]
               [] line = "-D OUTPUT" -> [dnat EXCEPT ![Capture(i)] = OneLess(@)]
               [] OTHER -> dnat
  /\ table8' = CASE line = "route add" -> {i}
                 [] line = "route flush" -> {}
                 [] OTHER -> table8
  /\ ipRules' = CASE line = "rule add" -> ipRules \cup {Capture(i)}
                  [] line = "rule flush" -> {}
                  [] OTHER -> ipRules
  /\ redirect' = CASE line = "-A PREROUTING" -> [redirect EXCEPT ![Replay(i)] = @ + 1]
                   [] line = "-D PREROUTING" -> [redirect EXCEPT ![Replay(i)] = OneLess(@)]
                   [] OTHER -> redirect

(* ip refuses to add what exists; iptables -A does not mind.               *)
Exists(i, line) ==
  \/ line = "route add" /\ table8 # {}
  \/ line = "rule add" /\ Capture(i) \in ipRules

SetupLine(i) ==
  /\ stage[i] = "setup"
  /\ lines[i] # <<>>
  /\ ~Exists(i, Head(lines[i]))
  /\ Effect(i, Head(lines[i]))
  /\ lines' = [lines EXCEPT ![i] = Tail(@)]
  /\ UNCHANGED <<stage, devices, starts, refused, mishaps>>

(* The scripts run with -e: the first line that fails ends the setup.      *)
SetupLineFails(i) ==
  /\ stage[i] = "setup"
  /\ lines[i] # <<>>
  /\ \/ Exists(i, Head(lines[i])) /\ refused' = refused + 1 /\ UNCHANGED mishaps
     \/ Mishap("setupFault") /\ UNCHANGED refused
  /\ RunReturns(i)

SetupDone(i) ==
  /\ stage[i] = "setup"
  /\ lines[i] = <<>>
  /\ stage' = [stage EXCEPT ![i] = "running"]
  /\ UNCHANGED <<lines, devices, starts, hostVars, refused, mishaps>>

(* The exchange ends or ctrl_c is received (module EntaExchange).          *)
ExchangeEnds(i) ==
  /\ stage[i] = "running"
  /\ RunReturns(i)
  /\ UNCHANGED <<refused, mishaps>>

(* clean_up runs without -e: a line that has nothing to delete is passed.  *)
CleanLine(i) ==
  /\ stage[i] = "cleaning"
  /\ lines[i] # <<>>
  /\ Effect(i, Head(lines[i]))
  /\ lines' = [lines EXCEPT ![i] = Tail(@)]
  /\ UNCHANGED <<stage, devices, starts, refused, mishaps>>

(* A line that fails is passed over: the rule or the route stays.          *)
CleanLineFails(i) ==
  /\ stage[i] = "cleaning"
  /\ lines[i] # <<>>
  /\ Head(lines[i]) # "flush cache"
  /\ Mishap("cleanFault")
  /\ lines' = [lines EXCEPT ![i] = Tail(@)]
  /\ UNCHANGED <<stage, devices, starts, hostVars, refused>>

(* A shell cannot be run, its last line fails, or it dies between two: of  *)
(* a second Ctrl-C, which the terminal sends to it as well, while ENTA has *)
(* a handler by now.  clean_up returns without the lines that are left.    *)
CleanUpFails(i) ==
  /\ stage[i] = "cleaning"
  /\ lines[i] # <<>>
  /\ Mishap("cleanFault")
  /\ stage' = [stage EXCEPT ![i] = "off"]
  /\ lines' = [lines EXCEPT ![i] = <<>>]
  /\ UNCHANGED <<devices, starts, hostVars, refused>>

Exits(i) ==
  /\ stage[i] \in {"cleaning", "orphan"}
  /\ lines[i] = <<>>
  /\ stage' = [stage EXCEPT ![i] = "off"]
  /\ UNCHANGED <<lines, devices, starts, hostVars, refused, mishaps>>
-----------------------------------------------------------------------------
(* The process dies without another instruction of its own.                *)
Dies(i) ==
  /\ stage' = [stage EXCEPT ![i] = "off"]
  /\ lines' = [lines EXCEPT ![i] = <<>>]
  /\ DeviceGoes(i)
  /\ UNCHANGED <<starts, dnat, ipRules, redirect, refused>>

Killed(i) ==
  /\ stage[i] # "off"
  /\ Mishap("killed")
  /\ Dies(i)

(* The process is killed and the shell it waits for is not: the shell goes *)
(* on with its script, on a host without the TUN device.  It has finished  *)
(* by the time somebody starts the process again.                          *)
ShellOutlives(i) ==
  /\ stage[i] \in {"setup", "cleaning"}
  /\ lines[i] # <<>>
  /\ Mishap("killed")
  /\ stage' = [stage EXCEPT ![i] = "orphan"]
  /\ lines' = [lines EXCEPT ![i] = IF Len(@) > 1 /\ @[Len(@)] \in ReplayLines
                                   THEN SubSeq(@, 1, Len(@) - 1) ELSE @]
  /\ DeviceGoes(i)
  /\ UNCHANGED <<starts, dnat, ipRules, redirect, refused>>

OrphanLine(i) ==
  /\ stage[i] = "orphan"
  /\ lines[i] # <<>>
  /\ IF Exists(i, Head(lines[i])) \/ Head(lines[i]) = "route add"
     THEN lines' = [lines EXCEPT ![i] = <<>>] /\ UNCHANGED hostVars
     ELSE lines' = [lines EXCEPT ![i] = Tail(@)] /\ Effect(i, Head(lines[i]))
  /\ UNCHANGED <<stage, devices, starts, refused, mishaps>>

(* Ctrl-C before run() has come to its select!: tokio's handler for SIGINT *)
(* is installed when ctrl_c() is first polled, until then SIGINT kills.    *)
InterruptedEarly(i) ==
  /\ stage[i] \in {"connecting", "device", "setup"}
  /\ Mishap("interruptedEarly")
  /\ Dies(i)

Step(i) ==
  \/ Start(i) \/ Connects(i) \/ ConnectFails(i) \/ CreatesDevice(i)
  \/ SetupLine(i) \/ SetupLineFails(i) \/ SetupDone(i) \/ ExchangeEnds(i)
  \/ CleanLine(i) \/ CleanLineFails(i) \/ CleanUpFails(i) \/ Exits(i)
  \/ Killed(i) \/ ShellOutlives(i) \/ OrphanLine(i) \/ InterruptedEarly(i)

Next ==
  /\ UNCHANGED options
  /\ \E i \in Enta : Step(i)

Spec == Init /\ [][Next]_vars
-----------------------------------------------------------------------------
(* A process that forwards packets has everything in place that brings     *)
(* them to it: whatever earlier processes left behind, and whatever the    *)
(* other process of the host does while it runs or cleans up.              *)
RunningIsCaptured ==
  \A i \in Enta : stage[i] = "running" =>
    /\ i \in devices
    /\ Captures(i) => dnat[Capture(i)] > 0 /\ Capture(i) \in ipRules /\ table8 = {i}
    /\ Replays(i) => redirect[Replay(i)] > 0

Untouched ==
  /\ \A p \in Port : dnat[p] = 0 /\ redirect[p] = 0
  /\ ipRules = {} /\ table8 = {} /\ devices = {}

Mess == mishaps["killed"] + mishaps["interruptedEarly"] + mishaps["cleanFault"]

(* "Clean up before program exit" (main.rs:67): when every process has     *)
(* left main(), at whatever point its run() failed, the host is as before. *)
CleanExit ==
  (\A i \in Enta : stage[i] = "off")
    /\ Mess = 0
    => Untouched

(* main.rs:67 with Ctrl-C, the way main.rs:92 provides to stop the program. *)
CleanExitOnCtrlC ==
  (\A i \in Enta : stage[i] = "off")
    /\ mishaps["killed"] + mishaps["cleanFault"] = 0
    => Untouched

(* Each mishap leaves at most one rule of each kind behind, for good: they *)
(* do not multiply over the restarts that follow, although a restart adds  *)
(* a second rule next to the stale one and its clean_up deletes one.       *)
LeftoversBounded ==
  LET active == {i \in Enta : stage[i] # "off"}
  IN \A p \in Port :
       /\ dnat[p] <= Mess + Cardinality({i \in active : Capture(i) = p})
       /\ redirect[p] <= Mess + Cardinality({i \in active : Replay(i) = p})

(* A mishap costs at most one failed start: the start that finds a stale   *)
(* ip rule fails, but its clean_up flushes it.                             *)
StartsRecover == refused <= Mess
=============================================================================
