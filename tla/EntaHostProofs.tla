--------------------------- MODULE EntaHostProofs ---------------------------
(* Theorems about EntaHost, for any number of processes and restarts, all  *)
(* command lines and every order of the mishaps.                           *)
EXTENDS EntaHost, FiniteSetTheorems, SequenceTheorems, TLAPS

Line == {"-A OUTPUT", "route add", "rule add", "flush cache", "-A PREROUTING",
         "-D OUTPUT", "route flush", "rule flush", "-D PREROUTING"}

Stage == {"off", "connecting", "device", "setup", "running", "cleaning", "orphan"}

(* Types of the variables.                                                 *)
TypeOK ==
  /\ options \in Options
  /\ stage \in [Enta -> Stage]
  /\ lines \in [Enta -> Seq(Line)]
  /\ devices \subseteq Enta
  /\ dnat \in [Port -> Nat]
  /\ table8 \subseteq Enta
  /\ ipRules \subseteq Port
  /\ redirect \in [Port -> Nat]
  /\ starts \in Nat
  /\ refused \in Nat
  /\ mishaps \in [Mishaps -> Nat]

(* What a process captures and replays is a port, and at most one process  *)
(* does either.                                                            *)
LEMMA OptionFacts ==
  ASSUME options \in Options
  PROVE  /\ \A i \in Enta : Captures(i) => Capture(i) \in Port
         /\ \A i \in Enta : Replays(i) => Replay(i) \in Port
         /\ \A i, j \in Enta : Captures(i) /\ Captures(j) => i = j
         /\ \A i, j \in Enta : Replays(i) /\ Replays(j) => i = j
<1>1. options \in [Enta -> [capture : Port \cup {NoPort}, replay : Port \cup {NoPort}]]
  BY HostAssumption
<1>2. \A i \in Enta : Capture(i) \in Port \cup {NoPort} /\ Replay(i) \in Port \cup {NoPort}
  BY <1>1 DEF Capture, Replay
<1>3. \A i, j \in Enta : i # j =>
        /\ Capture(i) = NoPort \/ Capture(j) = NoPort
        /\ Replay(i) = NoPort \/ Replay(j) = NoPort
  BY OneOfAKind DEF Capture, Replay
<1>. QED
  BY <1>2, <1>3 DEF Captures, Replays
-----------------------------------------------------------------------------
(* Scripts: what they consist of, and that no line comes twice.            *)
Items(s) == {s[n] : n \in 1 .. Len(s)}
Distinct(s) == \A m, n \in 1 .. Len(s) : s[m] = s[n] => m = n

(* A line that was run is gone, and the others are still to come.          *)
LEMMA TailFacts ==
  ASSUME NEW S, NEW s \in Seq(S), s # <<>>, Distinct(s)
  PROVE  /\ Tail(s) \in Seq(S) /\ Distinct(Tail(s))
         /\ Head(s) \in Items(s) /\ Head(s) \in S
         /\ Items(Tail(s)) = Items(s) \ {Head(s)}
<1>1. /\ Head(s) \in S /\ Head(s) = s[1] /\ Tail(s) \in Seq(S)
      /\ Len(Tail(s)) = Len(s) - 1 /\ Len(s) \in Nat /\ Len(s) > 0
      /\ \A n \in 1 .. Len(s) - 1 : Tail(s)[n] = s[n + 1]
  BY HeadTailProperties, EmptySeq, LenProperties
<1>. DEFINE t == Tail(s)
            k == Len(s)
<1>2. k \in Nat /\ k > 0 /\ Len(t) = k - 1 /\ \A n \in 1 .. k - 1 : t[n] = s[n + 1]
  BY <1>1
<1>3. \A m, n \in 1 .. k : s[m] = s[n] => m = n
  BY DEF Distinct
<1>4. Items(s) = {s[n] : n \in 1 .. k} /\ Items(t) = {t[n] : n \in 1 .. Len(t)}
  BY Zenon DEF Items
<1>. HIDE DEF t, k
<1>5. \A m, n \in 1 .. Len(t) : t[m] = t[n] => m = n
  <2> SUFFICES ASSUME NEW m \in 1 .. Len(t), NEW n \in 1 .. Len(t), t[m] = t[n]
               PROVE  m = n
    OBVIOUS
  <2>1. s[m + 1] = s[n + 1] /\ m + 1 \in 1 .. k /\ n + 1 \in 1 .. k
    BY <1>2
  <2>2. m + 1 = n + 1
    BY <1>3, <2>1
  <2>. QED
    BY <2>2
<1>6. Items(t) = Items(s) \ {s[1]}
  <2>1. ASSUME NEW x \in Items(t) PROVE x \in Items(s) \ {s[1]}
    <3>1. PICK n \in 1 .. Len(t) : x = t[n]
      BY <1>4
    <3>2. x = s[n + 1] /\ n + 1 \in 1 .. k /\ 1 \in 1 .. k
      BY <1>2, <3>1
    <3>3. n + 1 # 1
      BY <1>2
    <3>. QED
      BY <1>3, <1>4, <3>2, <3>3
  <2>2. ASSUME NEW x \in Items(s), x # s[1] PROVE x \in Items(t)
    <3>1. PICK n \in 1 .. k : x = s[n]
      BY <1>4
    <3>2. n # 1
      BY <2>2, <3>1
    <3>3. n - 1 \in 1 .. Len(t) /\ t[n - 1] = s[(n - 1) + 1] /\ (n - 1) + 1 = n
      BY <1>2, <3>2
    <3>. QED
      BY <1>4, <3>1, <3>3
  <2>. QED
    BY <2>1, <2>2
<1>7. s[1] \in Items(s)
  BY <1>2, <1>4
<1>. QED
  BY <1>1, <1>5, <1>6, <1>7 DEF t, Distinct

(* A script that is cut off before its last line has no line that it had   *)
(* not before.                                                             *)
LEMMA FrontFacts ==
  ASSUME NEW S, NEW s \in Seq(S), Distinct(s), Len(s) > 1
  PROVE  LET f == SubSeq(s, 1, Len(s) - 1)
         IN  f \in Seq(S) /\ Distinct(f) /\ Items(f) \subseteq Items(s)
<1>. DEFINE f == SubSeq(s, 1, Len(s) - 1)
            k == Len(s)
<1>1. k \in Nat /\ \A n \in 1 .. k : s[n] \in S
  BY LenProperties, ElementOfSeq
<1>2. f \in Seq(S) /\ Len(f) = k - 1 /\ \A n \in 1 .. k - 1 : f[n] = s[n]
  <2>1. k > 1 /\ 1 \in Nat /\ k - 1 \in Nat /\ \A n \in 1 .. k - 1 : s[n] \in S
    BY <1>1
  <2>2. /\ SubSeq(s, 1, k - 1) \in Seq(S)
        /\ Len(SubSeq(s, 1, k - 1)) = IF 1 <= k - 1 THEN k - 1 - 1 + 1 ELSE 0
        /\ \A n \in 1 .. k - 1 - 1 + 1 : SubSeq(s, 1, k - 1)[n] = s[1 + n - 1]
    BY <2>1, SubSeqProperties
  <2>. QED
    BY <2>1, <2>2
<1>3. \A m, n \in 1 .. k : s[m] = s[n] => m = n
  BY DEF Distinct
<1>4. Items(s) = {s[n] : n \in 1 .. k} /\ Items(f) = {f[n] : n \in 1 .. Len(f)}
  BY Zenon DEF Items
<1>. HIDE DEF f, k
<1>5. \A n \in 1 .. Len(f) : f[n] = s[n] /\ n \in 1 .. k
  BY <1>1, <1>2
<1>6. \A m, n \in 1 .. Len(f) : f[m] = f[n] => m = n
  BY <1>3, <1>5
<1>7. Items(f) \subseteq Items(s)
  BY <1>4, <1>5
<1>. QED
  BY <1>2, <1>6, <1>7 DEF f, Distinct

(* Two scripts that have no line in common, run one after the other.       *)
LEMMA JoinFacts ==
  ASSUME NEW s \in Seq(Line), NEW t \in Seq(Line), Distinct(s), Distinct(t),
         Items(s) \cap Items(t) = {}
  PROVE  /\ s \o t \in Seq(Line) /\ Distinct(s \o t)
         /\ Items(s \o t) = Items(s) \cup Items(t)
<1>. DEFINE u == s \o t
            k == Len(s)
            l == Len(t)
<1>1. /\ u \in Seq(Line) /\ Len(u) = k + l /\ k \in Nat /\ l \in Nat
      /\ \A n \in 1 .. k + l : u[n] = IF n <= k THEN s[n] ELSE t[n - k]
  BY ConcatProperties, LenProperties
<1>2. /\ Items(s) = {s[n] : n \in 1 .. k} /\ Items(t) = {t[n] : n \in 1 .. l}
      /\ Items(u) = {u[n] : n \in 1 .. Len(u)}
  BY Zenon DEF Items
<1>3. /\ \A m, n \in 1 .. k : s[m] = s[n] => m = n
      /\ \A m, n \in 1 .. l : t[m] = t[n] => m = n
  BY DEF Distinct
<1>. HIDE DEF u, k, l
<1>4. \A n \in 1 .. Len(u) :
        \/ n \in 1 .. k /\ u[n] = s[n]
        \/ n > k /\ n - k \in 1 .. l /\ u[n] = t[n - k]
  BY <1>1
<1>5. \A m \in 1 .. k, n \in 1 .. l : s[m] # t[n]
  BY <1>2
<1>6. \A m, n \in 1 .. Len(u) : u[m] = u[n] => m = n
  <2> SUFFICES ASSUME NEW m \in 1 .. Len(u), NEW n \in 1 .. Len(u), u[m] = u[n]
               PROVE  m = n
    OBVIOUS
  <2>1. CASE m \in 1 .. k /\ u[m] = s[m]
    BY <1>1, <1>3, <1>4, <1>5, <2>1
  <2>2. CASE m > k /\ m - k \in 1 .. l /\ u[m] = t[m - k]
    <3>1. n > k /\ n - k \in 1 .. l /\ u[n] = t[n - k]
      BY <1>4, <1>5, <2>2
    <3>2. m - k = n - k
      BY <1>3, <2>2, <3>1
    <3>. QED
      BY <1>1, <3>2
  <2>. QED
    BY <1>4, <2>1, <2>2
<1>7. Items(u) = Items(s) \cup Items(t)
  <2>1. Items(u) \subseteq Items(s) \cup Items(t)
    BY <1>2, <1>4
  <2>2. ASSUME NEW n \in 1 .. k PROVE s[n] \in Items(u)
    <3>1. n \in 1 .. Len(u) /\ u[n] = s[n]
      BY <1>1
    <3>. QED
      BY <1>2, <3>1
  <2>3. ASSUME NEW n \in 1 .. l PROVE t[n] \in Items(u)
    <3>1. n + k \in 1 .. Len(u) /\ u[n + k] = t[(n + k) - k] /\ (n + k) - k = n
      BY <1>1
    <3>. QED
      BY <1>2, <3>1
  <2>. QED
    BY <1>2, <2>1, <2>2, <2>3
<1>. QED
  BY <1>1, <1>6, <1>7 DEF u, Distinct

(* A script of four different lines.                                       *)
LEMMA FourLines ==
  ASSUME NEW a \in Line, NEW b \in Line, NEW c \in Line, NEW d \in Line,
         a # b, a # c, a # d, b # c, b # d, c # d
  PROVE  /\ <<a, b, c, d>> \in Seq(Line) /\ Distinct(<<a, b, c, d>>)
         /\ Items(<<a, b, c, d>>) = {a, b, c, d}
<1>. DEFINE s == <<a, b, c, d>>
<1>1. s \in Seq(Line) /\ Len(s) = 4 /\ s[1] = a /\ s[2] = b /\ s[3] = c /\ s[4] = d
  OBVIOUS
<1>2. 1 .. 4 = {1, 2, 3, 4}
  OBVIOUS
<1>. HIDE DEF s
<1>3. Distinct(s)
  BY <1>1, <1>2 DEF Distinct
<1>4. Items(s) = {a, b, c, d}
  BY <1>1, <1>2 DEF Items
<1>. QED
  BY <1>1, <1>3, <1>4 DEF s

SetupSet(i) == {l \in {"-A OUTPUT", "route add", "rule add", "flush cache"} : Captures(i)}
                 \cup {l \in {"-A PREROUTING"} : Replays(i)}
CleanSet(i) == {l \in {"-D OUTPUT", "route flush", "rule flush", "flush cache"} : Captures(i)}
                 \cup {l \in {"-D PREROUTING"} : Replays(i)}

(* The scripts of a process are the lines its options ask for.             *)
LEMMA ScriptFacts ==
  ASSUME NEW i
  PROVE  /\ SetupLines(i) \in Seq(Line) /\ Distinct(SetupLines(i))
         /\ Items(SetupLines(i)) = SetupSet(i)
         /\ CleanLines(i) \in Seq(Line) /\ Distinct(CleanLines(i))
         /\ Items(CleanLines(i)) = CleanSet(i)
<1>0. /\ "-A OUTPUT" \in Line /\ "route add" \in Line /\ "rule add" \in Line
      /\ "flush cache" \in Line /\ "-D OUTPUT" \in Line /\ "route flush" \in Line
      /\ "rule flush" \in Line
  BY DEF Line
<1>1. /\ CaptureSetup \in Seq(Line) /\ Distinct(CaptureSetup)
      /\ Items(CaptureSetup) = {"-A OUTPUT", "route add", "rule add", "flush cache"}
  <2>. DEFINE a == "-A OUTPUT"
              b == "route add"
              c == "rule add"
              d == "flush cache"
  <2>1. /\ a \in Line /\ b \in Line /\ c \in Line /\ d \in Line
        /\ a # b /\ a # c /\ a # d /\ b # c /\ b # d /\ c # d
    BY <1>0
  <2>2. CaptureSetup = <<a, b, c, d>>
    BY DEF CaptureSetup
  <2>. HIDE DEF a, b, c, d
  <2>3. /\ <<a, b, c, d>> \in Seq(Line) /\ Distinct(<<a, b, c, d>>)
        /\ Items(<<a, b, c, d>>) = {a, b, c, d}
    BY <2>1, FourLines
  <2>. QED
    BY <2>2, <2>3, Zenon DEF a, b, c, d
<1>2. /\ CaptureClean \in Seq(Line) /\ Distinct(CaptureClean)
      /\ Items(CaptureClean) = {"-D OUTPUT", "route flush", "rule flush", "flush cache"}
  <2>. DEFINE a == "-D OUTPUT"
              b == "route flush"
              c == "rule flush"
              d == "flush cache"
  <2>1. /\ a \in Line /\ b \in Line /\ c \in Line /\ d \in Line
        /\ a # b /\ a # c /\ a # d /\ b # c /\ b # d /\ c # d
    BY <1>0
  <2>2. CaptureClean = <<a, b, c, d>>
    BY DEF CaptureClean
  <2>. HIDE DEF a, b, c, d
  <2>3. /\ <<a, b, c, d>> \in Seq(Line) /\ Distinct(<<a, b, c, d>>)
        /\ Items(<<a, b, c, d>>) = {a, b, c, d}
    BY <2>1, FourLines
  <2>. QED
    BY <2>2, <2>3, Zenon DEF a, b, c, d
<1>3. /\ <<>> \in Seq(Line) /\ Distinct(<<>>) /\ Items(<<>>) = {}
      /\ \A l \in Line : <<l>> \in Seq(Line) /\ Distinct(<<l>>) /\ Items(<<l>>) = {l}
  BY DEF Distinct, Items
<1>. DEFINE cs == IF Captures(i) THEN CaptureSetup ELSE <<>>
            cc == IF Captures(i) THEN CaptureClean ELSE <<>>
            rs == IF Replays(i) THEN <<"-A PREROUTING">> ELSE <<>>
            rc == IF Replays(i) THEN <<"-D PREROUTING">> ELSE <<>>
<1>4. /\ cs \in Seq(Line) /\ Distinct(cs)
      /\ Items(cs) = {l \in {"-A OUTPUT", "route add", "rule add", "flush cache"} : Captures(i)}
  BY <1>1, <1>3
<1>5. /\ cc \in Seq(Line) /\ Distinct(cc)
      /\ Items(cc) = {l \in {"-D OUTPUT", "route flush", "rule flush", "flush cache"} : Captures(i)}
  BY <1>2, <1>3
<1>6. /\ rs \in Seq(Line) /\ Distinct(rs) /\ Items(rs) = {l \in {"-A PREROUTING"} : Replays(i)}
      /\ rc \in Seq(Line) /\ Distinct(rc) /\ Items(rc) = {l \in {"-D PREROUTING"} : Replays(i)}
  BY <1>3 DEF Line
<1>7. SetupLines(i) = cs \o rs /\ CleanLines(i) = cc \o rc
  BY Zenon DEF SetupLines, CleanLines
<1>. HIDE DEF cs, cc, rs, rc
<1>8. /\ cs \o rs \in Seq(Line) /\ Distinct(cs \o rs)
      /\ Items(cs \o rs) = Items(cs) \cup Items(rs)
  <2>1. Items(cs) \cap Items(rs) = {}
    BY <1>4, <1>6
  <2>. QED
    BY <1>4, <1>6, <2>1, JoinFacts
<1>9. /\ cc \o rc \in Seq(Line) /\ Distinct(cc \o rc)
      /\ Items(cc \o rc) = Items(cc) \cup Items(rc)
  <2>1. Items(cc) \cap Items(rc) = {}
    BY <1>5, <1>6
  <2>. QED
    BY <1>5, <1>6, <2>1, JoinFacts
<1>. QED
  BY <1>4, <1>5, <1>6, <1>7, <1>8, <1>9, Zenon DEF SetupSet, CleanSet
-----------------------------------------------------------------------------
(* What a process still has to run.                                        *)
Todo(i) == Items(lines[i])

(* Where a script stands: which lines can be left in which stage, and that *)
(* the TUN device exists between its creation and the end of run().        *)
ScriptInv ==
  \A i \in Enta :
    /\ Distinct(lines[i])
    /\ stage[i] = "setup" => Todo(i) \subseteq SetupSet(i)
    /\ stage[i] = "cleaning" => Todo(i) \subseteq CleanSet(i)
    /\ stage[i] = "orphan" => Todo(i) \subseteq SetupSet(i) \cup CleanSet(i)
    /\ stage[i] \notin {"setup", "cleaning", "orphan"} => lines[i] = <<>>
    /\ i \in devices <=> stage[i] \in {"setup", "running"}

(* Mishaps that can leave something behind count, faults of a setup do not.*)
LEMMA MishapFacts ==
  ASSUME TypeOK
  PROVE  /\ Mess \in Nat
         /\ \A m \in Mishaps : Mishap(m) =>
              /\ mishaps' \in [Mishaps -> Nat]
              /\ Mess' = IF m = "setupFault" THEN Mess ELSE Mess + 1
<1>1. mishaps \in [Mishaps -> Nat]
  BY DEF TypeOK
<1>2. \A m \in Mishaps : Mishap(m) => mishaps' = [mishaps EXCEPT ![m] = mishaps[m] + 1]
  BY DEF Mishap
<1>. DEFINE k(f) == f["killed"]
            e(f) == f["interruptedEarly"]
            c(f) == f["cleanFault"]
<1>3. /\ k(mishaps) \in Nat /\ e(mishaps) \in Nat /\ c(mishaps) \in Nat
  BY <1>1 DEF Mishaps
<1>4. /\ Mess = k(mishaps) + e(mishaps) + c(mishaps)
      /\ Mess' = k(mishaps') + e(mishaps') + c(mishaps')
  BY DEF Mess
<1>5. ASSUME NEW m \in Mishaps, Mishap(m)
      PROVE  /\ mishaps' \in [Mishaps -> Nat]
             /\ k(mishaps') = IF m = "killed" THEN k(mishaps) + 1 ELSE k(mishaps)
             /\ e(mishaps') = IF m = "interruptedEarly" THEN e(mishaps) + 1 ELSE e(mishaps)
             /\ c(mishaps') = IF m = "cleanFault" THEN c(mishaps) + 1 ELSE c(mishaps)
  BY <1>1, <1>2, <1>5 DEF Mishaps
<1>. HIDE DEF k, e, c
<1>6. \A m \in Mishaps :
        m \in {"killed", "interruptedEarly", "setupFault", "cleanFault"}
  BY DEF Mishaps
<1>. QED
  BY <1>3, <1>4, <1>5, <1>6

(* What the lines of a script leave of the types of the host's state.      *)
LEMMA EffectTypes ==
  ASSUME TypeOK, NEW i \in Enta, NEW line \in SetupSet(i) \cup CleanSet(i), Effect(i, line)
  PROVE  /\ dnat' \in [Port -> Nat] /\ table8' \subseteq Enta
         /\ ipRules' \subseteq Port /\ redirect' \in [Port -> Nat]
<1>1. /\ Captures(i) => Capture(i) \in Port
      /\ Replays(i) => Replay(i) \in Port
  BY OptionFacts DEF TypeOK
<1>2. /\ dnat \in [Port -> Nat] /\ table8 \subseteq Enta /\ ipRules \subseteq Port
      /\ redirect \in [Port -> Nat]
  BY DEF TypeOK
<1>n. \A n \in Nat : n + 1 \in Nat /\ OneLess(n) \in Nat
  BY DEF OneLess
<1>0. /\ line \in {"-A OUTPUT", "-D OUTPUT"} => Captures(i)
      /\ line \in {"-A PREROUTING", "-D PREROUTING"} => Replays(i)
  BY DEF SetupSet, CleanSet
<1>3. dnat' \in [Port -> Nat]
  <2>1. CASE line = "-A OUTPUT"
    <3>1. dnat' = [dnat EXCEPT ![Capture(i)] = dnat[Capture(i)] + 1]
      BY <2>1 DEF Effect
    <3>. QED
      BY <1>0, <1>1, <1>2, <1>n, <2>1, <3>1
  <2>2. CASE line = "-D OUTPUT"
    <3>1. dnat' = [dnat EXCEPT ![Capture(i)] = OneLess(dnat[Capture(i)])]
      BY <2>2 DEF Effect
    <3>. QED
      BY <1>0, <1>1, <1>2, <1>n, <2>2, <3>1
  <2>3. CASE line \notin {"-A OUTPUT", "-D OUTPUT"}
    BY <1>2, <2>3 DEF Effect
  <2>. QED
    BY <2>1, <2>2, <2>3
<1>4. table8' \subseteq Enta
  BY <1>2 DEF Effect
<1>5. ipRules' \subseteq Port
  BY <1>1, <1>2 DEF Effect, SetupSet, CleanSet
<1>6. redirect' \in [Port -> Nat]
  <2>1. CASE line = "-A PREROUTING"
    <3>1. redirect' = [redirect EXCEPT ![Replay(i)] = redirect[Replay(i)] + 1]
      BY <2>1 DEF Effect
    <3>. QED
      BY <1>0, <1>1, <1>2, <1>n, <2>1, <3>1
  <2>2. CASE line = "-D PREROUTING"
    <3>1. redirect' = [redirect EXCEPT ![Replay(i)] = OneLess(redirect[Replay(i)])]
      BY <2>2 DEF Effect
    <3>. QED
      BY <1>0, <1>1, <1>2, <1>n, <2>2, <3>1
  <2>3. CASE line \notin {"-A PREROUTING", "-D PREROUTING"}
    BY <1>2, <2>3 DEF Effect
  <2>. QED
    BY <2>1, <2>2, <2>3
<1>. QED
  BY <1>3, <1>4, <1>5, <1>6

(* The line that is run is one of the script, and what is left of it.      *)
LEMMA NextLine ==
  ASSUME TypeOK, ScriptInv, NEW i \in Enta, lines[i] # <<>>
  PROVE  /\ Head(lines[i]) \in Todo(i) /\ Head(lines[i]) \in Line
         /\ Tail(lines[i]) \in Seq(Line) /\ Distinct(Tail(lines[i]))
         /\ Items(Tail(lines[i])) = Todo(i) \ {Head(lines[i])}
         /\ stage[i] \in {"setup", "cleaning", "orphan"}
         /\ Todo(i) \subseteq SetupSet(i) \cup CleanSet(i)
<1>1. lines[i] \in Seq(Line) /\ Distinct(lines[i])
  BY DEF TypeOK, ScriptInv
<1>2. /\ stage[i] \in {"setup", "cleaning", "orphan"}
      /\ Todo(i) \subseteq SetupSet(i) \cup CleanSet(i)
  BY DEF ScriptInv, TypeOK, Stage
<1>. DEFINE s == lines[i]
<1>. HIDE DEF s
<1>3. /\ Tail(s) \in Seq(Line) /\ Distinct(Tail(s))
      /\ Head(s) \in Items(s) /\ Head(s) \in Line
      /\ Items(Tail(s)) = Items(s) \ {Head(s)}
  BY <1>1, TailFacts DEF s
<1>. QED
  BY <1>2, <1>3 DEF s, Todo
-----------------------------------------------------------------------------
(* The steps of a process i, by what they do to its script and the host.   *)
Alone(i) ==
  \A j \in Enta : j # i => stage'[j] = stage[j] /\ Todo(j)' = Todo(j)

(* It goes on to the next stage of its life.                               *)
Goes(i) ==
  /\ Alone(i)
  /\ UNCHANGED <<hostVars, refused>> /\ Mess' = Mess
  /\ \/ /\ stage[i] \in {"off", "connecting"} /\ stage'[i] \in {"connecting", "device"}
        /\ Todo(i)' = {}
     \/ stage[i] = "device" /\ stage'[i] = "setup" /\ Todo(i)' = SetupSet(i)
     \/ stage[i] = "setup" /\ stage'[i] = "running" /\ Todo(i) = {} /\ Todo(i)' = {}
     \/ /\ stage[i] \in {"cleaning", "orphan"} /\ stage'[i] = "off"
        /\ Todo(i) = {} /\ Todo(i)' = {}
     \/ stage[i] = "orphan" /\ stage'[i] = "orphan" /\ Todo(i)' = {}

(* run() returns, perhaps since it met a rule that exists.                 *)
Returns(i) ==
  /\ Alone(i)
  /\ stage[i] \in {"connecting", "device", "setup", "running"}
  /\ stage'[i] = "cleaning" /\ Todo(i)' = CleanSet(i)
  /\ table8' = table8 \ {i} /\ UNCHANGED <<dnat, ipRules, redirect>> /\ Mess' = Mess
  /\ \/ refused' = refused
     \/ /\ refused' = refused + 1 /\ stage[i] = "setup"
        /\ \E line \in Todo(i) : Exists(i, line)

(* A line of a script takes effect.                                        *)
Runs(i, line) ==
  /\ Alone(i)
  /\ stage[i] \in {"setup", "cleaning", "orphan"} /\ stage'[i] = stage[i]
  /\ line \in Todo(i) /\ Todo(i)' = Todo(i) \ {line}
  /\ Effect(i, line)
  /\ stage[i] = "orphan" => line # "route add"
  /\ refused' = refused /\ Mess' = Mess

(* A mishap.                                                               *)
Suffers(i) ==
  /\ Alone(i)
  /\ Mess' = Mess + 1 /\ UNCHANGED <<dnat, ipRules, redirect, refused>>
  /\ \/ stage'[i] = "off" /\ Todo(i)' = {}
     \/ /\ stage[i] \in {"setup", "cleaning"} /\ stage'[i] = "orphan"
        /\ Todo(i)' \subseteq Todo(i)
     \/ stage[i] = "cleaning" /\ stage'[i] = "cleaning" /\ Todo(i)' \subseteq Todo(i)
  /\ \/ table8' = table8 \ {i}
     \/ table8' = table8 /\ stage[i] = "cleaning"

(* A step of a process leaves the scripts of the others alone.             *)
LEMMA Moved ==
  ASSUME TypeOK, ScriptInv, options' = options, NEW i \in Enta,
         NEW st \in Stage, NEW ls \in Seq(Line), Distinct(ls),
         stage' = [stage EXCEPT ![i] = st], lines' = [lines EXCEPT ![i] = ls],
         st = "setup" => Items(ls) \subseteq SetupSet(i),
         st = "cleaning" => Items(ls) \subseteq CleanSet(i),
         st = "orphan" => Items(ls) \subseteq SetupSet(i) \cup CleanSet(i),
         st \notin {"setup", "cleaning", "orphan"} => ls = <<>>,
         devices' \subseteq Enta, devices' \ {i} = devices \ {i},
         i \in devices' <=> st \in {"setup", "running"}
  PROVE  /\ options' \in Options /\ stage' \in [Enta -> Stage]
         /\ lines' \in [Enta -> Seq(Line)] /\ ScriptInv'
         /\ Alone(i) /\ stage'[i] = st /\ Todo(i)' = Items(ls)
<1>1. /\ options \in Options /\ stage \in [Enta -> Stage]
      /\ lines \in [Enta -> Seq(Line)] /\ devices \subseteq Enta
  BY DEF TypeOK
<1>2. /\ stage' \in [Enta -> Stage] /\ stage'[i] = st
      /\ lines' \in [Enta -> Seq(Line)] /\ lines'[i] = ls
      /\ \A j \in Enta : j # i => stage'[j] = stage[j] /\ lines'[j] = lines[j]
  BY <1>1
<1>3. \A j \in Enta : j # i => Todo(j)' = Todo(j)
  BY <1>2 DEF Todo
<1>4. Todo(i)' = Items(ls)
  BY <1>2 DEF Todo
<1>5. \A j \in Enta : SetupSet(j)' = SetupSet(j) /\ CleanSet(j)' = CleanSet(j)
  BY DEF SetupSet, CleanSet, Captures, Replays, Capture, Replay
<1>6. \A j \in Enta : j # i => (j \in devices' <=> j \in devices)
  OBVIOUS
<1>7. ASSUME NEW j \in Enta
      PROVE  /\ Distinct(lines'[j])
             /\ stage'[j] = "setup" => Todo(j)' \subseteq SetupSet(j)
             /\ stage'[j] = "cleaning" => Todo(j)' \subseteq CleanSet(j)
             /\ stage'[j] = "orphan" => Todo(j)' \subseteq SetupSet(j) \cup CleanSet(j)
             /\ stage'[j] \notin {"setup", "cleaning", "orphan"} => lines'[j] = <<>>
             /\ j \in devices' <=> stage'[j] \in {"setup", "running"}
  <2>1. CASE j = i
    BY <1>2, <1>4, <2>1, Zenon
  <2>2. CASE j # i
    <3>1. stage'[j] = stage[j] /\ lines'[j] = lines[j] /\ Todo(j)' = Todo(j)
      BY <1>2, <1>3, <2>2
    <3>. QED
      BY <1>6, <2>2, <3>1 DEF ScriptInv
  <2>. QED
    BY <2>1, <2>2
<1>8. ScriptInv'
  BY <1>5, <1>7 DEF ScriptInv
<1>. QED
  BY <1>1, <1>2, <1>3, <1>4, <1>8, Zenon DEF Alone

(* What a step leaves to be typed besides options, stage and lines.        *)
Typed ==
  /\ devices' \subseteq Enta
  /\ dnat' \in [Port -> Nat] /\ table8' \subseteq Enta
  /\ ipRules' \subseteq Port /\ redirect' \in [Port -> Nat]
  /\ starts' \in Nat /\ refused' \in Nat /\ mishaps' \in [Mishaps -> Nat]

Moves(i) == Goes(i) \/ Returns(i) \/ (\E line \in Line : Runs(i, line)) \/ Suffers(i)

(* Nothing is left of a script that has ended.                             *)
LEMMA NoLines == /\ <<>> \in Seq(Line) /\ Distinct(<<>>) /\ Items(<<>>) = {}
                 /\ \A s \in Seq(Line) : Items(s) = {} => s = <<>>
<1>1. <<>> \in Seq(Line) /\ Distinct(<<>>) /\ Items(<<>>) = {}
  BY DEF Distinct, Items
<1>2. ASSUME NEW s \in Seq(Line), s # <<>> PROVE Items(s) # {}
  <2>1. Len(s) \in Nat /\ Len(s) # 0
    BY <1>2, EmptySeq, LenProperties
  <2>2. 1 \in 1 .. Len(s)
    BY <2>1
  <2>. QED
    BY <2>2 DEF Items
<1>. QED
  BY <1>1, <1>2

(* run() returns: the script of clean_up is all to come.                   *)
LEMMA RunReturnsFacts ==
  ASSUME TypeOK, ScriptInv, options' = options, NEW i \in Enta, RunReturns(i)
  PROVE  /\ options' \in Options /\ stage' \in [Enta -> Stage]
         /\ lines' \in [Enta -> Seq(Line)] /\ ScriptInv' /\ Alone(i)
         /\ stage'[i] = "cleaning" /\ Todo(i)' = CleanSet(i)
         /\ table8' = table8 \ {i} /\ UNCHANGED <<dnat, ipRules, redirect>>
         /\ (refused' \in Nat /\ mishaps' \in [Mishaps -> Nat] => Typed)
<1>1. /\ stage' = [stage EXCEPT ![i] = "cleaning"]
      /\ lines' = [lines EXCEPT ![i] = CleanLines(i)]
      /\ devices' = devices \ {i} /\ table8' = table8 \ {i}
      /\ dnat' = dnat /\ ipRules' = ipRules /\ redirect' = redirect /\ starts' = starts
  BY DEF RunReturns, DeviceGoes
<1>. DEFINE ls == CleanLines(i)
            st == "cleaning"
<1>2. ls \in Seq(Line) /\ Distinct(ls) /\ Items(ls) = CleanSet(i)
  BY ScriptFacts
<1>3. devices \subseteq Enta
  BY DEF TypeOK
<1>4. devices' \subseteq Enta /\ devices' \ {i} = devices \ {i} /\ i \notin devices'
  BY <1>1, <1>3
<1>5. st \in Stage /\ st = "cleaning" /\ st \notin {"setup", "orphan", "running"}
  BY DEF Stage
<1>6. stage' = [stage EXCEPT ![i] = st] /\ lines' = [lines EXCEPT ![i] = ls]
  BY <1>1
<1>. HIDE DEF ls, st
<1>7. /\ options' \in Options /\ stage' \in [Enta -> Stage]
      /\ lines' \in [Enta -> Seq(Line)] /\ ScriptInv'
      /\ Alone(i) /\ stage'[i] = st /\ Todo(i)' = Items(ls)
  BY <1>2, <1>4, <1>5, <1>6, Moved
<1>8. refused' \in Nat /\ mishaps' \in [Mishaps -> Nat] => Typed
  BY <1>1, <1>4 DEF Typed, TypeOK
<1>. QED
  BY <1>1, <1>2, <1>5, <1>7, <1>8, Zenon

(* The process dies: what it did to the host stays.                        *)
LEMMA DiesFacts ==
  ASSUME TypeOK, ScriptInv, options' = options, NEW i \in Enta, Dies(i)
  PROVE  /\ options' \in Options /\ stage' \in [Enta -> Stage]
         /\ lines' \in [Enta -> Seq(Line)] /\ ScriptInv' /\ Alone(i)
         /\ stage'[i] = "off" /\ Todo(i)' = {}
         /\ table8' = table8 \ {i} /\ UNCHANGED <<dnat, ipRules, redirect, refused>>
         /\ (mishaps' \in [Mishaps -> Nat] => Typed)
<1>1. /\ stage' = [stage EXCEPT ![i] = "off"]
      /\ lines' = [lines EXCEPT ![i] = <<>>]
      /\ devices' = devices \ {i} /\ table8' = table8 \ {i} /\ refused' = refused
      /\ dnat' = dnat /\ ipRules' = ipRules /\ redirect' = redirect /\ starts' = starts
  BY DEF Dies, DeviceGoes
<1>. DEFINE ls == <<>>
            st == "off"
<1>2. ls \in Seq(Line) /\ Distinct(ls) /\ Items(ls) = {} /\ ls = <<>>
  BY NoLines
<1>3. devices \subseteq Enta
  BY DEF TypeOK
<1>4. devices' \subseteq Enta /\ devices' \ {i} = devices \ {i} /\ i \notin devices'
  BY <1>1, <1>3
<1>5. st \in Stage /\ st = "off" /\ st \notin {"setup", "orphan", "running", "cleaning"}
  BY DEF Stage
<1>6. stage' = [stage EXCEPT ![i] = st] /\ lines' = [lines EXCEPT ![i] = ls]
  BY <1>1
<1>. HIDE DEF ls, st
<1>7. /\ options' \in Options /\ stage' \in [Enta -> Stage]
      /\ lines' \in [Enta -> Seq(Line)] /\ ScriptInv'
      /\ Alone(i) /\ stage'[i] = st /\ Todo(i)' = Items(ls)
  BY <1>2, <1>4, <1>5, <1>6, Moved
<1>8. mishaps' \in [Mishaps -> Nat] => Typed
  BY <1>1, <1>4 DEF Typed, TypeOK
<1>. QED
  BY <1>1, <1>2, <1>5, <1>7, <1>8, Zenon

(* A line of the script leaves the stage as it is and is gone afterwards.  *)
LEMMA LineFacts ==
  ASSUME TypeOK, ScriptInv, options' = options, NEW i \in Enta, lines[i] # <<>>,
         lines' = [lines EXCEPT ![i] = Tail(lines[i])], stage' = stage, devices' = devices
  PROVE  /\ options' \in Options /\ stage' \in [Enta -> Stage]
         /\ lines' \in [Enta -> Seq(Line)] /\ ScriptInv' /\ Alone(i)
         /\ stage'[i] = stage[i] /\ Todo(i)' = Todo(i) \ {Head(lines[i])}
<1>. DEFINE ls == Tail(lines[i])
            st == stage[i]
<1>1. /\ ls \in Seq(Line) /\ Distinct(ls) /\ Items(ls) = Todo(i) \ {Head(lines[i])}
      /\ st \in {"setup", "cleaning", "orphan"}
  BY NextLine
<1>2. /\ stage \in [Enta -> Stage] /\ devices \subseteq Enta
  BY DEF TypeOK
<1>3. stage' = [stage EXCEPT ![i] = st] /\ lines' = [lines EXCEPT ![i] = ls] /\ st \in Stage
  BY <1>2
<1>4. /\ st = "setup" => Items(ls) \subseteq SetupSet(i)
      /\ st = "cleaning" => Items(ls) \subseteq CleanSet(i)
      /\ st = "orphan" => Items(ls) \subseteq SetupSet(i) \cup CleanSet(i)
      /\ i \in devices <=> st \in {"setup", "running"}
  BY <1>1 DEF ScriptInv
<1>5. /\ devices' \subseteq Enta /\ devices' \ {i} = devices \ {i}
      /\ i \in devices' <=> st \in {"setup", "running"}
  BY <1>2, <1>4
<1>. HIDE DEF ls, st
<1>6. st \notin {"setup", "cleaning", "orphan"} => ls = <<>>
  BY <1>1
<1>7. /\ options' \in Options /\ stage' \in [Enta -> Stage]
      /\ lines' \in [Enta -> Seq(Line)] /\ ScriptInv'
      /\ Alone(i) /\ stage'[i] = st /\ Todo(i)' = Items(ls)
  BY <1>1, <1>3, <1>4, <1>5, <1>6, Moved
<1>. QED
  BY <1>1, <1>7, Zenon DEF st

(* main() goes on to a stage that has no script, or that has ended.        *)
LEMMA StageFacts ==
  ASSUME TypeOK, ScriptInv, options' = options, NEW i \in Enta,
         NEW st \in Stage \ {"setup", "cleaning", "orphan"},
         stage' = [stage EXCEPT ![i] = st], lines' = [lines EXCEPT ![i] = <<>>],
         devices' = devices, i \in devices <=> st = "running"
  PROVE  /\ options' \in Options /\ stage' \in [Enta -> Stage]
         /\ lines' \in [Enta -> Seq(Line)] /\ ScriptInv' /\ Alone(i)
         /\ stage'[i] = st /\ Todo(i)' = {}
<1>. DEFINE ls == <<>>
<1>1. ls \in Seq(Line) /\ Distinct(ls) /\ Items(ls) = {} /\ ls = <<>>
  BY NoLines
<1>2. devices' \subseteq Enta /\ devices' \ {i} = devices \ {i}
  BY DEF TypeOK
<1>3. /\ st \in Stage /\ st \notin {"setup", "cleaning", "orphan"}
      /\ i \in devices' <=> st \in {"setup", "running"}
  OBVIOUS
<1>4. lines' = [lines EXCEPT ![i] = ls]
  OBVIOUS
<1>. HIDE DEF ls
<1>5. /\ options' \in Options /\ stage' \in [Enta -> Stage]
      /\ lines' \in [Enta -> Seq(Line)] /\ ScriptInv'
      /\ Alone(i) /\ stage'[i] = st /\ Todo(i)' = Items(ls)
  BY <1>1, <1>2, <1>3, <1>4, Moved
<1>. QED
  BY <1>1, <1>5, Zenon

(* Every step of a process is one of the four kinds, and keeps the types   *)
(* and the scripts in order.                                               *)
LEMMA StepMoves ==
  ASSUME TypeOK, ScriptInv, options' = options, NEW i \in Enta, Step(i)
  PROVE  TypeOK' /\ ScriptInv' /\ Moves(i)
<1>. DEFINE Good == /\ options' \in Options /\ stage' \in [Enta -> Stage]
                    /\ lines' \in [Enta -> Seq(Line)] /\ ScriptInv' /\ Typed /\ Moves(i)
<1>. SUFFICES Good
  BY DEF TypeOK, Typed
<1>1. /\ stage \in [Enta -> Stage] /\ lines \in [Enta -> Seq(Line)] /\ devices \subseteq Enta
      /\ dnat \in [Port -> Nat] /\ table8 \subseteq Enta /\ ipRules \subseteq Port
      /\ redirect \in [Port -> Nat] /\ starts \in Nat /\ refused \in Nat
      /\ mishaps \in [Mishaps -> Nat]
  BY DEF TypeOK
<1>2. /\ i \in devices <=> stage[i] \in {"setup", "running"}
      /\ stage[i] \notin {"setup", "cleaning", "orphan"} => lines[i] = <<>>
      /\ stage[i] = "setup" => Todo(i) \subseteq SetupSet(i)
      /\ stage[i] = "cleaning" => Todo(i) \subseteq CleanSet(i)
      /\ stage[i] = "orphan" => Todo(i) \subseteq SetupSet(i) \cup CleanSet(i)
  BY DEF ScriptInv
<1>3. lines[i] = <<>> => Todo(i) = {} /\ lines = [lines EXCEPT ![i] = <<>>]
  BY <1>1, NoLines DEF Todo
<1>4. /\ Mess \in Nat
      /\ \A m \in Mishaps : Mishap(m) =>
           /\ mishaps' \in [Mishaps -> Nat]
           /\ Mess' = IF m = "setupFault" THEN Mess ELSE Mess + 1
      /\ mishaps' = mishaps => Mess' = Mess
  BY MishapFacts DEF Mess
<1>5. "killed" \in Mishaps /\ "interruptedEarly" \in Mishaps /\ "setupFault" \in Mishaps
      /\ "cleanFault" \in Mishaps
  BY DEF Mishaps
<1>6. {"off", "connecting", "device", "running"} \subseteq Stage \ {"setup", "cleaning", "orphan"}
  BY DEF Stage
<1>7. CASE Start(i)
  <2>1. /\ stage[i] = "off" /\ stage' = [stage EXCEPT ![i] = "connecting"] /\ lines' = lines
        /\ devices' = devices /\ starts' = starts + 1 /\ UNCHANGED <<hostVars, refused, mishaps>>
    BY <1>7 DEF Start
  <2>2. i \notin devices /\ lines' = [lines EXCEPT ![i] = <<>>]
    BY <1>2, <1>3, <2>1
  <2>3. /\ options' \in Options /\ stage' \in [Enta -> Stage]
        /\ lines' \in [Enta -> Seq(Line)] /\ ScriptInv' /\ Alone(i)
        /\ stage'[i] = "connecting" /\ Todo(i)' = {}
    BY <1>6, <2>1, <2>2, StageFacts
  <2>4. Typed
    BY <1>1, <2>1 DEF Typed, hostVars
  <2>. QED
    BY <1>4, <2>1, <2>3, <2>4 DEF Moves, Goes
<1>8. CASE Connects(i)
  <2>1. /\ stage[i] = "connecting" /\ stage' = [stage EXCEPT ![i] = "device"] /\ lines' = lines
        /\ devices' = devices /\ starts' = starts /\ UNCHANGED <<hostVars, refused, mishaps>>
    BY <1>8 DEF Connects
  <2>2. i \notin devices /\ lines' = [lines EXCEPT ![i] = <<>>]
    BY <1>2, <1>3, <2>1
  <2>3. /\ options' \in Options /\ stage' \in [Enta -> Stage]
        /\ lines' \in [Enta -> Seq(Line)] /\ ScriptInv' /\ Alone(i)
        /\ stage'[i] = "device" /\ Todo(i)' = {}
    BY <1>6, <2>1, <2>2, StageFacts
  <2>4. Typed
    BY <1>1, <2>1 DEF Typed, hostVars
  <2>. QED
    BY <1>4, <2>1, <2>3, <2>4 DEF Moves, Goes
<1>9. CASE ConnectFails(i)
  <2>1. stage[i] = "connecting" /\ RunReturns(i) /\ refused' = refused /\ mishaps' = mishaps
    BY <1>9 DEF ConnectFails
  <2>. QED
    BY <1>1, <1>4, <2>1, RunReturnsFacts DEF Moves, Returns
<1>10. CASE CreatesDevice(i)
  <2>1. stage[i] = "device"
    BY <1>10 DEF CreatesDevice
  <2>2. CASE Mishap("setupFault") /\ RunReturns(i) /\ UNCHANGED refused
    <3>1. Mess' = Mess /\ mishaps' \in [Mishaps -> Nat]
      BY <1>4, <1>5, <2>2
    <3>. QED
      BY <1>1, <2>1, <2>2, <3>1, RunReturnsFacts DEF Moves, Returns
  <2>3. CASE /\ devices' = devices \cup {i}
             /\ stage' = [stage EXCEPT ![i] = "setup"]
             /\ lines' = [lines EXCEPT ![i] = SetupLines(i)]
             /\ UNCHANGED <<starts, hostVars, refused, mishaps>>
    <3>. DEFINE ls == SetupLines(i)
                st == "setup"
    <3>1. ls \in Seq(Line) /\ Distinct(ls) /\ Items(ls) = SetupSet(i)
      BY ScriptFacts
    <3>2. /\ st \in Stage /\ st = "setup" /\ st \notin {"cleaning", "orphan"}
          /\ stage' = [stage EXCEPT ![i] = st] /\ lines' = [lines EXCEPT ![i] = ls]
      BY <2>3 DEF Stage
    <3>3. devices' \subseteq Enta /\ devices' \ {i} = devices \ {i} /\ i \in devices'
      BY <1>1, <2>3
    <3>. HIDE DEF ls, st
    <3>4. /\ options' \in Options /\ stage' \in [Enta -> Stage]
          /\ lines' \in [Enta -> Seq(Line)] /\ ScriptInv'
          /\ Alone(i) /\ stage'[i] = st /\ Todo(i)' = Items(ls)
      BY <3>1, <3>2, <3>3, Moved
    <3>5. Typed
      BY <1>1, <2>3, <3>3 DEF Typed, hostVars
    <3>. QED
      BY <1>4, <2>1, <2>3, <3>1, <3>2, <3>4, <3>5 DEF Moves, Goes
  <2>. QED
    BY <1>10, <2>2, <2>3 DEF CreatesDevice
<1>11. CASE SetupLine(i)
  <2>. DEFINE line == Head(lines[i])
  <2>1. /\ stage[i] = "setup" /\ lines[i] # <<>> /\ Effect(i, line)
        /\ lines' = [lines EXCEPT ![i] = Tail(lines[i])]
        /\ stage' = stage /\ devices' = devices /\ starts' = starts
        /\ refused' = refused /\ mishaps' = mishaps
    BY <1>11 DEF SetupLine
  <2>2. line \in Todo(i) /\ line \in Line /\ line \in SetupSet(i) \cup CleanSet(i)
    BY <2>1, NextLine
  <2>3. /\ options' \in Options /\ stage' \in [Enta -> Stage]
        /\ lines' \in [Enta -> Seq(Line)] /\ ScriptInv' /\ Alone(i)
        /\ stage'[i] = stage[i] /\ Todo(i)' = Todo(i) \ {line}
    BY <2>1, LineFacts
  <2>. HIDE DEF line
  <2>4. Typed
    BY <1>1, <2>1, <2>2, EffectTypes DEF Typed
  <2>5. Runs(i, line)
    BY <1>4, <2>1, <2>2, <2>3 DEF Runs
  <2>. QED
    BY <2>2, <2>3, <2>4, <2>5 DEF Moves
<1>12. CASE CleanLine(i)
  <2>. DEFINE line == Head(lines[i])
  <2>1. /\ stage[i] = "cleaning" /\ lines[i] # <<>> /\ Effect(i, line)
        /\ lines' = [lines EXCEPT ![i] = Tail(lines[i])]
        /\ stage' = stage /\ devices' = devices /\ starts' = starts
        /\ refused' = refused /\ mishaps' = mishaps
    BY <1>12 DEF CleanLine
  <2>2. line \in Todo(i) /\ line \in Line /\ line \in SetupSet(i) \cup CleanSet(i)
    BY <2>1, NextLine
  <2>3. /\ options' \in Options /\ stage' \in [Enta -> Stage]
        /\ lines' \in [Enta -> Seq(Line)] /\ ScriptInv' /\ Alone(i)
        /\ stage'[i] = stage[i] /\ Todo(i)' = Todo(i) \ {line}
    BY <2>1, LineFacts
  <2>. HIDE DEF line
  <2>4. Typed
    BY <1>1, <2>1, <2>2, EffectTypes DEF Typed
  <2>5. Runs(i, line)
    BY <1>4, <2>1, <2>2, <2>3 DEF Runs
  <2>. QED
    BY <2>2, <2>3, <2>4, <2>5 DEF Moves
<1>13. CASE SetupLineFails(i)
  <2>1. stage[i] = "setup" /\ lines[i] # <<>> /\ RunReturns(i)
    BY <1>13 DEF SetupLineFails
  <2>2. CASE Exists(i, Head(lines[i])) /\ refused' = refused + 1 /\ UNCHANGED mishaps
    <3>1. Head(lines[i]) \in Todo(i)
      BY <2>1, NextLine
    <3>2. \E line \in Todo(i) : Exists(i, line)
      BY <2>2, <3>1
    <3>. QED
      BY <1>1, <1>4, <2>1, <2>2, <3>2, RunReturnsFacts DEF Moves, Returns
  <2>3. CASE Mishap("setupFault") /\ UNCHANGED refused
    <3>1. Mess' = Mess /\ mishaps' \in [Mishaps -> Nat]
      BY <1>4, <1>5, <2>3
    <3>. QED
      BY <1>1, <2>1, <2>3, <3>1, RunReturnsFacts DEF Moves, Returns
  <2>. QED
    BY <1>13, <2>2, <2>3 DEF SetupLineFails
<1>14. CASE SetupDone(i)
  <2>1. /\ stage[i] = "setup" /\ lines[i] = <<>>
        /\ stage' = [stage EXCEPT ![i] = "running"] /\ lines' = lines
        /\ devices' = devices /\ starts' = starts /\ UNCHANGED <<hostVars, refused, mishaps>>
    BY <1>14 DEF SetupDone
  <2>2. i \in devices /\ lines' = [lines EXCEPT ![i] = <<>>] /\ Todo(i) = {}
    BY <1>2, <1>3, <2>1
  <2>3. /\ options' \in Options /\ stage' \in [Enta -> Stage]
        /\ lines' \in [Enta -> Seq(Line)] /\ ScriptInv' /\ Alone(i)
        /\ stage'[i] = "running" /\ Todo(i)' = {}
    BY <1>6, <2>1, <2>2, StageFacts
  <2>4. Typed
    BY <1>1, <2>1 DEF Typed, hostVars
  <2>. QED
    BY <1>4, <2>1, <2>2, <2>3, <2>4 DEF Moves, Goes
<1>15. CASE ExchangeEnds(i)
  <2>1. stage[i] = "running" /\ RunReturns(i) /\ refused' = refused /\ mishaps' = mishaps
    BY <1>15 DEF ExchangeEnds
  <2>. QED
    BY <1>1, <1>4, <2>1, RunReturnsFacts DEF Moves, Returns
<1>16. CASE CleanLineFails(i)
  <2>1. /\ stage[i] = "cleaning" /\ lines[i] # <<>> /\ Mishap("cleanFault")
        /\ lines' = [lines EXCEPT ![i] = Tail(lines[i])]
        /\ stage' = stage /\ devices' = devices /\ starts' = starts
        /\ UNCHANGED <<hostVars, refused>>
    BY <1>16 DEF CleanLineFails
  <2>2. /\ options' \in Options /\ stage' \in [Enta -> Stage]
        /\ lines' \in [Enta -> Seq(Line)] /\ ScriptInv' /\ Alone(i)
        /\ stage'[i] = stage[i] /\ Todo(i)' = Todo(i) \ {Head(lines[i])}
    BY <2>1, LineFacts
  <2>3. Mess' = Mess + 1 /\ mishaps' \in [Mishaps -> Nat]
    BY <1>4, <1>5, <2>1
  <2>4. Typed
    BY <1>1, <2>1, <2>3 DEF Typed, hostVars
  <2>5. Todo(i)' \subseteq Todo(i)
    BY <2>2
  <2>. QED
    BY <2>1, <2>2, <2>3, <2>4, <2>5 DEF Moves, Suffers, hostVars
<1>17. CASE CleanUpFails(i)
  <2>1. /\ stage[i] = "cleaning" /\ lines[i] # <<>> /\ Mishap("cleanFault")
        /\ stage' = [stage EXCEPT ![i] = "off"] /\ lines' = [lines EXCEPT ![i] = <<>>]
        /\ devices' = devices /\ starts' = starts
        /\ UNCHANGED <<hostVars, refused>>
    BY <1>17 DEF CleanUpFails
  <2>2. i \notin devices
    BY <1>2, <2>1
  <2>3. /\ options' \in Options /\ stage' \in [Enta -> Stage]
        /\ lines' \in [Enta -> Seq(Line)] /\ ScriptInv' /\ Alone(i)
        /\ stage'[i] = "off" /\ Todo(i)' = {}
    BY <1>6, <2>1, <2>2, StageFacts
  <2>4. Mess' = Mess + 1 /\ mishaps' \in [Mishaps -> Nat]
    BY <1>4, <1>5, <2>1
  <2>5. Typed
    BY <1>1, <2>1, <2>4 DEF Typed, hostVars
  <2>. QED
    BY <2>1, <2>3, <2>4, <2>5 DEF Moves, Suffers, hostVars
<1>18. CASE Exits(i)
  <2>1. /\ stage[i] \in {"cleaning", "orphan"} /\ lines[i] = <<>>
        /\ stage' = [stage EXCEPT ![i] = "off"] /\ lines' = lines
        /\ devices' = devices /\ starts' = starts /\ UNCHANGED <<hostVars, refused, mishaps>>
    BY <1>18 DEF Exits
  <2>2. i \notin devices /\ lines' = [lines EXCEPT ![i] = <<>>] /\ Todo(i) = {}
    BY <1>2, <1>3, <2>1
  <2>3. /\ options' \in Options /\ stage' \in [Enta -> Stage]
        /\ lines' \in [Enta -> Seq(Line)] /\ ScriptInv' /\ Alone(i)
        /\ stage'[i] = "off" /\ Todo(i)' = {}
    BY <1>6, <2>1, <2>2, StageFacts
  <2>4. Typed
    BY <1>1, <2>1 DEF Typed, hostVars
  <2>. QED
    BY <1>4, <2>1, <2>2, <2>3, <2>4 DEF Moves, Goes
<1>19. CASE Killed(i) \/ InterruptedEarly(i)
  <2>1. Dies(i) /\ (Mishap("killed") \/ Mishap("interruptedEarly"))
    BY <1>19 DEF Killed, InterruptedEarly
  <2>2. Mess' = Mess + 1 /\ mishaps' \in [Mishaps -> Nat]
    BY <1>4, <1>5, <2>1
  <2>. QED
    BY <2>1, <2>2, DiesFacts DEF Moves, Suffers
<1>20. CASE ShellOutlives(i)
  <2>. DEFINE s == lines[i]
              ls == IF Len(s) > 1 /\ s[Len(s)] \in ReplayLines
                    THEN SubSeq(s, 1, Len(s) - 1) ELSE s
              st == "orphan"
  <2>1. /\ stage[i] \in {"setup", "cleaning"} /\ Mishap("killed")
        /\ stage' = [stage EXCEPT ![i] = st] /\ lines' = [lines EXCEPT ![i] = ls]
        /\ devices' = devices \ {i} /\ table8' = table8 \ {i} /\ starts' = starts
        /\ UNCHANGED <<dnat, ipRules, redirect, refused>>
    BY <1>20 DEF ShellOutlives, DeviceGoes
  <2>2. s \in Seq(Line) /\ Distinct(s) /\ Items(s) = Todo(i)
    BY <1>1 DEF ScriptInv, Todo
  <2>. HIDE DEF s
  <2>3. ls \in Seq(Line) /\ Distinct(ls) /\ Items(ls) \subseteq Items(s)
    BY <2>2, FrontFacts
  <2>4. /\ st \in Stage /\ st = "orphan" /\ st \notin {"setup", "cleaning", "running"}
    BY DEF Stage
  <2>5. devices' \subseteq Enta /\ devices' \ {i} = devices \ {i} /\ i \notin devices'
    BY <1>1, <2>1
  <2>6. Items(ls) \subseteq SetupSet(i) \cup CleanSet(i)
    BY <1>2, <2>1, <2>2, <2>3
  <2>. HIDE DEF ls, st
  <2>7. /\ options' \in Options /\ stage' \in [Enta -> Stage]
        /\ lines' \in [Enta -> Seq(Line)] /\ ScriptInv'
        /\ Alone(i) /\ stage'[i] = st /\ Todo(i)' = Items(ls)
    BY <2>1, <2>3, <2>4, <2>5, <2>6, Moved
  <2>8. Mess' = Mess + 1 /\ mishaps' \in [Mishaps -> Nat]
    BY <1>4, <1>5, <2>1
  <2>9. Typed
    BY <1>1, <2>1, <2>5, <2>8 DEF Typed
  <2>10. Todo(i)' \subseteq Todo(i)
    BY <2>2, <2>3, <2>7
  <2>. QED
    BY <2>1, <2>4, <2>7, <2>8, <2>9, <2>10 DEF Moves, Suffers
<1>21. CASE OrphanLine(i)
  <2>. DEFINE line == Head(lines[i])
  <2>1. /\ stage[i] = "orphan" /\ lines[i] # <<>>
        /\ stage' = stage /\ devices' = devices /\ starts' = starts
        /\ refused' = refused /\ mishaps' = mishaps
    BY <1>21 DEF OrphanLine
  <2>2. CASE Exists(i, line) \/ line = "route add"
    <3>1. lines' = [lines EXCEPT ![i] = <<>>] /\ UNCHANGED hostVars
      BY <1>21, <2>2 DEF OrphanLine
    <3>. DEFINE ls == <<>>
                st == "orphan"
    <3>2. ls \in Seq(Line) /\ Distinct(ls) /\ Items(ls) = {}
      BY NoLines
    <3>3. /\ st \in Stage /\ st = "orphan" /\ st \notin {"setup", "cleaning", "running"}
          /\ stage' = [stage EXCEPT ![i] = st] /\ lines' = [lines EXCEPT ![i] = ls]
      BY <1>1, <2>1, <3>1 DEF Stage
    <3>4. devices' \subseteq Enta /\ devices' \ {i} = devices \ {i} /\ i \notin devices'
      BY <1>1, <1>2, <2>1
    <3>. HIDE DEF ls, st
    <3>5. /\ options' \in Options /\ stage' \in [Enta -> Stage]
          /\ lines' \in [Enta -> Seq(Line)] /\ ScriptInv'
          /\ Alone(i) /\ stage'[i] = st /\ Todo(i)' = Items(ls)
      BY <3>2, <3>3, <3>4, Moved
    <3>6. Typed
      BY <1>1, <2>1, <3>1, <3>4 DEF Typed, hostVars
    <3>. QED
      BY <1>4, <2>1, <3>1, <3>2, <3>3, <3>5, <3>6 DEF Moves, Goes
  <2>3. CASE ~(Exists(i, line) \/ line = "route add")
    <3>1. lines' = [lines EXCEPT ![i] = Tail(lines[i])] /\ Effect(i, line)
      BY <1>21, <2>3 DEF OrphanLine
    <3>2. line \in Todo(i) /\ line \in Line /\ line \in SetupSet(i) \cup CleanSet(i)
      BY <2>1, NextLine
    <3>3. /\ options' \in Options /\ stage' \in [Enta -> Stage]
          /\ lines' \in [Enta -> Seq(Line)] /\ ScriptInv' /\ Alone(i)
          /\ stage'[i] = stage[i] /\ Todo(i)' = Todo(i) \ {line}
      BY <2>1, <3>1, LineFacts
    <3>. HIDE DEF line
    <3>4. Typed
      BY <1>1, <2>1, <3>1, <3>2, EffectTypes DEF Typed
    <3>5. Runs(i, line)
      BY <1>4, <2>1, <2>3, <3>1, <3>2, <3>3 DEF Runs
    <3>. QED
      BY <3>2, <3>3, <3>4, <3>5 DEF Moves
  <2>. QED
    BY <2>2, <2>3
<1>. QED
  BY <1>7, <1>8, <1>9, <1>10, <1>11, <1>12, <1>13, <1>14, <1>15, <1>16, <1>17, <1>18, <1>19,
     <1>20, <1>21 DEF Step
-----------------------------------------------------------------------------
(* The host between two steps.  A rule was added by the process i if its   *)
(* setup is past the line, i holds it if nothing but the clean_up that is  *)
(* to come deletes it, and an orphaned shell of i may still add it.        *)
Added(i, add) == stage[i] = "running" \/ (stage[i] = "setup" /\ add \notin Todo(i))
Holds(i, add, del) == Added(i, add) \/ (stage[i] = "cleaning" /\ del \in Todo(i))
Adds(i, add) == stage[i] = "orphan" /\ add \in Todo(i)

(* Table 8 routes through the device of i exactly while it should.         *)
TableInv(i) == table8 = IF Added(i, "route add") THEN {i} ELSE {}

(* No ip rule but that of i; one that i does not hold costs a mishap, and  *)
(* so did every setup that was refused for it.                             *)
RuleInv(i) ==
  /\ ipRules \subseteq {Capture(i)}
  /\ Added(i, "rule add") => Capture(i) \in ipRules
  /\ refused <= Mess
  /\ Capture(i) \in ipRules /\ ~Holds(i, "rule add", "rule flush") => refused < Mess
  /\ Adds(i, "rule add") => refused < Mess

(* A mishap costs at most one rule of nat OUTPUT, and of nat PREROUTING.   *)
DnatInv(i) ==
  /\ Added(i, "-A OUTPUT") => dnat[Capture(i)] > 0
  /\ dnat[Capture(i)] <= Mess + 1
  /\ ~Holds(i, "-A OUTPUT", "-D OUTPUT") => dnat[Capture(i)] <= Mess
  /\ Adds(i, "-A OUTPUT") => dnat[Capture(i)] < Mess
RedirectInv(i) ==
  /\ Added(i, "-A PREROUTING") => redirect[Replay(i)] > 0
  /\ redirect[Replay(i)] <= Mess + 1
  /\ ~Holds(i, "-A PREROUTING", "-D PREROUTING") => redirect[Replay(i)] <= Mess
  /\ Adds(i, "-A PREROUTING") => redirect[Replay(i)] < Mess

(* What no process asks for, no process does.                              *)
NoneInv ==
  /\ \A p \in Port : /\ (\A i \in Enta : Capture(i) # p) => dnat[p] = 0
                     /\ (\A i \in Enta : Replay(i) # p) => redirect[p] = 0
  /\ (\A i \in Enta : ~Captures(i)) => table8 = {} /\ ipRules = {} /\ refused = 0

HostInv ==
  /\ \A i \in Enta : Captures(i) => TableInv(i) /\ RuleInv(i) /\ DnatInv(i)
  /\ \A i \in Enta : Replays(i) => RedirectInv(i)
  /\ NoneInv

(* Which lines belong to a setup and which to a clean_up.                  *)
LEMMA LinesOf ==
  ASSUME NEW i
  PROVE  /\ Captures(i) => /\ "-A OUTPUT" \in SetupSet(i) /\ "route add" \in SetupSet(i)
                           /\ "rule add" \in SetupSet(i) /\ "-D OUTPUT" \in CleanSet(i)
                           /\ "route flush" \in CleanSet(i) /\ "rule flush" \in CleanSet(i)
         /\ Replays(i) => "-A PREROUTING" \in SetupSet(i) /\ "-D PREROUTING" \in CleanSet(i)
         /\ "-D OUTPUT" \notin SetupSet(i) /\ "route flush" \notin SetupSet(i)
         /\ "rule flush" \notin SetupSet(i) /\ "-D PREROUTING" \notin SetupSet(i)
         /\ "-A OUTPUT" \notin CleanSet(i) /\ "route add" \notin CleanSet(i)
         /\ "rule add" \notin CleanSet(i) /\ "-A PREROUTING" \notin CleanSet(i)
         /\ \A line \in SetupSet(i) \cup CleanSet(i) :
              /\ ~Captures(i) => line \in {"-A PREROUTING", "-D PREROUTING"}
              /\ ~Replays(i) => line \notin {"-A PREROUTING", "-D PREROUTING"}
BY DEF SetupSet, CleanSet

(* The steps of i keep table 8 in order.                                   *)
LEMMA TableStep ==
  ASSUME TypeOK, ScriptInv, NEW i \in Enta, Captures(i), TableInv(i), Moves(i)
  PROVE  TableInv(i)'
<1>1. /\ stage[i] = "setup" => Todo(i) \subseteq SetupSet(i)
      /\ stage[i] = "cleaning" => Todo(i) \subseteq CleanSet(i)
      /\ stage[i] \notin {"setup", "cleaning", "orphan"} => Todo(i) = {}
  BY NoLines DEF ScriptInv, Todo
<1>2. CASE Goes(i)
  BY <1>2, LinesOf DEF Goes, hostVars, TableInv, Added
<1>3. CASE Returns(i)
  BY <1>3 DEF Returns, TableInv, Added
<1>4. ASSUME NEW line \in Line, Runs(i, line) PROVE TableInv(i)'
  <2>1. /\ stage[i] \in {"setup", "cleaning", "orphan"} /\ stage'[i] = stage[i]
        /\ line \in Todo(i) /\ Todo(i)' = Todo(i) \ {line}
        /\ stage[i] = "orphan" => line # "route add"
        /\ table8' = CASE line = "route add" -> {i}
                       [] line = "route flush" -> {}
                       [] OTHER -> table8
    BY <1>4 DEF Runs, Effect
  <2>2. CASE line = "route add"
    BY <1>1, <2>1, <2>2, LinesOf DEF TableInv, Added
  <2>3. CASE line = "route flush"
    BY <1>1, <2>1, <2>3, LinesOf DEF TableInv, Added
  <2>4. CASE line \notin {"route add", "route flush"}
    BY <2>1, <2>4 DEF TableInv, Added
  <2>. QED
    BY <2>2, <2>3, <2>4
<1>5. CASE Suffers(i)
  BY <1>5 DEF Suffers, TableInv, Added
<1>. QED
  BY <1>2, <1>3, <1>4, <1>5 DEF Moves

(* Its steps keep the account of the ip rule.                              *)
LEMMA RuleStep ==
  ASSUME TypeOK, ScriptInv, options' = options, NEW i \in Enta, Captures(i),
         TableInv(i), RuleInv(i), Moves(i)
  PROVE  RuleInv(i)'
<1>1. /\ stage[i] = "setup" => Todo(i) \subseteq SetupSet(i)
      /\ stage[i] = "cleaning" => Todo(i) \subseteq CleanSet(i)
      /\ stage[i] \notin {"setup", "cleaning", "orphan"} => Todo(i) = {}
  BY NoLines DEF ScriptInv, Todo
<1>2. Mess \in Nat /\ refused \in Nat /\ Capture(i)' = Capture(i)
  BY MishapFacts DEF TypeOK, Capture
<1>. DEFINE c == Capture(i)
<1>3. /\ ipRules \subseteq {c} /\ (Added(i, "rule add") => c \in ipRules)
      /\ refused <= Mess
      /\ c \in ipRules /\ ~Holds(i, "rule add", "rule flush") => refused < Mess
      /\ Adds(i, "rule add") => refused < Mess
  BY <1>2 DEF RuleInv
<1>n. refused \in Nat /\ Mess \in Nat /\ refused <= Mess
  BY <1>2, <1>3
<1>. DEFINE Next1 == /\ ipRules' \subseteq {c} /\ (Added(i, "rule add")' => c \in ipRules')
                     /\ refused' \in Nat /\ Mess' \in Nat /\ refused' <= Mess'
                     /\ (c \in ipRules' /\ ~Holds(i, "rule add", "rule flush")'
                            => refused' < Mess')
                     /\ (Adds(i, "rule add")' => refused' < Mess')
<1>4. SUFFICES Next1
  BY <1>2 DEF RuleInv
<1>. HIDE DEF c
<1>5. CASE Goes(i)
  BY <1>1, <1>2, <1>3, <1>5, LinesOf DEF Goes, hostVars, Added, Holds, Adds
<1>6. CASE Returns(i)
  <2>1. /\ stage'[i] = "cleaning" /\ "rule flush" \in Todo(i)' /\ ipRules' = ipRules
        /\ Mess' = Mess
    BY <1>6, LinesOf DEF Returns
  <2>2. refused' = refused \/ (refused' = refused + 1 /\ refused < Mess)
    <3>. SUFFICES ASSUME NEW line \in Todo(i), Exists(i, line), stage[i] = "setup"
                  PROVE  refused < Mess
      BY <1>6 DEF Returns
    <3>1. line # "route add" \/ table8 = {}
      BY <1>1 DEF TableInv, Added
    <3>2. line = "rule add" /\ c \in ipRules
      BY <3>1 DEF Exists, c
    <3>. QED
      BY <1>3, <3>2 DEF Holds, Added
  <2>3. ~Added(i, "rule add")' /\ Holds(i, "rule add", "rule flush")' /\ ~Adds(i, "rule add")'
    BY <2>1 DEF Added, Holds, Adds
  <2>4. refused' \in Nat /\ Mess' \in Nat /\ refused' <= Mess'
    <3>1. Mess' = Mess
      BY <2>1
    <3>. QED
      BY <1>n, <2>2, <3>1
  <2>. QED
    BY <1>3, <2>1, <2>3, <2>4, Zenon
<1>7. ASSUME NEW line \in Line, Runs(i, line) PROVE Next1
  <2>1. /\ stage[i] \in {"setup", "cleaning", "orphan"} /\ stage'[i] = stage[i]
        /\ line \in Todo(i) /\ Todo(i)' = Todo(i) \ {line}
        /\ ipRules' = CASE line = "rule add" -> ipRules \cup {c}
                        [] line = "rule flush" -> {}
                        [] OTHER -> ipRules
        /\ refused' = refused /\ Mess' = Mess
    BY <1>7 DEF Runs, Effect, c
  <2>2. CASE line = "rule add"
    BY <1>1, <1>2, <1>3, <2>1, <2>2, LinesOf DEF Added, Holds, Adds
  <2>3. CASE line = "rule flush"
    BY <1>1, <1>2, <1>3, <2>1, <2>3, LinesOf DEF Added, Holds, Adds
  <2>4. CASE line \notin {"rule add", "rule flush"}
    BY <1>2, <1>3, <2>1, <2>4 DEF Added, Holds, Adds
  <2>. QED
    BY <2>2, <2>3, <2>4
<1>8. CASE Suffers(i)
  <2>1. ~Added(i, "rule add")' /\ ipRules' = ipRules /\ refused' = refused /\ Mess' = Mess + 1
    BY <1>8 DEF Suffers, Added
  <2>2. refused' \in Nat /\ Mess' \in Nat /\ refused' <= Mess' /\ refused' < Mess'
    <3>1. refused' = refused /\ Mess' = Mess + 1
      BY <2>1
    <3>. QED
      BY <1>n, <3>1
  <2>. QED
    BY <1>3, <2>1, <2>2, Zenon
<1>. QED
  BY <1>5, <1>6, <1>7, <1>8 DEF Moves

(* Its steps keep the account of the rules of nat OUTPUT.                   *)
LEMMA DnatStep ==
  ASSUME TypeOK, ScriptInv, options' = options, NEW i \in Enta, Captures(i), DnatInv(i), Moves(i)
  PROVE  DnatInv(i)'
<1>1. /\ stage[i] = "setup" => Todo(i) \subseteq SetupSet(i)
      /\ stage[i] = "cleaning" => Todo(i) \subseteq CleanSet(i)
      /\ stage[i] \notin {"setup", "cleaning", "orphan"} => Todo(i) = {}
  BY NoLines DEF ScriptInv, Todo
<1>2. /\ Mess \in Nat /\ Capture(i)' = Capture(i) /\ Capture(i) \in Port
      /\ dnat \in [Port -> Nat]
  BY MishapFacts, OptionFacts DEF TypeOK, Capture
<1>. DEFINE n == dnat[Capture(i)]
            n1 == dnat'[Capture(i)]
<1>3. /\ n \in Nat /\ (Added(i, "-A OUTPUT") => n > 0)
      /\ n <= Mess + 1
      /\ ~Holds(i, "-A OUTPUT", "-D OUTPUT") => n <= Mess
      /\ Adds(i, "-A OUTPUT") => n < Mess
  BY <1>2 DEF DnatInv
<1>n. n \in Nat /\ Mess \in Nat /\ n <= Mess + 1
  BY <1>2, <1>3
<1>. DEFINE Next1 == /\ n1 \in Nat /\ Mess' \in Nat /\ (Added(i, "-A OUTPUT")' => n1 > 0)
                     /\ n1 <= Mess' + 1
                     /\ (~Holds(i, "-A OUTPUT", "-D OUTPUT")' => n1 <= Mess')
                     /\ (Adds(i, "-A OUTPUT")' => n1 < Mess')
<1>4. SUFFICES Next1
  BY <1>2 DEF DnatInv
<1>5. CASE Goes(i)
  <2>1. n1 = n /\ Mess' = Mess
    BY <1>5 DEF Goes, hostVars
  <2>. HIDE DEF n, n1
  <2>. QED
    BY <1>1, <1>2, <1>3, <1>5, <2>1, LinesOf DEF Goes, Added, Holds, Adds
<1>6. CASE Returns(i)
  <2>1. /\ stage'[i] = "cleaning" /\ "-D OUTPUT" \in Todo(i)' /\ n1 = n /\ Mess' = Mess
    BY <1>6, LinesOf DEF Returns
  <2>. HIDE DEF n, n1
  <2>. QED
    BY <1>2, <1>3, <2>1 DEF Added, Holds, Adds
<1>7. ASSUME NEW line \in Line, Runs(i, line) PROVE Next1
  <2>1. /\ stage[i] \in {"setup", "cleaning", "orphan"} /\ stage'[i] = stage[i]
        /\ line \in Todo(i) /\ Todo(i)' = Todo(i) \ {line} /\ Mess' = Mess
    BY <1>7 DEF Runs
  <2>2. CASE line = "-A OUTPUT"
    <3>1. dnat' = [dnat EXCEPT ![Capture(i)] = dnat[Capture(i)] + 1]
      BY <1>7, <2>2 DEF Runs, Effect
    <3>2. n1 = n + 1
      BY <1>2, <3>1
    <3>. HIDE DEF n, n1
    <3>3. /\ ~Holds(i, "-A OUTPUT", "-D OUTPUT") /\ ~Adds(i, "-A OUTPUT")'
          /\ Holds(i, "-A OUTPUT", "-D OUTPUT")' \/ Adds(i, "-A OUTPUT")
      BY <1>1, <2>1, <2>2, LinesOf DEF Added, Holds, Adds
    <3>4. n <= Mess /\ (~Holds(i, "-A OUTPUT", "-D OUTPUT")' => n < Mess)
      BY <1>3, <3>3, Zenon
    <3>5. /\ n1 \in Nat /\ n1 > 0 /\ Mess' \in Nat /\ n1 <= Mess' + 1
          /\ n < Mess => n1 <= Mess'
      <4>1. n <= Mess /\ Mess' = Mess
        BY <2>1, <3>4
      <4>. QED
        BY <1>n, <3>2, <4>1
    <3>. QED
      BY <3>3, <3>4, <3>5, Zenon
  <2>3. CASE line = "-D OUTPUT"
    <3>1. dnat' = [dnat EXCEPT ![Capture(i)] = OneLess(dnat[Capture(i)])]
      BY <1>7, <2>3 DEF Runs, Effect
    <3>2. n1 = IF n = 0 THEN 0 ELSE n - 1
      BY <1>2, <3>1 DEF OneLess
    <3>. HIDE DEF n, n1
    <3>3. ~Added(i, "-A OUTPUT")' /\ (Adds(i, "-A OUTPUT")' => Adds(i, "-A OUTPUT"))
      BY <1>1, <2>1, <2>3, LinesOf DEF Added, Adds
    <3>4. /\ n1 \in Nat /\ Mess' \in Nat /\ n1 <= Mess' + 1 /\ n1 <= Mess'
          /\ n < Mess => n1 < Mess'
      <4>1. Mess' = Mess
        BY <2>1
      <4>. QED
        BY <1>n, <3>2, <4>1
    <3>. QED
      BY <1>3, <3>3, <3>4, Zenon
  <2>4. CASE line \notin {"-A OUTPUT", "-D OUTPUT"}
    <3>1. n1 = n
      BY <1>7, <2>4 DEF Runs, Effect
    <3>. HIDE DEF n, n1
    <3>. QED
      BY <1>2, <1>3, <2>1, <2>4, <3>1 DEF Added, Holds, Adds
  <2>. QED
    BY <2>2, <2>3, <2>4
<1>8. CASE Suffers(i)
  <2>1. n1 = n /\ Mess' = Mess + 1
    BY <1>8 DEF Suffers
  <2>. HIDE DEF n, n1
  <2>2. ~Added(i, "-A OUTPUT")'
    BY <1>8 DEF Suffers, Added
  <2>3. Adds(i, "-A OUTPUT")' => ~Holds(i, "-A OUTPUT", "-D OUTPUT")
    BY <1>1, <1>8, LinesOf DEF Suffers, Added, Holds, Adds
  <2>4. /\ n1 \in Nat /\ Mess' \in Nat /\ n1 <= Mess' + 1 /\ n1 <= Mess'
        /\ n <= Mess => n1 < Mess'
    BY <1>n, <2>1
  <2>. QED
    BY <1>3, <2>2, <2>3, <2>4, Zenon
<1>. QED
  BY <1>5, <1>6, <1>7, <1>8 DEF Moves

(* Its steps keep the account of the rules of nat PREROUTING.               *)
LEMMA RedirectStep ==
  ASSUME TypeOK, ScriptInv, options' = options, NEW i \in Enta, Replays(i), RedirectInv(i), Moves(i)
  PROVE  RedirectInv(i)'
<1>1. /\ stage[i] = "setup" => Todo(i) \subseteq SetupSet(i)
      /\ stage[i] = "cleaning" => Todo(i) \subseteq CleanSet(i)
      /\ stage[i] \notin {"setup", "cleaning", "orphan"} => Todo(i) = {}
  BY NoLines DEF ScriptInv, Todo
<1>2. /\ Mess \in Nat /\ Replay(i)' = Replay(i) /\ Replay(i) \in Port
      /\ redirect \in [Port -> Nat]
  BY MishapFacts, OptionFacts DEF TypeOK, Replay
<1>. DEFINE n == redirect[Replay(i)]
            n1 == redirect'[Replay(i)]
<1>3. /\ n \in Nat /\ (Added(i, "-A PREROUTING") => n > 0)
      /\ n <= Mess + 1
      /\ ~Holds(i, "-A PREROUTING", "-D PREROUTING") => n <= Mess
      /\ Adds(i, "-A PREROUTING") => n < Mess
  BY <1>2 DEF RedirectInv
<1>n. n \in Nat /\ Mess \in Nat /\ n <= Mess + 1
  BY <1>2, <1>3
<1>. DEFINE Next1 == /\ n1 \in Nat /\ Mess' \in Nat /\ (Added(i, "-A PREROUTING")' => n1 > 0)
                     /\ n1 <= Mess' + 1
                     /\ (~Holds(i, "-A PREROUTING", "-D PREROUTING")' => n1 <= Mess')
                     /\ (Adds(i, "-A PREROUTING")' => n1 < Mess')
<1>4. SUFFICES Next1
  BY <1>2 DEF RedirectInv
<1>5. CASE Goes(i)
  <2>1. n1 = n /\ Mess' = Mess
    BY <1>5 DEF Goes, hostVars
  <2>. HIDE DEF n, n1
  <2>. QED
    BY <1>1, <1>2, <1>3, <1>5, <2>1, LinesOf DEF Goes, Added, Holds, Adds
<1>6. CASE Returns(i)
  <2>1. /\ stage'[i] = "cleaning" /\ "-D PREROUTING" \in Todo(i)' /\ n1 = n /\ Mess' = Mess
    BY <1>6, LinesOf DEF Returns
  <2>. HIDE DEF n, n1
  <2>. QED
    BY <1>2, <1>3, <2>1 DEF Added, Holds, Adds
<1>7. ASSUME NEW line \in Line, Runs(i, line) PROVE Next1
  <2>1. /\ stage[i] \in {"setup", "cleaning", "orphan"} /\ stage'[i] = stage[i]
        /\ line \in Todo(i) /\ Todo(i)' = Todo(i) \ {line} /\ Mess' = Mess
    BY <1>7 DEF Runs
  <2>2. CASE line = "-A PREROUTING"
    <3>1. redirect' = [redirect EXCEPT ![Replay(i)] = redirect[Replay(i)] + 1]
      BY <1>7, <2>2 DEF Runs, Effect
    <3>2. n1 = n + 1
      BY <1>2, <3>1
    <3>. HIDE DEF n, n1
    <3>3. /\ ~Holds(i, "-A PREROUTING", "-D PREROUTING") /\ ~Adds(i, "-A PREROUTING")'
          /\ Holds(i, "-A PREROUTING", "-D PREROUTING")' \/ Adds(i, "-A PREROUTING")
      BY <1>1, <2>1, <2>2, LinesOf DEF Added, Holds, Adds
    <3>4. n <= Mess /\ (~Holds(i, "-A PREROUTING", "-D PREROUTING")' => n < Mess)
      BY <1>3, <3>3, Zenon
    <3>5. /\ n1 \in Nat /\ n1 > 0 /\ Mess' \in Nat /\ n1 <= Mess' + 1
          /\ n < Mess => n1 <= Mess'
      <4>1. n <= Mess /\ Mess' = Mess
        BY <2>1, <3>4
      <4>. QED
        BY <1>n, <3>2, <4>1
    <3>. QED
      BY <3>3, <3>4, <3>5, Zenon
  <2>3. CASE line = "-D PREROUTING"
    <3>1. redirect' = [redirect EXCEPT ![Replay(i)] = OneLess(redirect[Replay(i)])]
      BY <1>7, <2>3 DEF Runs, Effect
    <3>2. n1 = IF n = 0 THEN 0 ELSE n - 1
      BY <1>2, <3>1 DEF OneLess
    <3>. HIDE DEF n, n1
    <3>3. ~Added(i, "-A PREROUTING")' /\ (Adds(i, "-A PREROUTING")' => Adds(i, "-A PREROUTING"))
      BY <1>1, <2>1, <2>3, LinesOf DEF Added, Adds
    <3>4. /\ n1 \in Nat /\ Mess' \in Nat /\ n1 <= Mess' + 1 /\ n1 <= Mess'
          /\ n < Mess => n1 < Mess'
      <4>1. Mess' = Mess
        BY <2>1
      <4>. QED
        BY <1>n, <3>2, <4>1
    <3>. QED
      BY <1>3, <3>3, <3>4, Zenon
  <2>4. CASE line \notin {"-A PREROUTING", "-D PREROUTING"}
    <3>1. n1 = n
      BY <1>7, <2>4 DEF Runs, Effect
    <3>. HIDE DEF n, n1
    <3>. QED
      BY <1>2, <1>3, <2>1, <2>4, <3>1 DEF Added, Holds, Adds
  <2>. QED
    BY <2>2, <2>3, <2>4
<1>8. CASE Suffers(i)
  <2>1. n1 = n /\ Mess' = Mess + 1
    BY <1>8 DEF Suffers
  <2>. HIDE DEF n, n1
  <2>2. ~Added(i, "-A PREROUTING")'
    BY <1>8 DEF Suffers, Added
  <2>3. Adds(i, "-A PREROUTING")' => ~Holds(i, "-A PREROUTING", "-D PREROUTING")
    BY <1>1, <1>8, LinesOf DEF Suffers, Added, Holds, Adds
  <2>4. /\ n1 \in Nat /\ Mess' \in Nat /\ n1 <= Mess' + 1 /\ n1 <= Mess'
        /\ n <= Mess => n1 < Mess'
    BY <1>n, <2>1
  <2>. QED
    BY <1>3, <2>2, <2>3, <2>4, Zenon
<1>. QED
  BY <1>5, <1>6, <1>7, <1>8 DEF Moves

(* A process that does not capture, or does not replay, leaves that part   *)
(* of the host alone.                                                      *)
LEMMA OtherMoves ==
  ASSUME TypeOK, ScriptInv, NEW j \in Enta, Moves(j)
  PROVE  /\ Mess' = Mess \/ Mess' = Mess + 1
         /\ \A i \in Enta : i # j => stage'[i] = stage[i] /\ Todo(i)' = Todo(i)
         /\ ~Captures(j) => /\ dnat' = dnat /\ ipRules' = ipRules /\ refused' = refused
                            /\ table8' = table8 \/ table8' = table8 \ {j}
         /\ ~Replays(j) => redirect' = redirect
         /\ \A p \in Port : /\ p # Capture(j) => dnat'[p] = dnat[p]
                            /\ p # Replay(j) => redirect'[p] = redirect[p]
<1>1. /\ dnat \in [Port -> Nat] /\ redirect \in [Port -> Nat]
      /\ stage \in [Enta -> Stage]
  BY DEF TypeOK
<1>2. stage[j] \in {"setup", "cleaning", "orphan"} => Todo(j) \subseteq SetupSet(j) \cup CleanSet(j)
  BY DEF ScriptInv
<1>3. /\ Mess' = Mess \/ Mess' = Mess + 1
      /\ \A i \in Enta : i # j => stage'[i] = stage[i] /\ Todo(i)' = Todo(i)
  BY Zenon DEF Moves, Goes, Returns, Runs, Suffers, Alone
<1>4. CASE Goes(j)
  BY <1>3, <1>4 DEF Goes, hostVars
<1>5. CASE Returns(j)
  <2>1. /\ dnat' = dnat /\ ipRules' = ipRules /\ redirect' = redirect
        /\ table8' = table8 \ {j}
    BY <1>5 DEF Returns
  <2>2. ASSUME ~Captures(j) PROVE refused' = refused
    <3>. SUFFICES ASSUME NEW line \in Todo(j), Exists(j, line), stage[j] = "setup"
                  PROVE  FALSE
      BY <1>5 DEF Returns
    <3>1. line \in {"-A PREROUTING", "-D PREROUTING"}
      BY <1>2, <2>2, LinesOf
    <3>. QED
      BY <3>1 DEF Exists
  <2>. QED
    BY <1>3, <2>1, <2>2
<1>6. ASSUME NEW line \in Line, Runs(j, line)
      PROVE  /\ ~Captures(j) => /\ dnat' = dnat /\ ipRules' = ipRules /\ refused' = refused
                                /\ table8' = table8
             /\ ~Replays(j) => redirect' = redirect
             /\ \A p \in Port : /\ p # Capture(j) => dnat'[p] = dnat[p]
                                /\ p # Replay(j) => redirect'[p] = redirect[p]
  <2>1. line \in SetupSet(j) \cup CleanSet(j) /\ Effect(j, line) /\ refused' = refused
    BY <1>2, <1>6 DEF Runs
  <2>2. /\ ~Captures(j) => line \in {"-A PREROUTING", "-D PREROUTING"}
        /\ ~Replays(j) => line \notin {"-A PREROUTING", "-D PREROUTING"}
    BY <2>1, LinesOf
  <2>3. ~Captures(j) => dnat' = dnat /\ ipRules' = ipRules /\ table8' = table8
    BY <2>1, <2>2 DEF Effect
  <2>4. ~Replays(j) => redirect' = redirect
    BY <2>1, <2>2 DEF Effect
  <2>5. \A p \in Port : p # Capture(j) => dnat'[p] = dnat[p]
    BY <1>1, <2>1 DEF Effect
  <2>6. \A p \in Port : p # Replay(j) => redirect'[p] = redirect[p]
    BY <1>1, <2>1 DEF Effect
  <2>. QED
    BY <2>1, <2>3, <2>4, <2>5, <2>6
<1>7. CASE Suffers(j)
  BY <1>3, <1>7 DEF Suffers
<1>. QED
  BY <1>3, <1>4, <1>5, <1>6, <1>7 DEF Moves

(* No step of another process disturbs what i has added.                   *)
LEMMA OthersStep ==
  ASSUME TypeOK, ScriptInv, options' = options, NEW i \in Enta, NEW j \in Enta, i # j,
         Moves(j)
  PROVE  /\ Captures(i) /\ TableInv(i) => TableInv(i)'
         /\ Captures(i) /\ RuleInv(i) => RuleInv(i)'
         /\ Captures(i) /\ DnatInv(i) => DnatInv(i)'
         /\ Replays(i) /\ RedirectInv(i) => RedirectInv(i)'
<1>1. /\ Mess \in Nat /\ refused \in Nat /\ Capture(i)' = Capture(i) /\ Replay(i)' = Replay(i)
      /\ dnat \in [Port -> Nat] /\ redirect \in [Port -> Nat]
  BY MishapFacts DEF TypeOK, Capture, Replay
<1>2. /\ Captures(i) => ~Captures(j) /\ Capture(i) \in Port
      /\ Replays(i) => ~Replays(j) /\ Replay(i) \in Port
  BY OptionFacts DEF TypeOK
<1>3. /\ Mess' = Mess \/ Mess' = Mess + 1
      /\ stage'[i] = stage[i] /\ Todo(i)' = Todo(i)
      /\ ~Captures(j) => /\ dnat' = dnat /\ ipRules' = ipRules /\ refused' = refused
                         /\ table8' = table8 \/ table8' = table8 \ {j}
      /\ ~Replays(j) => redirect' = redirect
  BY OtherMoves
<1>4. \A add, del : /\ Added(i, add)' <=> Added(i, add)
                    /\ Holds(i, add, del)' <=> Holds(i, add, del)
                    /\ Adds(i, add)' <=> Adds(i, add)
  BY <1>3 DEF Added, Holds, Adds
<1>5. ASSUME Captures(i), TableInv(i) PROVE TableInv(i)'
  <2>1. table8' = table8
    BY <1>2, <1>3, <1>5 DEF TableInv
  <2>. QED
    BY <1>4, <1>5, <2>1 DEF TableInv
<1>6. \A k \in Nat : (k <= Mess => k <= Mess') /\ (k < Mess => k < Mess')
                     /\ (k <= Mess + 1 => k <= Mess' + 1)
  <2>1. Mess' = Mess \/ Mess' = Mess + 1
    BY <1>3
  <2>2. Mess \in Nat
    BY <1>1
  <2>. QED
    BY <2>1, <2>2
<1>7. ASSUME Captures(i), RuleInv(i) PROVE RuleInv(i)'
  <2>1. refused' = refused /\ ipRules' = ipRules /\ refused \in Nat
    BY <1>1, <1>2, <1>3, <1>7
  <2>. QED
    BY <1>1, <1>4, <1>6, <1>7, <2>1, Zenon DEF RuleInv
<1>8. ASSUME Captures(i), DnatInv(i) PROVE DnatInv(i)'
  <2>1. dnat' = dnat /\ dnat[Capture(i)] \in Nat
    BY <1>1, <1>2, <1>3, <1>8
  <2>. QED
    BY <1>1, <1>4, <1>6, <1>8, <2>1, Zenon DEF DnatInv
<1>9. ASSUME Replays(i), RedirectInv(i) PROVE RedirectInv(i)'
  <2>1. redirect' = redirect /\ redirect[Replay(i)] \in Nat
    BY <1>1, <1>2, <1>3, <1>9
  <2>. QED
    BY <1>1, <1>4, <1>6, <1>9, <2>1, Zenon DEF RedirectInv
<1>. QED
  BY <1>5, <1>7, <1>8, <1>9
-----------------------------------------------------------------------------
Inv == TypeOK /\ ScriptInv /\ HostInv

(* A host on which ENTA never ran is in order.                             *)
LEMMA HostInit == Init => Inv
<1>. SUFFICES ASSUME Init PROVE Inv
  OBVIOUS
<1>1. TypeOK
  BY HostAssumption, NoLines DEF Init, TypeOK, Stage
<1>2. ScriptInv
  BY NoLines DEF Init, ScriptInv
<1>3. Mess = 0 /\ refused = 0
  <2>1. /\ mishaps["killed"] = 0 /\ mishaps["interruptedEarly"] = 0
        /\ mishaps["cleanFault"] = 0
    BY DEF Init, Mishaps
  <2>. QED
    BY <2>1 DEF Init, Mess
<1>4. /\ \A i \in Enta : stage[i] = "off"
      /\ \A p \in Port : dnat[p] = 0 /\ redirect[p] = 0
      /\ table8 = {} /\ ipRules = {}
  BY DEF Init
<1>5. \A i \in Enta : \A add, del : ~Added(i, add) /\ ~Holds(i, add, del) /\ ~Adds(i, add)
  BY <1>4 DEF Added, Holds, Adds
<1>6. \A i \in Enta : /\ Captures(i) => Capture(i) \in Port
                      /\ Replays(i) => Replay(i) \in Port
  BY <1>1, OptionFacts DEF TypeOK
<1>7. ASSUME NEW i \in Enta, Captures(i) PROVE TableInv(i) /\ RuleInv(i) /\ DnatInv(i)
  <2>1. dnat[Capture(i)] = 0
    BY <1>4, <1>6, <1>7
  <2>2. TableInv(i)
    BY <1>4, <1>5 DEF TableInv
  <2>3. 0 <= 0 /\ 0 <= 0 + 1
    OBVIOUS
  <2>4. RuleInv(i)
    BY <1>3, <1>4, <1>5, <2>3, Zenon DEF RuleInv
  <2>5. DnatInv(i)
    BY <1>3, <1>5, <2>1, <2>3, Zenon DEF DnatInv
  <2>. QED
    BY <2>2, <2>4, <2>5
<1>8. ASSUME NEW i \in Enta, Replays(i) PROVE RedirectInv(i)
  <2>1. redirect[Replay(i)] = 0
    BY <1>4, <1>6, <1>8
  <2>2. 0 <= 0 /\ 0 <= 0 + 1
    OBVIOUS
  <2>. QED
    BY <1>3, <1>5, <2>1, <2>2, Zenon DEF RedirectInv
<1>9. NoneInv
  BY <1>3, <1>4 DEF NoneInv
<1>. QED
  BY <1>1, <1>2, <1>7, <1>8, <1>9 DEF Inv, HostInv

(* Every step of every process keeps it in order, with the books of the    *)
(* mishaps.                                                                *)
LEMMA HostStep == Inv /\ [Next]_vars => Inv'
<1>. SUFFICES ASSUME Inv, [Next]_vars PROVE Inv'
  OBVIOUS
<1>. USE DEF Inv
<1>1. CASE UNCHANGED vars
  <2>1. /\ options' = options /\ stage' = stage /\ lines' = lines /\ devices' = devices
        /\ dnat' = dnat /\ table8' = table8 /\ ipRules' = ipRules /\ redirect' = redirect
        /\ starts' = starts /\ refused' = refused /\ mishaps' = mishaps
    BY <1>1 DEF vars, procVars, hostVars
  <2>2. TypeOK'
    BY <2>1, Zenon DEF TypeOK
  <2>3. /\ \A i : Capture(i)' = Capture(i) /\ Replay(i)' = Replay(i)
        /\ \A i : Todo(i)' = Todo(i)
        /\ Mess' = Mess
    BY <2>1, Zenon DEF Capture, Replay, Todo, Mess
  <2>4. \A i : /\ Captures(i)' <=> Captures(i)
               /\ Replays(i)' <=> Replays(i)
    BY <2>3, Zenon DEF Captures, Replays
  <2>5. \A i : SetupSet(i)' = SetupSet(i) /\ CleanSet(i)' = CleanSet(i)
    BY <2>4 DEF SetupSet, CleanSet
  <2>6. ScriptInv'
    BY <2>1, <2>3, <2>5, Zenon DEF ScriptInv
  <2>7. \A i, add, del : /\ Added(i, add)' <=> Added(i, add)
                         /\ Holds(i, add, del)' <=> Holds(i, add, del)
                         /\ Adds(i, add)' <=> Adds(i, add)
    BY <2>1, <2>3, Zenon DEF Added, Holds, Adds
  <2>8. ASSUME NEW i \in Enta
        PROVE  /\ Captures(i) => TableInv(i)' /\ RuleInv(i)' /\ DnatInv(i)'
               /\ Replays(i) => RedirectInv(i)'
    <3>1. /\ Captures(i) => TableInv(i) /\ RuleInv(i) /\ DnatInv(i)
          /\ Replays(i) => RedirectInv(i)
      BY DEF HostInv
    <3>2. TableInv(i) => TableInv(i)'
      BY <2>1, <2>7 DEF TableInv
    <3>3. RuleInv(i) => RuleInv(i)'
      BY <2>1, <2>3, <2>7, Zenon DEF RuleInv
    <3>4. DnatInv(i) => DnatInv(i)'
      BY <2>1, <2>3, <2>7, Zenon DEF DnatInv
    <3>5. RedirectInv(i) => RedirectInv(i)'
      BY <2>1, <2>3, <2>7, Zenon DEF RedirectInv
    <3>. QED
      BY <3>1, <3>2, <3>3, <3>4, <3>5, Zenon
  <2>9. NoneInv'
    <3>1. NoneInv
      BY DEF HostInv
    <3>. QED
      BY <2>1, <2>3, <2>4, <3>1, Zenon DEF NoneInv
  <2>. QED
    BY <2>2, <2>4, <2>6, <2>8, <2>9, Zenon DEF HostInv
<1>2. CASE Next
  <2>1. options' = options
    BY <1>2 DEF Next
  <2>2. PICK j \in Enta : Step(j)
    BY <1>2 DEF Next
  <2>3. TypeOK' /\ ScriptInv' /\ Moves(j)
    BY <2>1, <2>2, StepMoves
  <2>4. \A i : /\ Capture(i)' = Capture(i) /\ Replay(i)' = Replay(i)
               /\ Captures(i)' <=> Captures(i)
               /\ Replays(i)' <=> Replays(i)
    BY <2>1, Zenon DEF Capture, Replay, Captures, Replays
  <2>5. ASSUME NEW i \in Enta, Captures(i) PROVE TableInv(i)' /\ RuleInv(i)' /\ DnatInv(i)'
    <3>1. TableInv(i) /\ RuleInv(i) /\ DnatInv(i)
      BY <2>5 DEF HostInv
    <3>2. CASE i = j
      BY <2>1, <2>3, <2>5, <3>1, <3>2, TableStep, RuleStep, DnatStep
    <3>3. CASE i # j
      BY <2>1, <2>3, <2>5, <3>1, <3>3, OthersStep
    <3>. QED
      BY <3>2, <3>3
  <2>6. ASSUME NEW i \in Enta, Replays(i) PROVE RedirectInv(i)'
    <3>1. RedirectInv(i)
      BY <2>6 DEF HostInv
    <3>2. CASE i = j
      BY <2>1, <2>3, <2>6, <3>1, <3>2, RedirectStep
    <3>3. CASE i # j
      BY <2>1, <2>3, <2>6, <3>1, <3>3, OthersStep
    <3>. QED
      BY <3>2, <3>3
  <2>7. NoneInv'
    <3>1. /\ \A p \in Port : /\ (\A i \in Enta : Capture(i) # p) => dnat[p] = 0
                             /\ (\A i \in Enta : Replay(i) # p) => redirect[p] = 0
          /\ (\A i \in Enta : ~Captures(i)) => table8 = {} /\ ipRules = {} /\ refused = 0
      BY DEF HostInv, NoneInv
    <3>2. /\ \A p \in Port : /\ p # Capture(j) => dnat'[p] = dnat[p]
                             /\ p # Replay(j) => redirect'[p] = redirect[p]
          /\ ~Captures(j) => /\ ipRules' = ipRules /\ refused' = refused
                             /\ table8' = table8 \/ table8' = table8 \ {j}
      BY <2>3, OtherMoves
    <3>3. ASSUME NEW p \in Port
          PROVE  /\ (\A i \in Enta : Capture(i) # p) => dnat'[p] = 0
                 /\ (\A i \in Enta : Replay(i) # p) => redirect'[p] = 0
      BY <3>1, <3>2, Zenon
    <3>4. ASSUME \A i \in Enta : ~Captures(i)
          PROVE  table8' = {} /\ ipRules' = {} /\ refused' = 0
      BY <3>1, <3>2, <3>4
    <3>. QED
      BY <2>4, <3>3, <3>4, Zenon DEF NoneInv
  <2>. QED
    BY <2>3, <2>4, <2>5, <2>6, <2>7, Zenon DEF HostInv
<1>. QED
  BY <1>1, <1>2

(* The order of the host is kept for ever.                                 *)
LEMMA HostAlways == Spec => []Inv
<1>. QED
  BY HostInit, HostStep, PTL DEF Spec
-----------------------------------------------------------------------------
(* A process that is running has every rule that brings packets to it,     *)
(* whatever earlier processes left and whatever the other process does.    *)
THEOREM AlwaysCaptured == Spec => []RunningIsCaptured
<1>1. Inv => RunningIsCaptured
  <2>. SUFFICES ASSUME Inv, NEW i \in Enta, stage[i] = "running"
                PROVE  /\ i \in devices
                       /\ Captures(i) => /\ dnat[Capture(i)] > 0 /\ Capture(i) \in ipRules
                                         /\ table8 = {i}
                       /\ Replays(i) => redirect[Replay(i)] > 0
    BY Zenon DEF RunningIsCaptured
  <2>1. \A add : Added(i, add)
    BY DEF Added
  <2>2. i \in devices
    BY DEF Inv, ScriptInv
  <2>3. Captures(i) => dnat[Capture(i)] > 0 /\ Capture(i) \in ipRules /\ table8 = {i}
    BY <2>1, Zenon DEF Inv, HostInv, TableInv, RuleInv, DnatInv
  <2>4. Replays(i) => redirect[Replay(i)] > 0
    BY <2>1, Zenon DEF Inv, HostInv, RedirectInv
  <2>. QED
    BY <2>2, <2>3, <2>4
<1>. QED
  BY <1>1, HostAlways, PTL

(* When every process has left main() and nothing went wrong but faults of *)
(* setups, which clean_up answers for, nothing of them is left.            *)
THEOREM AlwaysCleanExit == Spec => []CleanExit
<1>1. Inv => CleanExit
  <2>. SUFFICES ASSUME Inv, \A i \in Enta : stage[i] = "off", Mess = 0
                PROVE  Untouched
    BY Zenon DEF CleanExit
  <2>1. \A i \in Enta : \A add, del : ~Added(i, add) /\ ~Holds(i, add, del)
    BY DEF Added, Holds
  <2>2. /\ dnat \in [Port -> Nat] /\ redirect \in [Port -> Nat] /\ devices \subseteq Enta
        /\ refused \in Nat /\ options \in Options
    BY DEF Inv, TypeOK
  <2>3. NoneInv
    BY DEF Inv, HostInv
  <2>4. devices = {}
    BY <2>2 DEF Inv, ScriptInv
  <2>5. ASSUME NEW p \in Port PROVE dnat[p] = 0
    <3>1. CASE \A i \in Enta : Capture(i) # p
      BY <2>3, <3>1 DEF NoneInv
    <3>2. ASSUME NEW i \in Enta, Capture(i) = p PROVE dnat[p] = 0
      <4>1. Captures(i)
        BY <3>2, HostAssumption DEF Captures
      <4>2. dnat[p] <= Mess
        BY <2>1, <3>2, <4>1, Zenon DEF Inv, HostInv, DnatInv
      <4>. QED
        BY <2>2, <4>2
    <3>. QED
      BY <3>1, <3>2
  <2>6. ASSUME NEW p \in Port PROVE redirect[p] = 0
    <3>1. CASE \A i \in Enta : Replay(i) # p
      BY <2>3, <3>1 DEF NoneInv
    <3>2. ASSUME NEW i \in Enta, Replay(i) = p PROVE redirect[p] = 0
      <4>1. Replays(i)
        BY <3>2, HostAssumption DEF Replays
      <4>2. redirect[p] <= Mess
        BY <2>1, <3>2, <4>1, Zenon DEF Inv, HostInv, RedirectInv
      <4>. QED
        BY <2>2, <4>2
    <3>. QED
      BY <3>1, <3>2
  <2>7. ipRules = {} /\ table8 = {}
    <3>1. CASE \A i \in Enta : ~Captures(i)
      BY <2>3, <3>1 DEF NoneInv
    <3>2. ASSUME NEW i \in Enta, Captures(i) PROVE ipRules = {} /\ table8 = {}
      <4>1. TableInv(i) /\ RuleInv(i)
        BY <3>2 DEF Inv, HostInv
      <4>2. table8 = {}
        BY <2>1, <4>1 DEF TableInv
      <4>3. ipRules \subseteq {Capture(i)} /\ (Capture(i) \in ipRules => refused < Mess)
        BY <2>1, <4>1, Zenon DEF RuleInv
      <4>4. ~(refused < Mess)
        BY <2>2
      <4>. QED
        BY <4>2, <4>3, <4>4
    <3>. QED
      BY <3>1, <3>2
  <2>. QED
    BY <2>4, <2>5, <2>6, <2>7 DEF Untouched
<1>. QED
  BY <1>1, HostAlways, PTL

(* Stale rules do not multiply: there are never more of a kind than        *)
(* mishaps, and the one of a process that is up.                           *)
THEOREM AlwaysBounded == Spec => []LeftoversBounded
<1>1. Inv => LeftoversBounded
  <2>. SUFFICES ASSUME Inv, NEW p \in Port
                PROVE  /\ dnat[p] <= Mess + Cardinality({i \in {j \in Enta : stage[j] # "off"} :
                                                           Capture(i) = p})
                       /\ redirect[p] <= Mess + Cardinality({i \in {j \in Enta : stage[j] # "off"} :
                                                               Replay(i) = p})
    BY Zenon DEF LeftoversBounded
  <2>. DEFINE A == {i \in {j \in Enta : stage[j] # "off"} : Capture(i) = p}
              B == {i \in {j \in Enta : stage[j] # "off"} : Replay(i) = p}
  <2>1. /\ dnat \in [Port -> Nat] /\ redirect \in [Port -> Nat] /\ options \in Options
        /\ Mess \in Nat /\ NoneInv
    BY MishapFacts DEF Inv, TypeOK, HostInv
  <2>2. dnat[p] \in Nat /\ redirect[p] \in Nat
    BY <2>1
  <2>3. dnat[p] <= Mess + Cardinality(A)
    <3>1. CASE \A i \in Enta : Capture(i) # p
      <4>1. A = {} /\ dnat[p] = 0
        BY <2>1, <3>1 DEF NoneInv
      <4>2. Cardinality(A) = 0
        BY <4>1, FS_EmptySet
      <4>. QED
        BY <2>1, <4>1, <4>2
    <3>2. ASSUME NEW i \in Enta, Capture(i) = p PROVE dnat[p] <= Mess + Cardinality(A)
      <4>1. Captures(i)
        BY <3>2, HostAssumption DEF Captures
      <4>2. \A j \in Enta : Capture(j) = p => j = i
        BY <2>1, <3>2, <4>1, OptionFacts DEF Captures
      <4>3. DnatInv(i)
        BY <4>1 DEF Inv, HostInv
      <4>4. CASE stage[i] = "off"
        <5>1. A = {}
          BY <4>2, <4>4
        <5>2. Cardinality(A) = 0
          BY <5>1, FS_EmptySet
        <5>3. ~Holds(i, "-A OUTPUT", "-D OUTPUT")
          BY <4>4 DEF Holds, Added
        <5>4. dnat[p] <= Mess
          BY <3>2, <4>3, <5>3, Zenon DEF DnatInv
        <5>. QED
          BY <2>1, <5>2, <5>4
      <4>5. CASE stage[i] # "off"
        <5>1. A = {i}
          BY <3>2, <4>2, <4>5
        <5>2. Cardinality(A) = 1
          BY <5>1, FS_Singleton
        <5>3. dnat[p] <= Mess + 1
          BY <3>2, <4>3, Zenon DEF DnatInv
        <5>. QED
          BY <5>2, <5>3
      <4>. QED
        BY <4>4, <4>5
    <3>. QED
      BY <3>1, <3>2
  <2>4. redirect[p] <= Mess + Cardinality(B)
    <3>1. CASE \A i \in Enta : Replay(i) # p
      <4>1. B = {} /\ redirect[p] = 0
        BY <2>1, <3>1 DEF NoneInv
      <4>2. Cardinality(B) = 0
        BY <4>1, FS_EmptySet
      <4>. QED
        BY <2>1, <4>1, <4>2
    <3>2. ASSUME NEW i \in Enta, Replay(i) = p PROVE redirect[p] <= Mess + Cardinality(B)
      <4>1. Replays(i)
        BY <3>2, HostAssumption DEF Replays
      <4>2. \A j \in Enta : Replay(j) = p => j = i
        BY <2>1, <3>2, <4>1, OptionFacts DEF Replays
      <4>3. RedirectInv(i)
        BY <4>1 DEF Inv, HostInv
      <4>4. CASE stage[i] = "off"
        <5>1. B = {}
          BY <4>2, <4>4
        <5>2. Cardinality(B) = 0
          BY <5>1, FS_EmptySet
        <5>3. ~Holds(i, "-A PREROUTING", "-D PREROUTING")
          BY <4>4 DEF Holds, Added
        <5>4. redirect[p] <= Mess
          BY <3>2, <4>3, <5>3, Zenon DEF RedirectInv
        <5>. QED
          BY <2>1, <5>2, <5>4
      <4>5. CASE stage[i] # "off"
        <5>1. B = {i}
          BY <3>2, <4>2, <4>5
        <5>2. Cardinality(B) = 1
          BY <5>1, FS_Singleton
        <5>3. redirect[p] <= Mess + 1
          BY <3>2, <4>3, Zenon DEF RedirectInv
        <5>. QED
          BY <5>2, <5>3
      <4>. QED
        BY <4>4, <4>5
    <3>. QED
      BY <3>1, <3>2
  <2>. QED
    BY <2>3, <2>4
<1>. QED
  BY <1>1, HostAlways, PTL

(* No more setups are refused than mishaps happened: the clean_up of the   *)
(* refused one removes what it stumbled over.                              *)
THEOREM AlwaysRecover == Spec => []StartsRecover
<1>1. Inv => StartsRecover
  <2>. SUFFICES ASSUME Inv PROVE refused <= Mess
    BY DEF StartsRecover
  <2>1. Mess \in Nat /\ refused \in Nat /\ NoneInv
    BY MishapFacts DEF Inv, TypeOK, HostInv
  <2>2. CASE \A i \in Enta : ~Captures(i)
    <3>1. refused = 0
      BY <2>1, <2>2 DEF NoneInv
    <3>. QED
      BY <2>1, <3>1
  <2>3. ASSUME NEW i \in Enta, Captures(i) PROVE refused <= Mess
    BY <2>3, Zenon DEF Inv, HostInv, RuleInv
  <2>. QED
    BY <2>2, <2>3
<1>. QED
  BY <1>1, HostAlways, PTL
=============================================================================
