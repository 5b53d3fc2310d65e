--------------------------- MODULE FramingProofs ---------------------------
(* Theorems about Framing, for all bases and lengths of the header, all    *)
(* packets that it can announce, and all capacities of the stream.         *)
EXTENDS Framing, StreamLemmas

(* A recursive function on an interval exists, and there is only one.      *)
Recursive(f, m, a, step) ==
  f = [k \in 0 .. m |-> IF k = 0 THEN a ELSE step[f[k - 1]]]

LEMMA RecursiveExists ==
  ASSUME NEW S, NEW a \in S, NEW step \in [S -> S], NEW m \in Nat
  PROVE  \E f \in [0 .. m -> S] : Recursive(f, m, a, step)
<1>. DEFINE T == {n \in Nat : \E f \in [0 .. n -> S] : Recursive(f, n, a, step)}
<1>1. 0 \in T
  <2>. DEFINE f == [k \in 0 .. 0 |-> a]
  <2>1. f \in [0 .. 0 -> S] /\ Recursive(f, 0, a, step)
    BY DEF Recursive
  <2>. QED
    BY <2>1
<1>2. ASSUME NEW k \in 0 .. m - 1, k \in T PROVE k + 1 \in T
  <2>1. PICK f \in [0 .. k -> S] : Recursive(f, k, a, step)
    BY <1>2
  <2>. DEFINE g == [i \in 0 .. k + 1 |-> IF i = k + 1 THEN step[f[k]] ELSE f[i]]
  <2>2. k \in Nat /\ f[k] \in S /\ step[f[k]] \in S
    BY <2>1
  <2>3. g \in [0 .. k + 1 -> S]
    BY <2>1, <2>2
  <2>4. ASSUME NEW i \in 0 .. k + 1
        PROVE  g[i] = IF i = 0 THEN a ELSE step[g[i - 1]]
    <3>1. CASE i = 0
      BY <2>1, <2>2, <3>1 DEF Recursive
    <3>2. CASE i = k + 1
      BY <2>2, <3>2
    <3>3. CASE i \in 1 .. k
      <4>1. i \in 0 .. k /\ i # 0 /\ i - 1 \in 0 .. k /\ i # k + 1 /\ i - 1 # k + 1
        BY <2>2, <3>3
      <4>2. g[i] = f[i] /\ g[i - 1] = f[i - 1]
        BY <2>2, <4>1
      <4>3. f[i] = step[f[i - 1]]
        BY <2>1, <4>1 DEF Recursive
      <4>. QED
        BY <4>1, <4>2, <4>3
    <3>. QED
      BY <2>2, <3>1, <3>2, <3>3
  <2>5. Recursive(g, k + 1, a, step)
    BY <2>3, <2>4 DEF Recursive
  <2>. QED
    BY <2>2, <2>3, <2>5
<1>. HIDE DEF T
<1>3. m \in T
  BY <1>1, <1>2, Induction
<1>. QED
  BY <1>3 DEF T
-----------------------------------------------------------------------------
(* What is left of a number while its digits are taken away.               *)
LEMMA ShiftedFacts ==
  ASSUME NEW n \in Nat
  PROVE  /\ Shifted(n) \in [0 .. HeaderLen -> Nat]
         /\ Shifted(n)[0] = n
         /\ \A k \in 1 .. HeaderLen : Shifted(n)[k] = Shifted(n)[k - 1] \div Base
<1>. DEFINE f == Shifted(n)
            Def(g) == g = [k \in 0 .. HeaderLen |-> IF k = 0 THEN n ELSE g[k - 1] \div Base]
<1>1. HeaderLen \in Nat \ {0} /\ Base \in Nat \ {0, 1}
  BY FramingAssumption
<1>2. \A x \in Nat : x \div Base \in Nat
  BY <1>1
<1>3. \E g : Def(g)
  <2>. DEFINE step == [x \in Nat |-> x \div Base]
  <2>1. step \in [Nat -> Nat]
    BY <1>2
  <2>2. PICK g \in [0 .. HeaderLen -> Nat] : Recursive(g, HeaderLen, n, step)
    BY <1>1, <2>1, RecursiveExists
  <2>3. \A k \in 0 .. HeaderLen : k # 0 => k - 1 \in 0 .. HeaderLen
    BY <1>1
  <2>4. \A k \in 0 .. HeaderLen : k # 0 => step[g[k - 1]] = g[k - 1] \div Base
    <3>1. \A k \in 0 .. HeaderLen : k # 0 => g[k - 1] \in Nat
      BY <2>2, <2>3
    <3>. QED
      BY <3>1
  <2>5. Def(g)
    <3>. HIDE DEF step
    <3>. QED
      BY <2>2, <2>4, Zenon DEF Recursive
  <2>. QED
    BY <2>5
<1>4. f = CHOOSE g : Def(g)
  BY DEF Shifted
<1>5. Def(f)
  <2>. HIDE DEF f, Def
  <2>. QED
    BY <1>3, <1>4
<1>. HIDE DEF f
<1>6. f[0] = n /\ \A k \in 1 .. HeaderLen : f[k] = f[k - 1] \div Base
  BY <1>1, <1>5
<1>7. \A k \in 0 .. HeaderLen : f[k] \in Nat
  <2>. DEFINE T == {k \in 0 .. HeaderLen : f[k] \in Nat}
  <2>1. 0 \in T
    BY <1>1, <1>6
  <2>2. ASSUME NEW k \in 0 .. HeaderLen - 1, k \in T PROVE k + 1 \in T
    <3>1. k + 1 \in 1 .. HeaderLen /\ k + 1 \in 0 .. HeaderLen /\ (k + 1) - 1 = k
      BY <1>1
    <3>. QED
      BY <1>2, <1>6, <2>2, <3>1
  <2>. HIDE DEF T
  <2>3. \A k \in 0 .. HeaderLen : k \in T
    BY <1>1, <2>1, <2>2, Induction
  <2>. QED
    BY <2>3 DEF T
<1>. QED
  BY <1>5, <1>6, <1>7 DEF f

(* A number ends in the digit that was put behind it.                      *)
LEMMA LastDigit ==
  ASSUME NEW x \in Nat, NEW c \in Byte
  PROVE  (x * Base + c) \div Base = x /\ (x * Base + c) % Base = c
<1>. DEFINE n == x * Base + c
            q == n \div Base
            r == n % Base
<1>1. Base \in Nat \ {0} /\ c \in Nat /\ c < Base
  BY FramingAssumption DEF Byte
<1>2. n \in Nat
  BY <1>1
<1>3. q \in Nat /\ r \in Nat /\ r < Base /\ n = q * Base + r
  <2>. HIDE DEF n
  <2>. QED
    BY <1>1, <1>2
<1>. HIDE DEF q, r
<1>4. ASSUME NEW a \in Nat, NEW b \in Nat, a < b PROVE a * Base + Base <= b * Base
  <2>. DEFINE d == b - (a + 1)
  <2>1. d \in Nat /\ b = (a + 1) + d
    BY <1>4
  <2>. HIDE DEF d
  <2>2. b * Base = (a * Base + Base) + d * Base /\ d * Base \in Nat /\ a * Base \in Nat
    BY <1>1, <2>1
  <2>. QED
    BY <1>1, <2>2
<1>5. x * Base \in Nat /\ q * Base \in Nat /\ x * Base + c = q * Base + r
  BY <1>1, <1>3
<1>6. ~(x < q) /\ ~(q < x)
  BY <1>1, <1>3, <1>4, <1>5
<1>7. q = x
  BY <1>3, <1>6
<1>8. r = c
  BY <1>1, <1>3, <1>5, <1>7
<1>. QED
  BY <1>7, <1>8 DEF q, r

(* The number that the decoder puts together, digit by digit.              *)
LEMMA LengthFacts ==
  ASSUME NEW h \in Seq(Byte), Len(h) = HeaderLen
  PROVE  \E number \in [0 .. HeaderLen -> Nat] :
           /\ number[0] = 0 /\ number[HeaderLen] = LengthIn(h)
           /\ \A i \in 1 .. HeaderLen : number[i] = number[i - 1] * Base + h[i]
<1>. DEFINE Def(g) == g = [i \in 0 .. HeaderLen |-> IF i = 0 THEN 0 ELSE g[i - 1] * Base + h[i]]
            number == CHOOSE g : Def(g)
            digit == [i \in Nat |-> IF i \in 1 .. HeaderLen THEN h[i] ELSE 0]
            step == [p \in Nat \X Nat |-> <<p[1] + 1, p[2] * Base + digit[p[1] + 1]>>]
            zero == <<0, 0>>
<1>1. HeaderLen \in Nat \ {0} /\ Base \in Nat \ {0, 1}
  BY FramingAssumption
<1>2. digit \in [Nat -> Nat] /\ \A i \in 1 .. HeaderLen : h[i] \in Nat /\ digit[i] = h[i]
  <2>1. \A i \in 1 .. HeaderLen : h[i] \in Nat
    BY <1>1, ElementOfSeq DEF Byte
  <2>. QED
    BY <2>1
<1>. HIDE DEF digit
<1>3. step \in [Nat \X Nat -> Nat \X Nat] /\ zero \in Nat \X Nat
  <2>1. ASSUME NEW x \in Nat, NEW y \in Nat PROVE x + 1 \in Nat /\ y * Base + digit[x + 1] \in Nat
    <3>1. x + 1 \in Nat /\ y * Base \in Nat
      BY <1>1
    <3>2. digit[x + 1] \in Nat
      BY <1>2, <3>1
    <3>. QED
      BY <3>1, <3>2
  <2>. QED
    BY <2>1
<1>4. \A p \in Nat \X Nat : step[p][1] = p[1] + 1 /\ step[p][2] = p[2] * Base + digit[p[1] + 1]
  OBVIOUS
<1>. HIDE DEF step, zero
<1>5. PICK f \in [0 .. HeaderLen -> Nat \X Nat] : Recursive(f, HeaderLen, zero, step)
  BY <1>1, <1>3, RecursiveExists
<1>6. f[0] = zero /\ \A k \in 1 .. HeaderLen : k - 1 \in 0 .. HeaderLen /\ f[k] = step[f[k - 1]]
  BY <1>1, <1>5 DEF Recursive
<1>7. zero[1] = 0 /\ zero[2] = 0
  BY DEF zero
<1>8. \A k \in 0 .. HeaderLen : f[k][1] = k
  <2>. DEFINE T == {k \in 0 .. HeaderLen : f[k][1] = k}
  <2>1. 0 \in T
    BY <1>1, <1>6, <1>7
  <2>2. ASSUME NEW k \in 0 .. HeaderLen - 1, k \in T PROVE k + 1 \in T
    <3>1. k + 1 \in 1 .. HeaderLen /\ k + 1 \in 0 .. HeaderLen /\ (k + 1) - 1 = k
          /\ k \in 0 .. HeaderLen
      BY <1>1
    <3>2. f[k + 1] = step[f[k]] /\ f[k] \in Nat \X Nat
      BY <1>5, <1>6, <3>1
    <3>3. f[k + 1][1] = f[k][1] + 1
      BY <1>4, <3>2
    <3>. QED
      BY <2>2, <3>1, <3>3
  <2>. HIDE DEF T
  <2>3. \A k \in 0 .. HeaderLen : k \in T
    BY <1>1, <2>1, <2>2, Induction
  <2>. QED
    BY <2>3 DEF T
<1>9. \E g : Def(g)
  <2>. DEFINE g == [i \in 0 .. HeaderLen |-> f[i][2]]
  <2>1. ASSUME NEW i \in 0 .. HeaderLen
        PROVE  g[i] = IF i = 0 THEN 0 ELSE g[i - 1] * Base + h[i]
    <3>1. CASE i = 0
      BY <1>1, <1>6, <1>7, <3>1
    <3>2. CASE i # 0
      <4>1. i \in 1 .. HeaderLen /\ i - 1 \in 0 .. HeaderLen /\ (i - 1) + 1 = i
        BY <1>1, <3>2
      <4>2. f[i] = step[f[i - 1]] /\ f[i - 1] \in Nat \X Nat /\ f[i - 1][1] = i - 1
        BY <1>5, <1>6, <1>8, <4>1
      <4>3. f[i][2] = f[i - 1][2] * Base + digit[i]
        BY <1>4, <4>1, <4>2
      <4>. QED
        BY <1>2, <3>2, <4>1, <4>3
    <3>. QED
      BY <3>1, <3>2
  <2>2. Def(g)
    BY <2>1
  <2>. QED
    BY <2>2
<1>10. Def(number)
  <2>. HIDE DEF Def
  <2>. QED
    BY <1>9
<1>11. LengthIn(h) = number[HeaderLen]
  BY DEF LengthIn
<1>. HIDE DEF number
<1>12. /\ number[0] = 0
       /\ \A i \in 1 .. HeaderLen : number[i] = number[i - 1] * Base + h[i]
  <2>1. \A i \in 1 .. HeaderLen : i \in 0 .. HeaderLen /\ i # 0
    BY <1>1
  <2>2. 0 \in 0 .. HeaderLen
    BY <1>1
  <2>. QED
    BY <1>10, <2>1, <2>2, Zenon
<1>13. \A i \in 0 .. HeaderLen : number[i] \in Nat
  <2>. DEFINE T == {i \in 0 .. HeaderLen : number[i] \in Nat}
  <2>1. 0 \in T
    BY <1>1, <1>12
  <2>2. ASSUME NEW k \in 0 .. HeaderLen - 1, k \in T PROVE k + 1 \in T
    <3>1. k + 1 \in 1 .. HeaderLen /\ k + 1 \in 0 .. HeaderLen /\ (k + 1) - 1 = k
      BY <1>1
    <3>2. number[k + 1] = number[k] * Base + h[k + 1] /\ number[k] \in Nat /\ h[k + 1] \in Nat
      BY <1>2, <1>12, <2>2, <3>1
    <3>3. \A x \in Nat : x * Base \in Nat
      BY <1>1
    <3>4. number[k] * Base \in Nat
      BY <3>2, <3>3
    <3>5. number[k + 1] \in Nat
      BY <3>2, <3>4
    <3>. QED
      BY <3>1, <3>5
  <2>. HIDE DEF T
  <2>3. \A k \in 0 .. HeaderLen : k \in T
    BY <1>1, <2>1, <2>2, Induction
  <2>. QED
    BY <2>3 DEF T
<1>14. number \in [0 .. HeaderLen -> Nat]
  BY <1>10, <1>13
<1>. QED
  BY <1>11, <1>12, <1>14

(* The header that announces a packet has HeaderLen bytes, and the decoder *)
(* reads the length from it again.                                         *)
THEOREM HeaderSurvives ==
  ASSUME NEW n \in Nat, Fits(n)
  PROVE  /\ Header(n) \in Seq(Byte) /\ Len(Header(n)) = HeaderLen
         /\ LengthIn(Header(n)) = n
<1>. DEFINE f == Shifted(n)
            h == Header(n)
<1>1. HeaderLen \in Nat \ {0} /\ Base \in Nat \ {0, 1}
  BY FramingAssumption
<1>2. /\ f \in [0 .. HeaderLen -> Nat] /\ f[0] = n
      /\ \A k \in 1 .. HeaderLen : f[k] = f[k - 1] \div Base
      /\ f[HeaderLen] = 0
  BY ShiftedFacts DEF Fits
<1>3. h = [i \in 1 .. HeaderLen |-> f[HeaderLen - i] % Base]
  BY DEF Header
<1>. HIDE DEF f, h
<1>4. \A x \in Nat : x % Base \in Byte /\ x = (x \div Base) * Base + (x % Base)
  BY <1>1 DEF Byte
<1>5. h \in Seq(Byte) /\ Len(h) = HeaderLen
  <2>1. h \in [1 .. HeaderLen -> Byte]
    <3>1. \A i \in 1 .. HeaderLen : HeaderLen - i \in 0 .. HeaderLen
      BY <1>1
    <3>2. \A i \in 1 .. HeaderLen : f[HeaderLen - i] % Base \in Byte
      BY <1>2, <1>4, <3>1
    <3>. QED
      BY <1>3, <3>2
  <2>. QED
    BY <1>1, <2>1, SeqDef, LenProperties
<1>6. ASSUME NEW i \in 1 .. HeaderLen
      PROVE  f[HeaderLen - i] = f[HeaderLen - (i - 1)] * Base + h[i]
  <2>1. /\ HeaderLen - i \in 0 .. HeaderLen /\ HeaderLen - (i - 1) \in 1 .. HeaderLen
        /\ (HeaderLen - (i - 1)) - 1 = HeaderLen - i
    BY <1>1
  <2>2. f[HeaderLen - (i - 1)] = f[HeaderLen - i] \div Base /\ f[HeaderLen - i] \in Nat
    BY <1>2, <2>1
  <2>3. h[i] = f[HeaderLen - i] % Base
    BY <1>3
  <2>. QED
    BY <1>4, <2>2, <2>3
<1>7. PICK number \in [0 .. HeaderLen -> Nat] :
        /\ number[0] = 0 /\ number[HeaderLen] = LengthIn(h)
        /\ \A i \in 1 .. HeaderLen : number[i] = number[i - 1] * Base + h[i]
  BY <1>5, LengthFacts
<1>8. \A i \in 0 .. HeaderLen : number[i] = f[HeaderLen - i]
  <2>. DEFINE T == {i \in 0 .. HeaderLen : number[i] = f[HeaderLen - i]}
  <2>1. 0 \in T
    BY <1>1, <1>2, <1>7
  <2>2. ASSUME NEW k \in 0 .. HeaderLen - 1, k \in T PROVE k + 1 \in T
    <3>1. k + 1 \in 1 .. HeaderLen /\ k + 1 \in 0 .. HeaderLen /\ (k + 1) - 1 = k
      BY <1>1
    <3>2. number[k + 1] = number[k] * Base + h[k + 1]
      BY <1>7, <3>1
    <3>3. f[HeaderLen - (k + 1)] = f[HeaderLen - k] * Base + h[k + 1]
      BY <1>6, <3>1
    <3>4. number[k] = f[HeaderLen - k]
      BY <2>2
    <3>5. number[k + 1] = f[HeaderLen - (k + 1)]
      BY <3>2, <3>3, <3>4, Zenon
    <3>. QED
      BY <3>1, <3>5
  <2>. HIDE DEF T
  <2>3. \A k \in 0 .. HeaderLen : k \in T
    BY <1>1, <2>1, <2>2, Induction
  <2>. QED
    BY <2>3 DEF T
<1>9. number[HeaderLen] = f[0]
  <2>1. HeaderLen \in 0 .. HeaderLen /\ HeaderLen - HeaderLen = 0
    BY <1>1
  <2>. QED
    BY <1>8, <2>1
<1>. QED
  BY <1>2, <1>5, <1>7, <1>9 DEF h

(* Every header announces a length, and only its own: the lengths that fit *)
(* are those that HeaderLen bytes can say.                                 *)
THEOREM HeaderIsUnique ==
  ASSUME NEW h \in Seq(Byte), Len(h) = HeaderLen
  PROVE  /\ LengthIn(h) \in Nat /\ Fits(LengthIn(h))
         /\ Header(LengthIn(h)) = h
<1>. DEFINE n == LengthIn(h)
            f == Shifted(n)
<1>1. HeaderLen \in Nat \ {0} /\ Base \in Nat \ {0, 1}
  BY FramingAssumption
<1>2. PICK number \in [0 .. HeaderLen -> Nat] :
        /\ number[0] = 0 /\ number[HeaderLen] = n
        /\ \A i \in 1 .. HeaderLen : number[i] = number[i - 1] * Base + h[i]
  BY LengthFacts
<1>3. n \in Nat
  BY <1>1, <1>2
<1>4. f[0] = n /\ \A k \in 1 .. HeaderLen : f[k] = f[k - 1] \div Base
  BY <1>3, ShiftedFacts
<1>. HIDE DEF n, f
<1>5. \A i \in 1 .. HeaderLen : number[i] \div Base = number[i - 1] /\ number[i] % Base = h[i]
  <2> SUFFICES ASSUME NEW i \in 1 .. HeaderLen
               PROVE  number[i] \div Base = number[i - 1] /\ number[i] % Base = h[i]
    OBVIOUS
  <2>1. h[i] \in Byte /\ number[i - 1] \in Nat
    BY <1>1, <1>2, ElementOfSeq
  <2>2. number[i] = number[i - 1] * Base + h[i]
    BY <1>2
  <2>. QED
    BY <2>1, <2>2, LastDigit
<1>6. \A k \in 0 .. HeaderLen : f[k] = number[HeaderLen - k]
  <2>. DEFINE T == {k \in 0 .. HeaderLen : f[k] = number[HeaderLen - k]}
  <2>1. 0 \in T
    BY <1>1, <1>2, <1>4
  <2>2. ASSUME NEW k \in 0 .. HeaderLen - 1, k \in T PROVE k + 1 \in T
    <3>1. /\ k + 1 \in 1 .. HeaderLen /\ k + 1 \in 0 .. HeaderLen /\ (k + 1) - 1 = k
          /\ HeaderLen - k \in 1 .. HeaderLen /\ (HeaderLen - k) - 1 = HeaderLen - (k + 1)
      BY <1>1
    <3>2. f[k + 1] = f[k] \div Base
      BY <1>4, <3>1
    <3>3. number[HeaderLen - k] \div Base = number[HeaderLen - (k + 1)]
      BY <1>5, <3>1
    <3>. QED
      BY <2>2, <3>1, <3>2, <3>3
  <2>. HIDE DEF T
  <2>3. \A k \in 0 .. HeaderLen : k \in T
    BY <1>1, <2>1, <2>2, Induction
  <2>. QED
    BY <2>3 DEF T
<1>7. Fits(n)
  <2>1. HeaderLen \in 0 .. HeaderLen /\ HeaderLen - HeaderLen = 0
    BY <1>1
  <2>2. f[HeaderLen] = 0
    BY <1>2, <1>6, <2>1
  <2>. QED
    BY <2>2 DEF Fits, f
<1>8. Header(n) = h
  <2>. DEFINE g == Header(n)
  <2>1. g = [i \in 1 .. HeaderLen |-> f[HeaderLen - i] % Base]
    BY DEF Header, f
  <2>2. g \in Seq(Byte) /\ Len(g) = HeaderLen
    BY <1>3, <1>7, HeaderSurvives
  <2>. HIDE DEF g
  <2>3. \A i \in 1 .. HeaderLen : g[i] = h[i]
    <3> SUFFICES ASSUME NEW i \in 1 .. HeaderLen PROVE g[i] = h[i]
      OBVIOUS
    <3>1. HeaderLen - i \in 0 .. HeaderLen /\ HeaderLen - (HeaderLen - i) = i
      BY <1>1
    <3>2. f[HeaderLen - i] = number[i]
      BY <1>6, <3>1
    <3>. QED
      BY <1>5, <2>1, <3>2
  <2>4. g = h
    BY <2>2, <2>3, SeqEqual
  <2>. QED
    BY <2>4 DEF g
<1>. QED
  BY <1>3, <1>7, <1>8 DEF n
-----------------------------------------------------------------------------
Bytes == Seq(Byte)
Frame(p) == Header(Len(p)) \o p

(* How three pieces are grouped makes no difference.  As a predicate of    *)
(* the pieces, so that the provers apply it to those that are named.       *)
Regroups(a, b, c) ==
  /\ a \o b \in Bytes /\ b \o c \in Bytes
  /\ (a \o b) \o c = a \o (b \o c)

LEMMA RegroupsBytes ==
  ASSUME NEW a \in Bytes, NEW b \in Bytes, NEW c \in Bytes
  PROVE  Regroups(a, b, c)
<1>. DEFINE S == Byte
<1>1. a \in Seq(S) /\ b \in Seq(S) /\ c \in Seq(S)
  BY DEF Bytes
<1>2. a \o b \in Seq(S) /\ b \o c \in Seq(S)
  BY <1>1, ConcatProperties
<1>3. (a \o b) \o c = a \o (b \o c)
  <2>. HIDE DEF S
  <2>. QED
    BY <1>1, ConcatAssociative
<1>. QED
  BY <1>2, <1>3 DEF Regroups, Bytes

(* The packets that can be announced.                                      *)
Packet == {p \in Bytes : Fits(Len(p))}

(* A frame is as long as its two parts.                                    *)
LEMMA FrameFacts ==
  ASSUME NEW p \in Packet
  PROVE  /\ p \in Bytes /\ Len(p) \in Nat
         /\ Header(Len(p)) \in Bytes /\ Len(Header(Len(p))) = HeaderLen
         /\ LengthIn(Header(Len(p))) = Len(p)
         /\ Frame(p) \in Bytes /\ Len(Frame(p)) = HeaderLen + Len(p)
<1>1. p \in Bytes /\ Len(p) \in Nat /\ Fits(Len(p))
  BY LenProperties DEF Packet, Bytes
<1>2. /\ Header(Len(p)) \in Bytes /\ Len(Header(Len(p))) = HeaderLen
      /\ LengthIn(Header(Len(p))) = Len(p)
  BY <1>1, HeaderSurvives DEF Bytes
<1>3. Frame(p) \in Bytes /\ Len(Frame(p)) = Len(Header(Len(p))) + Len(p)
  BY <1>1, <1>2, ConcatProperties DEF Bytes, Frame
<1>. QED
  BY <1>1, <1>2, <1>3

(* What a read or a write moves, and what it leaves.                       *)
LEMMA Moved ==
  ASSUME NEW s \in Bytes, NEW k \in 0 .. Len(s)
  PROVE  /\ Take(s, k) \in Bytes /\ Len(Take(s, k)) = k
         /\ Skip(s, k) \in Bytes /\ Len(Skip(s, k)) = Len(s) - k
         /\ s = Take(s, k) \o Skip(s, k)
BY CutInTwo DEF Bytes, Take, Skip

(* A piece in front of a stream is taken off a longer piece in front of it. *)
LEMMA TakeOff ==
  ASSUME NEW a \in Bytes, NEW b \in Bytes, NEW c \in Bytes, NEW d \in Bytes,
         a \o b = c \o d, Len(a) <= Len(c)
  PROVE  Take(c, Len(a)) = a /\ Skip(c, Len(a)) \o d = b
<1>. DEFINE t == Take(c, Len(a))
            r == Skip(c, Len(a))
<1>1. Len(a) \in Nat /\ Len(c) \in Nat /\ Len(a) \in 0 .. Len(c)
  BY LenProperties DEF Bytes
<1>2. t \in Bytes /\ Len(t) = Len(a) /\ r \in Bytes /\ c = t \o r
  BY <1>1, Moved
<1>. HIDE DEF t, r
<1>3. a \o b = t \o (r \o d) /\ r \o d \in Bytes
  <2>1. Regroups(t, r, d)
    BY <1>2, RegroupsBytes
  <2>. QED
    BY <1>2, <2>1 DEF Regroups
<1>. DEFINE u == r \o d
<1>4. u \in Bytes /\ a \o b = t \o u
  BY <1>3
<1>. HIDE DEF u
<1>5. a = t
  <2>1. /\ \A i \in 1 .. Len(a) + Len(b) : (a \o b)[i] = IF i <= Len(a) THEN a[i] ELSE b[i - Len(a)]
        /\ \A i \in 1 .. Len(t) + Len(u) : (t \o u)[i] = IF i <= Len(t) THEN t[i] ELSE u[i - Len(t)]
        /\ Len(b) \in Nat /\ Len(u) \in Nat
    <3>1. Len(b) \in Nat /\ Len(u) \in Nat
      BY <1>4, LenProperties DEF Bytes
    <3>2. a \in Seq(Byte) /\ b \in Seq(Byte) /\ t \in Seq(Byte) /\ u \in Seq(Byte)
      BY <1>2, <1>4 DEF Bytes
    <3>3. \A i \in 1 .. Len(a) + Len(b) : (a \o b)[i] = IF i <= Len(a) THEN a[i] ELSE b[i - Len(a)]
      BY <3>2, ConcatProperties
    <3>4. \A i \in 1 .. Len(t) + Len(u) : (t \o u)[i] = IF i <= Len(t) THEN t[i] ELSE u[i - Len(t)]
      BY <3>2, ConcatProperties
    <3>. QED
      BY <3>1, <3>3, <3>4
  <2>2. \A i \in 1 .. Len(a) : a[i] = t[i]
    <3> SUFFICES ASSUME NEW i \in 1 .. Len(a) PROVE a[i] = t[i]
      OBVIOUS
    <3>1. i <= Len(a) /\ i \in 1 .. Len(a) + Len(b) /\ i \in 1 .. Len(t) + Len(u)
      BY <1>1, <1>2, <2>1
    <3>2. (a \o b)[i] = a[i] /\ (t \o u)[i] = t[i]
      BY <1>2, <2>1, <3>1
    <3>. QED
      BY <1>4, <3>2
  <2>. QED
    BY <1>2, <2>2, SeqEqual DEF Bytes
<1>6. b = u
  BY <1>2, <1>4, <1>5, ConcatSimplifications DEF Bytes
<1>. QED
  BY <1>5, <1>6 DEF t, u, r
-----------------------------------------------------------------------------
(* The stream is cut into frames: tail[k] is what follows the frame of the *)
(* k-th packet that was sent.                                              *)
Tails(tail, s) ==
  /\ tail \in [0 .. Len(s) -> Bytes]
  /\ tail[Len(s)] = <<>>
  /\ \A k \in 0 .. Len(s) - 1 : tail[k] = Frame(s[k + 1]) \o tail[k + 1]

(* A decoder that has received d of the packets s finds, in the bytes that *)
(* are under way, the frames of the others, or, when it has taken a header *)
(* and waits for n bytes, the packet that follows.  The w bytes that the   *)
(* stream has not taken are of the last packet.                            *)
Decodes(s, d, n, bytes, w) ==
  \E tail : /\ Tails(tail, s)
            /\ \A k \in 0 .. Len(s) - 1 : w <= Len(tail[k])
            /\ IF n = NoFrame
               THEN bytes = tail[d]
               ELSE /\ d < Len(s)
                    /\ n = Len(s[d + 1])
                    /\ bytes = s[d + 1] \o tail[d + 1]

(* Nothing has been sent.                                                  *)
LEMMA DecodesNothing == Decodes(<<>>, 0, NoFrame, <<>>, 0)
<1>. DEFINE tail == [k \in 0 .. 0 |-> <<>>]
<1>1. <<>> \in Bytes /\ Len(<<>>) = 0
  BY EmptySeq DEF Bytes
<1>2. Tails(tail, <<>>)
  BY <1>1 DEF Tails
<1>3. tail[0] = <<>>
  OBVIOUS
<1>. HIDE DEF tail
<1>. QED
  BY <1>1, <1>2, <1>3 DEF Decodes

(* A packet is sent, whose frame goes to the end of the stream.            *)
LEMMA DecodesMore ==
  ASSUME NEW s \in Seq(Packet), NEW d \in 0 .. Len(s), NEW n, NEW bytes \in Bytes,
         Decodes(s, d, n, bytes, 0), NEW p \in Packet
  PROVE  Decodes(Append(s, p), d, n, bytes \o Frame(p), Len(Frame(p)))
<1>. DEFINE m == Len(s)
            t == Append(s, p)
            F == Frame(p)
<1>1. m \in Nat /\ d \in Nat /\ d <= m
  BY LenProperties
<1>2. /\ t \in Seq(Packet) /\ Len(t) = m + 1 /\ t[m + 1] = p
      /\ \A i \in 1 .. m : t[i] = s[i]
  BY AppendProperties
<1>3. F \in Bytes /\ Len(F) \in Nat /\ F \o <<>> = F /\ <<>> \o F = F /\ <<>> \in Bytes
  BY FrameFacts, LenProperties, ConcatEmptySeq, EmptySeq DEF Bytes
<1>4. PICK tail : /\ Tails(tail, s)
                  /\ IF n = NoFrame
                     THEN bytes = tail[d]
                     ELSE /\ d < m /\ n = Len(s[d + 1])
                          /\ bytes = s[d + 1] \o tail[d + 1]
  BY DEF Decodes
<1>. DEFINE new == [k \in 0 .. m + 1 |-> IF k = m + 1 THEN <<>> ELSE tail[k] \o F]
<1>5. /\ \A k \in 0 .. m : tail[k] \in Bytes
      /\ tail[m] = <<>>
      /\ \A k \in 0 .. m - 1 : tail[k] = Frame(s[k + 1]) \o tail[k + 1]
  BY <1>4 DEF Tails
<1>6. \A i \in 1 .. m : s[i] \in Packet /\ s[i] \in Bytes /\ Frame(s[i]) \in Bytes
  BY FrameFacts, ElementOfSeq
<1>. HIDE DEF m, t, F
<1>7. \A k \in 0 .. m : /\ tail[k] \o F \in Bytes
                        /\ Len(tail[k] \o F) = Len(tail[k]) + Len(F)
                        /\ Len(tail[k]) \in Nat
  BY <1>3, <1>5, ConcatProperties, LenProperties DEF Bytes
<1>8. /\ new[m + 1] = <<>> /\ \A k \in 0 .. m : new[k] = tail[k] \o F
      /\ new \in [0 .. m + 1 -> Bytes]
  <2>1. /\ new[m + 1] = <<>> /\ m + 1 \in 0 .. m + 1
        /\ \A k \in 0 .. m : k # m + 1 /\ k \in 0 .. m + 1
        /\ \A k \in 0 .. m + 1 : k # m + 1 => k \in 0 .. m
    BY <1>1
  <2>. QED
    BY <1>3, <1>7, <2>1
<1>. HIDE DEF new
<1>9. ASSUME NEW k \in 0 .. m PROVE new[k] = Frame(t[k + 1]) \o new[k + 1]
  <2>1. CASE k = m
    <3>1. k \in 0 .. m
      OBVIOUS
    <3>2. new[k] = F /\ new[k + 1] = <<>> /\ t[k + 1] = p
      BY <1>2, <1>3, <1>5, <1>8, <2>1
    <3>. QED
      BY <1>3, <3>2 DEF F
  <2>2. CASE k # m
    <3>1. k \in 0 .. m - 1 /\ k + 1 \in 1 .. m /\ k + 1 \in 0 .. m
      BY <1>1, <2>2
    <3>2. new[k] = (Frame(s[k + 1]) \o tail[k + 1]) \o F
      BY <1>5, <1>8, <3>1
    <3>3. new[k + 1] = tail[k + 1] \o F /\ t[k + 1] = s[k + 1]
      BY <1>2, <1>8, <3>1
    <3>4. Frame(s[k + 1]) \in Bytes /\ tail[k + 1] \in Bytes
      BY <1>5, <1>6, <3>1
    <3>5. (Frame(s[k + 1]) \o tail[k + 1]) \o F = Frame(s[k + 1]) \o (tail[k + 1] \o F)
      <4>. DEFINE a == Frame(s[k + 1])
                  b == tail[k + 1]
      <4>1. a \in Bytes /\ b \in Bytes /\ F \in Bytes
        BY <1>3, <3>4
      <4>. HIDE DEF a, b
      <4>2. Regroups(a, b, F)
        BY <4>1, RegroupsBytes
      <4>. QED
        BY <4>2 DEF a, b, Regroups
    <3>. QED
      BY <3>2, <3>3, <3>5
  <2>. QED
    BY <2>1, <2>2
<1>10. Tails(new, t)
  <2>1. \A k \in 0 .. Len(t) - 1 : k \in 0 .. m
    BY <1>1, <1>2
  <2>. QED
    BY <1>2, <1>8, <1>9, <2>1 DEF Tails
<1>11. \A k \in 0 .. Len(t) - 1 : Len(F) <= Len(new[k])
  <2>1. \A k \in 0 .. Len(t) - 1 : k \in 0 .. m
    BY <1>1, <1>2
  <2>. QED
    BY <1>3, <1>7, <1>8, <2>1
<1>12. IF n = NoFrame
       THEN bytes \o F = new[d]
       ELSE /\ d < Len(t) /\ n = Len(t[d + 1])
            /\ bytes \o F = t[d + 1] \o new[d + 1]
  <2>1. CASE n = NoFrame
    BY <1>1, <1>4, <1>8, <2>1 DEF m
  <2>2. CASE n # NoFrame
    <3>1. d < m /\ n = Len(s[d + 1]) /\ bytes = s[d + 1] \o tail[d + 1]
      BY <1>4, <2>2
    <3>2. d + 1 \in 1 .. m /\ d + 1 \in 0 .. m /\ d < Len(t)
      BY <1>1, <1>2, <3>1
    <3>3. t[d + 1] = s[d + 1] /\ new[d + 1] = tail[d + 1] \o F
      BY <1>2, <1>8, <3>2
    <3>4. (s[d + 1] \o tail[d + 1]) \o F = s[d + 1] \o (tail[d + 1] \o F)
      <4>. DEFINE a == s[d + 1]
                  b == tail[d + 1]
      <4>1. a \in Bytes /\ b \in Bytes /\ F \in Bytes
        BY <1>3, <1>5, <1>6, <3>2
      <4>. HIDE DEF a, b
      <4>2. Regroups(a, b, F)
        BY <4>1, RegroupsBytes
      <4>. QED
        BY <4>2 DEF a, b, Regroups
    <3>. QED
      BY <2>2, <3>1, <3>2, <3>3, <3>4
  <2>. QED
    BY <2>1, <2>2
<1>. QED
  BY <1>10, <1>11, <1>12 DEF Decodes, t, F

(* The stream takes bytes.                                                 *)
LEMMA DecodesWritten ==
  ASSUME NEW s \in Seq(Packet), NEW d, NEW n, NEW bytes, NEW w \in Nat, NEW v \in Nat,
         Decodes(s, d, n, bytes, w), v <= w
  PROVE  Decodes(s, d, n, bytes, v)
<1>1. PICK tail : /\ Tails(tail, s)
                  /\ \A k \in 0 .. Len(s) - 1 : w <= Len(tail[k])
                  /\ IF n = NoFrame
                     THEN bytes = tail[d]
                     ELSE /\ d < Len(s) /\ n = Len(s[d + 1])
                          /\ bytes = s[d + 1] \o tail[d + 1]
  BY DEF Decodes
<1>2. ASSUME NEW k \in 0 .. Len(s) - 1 PROVE v <= Len(tail[k])
  <2>1. k \in 0 .. Len(s)
    BY LenProperties
  <2>2. Len(tail[k]) \in Nat
    BY <1>1, <2>1, LenProperties DEF Tails, Bytes
  <2>. QED
    BY <1>1, <2>2
<1>. QED
  BY <1>1, <1>2 DEF Decodes

(* The decoder takes a header.                                             *)
LEMMA DecodesHeaderFacts ==
  ASSUME NEW s \in Seq(Packet), NEW d \in 0 .. Len(s), NEW r \in Bytes, NEW t \in Bytes,
         NEW w, Decodes(s, d, NoFrame, r \o t, w), HeaderLen <= Len(r)
  PROVE  LET n == LengthIn(Take(r, HeaderLen)) IN
         /\ n \in Nat
         /\ Decodes(s, d, n, Skip(r, HeaderLen) \o t, w)
<1>1. PICK tail : /\ Tails(tail, s)
                  /\ \A k \in 0 .. Len(s) - 1 : w <= Len(tail[k])
                  /\ r \o t = tail[d]
  BY DEF Decodes
<1>. DEFINE m == Len(s)
            p == s[d + 1]
            h == Header(Len(p))
            x == tail[d + 1]
<1>2. m \in Nat /\ d \in Nat /\ d <= m /\ HeaderLen \in Nat \ {0}
  BY LenProperties, FramingAssumption
<1>3. d # m
  <2>1. Len(r) \in Nat /\ r # <<>>
    BY <1>2, LenProperties, EmptySeq DEF Bytes
  <2>2. r \o t # <<>>
    BY <2>1, ConcatSimplifications DEF Bytes
  <2>. QED
    BY <1>1, <2>2 DEF Tails
<1>4. d + 1 \in 1 .. m /\ d + 1 \in 0 .. m /\ d \in 0 .. m - 1 /\ d < m
  BY <1>2, <1>3
<1>5. p \in Packet /\ x \in Bytes /\ tail[d] = Frame(p) \o x
  BY <1>1, <1>4, ElementOfSeq DEF Tails
<1>. HIDE DEF m, p, x
<1>6. /\ p \in Bytes /\ Len(p) \in Nat /\ h \in Bytes /\ Len(h) = HeaderLen
      /\ LengthIn(h) = Len(p) /\ Frame(p) = h \o p
  BY <1>5, FrameFacts DEF Frame
<1>. HIDE DEF h
<1>7. h \o (p \o x) = r \o t /\ p \o x \in Bytes
  <2>1. h \in Bytes /\ p \in Bytes /\ x \in Bytes /\ r \o t = (h \o p) \o x
    BY <1>1, <1>5, <1>6
  <2>2. Regroups(h, p, x)
    BY <2>1, RegroupsBytes
  <2>. QED
    BY <2>1, <2>2 DEF Regroups
<1>. DEFINE y == p \o x
<1>8. Take(r, HeaderLen) = h /\ Skip(r, HeaderLen) \o t = y
  <2>1. y \in Bytes /\ h \o y = r \o t /\ Len(h) <= Len(r)
    BY <1>6, <1>7
  <2>. HIDE DEF y
  <2>2. h \in Bytes /\ r \in Bytes /\ t \in Bytes
    BY <1>6
  <2>3. Take(r, Len(h)) = h /\ Skip(r, Len(h)) \o t = y
    BY <2>1, <2>2, TakeOff
  <2>. QED
    BY <1>6, <2>3
<1>9. Len(p) # NoFrame
  BY <1>6 DEF NoFrame
<1>10. Decodes(s, d, Len(p), p \o x, w)
  <2>. HIDE DEF Tails
  <2>. QED
    BY <1>1, <1>4, <1>9 DEF Decodes, m, p, x
<1>. QED
  BY <1>6, <1>8, <1>10

(* The decoder takes a packet, the next of those that were sent.           *)
LEMMA DecodesPacketFacts ==
  ASSUME NEW s \in Seq(Packet), NEW d \in 0 .. Len(s), NEW r \in Bytes, NEW t \in Bytes,
         NEW n, n # NoFrame, NEW w, Decodes(s, d, n, r \o t, w), n <= Len(r)
  PROVE  /\ d < Len(s) /\ Take(r, n) = s[d + 1] /\ n \in 0 .. Len(r)
         /\ Decodes(s, d + 1, NoFrame, Skip(r, n) \o t, w)
<1>1. PICK tail : /\ Tails(tail, s)
                  /\ \A k \in 0 .. Len(s) - 1 : w <= Len(tail[k])
                  /\ d < Len(s) /\ n = Len(s[d + 1])
                  /\ r \o t = s[d + 1] \o tail[d + 1]
  BY DEF Decodes
<1>. DEFINE p == s[d + 1]
            x == tail[d + 1]
<1>2. d + 1 \in 1 .. Len(s) /\ d + 1 \in 0 .. Len(s)
  BY <1>1, LenProperties
<1>3. p \in Bytes /\ x \in Bytes /\ n = Len(p) /\ n \in Nat /\ p \o x = r \o t
  <2>1. p \in Packet /\ x \in Bytes
    BY <1>1, <1>2, ElementOfSeq DEF Tails
  <2>. QED
    BY <1>1, <2>1, FrameFacts
<1>4. Take(r, n) = p /\ Skip(r, n) \o t = x
  <2>. HIDE DEF p, x
  <2>. QED
    BY <1>3, TakeOff
<1>5. n \in 0 .. Len(r)
  BY <1>3, LenProperties DEF Bytes
<1>6. Decodes(s, d + 1, NoFrame, x, w)
  <2>. HIDE DEF Tails
  <2>. QED
    BY <1>1 DEF Decodes
<1>. QED
  BY <1>1, <1>4, <1>5, <1>6

(* A decoder that has all bytes that left the sender and waits for more    *)
(* has received every packet, except the one that is still being sent.     *)
LEMMA DecodesStuck ==
  ASSUME NEW s \in Seq(Packet), NEW d \in 0 .. Len(s), NEW r \in Bytes, NEW t \in Bytes,
         NEW n, Decodes(s, d, n, r \o t, Len(t)),
         ~(n = NoFrame /\ Len(r) >= HeaderLen), ~(n # NoFrame /\ Len(r) >= n)
  PROVE  IF t = <<>> THEN r = <<>> /\ d = Len(s) ELSE d + 1 = Len(s)
<1>1. PICK tail : /\ Tails(tail, s)
                  /\ \A k \in 0 .. Len(s) - 1 : Len(t) <= Len(tail[k])
                  /\ IF n = NoFrame
                     THEN r \o t = tail[d]
                     ELSE /\ d < Len(s) /\ n = Len(s[d + 1])
                          /\ r \o t = s[d + 1] \o tail[d + 1]
  BY DEF Decodes
<1>. DEFINE m == Len(s)
<1>2. m \in Nat /\ d \in Nat /\ d <= m /\ HeaderLen \in Nat \ {0}
  BY LenProperties, FramingAssumption
<1>3. Len(r) \in Nat /\ Len(t) \in Nat /\ Len(r \o t) = Len(r) + Len(t)
  BY LenProperties, ConcatProperties DEF Bytes
<1>4. d < m => d + 1 = m /\ t # <<>>
  <2>1. SUFFICES ASSUME d < m PROVE d + 1 = m /\ t # <<>>
    OBVIOUS
  <2>. DEFINE p == s[d + 1]
              x == tail[d + 1]
  <2>2. d + 1 \in 1 .. m /\ d + 1 \in 0 .. m /\ d \in 0 .. m - 1
    BY <1>2, <2>1
  <2>3. p \in Packet /\ x \in Bytes /\ tail[d] = Frame(p) \o x
    BY <1>1, <2>2, ElementOfSeq DEF Tails
  <2>4. /\ p \in Bytes /\ Len(p) \in Nat /\ Len(x) \in Nat
        /\ Frame(p) \in Bytes /\ Len(Frame(p)) = HeaderLen + Len(p)
    BY <2>3, FrameFacts, LenProperties DEF Bytes
  <2>5. Len(x) < Len(t)
    <3>. HIDE DEF m, p, x
    <3>1. CASE n = NoFrame
      <4>1. r \o t = Frame(p) \o x
        BY <1>1, <2>3, <3>1
      <4>2. Len(r) + Len(t) = (HeaderLen + Len(p)) + Len(x)
        <5>. DEFINE F == Frame(p)
        <5>1. F \in Bytes /\ Len(F) = HeaderLen + Len(p) /\ r \o t = F \o x
          BY <2>4, <4>1
        <5>. HIDE DEF F
        <5>2. Len(F \o x) = Len(F) + Len(x)
          BY <2>3, <5>1, ConcatProperties DEF Bytes
        <5>. QED
          BY <1>3, <5>1, <5>2
      <4>3. Len(r) < HeaderLen
        BY <1>2, <1>3, <3>1
      <4>. QED
        BY <1>2, <1>3, <2>4, <4>2, <4>3
    <3>2. CASE n # NoFrame
      <4>1. r \o t = p \o x /\ n = Len(p)
        BY <1>1, <3>2 DEF p, x
      <4>2. Len(r) + Len(t) = Len(p) + Len(x)
        BY <1>3, <2>3, <2>4, <4>1, ConcatProperties DEF Bytes
      <4>3. Len(r) < Len(p)
        BY <1>3, <2>4, <3>2, <4>1
      <4>. QED
        BY <1>3, <2>4, <4>2, <4>3
    <3>. QED
      BY <3>1, <3>2
  <2>6. d + 1 = m
    <3>1. ASSUME d + 1 < m PROVE FALSE
      <4>1. d + 1 \in 0 .. m - 1
        BY <1>2, <3>1
      <4>2. Len(t) <= Len(x)
        BY <1>1, <4>1
      <4>. QED
        BY <1>3, <2>4, <2>5, <4>2
    <3>. QED
      BY <1>2, <2>2, <3>1
  <2>7. t # <<>>
    <3>1. Len(t) # 0
      BY <1>3, <2>4, <2>5
    <3>. QED
      BY <3>1, EmptySeq
  <2>. QED
    BY <2>6, <2>7
<1>5. d = m => r = <<>> /\ t = <<>>
  <2>1. SUFFICES ASSUME d = m PROVE r = <<>> /\ t = <<>>
    OBVIOUS
  <2>2. r \o t = <<>>
    <3>1. ~(d < Len(s))
      BY <1>2, <2>1
    <3>2. r \o t = tail[d]
      BY <1>1, <3>1, Zenon
    <3>. QED
      BY <1>1, <2>1, <3>2 DEF Tails
  <2>. QED
    BY <2>2, ConcatSimplifications DEF Bytes
<1>. QED
  BY <1>2, <1>4, <1>5
-----------------------------------------------------------------------------
TypeInv ==
  /\ exchange \in [Ends -> {"open", "eof", "torn", "failed", "left"}]
  /\ fed \in [Ends -> Seq(Packet)]
  /\ wbuf \in [Ends -> Bytes]
  /\ pipe \in [Ends -> Bytes]
  /\ rbuf \in [Ends -> Bytes]
  /\ need \in [Ends -> Int]
  /\ decoded \in [Ends -> Seq(Bytes)]
  /\ broken \in BOOLEAN

(* What the peer of e has decoded is the beginning of what e has sent, and *)
(* what is in its buffer, in the stream and in the buffer of e decodes to  *)
(* the rest.                                                               *)
FlowOK(e) ==
  /\ IsPrefix(decoded[Peer(e)], fed[e])
  /\ Decodes(fed[e], Len(decoded[Peer(e)]), need[Peer(e)],
             rbuf[Peer(e)] \o (pipe[e] \o wbuf[e]), Len(wbuf[e]))

FlowInv == \A e \in Ends : FlowOK(e)

(* An end has met the end of the stream when its peer had gone, and it has *)
(* all that left the peer.                                                 *)
EndOK(e) ==
  exchange[e] \in {"eof", "torn"} =>
    /\ exchange[Peer(e)] # "open"
    /\ IF wbuf[Peer(e)] = <<>>
       THEN exchange[e] = "eof" /\ decoded[e] = fed[Peer(e)]
       ELSE Append(decoded[e], fed[Peer(e)][Len(fed[Peer(e)])]) = fed[Peer(e)]

EndInv == \A e \in Ends : EndOK(e)

Inv == TypeInv /\ FlowInv /\ EndInv

(* Each end has one peer.                                                  *)
LEMMA EndFacts ==
  \A e \in Ends : /\ Peer(e) \in Ends /\ Peer(e) # e /\ Peer(Peer(e)) = e
                  /\ \A f \in Ends : f # e => f = Peer(e)
BY DEF Ends, Peer

(* The packets of an end, one of which it sends.                           *)
LEMMA SendsFacts ==
  ASSUME TypeInv, NEW e \in Ends, Sends(e)
  PROVE  /\ exchange[e] = "open" /\ wbuf[e] = <<>>
         /\ UNCHANGED <<exchange, pipe, readVars, broken>>
         /\ \E p \in Packet : /\ p \in ToSet(Packets[e])
                              /\ fed' = [fed EXCEPT ![e] = Append(fed[e], p)]
                              /\ wbuf' = [wbuf EXCEPT ![e] = Frame(p)]
<1>. DEFINE n == Len(fed[e]) + 1
            p == Packets[e][n]
<1>1. Len(fed[e]) \in Nat
  BY LenProperties DEF TypeInv
<1>2. Packets[e] \in Seq(Bytes) /\ Len(Packets[e]) \in Nat /\ DOMAIN Packets[e] = 1 .. Len(Packets[e])
  BY FramingAssumption, LenProperties DEF Bytes
<1>3. n \in 1 .. Len(Packets[e])
  BY <1>1, <1>2 DEF Sends
<1>4. p \in Packet
  BY <1>2, <1>3, FramingAssumption, ElementOfSeq DEF Packet
<1>5. p \in ToSet(Packets[e])
  BY <1>2, <1>3 DEF ToSet
<1>6. /\ fed' = [fed EXCEPT ![e] = Append(fed[e], p)]
      /\ wbuf' = [wbuf EXCEPT ![e] = Frame(p)]
  BY DEF Sends, Frame
<1>7. /\ exchange[e] = "open" /\ wbuf[e] = <<>>
      /\ UNCHANGED <<exchange, pipe, readVars, broken>>
  BY DEF Sends
<1>. HIDE DEF p
<1>. QED
  BY <1>4, <1>5, <1>6, <1>7

(* The stream takes the beginning p of the buffer.                         *)
LEMMA FlushesFacts ==
  ASSUME TypeInv, NEW e \in Ends, Flushes(e)
  PROVE  /\ exchange[e] = "open" /\ UNCHANGED <<exchange, fed, readVars, broken>>
         /\ \E p, q \in Bytes : /\ wbuf[e] = p \o q
                                /\ wbuf' = [wbuf EXCEPT ![e] = q]
                                /\ pipe' = [pipe EXCEPT ![e] = pipe[e] \o p]
<1>1. wbuf[e] \in Bytes /\ Len(wbuf[e]) \in Nat
  BY LenProperties DEF TypeInv, Bytes
<1>2. PICK k \in 1 .. Len(wbuf[e]) :
        /\ pipe' = [pipe EXCEPT ![e] = pipe[e] \o Take(wbuf[e], k)]
        /\ wbuf' = [wbuf EXCEPT ![e] = Skip(wbuf[e], k)]
  BY DEF Flushes
<1>. DEFINE p == Take(wbuf[e], k)
            q == Skip(wbuf[e], k)
<1>3. p \in Bytes /\ q \in Bytes /\ wbuf[e] = p \o q
  <2>1. k \in 0 .. Len(wbuf[e])
    BY <1>1
  <2>. QED
    BY <1>1, <2>1, Moved
<1>4. exchange[e] = "open" /\ UNCHANGED <<exchange, fed, readVars, broken>>
  BY DEF Flushes
<1>5. wbuf' = [wbuf EXCEPT ![e] = q] /\ pipe' = [pipe EXCEPT ![e] = pipe[e] \o p]
  BY <1>2
<1>. HIDE DEF p, q
<1>. QED
  BY <1>3, <1>4, <1>5

(* A read moves the beginning p of what the stream holds.                  *)
LEMMA FillsFacts ==
  ASSUME TypeInv, NEW e \in Ends, Fills(e)
  PROVE  /\ exchange[e] = "open" /\ UNCHANGED <<exchange, sendVars, need, decoded, broken>>
         /\ \E p, q \in Bytes : /\ pipe[Peer(e)] = p \o q
                                /\ pipe' = [pipe EXCEPT ![Peer(e)] = q]
                                /\ rbuf' = [rbuf EXCEPT ![e] = rbuf[e] \o p]
<1>. DEFINE s == pipe[Peer(e)]
<1>1. s \in Bytes /\ Len(s) \in Nat
  BY EndFacts, LenProperties DEF TypeInv, Bytes
<1>2. PICK k \in 1 .. Len(s) :
        /\ rbuf' = [rbuf EXCEPT ![e] = rbuf[e] \o Take(s, k)]
        /\ pipe' = [pipe EXCEPT ![Peer(e)] = Skip(s, k)]
  BY DEF Fills
<1>. DEFINE p == Take(s, k)
            q == Skip(s, k)
<1>3. p \in Bytes /\ q \in Bytes /\ s = p \o q
  <2>1. k \in 0 .. Len(s)
    BY <1>1
  <2>. HIDE DEF s
  <2>. QED
    BY <1>1, <2>1, Moved
<1>4. exchange[e] = "open" /\ UNCHANGED <<exchange, sendVars, need, decoded, broken>>
  BY DEF Fills
<1>5. rbuf' = [rbuf EXCEPT ![e] = rbuf[e] \o p] /\ pipe' = [pipe EXCEPT ![Peer(e)] = q]
  BY <1>2
<1>. HIDE DEF p, q
<1>. QED
  BY <1>3, <1>4, <1>5

(* What the decoder has received is as long as what it is a prefix of, at  *)
(* most.                                                                   *)
LEMMA Received ==
  ASSUME TypeInv, FlowInv, NEW e \in Ends
  PROVE  /\ fed[e] \in Seq(Packet) /\ decoded[Peer(e)] \in Seq(Bytes)
         /\ fed[e] \in Seq(Bytes)
         /\ Len(decoded[Peer(e)]) \in 0 .. Len(fed[e])
<1>1. fed[e] \in Seq(Packet) /\ decoded[Peer(e)] \in Seq(Bytes)
  BY EndFacts DEF TypeInv
<1>2. fed[e] \in Seq(Bytes)
  BY <1>1, SeqMonotonic DEF Packet
<1>3. Len(decoded[Peer(e)]) \in Nat /\ Len(decoded[Peer(e)]) <= Len(fed[e])
  <2>1. IsPrefix(decoded[Peer(e)], fed[e])
    BY DEF FlowInv, FlowOK
  <2>. QED
    BY <1>1, <1>2, <2>1, PrefixPointwise, LenProperties
<1>4. Len(fed[e]) \in Nat
  BY <1>2, LenProperties
<1>. QED
  BY <1>1, <1>2, <1>3, <1>4

(* A header says how long the next packet is.                              *)
LEMMA DecodesHeaderMoves ==
  ASSUME TypeInv, FlowInv, NEW e \in Ends, DecodesHeader(e)
  PROVE  /\ exchange[e] = "open" /\ UNCHANGED <<exchange, sendVars, pipe, decoded, broken>>
         /\ \E n \in Nat, r \in Bytes :
              /\ need' = [need EXCEPT ![e] = n] /\ rbuf' = [rbuf EXCEPT ![e] = r]
              /\ Decodes(fed[Peer(e)], Len(decoded[e]), n,
                         r \o (pipe[Peer(e)] \o wbuf[Peer(e)]), Len(wbuf[Peer(e)]))
<1>. DEFINE f == Peer(e)
            t == pipe[f] \o wbuf[f]
            n == LengthIn(Take(rbuf[e], HeaderLen))
            r == Skip(rbuf[e], HeaderLen)
<1>1. f \in Ends /\ Peer(f) = e
  BY EndFacts
<1>2. /\ exchange[e] = "open" /\ UNCHANGED <<exchange, sendVars, pipe, decoded, broken>>
      /\ need' = [need EXCEPT ![e] = n] /\ rbuf' = [rbuf EXCEPT ![e] = r]
      /\ need[e] = NoFrame /\ Len(rbuf[e]) >= HeaderLen
  BY DEF DecodesHeader, HasHeader
<1>3. rbuf[e] \in Bytes /\ t \in Bytes /\ Len(rbuf[e]) \in Nat
  BY <1>1, ConcatProperties, LenProperties DEF TypeInv, Bytes
<1>4. Decodes(fed[f], Len(decoded[e]), NoFrame, rbuf[e] \o t, Len(wbuf[f]))
  BY <1>1, <1>2 DEF FlowInv, FlowOK
<1>5. fed[f] \in Seq(Packet) /\ Len(decoded[e]) \in 0 .. Len(fed[f])
  BY <1>1, Received
<1>6. HeaderLen \in Nat /\ HeaderLen <= Len(rbuf[e]) /\ HeaderLen \in 0 .. Len(rbuf[e])
  BY <1>2, <1>3, FramingAssumption
<1>7. r \in Bytes
  BY <1>3, <1>6, Moved
<1>. HIDE DEF t
<1>8. n \in Nat /\ Decodes(fed[f], Len(decoded[e]), n, r \o t, Len(wbuf[f]))
  BY <1>3, <1>4, <1>5, <1>6, DecodesHeaderFacts
<1>. HIDE DEF n, r
<1>. QED
  BY <1>2, <1>7, <1>8 DEF t

(* What follows is the packet.                                             *)
LEMMA DecodesPacketMoves ==
  ASSUME TypeInv, FlowInv, NEW e \in Ends, DecodesPacket(e)
  PROVE  /\ exchange[e] = "open" /\ UNCHANGED <<exchange, sendVars, pipe, broken>>
         /\ Len(decoded[e]) < Len(fed[Peer(e)])
         /\ need' = [need EXCEPT ![e] = NoFrame]
         /\ decoded' = [decoded EXCEPT ![e] = Append(decoded[e], fed[Peer(e)][Len(decoded[e]) + 1])]
         /\ \E r \in Bytes :
              /\ rbuf' = [rbuf EXCEPT ![e] = r]
              /\ Decodes(fed[Peer(e)], Len(decoded[e]) + 1, NoFrame,
                         r \o (pipe[Peer(e)] \o wbuf[Peer(e)]), Len(wbuf[Peer(e)]))
<1>. DEFINE f == Peer(e)
            t == pipe[f] \o wbuf[f]
            n == need[e]
            r == Skip(rbuf[e], n)
            p == Take(rbuf[e], n)
<1>1. f \in Ends /\ Peer(f) = e
  BY EndFacts
<1>2. /\ exchange[e] = "open" /\ UNCHANGED <<exchange, sendVars, pipe, broken>>
      /\ need' = [need EXCEPT ![e] = NoFrame] /\ rbuf' = [rbuf EXCEPT ![e] = r]
      /\ decoded' = [decoded EXCEPT ![e] = Append(decoded[e], p)]
      /\ n # NoFrame /\ Len(rbuf[e]) >= n
  BY DEF DecodesPacket, HasFrame
<1>3. rbuf[e] \in Bytes /\ t \in Bytes /\ Len(rbuf[e]) \in Nat /\ n \in Int
  BY <1>1, ConcatProperties, LenProperties DEF TypeInv, Bytes
<1>4. Decodes(fed[f], Len(decoded[e]), n, rbuf[e] \o t, Len(wbuf[f]))
  BY <1>1 DEF FlowInv, FlowOK
<1>5. fed[f] \in Seq(Packet) /\ Len(decoded[e]) \in 0 .. Len(fed[f])
  BY <1>1, Received
<1>6. n <= Len(rbuf[e])
  BY <1>2, <1>3
<1>. HIDE DEF t, n
<1>7. /\ Len(decoded[e]) < Len(fed[f]) /\ p = fed[f][Len(decoded[e]) + 1]
      /\ n \in 0 .. Len(rbuf[e])
      /\ Decodes(fed[f], Len(decoded[e]) + 1, NoFrame, r \o t, Len(wbuf[f]))
  BY <1>2, <1>3, <1>4, <1>5, <1>6, DecodesPacketFacts
<1>8. r \in Bytes
  BY <1>3, <1>7, Moved
<1>. HIDE DEF r, p
<1>. QED
  BY <1>2, <1>7, <1>8 DEF t
-----------------------------------------------------------------------------
(* What a direction is about has not changed.                              *)
LEMMA FlowSame ==
  ASSUME NEW e \in Ends, FlowOK(e),
         decoded'[Peer(e)] = decoded[Peer(e)], need'[Peer(e)] = need[Peer(e)],
         rbuf'[Peer(e)] = rbuf[Peer(e)], fed'[e] = fed[e], pipe'[e] = pipe[e],
         wbuf'[e] = wbuf[e]
  PROVE  FlowOK(e)'
BY DEF FlowOK, Peer

(* A function on the ends that is changed at one of them.                  *)
LEMMA EndExcept ==
  ASSUME NEW X, NEW f \in [Ends -> X], NEW e \in Ends, NEW v \in X
  PROVE  /\ [f EXCEPT ![e] = v] \in [Ends -> X]
         /\ [f EXCEPT ![e] = v][e] = v
         /\ \A d \in Ends : d # e => [f EXCEPT ![e] = v][d] = f[d]
OBVIOUS

(* to_entg sends a packet, and its frame is in the buffer.                 *)
LEMMA FlowSends ==
  ASSUME TypeInv, FlowInv, NEW e \in Ends, Sends(e)
  PROVE  TypeInv' /\ FlowInv'
<1>. DEFINE f == Peer(e)
            t == pipe[e] \o wbuf[e]
            bytes == rbuf[f] \o t
            d == Len(decoded[f])
<1>1. PICK p \in Packet : /\ fed' = [fed EXCEPT ![e] = Append(fed[e], p)]
                          /\ wbuf' = [wbuf EXCEPT ![e] = Frame(p)]
  BY SendsFacts
<1>2. wbuf[e] = <<>> /\ UNCHANGED <<exchange, pipe, readVars, broken>>
  BY SendsFacts
<1>3. f \in Ends /\ f # e /\ Peer(f) = e
  BY EndFacts
<1>4. /\ fed[e] \in Seq(Packet) /\ fed[e] \in Seq(Bytes) /\ decoded[f] \in Seq(Bytes)
      /\ d \in 0 .. Len(fed[e])
  BY Received
<1>5. pipe[e] \in Bytes /\ rbuf[f] \in Bytes /\ Frame(p) \in Bytes /\ p \in Bytes
  BY <1>3, FrameFacts DEF TypeInv
<1>6. t = pipe[e] /\ bytes \in Bytes
  BY <1>2, <1>5, ConcatEmptySeq, ConcatProperties DEF Bytes
<1>7. Decodes(fed[e], d, need[f], bytes, 0)
  <2>1. Len(wbuf[e]) = 0
    BY <1>2, EmptySeq
  <2>. QED
    BY <2>1 DEF FlowInv, FlowOK
<1>8. Append(fed[e], p) \in Seq(Packet)
  BY <1>4, AppendProperties
<1>9. TypeInv'
  BY <1>1, <1>2, <1>5, <1>8 DEF TypeInv, readVars
<1>10. FlowOK(e)'
  <2>. DEFINE F == Frame(p)
  <2>1. /\ fed'[e] = Append(fed[e], p) /\ wbuf'[e] = F
        /\ UNCHANGED <<rbuf, need, decoded, pipe>>
    BY <1>1, <1>2 DEF TypeInv, readVars
  <2>2. IsPrefix(decoded[f], Append(fed[e], p))
    <3>1. IsPrefix(decoded[f], fed[e])
      BY DEF FlowInv, FlowOK
    <3>. QED
      BY <1>4, <1>5, <3>1, PrefixAppend
  <2>3. Decodes(Append(fed[e], p), d, need[f], bytes \o F, Len(F))
    <3>. HIDE DEF d, bytes
    <3>. QED
      BY <1>4, <1>6, <1>7, DecodesMore
  <2>4. bytes \o F = rbuf[f] \o (pipe[e] \o F)
    <3>1. rbuf[f] \in Bytes /\ pipe[e] \in Bytes /\ F \in Bytes /\ bytes = rbuf[f] \o pipe[e]
      BY <1>5, <1>6
    <3>. HIDE DEF F, bytes
    <3>2. Regroups(rbuf[f], pipe[e], F)
      BY <3>1, RegroupsBytes
    <3>. QED
      BY <3>1, <3>2 DEF Regroups
  <2>. HIDE DEF bytes, F
  <2>. QED
    BY <2>1, <2>2, <2>3, <2>4 DEF FlowOK
<1>11. FlowOK(f)'
  <2>1. fed'[f] = fed[f] /\ wbuf'[f] = wbuf[f]
    BY <1>1, <1>3 DEF TypeInv
  <2>. QED
    BY <1>2, <1>3, <2>1, FlowSame DEF FlowInv, readVars
<1>. QED
  BY <1>9, <1>10, <1>11, EndFacts DEF FlowInv

(* The stream takes bytes, which are on their way as before.               *)
LEMMA FlowFlushes ==
  ASSUME TypeInv, FlowInv, NEW e \in Ends, Flushes(e)
  PROVE  TypeInv' /\ FlowInv'
<1>. DEFINE f == Peer(e)
<1>1. PICK p, q \in Bytes : /\ wbuf[e] = p \o q
                            /\ wbuf' = [wbuf EXCEPT ![e] = q]
                            /\ pipe' = [pipe EXCEPT ![e] = pipe[e] \o p]
  BY FlushesFacts
<1>2. UNCHANGED <<exchange, fed, readVars, broken>>
  BY FlushesFacts
<1>3. f \in Ends /\ f # e /\ Peer(f) = e
  BY EndFacts
<1>. DEFINE x == pipe[e]
            y == x \o p
<1>4. x \in Bytes /\ p \in Bytes /\ q \in Bytes
  BY <1>1 DEF TypeInv
<1>5. y \in Bytes /\ y \o q = x \o (p \o q)
  <2>. HIDE DEF x
  <2>1. Regroups(x, p, q)
    BY <1>4, RegroupsBytes
  <2>. QED
    BY <2>1 DEF Regroups
<1>6. pipe' = [pipe EXCEPT ![e] = y]
  BY <1>1
<1>. HIDE DEF x, y
<1>7. TypeInv'
  BY <1>1, <1>2, <1>5, <1>6 DEF TypeInv, readVars
<1>8. FlowOK(e)'
  <2>1. pipe'[e] = y /\ wbuf'[e] = q /\ UNCHANGED <<fed, rbuf, need, decoded>>
    BY <1>1, <1>2, <1>6 DEF TypeInv, readVars
  <2>2. y \o q = pipe[e] \o wbuf[e]
    BY <1>1, <1>5 DEF x
  <2>3. Len(q) \in Nat /\ Len(wbuf[e]) \in Nat /\ Len(q) <= Len(wbuf[e])
    <3>1. Len(p \o q) = Len(p) + Len(q) /\ Len(p) \in Nat /\ Len(q) \in Nat
      BY <1>4, ConcatProperties, LenProperties DEF Bytes
    <3>. QED
      BY <1>1, <3>1
  <2>4. fed[e] \in Seq(Packet)
    BY DEF TypeInv
  <2>. DEFINE bytes == rbuf[f] \o (pipe[e] \o wbuf[e])
              d == Len(decoded[f])
  <2>5. IsPrefix(decoded[f], fed[e]) /\ Decodes(fed[e], d, need[f], bytes, Len(wbuf[e]))
    BY DEF FlowInv, FlowOK
  <2>6. Decodes(fed[e], d, need[f], bytes, Len(q))
    <3>. HIDE DEF bytes, d
    <3>. QED
      BY <2>3, <2>4, <2>5, DecodesWritten
  <2>. QED
    BY <2>1, <2>2, <2>5, <2>6 DEF FlowOK
<1>9. FlowOK(f)'
  <2>1. pipe'[f] = pipe[f] /\ wbuf'[f] = wbuf[f]
    BY <1>1, <1>3, <1>6 DEF TypeInv
  <2>. QED
    BY <1>2, <1>3, <2>1, FlowSame DEF FlowInv, readVars
<1>. QED
  BY <1>7, <1>8, <1>9, EndFacts DEF FlowInv

(* So are the bytes that are read.                                         *)
LEMMA FlowFills ==
  ASSUME TypeInv, FlowInv, NEW e \in Ends, Fills(e)
  PROVE  TypeInv' /\ FlowInv'
<1>. DEFINE f == Peer(e)
<1>1. PICK p, q \in Bytes : /\ pipe[f] = p \o q
                            /\ pipe' = [pipe EXCEPT ![f] = q]
                            /\ rbuf' = [rbuf EXCEPT ![e] = rbuf[e] \o p]
  BY FillsFacts
<1>2. UNCHANGED <<exchange, sendVars, need, decoded, broken>>
  BY FillsFacts
<1>3. f \in Ends /\ f # e /\ Peer(f) = e
  BY EndFacts
<1>. DEFINE x == rbuf[e]
            w == wbuf[f]
            y == x \o p
            z == q \o w
<1>4. x \in Bytes /\ p \in Bytes /\ q \in Bytes /\ w \in Bytes
  BY <1>1, <1>3 DEF TypeInv
<1>5. y \in Bytes /\ y \o z = x \o ((p \o q) \o w)
  <2>. HIDE DEF x, w
  <2>1. Regroups(p, q, w)
    BY <1>4, RegroupsBytes
  <2>2. z \in Bytes /\ (p \o q) \o w = p \o z
    BY <2>1 DEF Regroups
  <2>. HIDE DEF z
  <2>3. Regroups(x, p, z)
    BY <1>4, <2>2, RegroupsBytes
  <2>. QED
    BY <2>2, <2>3 DEF Regroups
<1>6. rbuf' = [rbuf EXCEPT ![e] = y]
  BY <1>1
<1>. HIDE DEF y
<1>7. TypeInv'
  BY <1>1, <1>2, <1>3, <1>4, <1>5, <1>6 DEF TypeInv, sendVars
<1>8. FlowOK(f)'
  <2>1. pipe'[f] = q /\ rbuf'[e] = y /\ UNCHANGED <<fed, wbuf, need, decoded>>
    BY <1>1, <1>2, <1>3, <1>6 DEF TypeInv, sendVars
  <2>2. y \o (q \o wbuf[f]) = rbuf[e] \o (pipe[f] \o wbuf[f])
    BY <1>1, <1>5
  <2>3. /\ IsPrefix(decoded[e], fed[f])
        /\ Decodes(fed[f], Len(decoded[e]), need[e], rbuf[e] \o (pipe[f] \o wbuf[f]), Len(wbuf[f]))
    BY <1>3 DEF FlowInv, FlowOK
  <2>. QED
    BY <1>3, <2>1, <2>2, <2>3 DEF FlowOK
<1>9. FlowOK(e)'
  <2>1. pipe'[e] = pipe[e] /\ rbuf'[f] = rbuf[f]
    BY <1>1, <1>3 DEF TypeInv
  <2>. QED
    BY <1>2, <1>3, <2>1, FlowSame DEF FlowInv, sendVars
<1>. QED
  BY <1>3, <1>7, <1>8, <1>9, EndFacts DEF FlowInv

(* The decoder takes a header or a packet of the frame that comes next.    *)
LEMMA FlowDecodes ==
  ASSUME TypeInv, FlowInv, NEW e \in Ends, DecodesHeader(e) \/ DecodesPacket(e)
  PROVE  TypeInv' /\ FlowInv'
<1>. DEFINE f == Peer(e)
            t == pipe[f] \o wbuf[f]
<1>1. f \in Ends /\ f # e /\ Peer(f) = e
  BY EndFacts
<1>2. IsPrefix(decoded[e], fed[f])
  BY <1>1 DEF FlowInv, FlowOK
<1>3. CASE DecodesHeader(e)
  <2>1. UNCHANGED <<exchange, sendVars, pipe, decoded, broken>>
    BY <1>3, DecodesHeaderMoves
  <2>2. PICK n \in Nat, r \in Bytes :
          /\ need' = [need EXCEPT ![e] = n] /\ rbuf' = [rbuf EXCEPT ![e] = r]
          /\ Decodes(fed[f], Len(decoded[e]), n, r \o t, Len(wbuf[f]))
    BY <1>3, DecodesHeaderMoves
  <2>3. TypeInv'
    BY <2>1, <2>2 DEF TypeInv, sendVars
  <2>4. FlowOK(f)'
    <3>1. need'[e] = n /\ rbuf'[e] = r
      BY <2>2 DEF TypeInv
    <3>. QED
      BY <1>1, <1>2, <2>1, <2>2, <3>1 DEF FlowOK, sendVars
  <2>5. FlowOK(e)'
    <3>1. need'[f] = need[f] /\ rbuf'[f] = rbuf[f]
      BY <1>1, <2>2 DEF TypeInv
    <3>. QED
      BY <2>1, <3>1, FlowSame DEF FlowInv, sendVars
  <2>. QED
    BY <1>1, <2>3, <2>4, <2>5, EndFacts DEF FlowInv
<1>4. CASE DecodesPacket(e)
  <2>. DEFINE p == fed[f][Len(decoded[e]) + 1]
              s == Append(decoded[e], p)
  <2>1. /\ UNCHANGED <<exchange, sendVars, pipe, broken>>
        /\ Len(decoded[e]) < Len(fed[f])
        /\ need' = [need EXCEPT ![e] = NoFrame] /\ decoded' = [decoded EXCEPT ![e] = s]
    BY <1>4, DecodesPacketMoves
  <2>2. PICK r \in Bytes :
          /\ rbuf' = [rbuf EXCEPT ![e] = r]
          /\ Decodes(fed[f], Len(decoded[e]) + 1, NoFrame, r \o t, Len(wbuf[f]))
    BY <1>4, DecodesPacketMoves
  <2>3. decoded[e] \in Seq(Bytes) /\ fed[f] \in Seq(Bytes)
    BY <1>1, Received
  <2>4. p \in Bytes /\ s \in Seq(Bytes) /\ IsPrefix(s, fed[f])
    BY <1>2, <2>1, <2>3, PrefixNext
  <2>5. Len(s) = Len(decoded[e]) + 1
    <3>. HIDE DEF p
    <3>. QED
      BY <2>3, <2>4, AppendProperties
  <2>. HIDE DEF s
  <2>6. TypeInv'
    <3>1. NoFrame \in Int
      BY DEF NoFrame
    <3>. QED
      BY <2>1, <2>2, <2>4, <3>1 DEF TypeInv, sendVars
  <2>7. FlowOK(f)'
    <3>1. need'[e] = NoFrame /\ rbuf'[e] = r /\ decoded'[e] = s
      BY <2>1, <2>2 DEF TypeInv
    <3>. QED
      BY <1>1, <2>1, <2>2, <2>4, <2>5, <3>1 DEF FlowOK, sendVars
  <2>8. FlowOK(e)'
    <3>1. need'[f] = need[f] /\ rbuf'[f] = rbuf[f] /\ decoded'[f] = decoded[f]
      BY <1>1, <2>1, <2>2 DEF TypeInv
    <3>. QED
      BY <2>1, <3>1, FlowSame DEF FlowInv, sendVars
  <2>. QED
    BY <1>1, <2>6, <2>7, <2>8, EndFacts DEF FlowInv
<1>. QED
  BY <1>3, <1>4
-----------------------------------------------------------------------------
(* Nothing has been sent.                                                  *)
LEMMA InitInv == Init => Inv
<1> SUFFICES ASSUME Init PROVE Inv
  OBVIOUS
<1>1. <<>> \in Bytes /\ <<>> \in Seq(Packet) /\ <<>> \in Seq(Bytes) /\ Len(<<>>) = 0 /\ NoFrame \in Int
  BY EmptySeq DEF Bytes, NoFrame
<1>2. TypeInv
  BY <1>1 DEF Init, TypeInv
<1>3. ASSUME NEW e \in Ends PROVE FlowOK(e)
  <2>1. Peer(e) \in Ends
    BY EndFacts
  <2>2. /\ fed[e] = <<>> /\ wbuf[e] = <<>> /\ pipe[e] = <<>> /\ rbuf[Peer(e)] = <<>>
        /\ need[Peer(e)] = NoFrame /\ decoded[Peer(e)] = <<>>
    BY <2>1 DEF Init
  <2>. DEFINE nil == <<>>
  <2>3. nil \o nil = nil
    BY <1>1, ConcatEmptySeq DEF Bytes
  <2>4. IsPrefix(nil, nil)
    <3>1. nil \in Seq(Bytes) /\ Len(nil) = 0
      BY <1>1
    <3>. HIDE DEF nil
    <3>2. IsPrefix(nil, nil \o nil)
      BY <3>1, PrefixOfConcat
    <3>. QED
      BY <2>3, <3>2
  <2>5. Decodes(nil, Len(nil), NoFrame, nil \o (nil \o nil), Len(nil))
    <3>1. Decodes(nil, 0, NoFrame, nil, 0) /\ Len(nil) = 0
      BY <1>1, DecodesNothing
    <3>. HIDE DEF nil
    <3>. QED
      BY <2>3, <3>1
  <2>. QED
    BY <2>2, <2>4, <2>5 DEF FlowOK
<1>4. EndInv
  BY DEF Init, EndInv, EndOK
<1>. QED
  BY <1>2, <1>3, <1>4 DEF Inv, FlowInv

(* The steps that end an exchange, or break the stream, move no byte.      *)
LEMMA StillFacts ==
  ASSUME TypeInv, NEW e \in Ends,
         ReadsEof(e) \/ Fails(e) \/ Leaves(e) \/ Breaks \/ UNCHANGED vars
  PROVE  UNCHANGED <<sendVars, pipe, readVars>>
BY Zenon DEF ReadsEof, Fails, Leaves, Breaks, ExchangeEnds, vars

(* So the two directions are as before.                                    *)
LEMMA FlowStill ==
  ASSUME TypeInv, FlowInv, NEW e \in Ends,
         ReadsEof(e) \/ Fails(e) \/ Leaves(e) \/ Breaks \/ UNCHANGED vars
  PROVE  TypeInv' /\ FlowInv'
<1>1. UNCHANGED <<sendVars, pipe, readVars>>
  BY StillFacts
<1>2. exchange' \in [Ends -> {"open", "eof", "torn", "failed", "left"}] /\ broken' \in BOOLEAN
  <2>1. CASE ReadsEof(e)
    BY <2>1 DEF TypeInv, ReadsEof, ExchangeEnds, HowEnded
  <2>2. CASE Fails(e)
    BY <2>2 DEF TypeInv, Fails, ExchangeEnds
  <2>3. CASE Leaves(e)
    BY <2>3 DEF TypeInv, Leaves, ExchangeEnds
  <2>4. CASE Breaks
    BY <2>4 DEF TypeInv, Breaks
  <2>5. CASE UNCHANGED vars
    BY <2>5 DEF TypeInv, vars
  <2>. QED
    BY <2>1, <2>2, <2>3, <2>4, <2>5
<1>3. TypeInv'
  BY <1>1, <1>2 DEF TypeInv, sendVars, readVars
<1>4. ASSUME NEW f \in Ends PROVE FlowOK(f)'
  BY <1>1, FlowSame DEF FlowInv, sendVars, readVars
<1>. QED
  BY <1>3, <1>4 DEF FlowInv

(* An end that meets the end of the stream has everything that left its    *)
(* peer, which has gone: all the packets, or all but the one it was        *)
(* sending.                                                                *)
LEMMA EofFacts ==
  ASSUME TypeInv, FlowInv, NEW e \in Ends, ReadsEof(e)
  PROVE  /\ exchange[e] = "open" /\ exchange[Peer(e)] # "open"
         /\ exchange' = [exchange EXCEPT ![e] = HowEnded(e)] /\ broken' = broken
         /\ IF wbuf[Peer(e)] = <<>>
            THEN rbuf[e] = <<>> /\ decoded[e] = fed[Peer(e)]
            ELSE Append(decoded[e], fed[Peer(e)][Len(fed[Peer(e)])]) = fed[Peer(e)]
<1>. DEFINE f == Peer(e)
            t == wbuf[f]
            r == rbuf[e]
            s == fed[f]
            d == Len(decoded[e])
<1>1. f \in Ends /\ Peer(f) = e
  BY EndFacts
<1>2. /\ exchange[e] = "open" /\ exchange[f] # "open" /\ pipe[f] = <<>>
      /\ exchange' = [exchange EXCEPT ![e] = HowEnded(e)] /\ broken' = broken
      /\ ~HasHeader(e) /\ ~HasFrame(e)
  BY DEF ReadsEof, ExchangeEnds
<1>3. t \in Bytes /\ r \in Bytes
  BY <1>1 DEF TypeInv
<1>4. s \in Seq(Packet) /\ s \in Seq(Bytes) /\ decoded[e] \in Seq(Bytes) /\ d \in 0 .. Len(s)
  BY <1>1, Received
<1>5. IsPrefix(decoded[e], s) /\ Decodes(s, d, need[e], r \o (pipe[f] \o t), Len(t))
  BY <1>1 DEF FlowInv, FlowOK
<1>6. pipe[f] \o t = t
  <2>. HIDE DEF t
  <2>. QED
    BY <1>2, <1>3, ConcatEmptySeq DEF Bytes
<1>7. Decodes(s, d, need[e], r \o t, Len(t))
  BY <1>5, <1>6
<1>8. ~(need[e] = NoFrame /\ Len(r) >= HeaderLen) /\ ~(need[e] # NoFrame /\ Len(r) >= need[e])
  BY <1>2 DEF HasHeader, HasFrame
<1>9. IF t = <<>> THEN r = <<>> /\ d = Len(s) ELSE d + 1 = Len(s)
  <2>. HIDE DEF t, r, s, d
  <2>. QED
    BY <1>3, <1>4, <1>7, <1>8, DecodesStuck
<1>10. Len(s) \in Nat /\ d \in Nat
  BY <1>4, LenProperties
<1>11. d = Len(s) => decoded[e] = s
  <2>. HIDE DEF s
  <2>1. d = Len(s) => Len(decoded[e]) >= Len(s)
    BY <1>10
  <2>. QED
    BY <1>4, <1>5, <2>1, PrefixFull
<1>12. d + 1 = Len(s) => Append(decoded[e], s[Len(s)]) = s
  <2>1. SUFFICES ASSUME d + 1 = Len(s) PROVE Append(decoded[e], s[Len(s)]) = s
    OBVIOUS
  <2>. DEFINE p == s[Len(decoded[e]) + 1]
              a == Append(decoded[e], p)
  <2>2. p \in Bytes /\ a \in Seq(Bytes) /\ IsPrefix(a, s)
    <3>1. Len(decoded[e]) < Len(s)
      BY <1>10, <2>1
    <3>. HIDE DEF s
    <3>. QED
      BY <1>4, <1>5, <3>1, PrefixNext
  <2>3. Len(a) = Len(s)
    <3>. HIDE DEF p
    <3>1. Len(a) = Len(decoded[e]) + 1
      BY <1>4, <2>2, AppendProperties
    <3>. QED
      BY <2>1, <3>1
  <2>4. a = s
    <3>. HIDE DEF a, s
    <3>1. Len(a) >= Len(s)
      BY <1>10, <2>3
    <3>. QED
      BY <1>4, <2>2, <3>1, PrefixFull
  <2>. QED
    BY <2>1, <2>4
<1>. QED
  BY <1>2, <1>9, <1>11, <1>12

(* An end that has met the end of the stream decodes no more, and its      *)
(* peer sends no more.                                                     *)
LEMMA EndSame ==
  ASSUME NEW e \in Ends, EndOK(e), exchange'[e] = exchange[e],
         exchange[e] \in {"eof", "torn"} /\ exchange[Peer(e)] # "open" =>
           /\ exchange'[Peer(e)] # "open"
           /\ wbuf'[Peer(e)] = wbuf[Peer(e)] /\ fed'[Peer(e)] = fed[Peer(e)]
           /\ decoded'[e] = decoded[e]
  PROVE  EndOK(e)'
BY DEF EndOK, Peer

(* No step makes an end forget what it missed.                             *)
LEMMA EndStep == Inv /\ [Next]_vars => EndInv'
<1> SUFFICES ASSUME Inv, [Next]_vars, NEW e \in Ends PROVE EndOK(e)'
  BY DEF EndInv
<1>1. TypeInv /\ FlowInv /\ EndOK(e)
  BY DEF Inv, EndInv
<1>2. Peer(e) \in Ends /\ Peer(e) # e
  BY EndFacts
<1>3. exchange \in [Ends -> {"open", "eof", "torn", "failed", "left"}]
  BY <1>1 DEF TypeInv
<1>4. /\ fed \in [Ends -> Seq(Packet)] /\ wbuf \in [Ends -> Bytes]
      /\ decoded \in [Ends -> Seq(Bytes)]
  BY <1>1 DEF TypeInv
(* The steps of an open end f leave alone what the ends that are not open  *)
(* have sent and received.                                                 *)
<1>5. ASSUME NEW f \in Ends, exchange[f] = "open",
             exchange' = exchange,
             \A g \in Ends : g # f => /\ wbuf'[g] = wbuf[g] /\ fed'[g] = fed[g]
                                      /\ decoded'[g] = decoded[g]
      PROVE  EndOK(e)'
  BY <1>1, <1>2, <1>5, EndSame
<1>6. ASSUME NEW f \in Ends, to_entg(f) PROVE EndOK(e)'
  <2>1. CASE Sends(f)
    <3>1. exchange[f] = "open" /\ UNCHANGED <<exchange, readVars>>
      BY <1>1, <2>1, SendsFacts
    <3>2. \E p \in Packet : /\ fed' = [fed EXCEPT ![f] = Append(fed[f], p)]
                            /\ wbuf' = [wbuf EXCEPT ![f] = Frame(p)]
      BY <1>1, <2>1, SendsFacts
    <3>3. \A g \in Ends : g # f => wbuf'[g] = wbuf[g] /\ fed'[g] = fed[g]
      BY <1>4, <3>2
    <3>. QED
      BY <1>5, <3>1, <3>3 DEF readVars
  <2>2. CASE Flushes(f)
    <3>1. exchange[f] = "open" /\ UNCHANGED <<exchange, fed, readVars>>
      BY <1>1, <2>2, FlushesFacts
    <3>2. \E q \in Bytes : wbuf' = [wbuf EXCEPT ![f] = q]
      BY <1>1, <2>2, FlushesFacts
    <3>3. \A g \in Ends : g # f => wbuf'[g] = wbuf[g]
      BY <1>4, <3>2
    <3>. QED
      BY <1>5, <3>1, <3>3 DEF readVars
  <2>. QED
    BY <1>6, <2>1, <2>2 DEF to_entg
<1>7. ASSUME NEW f \in Ends, Fills(f) \/ DecodesHeader(f) PROVE EndOK(e)'
  <2>1. exchange[f] = "open" /\ UNCHANGED <<exchange, sendVars, decoded>>
    BY <1>1, <1>7, FillsFacts, DecodesHeaderMoves
  <2>. QED
    BY <1>5, <2>1 DEF sendVars
<1>8. ASSUME NEW f \in Ends, DecodesPacket(f) PROVE EndOK(e)'
  <2>1. exchange[f] = "open" /\ UNCHANGED <<exchange, sendVars>>
    BY <1>1, <1>8, DecodesPacketMoves
  <2>2. \A g \in Ends : g # f => decoded'[g] = decoded[g]
    BY <1>1, <1>4, <1>8, DecodesPacketMoves
  <2>. QED
    BY <1>5, <2>1, <2>2 DEF sendVars
(* An exchange that ends stays so; e has met the end of the stream when it *)
(* was e that did.                                                         *)
<1>9. ASSUME NEW f \in Ends, ReadsEof(f) PROVE EndOK(e)'
  <2>1. /\ exchange[f] = "open" /\ exchange[Peer(f)] # "open"
        /\ exchange' = [exchange EXCEPT ![f] = HowEnded(f)]
        /\ IF wbuf[Peer(f)] = <<>>
           THEN rbuf[f] = <<>> /\ decoded[f] = fed[Peer(f)]
           ELSE Append(decoded[f], fed[Peer(f)][Len(fed[Peer(f)])]) = fed[Peer(f)]
    BY <1>1, <1>9, EofFacts
  <2>2. UNCHANGED <<sendVars, decoded>>
    BY <1>1, <1>9, StillFacts DEF readVars
  <2>3. HowEnded(f) \in {"eof", "torn"} /\ (rbuf[f] = <<>> => HowEnded(f) = "eof")
    BY DEF HowEnded
  <2>4. CASE e = f
    <3>1. exchange'[e] = HowEnded(e) /\ exchange'[Peer(e)] = exchange[Peer(e)]
      BY <1>2, <1>3, <2>1, <2>4
    <3>2. wbuf' = wbuf /\ fed' = fed /\ decoded' = decoded
      BY <2>2 DEF sendVars
    <3>. QED
      BY <2>1, <2>3, <2>4, <3>1, <3>2, Zenon DEF EndOK, Peer
  <2>5. CASE e # f
    <3>1. exchange'[e] = exchange[e]
      BY <1>3, <2>1, <2>5
    <3>2. exchange[Peer(e)] # "open" => exchange'[Peer(e)] # "open"
      BY <1>2, <1>3, <2>1, <2>3
    <3>. QED
      BY <1>1, <2>2, <3>1, <3>2, EndSame DEF sendVars
  <2>. QED
    BY <2>4, <2>5
<1>10. ASSUME NEW f \in Ends, Fails(f) \/ Leaves(f) PROVE EndOK(e)'
  <2>1. PICK how \in {"failed", "left"} :
          exchange[f] = "open" /\ exchange' = [exchange EXCEPT ![f] = how]
    BY <1>10 DEF Fails, Leaves, ExchangeEnds
  <2>2. UNCHANGED <<sendVars, decoded>>
    BY <1>1, <1>10, StillFacts DEF readVars
  <2>3. CASE e = f
    BY <1>3, <2>1, <2>3 DEF EndOK
  <2>4. CASE e # f
    <3>1. exchange'[e] = exchange[e]
      BY <1>3, <2>1, <2>4
    <3>2. exchange[Peer(e)] # "open" => exchange'[Peer(e)] # "open"
      BY <1>2, <1>3, <2>1
    <3>. QED
      BY <1>1, <2>2, <3>1, <3>2, EndSame DEF sendVars
  <2>. QED
    BY <2>3, <2>4
<1>11. ASSUME Breaks \/ UNCHANGED vars PROVE EndOK(e)'
  <2>1. UNCHANGED <<exchange, sendVars, decoded>>
    BY <1>11, Zenon DEF Breaks, vars, readVars
  <2>. QED
    BY <1>1, <2>1, EndSame DEF sendVars
<1>. QED
  BY <1>6, <1>7, <1>8, <1>9, <1>10, <1>11 DEF Next, from_entg

(* Every step keeps the invariant.                                         *)
LEMMA StepInv == Inv /\ [Next]_vars => Inv'
<1> SUFFICES ASSUME Inv, [Next]_vars PROVE Inv'
  OBVIOUS
<1>1. TypeInv /\ FlowInv /\ EndInv'
  BY EndStep DEF Inv
<1>2. ASSUME NEW e \in Ends, to_entg(e) PROVE TypeInv' /\ FlowInv'
  BY <1>1, <1>2, FlowSends, FlowFlushes DEF to_entg
<1>3. ASSUME NEW e \in Ends, from_entg(e) PROVE TypeInv' /\ FlowInv'
  BY <1>1, <1>3, FlowFills, FlowDecodes, FlowStill DEF from_entg
<1>4. ASSUME NEW e \in Ends, Fails(e) \/ Leaves(e) PROVE TypeInv' /\ FlowInv'
  BY <1>1, <1>4, FlowStill
<1>5. ASSUME Breaks \/ UNCHANGED vars PROVE TypeInv' /\ FlowInv'
  <2>1. "client" \in Ends
    BY DEF Ends
  <2>. QED
    BY <1>1, <1>5, <2>1, FlowStill
<1>. QED
  BY <1>1, <1>2, <1>3, <1>4, <1>5 DEF Inv, Next

(* The invariant holds always.                                             *)
THEOREM AlwaysDecodes == Spec => []Inv
BY InitInv, StepInv, PTL DEF Spec

(* However the bytes are cut, torn or lost with an end, from_entg receives *)
(* the packets that were sent to it, whole and in order, and when it meets *)
(* the end of the stream, all but the one that was being sent: for every   *)
(* base and length of the header, all packets and every capacity.          *)
THEOREM AlwaysIntact == Spec => []FramesIntact
<1>1. Inv => FramesIntact
  <2> SUFFICES ASSUME Inv, NEW e \in Ends
               PROVE  /\ IsPrefix(decoded[e], fed[Peer(e)])
                      /\ exchange[e] \in {"eof", "torn"} =>
                           IF wbuf[Peer(e)] = <<>>
                           THEN exchange[e] = "eof" /\ decoded[e] = fed[Peer(e)]
                           ELSE Append(decoded[e], fed[Peer(e)][Len(fed[Peer(e)])]) = fed[Peer(e)]
    BY DEF FramesIntact
  <2>1. IsPrefix(decoded[e], fed[Peer(e)])
    <3>1. Peer(e) \in Ends /\ Peer(Peer(e)) = e
      BY EndFacts
    <3>. QED
      BY <3>1 DEF Inv, FlowInv, FlowOK
  <2>2. EndOK(e)
    BY DEF Inv, EndInv
  <2>. QED
    BY <2>1, <2>2, Zenon DEF EndOK
<1>. QED
  BY <1>1, AlwaysDecodes, PTL
-----------------------------------------------------------------------------
(* What PacketLink takes for the ends and the disturbance of the link.     *)
ended == [e \in Ends |->
            IF exchange[e] \in {"eof", "torn"} THEN "eof"
            ELSE IF exchange[e] = "left" THEN "dropped" ELSE exchange[e]]
disturbed == broken \/ \E e \in Ends : exchange[e] \in {"left", "failed"} /\ wbuf[e] # <<>>

(* The two modules mean the same by an end and its peer.                   *)
LEMMA SameEnds == PacketLink!Ends = Ends /\ \A e \in Ends : PacketLink!Peer(e) = Peer(e)
BY DEF PacketLink!Ends, Ends, PacketLink!Peer, Peer

(* An end is open on the link when it is in its exchange.                  *)
LEMMA EndedFacts ==
  ASSUME TypeInv, NEW e \in Ends
  PROVE  exchange[e] = "open" <=> ended[e] = "open"
BY DEF TypeInv, ended

(* The stream starts as a link that is open at both ends.                  *)
LEMMA LinkInit == Init => PacketLink!Init
<1> SUFFICES ASSUME Init PROVE PacketLink!Init
  OBVIOUS
<1>1. fed = [e \in Ends |-> <<>>] /\ decoded = [e \in Ends |-> <<>>]
  BY DEF Init
<1>2. ended = [e \in Ends |-> "open"]
  BY DEF Init, ended
<1>3. disturbed = FALSE
  BY DEF Init, disturbed
<1>. QED
  BY <1>1, <1>2, <1>3, SameEnds, Zenon DEF PacketLink!Init, ended, disturbed

(* Bytes that move in the stream or in its buffers do not show.            *)
LEMMA LinkStutters ==
  ASSUME UNCHANGED <<exchange, fed, decoded, broken>>, NEW e \in Ends, exchange[e] = "open",
         \A g \in Ends : g # e => wbuf'[g] = wbuf[g]
  PROVE  UNCHANGED PacketLink!linkVars
<1>1. ended' = ended
  BY Zenon DEF ended
<1>2. disturbed' = disturbed
  BY DEF disturbed
<1>. QED
  BY <1>1, <1>2, Zenon DEF PacketLink!linkVars, ended, disturbed

(* A packet that is sent is written.                                       *)
LEMMA LinkSends ==
  ASSUME TypeInv, NEW e \in Ends, Sends(e)
  PROVE  PacketLink!Write(e)
<1>1. PICK p \in Packet : /\ p \in ToSet(Packets[e])
                          /\ fed' = [fed EXCEPT ![e] = Append(fed[e], p)]
                          /\ wbuf' = [wbuf EXCEPT ![e] = Frame(p)]
  BY SendsFacts
<1>2. exchange[e] = "open" /\ UNCHANGED <<exchange, decoded, broken>>
  BY SendsFacts DEF readVars
<1>3. p \in ToSet(Packets["client"]) \cup ToSet(Packets["server"])
  BY <1>1 DEF Ends
<1>4. ended' = ended /\ ended[e] = "open"
  BY <1>2, EndedFacts DEF ended
<1>5. disturbed' = disturbed
  <2>1. \A g \in Ends : g # e => wbuf'[g] = wbuf[g]
    BY <1>1 DEF TypeInv
  <2>. QED
    BY <1>2, <2>1 DEF disturbed
<1>. QED
  BY <1>1, <1>2, <1>3, <1>4, <1>5, Zenon DEF PacketLink!Write, ended, disturbed

(* A packet that is decoded is the next one to be read.                    *)
LEMMA LinkReads ==
  ASSUME TypeInv, FlowInv, NEW e \in Ends, DecodesPacket(e)
  PROVE  PacketLink!Read(e)
<1>. DEFINE s == fed[Peer(e)]
            d == Len(decoded[e])
            a == Append(decoded[e], s[d + 1])
<1>1. /\ exchange[e] = "open" /\ UNCHANGED <<exchange, sendVars, broken>>
      /\ d < Len(s) /\ decoded' = [decoded EXCEPT ![e] = a]
  BY DecodesPacketMoves
<1>2. Peer(e) \in Ends /\ Peer(Peer(e)) = e
  BY EndFacts
<1>3. s \in Seq(Bytes) /\ decoded[e] \in Seq(Bytes) /\ Len(s) \in Nat /\ d \in Nat
  BY <1>2, Received, LenProperties
<1>4. IsPrefix(decoded[e], s)
  BY <1>2 DEF FlowInv, FlowOK
<1>5. s[d + 1] \in Bytes /\ a \in Seq(Bytes) /\ IsPrefix(a, s)
  <2>. HIDE DEF s
  <2>. QED
    BY <1>1, <1>3, <1>4, PrefixNext
<1>6. Len(a) = d + 1
  <2>. DEFINE p == s[d + 1]
  <2>1. p \in Bytes
    BY <1>5
  <2>. HIDE DEF p, s
  <2>. QED
    BY <1>3, <2>1, AppendProperties
<1>7. a = SubSeq(s, 1, d + 1)
  <2>. HIDE DEF a, s, d
  <2>1. Len(a) <= Len(s) /\ \A i \in 1 .. Len(a) : a[i] = s[i]
    BY <1>3, <1>5, PrefixPointwise
  <2>2. d + 1 \in 0 .. Len(s)
    BY <1>1, <1>3
  <2>. DEFINE b == SubSeq(s, 1, d + 1)
  <2>3. b \in Seq(Bytes) /\ Len(b) = d + 1
    BY <1>3, <2>2, CutInTwo
  <2>4. \A i \in 1 .. d + 1 : b[i] = s[i]
    BY <1>3, <2>2, SubSeqProperties
  <2>. HIDE DEF b
  <2>5. a = b
    BY <1>5, <1>6, <2>1, <2>3, <2>4, SeqEqual
  <2>. QED
    BY <2>5 DEF b
<1>8. d + 1 \in d + 1 .. Len(s)
  BY <1>1, <1>3
<1>9. ended' = ended /\ ended[e] = "open"
  BY <1>1, EndedFacts DEF ended
<1>10. fed' = fed /\ disturbed' = disturbed
  BY <1>1 DEF disturbed, sendVars
<1>11. \E n \in d + 1 .. Len(s) : decoded' = [decoded EXCEPT ![e] = SubSeq(s, 1, n)]
  BY <1>1, <1>7, <1>8
<1>. QED
  BY <1>9, <1>10, <1>11, SameEnds, Zenon DEF PacketLink!Read, ended, disturbed

(* The end of the stream comes after the last packet, unless its sender    *)
(* left a frame unfinished.                                                *)
LEMMA LinkReadsEof ==
  ASSUME Inv, NEW e \in Ends, ReadsEof(e)
  PROVE  PacketLink!ReadEof(e)
<1>. DEFINE f == Peer(e)
<1>1. TypeInv /\ FlowInv /\ EndInv
  BY DEF Inv
<1>2. /\ exchange[e] = "open" /\ exchange[f] # "open"
      /\ exchange' = [exchange EXCEPT ![e] = HowEnded(e)] /\ broken' = broken
      /\ wbuf[f] = <<>> => decoded[e] = fed[f]
  BY <1>1, EofFacts
<1>3. f \in Ends /\ f # e /\ Peer(f) = e
  BY EndFacts
<1>4. UNCHANGED <<fed, wbuf, decoded>>
  BY <1>1, StillFacts DEF sendVars, readVars
<1>5. HowEnded(e) \in {"eof", "torn"}
  BY DEF HowEnded
<1>6. exchange \in [Ends -> {"open", "eof", "torn", "failed", "left"}]
  BY <1>1 DEF TypeInv
<1>7. ended[e] = "open" /\ ended[f] # "open" /\ ended' = [ended EXCEPT ![e] = "eof"]
  BY <1>2, <1>3, <1>5, <1>6 DEF ended
<1>8. disturbed' = disturbed
  BY <1>2, <1>4, <1>5, <1>6 DEF disturbed
<1>9. disturbed \/ decoded[e] = fed[f]
  <2>1. CASE wbuf[f] = <<>>
    BY <1>2, <2>1
  <2>2. CASE wbuf[f] # <<>>
    <3>1. exchange[f] \notin {"eof", "torn"}
      BY <1>1, <1>2, <1>3 DEF EndInv, EndOK
    <3>2. exchange[f] \in {"left", "failed"}
      BY <1>2, <1>3, <1>6, <3>1
    <3>. QED
      BY <1>3, <2>2, <3>2 DEF disturbed
  <2>. QED
    BY <2>1, <2>2
<1>. QED
  BY <1>4, <1>7, <1>8, <1>9, SameEnds, Zenon DEF PacketLink!ReadEof, ended, disturbed

(* An exchange that fails or is interrupted drops the link, perhaps with a *)
(* frame unfinished.                                                       *)
LEMMA LinkDrops ==
  ASSUME Inv, NEW e \in Ends, Fails(e) \/ Leaves(e)
  PROVE  PacketLink!Drop(e)
<1>1. TypeInv
  BY DEF Inv
<1>2. exchange \in [Ends -> {"open", "eof", "torn", "failed", "left"}]
  BY <1>1 DEF TypeInv
<1>3. PICK how \in {"failed", "left"} :
        exchange[e] = "open" /\ exchange' = [exchange EXCEPT ![e] = how]
  BY DEF Fails, Leaves, ExchangeEnds
<1>4. UNCHANGED <<fed, wbuf, decoded>> /\ broken' = broken
  <2>1. broken' = broken
    BY Zenon DEF Fails, Leaves
  <2>. QED
    BY <1>1, <2>1, StillFacts DEF sendVars, readVars
<1>5. /\ ended[e] = "open"
      /\ \E h \in {"dropped", "failed"} : ended' = [ended EXCEPT ![e] = h]
  BY <1>2, <1>3 DEF ended
<1>6. disturbed => disturbed'
  BY <1>2, <1>3, <1>4 DEF disturbed
<1>7. disturbed' \in {disturbed, TRUE}
  BY <1>6, Zenon DEF disturbed
<1>. QED
  BY <1>4, <1>5, <1>7, Zenon DEF PacketLink!Drop, ended, disturbed

(* The stream that fails disturbs the link, unless that has been.          *)
LEMMA LinkBreaks ==
  ASSUME TypeInv, Breaks
  PROVE  PacketLink!Disturb \/ UNCHANGED PacketLink!linkVars
<1>1. broken' = TRUE /\ UNCHANGED <<exchange, sendVars, readVars>>
  BY Zenon DEF Breaks
<1>2. fed' = fed /\ decoded' = decoded
  BY <1>1 DEF sendVars, readVars
<1>3. ended' = ended
  BY <1>1 DEF ended
<1>4. disturbed' = TRUE
  BY <1>1, Zenon DEF disturbed
<1>5. CASE disturbed
  <2>1. disturbed = TRUE
    BY <1>5, Zenon DEF disturbed
  <2>2. disturbed' = disturbed
    BY <1>4, <2>1, Zenon
  <2>. QED
    BY <1>2, <1>3, <2>2, Zenon DEF PacketLink!linkVars, ended, disturbed
<1>6. CASE ~disturbed
  BY <1>2, <1>3, <1>4, <1>6, Zenon DEF PacketLink!Disturb, ended, disturbed
<1>. QED
  BY <1>5, <1>6

(* Every step of the stream of bytes is a step of the link of packets, or  *)
(* none.                                                                   *)
LEMMA LinkStep == Inv /\ [Next]_vars => [PacketLink!Next]_(PacketLink!linkVars)
<1> SUFFICES ASSUME Inv, [Next]_vars PROVE [PacketLink!Next]_(PacketLink!linkVars)
  OBVIOUS
<1>1. TypeInv /\ FlowInv
  BY DEF Inv
<1>2. ASSUME NEW e \in Ends, Sends(e) PROVE PacketLink!Next
  BY <1>1, <1>2, LinkSends, SameEnds, Zenon DEF PacketLink!Next
<1>3. ASSUME NEW e \in Ends, Flushes(e) PROVE UNCHANGED PacketLink!linkVars
  <2>1. exchange[e] = "open" /\ UNCHANGED <<exchange, fed, decoded, broken>>
    BY <1>1, <1>3, FlushesFacts DEF readVars
  <2>2. \E q \in Bytes : wbuf' = [wbuf EXCEPT ![e] = q]
    BY <1>1, <1>3, FlushesFacts
  <2>3. \A g \in Ends : g # e => wbuf'[g] = wbuf[g]
    BY <1>1, <2>2 DEF TypeInv
  <2>. QED
    BY <2>1, <2>3, LinkStutters
<1>4. ASSUME NEW e \in Ends, Fills(e) \/ DecodesHeader(e) PROVE UNCHANGED PacketLink!linkVars
  <2>1. exchange[e] = "open" /\ UNCHANGED <<exchange, sendVars, decoded, broken>>
    BY <1>1, <1>4, FillsFacts, DecodesHeaderMoves
  <2>. QED
    BY <2>1, LinkStutters DEF sendVars
<1>5. ASSUME NEW e \in Ends, DecodesPacket(e) PROVE PacketLink!Next
  BY <1>1, <1>5, LinkReads, SameEnds, Zenon DEF PacketLink!Next
<1>6. ASSUME NEW e \in Ends, ReadsEof(e) PROVE PacketLink!Next
  BY <1>6, LinkReadsEof, SameEnds, Zenon DEF PacketLink!Next
<1>7. ASSUME NEW e \in Ends, Fails(e) \/ Leaves(e) PROVE PacketLink!Next
  BY <1>7, LinkDrops, SameEnds, Zenon DEF PacketLink!Next
<1>8. ASSUME Breaks PROVE [PacketLink!Next]_(PacketLink!linkVars)
  BY <1>1, <1>8, LinkBreaks, Zenon DEF PacketLink!Next
<1>9. ASSUME UNCHANGED vars PROVE UNCHANGED PacketLink!linkVars
  <2>1. UNCHANGED <<exchange, fed, wbuf, decoded, broken>>
    BY <1>9, Zenon DEF vars, sendVars, readVars
  <2>2. ended' = ended /\ disturbed' = disturbed
    BY <2>1 DEF ended, disturbed
  <2>. QED
    BY <2>1, <2>2, Zenon DEF PacketLink!linkVars, ended, disturbed
<1>. QED
  BY <1>2, <1>3, <1>4, <1>5, <1>6, <1>7, <1>8, <1>9, Zenon DEF Next, to_entg, from_entg

(* The frames of exchange_with_entg make of the link of bytes a link of    *)
(* packets, which is all that the exchange relies on, for every length of  *)
(* the header, all packets and every capacity.                             *)
THEOREM FramesImplementLink == Spec => PacketLinkSpec
BY LinkInit, LinkStep, AlwaysDecodes, PTL DEF Spec, PacketLinkSpec, PacketLink!Spec
=============================================================================
