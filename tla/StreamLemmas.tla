---------------------------- MODULE StreamLemmas ----------------------------
(* Facts that the proofs of the forwarding modules share: a stream is cut  *)
(* in two, pieces move between neighbours, what has arrived is a prefix of *)
(* what was sent, and induction along a chain.                             *)
EXTENDS Integers, Sequences, SequencesExt, SequenceTheorems, WellFoundedInduction, TLAPS

(* Induction up to m, for a set of numbers instead of a predicate.         *)
LEMMA Induction ==
  ASSUME NEW m \in Nat, NEW T, 0 \in T,
         \A k \in 0 .. m - 1 : k \in T => k + 1 \in T
  PROVE  \A k \in 0 .. m : k \in T
<1> SUFFICES ASSUME \E k \in 0 .. m : k \notin T PROVE FALSE
  OBVIOUS
<1>. DEFINE Less == {ss \in Nat \X Nat : ss[1] < ss[2]}
            Bad == {k \in 0 .. m : k \notin T}
<1>1. IsWellFoundedOn(Less, Nat)
  BY NatLessThanWellFounded, Zenon DEF OpToRel
<1>2. PICK k \in Bad : \A j \in Bad : <<j, k>> \notin Less
  <2>1. Bad # {} /\ Bad \subseteq Nat
    OBVIOUS
  <2>. HIDE DEF Bad, Less
  <2>. QED
    BY <1>1, <2>1, WFMin, Zenon
<1>3. k \in Nat /\ k # 0 /\ k <= m /\ k \notin T
  BY <1>2
<1>4. k - 1 \in 0 .. m - 1 /\ k - 1 \in 0 .. m /\ <<k - 1, k>> \in Less /\ (k - 1) + 1 = k
  BY <1>3
<1>5. k - 1 \in T
  BY <1>2, <1>4
<1>. QED
  BY <1>3, <1>4, <1>5
(* A sequence is cut in two without loss.                                  *)
LEMMA CutInTwo ==
  ASSUME NEW S, NEW s \in Seq(S), NEW k \in 0 .. Len(s)
  PROVE  /\ SubSeq(s, 1, k) \in Seq(S) /\ Len(SubSeq(s, 1, k)) = k
         /\ SubSeq(s, k + 1, Len(s)) \in Seq(S)
         /\ Len(SubSeq(s, k + 1, Len(s))) = Len(s) - k
         /\ SubSeq(s, 1, k) \o SubSeq(s, k + 1, Len(s)) = s
<1>1. Len(s) \in Nat /\ k \in Nat /\ k <= Len(s)
  BY LenProperties
<1>2. \A i \in 1 .. Len(s) : s[i] \in S
  BY <1>1, ElementOfSeq
<1>3. SubSeq(s, 1, k) \in Seq(S) /\ Len(SubSeq(s, 1, k)) = k
  BY <1>1, <1>2, SubSeqProperties
<1>4. /\ SubSeq(s, k + 1, Len(s)) \in Seq(S)
      /\ Len(SubSeq(s, k + 1, Len(s))) = Len(s) - k
  BY <1>1, <1>2, SubSeqProperties
<1>5. SubSeq(s, 1, k) \o SubSeq(s, k + 1, Len(s)) = SubSeq(s, 1, Len(s))
  <2>1. 1 \in 1 .. Len(s) + 1 /\ k \in 1 - 1 .. Len(s) /\ Len(s) \in k .. Len(s)
    BY <1>1
  <2>. QED
    BY <2>1, ConcatAdjacentSubSeq
<1>. QED
  BY <1>3, <1>4, <1>5, SubSeqFull

(* A prefix is at most as long and agrees with what it is a prefix of.     *)
LEMMA PrefixPointwise ==
  ASSUME NEW S, NEW s \in Seq(S), NEW t \in Seq(S)
  PROVE  IsPrefix(s, t) <=> Len(s) <= Len(t) /\ \A i \in 1 .. Len(s) : s[i] = t[i]
<1>1. Len(s) \in Nat /\ Len(t) \in Nat
  BY LenProperties
<1>2. SubSeq(s, 1, Len(s)) = s
  BY SubSeqFull
<1>3. ASSUME Len(s) <= Len(t)
      PROVE  (s = SubSeq(t, 1, Len(s))) <=> \A i \in 1 .. Len(s) : s[i] = t[i]
  <2>1. \A i \in 1 .. Len(s) : t[i] \in S
    BY <1>1, <1>3, ElementOfSeq
  <2>2. /\ SubSeq(t, 1, Len(s)) \in Seq(S) /\ Len(SubSeq(t, 1, Len(s))) = Len(s)
        /\ \A i \in 1 .. Len(s) : SubSeq(t, 1, Len(s))[i] = t[i]
    BY <1>1, <2>1, SubSeqProperties
  <2>3. ASSUME \A i \in 1 .. Len(s) : s[i] = t[i] PROVE s = SubSeq(t, 1, Len(s))
    BY <2>2, <2>3, SeqEqual
  <2>. QED
    BY <2>2, <2>3
<1>. QED
  BY <1>2, <1>3 DEF IsPrefix

(* A stream is a prefix of every stream that continues it.                 *)
LEMMA PrefixOfConcat ==
  ASSUME NEW S, NEW s \in Seq(S), NEW t \in Seq(S)
  PROVE  /\ IsPrefix(s, s \o t)
         /\ t # <<>> => IsStrictPrefix(s, s \o t)
<1>1. /\ s \o t \in Seq(S) /\ Len(s \o t) = Len(s) + Len(t)
      /\ \A i \in 1 .. Len(s) + Len(t) :
           (s \o t)[i] = IF i <= Len(s) THEN s[i] ELSE t[i - Len(s)]
  BY ConcatProperties
<1>2. Len(s) \in Nat /\ Len(t) \in Nat
  BY LenProperties
<1>3. IsPrefix(s, s \o t)
  <2>. DEFINE u == s \o t
  <2>1. u \in Seq(S) /\ Len(s) <= Len(u) /\ \A i \in 1 .. Len(s) : s[i] = u[i]
    BY <1>1, <1>2
  <2>. HIDE DEF u
  <2>2. IsPrefix(s, u)
    BY <2>1, PrefixPointwise
  <2>. QED
    BY <2>2 DEF u
<1>4. t # <<>> => s # s \o t
  BY ConcatEqualIffEmpty
<1>. QED
  BY <1>3, <1>4 DEF IsStrictPrefix

(* What is a prefix stays one while the stream that it is compared with    *)
(* goes on, and a prefix of a prefix is a prefix.                          *)
LEMMA PrefixTransitive ==
  ASSUME NEW S, NEW s \in Seq(S), NEW t \in Seq(S), NEW u \in Seq(S),
         IsPrefix(s, t), IsPrefix(t, u)
  PROVE  IsPrefix(s, u)
<1>1. Len(s) \in Nat /\ Len(t) \in Nat /\ Len(u) \in Nat
  BY LenProperties
<1>. QED
  BY <1>1, PrefixPointwise

(* A prefix that is as long as the whole is the whole.                     *)
LEMMA PrefixFull ==
  ASSUME NEW S, NEW s \in Seq(S), NEW t \in Seq(S), IsPrefix(s, t), Len(s) >= Len(t)
  PROVE  s = t
<1>1. Len(s) \in Nat /\ Len(t) \in Nat
  BY LenProperties
<1>2. Len(s) = Len(t) /\ \A i \in 1 .. Len(s) : s[i] = t[i]
  BY <1>1, PrefixPointwise
<1>. QED
  BY <1>2, SeqEqual

(* The next element of a stream extends a proper prefix of it.             *)
LEMMA PrefixNext ==
  ASSUME NEW S, NEW s \in Seq(S), NEW t \in Seq(S), IsPrefix(s, t), Len(s) < Len(t)
  PROVE  /\ t[Len(s) + 1] \in S
         /\ Append(s, t[Len(s) + 1]) \in Seq(S)
         /\ IsPrefix(Append(s, t[Len(s) + 1]), t)
<1>1. Len(s) \in Nat /\ Len(t) \in Nat
  BY LenProperties
<1>2. t[Len(s) + 1] \in S
  BY <1>1, ElementOfSeq
<1>3. /\ Append(s, t[Len(s) + 1]) \in Seq(S)
      /\ Len(Append(s, t[Len(s) + 1])) = Len(s) + 1
      /\ \A i \in 1 .. Len(s) : Append(s, t[Len(s) + 1])[i] = s[i]
      /\ Append(s, t[Len(s) + 1])[Len(s) + 1] = t[Len(s) + 1]
  BY <1>2, AppendProperties
<1>4. \A i \in 1 .. Len(s) : s[i] = t[i]
  BY PrefixPointwise
<1>. DEFINE u == Append(s, t[Len(s) + 1])
<1>5. /\ u \in Seq(S) /\ Len(u) <= Len(t)
      /\ \A i \in 1 .. Len(u) : u[i] = t[i]
  BY <1>1, <1>3, <1>4
<1>. HIDE DEF u
<1>6. IsPrefix(u, t)
  BY <1>5, PrefixPointwise
<1>. QED
  BY <1>2, <1>5, <1>6 DEF u

(* What is appended to the last part of a stream is appended to it.        *)
LEMMA ConcatAppend ==
  ASSUME NEW S, NEW s \in Seq(S), NEW t \in Seq(S), NEW x \in S
  PROVE  s \o Append(t, x) = Append(s \o t, x)
<1>. DEFINE one == <<x>>
            st == s \o t
<1>1. one \in Seq(S) /\ Append(t, x) = t \o one
  BY AppendIsConcat
<1>2. st \in Seq(S)
  BY ConcatProperties
<1>3. Append(st, x) = st \o one
  BY <1>2, AppendIsConcat
<1>. HIDE DEF one
<1>4. st \o one = s \o (t \o one)
  BY <1>1, ConcatAssociative
<1>. QED
  BY <1>1, <1>3, <1>4, Zenon DEF st

(* Things that are numbered as they come.                                  *)
LEMMA CountOn ==
  ASSUME NEW k \in Nat
  PROVE  /\ [n \in 1 .. k |-> n] \in Seq(Nat)
         /\ Len([n \in 1 .. k |-> n]) = k
         /\ Append([n \in 1 .. k |-> n], k + 1) = [n \in 1 .. k + 1 |-> n]
<1>. DEFINE c(m) == [n \in 1 .. m |-> n]
<1>1. ASSUME NEW m \in Nat PROVE c(m) \in Seq(Nat) /\ Len(c(m)) = m
  <2>1. c(m) \in Seq(Nat)
    BY <1>1
  <2>2. DOMAIN c(m) = 1 .. m
    BY <1>1
  <2>. QED
    BY <1>1, <2>1, <2>2, LenProperties
<1>2. /\ Append(c(k), k + 1) \in Seq(Nat)
      /\ Len(Append(c(k), k + 1)) = k + 1
      /\ \A i \in 1 .. k : Append(c(k), k + 1)[i] = c(k)[i]
      /\ Append(c(k), k + 1)[k + 1] = k + 1
  <2>. DEFINE s == c(k)
  <2>1. s \in Seq(Nat) /\ Len(s) = k
    BY <1>1
  <2>. HIDE DEF s
  <2>2. /\ Append(s, k + 1) \in Seq(Nat)
        /\ Len(Append(s, k + 1)) = Len(s) + 1
        /\ \A i \in 1 .. Len(s) : Append(s, k + 1)[i] = s[i]
        /\ Append(s, k + 1)[Len(s) + 1] = k + 1
    BY <2>1, AppendProperties
  <2>3. /\ Append(s, k + 1) \in Seq(Nat)
        /\ Len(Append(s, k + 1)) = k + 1
        /\ \A i \in 1 .. k : Append(s, k + 1)[i] = s[i]
        /\ Append(s, k + 1)[k + 1] = k + 1
    BY <2>1, <2>2
  <2>. QED
    BY <2>3, Zenon DEF s
<1>3. k + 1 \in Nat /\ c(k + 1) \in Seq(Nat) /\ Len(c(k + 1)) = k + 1
  BY <1>1
<1>4. \A i \in 1 .. k + 1 : Append(c(k), k + 1)[i] = c(k + 1)[i]
  BY <1>2
<1>5. Append(c(k), k + 1) = c(k + 1)
  <2>. DEFINE a == Append(c(k), k + 1)
              b == c(k + 1)
  <2>1. /\ a \in Seq(Nat) /\ b \in Seq(Nat) /\ Len(a) = Len(b)
        /\ \A i \in 1 .. Len(a) : a[i] = b[i]
    BY <1>2, <1>3, <1>4
  <2>. HIDE DEF a, b
  <2>2. a = b
    BY <2>1, SeqEqual
  <2>. QED
    BY <2>2 DEF a, b
<1>. QED
  BY <1>1, <1>5

(* A stream that goes on is still continued by what continued it before.   *)
LEMMA PrefixAppend ==
  ASSUME NEW S, NEW s \in Seq(S), NEW t \in Seq(S), NEW x \in S, IsPrefix(s, t)
  PROVE  /\ Append(t, x) \in Seq(S)
         /\ IsPrefix(s, Append(t, x))
         /\ IsStrictPrefix(t, Append(t, x))
<1>. DEFINE one == <<x>>
            u == Append(t, x)
<1>1. one \in Seq(S) /\ one # <<>> /\ u = t \o one /\ u \in Seq(S)
  BY AppendIsConcat, AppendProperties
<1>. HIDE DEF one, u
<1>2. IsPrefix(t, u) /\ IsStrictPrefix(t, u)
  BY <1>1, PrefixOfConcat
<1>3. IsPrefix(s, u)
  BY <1>1, <1>2, PrefixTransitive
<1>. QED
  BY <1>1, <1>2, <1>3 DEF u
=============================================================================
