------------------------------ MODULE SeqFacts ------------------------------
(* Lemmas about sequences whose elements have no common type, as the lists   *)
(* of records of the models are: what appending, replacing the last element, *)
(* cutting and joining give.                                                 *)
EXTENDS SequencesExt, SequenceTheorems, WellFoundedInduction, TLAPS

IsSeq(s) == \E S : s \in Seq(S)

LEMMA SeqBasics ==
    ASSUME NEW s, IsSeq(s)
    PROVE  /\ Len(s) \in Nat /\ DOMAIN s = 1 .. Len(s)
           /\ (s = <<>> <=> Len(s) = 0)
           /\ Last(s) = s[Len(s)]
  BY EmptySeq DEF IsSeq, Last

LEMMA EmptyIsSeq == IsSeq(<<>>) /\ Len(<<>>) = 0
  BY EmptySeq DEF IsSeq

LEMMA OneIsSeq ==
    ASSUME NEW x PROVE IsSeq(<<x>>) /\ Len(<<x>>) = 1 /\ <<x>>[1] = x
  <1>1. <<x>> \in Seq({x})
    OBVIOUS
  <1> QED
    BY <1>1 DEF IsSeq

LEMMA Appending ==
    ASSUME NEW s, IsSeq(s), NEW x
    PROVE  /\ IsSeq(Append(s, x)) /\ Len(Append(s, x)) = Len(s) + 1
           /\ \A i \in 1 .. Len(s) : Append(s, x)[i] = s[i]
           /\ Append(s, x)[Len(s) + 1] = x
  <1>1. PICK S : s \in Seq(S)
    BY DEF IsSeq
  <1>2. s \in Seq(S \cup {x}) /\ x \in S \cup {x}
    BY <1>1
  <1> QED
    BY <1>2, AppendProperties DEF IsSeq

LEMMA Replacing ==
    ASSUME NEW s, IsSeq(s), NEW x
    PROVE  /\ IsSeq([s EXCEPT ![Len(s)] = x]) /\ Len([s EXCEPT ![Len(s)] = x]) = Len(s)
           /\ \A i \in 1 .. Len(s) - 1 : [s EXCEPT ![Len(s)] = x][i] = s[i]
           /\ Len(s) > 0 => [s EXCEPT ![Len(s)] = x][Len(s)] = x
  <1>1. PICK S : s \in Seq(S)
    BY DEF IsSeq
  <1>2. PICK t : t = [s EXCEPT ![Len(s)] = x]
    OBVIOUS
  <1>3. PICK n \in Nat : n = Len(s) /\ DOMAIN s = 1 .. n
    BY <1>1
  <1>4. t \in [1 .. n -> S \cup {x}]
    <2>1. t = [i \in 1 .. n |-> IF i = n THEN x ELSE s[i]]
      BY <1>1, <1>2, <1>3
    <2>2. \A i \in 1 .. n : s[i] \in S
      BY <1>1, <1>3
    <2> QED
      BY <2>1, <2>2
  <1>5. t \in Seq(S \cup {x}) /\ Len(t) = n
    BY <1>3, <1>4
  <1>6. \A i \in 1 .. n : t[i] = IF i = n THEN x ELSE s[i]
    BY <1>1, <1>2, <1>3
  <1>7. IsSeq(t)
    BY <1>5 DEF IsSeq
  <1> QED
    BY <1>2, <1>3, <1>5, <1>6, <1>7

LEMMA Cutting ==
    ASSUME NEW s, IsSeq(s), NEW n \in Nat, n <= Len(s)
    PROVE  /\ IsSeq(SubSeq(s, 1, n)) /\ Len(SubSeq(s, 1, n)) = n
           /\ \A i \in 1 .. n : SubSeq(s, 1, n)[i] = s[i]
  <1>1. PICK S : s \in Seq(S)
    BY DEF IsSeq
  <1>2. \A i \in 1 .. n : s[i] \in S
    BY <1>1
  <1>3. /\ SubSeq(s, 1, n) \in Seq(S) /\ Len(SubSeq(s, 1, n)) = n
        /\ \A i \in 1 .. n : SubSeq(s, 1, n)[i] = s[1 + i - 1]
    BY <1>1, <1>2, SubSeqProperties
  <1> QED
    BY <1>3 DEF IsSeq

LEMMA TwoIsSeq ==
    ASSUME NEW x, NEW y
    PROVE  \E h : h = <<x, y>> /\ h = Append(<<x>>, y) /\ Len(h) = 2 /\ h[1] = x /\ h[2] = y
  <1>1. PICK S : S = {x, y}
    OBVIOUS
  <1>2. x \in S /\ y \in S
    BY <1>1
  <1>3. PICK h : h = <<x, y>>
    OBVIOUS
  <1>4. h \in Seq(S) /\ Len(h) = 2 /\ h[1] = x /\ h[2] = y
    BY <1>2, <1>3
  <1>5. PICK s : s = <<x>>
    OBVIOUS
  <1>6. s \in Seq(S) /\ Len(s) = 1 /\ s[1] = x
    BY <1>2, <1>5
  <1>7. PICK g : g = Append(s, y)
    OBVIOUS
  <1>8. g \in Seq(S) /\ Len(g) = 2 /\ g[1] = x /\ g[2] = y
    BY <1>2, <1>6, <1>7, AppendProperties
  <1>9. g = h
    <2>1. \A i \in 1 .. 2 : g[i] = h[i]
      <3>1. \A i \in 1 .. 2 : i = 1 \/ i = 2
        OBVIOUS
      <3> QED
        BY <1>4, <1>8, <3>1
    <2> QED
      BY <1>4, <1>8, <2>1, SeqEqual
  <1>10. h = Append(<<x>>, y)
    BY <1>5, <1>7, <1>9
  <1> QED
    BY <1>3, <1>4, <1>10, Zenon

LEMMA Joining ==
    ASSUME NEW s, NEW t, IsSeq(s), IsSeq(t)
    PROVE  /\ IsSeq(s \o t) /\ Len(s \o t) = Len(s) + Len(t)
           /\ \A i \in 1 .. Len(s) + Len(t) :
                 (s \o t)[i] = IF i <= Len(s) THEN s[i] ELSE t[i - Len(s)]
  <1>1. PICK A, B : s \in Seq(A) /\ t \in Seq(B)
    BY DEF IsSeq
  <1>2. s \in Seq(A \cup B) /\ t \in Seq(A \cup B)
    BY <1>1
  <1> QED
    BY <1>2, ConcatProperties DEF IsSeq

\* A finite set of numbers has a largest one.
LEMMA MaxExists ==
    ASSUME NEW n \in Nat, NEW S, S \subseteq 1 .. n, S # {}
    PROVE  Max(S) \in S /\ \A i \in S : i <= Max(S)
  <1>1. PICK R : R = {n - i : i \in S}
    OBVIOUS
  <1>2. \A i \in S : i \in Int /\ n - i \in Nat /\ n - i \in R
    BY <1>1
  <1>3. R \subseteq Nat /\ R # {}
    BY <1>1, <1>2
  <1>4. PICK x \in R : \A y \in R : <<y, x>> \notin OpToRel(<, Nat)
    BY <1>3, WFMin, NatLessThanWellFounded
  <1>5. \A y \in R : ~(y < x)
    BY <1>3, <1>4 DEF OpToRel
  <1>6. PICK m \in S : x = n - m
    BY <1>1
  <1>7. \A i \in S : m >= i
    <2> SUFFICES ASSUME NEW i \in S PROVE m >= i
      OBVIOUS
    <2>1. n - i \in R /\ i \in Int /\ m \in Int
      BY <1>2
    <2> QED
      BY <1>5, <1>6, <2>1
  <1>8. Max(S) \in S /\ \A i \in S : Max(S) >= i
    BY <1>6, <1>7 DEF Max
  <1>9. Max(S) \in Int /\ \A i \in S : i \in Int
    BY <1>2, <1>8
  <1> QED
    BY <1>8, <1>9
=============================================================================
