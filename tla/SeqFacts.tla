------------------------------ MODULE SeqFacts ------------------------------
(***************************************************************************)
(* Facts about naturals and sequences the proofs of several components     *)
(* rest on: every non-empty set of naturals has a least element, so that   *)
(* what CHOOSE picks as a first index is one, and so that a claim about    *)
(* all naturals can be proved by looking at its least counterexample; and  *)
(* what FlattenSeq, which is recursive, computes.                          *)
(***************************************************************************)
EXTENDS Naturals, SequencesExt, SequenceTheorems, WellFoundedInduction, TLAPS

\* A non-empty set of naturals has a least element.
LEMMA LeastNat ==
  ASSUME NEW S \in SUBSET Nat, S # {}
  PROVE  \E m \in S : \A n \in S : m <= n
PROOF
  <1> DEFINE R == OpToRel(<, Nat)
  <1>1. IsWellFoundedOn(R, Nat)
    BY NatLessThanWellFounded
  <1>2. \A x, y \in Nat : x < y => <<x, y>> \in R
    BY DEF OpToRel
  <1> HIDE DEF R
  <1>3. PICK m \in S : \A n \in S : ~(<<n, m>> \in R)
    BY <1>1, WFMin
  <1>4. ASSUME NEW n \in S PROVE m <= n
    <2>1. m \in Nat /\ n \in Nat
      OBVIOUS
    <2>2. ~(n < m)
      BY <1>2, <1>3, <2>1
    <2> QED BY <2>1, <2>2
  <1> QED BY <1>4

\* What holds of 0 and passes from every n to n + 1 holds of every natural; the
\* claim is given as the set of the naturals it holds of.
LEMMA SetInduction ==
  ASSUME NEW S, 0 \in S, \A n \in Nat : n \in S => n + 1 \in S
  PROVE  Nat \subseteq S
PROOF
  <1> SUFFICES ASSUME Nat \ S # {} PROVE FALSE
    OBVIOUS
  <1>1. PICK m \in Nat \ S : \A n \in Nat \ S : m <= n
    BY LeastNat
  <1>2. m # 0 /\ m - 1 \in Nat /\ m - 1 < m /\ (m - 1) + 1 = m
    BY <1>1
  <1>3. m - 1 \in S
    BY <1>1, <1>2
  <1> QED BY <1>1, <1>2, <1>3

\* The first member of a finite index set, as the models choose it.
LEMMA FirstIndex ==
  ASSUME NEW n \in Nat, NEW S \in SUBSET (1 .. n), S # {},
         NEW i, i = CHOOSE k \in S : \A j \in S : k <= j
  PROVE  i \in S /\ \A j \in S : i <= j
PROOF
  <1>1. \E k \in S : \A j \in S : k <= j
    <2>1. S \in SUBSET Nat
      OBVIOUS
    <2> QED BY <2>1, LeastNat
  <1> QED BY <1>1

-----------------------------------------------------------------------------
(* FlattenSeq.                                                             *)

Entries(s) == {s[i] : i \in DOMAIN s}

\* The recursive function in the definition of FlattenSeq exists.
LEMMA FlattenUnfolds ==
  ASSUME NEW S, NEW ss \in Seq(Seq(S)), ss # <<>>
  PROVE  \E f : /\ f = [i \in 1..Len(ss) |-> IF i = 1 THEN ss[i] ELSE f[i - 1] \o ss[i]]
                /\ FlattenSeq(ss) = f[Len(ss)]
PROOF
  <1> DEFINE F(f, n) == f = [i \in 1..n |-> IF i = 1 THEN ss[i] ELSE f[i - 1] \o ss[i]]
             G == {n \in Nat : \E f : F(f, n)}
  <1>1. 0 \in G
    <2>1. F([i \in 1..0 |-> i], 0)
      OBVIOUS
    <2> QED BY <2>1
  <1>2. ASSUME NEW n \in Nat, n \in G PROVE n + 1 \in G
    <2>1. PICK f : F(f, n)
      BY <1>2
    <2> DEFINE g == [i \in 1..(n + 1) |-> IF i = 1 THEN ss[i] ELSE f[i - 1] \o ss[i]]
    <2>2. \A i \in 1..(n + 1) : i # 1 => i - 1 \in 1..n
      OBVIOUS
    <2>3. \A i \in 1..n : f[i] = (IF i = 1 THEN ss[i] ELSE f[i - 1] \o ss[i])
      BY <2>1, Zenon
    <2>4. \A i \in 1..n : i \in 1..(n + 1)
      OBVIOUS
    <2>5. \A i \in 1..n : g[i] = f[i]
      BY <2>3, <2>4, Zenon
    <2>6. g = [i \in 1..(n + 1) |-> IF i = 1 THEN ss[i] ELSE g[i - 1] \o ss[i]]
      BY <2>2, <2>5
    <2>7. F(g, n + 1)
      BY <2>6
    <2> HIDE DEF g, F
    <2> QED BY <2>7
  <1>3. Nat \subseteq G
    <2> HIDE DEF G
    <2> QED BY <1>1, <1>2, SetInduction
  <1>4. Len(ss) \in Nat /\ Len(ss) # 0
    BY EmptySeq, LenProperties
  <1>5. \E f : F(f, Len(ss))
    BY <1>3, <1>4
  <1> DEFINE f == CHOOSE g : F(g, Len(ss))
  <1>6. F(f, Len(ss))
    BY <1>5
  <1>7. FlattenSeq(ss) = f[Len(ss)]
    BY <1>4 DEF FlattenSeq
  <1> HIDE DEF f
  <1> QED BY <1>6, <1>7

\* What a flattened sequence holds is what its parts hold.
LEMMA FlattenEntries ==
  ASSUME NEW S, NEW ss \in Seq(Seq(S))
  PROVE  /\ FlattenSeq(ss) \in Seq(S)
         /\ Entries(FlattenSeq(ss)) = UNION {Entries(ss[i]) : i \in DOMAIN ss}
PROOF
  <1>1. CASE ss = <<>>
    <2>1. FlattenSeq(ss) = <<>>
      BY <1>1 DEF FlattenSeq
    <2>2. DOMAIN ss = {}
      BY <1>1
    <2>3. Entries(ss) = {} /\ UNION {Entries(ss[i]) : i \in DOMAIN ss} = {}
      BY <2>2 DEF Entries
    <2>4. <<>> \in Seq(S)
      OBVIOUS
    <2> QED BY <1>1, <2>1, <2>3, <2>4
  <1>2. CASE ss # <<>>
    <2>1. PICK f : /\ f = [i \in 1..Len(ss) |-> IF i = 1 THEN ss[i] ELSE f[i - 1] \o ss[i]]
                   /\ FlattenSeq(ss) = f[Len(ss)]
      BY <1>2, FlattenUnfolds
    <2>0. Len(ss) \in Nat /\ Len(ss) # 0 /\ DOMAIN ss = 1..Len(ss)
      BY <1>2, EmptySeq, LenProperties
    <2> DEFINE Up(n) == UNION {Entries(ss[i]) : i \in 1..n}
               G == {n \in Nat : n + 1 <= Len(ss) =>
                       f[n + 1] \in Seq(S) /\ Entries(f[n + 1]) = Up(n + 1)}
    <2>2. 0 \in G
      <3>1. f[1] = ss[1]
        BY <2>0, <2>1
      <3>2. Up(1) = Entries(ss[1])
        <4>1. 1..1 = {1}
          OBVIOUS
        <4> QED BY <4>1
      <3> QED BY <2>0, <3>1, <3>2
    <2>3. ASSUME NEW n \in Nat, n \in G PROVE n + 1 \in G
      <3> SUFFICES ASSUME n + 2 <= Len(ss)
                   PROVE  f[n + 2] \in Seq(S) /\ Entries(f[n + 2]) = Up(n + 2)
        <4>1. (n + 1) + 1 = n + 2 /\ n + 1 \in Nat
          OBVIOUS
        <4> HIDE DEF Up
        <4> QED BY <4>1
      <3>1. f[n + 2] = f[n + 1] \o ss[n + 2]
        <4>1. n + 2 \in 1..Len(ss) /\ n + 2 # 1 /\ (n + 2) - 1 = n + 1
          BY <2>0
        <4>2. \A i \in 1..Len(ss) : f[i] = (IF i = 1 THEN ss[i] ELSE f[i - 1] \o ss[i])
          BY <2>1, Zenon
        <4> QED BY <4>1, <4>2
      <3>2. f[n + 1] \in Seq(S) /\ ss[n + 2] \in Seq(S) /\ Entries(f[n + 1]) = Up(n + 1)
        BY <2>0, <2>3
      <3>3. Entries(f[n + 2]) = Entries(f[n + 1]) \cup Entries(ss[n + 2])
        <4>1. Range(f[n + 1] \o ss[n + 2]) = Range(f[n + 1]) \cup Range(ss[n + 2])
          BY <3>2, RangeConcatenation
        <4> QED BY <3>1, <4>1 DEF Entries, Range
      <3>4. Up(n + 2) = Up(n + 1) \cup Entries(ss[n + 2])
        OBVIOUS
      <3> QED BY <3>1, <3>2, <3>3, <3>4, ConcatProperties
    <2>4. Nat \subseteq G
      <3> HIDE DEF G
      <3> QED BY <2>2, <2>3, SetInduction
    <2>5. Len(ss) - 1 \in Nat /\ (Len(ss) - 1) + 1 = Len(ss) /\ (Len(ss) - 1) + 1 <= Len(ss)
      BY <2>0
    <2>6. Len(ss) - 1 \in G
      BY <2>4, <2>5
    <2>7. f[Len(ss)] \in Seq(S) /\ Entries(f[Len(ss)]) = Up(Len(ss))
      BY <2>5, <2>6
    <2> QED BY <2>0, <2>1, <2>7
  <1> QED BY <1>1, <1>2

\* Flattening one-element sequences takes the brackets off.
LEMMA FlattenSingletons ==
  ASSUME NEW S, NEW s \in Seq(S)
  PROVE  FlattenSeq([i \in DOMAIN s |-> <<s[i]>>]) = s
PROOF
  <1> DEFINE ss == [i \in DOMAIN s |-> <<s[i]>>]
  <1>0. Len(s) \in Nat /\ DOMAIN s = 1..Len(s) /\ \A i \in 1..Len(s) : s[i] \in S
    BY LenProperties
  <1>1. ss \in Seq(Seq(S)) /\ Len(ss) = Len(s)
    BY <1>0
  <1>2. CASE s = <<>>
    <2>1. ss = <<>>
      BY <1>0, <1>1, <1>2
    <2> QED BY <1>2, <2>1 DEF FlattenSeq
  <1>3. CASE s # <<>>
    <2>0. Len(s) # 0 /\ ss # <<>>
      BY <1>0, <1>1, <1>3, EmptySeq
    <2>1. PICK f : /\ f = [i \in 1..Len(ss) |-> IF i = 1 THEN ss[i] ELSE f[i - 1] \o ss[i]]
                   /\ FlattenSeq(ss) = f[Len(ss)]
      BY <1>1, <2>0, FlattenUnfolds
    <2> DEFINE G == {n \in Nat : n + 1 <= Len(s) =>
                       /\ f[n + 1] \in Seq(S) /\ Len(f[n + 1]) = n + 1
                       /\ \A k \in 1..(n + 1) : f[n + 1][k] = s[k]}
    <2>2. 0 \in G
      <3>1. f[1] = <<s[1]>> /\ s[1] \in S
        BY <1>0, <1>1, <2>0, <2>1
      <3>2. <<s[1]>> \in Seq(S) /\ Len(<<s[1]>>) = 1 /\ <<s[1]>>[1] = s[1]
        BY <3>1
      <3>3. 0 + 1 = 1 /\ \A k \in 1..1 : k = 1
        OBVIOUS
      <3>4. \A k \in 1..1 : f[1][k] = s[k]
        BY <3>1, <3>2, <3>3
      <3>5. f[0 + 1] \in Seq(S) /\ Len(f[0 + 1]) = 0 + 1 /\ \A k \in 1..(0 + 1) : f[0 + 1][k] = s[k]
        BY <3>1, <3>2, <3>3, <3>4
      <3> QED BY <3>5
    <2>3. ASSUME NEW n \in Nat, n \in G PROVE n + 1 \in G
      <3> SUFFICES ASSUME n + 2 <= Len(s)
                   PROVE  /\ f[n + 2] \in Seq(S) /\ Len(f[n + 2]) = n + 2
                          /\ \A k \in 1..(n + 2) : f[n + 2][k] = s[k]
        <4>1. (n + 1) + 1 = n + 2 /\ n + 1 \in Nat
          OBVIOUS
        <4> QED BY <4>1
      <3>1. f[n + 2] = f[n + 1] \o <<s[n + 2]>>
        <4>1. n + 2 \in 1..Len(ss) /\ n + 2 # 1 /\ (n + 2) - 1 = n + 1 /\ n + 2 \in DOMAIN s
          BY <1>0, <1>1
        <4>2. \A i \in 1..Len(ss) : f[i] = (IF i = 1 THEN ss[i] ELSE f[i - 1] \o ss[i])
          BY <2>1, Zenon
        <4>3. ss[n + 2] = <<s[n + 2]>>
          BY <4>1
        <4> QED BY <4>1, <4>2, <4>3
      <3>2. /\ f[n + 1] \in Seq(S) /\ Len(f[n + 1]) = n + 1 /\ \A k \in 1..(n + 1) : f[n + 1][k] = s[k]
            /\ s[n + 2] \in S
        BY <1>0, <2>3
      <3>3. <<s[n + 2]>> \in Seq(S) /\ Len(<<s[n + 2]>>) = 1 /\ <<s[n + 2]>>[1] = s[n + 2]
        BY <3>2
      <3> DEFINE g == f[n + 1]
                 t == <<s[n + 2]>>
      <3>4. /\ g \o t \in Seq(S) /\ Len(g \o t) = Len(g) + Len(t)
            /\ \A k \in 1 .. Len(g) + Len(t) : (g \o t)[k] = IF k <= Len(g) THEN g[k] ELSE t[k - Len(g)]
        BY <3>2, <3>3, ConcatProperties
      <3>5. ASSUME NEW k \in 1..(n + 2) PROVE (g \o t)[k] = s[k]
        <4>1. CASE k <= n + 1
          BY <3>2, <3>3, <3>4, <4>1
        <4>2. CASE k = n + 2
          <5>1. k \in 1 .. Len(g) + Len(t) /\ ~(k <= Len(g)) /\ k - Len(g) = 1
            BY <3>2, <3>3, <4>2
          <5> QED BY <3>3, <3>4, <4>2, <5>1
        <4>3. k <= n + 1 \/ k = n + 2
          OBVIOUS
        <4> QED BY <4>1, <4>2, <4>3
      <3> QED BY <3>1, <3>2, <3>3, <3>4, <3>5
    <2>4. Nat \subseteq G
      <3> HIDE DEF G
      <3> QED BY <2>2, <2>3, SetInduction
    <2>5. Len(s) - 1 \in Nat /\ (Len(s) - 1) + 1 = Len(s)
      BY <1>0, <2>0
    <2>6. Len(s) - 1 \in G
      BY <2>4, <2>5
    <2>7. f[Len(s)] \in Seq(S) /\ Len(f[Len(s)]) = Len(s) /\ \A k \in 1..Len(s) : f[Len(s)][k] = s[k]
      BY <1>0, <2>5, <2>6
    <2>8. f[Len(s)] = s
      BY <1>0, <2>7, SeqEqual
    <2> QED BY <1>1, <2>1, <2>8
  <1> QED BY <1>2, <1>3
=============================================================================
