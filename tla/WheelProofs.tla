----------------------------- MODULE WheelProofs ----------------------------
(***************************************************************************)
(* Proofs about Wheel: for any listing of any wheels, in any order, the    *)
(* abi2026 selector takes the one best wheel.                              *)
(***************************************************************************)
EXTENDS ResolveProofs, Wheel

-----------------------------------------------------------------------------
(* The byte order of file names.                                           *)

\* An element that occurs is found.
LEMMA FirstFinds ==
  ASSUME NEW T, NEW s \in Seq(T), NEW e, \E i \in DOMAIN s : s[i] = e
  PROVE  First(s, e) \in Nat \ {0} /\ s[First(s, e)] = e
PROOF
  <1> DEFINE A == {i \in DOMAIN s : s[i] = e}
  <1>1. Len(s) \in Nat /\ DOMAIN s = 1..Len(s) /\ A \in SUBSET (1..Len(s)) /\ A # {}
    BY LenProperties
  <1>2. PICK i \in A : \A j \in A : i <= j
    BY <1>1, FirstIndex
  <1>3. s[i] = e /\ i \in DOMAIN s /\ \A j \in 1..(i - 1) : s[j] # e
    BY <1>1, <1>2
  <1>4. First(s, e) = CHOOSE k \in DOMAIN s : s[k] = e /\ \A j \in 1..(k - 1) : s[j] # e
    BY <1>3 DEF First
  <1>5. First(s, e) \in DOMAIN s /\ s[First(s, e)] = e
    BY <1>3, <1>4
  <1> QED BY <1>1, <1>5

\* Different tokens have different places in the order.
LEMMA TokenPlaces ==
  /\ \A a \in Tokens : First(TokenOrder, a) \in Nat \ {0}
  /\ \A a, b \in Tokens : First(TokenOrder, a) = First(TokenOrder, b) => a = b
PROOF
  <1>1. TokenOrder \in Seq(Tokens)
    <2>1. DOMAIN TokenOrder = 1..23
      BY DEF TokenOrder
    <2>2. TokenOrder = [i \in 1..23 |-> TokenOrder[i]]
      BY DEF TokenOrder
    <2>3. \A i \in 1..23 : TokenOrder[i] \in Tokens
      BY <2>1 DEF Tokens
    <2> HIDE DEF Tokens
    <2> QED BY <2>2, <2>3, IsSeq
  <1>2. \A a \in Tokens : First(TokenOrder, a) \in Nat \ {0} /\ TokenOrder[First(TokenOrder, a)] = a
    <2> SUFFICES ASSUME NEW a \in Tokens
                 PROVE  First(TokenOrder, a) \in Nat \ {0} /\ TokenOrder[First(TokenOrder, a)] = a
      OBVIOUS
    <2>1. \E i \in DOMAIN TokenOrder : TokenOrder[i] = a
      BY DEF Tokens
    <2> QED BY <1>1, <2>1, FirstFinds
  <1> QED BY <1>2

\* A name as the places of its tokens, followed by zeros.
NameKey(s, k) == IF k \in DOMAIN s THEN First(TokenOrder, s[k]) ELSE 0
\* Two names first differ in their k-th token, in which s is the lesser.
FirstLess(s, t, k) == NameKey(s, k) < NameKey(t, k) /\ \A j \in 1..(k - 1) : NameKey(s, j) = NameKey(t, j)

LEMMA KeysAreNumbers ==
  ASSUME NEW s \in Seq(Tokens), NEW k
  PROVE  NameKey(s, k) \in Nat /\ (NameKey(s, k) # 0 <=> k \in DOMAIN s)
PROOF BY TokenPlaces, LenProperties DEF NameKey

\* Names with the same places of their tokens are the same.
LEMMA KeysTell ==
  ASSUME NEW s \in Seq(Tokens), NEW t \in Seq(Tokens), \A k \in Nat \ {0} : NameKey(s, k) = NameKey(t, k)
  PROVE  s = t
PROOF
  <1>1. /\ Len(s) \in Nat /\ DOMAIN s = 1..Len(s) /\ Len(t) \in Nat /\ DOMAIN t = 1..Len(t)
        /\ (\A i \in 1..Len(s) : s[i] \in Tokens) /\ \A j \in 1..Len(t) : t[j] \in Tokens
    BY LenProperties
  <1>2. \A k \in Nat \ {0} : k \in DOMAIN s <=> k \in DOMAIN t
    BY KeysAreNumbers
  <1>3. Len(s) = Len(t)
    <2>1. CASE Len(s) < Len(t)
      <3>1. Len(t) \in Nat \ {0} /\ Len(t) \in DOMAIN t /\ Len(t) \notin DOMAIN s
        BY <1>1, <2>1
      <3> QED BY <1>2, <3>1
    <2>2. CASE Len(t) < Len(s)
      <3>1. Len(s) \in Nat \ {0} /\ Len(s) \in DOMAIN s /\ Len(s) \notin DOMAIN t
        BY <1>1, <2>2
      <3> QED BY <1>2, <3>1
    <2>3. Len(s) \in Nat /\ Len(t) \in Nat
      BY <1>1
    <2> QED BY <2>1, <2>2, <2>3
  <1>4. ASSUME NEW i \in 1..Len(s) PROVE s[i] = t[i]
    <2>1. i \in Nat \ {0} /\ i \in DOMAIN s /\ i \in DOMAIN t /\ s[i] \in Tokens /\ t[i] \in Tokens
      BY <1>1, <1>3, <1>4
    <2>2. First(TokenOrder, s[i]) = First(TokenOrder, t[i])
      BY <2>1 DEF NameKey
    <2> QED BY <2>1, <2>2, TokenPlaces
  <1> QED BY <1>1, <1>3, <1>4, SeqEqual

\* TextLess compares at the first difference.
LEMMA LessAtDifference ==
  ASSUME NEW s \in Seq(Tokens), NEW t \in Seq(Tokens)
  PROVE  TextLess(s, t) <=> \E k \in Nat \ {0} : FirstLess(s, t, k)
PROOF
  <1>1. /\ Len(s) \in Nat /\ DOMAIN s = 1..Len(s) /\ Len(t) \in Nat /\ DOMAIN t = 1..Len(t)
        /\ (\A i \in 1..Len(s) : s[i] \in Tokens) /\ \A j \in 1..Len(t) : t[j] \in Tokens
    BY LenProperties
  <1>2. \A k : k \in DOMAIN s /\ k \in DOMAIN t => (NameKey(s, k) = NameKey(t, k) <=> s[k] = t[k])
    BY <1>1, TokenPlaces DEF NameKey
  <1>3. ASSUME NEW n \in Nat, n <= Len(s), n <= Len(t)
        PROVE  SubSeq(s, 1, n) = SubSeq(t, 1, n) <=> \A j \in 1..n : NameKey(s, j) = NameKey(t, j)
    <2>1. \A j \in 1..n : j \in DOMAIN s /\ j \in DOMAIN t /\ s[j] \in Tokens /\ t[j] \in Tokens
      BY <1>1, <1>3
    <2>2. /\ SubSeq(s, 1, n) \in Seq(Tokens) /\ Len(SubSeq(s, 1, n)) = n
          /\ \A j \in 1..n : SubSeq(s, 1, n)[j] = s[j]
      BY <1>1, <1>3, <2>1, SubSeqProperties
    <2>3. /\ SubSeq(t, 1, n) \in Seq(Tokens) /\ Len(SubSeq(t, 1, n)) = n
          /\ \A j \in 1..n : SubSeq(t, 1, n)[j] = t[j]
      BY <1>1, <1>3, <2>1, SubSeqProperties
    <2> DEFINE a == SubSeq(s, 1, n)
               b == SubSeq(t, 1, n)
    <2> HIDE DEF a, b
    <2>4. a = b <=> \A j \in 1..n : a[j] = b[j]
      BY <2>2, <2>3, SeqEqual DEF a, b
    <2>5. \A j \in 1..n : a[j] = b[j] <=> NameKey(s, j) = NameKey(t, j)
      BY <1>2, <2>1, <2>2, <2>3 DEF a, b
    <2> QED BY <2>4, <2>5 DEF a, b
  <1>4. ASSUME NEW i \in DOMAIN s \cap DOMAIN t
        PROVE  Upto(s, i - 1) = Upto(t, i - 1) /\ Before(s[i], t[i]) <=> FirstLess(s, t, i)
    <2>1. i - 1 \in Nat /\ i - 1 <= Len(s) /\ i - 1 <= Len(t)
      BY <1>1
    <2>2. Upto(s, i - 1) = Upto(t, i - 1) <=> \A j \in 1..(i - 1) : NameKey(s, j) = NameKey(t, j)
      BY <1>3, <2>1 DEF Upto
    <2>3. Before(s[i], t[i]) <=> NameKey(s, i) < NameKey(t, i)
      BY DEF Before, NameKey
    <2> QED BY <2>2, <2>3 DEF FirstLess
  <1>5. ASSUME Len(s) < Len(t), IsPrefix(s, t) PROVE FirstLess(s, t, Len(s) + 1)
    <2>1. \A j \in 1..Len(s) : NameKey(s, j) = NameKey(t, j)
      BY <1>1, <1>3, <1>5 DEF IsPrefix
    <2>2. Len(s) + 1 \notin DOMAIN s /\ Len(s) + 1 \in DOMAIN t /\ (Len(s) + 1) - 1 = Len(s)
      BY <1>1, <1>5
    <2>3. NameKey(s, Len(s) + 1) = 0 /\ NameKey(t, Len(s) + 1) \in Nat \ {0}
      BY <2>2, KeysAreNumbers
    <2> QED BY <2>1, <2>2, <2>3 DEF FirstLess
  <1>6. ASSUME NEW k \in Nat \ {0}, FirstLess(s, t, k), k \notin DOMAIN s PROVE Len(s) < Len(t) /\ IsPrefix(s, t)
    <2>1. NameKey(s, k) = 0 /\ NameKey(t, k) # 0 /\ k \in DOMAIN t
      BY <1>6, KeysAreNumbers DEF FirstLess
    <2>2. Len(s) < k /\ k <= Len(t) /\ Len(s) < Len(t) /\ Len(s) <= Len(t)
      BY <1>1, <1>6, <2>1
    <2>3. \A j \in 1..Len(s) : j \in 1..(k - 1)
      BY <1>1, <2>2
    <2>4. \A j \in 1..Len(s) : NameKey(s, j) = NameKey(t, j)
      BY <1>6, <2>3 DEF FirstLess
    <2> QED BY <1>1, <1>3, <2>2, <2>4 DEF IsPrefix
  <1>7. ASSUME NEW k \in Nat \ {0}, FirstLess(s, t, k), k \in DOMAIN s PROVE k \in DOMAIN s \cap DOMAIN t
    <2>1. NameKey(s, k) \in Nat /\ NameKey(t, k) \in Nat /\ NameKey(s, k) < NameKey(t, k)
      BY <1>7, KeysAreNumbers DEF FirstLess
    <2>2. NameKey(t, k) # 0
      BY <2>1
    <2> QED BY <1>7, <2>2, KeysAreNumbers
  <1>8. (\E i \in DOMAIN s \cap DOMAIN t : FirstLess(s, t, i)) => \E k \in Nat \ {0} : FirstLess(s, t, k)
    BY <1>1
  <1>9. Len(s) + 1 \in Nat \ {0}
    BY <1>1
  <1>10. TextLess(s, t) <=> \/ \E i \in DOMAIN s \cap DOMAIN t : FirstLess(s, t, i)
                            \/ Len(s) < Len(t) /\ IsPrefix(s, t)
    BY <1>4 DEF TextLess
  <1> QED BY <1>5, <1>6, <1>7, <1>8, <1>9, <1>10

\* TextLess is a strict order, and a total one.
LEMMA TextOrder ==
  ASSUME NEW s \in Seq(Tokens), NEW t \in Seq(Tokens), NEW u \in Seq(Tokens)
  PROVE  /\ ~TextLess(s, s)
         /\ TextLess(s, t) /\ TextLess(t, u) => TextLess(s, u)
         /\ s = t \/ TextLess(s, t) \/ TextLess(t, s)
PROOF
  <1>0. \A k : NameKey(s, k) \in Nat /\ NameKey(t, k) \in Nat /\ NameKey(u, k) \in Nat
    BY KeysAreNumbers
  <1>1. ~TextLess(s, s)
    BY <1>0, LessAtDifference DEF FirstLess
  <1>2. ASSUME TextLess(s, t), TextLess(t, u) PROVE TextLess(s, u)
    <2>1. PICK k \in Nat \ {0} : FirstLess(s, t, k)
      BY <1>2, LessAtDifference
    <2>2. PICK l \in Nat \ {0} : FirstLess(t, u, l)
      BY <1>2, LessAtDifference
    <2>3. CASE k <= l
      <3>1. \A j \in 1..(k - 1) : j \in 1..(l - 1)
        BY <2>3
      <3>2. k = l \/ k \in 1..(l - 1)
        BY <2>3
      <3>3. NameKey(s, k) < NameKey(t, k) /\ NameKey(t, k) <= NameKey(u, k)
        <4>1. NameKey(s, k) < NameKey(t, k)
          BY <2>1 DEF FirstLess
        <4>2. CASE k = l
          BY <1>0, <2>2, <4>1, <4>2 DEF FirstLess
        <4>3. CASE k \in 1..(l - 1)
          BY <1>0, <2>2, <4>1, <4>3 DEF FirstLess
        <4> QED BY <3>2, <4>2, <4>3
      <3>4. FirstLess(s, u, k)
        <4>1. NameKey(s, k) < NameKey(u, k)
          BY <1>0, <3>3
        <4>2. \A j \in 1..(k - 1) : NameKey(s, j) = NameKey(t, j) /\ NameKey(t, j) = NameKey(u, j)
          BY <2>1, <2>2, <3>1 DEF FirstLess
        <4> QED BY <4>1, <4>2 DEF FirstLess
      <3> QED BY <3>4, LessAtDifference
    <2>4. CASE l < k
      <3>1. l \in 1..(k - 1) /\ \A j \in 1..(l - 1) : j \in 1..(k - 1)
        BY <2>4
      <3>2. FirstLess(s, u, l)
        BY <1>0, <2>1, <2>2, <3>1 DEF FirstLess
      <3> QED BY <3>2, LessAtDifference
    <2> QED BY <2>3, <2>4
  <1>3. ASSUME s # t PROVE TextLess(s, t) \/ TextLess(t, s)
    <2> DEFINE D == {k \in Nat \ {0} : NameKey(s, k) # NameKey(t, k)}
    <2>1. D # {}
      BY <1>3, KeysTell
    <2>2. PICK k \in D : \A j \in D : k <= j
      BY <2>1, LeastNat
    <2>3. \A j \in 1..(k - 1) : NameKey(s, j) = NameKey(t, j)
      BY <2>2
    <2>4. FirstLess(s, t, k) \/ FirstLess(t, s, k)
      BY <1>0, <2>3 DEF FirstLess
    <2> QED BY <2>4, LessAtDifference
  <1> QED BY <1>1, <1>2, <1>3

-----------------------------------------------------------------------------
(* The order of the selector.                                              *)

\* What a policy admits has one of the four classes it ranks, and the rank is the
\* one the transition policy gives.
LEMMA RankOf ==
  ASSUME NEW policy \in Policies, NEW class, Accepts(policy, class)
  PROVE  /\ PolicyRank(policy, class) \in Nat
         /\ Accepts("both", class) /\ PolicyRank("both", class) = PolicyRank(policy, class)
PROOF BY DEF Policies, Accepts, PolicyRank

LEMMA BothAccepts ==
  ASSUME NEW class, Accepts("both", class)
  PROVE  Accepts("legacy", class) \/ Accepts("abi2026", class)
PROOF BY DEF Accepts

\* RankedBefore is a strict total order of the wheels a policy admits.
LEMMA RankOrder ==
  ASSUME NEW policy \in Policies,
         NEW s \in WheelNames, NEW t \in WheelNames, NEW u \in WheelNames,
         Admitted(policy, s), Admitted(policy, t), Admitted(policy, u)
  PROVE  /\ ~RankedBefore(policy, s, s)
         /\ RankedBefore(policy, s, t) /\ RankedBefore(policy, t, u) => RankedBefore(policy, s, u)
         /\ s = t \/ RankedBefore(policy, s, t) \/ RankedBefore(policy, t, s)
PROOF
  <1> DEFINE rank(n) == PolicyRank(policy, ClassifyABITag(WheelABI(n)))
  <1>1. rank(s) \in Nat /\ rank(t) \in Nat /\ rank(u) \in Nat
    BY RankOf DEF Admitted
  <1>2. \A a, b : RankedBefore(policy, a, b) <=> rank(a) > rank(b) \/ (rank(a) = rank(b) /\ TextLess(a, b))
    BY DEF RankedBefore
  <1>3. s \in Seq(Tokens) /\ t \in Seq(Tokens) /\ u \in Seq(Tokens)
    BY WheelNamesAssumption
  <1> HIDE DEF rank
  <1> QED BY <1>1, <1>2, <1>3, TextOrder

\* A sequence kept at some positions holds what stood at them.
LEMMA KeptHolds ==
  ASSUME NEW T, NEW s \in Seq(T), NEW ps \in SUBSET (DOMAIN s)
  PROVE  /\ KeptAt(s, ps) \in Seq(T)
         /\ {KeptAt(s, ps)[k] : k \in DOMAIN KeptAt(s, ps)} = {s[i] : i \in ps}
PROOF
  <1>1. Len(s) \in Nat /\ DOMAIN s = 1..Len(s) /\ \A i \in 1..Len(s) : s[i] \in T
    BY LenProperties
  <1>2. ps \in SUBSET Nat /\ (\A i \in ps : i <= Len(s)) /\ \A i \in ps : s[i] \in T
    BY <1>1
  <1>3. IsFiniteSet(ps)
    BY <1>1, <1>2, FS_BoundedSetOfNaturals
  <1>4. Cardinality(ps) \in Nat
    BY <1>3, FS_CardinalityType
  <1> DEFINE n == Cardinality(ps)
             a == Ascending(ps)
             kept == KeptAt(s, ps)
  <1>5. \A k \in 1..n : a[k] \in ps
    BY <1>2, <1>3, AscendingLists
  <1>6. kept = [k \in 1..n |-> s[a[k]]]
    BY DEF KeptAt
  <1>7. ASSUME NEW i \in ps PROVE \E k \in 1..n : a[k] = i
    <2> DEFINE c == Cardinality(BelowIn(ps, i))
    <2>1. c \in 0..(n - 1)
      BY <1>2, <1>3, BelowCounts
    <2>2. c + 1 \in 1..n /\ (c + 1) - 1 = c
      BY <1>4, <2>1
    <2>3. a[c + 1] \in ps /\ Cardinality(BelowIn(ps, a[c + 1])) = c
      BY <1>2, <1>3, <2>2, AscendingLists
    <2> DEFINE j == a[c + 1]
    <2>4. j \in ps /\ Cardinality(BelowIn(ps, j)) = c
      BY <2>3
    <2> HIDE DEF j, c
    <2>5. i \in Nat /\ j \in Nat /\ c \in Nat
      BY <1>2, <1>4, <2>1, <2>4
    <2>6. ~(i < j)
      BY <1>2, <1>3, <2>4, <2>5, BelowCounts DEF c
    <2>7. ~(j < i)
      BY <1>2, <1>3, <2>4, <2>5, BelowCounts DEF c
    <2>8. j = i
      BY <2>5, <2>6, <2>7
    <2> QED BY <2>2, <2>8 DEF j
  <1> HIDE DEF n, a, kept
  <1>8. kept \in [1..n -> T]
    BY <1>2, <1>5, <1>6
  <1>9. kept \in Seq(T)
    BY <1>4, <1>8, IsSeq DEF n
  <1>10. DOMAIN kept = 1..n /\ \A k \in 1..n : kept[k] = s[a[k]]
    BY <1>6
  <1>11. {kept[k] : k \in DOMAIN kept} = {s[i] : i \in ps}
    BY <1>5, <1>7, <1>10
  <1> QED BY <1>9, <1>11 DEF kept

\* A non-empty list of admitted wheels has an entry no other goes before.
LEMMA SomeoneFirst ==
  ASSUME NEW policy \in Policies, NEW pool \in Seq(WheelNames), pool # <<>>,
         \A i \in DOMAIN pool : Admitted(policy, pool[i])
  PROVE  \E i \in DOMAIN pool : \A j \in DOMAIN pool :
           ~(RankedBefore(policy, pool[j], pool[i]) \/ (~RankedBefore(policy, pool[i], pool[j]) /\ j < i))
PROOF
  <1> DEFINE Ahead(j, i) == \/ RankedBefore(policy, pool[j], pool[i])
                            \/ ~RankedBefore(policy, pool[i], pool[j]) /\ j < i
             G == {n \in Nat : n + 1 <= Len(pool) => \E i \in 1..(n + 1) : \A j \in 1..(n + 1) : ~Ahead(j, i)}
  <1>1. /\ Len(pool) \in Nat \ {0} /\ DOMAIN pool = 1..Len(pool)
        /\ \A i \in 1..Len(pool) : pool[i] \in WheelNames /\ Admitted(policy, pool[i])
    BY EmptySeq, LenProperties
  <1>2. 0 \in G
    <2>1. pool[1] \in WheelNames /\ Admitted(policy, pool[1])
      BY <1>1
    <2>2. ~Ahead(1, 1)
      BY <2>1, RankOrder
    <2> HIDE DEF Ahead
    <2> QED BY <2>2
  <1>3. ASSUME NEW n \in Nat, n \in G PROVE n + 1 \in G
    <2> SUFFICES ASSUME n + 2 <= Len(pool) PROVE \E i \in 1..(n + 2) : \A j \in 1..(n + 2) : ~Ahead(j, i)
      <3>1. (n + 1) + 1 = n + 2 /\ n + 1 \in Nat
        OBVIOUS
      <3> HIDE DEF Ahead
      <3> QED BY <3>1
    <2>1. n + 1 <= Len(pool)
      BY <1>1
    <2>2. PICK i \in 1..(n + 1) : \A j \in 1..(n + 1) : ~Ahead(j, i)
      <3> HIDE DEF Ahead
      <3> QED BY <1>3, <2>1
    <2> DEFINE m == n + 2
    <2>3. m \in 1..m /\ i \in 1..m /\ i < m /\ \A j \in 1..m : j = m \/ (j \in 1..(n + 1) /\ j < m)
      OBVIOUS
    <2>4. \A j \in 1..m : pool[j] \in WheelNames /\ Admitted(policy, pool[j])
      BY <1>1
    <2> HIDE DEF m
    <2>5. CASE RankedBefore(policy, pool[m], pool[i])
      <3>1. ASSUME NEW j \in 1..(n + 1), j \in 1..m PROVE ~Ahead(j, m)
        <4>1. ~RankedBefore(policy, pool[j], pool[i])
          BY <2>2, <3>1
        <4>2. ~RankedBefore(policy, pool[j], pool[m])
          BY <2>3, <2>4, <2>5, <3>1, <4>1, RankOrder
        <4>3. pool[j] # pool[m]
          BY <2>5, <4>1
        <4>4. RankedBefore(policy, pool[m], pool[j])
          BY <2>3, <2>4, <3>1, <4>2, <4>3, RankOrder
        <4> QED BY <4>2, <4>4
      <3>2. ~Ahead(m, m)
        <4>1. ~RankedBefore(policy, pool[m], pool[m]) /\ ~(m < m)
          BY <2>3, <2>4, RankOrder DEF m
        <4> QED BY <4>1
      <3>3. \A j \in 1..m : ~Ahead(j, m)
        BY <2>3, <3>1, <3>2
      <3> HIDE DEF Ahead
      <3> QED BY <2>3, <3>3 DEF m
    <2>6. CASE ~RankedBefore(policy, pool[m], pool[i])
      <3>1. ~Ahead(m, i)
        BY <2>3, <2>6 DEF m
      <3> HIDE DEF Ahead
      <3>2. \A j \in 1..m : ~Ahead(j, i)
        BY <2>2, <2>3, <3>1
      <3> QED BY <2>3, <3>2 DEF m
    <2> QED BY <2>5, <2>6
  <1>4. Nat \subseteq G
    <2> HIDE DEF G
    <2> QED BY <1>2, <1>3, SetInduction
  <1> HIDE DEF Ahead
  <1>5. Len(pool) - 1 \in Nat /\ (Len(pool) - 1) + 1 = Len(pool) /\ (Len(pool) - 1) + 1 <= Len(pool)
    BY <1>1
  <1>6. Len(pool) - 1 \in G
    BY <1>4, <1>5
  <1>7. \E i \in 1..Len(pool) : \A j \in 1..Len(pool) : ~Ahead(j, i)
    BY <1>5, <1>6
  <1> QED BY <1>1, <1>7 DEF Ahead

\* The first element of a sequence, as a piece of it.
LEMMA OneTaken ==
  ASSUME NEW V, NEW s \in Seq(V), Len(s) # 0
  PROVE  SubSeq(s, 1, 1) = <<s[1]>>
PROOF
  <1>1. Len(s) \in Nat /\ DOMAIN s = 1..Len(s) /\ s[1] \in V
    BY LenProperties
  <1>2. SubSeq(s, 1, 1) \in Seq(V) /\ Len(SubSeq(s, 1, 1)) = 1 /\ SubSeq(s, 1, 1)[1] = s[1]
    BY <1>1, SubSeqProperties
  <1>3. <<s[1]>> \in Seq(V) /\ Len(<<s[1]>>) = 1 /\ <<s[1]>>[1] = s[1]
    BY <1>1
  <1> DEFINE a == SubSeq(s, 1, 1)
             b == <<s[1]>>
  <1> HIDE DEF a, b
  <1>4. a \in Seq(V) /\ b \in Seq(V) /\ Len(a) = 1 /\ Len(b) = 1 /\ a[1] = b[1]
    BY <1>2, <1>3 DEF a, b
  <1>5. \A i \in 1..Len(a) : a[i] = b[i]
    BY <1>4
  <1>6. a = b
    BY <1>4, <1>5, SeqEqual
  <1> QED BY <1>6 DEF a, b

\* What a policy may take of a listing.
Offered(policy, candidates) == {c \in Range(candidates) : Admitted(policy, c)}
\* The wheel no other one offered goes before.
Best(policy, offered, v) == v \in offered /\ \A w \in offered : w = v \/ RankedBefore(policy, v, w)

\* SelectWheel takes the best wheel on offer, and none only when there is none.
LEMMA TakesTheBest ==
  ASSUME NEW policy \in Policies, NEW candidates \in Seq(WheelNames)
  PROVE  /\ Offered(policy, candidates) = {} => SelectWheel(policy, candidates).chosen = <<>>
         /\ Offered(policy, candidates) # {} =>
              \E v : Best(policy, Offered(policy, candidates), v) /\ SelectWheel(policy, candidates).chosen = <<v>>
PROOF
  <1> DEFINE ps == {i \in DOMAIN candidates : Admitted(policy, candidates[i])}
             pool == KeptAt(candidates, ps)
             before(j, i) == \/ RankedBefore(policy, pool[j], pool[i])
                             \/ ~RankedBefore(policy, pool[i], pool[j]) /\ j < i
             ahead(i) == {j \in DOMAIN pool : before(j, i)}
             sorted == [k \in DOMAIN pool |-> pool[CHOOSE i \in DOMAIN pool : Cardinality(ahead(i)) = k - 1]]
  <1>1. pool \in Seq(WheelNames) /\ {pool[k] : k \in DOMAIN pool} = {candidates[i] : i \in ps}
    BY KeptHolds
  <1>2. Offered(policy, candidates) = {candidates[i] : i \in ps}
    BY DEF Offered, Range
  <1>3. SelectWheel(policy, candidates).chosen = Upto(sorted, IF pool = <<>> THEN 0 ELSE 1)
    BY DEF SelectWheel, StableSort
  <1> HIDE DEF ps, pool
  <1>4. Offered(policy, candidates) = {pool[k] : k \in DOMAIN pool}
    BY <1>1, <1>2
  <1>5. Len(pool) \in Nat /\ DOMAIN pool = 1..Len(pool) /\ \A k \in 1..Len(pool) : pool[k] \in WheelNames
    BY <1>1, LenProperties
  <1>6. \A k \in DOMAIN pool : Admitted(policy, pool[k])
    BY <1>4 DEF Offered
  <1>7. CASE pool = <<>>
    <2>1. Offered(policy, candidates) = {}
      BY <1>4, <1>7
    <2>2. SelectWheel(policy, candidates).chosen = SubSeq(sorted, 1, 0)
      BY <1>3, <1>7 DEF Upto
    <2>3. SubSeq(sorted, 1, 0) = <<>>
      <3> HIDE DEF sorted
      <3> QED OBVIOUS
    <2> QED BY <2>1, <2>2, <2>3
  <1>8. CASE pool # <<>>
    <2>1. 1 \in DOMAIN pool /\ Len(pool) # 0
      BY <1>1, <1>5, <1>8, EmptySeq
    <2>2. \A i : ahead(i) \in SUBSET (DOMAIN pool) /\ IsFiniteSet(ahead(i))
      <3>1. \A i : ahead(i) \in SUBSET (1..Len(pool))
        BY <1>5
      <3>2. IsFiniteSet(1..Len(pool))
        BY <1>5, FS_Interval
      <3> HIDE DEF ahead
      <3> QED BY <1>5, <3>1, <3>2, FS_Subset
    <2>3. \E i \in DOMAIN pool : ahead(i) = {}
      <3>1. \E i \in DOMAIN pool : \A j \in DOMAIN pool : ~before(j, i)
        BY <1>1, <1>6, <1>8, SomeoneFirst
      <3> HIDE DEF before
      <3> QED BY <3>1
    <2>4. \A i : Cardinality(ahead(i)) = 0 <=> ahead(i) = {}
      <3> HIDE DEF ahead
      <3> QED BY <2>2, FS_EmptySet
    <2> DEFINE i == CHOOSE i \in DOMAIN pool : Cardinality(ahead(i)) = 1 - 1
    <2>5. i \in DOMAIN pool /\ ahead(i) = {}
      <3> HIDE DEF ahead
      <3>1. \E k \in DOMAIN pool : Cardinality(ahead(k)) = 1 - 1
        BY <2>3, <2>4
      <3>2. i \in DOMAIN pool /\ Cardinality(ahead(i)) = 1 - 1
        BY <3>1, Zenon
      <3> QED BY <2>4, <3>2
    <2>6. sorted[1] = pool[i]
      <3> HIDE DEF ahead
      <3> QED BY <2>1
    <2> HIDE DEF i
    <2>7. Best(policy, Offered(policy, candidates), pool[i])
      <3>1. ASSUME NEW j \in DOMAIN pool PROVE pool[j] = pool[i] \/ RankedBefore(policy, pool[i], pool[j])
        <4>1. ~RankedBefore(policy, pool[j], pool[i])
          BY <2>5, <3>1
        <4> QED BY <1>5, <1>6, <2>5, <3>1, <4>1, RankOrder
      <3> QED BY <1>4, <2>5, <3>1 DEF Best
    <2>8. SelectWheel(policy, candidates).chosen = <<pool[i]>>
      <3> DEFINE V == {sorted[k] : k \in DOMAIN pool}
      <3>1. sorted = [k \in 1..Len(pool) |-> sorted[k]] /\ \A k \in 1..Len(pool) : sorted[k] \in V
        <4> DEFINE at(k) == pool[CHOOSE l \in DOMAIN pool : Cardinality(ahead(l)) = k - 1]
        <4>1. sorted = [k \in DOMAIN pool |-> at(k)]
          BY Zenon
        <4> HIDE DEF at, sorted
        <4> QED BY <1>5, <4>1
      <3> HIDE DEF sorted, V
      <3>2. sorted \in [1..Len(pool) -> V]
        BY <3>1
      <3>3. sorted \in Seq(V) /\ DOMAIN sorted = 1..Len(pool)
        BY <1>5, <3>2, IsSeq
      <3>4. Len(sorted) = Len(pool) /\ sorted[1] \in V
        BY <1>5, <2>1, <3>1, <3>3, LenProperties
      <3>5. SubSeq(sorted, 1, 1) = <<sorted[1]>>
        BY <1>5, <2>1, <3>3, <3>4, OneTaken
      <3> QED BY <1>3, <1>8, <2>6, <3>5 DEF Upto
    <2>9. Offered(policy, candidates) # {}
      BY <2>7 DEF Best
    <2> QED BY <2>7, <2>8, <2>9
  <1> QED BY <1>7, <1>8

\* There is one best wheel.
LEMMA OneBest ==
  ASSUME NEW policy \in Policies, NEW candidates \in Seq(WheelNames), NEW v, NEW w,
         Best(policy, Offered(policy, candidates), v), Best(policy, Offered(policy, candidates), w)
  PROVE  v = w
PROOF
  <1>1. /\ v \in Range(candidates) /\ w \in Range(candidates)
        /\ Admitted(policy, v) /\ Admitted(policy, w)
    BY DEF Best, Offered
  <1>2. v \in WheelNames /\ w \in WheelNames
    BY <1>1, LenProperties DEF Range
  <1>3. v = w \/ (RankedBefore(policy, v, w) /\ RankedBefore(policy, w, v))
    BY DEF Best
  <1> QED BY <1>1, <1>2, <1>3, RankOrder

\* Two listings of the same wheels get the same answer.
LEMMA SameAnswer ==
  ASSUME NEW policy \in Policies, NEW c \in Seq(WheelNames), NEW d \in Seq(WheelNames), Range(c) = Range(d)
  PROVE  SelectWheel(policy, c) = SelectWheel(policy, d)
PROOF
  <1>1. Offered(policy, c) = Offered(policy, d)
    BY DEF Offered
  <1>2. SelectWheel(policy, c).chosen = SelectWheel(policy, d).chosen
    <2>1. CASE Offered(policy, c) = {}
      BY <1>1, <2>1, TakesTheBest
    <2>2. CASE Offered(policy, c) # {}
      <3>1. PICK v : Best(policy, Offered(policy, c), v) /\ SelectWheel(policy, c).chosen = <<v>>
        BY <2>2, TakesTheBest
      <3>2. PICK w : Best(policy, Offered(policy, d), w) /\ SelectWheel(policy, d).chosen = <<w>>
        BY <1>1, <2>2, TakesTheBest
      <3>3. v = w
        BY <1>1, <3>1, <3>2, OneBest
      <3> QED BY <3>1, <3>2, <3>3
    <2> QED BY <2>1, <2>2
  <1>3. SelectWheel(policy, c).rejected = SelectWheel(policy, d).rejected
    BY DEF SelectWheel
  <1>4. \A e : SelectWheel(policy, e)
                = [chosen |-> SelectWheel(policy, e).chosen, rejected |-> SelectWheel(policy, e).rejected]
    BY DEF SelectWheel
  <1> QED BY <1>2, <1>3, <1>4

\* A listing in another order lists the same wheels.
LEMMA ReorderedLists ==
  ASSUME NEW s \in Seq(WheelNames), NEW t \in Reordered(s)
  PROVE  t \in Seq(WheelNames) /\ Range(t) = Range(s)
PROOF
  <1>1. Len(s) \in Nat /\ DOMAIN s = 1..Len(s) /\ \A i \in 1..Len(s) : s[i] \in WheelNames
    BY LenProperties
  <1>2. PICK pi \in [DOMAIN s -> DOMAIN s] : /\ \A i \in DOMAIN s : \E j \in DOMAIN s : pi[j] = i
                                            /\ t = [i \in DOMAIN s |-> s[pi[i]]]
    BY DEF Reordered
  <1>3. t \in [1..Len(s) -> WheelNames]
    BY <1>1, <1>2
  <1>4. t \in Seq(WheelNames)
    BY <1>1, <1>3, IsSeq
  <1>5. Range(t) = Range(s)
    BY <1>2 DEF Range
  <1> QED BY <1>4, <1>5

-----------------------------------------------------------------------------
(* The call of the selector.                                               *)

\* A call of the package has the answer the package computes.
WheelInv == subject = "wheel" /\ in \in WheelCalls /\ (out = <<>> \/ out = <<WheelResult(in)>>)

\* An answered call of the selector.
LEMMA SelectAnswered ==
  ASSUME WheelInv, WheelOf("select")
  PROVE  in.candidates \in Seq(WheelNames) /\ out[1] = [p \in Policies |-> SelectWheel(p, in.candidates)]
PROOF
  <1>1. in \in WheelCalls /\ in.what = "select" /\ out # <<>>
    BY DEF WheelInv, WheelOf, Returned
  <1>2. in.candidates \in Pools
    BY <1>1 DEF WheelCalls
  <1>3. in.candidates \in Seq(WheelNames)
    BY <1>2, WheelNamesAssumption
  <1>4. out[1] = WheelResult(in)
    BY <1>1 DEF WheelInv
  <1>5. WheelResult(in) = [p \in Policies |-> SelectWheel(p, in.candidates)]
    BY <1>1 DEF WheelResult
  <1> QED BY <1>3, <1>4, <1>5

LEMMA OrderIgnored == WheelInv => PickIgnoresOrder
PROOF
  <1> SUFFICES ASSUME WheelInv, WheelOf("select"), NEW policy \in Policies, NEW listing \in Reordered(in.candidates)
               PROVE  SelectWheel(policy, listing) = out[1][policy]
    BY DEF PickIgnoresOrder
  <1>1. in.candidates \in Seq(WheelNames) /\ out[1][policy] = SelectWheel(policy, in.candidates)
    BY SelectAnswered
  <1>2. listing \in Seq(WheelNames) /\ Range(listing) = Range(in.candidates)
    BY <1>1, ReorderedLists
  <1> QED BY <1>1, <1>2, SameAnswer

\* The rank of a wheel, and of the wheel taken, if any, by the transition policy.
RankBoth(n) == PolicyRank("both", ClassifyABITag(WheelABI(n)))
Worth(c) == IF c = <<>> THEN 0 ELSE RankBoth(c[1])

\* The wheel taken has the highest rank on offer.
LEMMA WorthIsHighest ==
  ASSUME NEW policy \in Policies, NEW candidates \in Seq(WheelNames),
         NEW n, n = Worth(SelectWheel(policy, candidates).chosen)
  PROVE  /\ n = 0 \/ \E v \in Offered(policy, candidates) : n = RankBoth(v)
         /\ n \in Nat /\ \A w \in Offered(policy, candidates) : RankBoth(w) \in Nat /\ RankBoth(w) <= n
PROOF
  <1>0. \A w \in Offered(policy, candidates) :
          /\ RankBoth(w) \in Nat /\ RankBoth(w) = PolicyRank(policy, ClassifyABITag(WheelABI(w)))
    <2> SUFFICES ASSUME NEW w \in Offered(policy, candidates)
                 PROVE  /\ RankBoth(w) \in Nat
                        /\ RankBoth(w) = PolicyRank(policy, ClassifyABITag(WheelABI(w)))
      OBVIOUS
    <2> DEFINE class == ClassifyABITag(WheelABI(w))
    <2>1. Accepts(policy, class)
      BY DEF Offered, Admitted
    <2> HIDE DEF class
    <2>2. PolicyRank(policy, class) \in Nat /\ PolicyRank("both", class) = PolicyRank(policy, class)
      BY <2>1, RankOf, Zenon
    <2> QED BY <2>2 DEF RankBoth, class
  <1>1. CASE Offered(policy, candidates) = {}
    <2>1. n = 0
      BY <1>1, TakesTheBest DEF Worth
    <2> QED BY <1>1, <2>1
  <1>2. CASE Offered(policy, candidates) # {}
    <2>1. PICK v : Best(policy, Offered(policy, candidates), v) /\ SelectWheel(policy, candidates).chosen = <<v>>
      BY <1>2, TakesTheBest
    <2>2. <<v>> # <<>> /\ <<v>>[1] = v
      OBVIOUS
    <2>3. n = RankBoth(v) /\ v \in Offered(policy, candidates)
      BY <2>1, <2>2 DEF Worth, Best
    <2>4. ASSUME NEW w \in Offered(policy, candidates) PROVE RankBoth(w) <= RankBoth(v)
      <3>1. w = v \/ RankedBefore(policy, v, w)
        BY <2>1, <2>4 DEF Best
      <3>2. w = v \/ RankBoth(v) > RankBoth(w) \/ RankBoth(v) = RankBoth(w)
        BY <1>0, <2>3, <2>4, <3>1 DEF RankedBefore
      <3> QED BY <1>0, <2>3, <2>4, <3>2
    <2> QED BY <1>0, <2>3, <2>4
  <1> QED BY <1>1, <1>2

\* The larger of two numbers, as BestOfBoth chooses it.
LEMMA LargerOf ==
  ASSUME NEW a \in Nat, NEW b \in Nat, NEW n \in Nat, a <= n, b <= n, n <= a \/ n <= b
  PROVE  n = CHOOSE v \in {a, b} : \A u \in {a, b} : u <= v
PROOF
  <1>1. n \in {a, b} /\ \A u \in {a, b} : u <= n
    OBVIOUS
  <1>2. \A v \in {a, b} : (\A u \in {a, b} : u <= v) => v = n
    BY <1>1
  <1> QED BY <1>1, <1>2

LEMMA BothTakesBest == WheelInv => BestOfBoth
PROOF
  <1> SUFFICES ASSUME WheelInv, WheelOf("select") PROVE BestOfBoth
    BY DEF BestOfBoth
  <1> DEFINE c == in.candidates
             worth(p) == Worth(SelectWheel(p, c).chosen)
             l == worth("legacy")
             a == worth("abi2026")
             b == worth("both")
  <1>0. {"legacy", "abi2026", "both"} = Policies
    BY DEF Policies
  <1>1. c \in Seq(WheelNames) /\ \A p \in Policies : out[1][p] = SelectWheel(p, c)
    BY SelectAnswered
  <1>2. Offered("both", c) = Offered("legacy", c) \cup Offered("abi2026", c)
    <2>1. \A n : Admitted("both", n) <=> Admitted("legacy", n) \/ Admitted("abi2026", n)
      BY <1>0, RankOf, BothAccepts DEF Admitted
    <2> QED BY <2>1 DEF Offered
  <1> HIDE DEF c
  <1>3. /\ l = 0 \/ \E v \in Offered("legacy", c) : l = RankBoth(v)
        /\ l \in Nat /\ \A w \in Offered("legacy", c) : RankBoth(w) \in Nat /\ RankBoth(w) <= l
    BY <1>0, <1>1, WorthIsHighest
  <1>4. /\ a = 0 \/ \E v \in Offered("abi2026", c) : a = RankBoth(v)
        /\ a \in Nat /\ \A w \in Offered("abi2026", c) : RankBoth(w) \in Nat /\ RankBoth(w) <= a
    BY <1>0, <1>1, WorthIsHighest
  <1>5. /\ b = 0 \/ \E v \in Offered("both", c) : b = RankBoth(v)
        /\ b \in Nat /\ \A w \in Offered("both", c) : RankBoth(w) \in Nat /\ RankBoth(w) <= b
    BY <1>0, <1>1, WorthIsHighest
  <1>6. BestOfBoth <=> b = CHOOSE v \in {l, a} : \A u \in {l, a} : u <= v
    <2>1. /\ \A p \in Policies : worth(p) = IF out[1][p].chosen = <<>> THEN 0
                                    ELSE PolicyRank("both", ClassifyABITag(WheelABI(out[1][p].chosen[1])))
      BY <1>1 DEF Worth, RankBoth
    <2> DEFINE value(d) == IF d = <<>> THEN 0 ELSE PolicyRank("both", ClassifyABITag(WheelABI(d[1])))
    <2>2. \A p \in Policies : value(out[1][p].chosen) = worth(p)
      BY <2>1
    <2> HIDE DEF worth
    <2>3. {value(out[1][p].chosen) : p \in {"legacy", "abi2026"}} = {worth("legacy"), worth("abi2026")}
      BY <1>0, <2>2
    <2>4. value(out[1]["both"].chosen) = worth("both")
      BY <1>0, <2>2
    <2>5. BestOfBoth <=> LET single == {value(out[1][p].chosen) : p \in {"legacy", "abi2026"}}
                         IN value(out[1]["both"].chosen) = CHOOSE v \in single : \A u \in single : u <= v
      BY DEF BestOfBoth
    <2> HIDE DEF value
    <2> QED BY <2>3, <2>4, <2>5
  <1> HIDE DEF l, a, b
  <1>7. l <= b /\ a <= b /\ (b <= l \/ b <= a)
    BY <1>2, <1>3, <1>4, <1>5
  <1> QED BY <1>3, <1>4, <1>5, <1>6, <1>7, LargerOf

(* For every listing of wheels, however long and in whatever order, the    *)
(* abi2026 selector answers the same whatever the order of the listing,    *)
(* and under the transition policy takes the better of what the two single *)
(* policies take (Selector.Select, Policy.Rank).                           *)
THEOREM TheBestWheelIsTaken == WheelSpec => []WheelChoice
PROOF
  <1>1. WheelInit => WheelInv
    BY DEF WheelInit, Called, WheelInv
  <1>2. WheelInv /\ [WheelNext]_evalVars => WheelInv'
    <2> SUFFICES ASSUME WheelInv, [WheelNext]_evalVars PROVE WheelInv'
      OBVIOUS
    <2>1. CASE WheelNext
      <3> HIDE DEF WheelResult
      <3> QED BY <2>1 DEF WheelInv, WheelNext, Evaluate
    <2>2. CASE UNCHANGED evalVars
      BY <2>2 DEF WheelInv, evalVars
    <2> QED BY <2>1, <2>2
  <1>3. WheelInv => WheelChoice
    BY OrderIgnored, BothTakesBest DEF WheelChoice
  <1> QED BY <1>1, <1>2, <1>3, PTL DEF WheelSpec
=============================================================================
