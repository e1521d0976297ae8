---------------------------- MODULE ResolveProofs ----------------------------
(***************************************************************************)
(* Proofs about Semver, for all versions: Compare is an order, and the one *)
(* PEP 440 describes; for all texts: what Parse accepts is a version, and  *)
(* Match's ~= follows the order; and about the simple-index client, for    *)
(* every listing and any number of changes of the index.                   *)
(***************************************************************************)
EXTENDS SimpleIndex, SeqFacts, FiniteSetTheorems

Sign == {-1, 0, 1}
\* The comparison e of a first and a third thing follows from the comparisons
\* c and d of each with the second.
Follows(c, d, e) == (c = 0 => e = d) /\ (d = 0 => e = c) /\ (c = d => e = c)

-----------------------------------------------------------------------------
(* Decide: the first comparison that tells two things apart.               *)

\* Decide returns its first comparison that is not 0.
LEMMA DecideFirst ==
  ASSUME NEW n \in Nat, NEW cs \in [1..n -> Sign]
  PROVE  \/ Decide(cs) = 0 /\ \A i \in 1..n : cs[i] = 0
         \/ \E i \in 1..n : cs[i] # 0 /\ Decide(cs) = cs[i] /\ \A j \in 1..(i - 1) : cs[j] = 0
PROOF
  <1> DEFINE told == {i \in DOMAIN cs : cs[i] # 0}
             i == CHOOSE k \in told : \A j \in told : k <= j
  <1>1. DOMAIN cs = 1..n
    OBVIOUS
  <1>2. CASE told = {}
    BY <1>1, <1>2 DEF Decide
  <1>3. CASE told # {}
    <2>1. told \in SUBSET (1..n)
      BY <1>1
    <2>2. i \in told /\ \A j \in told : i <= j
      <3> HIDE DEF told
      <3> QED BY <1>3, <2>1, FirstIndex
    <2>3. Decide(cs) = cs[i]
      BY <1>3 DEF Decide
    <2> HIDE DEF i
    <2>4. i \in 1..n /\ cs[i] # 0
      BY <1>1, <2>2
    <2>5. ASSUME NEW j \in 1..(i - 1) PROVE cs[j] = 0
      <3>1. j \in 1..n /\ ~(i <= j)
        BY <2>4
      <3> QED BY <1>1, <2>2, <3>1
    <2> QED BY <2>3, <2>4, <2>5
  <1> QED BY <1>2, <1>3

LEMMA DecideSign ==
  ASSUME NEW n \in Nat, NEW cs \in [1..n -> Sign]
  PROVE  Decide(cs) \in Sign
PROOF
  <1>1. \A i \in 1..n : cs[i] \in Sign
    OBVIOUS
  <1> QED BY <1>1, DecideFirst DEF Sign

\* What decides is the first difference, whatever the lengths.
LEMMA DecideIs ==
  ASSUME NEW n \in Nat, NEW cs \in [1..n -> Sign], NEW i \in 1..n, cs[i] # 0,
         \A j \in 1..(i - 1) : cs[j] = 0
  PROVE  Decide(cs) = cs[i]
PROOF
  <1>1. PICK k \in 1..n : cs[k] # 0 /\ Decide(cs) = cs[k] /\ \A j \in 1..(k - 1) : cs[j] = 0
    BY DecideFirst
  <1>2. ~(k < i) /\ ~(i < k)
    BY <1>1
  <1>3. k = i
    BY <1>2
  <1> QED BY <1>1, <1>3

LEMMA DecideZero ==
  ASSUME NEW n \in Nat, NEW cs \in [1..n -> Sign], Decide(cs) = 0
  PROVE  \A i \in 1..n : cs[i] = 0
PROOF
  BY DecideFirst

\* Reversed comparisons reverse the decision.
LEMMA DecideReversed ==
  ASSUME NEW n \in Nat, NEW c \in [1..n -> Sign], NEW d \in [1..n -> Sign],
         \A i \in 1..n : d[i] = 0 - c[i]
  PROVE  Decide(d) = 0 - Decide(c)
PROOF
  <1>1. CASE \A i \in 1..n : c[i] = 0
    <2>1. \A i \in 1..n : d[i] = 0
      BY <1>1
    <2>2. Decide(c) = 0 /\ Decide(d) = 0
      BY <1>1, <2>1, DecideFirst
    <2> QED BY <2>2
  <1>2. ASSUME NEW k \in 1..n, c[k] # 0 PROVE Decide(d) = 0 - Decide(c)
    <2>1. PICK i \in 1..n : c[i] # 0 /\ Decide(c) = c[i] /\ \A j \in 1..(i - 1) : c[j] = 0
      BY <1>2, DecideFirst
    <2>2. c[i] \in Sign
      OBVIOUS
    <2>3. d[i] # 0
      BY <2>1, <2>2 DEF Sign
    <2>4. \A j \in 1..(i - 1) : d[j] = 0
      BY <2>1
    <2>5. Decide(d) = d[i]
      BY <2>3, <2>4, DecideIs
    <2> QED BY <2>1, <2>5
  <1> QED BY <1>1, <1>2

\* Transitivity of a lexicographic order: each component has to follow only
\* where the components before it do not tell the things apart.
LEMMA DecideFollows ==
  ASSUME NEW n \in Nat, NEW c \in [1..n -> Sign], NEW d \in [1..n -> Sign], NEW e \in [1..n -> Sign],
         \A i \in 1..n : (\A j \in 1..(i - 1) : c[j] = 0 /\ d[j] = 0) => Follows(c[i], d[i], e[i])
  PROVE  Follows(Decide(c), Decide(d), Decide(e))
PROOF
  <1>0. \A i \in 1..n : c[i] \in Sign /\ d[i] \in Sign /\ e[i] \in Sign
    OBVIOUS
  <1>1. ASSUME NEW k \in 1..n, \A j \in 1..(k - 1) : c[j] = 0 /\ d[j] = 0
        PROVE  \A j \in 1..(k - 1) : e[j] = 0
    <2> SUFFICES ASSUME NEW j \in 1..(k - 1) PROVE e[j] = 0
      OBVIOUS
    <2>1. j \in 1..n /\ \A l \in 1..(j - 1) : l \in 1..(k - 1)
      OBVIOUS
    <2>2. Follows(c[j], d[j], e[j])
      BY <1>1, <2>1
    <2> QED BY <1>1, <2>2 DEF Follows
  <1>2. CASE \A i \in 1..n : c[i] = 0 /\ d[i] = 0
    <2>1. \A i \in 1..n : Follows(c[i], d[i], e[i])
      BY <1>2
    <2>2. \A i \in 1..n : e[i] = 0
      BY <1>2, <2>1 DEF Follows
    <2>3. Decide(c) = 0 /\ Decide(d) = 0 /\ Decide(e) = 0
      BY <1>2, <2>2, DecideFirst
    <2> QED BY <2>3 DEF Follows
  <1>3. ASSUME NEW k \in 1..n, c[k] # 0 \/ d[k] # 0 PROVE Follows(Decide(c), Decide(d), Decide(e))
    <2> DEFINE T == {i \in 1..n : c[i] # 0 \/ d[i] # 0}
    <2>1. PICK i \in T : \A j \in T : i <= j
      <3>1. T \in SUBSET Nat /\ T # {}
        BY <1>3
      <3> HIDE DEF T
      <3> QED BY <3>1, LeastNat
    <2>2. i \in 1..n /\ (c[i] # 0 \/ d[i] # 0)
      OBVIOUS
    <2>3. \A j \in 1..(i - 1) : c[j] = 0 /\ d[j] = 0
      <3> SUFFICES ASSUME NEW j \in 1..(i - 1) PROVE c[j] = 0 /\ d[j] = 0
        OBVIOUS
      <3>1. j \in 1..n /\ ~(i <= j)
        BY <2>2
      <3> QED BY <2>1, <3>1
    <2> HIDE DEF T
    <2>4. Follows(c[i], d[i], e[i])
      BY <2>2, <2>3
    <2>5. \A j \in 1..(i - 1) : e[j] = 0
      BY <1>1, <2>2, <2>3
    <2>6. CASE c[i] # 0 /\ d[i] # 0
      <3>1. Decide(c) = c[i] /\ Decide(d) = d[i]
        BY <2>2, <2>3, <2>6, DecideIs
      <3>2. CASE c[i] = d[i]
        <4>1. e[i] = c[i]
          BY <2>4, <3>2 DEF Follows
        <4>2. Decide(e) = e[i]
          BY <2>2, <2>5, <2>6, <4>1, DecideIs
        <4> QED BY <3>1, <3>2, <4>1, <4>2 DEF Follows
      <3>3. CASE c[i] # d[i]
        BY <2>6, <3>1, <3>3 DEF Follows
      <3> QED BY <3>2, <3>3
    <2>7. CASE c[i] # 0 /\ d[i] = 0
      <3>1. Decide(c) = c[i]
        BY <2>2, <2>3, <2>7, DecideIs
      <3>2. e[i] = c[i]
        BY <2>4, <2>7 DEF Follows
      <3>3. Decide(e) = e[i]
        BY <2>2, <2>5, <2>7, <3>2, DecideIs
      <3> QED BY <2>7, <3>1, <3>2, <3>3 DEF Follows
    <2>8. CASE c[i] = 0 /\ d[i] # 0
      <3>1. Decide(d) = d[i]
        BY <2>2, <2>3, <2>8, DecideIs
      <3>2. e[i] = d[i]
        BY <2>4, <2>8 DEF Follows
      <3>3. Decide(e) = e[i]
        BY <2>2, <2>5, <2>8, <3>2, DecideIs
      <3> QED BY <2>8, <3>1, <3>2, <3>3 DEF Follows
    <2> QED BY <2>2, <2>6, <2>7, <2>8
  <1> QED BY <1>2, <1>3

\* Only the comparisons that tell the things apart count.
LEMMA DecideSame ==
  ASSUME NEW n \in Nat, NEW c, NEW d, {i \in DOMAIN c : c[i] # 0} \subseteq 1..n,
         {i \in DOMAIN c : c[i] # 0} = {i \in DOMAIN d : d[i] # 0},
         \A i \in DOMAIN c : c[i] # 0 => d[i] = c[i]
  PROVE  Decide(d) = Decide(c)
PROOF
  <1> DEFINE told == {i \in DOMAIN c : c[i] # 0}
             k == CHOOSE i \in told : \A j \in told : i <= j
  <1>1. CASE told = {}
    BY <1>1 DEF Decide
  <1>2. CASE told # {}
    <2>1. told \in SUBSET (1..n)
      OBVIOUS
    <2>2. k \in told
      <3> HIDE DEF told
      <3> QED BY <1>2, <2>1, FirstIndex
    <2>3. Decide(c) = c[k] /\ Decide(d) = d[k]
      BY <1>2 DEF Decide
    <2> QED BY <2>2, <2>3
  <1> QED BY <1>1, <1>2

\* The pairs a key of two components compares with.
LEMMA DecidePair ==
  ASSUME NEW a \in Sign, NEW b \in Sign
  PROVE  Decide(<<a, b>>) = (IF a # 0 THEN a ELSE b)
PROOF
  <1> DEFINE c == <<a, b>>
  <1>1. c \in [1..2 -> Sign] /\ c[1] = a /\ c[2] = b
    OBVIOUS
  <1>2. 2 \in Nat /\ 1 \in 1..2 /\ 2 \in 1..2
    OBVIOUS
  <1> HIDE DEF c
  <1>3. CASE a # 0
    <2>1. \A j \in 1..(1 - 1) : c[j] = 0
      OBVIOUS
    <2>2. Decide(c) = c[1]
      BY <1>1, <1>2, <1>3, <2>1, DecideIs
    <2> QED BY <1>1, <1>3, <2>2 DEF c
  <1>4. CASE a = 0 /\ b # 0
    <2>1. \A j \in 1..(2 - 1) : c[j] = 0
      BY <1>1, <1>4
    <2>2. Decide(c) = c[2]
      BY <1>1, <1>2, <1>4, <2>1, DecideIs
    <2> QED BY <1>1, <1>4, <2>2 DEF c
  <1>5. CASE a = 0 /\ b = 0
    <2>1. \A i \in 1..2 : c[i] = 0
      BY <1>1, <1>5
    <2>2. Decide(c) = 0
      BY <1>1, <1>2, <2>1, DecideFirst
    <2> QED BY <1>5, <2>2 DEF c
  <1> QED BY <1>3, <1>4, <1>5

\* The last of a set of indices, as Trim chooses it.
LEMMA LastIndex ==
  ASSUME NEW n \in Nat, NEW A \in SUBSET (1..n), A # {}
  PROVE  LET k == CHOOSE i \in A : \A j \in A : j <= i
         IN k \in A /\ \A j \in A : j <= k
PROOF
  <1> DEFINE M == {m \in Nat : n - m \in A}
  <1>1. PICK i \in A : TRUE
    OBVIOUS
  <1>2. M \in SUBSET Nat /\ n - i \in M
    BY <1>1
  <1>3. PICK m \in M : \A o \in M : m <= o
    <2> HIDE DEF M
    <2> QED BY <1>2, LeastNat
  <1>4. n - m \in A
    BY <1>3
  <1>5. ASSUME NEW j \in A PROVE j <= n - m
    <2>1. j \in 1..n /\ n - j \in Nat /\ n - (n - j) = j /\ m \in Nat
      OBVIOUS
    <2>2. m <= n - j
      BY <1>3, <2>1
    <2> QED BY <2>1, <2>2
  <1> QED BY <1>4, <1>5

-----------------------------------------------------------------------------
(* The comparisons Compare makes.                                          *)

\* The laws of a comparison, of three things with each other.
Laws(ab, ba, bc, ac) ==
  ab \in Sign /\ ba \in Sign /\ bc \in Sign /\ ac \in Sign /\ ba = 0 - ab /\ Follows(ab, bc, ac)

LEMMA CmpIntLaws ==
  ASSUME NEW a \in Int, NEW b \in Int, NEW c \in Int
  PROVE  /\ Laws(CmpInt(a, b), CmpInt(b, a), CmpInt(b, c), CmpInt(a, c))
         /\ CmpInt(a, b) = 0 <=> a = b
PROOF
  BY DEF Laws, Follows, CmpInt, Sign

\* Two components, the second telling only where the first does not.
LEMMA PairLaws ==
  ASSUME NEW a1, NEW b1, NEW c1, NEW d1, Laws(a1, b1, c1, d1),
         NEW a2 \in Sign, NEW b2 \in Sign, NEW c2 \in Sign, NEW d2 \in Sign,
         b2 = 0 - a2, a1 = 0 /\ c1 = 0 => Follows(a2, c2, d2)
  PROVE  Laws(Decide(<<a1, a2>>), Decide(<<b1, b2>>), Decide(<<c1, c2>>), Decide(<<d1, d2>>))
PROOF
  <1>1. a1 \in Sign /\ b1 \in Sign /\ c1 \in Sign /\ d1 \in Sign /\ b1 = 0 - a1 /\ Follows(a1, c1, d1)
    BY DEF Laws
  <1>2. /\ Decide(<<a1, a2>>) = (IF a1 # 0 THEN a1 ELSE a2) /\ Decide(<<b1, b2>>) = (IF b1 # 0 THEN b1 ELSE b2)
        /\ Decide(<<c1, c2>>) = (IF c1 # 0 THEN c1 ELSE c2) /\ Decide(<<d1, d2>>) = (IF d1 # 0 THEN d1 ELSE d2)
    BY <1>1, DecidePair
  <1> QED BY <1>1, <1>2 DEF Laws, Follows, Sign

\* Vectors compared component by component.
Vectors(x, y, n) == Decide([i \in 1..n |-> CmpInt(x[i], y[i])])
LEMMA VectorLaws ==
  ASSUME NEW n \in Nat, NEW x \in [1..n -> Int], NEW y \in [1..n -> Int], NEW z \in [1..n -> Int]
  PROVE  /\ Laws(Vectors(x, y, n), Vectors(y, x, n), Vectors(y, z, n), Vectors(x, z, n))
         /\ Vectors(x, y, n) = 0 => x = y
PROOF
  <1> DEFINE ab == [i \in 1..n |-> CmpInt(x[i], y[i])]
             ba == [i \in 1..n |-> CmpInt(y[i], x[i])]
             bc == [i \in 1..n |-> CmpInt(y[i], z[i])]
             ac == [i \in 1..n |-> CmpInt(x[i], z[i])]
  <1>1. \A i \in 1..n : x[i] \in Int /\ y[i] \in Int /\ z[i] \in Int
    OBVIOUS
  <1>2. \A i \in 1..n : /\ Laws(ab[i], ba[i], bc[i], ac[i])
                        /\ ab[i] = 0 => x[i] = y[i]
    BY <1>1, CmpIntLaws
  <1>3. \A i \in 1..n : /\ CmpInt(x[i], y[i]) \in Sign /\ CmpInt(y[i], x[i]) \in Sign
                        /\ CmpInt(y[i], z[i]) \in Sign /\ CmpInt(x[i], z[i]) \in Sign
    BY <1>1, CmpIntLaws DEF Laws
  <1>4. ab \in [1..n -> Sign] /\ ba \in [1..n -> Sign] /\ bc \in [1..n -> Sign] /\ ac \in [1..n -> Sign]
    BY <1>3
  <1>5. \A i \in 1..n : ba[i] = 0 - ab[i] /\ Follows(ab[i], bc[i], ac[i])
    BY <1>2 DEF Laws
  <1> HIDE DEF ab, ba, bc, ac
  <1>6. Decide(ba) = 0 - Decide(ab)
    BY <1>4, <1>5, DecideReversed
  <1>7. Follows(Decide(ab), Decide(bc), Decide(ac))
    BY <1>4, <1>5, DecideFollows
  <1>8. Decide(ab) \in Sign /\ Decide(ba) \in Sign /\ Decide(bc) \in Sign /\ Decide(ac) \in Sign
    BY <1>4, DecideSign
  <1>9. Decide(ab) = 0 => x = y
    <2> SUFFICES ASSUME Decide(ab) = 0 PROVE x = y
      OBVIOUS
    <2>1. \A i \in 1..n : ab[i] = 0
      BY <1>4, DecideZero
    <2> QED BY <1>2, <2>1
  <1>10. Laws(Decide(ab), Decide(ba), Decide(bc), Decide(ac))
    BY <1>6, <1>7, <1>8 DEF Laws
  <1> QED BY <1>9, <1>10 DEF ab, ba, bc, ac, Vectors

\* The components of a sequence, in the order K of its values, a missing one
\* standing for e.
Vector(a, n, e, K) == [i \in 1..n |-> K[At(a, i, e)]]
Padded(a, b, e, K) == Decide([i \in 1..Longest(a, b) |-> CmpInt(K[At(a, i, e)], K[At(b, i, e)])])

\* K orders the members of S, e among them, and tells them apart.
Key(K, S, e) == K \in [S -> Int] /\ e \in S /\ \A x \in S, y \in S : K[x] = K[y] => x = y
Fits(a, S, n) == n \in Nat /\ a \in Seq(S) /\ Len(a) <= n
IsVector(x, n) == x \in [1..n -> Int]

\* Sequences of any lengths, compared up to a common length.
LEMMA PaddedDecide ==
  ASSUME NEW S, NEW K, NEW e, NEW a, NEW b, NEW n,
         Key(K, S, e), Fits(a, S, n), Fits(b, S, n)
  PROVE  /\ IsVector(Vector(a, n, e, K), n)
         /\ Padded(a, b, e, K) = Vectors(Vector(a, n, e, K), Vector(b, n, e, K), n)
PROOF
  <1> DEFINE m == Longest(a, b)
             c == [i \in 1..m |-> CmpInt(K[At(a, i, e)], K[At(b, i, e)])]
             d == [i \in 1..n |-> CmpInt(Vector(a, n, e, K)[i], Vector(b, n, e, K)[i])]
  <1>0. K \in [S -> Int] /\ e \in S /\ a \in Seq(S) /\ b \in Seq(S) /\ n \in Nat /\ Len(a) <= n /\ Len(b) <= n
    BY DEF Key, Fits
  <1>1. Len(a) \in Nat /\ Len(b) \in Nat /\ DOMAIN a = 1..Len(a) /\ DOMAIN b = 1..Len(b)
    BY <1>0, LenProperties
  <1>2. m \in Nat /\ m <= n /\ Len(a) <= m /\ Len(b) <= m
    BY <1>0, <1>1 DEF Longest
  <1>3. \A i \in 1..n : At(a, i, e) \in S /\ At(b, i, e) \in S
    BY <1>0, <1>1 DEF At
  <1>4. \A i \in 1..m : i \in 1..n
    BY <1>0, <1>2
  <1> HIDE DEF m
  <1>5. Vector(a, n, e, K) \in [1..n -> Int]
    BY <1>0, <1>3 DEF Vector
  <1>6. \A i \in 1..n : d[i] = CmpInt(K[At(a, i, e)], K[At(b, i, e)])
    BY DEF Vector
  <1>7. \A i \in 1..m : d[i] = c[i]
    BY <1>4, <1>6
  <1>8. \A i \in (m + 1)..n : d[i] = 0
    <2> SUFFICES ASSUME NEW i \in (m + 1)..n PROVE d[i] = 0
      OBVIOUS
    <2>1. i \in 1..n /\ ~(i <= Len(a)) /\ ~(i <= Len(b))
      BY <1>0, <1>1, <1>2
    <2>2. At(a, i, e) = e /\ At(b, i, e) = e
      BY <2>1 DEF At
    <2>3. d[i] = CmpInt(K[e], K[e]) /\ K[e] \in Int
      BY <1>0, <1>6, <2>1, <2>2
    <2> QED BY <2>3 DEF CmpInt
  <1>9. DOMAIN c = 1..m /\ DOMAIN d = 1..n
    OBVIOUS
  <1> HIDE DEF c, d
  <1>10. Decide(d) = Decide(c)
    <2>1. \A i \in 1..n : i \in 1..m \/ i \in (m + 1)..n
      BY <1>0, <1>2
    <2>2. \A i : i \in DOMAIN c /\ c[i] # 0 <=> i \in DOMAIN d /\ d[i] # 0
      BY <1>4, <1>7, <1>8, <1>9, <2>1
    <2>3. {i \in DOMAIN c : c[i] # 0} = {i \in DOMAIN d : d[i] # 0}
      BY <2>2
    <2>4. {i \in DOMAIN c : c[i] # 0} \subseteq 1..n /\ \A i \in DOMAIN c : c[i] # 0 => d[i] = c[i]
      BY <1>4, <1>7, <1>9
    <2> QED BY <1>0, <2>3, <2>4, DecideSame
  <1> QED BY <1>5, <1>10 DEF c, d, m, Padded, Vectors, IsVector

\* Sequences of any lengths are ordered, and those that compare equal differ in
\* trailing e at most.
LEMMA PaddedLaws ==
  ASSUME NEW S, NEW K, NEW e, NEW a, NEW b, NEW c,
         Key(K, S, e), a \in Seq(S), b \in Seq(S), c \in Seq(S)
  PROVE  /\ Laws(Padded(a, b, e, K), Padded(b, a, e, K), Padded(b, c, e, K), Padded(a, c, e, K))
         /\ Padded(a, b, e, K) = 0 => Trim(a, e) = Trim(b, e)
PROOF
  <1> DEFINE D(u, w) == Padded(u, w, e, K)
             n == Len(a) + Len(b) + Len(c)
             x == Vector(a, n, e, K)
             y == Vector(b, n, e, K)
             z == Vector(c, n, e, K)
             V(u, w) == Vectors(u, w, n)
  <1>1. Len(a) \in Nat /\ Len(b) \in Nat /\ Len(c) \in Nat
    BY LenProperties
  <1>2. n \in Nat /\ Len(a) <= n /\ Len(b) <= n /\ Len(c) <= n
    BY <1>1
  <1> HIDE DEF n
  <1>6. Fits(a, S, n) /\ Fits(b, S, n) /\ Fits(c, S, n)
    BY <1>2 DEF Fits
  <1>7. ASSUME NEW u, NEW w, Fits(u, S, n), Fits(w, S, n)
         PROVE  IsVector(Vector(u, n, e, K), n) /\ D(u, w) = V(Vector(u, n, e, K), Vector(w, n, e, K))
    BY <1>7, PaddedDecide
  <1> HIDE DEF D, V
  <1>3. /\ x \in [1..n -> Int] /\ y \in [1..n -> Int] /\ z \in [1..n -> Int]
        /\ D(a, b) = V(x, y) /\ D(b, a) = V(y, x)
        /\ D(b, c) = V(y, z) /\ D(a, c) = V(x, z)
    BY <1>6, <1>7 DEF IsVector
  <1> USE DEF D, V
  <1>4. Laws(V(x, y), V(y, x), V(y, z), V(x, z))
        /\ (V(x, y) = 0 => x = y)
    BY <1>2, <1>3, VectorLaws
  <1>5. ASSUME x = y PROVE Trim(a, e) = Trim(b, e)
    <2>1. DOMAIN a = 1..Len(a) /\ DOMAIN b = 1..Len(b)
      BY LenProperties
    <2>2. \A i \in 1..n : At(a, i, e) \in S /\ At(b, i, e) \in S
      BY <1>1, <2>1 DEF At, Key
    <2>3. \A i \in 1..n : At(a, i, e) = At(b, i, e)
      <3> SUFFICES ASSUME NEW i \in 1..n PROVE At(a, i, e) = At(b, i, e)
        OBVIOUS
      <3>1. x[i] = K[At(a, i, e)] /\ y[i] = K[At(b, i, e)]
        BY DEF Vector
      <3> QED BY <1>5, <2>2, <3>1 DEF Key
    <2> DEFINE A == {i \in DOMAIN a : a[i] # e}
               B == {i \in DOMAIN b : b[i] # e}
               k == CHOOSE i \in A : \A j \in A : j <= i
    <2>4. \A i : i \in A <=> i \in 1..n /\ At(a, i, e) # e
      BY <1>1, <1>2, <2>1 DEF At
    <2>5. \A i : i \in B <=> i \in 1..n /\ At(b, i, e) # e
      BY <1>1, <1>2, <2>1 DEF At
    <2>6. A = B
      BY <2>3, <2>4, <2>5
    <2>7. CASE A = {}
      BY <2>6, <2>7 DEF Trim
    <2>8. CASE A # {}
      <3>1. Trim(a, e) = SubSeq(a, 1, k) /\ Trim(b, e) = SubSeq(b, 1, k)
        BY <2>6, <2>8 DEF Trim, Upto
      <3>2. k \in A
        <4>1. A \in SUBSET (1..n)
          BY <2>4
        <4> HIDE DEF A
        <4> QED BY <1>2, <2>8, <4>1, LastIndex
      <3>3. k \in 1..Len(a) /\ k \in 1..Len(b)
        BY <2>1, <2>6, <3>2
      <3> HIDE DEF k
      <3>4. \A i \in 1..k : i \in 1..n /\ a[i] = At(a, i, e) /\ b[i] = At(b, i, e)
        BY <1>1, <1>2, <3>3 DEF At
      <3>5. \A i \in 1..k : a[i] = b[i]
        BY <2>3, <3>4
      <3>6. SubSeq(a, 1, k) = [i \in 1..k |-> a[i]] /\ SubSeq(b, 1, k) = [i \in 1..k |-> b[i]]
        BY <1>1, <3>3
      <3> QED BY <3>1, <3>5, <3>6
    <2> QED BY <2>7, <2>8
  <1> QED BY <1>3, <1>4, <1>5

\* Releases: components in their order as numbers, a missing one being 0.
Component == Nat
NatKey == [k \in Component |-> k]
LEMMA ReleaseLaws ==
  ASSUME NEW a \in Seq(Component), NEW b \in Seq(Component), NEW c \in Seq(Component)
  PROVE  /\ Laws(CmpRelease(a, b), CmpRelease(b, a), CmpRelease(b, c), CmpRelease(a, c))
         /\ CmpRelease(a, b) = 0 => Trim(a, 0) = Trim(b, 0)
PROOF
  <1>1. ASSUME NEW u \in Seq(Component), NEW w \in Seq(Component) PROVE CmpRelease(u, w) = Padded(u, w, 0, NatKey)
    <2>1. Len(u) \in Nat /\ Len(w) \in Nat /\ DOMAIN u = 1..Len(u) /\ DOMAIN w = 1..Len(w)
      BY LenProperties
    <2>2. \A i \in 1..Longest(u, w) : At(u, i, 0) \in Component /\ At(w, i, 0) \in Component
      BY <2>1 DEF At, Longest, Component
    <2>3. \A i \in 1..Longest(u, w) : NatKey[At(u, i, 0)] = At(u, i, 0) /\ NatKey[At(w, i, 0)] = At(w, i, 0)
      BY <2>2 DEF NatKey
    <2> QED BY <2>3 DEF CmpRelease, Padded
  <1>2. Key(NatKey, Component, 0)
    BY DEF NatKey, Key, Component
  <1>3. /\ Laws(Padded(a, b, 0, NatKey), Padded(b, a, 0, NatKey), Padded(b, c, 0, NatKey), Padded(a, c, 0, NatKey))
        /\ Padded(a, b, 0, NatKey) = 0 => Trim(a, 0) = Trim(b, 0)
    BY <1>2, PaddedLaws
  <1>4. /\ CmpRelease(a, b) = Padded(a, b, 0, NatKey) /\ CmpRelease(b, a) = Padded(b, a, 0, NatKey)
        /\ CmpRelease(b, c) = Padded(b, c, 0, NatKey) /\ CmpRelease(a, c) = Padded(a, c, 0, NatKey)
    BY <1>1
  <1> QED BY <1>3, <1>4

\* Local labels: words in their order, then numbers in theirs.
Segment == DOMAIN Rank \cup DOMAIN Atoi
SegmentKey == [t \in Segment |-> IF t \in DOMAIN Atoi THEN 10 + Atoi[t] ELSE Rank[t]]
LEMMA SegmentLaws ==
  /\ Key(SegmentKey, Segment, Blank) /\ Blank \in Segment
  /\ \A x, y \in Segment : CmpSegment(x, y) = CmpInt(SegmentKey[x], SegmentKey[y])
PROOF
  <1>0. Blank \notin {"a", "b", "rc", "0", "1", "2", "3"}
    BY Zenon DEF Blank
  <1>1. /\ DOMAIN Rank = {Blank, "a", "b", "rc"} /\ DOMAIN Atoi = {"0", "1", "2", "3"}
        /\ Segment = {Blank, "a", "b", "rc", "0", "1", "2", "3"}
    BY DEF Rank, Atoi, Segment
  <1>2. /\ Rank[Blank] = 0 /\ Rank["a"] = 1 /\ Rank["b"] = 2 /\ Rank["rc"] = 3
        /\ Atoi["0"] = 0 /\ Atoi["1"] = 1 /\ Atoi["2"] = 2 /\ Atoi["3"] = 3
    BY <1>0 DEF Rank, Atoi
  <1>3. /\ SegmentKey[Blank] = 0 /\ SegmentKey["a"] = 1 /\ SegmentKey["b"] = 2 /\ SegmentKey["rc"] = 3
        /\ SegmentKey["0"] = 10 /\ SegmentKey["1"] = 11 /\ SegmentKey["2"] = 12 /\ SegmentKey["3"] = 13
    BY <1>0, <1>1, <1>2 DEF SegmentKey
  <1>4. \A t \in Segment : SegmentKey[t] \in Int
    BY <1>1, <1>3
  <1>5. SegmentKey \in [Segment -> Int]
    BY <1>4 DEF SegmentKey
  <1>6. \A x \in Segment, y \in Segment : SegmentKey[x] = SegmentKey[y] => x = y
    BY <1>1, <1>3
  <1>7. ASSUME NEW x \in Segment, NEW y \in Segment
        PROVE  CmpSegment(x, y) = CmpInt(SegmentKey[x], SegmentKey[y])
    <2>1. \A t \in DOMAIN Atoi : Atoi[t] \in 0..3 /\ SegmentKey[t] = 10 + Atoi[t]
      BY <1>1, <1>2, <1>3
    <2>2. \A t \in Segment : t \notin DOMAIN Atoi => Rank[t] \in 0..3 /\ SegmentKey[t] = Rank[t]
      BY <1>1, <1>2, <1>3
    <2>3. CASE x \in DOMAIN Atoi /\ y \in DOMAIN Atoi
      BY <2>1, <2>3 DEF CmpSegment, CmpInt
    <2>4. CASE x \in DOMAIN Atoi /\ y \notin DOMAIN Atoi
      BY <2>1, <2>2, <2>4 DEF CmpSegment, CmpInt
    <2>5. CASE x \notin DOMAIN Atoi /\ y \in DOMAIN Atoi
      BY <2>1, <2>2, <2>5 DEF CmpSegment, CmpInt
    <2>6. CASE x \notin DOMAIN Atoi /\ y \notin DOMAIN Atoi
      BY <2>1, <2>2, <2>6 DEF CmpSegment, CmpInt
    <2> QED BY <2>3, <2>4, <2>5, <2>6
  <1> QED BY <1>1, <1>5, <1>6, <1>7 DEF Key

LEMMA LocalLaws ==
  ASSUME NEW a \in Seq(Segment), NEW b \in Seq(Segment), NEW c \in Seq(Segment)
  PROVE  /\ Laws(CmpLocal(a, b), CmpLocal(b, a), CmpLocal(b, c), CmpLocal(a, c))
         /\ CmpLocal(a, b) = 0 => Trim(a, Blank) = Trim(b, Blank)
PROOF
  <1> DEFINE P(u, w) == Padded(u, w, Blank, SegmentKey)
  <1>1. ASSUME NEW u \in Seq(Segment), NEW w \in Seq(Segment), u # <<>>, w # <<>>
        PROVE  CmpLocal(u, w) = P(u, w)
    <2>1. Len(u) \in Nat /\ Len(w) \in Nat /\ DOMAIN u = 1..Len(u) /\ DOMAIN w = 1..Len(w)
      BY LenProperties
    <2>2. \A i \in 1..Longest(u, w) : At(u, i, Blank) \in Segment /\ At(w, i, Blank) \in Segment
      BY <2>1, SegmentLaws DEF At, Longest
    <2>3. \A i \in 1..Longest(u, w) : CmpSegment(At(u, i, Blank), At(w, i, Blank))
                                        = CmpInt(SegmentKey[At(u, i, Blank)], SegmentKey[At(w, i, Blank)])
      BY <2>2, SegmentLaws
    <2>4. CmpLocal(u, w) = Decide([i \in 1..Longest(u, w) |-> CmpSegment(At(u, i, Blank), At(w, i, Blank))])
      BY <1>1 DEF CmpLocal
    <2> QED BY <2>3, <2>4 DEF Padded
  <1>2. Laws(P(a, b), P(b, a), P(b, c), P(a, c)) /\ (P(a, b) = 0 => Trim(a, Blank) = Trim(b, Blank))
    BY SegmentLaws, PaddedLaws
  <1> HIDE DEF P
  <1>3. ASSUME NEW u \in Seq(Segment), NEW w \in Seq(Segment)
        PROVE  /\ u = <<>> /\ w = <<>> => CmpLocal(u, w) = 0
               /\ u = <<>> /\ w # <<>> => CmpLocal(u, w) = 0 - 1
               /\ u # <<>> /\ w = <<>> => CmpLocal(u, w) = 1
    BY DEF CmpLocal
  <1>4. CASE a # <<>> /\ b # <<>> /\ c # <<>>
    <2>1. CmpLocal(a, b) = P(a, b) /\ CmpLocal(b, a) = P(b, a)
          /\ CmpLocal(b, c) = P(b, c) /\ CmpLocal(a, c) = P(a, c)
      BY <1>1, <1>4
    <2> QED BY <1>2, <2>1
  <1>5. CASE a # <<>> /\ b # <<>> /\ c = <<>>
    <2>1. CmpLocal(a, b) = P(a, b) /\ CmpLocal(b, a) = P(b, a)
          /\ CmpLocal(b, c) = 1 /\ CmpLocal(a, c) = 1
      BY <1>1, <1>3, <1>5
    <2> QED BY <1>2, <2>1 DEF Laws, Follows, Sign
  <1>6. CASE a # <<>> /\ b = <<>>
    <2>1. /\ CmpLocal(a, b) = 1 /\ CmpLocal(b, a) = 0 - 1
          /\ c = <<>> => CmpLocal(b, c) = 0 /\ CmpLocal(a, c) = 1
          /\ c # <<>> => CmpLocal(b, c) = 0 - 1 /\ CmpLocal(a, c) = P(a, c)
      BY <1>1, <1>3, <1>6
    <2>2. P(a, c) \in Sign
      BY <1>2 DEF Laws
    <2> QED BY <2>1, <2>2 DEF Laws, Follows, Sign
  <1>7. CASE a = <<>> /\ b # <<>>
    <2>1. /\ CmpLocal(a, b) = 0 - 1 /\ CmpLocal(b, a) = 1
          /\ c = <<>> => CmpLocal(b, c) = 1 /\ CmpLocal(a, c) = 0
          /\ c # <<>> => CmpLocal(b, c) = P(b, c) /\ CmpLocal(a, c) = 0 - 1
      BY <1>1, <1>3, <1>7
    <2>2. P(b, c) \in Sign
      BY <1>2 DEF Laws
    <2> QED BY <2>1, <2>2 DEF Laws, Follows, Sign
  <1>8. CASE a = <<>> /\ b = <<>>
    <2>1. /\ CmpLocal(a, b) = 0 /\ CmpLocal(b, a) = 0
          /\ c = <<>> => CmpLocal(b, c) = 0 /\ CmpLocal(a, c) = 0
          /\ c # <<>> => CmpLocal(b, c) = 0 - 1 /\ CmpLocal(a, c) = 0 - 1
      BY <1>3, <1>8
    <2> QED BY <1>8, <2>1 DEF Laws, Follows, Sign
  <1> QED BY <1>4, <1>5, <1>6, <1>7, <1>8

\* Pre-releases: a dev release of the final version, the kinds, everything else.
LEMMA PreKeyOf ==
  ASSUME NEW v, IsVersion(v)
  PROVE  /\ PreKey(v) \in 0..4 /\ v.preNum \in Nat
         /\ PreKey(v) \in {0, 4} => v.preKind = Blank /\ v.preNum = 0
         /\ PreKey(v) \notin {0, 4} => v.preKind # Blank
         /\ PreKey(v) = 1 => v.preKind = "a"
         /\ PreKey(v) = 2 => v.preKind = "b"
         /\ PreKey(v) = 3 => v.preKind = "rc"
PROOF
  <1>1. v.preKind \in {Blank, "a", "b", "rc"} /\ v.preNum \in Nat /\ (v.preKind = Blank => v.preNum = 0)
    BY DEF IsVersion, Rank
  <1>2. Rank["a"] = 1 /\ Rank["b"] = 2 /\ Rank["rc"] = 3
    <2>1. Blank \notin {"a", "b", "rc"}
      BY Zenon DEF Blank
    <2> QED BY <2>1 DEF Rank
  <1>3. CASE v.preKind = Blank
    BY <1>1, <1>3 DEF PreKey
  <1>4. CASE v.preKind # Blank
    <2>1. PreKey(v) = Rank[v.preKind]
      BY <1>4 DEF PreKey
    <2> QED BY <1>1, <1>2, <1>4, <2>1
  <1> QED BY <1>3, <1>4

LEMMA PreLaws ==
  ASSUME NEW v, NEW w, NEW x, IsVersion(v), IsVersion(w), IsVersion(x)
  PROVE  /\ Laws(CmpPreKey(v, w), CmpPreKey(w, v), CmpPreKey(w, x), CmpPreKey(v, x))
         /\ CmpPreKey(v, w) = 0 => v.preKind = w.preKind /\ v.preNum = w.preNum
PROOF
  <1> DEFINE N(p, q) == IF p.preKind # Blank /\ q.preKind # Blank THEN CmpInt(p.preNum, q.preNum) ELSE 0
             K(p, q) == CmpInt(PreKey(p), PreKey(q))
  <1>1. PreKey(v) \in Int /\ PreKey(w) \in Int /\ PreKey(x) \in Int
    BY PreKeyOf
  <1>2. v.preNum \in Int /\ w.preNum \in Int /\ x.preNum \in Int
    BY PreKeyOf
  <1>3. Laws(K(v, w), K(w, v), K(w, x), K(v, x)) /\ (K(v, w) = 0 <=> PreKey(v) = PreKey(w))
        /\ (K(w, x) = 0 <=> PreKey(w) = PreKey(x))
    BY <1>1, CmpIntLaws
  <1>4. /\ Laws(CmpInt(v.preNum, w.preNum), CmpInt(w.preNum, v.preNum),
                 CmpInt(w.preNum, x.preNum), CmpInt(v.preNum, x.preNum))
        /\ CmpInt(v.preNum, w.preNum) = 0 <=> v.preNum = w.preNum
    BY <1>2, CmpIntLaws
  <1>5. N(v, w) \in Sign /\ N(w, v) \in Sign /\ N(w, x) \in Sign /\ N(v, x) \in Sign /\ N(w, v) = 0 - N(v, w)
    BY <1>4 DEF Laws, Sign
  <1>6. ASSUME PreKey(v) = PreKey(w)
        PROVE  v.preKind = w.preKind
    <2>1. CASE PreKey(v) \in {0, 4}
      BY <1>6, <2>1, PreKeyOf
    <2>2. CASE PreKey(v) \notin {0, 4}
      <3>1. PreKey(v) \in {1, 2, 3}
        BY <2>2, PreKeyOf
      <3> QED BY <1>6, <3>1, PreKeyOf
    <2> QED BY <2>1, <2>2
  <1>7. ASSUME PreKey(v) = PreKey(w), PreKey(w) = PreKey(x)
        PROVE  Follows(N(v, w), N(w, x), N(v, x))
    <2>1. CASE PreKey(v) \in {0, 4}
      <3>1. v.preKind = Blank /\ w.preKind = Blank
        BY <1>7, <2>1, PreKeyOf
      <3> QED BY <3>1 DEF Follows
    <2>2. CASE PreKey(v) \notin {0, 4}
      <3>1. v.preKind # Blank /\ w.preKind # Blank /\ x.preKind # Blank
        BY <1>7, <2>2, PreKeyOf
      <3> QED BY <1>4, <3>1 DEF Laws
    <2> QED BY <2>1, <2>2
  <1>8. CmpPreKey(v, w) = Decide(<<K(v, w), N(v, w)>>) /\ CmpPreKey(w, v) = Decide(<<K(w, v), N(w, v)>>)
        /\ CmpPreKey(w, x) = Decide(<<K(w, x), N(w, x)>>) /\ CmpPreKey(v, x) = Decide(<<K(v, x), N(v, x)>>)
    BY DEF CmpPreKey
  <1>9. ASSUME CmpPreKey(v, w) = 0 PROVE v.preKind = w.preKind /\ v.preNum = w.preNum
    <2>1. K(v, w) = 0 /\ N(v, w) = 0
      <3>1. K(v, w) \in Sign
        BY <1>3 DEF Laws
      <3> HIDE DEF K, N
      <3> QED BY <1>5, <1>8, <1>9, <3>1, DecidePair
    <2>2. v.preKind = w.preKind
      BY <1>3, <1>6, <2>1
    <2>3. CASE v.preKind = Blank
      BY <2>2, <2>3 DEF IsVersion
    <2>4. CASE v.preKind # Blank
      BY <1>4, <2>1, <2>2, <2>4
    <2> QED BY <2>2, <2>3, <2>4
  <1> HIDE DEF K, N
  <1>10. K(v, w) = 0 /\ K(w, x) = 0 => Follows(N(v, w), N(w, x), N(v, x))
    BY <1>3, <1>7
  <1>11. Laws(Decide(<<K(v, w), N(v, w)>>), Decide(<<K(w, v), N(w, v)>>),
              Decide(<<K(w, x), N(w, x)>>), Decide(<<K(v, x), N(v, x)>>))
    BY <1>3, <1>5, <1>10, PairLaws
  <1> QED BY <1>8, <1>9, <1>11

\* Dev releases: an absent counter sorts last.
LEMMA DevLaws ==
  ASSUME NEW v, NEW w, NEW x, IsVersion(v), IsVersion(w), IsVersion(x)
  PROVE  /\ Laws(CmpDevKey(v, w), CmpDevKey(w, v), CmpDevKey(w, x), CmpDevKey(v, x))
         /\ CmpDevKey(v, w) = 0 => v.dev = w.dev
PROOF
  <1>1. v.dev \in Nat \cup {-1} /\ w.dev \in Nat \cup {-1} /\ x.dev \in Nat \cup {-1}
    BY DEF IsVersion
  <1> QED BY <1>1 DEF CmpDevKey, CmpInt, Laws, Follows, Sign

LEMMA PostLaws ==
  ASSUME NEW v, NEW w, NEW x, IsVersion(v), IsVersion(w), IsVersion(x)
  PROVE  /\ Laws(CmpPostKey(v, w), CmpPostKey(w, v), CmpPostKey(w, x), CmpPostKey(v, x))
         /\ CmpPostKey(v, w) = 0 => v.post = w.post
PROOF
  <1>1. v.post \in Int /\ w.post \in Int /\ x.post \in Int
    BY DEF IsVersion
  <1> QED BY <1>1, CmpIntLaws DEF CmpPostKey

\* Comparisons that each have the laws decide with the laws.
LEMMA DecideLaws ==
  ASSUME NEW n \in Nat, NEW a \in [1..n -> Sign], NEW b \in [1..n -> Sign],
         NEW c \in [1..n -> Sign], NEW d \in [1..n -> Sign],
         \A i \in 1..n : Laws(a[i], b[i], c[i], d[i])
  PROVE  Laws(Decide(a), Decide(b), Decide(c), Decide(d))
PROOF
  <1>1. \A i \in 1..n : b[i] = 0 - a[i] /\ Follows(a[i], c[i], d[i])
    BY DEF Laws
  <1>2. Decide(b) = 0 - Decide(a)
    BY <1>1, DecideReversed
  <1>3. Follows(Decide(a), Decide(c), Decide(d))
    BY <1>1, DecideFollows
  <1>4. Decide(a) \in Sign /\ Decide(b) \in Sign /\ Decide(c) \in Sign /\ Decide(d) \in Sign
    BY DecideSign
  <1> QED BY <1>2, <1>3, <1>4 DEF Laws

-----------------------------------------------------------------------------
(* Compare.                                                                *)

\* The six comparisons Compare makes, in their order.
Comparisons(v, w) ==
  <<CmpInt(v.epoch, w.epoch), CmpRelease(v.release, w.release), CmpPreKey(v, w),
    CmpPostKey(v, w), CmpDevKey(v, w), CmpLocal(v.local, w.local)>>

LEMMA ComparisonLaws ==
  ASSUME NEW v, NEW w, NEW x, IsVersion(v), IsVersion(w), IsVersion(x)
  PROVE  /\ Comparisons(v, w) \in [1..6 -> Sign]
         /\ \A i \in 1..6 : Laws(Comparisons(v, w)[i], Comparisons(w, v)[i],
                                 Comparisons(w, x)[i], Comparisons(v, x)[i])
         /\ (\A i \in 1..6 : Comparisons(v, w)[i] = 0) => Point(v) = Point(w)
PROOF
  <1>1. /\ Laws(CmpInt(v.epoch, w.epoch), CmpInt(w.epoch, v.epoch), CmpInt(w.epoch, x.epoch), CmpInt(v.epoch, x.epoch))
        /\ CmpInt(v.epoch, w.epoch) = 0 => v.epoch = w.epoch
    <2>1. v.epoch \in Int /\ w.epoch \in Int /\ x.epoch \in Int
      BY DEF IsVersion
    <2> QED BY <2>1, CmpIntLaws
  <1>2. /\ Laws(CmpRelease(v.release, w.release), CmpRelease(w.release, v.release),
                 CmpRelease(w.release, x.release), CmpRelease(v.release, x.release))
        /\ CmpRelease(v.release, w.release) = 0 => Trim(v.release, 0) = Trim(w.release, 0)
    <2>1. v.release \in Seq(Component) /\ w.release \in Seq(Component) /\ x.release \in Seq(Component)
      BY DEF IsVersion, Component
    <2> QED BY <2>1, ReleaseLaws
  <1>3. /\ Laws(CmpLocal(v.local, w.local), CmpLocal(w.local, v.local),
                 CmpLocal(w.local, x.local), CmpLocal(v.local, x.local))
        /\ CmpLocal(v.local, w.local) = 0 => Trim(v.local, Blank) = Trim(w.local, Blank)
    <2>1. v.local \in Seq(Segment) /\ w.local \in Seq(Segment) /\ x.local \in Seq(Segment)
      BY DEF IsVersion, Segment
    <2> QED BY <2>1, LocalLaws
  <1>4. /\ Laws(CmpPreKey(v, w), CmpPreKey(w, v), CmpPreKey(w, x), CmpPreKey(v, x))
        /\ CmpPreKey(v, w) = 0 => v.preKind = w.preKind /\ v.preNum = w.preNum
    BY PreLaws
  <1>5. /\ Laws(CmpPostKey(v, w), CmpPostKey(w, v), CmpPostKey(w, x), CmpPostKey(v, x))
        /\ CmpPostKey(v, w) = 0 => v.post = w.post
    BY PostLaws
  <1>6. /\ Laws(CmpDevKey(v, w), CmpDevKey(w, v), CmpDevKey(w, x), CmpDevKey(v, x))
        /\ CmpDevKey(v, w) = 0 => v.dev = w.dev
    BY DevLaws
  <1>7. ASSUME NEW p, NEW q
        PROVE  /\ Comparisons(p, q)[1] = CmpInt(p.epoch, q.epoch)
               /\ Comparisons(p, q)[2] = CmpRelease(p.release, q.release)
               /\ Comparisons(p, q)[3] = CmpPreKey(p, q)
               /\ Comparisons(p, q)[4] = CmpPostKey(p, q)
               /\ Comparisons(p, q)[5] = CmpDevKey(p, q)
               /\ Comparisons(p, q)[6] = CmpLocal(p.local, q.local)
    BY DEF Comparisons
  <1>8. \A i \in 1..6 : Laws(Comparisons(v, w)[i], Comparisons(w, v)[i],
                            Comparisons(w, x)[i], Comparisons(v, x)[i])
    <2> SUFFICES ASSUME NEW i \in 1..6
                 PROVE  Laws(Comparisons(v, w)[i], Comparisons(w, v)[i], Comparisons(w, x)[i], Comparisons(v, x)[i])
      OBVIOUS
    <2>1. i = 1 \/ i = 2 \/ i = 3 \/ i = 4 \/ i = 5 \/ i = 6
      OBVIOUS
    <2> QED BY <1>1, <1>2, <1>3, <1>4, <1>5, <1>6, <1>7, <2>1
  <1>9. Comparisons(v, w) \in [1..6 -> Sign]
    <2>1. /\ CmpInt(v.epoch, w.epoch) \in Sign /\ CmpRelease(v.release, w.release) \in Sign
          /\ CmpPreKey(v, w) \in Sign /\ CmpPostKey(v, w) \in Sign
          /\ CmpDevKey(v, w) \in Sign /\ CmpLocal(v.local, w.local) \in Sign
      BY <1>1, <1>2, <1>3, <1>4, <1>5, <1>6 DEF Laws
    <2> QED BY <2>1 DEF Comparisons
  <1>10. ASSUME \A i \in 1..6 : Comparisons(v, w)[i] = 0 PROVE Point(v) = Point(w)
    <2>1. /\ Comparisons(v, w)[1] = 0 /\ Comparisons(v, w)[2] = 0 /\ Comparisons(v, w)[3] = 0
          /\ Comparisons(v, w)[4] = 0 /\ Comparisons(v, w)[5] = 0 /\ Comparisons(v, w)[6] = 0
      BY <1>10
    <2>2. /\ v.epoch = w.epoch /\ Trim(v.release, 0) = Trim(w.release, 0)
          /\ v.preKind = w.preKind /\ v.preNum = w.preNum /\ v.post = w.post /\ v.dev = w.dev
          /\ Trim(v.local, Blank) = Trim(w.local, Blank)
      BY <1>1, <1>2, <1>3, <1>4, <1>5, <1>6, <1>7, <2>1
    <2> QED BY <2>2 DEF Point
  <1> QED BY <1>8, <1>9, <1>10

\* Version.Compare is a total order on all versions, of any length: it is
\* antisymmetric and transitive, and calls two versions equal only when they
\* are the same point of PEP 440's line.  It is a lexicographic order of six
\* comparisons, two of which are lexicographic orders of padded sequences.
THEOREM CompareIsAnOrder ==
  ASSUME NEW v, NEW w, NEW x, IsVersion(v), IsVersion(w), IsVersion(x)
  PROVE  InOrder(v, w, x)
PROOF
  <1> DEFINE C(p, q) == Comparisons(p, q)
  <1>1. Compare(v, w) = Decide(C(v, w)) /\ Compare(w, v) = Decide(C(w, v))
        /\ Compare(w, x) = Decide(C(w, x)) /\ Compare(v, x) = Decide(C(v, x))
    BY DEF Compare, Comparisons
  <1>2. /\ C(v, w) \in [1..6 -> Sign] /\ C(w, v) \in [1..6 -> Sign]
        /\ C(w, x) \in [1..6 -> Sign] /\ C(v, x) \in [1..6 -> Sign]
        /\ \A i \in 1..6 : Laws(C(v, w)[i], C(w, v)[i], C(w, x)[i], C(v, x)[i])
        /\ (\A i \in 1..6 : C(v, w)[i] = 0) => Point(v) = Point(w)
    BY ComparisonLaws
  <1> HIDE DEF C
  <1>3. Laws(Decide(C(v, w)), Decide(C(w, v)), Decide(C(w, x)), Decide(C(v, x)))
    BY <1>2, DecideLaws
  <1>4. Laws(Compare(v, w), Compare(w, v), Compare(w, x), Compare(v, x))
    BY <1>1, <1>3
  <1>5. Compare(v, w) = -Compare(w, v)
    BY <1>4 DEF Laws, Sign
  <1>6. Compare(v, w) <= 0 /\ Compare(w, x) <= 0 => Compare(v, x) <= 0
    BY <1>4 DEF Laws, Sign, Follows
  <1>7. ASSUME Compare(v, w) = 0 PROVE Point(v) = Point(w)
    BY <1>1, <1>2, <1>7, DecideZero
  <1> QED BY <1>5, <1>6, <1>7 DEF InOrder

\* Trailing 0 components do not count.
LEMMA TrimmedAt ==
  ASSUME NEW a \in Seq(Nat), NEW i \in Nat, i >= 1
  PROVE  At(a, i, 0) = At(Trim(a, 0), i, 0)
PROOF
  <1> DEFINE A == {j \in DOMAIN a : a[j] # 0}
             k == CHOOSE j \in A : \A l \in A : l <= j
  <1>1. Len(a) \in Nat /\ DOMAIN a = 1..Len(a)
    BY LenProperties
  <1>2. CASE A = {}
    <2>1. Trim(a, 0) = <<>>
      BY <1>2 DEF Trim
    <2>2. At(<<>>, i, 0) = 0
      BY DEF At
    <2>3. At(a, i, 0) = 0
      BY <1>1, <1>2 DEF At
    <2> QED BY <2>1, <2>2, <2>3
  <1>3. CASE A # {}
    <2>1. Trim(a, 0) = SubSeq(a, 1, k)
      BY <1>3 DEF Trim, Upto
    <2>2. A \in SUBSET (1..Len(a))
      BY <1>1
    <2>3. k \in A /\ \A l \in A : l <= k
      <3> HIDE DEF A
      <3> QED BY <1>1, <1>3, <2>2, LastIndex
    <2> HIDE DEF k
    <2>4. k \in 1..Len(a)
      BY <2>2, <2>3
    <2>5. SubSeq(a, 1, k) = [j \in 1..k |-> a[j]]
      BY <1>1, <2>4
    <2>6. Len(SubSeq(a, 1, k)) = k
      BY <1>1, <2>4
    <2>7. CASE i <= k
      <3>1. At(SubSeq(a, 1, k), i, 0) = a[i]
        BY <2>4, <2>5, <2>6, <2>7 DEF At
      <3>2. At(a, i, 0) = a[i]
        BY <1>1, <2>4, <2>7 DEF At
      <3> QED BY <2>1, <3>1, <3>2
    <2>8. CASE ~(i <= k)
      <3>1. At(SubSeq(a, 1, k), i, 0) = 0
        BY <2>6, <2>8 DEF At
      <3>2. At(a, i, 0) = 0
        <4>1. i \notin A
          BY <2>3, <2>8
        <4> QED BY <1>1, <4>1 DEF At
      <3> QED BY <2>1, <3>1, <3>2
    <2> QED BY <2>7, <2>8
  <1> QED BY <1>2, <1>3

LEMMA SameRelease ==
  ASSUME NEW a \in Seq(Nat), NEW b \in Seq(Nat), Trim(a, 0) = Trim(b, 0)
  PROVE  CmpRelease(a, b) = 0
PROOF
  <1> DEFINE c == [i \in 1..Longest(a, b) |-> CmpInt(At(a, i, 0), At(b, i, 0))]
  <1>1. Len(a) \in Nat /\ Len(b) \in Nat /\ DOMAIN a = 1..Len(a) /\ DOMAIN b = 1..Len(b)
    BY LenProperties
  <1>2. Longest(a, b) \in Nat
    BY <1>1 DEF Longest
  <1>3. ASSUME NEW i \in 1..Longest(a, b) PROVE CmpInt(At(a, i, 0), At(b, i, 0)) = 0
    <2>1. i \in Nat /\ i >= 1
      BY <1>2
    <2>2. At(a, i, 0) = At(b, i, 0)
      <3>1. At(a, i, 0) = At(Trim(a, 0), i, 0)
        BY <2>1, TrimmedAt
      <3>2. At(b, i, 0) = At(Trim(b, 0), i, 0)
        BY <2>1, TrimmedAt
      <3> QED BY <3>1, <3>2
    <2>3. At(a, i, 0) \in Nat
      BY <1>1, <2>1 DEF At
    <2> QED BY <2>2, <2>3 DEF CmpInt
  <1>4. {i \in DOMAIN c : c[i] # 0} = {}
    BY <1>3
  <1> HIDE DEF c
  <1>5. Decide(c) = 0
    BY <1>4 DEF Decide
  <1> QED BY <1>5 DEF c, CmpRelease

\* Compare's answer is its first comparison that tells two versions apart.
LEMMA Decided ==
  ASSUME NEW v, NEW w, IsVersion(v), IsVersion(w), NEW k \in 1..6,
         Comparisons(v, w)[k] = 0 - 1, \A j \in 1..(k - 1) : Comparisons(v, w)[j] = 0
  PROVE  Compare(v, w) = 0 - 1
PROOF
  <1>1. Compare(v, w) = Decide(Comparisons(v, w)) /\ Comparisons(v, w) \in [1..6 -> Sign]
    BY ComparisonLaws DEF Compare, Comparisons
  <1> DEFINE c == Comparisons(v, w)
  <1>2. c \in [1..6 -> Sign] /\ 6 \in Nat /\ c[k] # 0 /\ \A j \in 1..(k - 1) : c[j] = 0
    BY <1>1
  <1>3. Decide(c) = c[k]
    <2> HIDE DEF c
    <2> QED BY <1>2, DecideIs
  <1> QED BY <1>1, <1>3

\* What tells two versions of one release apart: the pre-release, then the
\* post-release, then the dev counter.
LEMMA OneRelease ==
  ASSUME NEW v, NEW w, IsVersion(v), IsVersion(w), v.epoch = w.epoch, Trim(v.release, 0) = Trim(w.release, 0)
  PROVE  /\ CmpPreKey(v, w) = 0 - 1 => Compare(v, w) = 0 - 1
         /\ CmpPreKey(v, w) = 0 /\ CmpPostKey(v, w) = 0 - 1 => Compare(v, w) = 0 - 1
         /\ CmpPreKey(v, w) = 0 /\ CmpPostKey(v, w) = 0 /\ CmpDevKey(v, w) = 0 - 1 => Compare(v, w) = 0 - 1
PROOF
  <1> DEFINE C == Comparisons(v, w)
  <1>1. /\ C[1] = CmpInt(v.epoch, w.epoch) /\ C[2] = CmpRelease(v.release, w.release)
        /\ C[3] = CmpPreKey(v, w) /\ C[4] = CmpPostKey(v, w) /\ C[5] = CmpDevKey(v, w)
    BY DEF Comparisons
  <1>2. C[1] = 0
    <2>1. v.epoch \in Int
      BY DEF IsVersion
    <2> QED BY <1>1, <2>1 DEF CmpInt
  <1>3. C[2] = 0
    <2>1. v.release \in Seq(Nat) /\ w.release \in Seq(Nat)
      BY DEF IsVersion
    <2> QED BY <1>1, <2>1, SameRelease
  <1> HIDE DEF C
  <1>4. ASSUME NEW k \in 1..6, C[k] = 0 - 1, \A j \in 1..(k - 1) : C[j] = 0 PROVE Compare(v, w) = 0 - 1
    BY <1>4, Decided DEF C
  <1>5. ASSUME C[3] = 0 - 1 PROVE Compare(v, w) = 0 - 1
    <2>1. 3 \in 1..6 /\ \A j \in 1..(3 - 1) : C[j] = 0
      BY <1>2, <1>3
    <2> QED BY <1>4, <1>5, <2>1
  <1>6. ASSUME C[3] = 0, C[4] = 0 - 1 PROVE Compare(v, w) = 0 - 1
    <2>1. 4 \in 1..6 /\ \A j \in 1..(4 - 1) : C[j] = 0
      BY <1>2, <1>3, <1>6
    <2> QED BY <1>4, <1>6, <2>1
  <1>7. ASSUME C[3] = 0, C[4] = 0, C[5] = 0 - 1 PROVE Compare(v, w) = 0 - 1
    <2>1. 5 \in 1..6 /\ \A j \in 1..(5 - 1) : C[j] = 0
      BY <1>2, <1>3, <1>7
    <2> QED BY <1>4, <1>7, <2>1
  <1> QED BY <1>1, <1>5, <1>6, <1>7

\* Pre-releases are told apart by their place first, then by their number.
LEMMA PreDecided ==
  ASSUME NEW v, NEW w, IsVersion(v), IsVersion(w)
  PROVE  /\ PreKey(v) < PreKey(w) => CmpPreKey(v, w) = 0 - 1
         /\ PreKey(v) = PreKey(w) /\ v.preNum = w.preNum => CmpPreKey(v, w) = 0
PROOF
  <1> DEFINE a == CmpInt(PreKey(v), PreKey(w))
             b == IF v.preKind # Blank /\ w.preKind # Blank THEN CmpInt(v.preNum, w.preNum) ELSE 0
  <1>1. PreKey(v) \in Int /\ PreKey(w) \in Int /\ v.preNum \in Int /\ w.preNum \in Int
    BY PreKeyOf
  <1>2. a \in Sign /\ (PreKey(v) < PreKey(w) => a = 0 - 1) /\ (PreKey(v) = PreKey(w) => a = 0)
    BY <1>1 DEF CmpInt, Sign
  <1>3. b \in Sign /\ (v.preNum = w.preNum => b = 0)
    BY <1>1 DEF CmpInt, Sign
  <1>4. CmpPreKey(v, w) = Decide(<<a, b>>)
    BY DEF CmpPreKey
  <1> HIDE DEF a, b
  <1>5. Decide(<<a, b>>) = (IF a # 0 THEN a ELSE b)
    BY <1>2, <1>3, DecidePair
  <1> QED BY <1>2, <1>3, <1>4, <1>5

\* Version.Compare follows PEP 440's line for one release, whatever its length
\* and its numbers: dev releases, then a, b and rc pre-releases, the release
\* and its post-releases; and the dev release of anything precedes it.
THEOREM PhasesFollow ==
  ASSUME NEW v, NEW w, IsVersion(v), IsVersion(w)
  PROVE  Phased(v, w)
PROOF
  <1>0. Blank \notin {"a", "b", "rc"}
    BY Zenon DEF Blank
  <1>1. ASSUME NEW u, IsVersion(u)
        PROVE  /\ u.preKind \in {Blank, "a", "b", "rc"} /\ u.post \in Nat \cup {-1} /\ u.dev \in Nat \cup {-1}
               /\ u.epoch \in Int
    BY <1>1 DEF IsVersion, Rank
  <1>2. Rank["a"] = 1 /\ Rank["b"] = 2 /\ Rank["rc"] = 3
    BY <1>0 DEF Rank
  <1>3. ASSUME NEW u, IsVersion(u)
        PROVE  /\ Phase(u) \in 1..6
               /\ Phase(u) \in 1..5 => PreKey(u) = Phase(u) - 1
               /\ Phase(u) = 5 => u.post < 0
               /\ Phase(u) = 6 => PreKey(u) = 4 /\ u.post >= 0
    <2>1. CASE u.preKind = Blank
      <3>1. u.preKind \notin {"a", "b", "rc"}
        BY <1>0, <2>1
      <3>2. CASE u.post >= 0
        <4>1. Phase(u) = 6
          BY <1>1, <1>3, <2>1, <3>1, <3>2 DEF Phase
        <4>2. PreKey(u) = 4
          BY <1>1, <1>3, <2>1, <3>2 DEF PreKey
        <4> QED BY <3>2, <4>1, <4>2
      <3>3. CASE ~(u.post >= 0) /\ u.dev >= 0
        <4>1. Phase(u) = 1
          BY <1>1, <1>3, <2>1, <3>1, <3>3 DEF Phase
        <4>2. PreKey(u) = 0
          BY <1>1, <1>3, <2>1, <3>3 DEF PreKey
        <4> QED BY <4>1, <4>2
      <3>4. CASE ~(u.post >= 0) /\ ~(u.dev >= 0)
        <4>0. u.post < 0 /\ u.dev < 0
          BY <1>1, <1>3, <3>4
        <4>1. Phase(u) = 5
          BY <1>1, <1>3, <2>1, <3>1, <3>4, <4>0 DEF Phase
        <4>2. PreKey(u) = 4
          BY <1>1, <1>3, <2>1, <3>4 DEF PreKey
        <4> QED BY <4>0, <4>1, <4>2
      <3> QED BY <3>2, <3>3, <3>4
    <2>2. CASE u.preKind # Blank
      <3>1. PreKey(u) = Rank[u.preKind]
        BY <2>2 DEF PreKey
      <3>2. CASE u.preKind = "a"
        <4>1. Phase(u) = 2
          BY <1>0, <3>2 DEF Phase
        <4>2. PreKey(u) = 1
          BY <1>2, <3>1, <3>2
        <4> QED BY <4>1, <4>2
      <3>3. CASE u.preKind = "b"
        <4>1. Phase(u) = 3
          BY <1>0, <3>3 DEF Phase
        <4>2. PreKey(u) = 2
          BY <1>2, <3>1, <3>3
        <4> QED BY <4>1, <4>2
      <3>4. CASE u.preKind = "rc"
        <4>1. Phase(u) = 4
          BY <1>0, <3>4 DEF Phase
        <4>2. PreKey(u) = 3
          BY <1>2, <3>1, <3>4
        <4> QED BY <4>1, <4>2
      <3> QED BY <1>1, <1>3, <2>2, <3>2, <3>3, <3>4
    <2> QED BY <2>1, <2>2
  <1>4. ASSUME v.epoch = w.epoch, Trim(v.release, 0) = Trim(w.release, 0), Phase(v) < Phase(w)
        PROVE  Compare(v, w) = 0 - 1
    <2>1. CASE PreKey(v) < PreKey(w)
      BY <1>4, <2>1, PreDecided, OneRelease
    <2>2. CASE ~(PreKey(v) < PreKey(w))
      <3>1. Phase(v) = 5 /\ Phase(w) = 6
        <4>1. Phase(v) \in 1..6 /\ Phase(w) \in 1..6
          BY <1>3
        <4>2. Phase(v) \in 1..5
          BY <1>4, <4>1
        <4>3. PreKey(v) = Phase(v) - 1
          BY <1>3, <4>2
        <4>4. CASE Phase(w) = 6
          <5>1. PreKey(w) = 4
            BY <1>3, <4>4
          <5> QED BY <2>2, <4>2, <4>3, <4>4, <5>1
        <4>5. CASE Phase(w) # 6
          <5>1. PreKey(w) = Phase(w) - 1
            BY <1>3, <4>1, <4>5
          <5> QED BY <1>4, <2>2, <4>1, <4>3, <5>1
        <4> QED BY <4>4, <4>5
      <3>2. PreKey(v) = 4 /\ PreKey(w) = 4 /\ v.post < 0 /\ w.post >= 0
        BY <1>3, <3>1
      <3>3. v.preNum = 0 /\ w.preNum = 0
        BY <3>2, PreKeyOf
      <3>4. CmpPreKey(v, w) = 0
        BY <3>2, <3>3, PreDecided
      <3>5. CmpPostKey(v, w) = 0 - 1
        <4>1. v.post \in Int /\ w.post \in Int
          BY <1>1
        <4> QED BY <3>2, <4>1 DEF CmpPostKey, CmpInt
      <3> QED BY <1>4, <3>4, <3>5, OneRelease
    <2> QED BY <2>1, <2>2
  <1>5. ASSUME v.dev >= 0 PROVE Compare(v, [v EXCEPT !.dev = -1]) = 0 - 1
    <2> DEFINE u == [v EXCEPT !.dev = -1]
    <2>1. /\ u.epoch = v.epoch /\ u.release = v.release /\ u.preKind = v.preKind /\ u.preNum = v.preNum
          /\ u.post = v.post /\ u.dev = -1
      BY DEF IsVersion
    <2>2. IsVersion(u)
      BY DEF IsVersion
    <2> HIDE DEF u
    <2>3. v.post \in Int /\ v.dev \in Int /\ v.preNum \in Int /\ u.preNum = v.preNum
      <3>1. v.preNum \in Int
        BY PreKeyOf
      <3> QED BY <1>1, <2>1, <3>1
    <2>4. CASE v.preKind = Blank /\ v.post < 0
      <3>1. PreKey(v) = 0
        BY <1>5, <2>4 DEF PreKey
      <3>2. PreKey(u) = 4
        BY <2>1, <2>4 DEF PreKey
      <3>3. PreKey(v) < PreKey(u)
        BY <3>1, <3>2
      <3>4. CmpPreKey(v, u) = 0 - 1
        BY <2>2, <3>3, PreDecided
      <3> QED BY <2>1, <2>2, <3>4, OneRelease DEF u
    <2>5. CASE ~(v.preKind = Blank /\ v.post < 0)
      <3>1. PreKey(v) = PreKey(u)
        BY <2>1, <2>5 DEF PreKey
      <3>2. CmpPreKey(v, u) = 0
        BY <2>1, <2>2, <3>1, PreDecided
      <3>3. CmpPostKey(v, u) = 0
        BY <2>1, <2>3 DEF CmpPostKey, CmpInt
      <3>4. CmpDevKey(v, u) = 0 - 1
        BY <1>5, <2>1, <2>3 DEF CmpDevKey
      <3> QED BY <2>1, <2>2, <3>2, <3>3, <3>4, OneRelease DEF u
    <2> QED BY <2>4, <2>5
  <1>6. 0 - 1 = -1
    OBVIOUS
  <1> QED BY <1>4, <1>5, <1>6 DEF Phased

-----------------------------------------------------------------------------
(* Ascending and Split: the k-th of a finite set of numbers, and the parts *)
(* between two separators.                                                 *)

\* How many members of S are below c.
BelowIn(S, c) == {d \in S : d < c}

\* Members have as many below them as they have predecessors, each another
\* number.
LEMMA BelowCounts ==
  ASSUME NEW S \in SUBSET Nat, IsFiniteSet(S), NEW c \in S
  PROVE  /\ Cardinality(BelowIn(S, c)) \in 0..(Cardinality(S) - 1)
         /\ \A d \in S : d < c => Cardinality(BelowIn(S, d)) < Cardinality(BelowIn(S, c))
PROOF
  <1>0. \A d \in S : d \in Nat
    OBVIOUS
  <1>1. ASSUME NEW d \in S
        PROVE  BelowIn(S, d) \in SUBSET S /\ IsFiniteSet(BelowIn(S, d)) /\ Cardinality(BelowIn(S, d)) \in Nat
    <2>1. BelowIn(S, d) \in SUBSET S
      BY DEF BelowIn
    <2>2. IsFiniteSet(BelowIn(S, d))
      BY <2>1, FS_Subset
    <2> QED BY <2>1, <2>2, FS_CardinalityType
  <1>2. Cardinality(S) \in Nat
    BY FS_CardinalityType
  <1>3. Cardinality(BelowIn(S, c)) <= Cardinality(S) - 1
    <2>1. c \notin BelowIn(S, c)
      BY <1>0 DEF BelowIn
    <2>2. BelowIn(S, c) \in SUBSET (S \ {c})
      BY <1>1, <2>1
    <2>3. IsFiniteSet(S \ {c}) /\ Cardinality(S \ {c}) = Cardinality(S) - 1
      BY FS_RemoveElement
    <2> QED BY <2>2, <2>3, FS_Subset
  <1>4. ASSUME NEW d \in S, d < c PROVE Cardinality(BelowIn(S, d)) < Cardinality(BelowIn(S, c))
    <2>0. ASSUME NEW e \in BelowIn(S, d) PROVE e \in BelowIn(S, c)
      <3>1. e \in S /\ e \in Nat /\ e < d /\ d \in Nat /\ c \in Nat
        BY <1>0, <2>0 DEF BelowIn
      <3>2. e < c
        BY <1>4, <3>1
      <3> QED BY <3>1, <3>2 DEF BelowIn
    <2>1. BelowIn(S, d) \in SUBSET BelowIn(S, c)
      BY <2>0
    <2>2. d \in BelowIn(S, c) /\ d \notin BelowIn(S, d)
      BY <1>0, <1>4 DEF BelowIn
    <2>3. BelowIn(S, c) # BelowIn(S, d)
      BY <2>2
    <2>4. Cardinality(BelowIn(S, d)) <= Cardinality(BelowIn(S, c)) /\ Cardinality(BelowIn(S, d)) # Cardinality(BelowIn(S, c))
      BY <1>1, <2>1, <2>3, FS_Subset
    <2> QED BY <1>1, <2>4
  <1> QED BY <1>1, <1>2, <1>3, <1>4

\* Ascending lists the members: the k-th has k - 1 below it.
LEMMA AscendingLists ==
  ASSUME NEW S \in SUBSET Nat, IsFiniteSet(S), NEW k \in 1..Cardinality(S)
  PROVE  Ascending(S)[k] \in S /\ Cardinality(BelowIn(S, Ascending(S)[k])) = k - 1
PROOF
  <1> DEFINE f == [c \in S |-> Cardinality(BelowIn(S, c))]
             N == 0..(Cardinality(S) - 1)
  <1>1. Cardinality(S) \in Nat
    BY FS_CardinalityType
  <1>2. \A c \in S : c \in Nat /\ Cardinality(BelowIn(S, c)) \in N
    BY BelowCounts
  <1>3. ASSUME NEW c \in S, NEW d \in S, c # d PROVE Cardinality(BelowIn(S, c)) # Cardinality(BelowIn(S, d))
    <2>1. c < d \/ d < c
      BY <1>2, <1>3
    <2> QED BY <1>2, <2>1, BelowCounts
  <1>4. f \in Injection(S, N)
    BY <1>2, <1>3 DEF Injection, IsInjective
  <1>5. IsFiniteSet(N) /\ Cardinality(N) = Cardinality(S)
    <2> DEFINE m == Cardinality(S) - 1
    <2>1. m \in Int /\ 0 \in Int /\ (IF 0 > m THEN 0 ELSE m - 0 + 1) = Cardinality(S)
      BY <1>1
    <2> HIDE DEF m
    <2>2. IsFiniteSet(0..m) /\ Cardinality(0..m) = IF 0 > m THEN 0 ELSE m - 0 + 1
      BY <2>1, FS_Interval
    <2> QED BY <2>1, <2>2 DEF m
  <1> HIDE DEF f
  <1>6. f \in Surjection(S, N)
    BY <1>4, <1>5, FS_Injection
  <1>7. k - 1 \in N
    BY <1>1
  <1>8. \E c \in S : f[c] = k - 1
    BY <1>6, <1>7 DEF Surjection
  <1>9. \E c \in S : Cardinality(BelowIn(S, c)) = k - 1
    BY <1>8 DEF f
  <1>10. Ascending(S)[k] = CHOOSE c \in S : Cardinality(BelowIn(S, c)) = k - 1
    BY DEF Ascending, BelowIn
  <1> QED BY <1>9, <1>10

\* Nothing lies between one and the next.
LEMMA AscendingGaps ==
  ASSUME NEW S \in SUBSET Nat, IsFiniteSet(S), NEW k \in 1..(Cardinality(S) - 1)
  PROVE  /\ Ascending(S)[k] \in S /\ Ascending(S)[k + 1] \in S /\ Ascending(S)[k] < Ascending(S)[k + 1]
         /\ \A c \in S : ~(Ascending(S)[k] < c /\ c < Ascending(S)[k + 1])
PROOF
  <1> DEFINE a == Ascending(S)[k]
             b == Ascending(S)[k + 1]
  <1>1. Cardinality(S) \in Nat
    BY FS_CardinalityType
  <1>2. k \in 1..Cardinality(S) /\ k + 1 \in 1..Cardinality(S) /\ k \in Nat
    BY <1>1
  <1>3. a \in S /\ Cardinality(BelowIn(S, a)) = k - 1
    BY <1>2, AscendingLists
  <1>4. b \in S /\ Cardinality(BelowIn(S, b)) = (k + 1) - 1
    BY <1>2, AscendingLists
  <1> HIDE DEF a, b
  <1>5. a \in Nat /\ b \in Nat
    BY <1>3, <1>4
  <1>6. a < b
    <2>1. CASE a = b
      BY <1>2, <1>3, <1>4, <2>1
    <2>2. CASE b < a
      BY <1>2, <1>3, <1>4, <2>2, BelowCounts
    <2> QED BY <1>5, <2>1, <2>2
  <1>7. ASSUME NEW c \in S, a < c, c < b PROVE FALSE
    <2>1. Cardinality(BelowIn(S, c)) \in Nat
      BY <1>1, BelowCounts
    <2>2. Cardinality(BelowIn(S, a)) < Cardinality(BelowIn(S, c)) /\ Cardinality(BelowIn(S, c)) < Cardinality(BelowIn(S, b))
      BY <1>3, <1>4, <1>7, BelowCounts
    <2> QED BY <1>2, <1>3, <1>4, <2>1, <2>2
  <1> QED BY <1>3, <1>4, <1>6, <1>7 DEF a, b

\* Split: every part is a run of elements that are no separators.
LEMMA SplitParts ==
  ASSUME NEW T, NEW s \in Seq(T), NEW seps
  PROVE  /\ Split(s, seps) \in Seq(Seq(T \ seps))
         /\ \A k \in DOMAIN Split(s, seps) : Split(s, seps)[k] \in Seq(T \ seps)
PROOF
  <1> DEFINE cut == {0, Len(s) + 1} \cup {i \in DOMAIN s : s[i] \in seps}
             nth == Ascending(cut)
             n == Cardinality(cut) - 1
  <1>1. Len(s) \in Nat /\ DOMAIN s = 1..Len(s) /\ \A i \in 1..Len(s) : s[i] \in T
    BY LenProperties
  <1>2. cut \in SUBSET Nat /\ \A c \in cut : c <= Len(s) + 1
    BY <1>1
  <1>3. IsFiniteSet(cut)
    BY <1>1, <1>2, FS_BoundedSetOfNaturals
  <1>4. Cardinality(cut) \in Nat /\ n \in Nat
    <2>1. Cardinality(cut) \in Nat
      BY <1>3, FS_CardinalityType
    <2>2. Cardinality(cut) # 0
      BY <1>3, FS_EmptySet
    <2> QED BY <2>1, <2>2
  <1>5. ASSUME NEW k \in 1..n PROVE SubSeq(s, nth[k] + 1, nth[k + 1] - 1) \in Seq(T \ seps)
    <2>1. /\ nth[k] \in cut /\ nth[k + 1] \in cut /\ nth[k] < nth[k + 1]
          /\ \A c \in cut : ~(nth[k] < c /\ c < nth[k + 1])
      BY <1>2, <1>3, <1>4, AscendingGaps
    <2> HIDE DEF nth
    <2>2. nth[k] \in Nat /\ nth[k + 1] \in Nat /\ nth[k + 1] <= Len(s) + 1
      BY <1>2, <2>1
    <2>3. ASSUME NEW i \in (nth[k] + 1)..(nth[k + 1] - 1) PROVE s[i] \in T \ seps
      <3>1. i \in 1..Len(s) /\ nth[k] < i /\ i < nth[k + 1]
        BY <1>1, <2>2, <2>3
      <3>2. i \notin cut
        BY <2>1, <3>1
      <3> QED BY <1>1, <3>1, <3>2
    <2> QED BY <2>2, <2>3, SubSeqProperties
  <1>6. Split(s, seps) = [k \in 1..n |-> SubSeq(s, nth[k] + 1, nth[k + 1] - 1)]
    BY DEF Split
  <1> DEFINE X == Seq(T \ seps)
             part(k) == SubSeq(s, nth[k] + 1, nth[k + 1] - 1)
  <1> HIDE DEF cut, nth, n, X, part
  <1>7. Split(s, seps) = [k \in 1..n |-> part(k)] /\ \A k \in 1..n : part(k) \in X
    BY <1>5, <1>6 DEF part, X
  <1>8. Split(s, seps) \in [1..n -> X]
    BY <1>7
  <1>9. Split(s, seps) \in Seq(X)
    BY <1>4, <1>8, SeqDef
  <1> QED BY <1>8, <1>9 DEF X
-----------------------------------------------------------------------------
(* What Parse returns.                                                     *)

\* A function on 1..n is a sequence.
LEMMA IsSeq ==
  ASSUME NEW S, NEW n \in Nat, NEW f \in [1..n -> S]
  PROVE  f \in Seq(S)
PROOF BY SeqDef

\* A sequence that is not empty starts with one of its elements.
LEMMA FirstElement ==
  ASSUME NEW S, NEW s \in Seq(S), s # <<>>
  PROVE  s[1] \in S /\ 1 \in DOMAIN s
PROOF
  <1>1. Len(s) \in Nat \ {0}
    BY EmptySeq
  <1>2. 1 \in 1..Len(s)
    BY <1>1
  <1> QED BY <1>2, ElementOfSeq, LenProperties

\* What the tables of digits and of pre-release kinds hold.
LEMMA Tables ==
  /\ \A x \in DOMAIN Atoi : Atoi[x] \in Nat
  /\ {"a", "b", "rc", Blank} \subseteq DOMAIN Rank /\ Blank \notin {"a", "b", "rc"}
PROOF
  <1>1. DOMAIN Atoi = {"0", "1", "2", "3"} /\ DOMAIN Rank = {Blank, "a", "b", "rc"}
    BY Zenon DEF Atoi, Rank
  <1>2. \A x \in {"0", "1", "2", "3"} : Atoi[x] \in Nat
    BY DEF Atoi
  <1>3. Blank \notin {"a", "b", "rc"}
    BY Zenon DEF Blank
  <1> QED BY <1>1, <1>2, <1>3

\* First and LastOf return a position of the element, or 0.
LEMMA Positions ==
  ASSUME NEW T, NEW s \in Seq(T), NEW e
  PROVE  /\ First(s, e) \in 0..Len(s) /\ (First(s, e) # 0 => s[First(s, e)] = e)
         /\ First(s, e) # 0 => \A j \in 1..(First(s, e) - 1) : s[j] # e
         /\ LastOf(s, e) \in 0..Len(s) /\ (LastOf(s, e) # 0 => s[LastOf(s, e)] = e)
PROOF
  <1> DEFINE A == {i \in DOMAIN s : s[i] = e}
  <1>1. Len(s) \in Nat /\ DOMAIN s = 1..Len(s) /\ A \in SUBSET (1..Len(s))
    BY LenProperties
  <1>2. CASE A = {}
    <2>1. First(s, e) = 0 /\ LastOf(s, e) = 0
      BY <1>2 DEF First, LastOf
    <2> QED BY <1>1, <2>1
  <1>3. CASE A # {}
    <2>1. \E i \in DOMAIN s : s[i] = e
      BY <1>3
    <2>2. PICK i \in A : \A j \in A : i <= j
      BY <1>1, <1>3, FirstIndex
    <2>3. s[i] = e /\ i \in DOMAIN s /\ \A j \in 1..(i - 1) : s[j] # e
      BY <1>1, <2>2
    <2>4. First(s, e) = CHOOSE k \in DOMAIN s : s[k] = e /\ \A j \in 1..(k - 1) : s[j] # e
      BY <2>1 DEF First
    <2>5. First(s, e) \in DOMAIN s /\ s[First(s, e)] = e /\ \A j \in 1..(First(s, e) - 1) : s[j] # e
      BY <2>3, <2>4
    <2>6. PICK l \in A : \A j \in A : j <= l
      BY <1>1, <1>3, LastIndex
    <2>7. s[l] = e /\ l \in DOMAIN s /\ \A j \in (l + 1)..Len(s) : s[j] # e
      BY <1>1, <2>6
    <2>8. LastOf(s, e) = CHOOSE k \in DOMAIN s : s[k] = e /\ \A j \in (k + 1)..Len(s) : s[j] # e
      BY <2>1 DEF LastOf
    <2>9. LastOf(s, e) \in DOMAIN s /\ s[LastOf(s, e)] = e
      BY <2>7, <2>8
    <2> QED BY <1>1, <2>5, <2>9
  <1> QED BY <1>2, <1>3

\* Upto and From cut a sequence.
LEMMA Pieces ==
  ASSUME NEW T, NEW s \in Seq(T), NEW i \in Int
  PROVE  /\ i <= Len(s) => Upto(s, i) \in Seq(T)
         /\ i >= 1 => /\ From(s, i) \in Seq(T)
                      /\ Len(From(s, i)) = IF i <= Len(s) THEN Len(s) - i + 1 ELSE 0
                      /\ \A j \in 1..(Len(s) - i + 1) : From(s, i)[j] = s[i + j - 1]
PROOF
  <1>1. Len(s) \in Nat /\ \A j \in 1..Len(s) : s[j] \in T
    BY LenProperties
  <1>2. ASSUME i <= Len(s) PROVE Upto(s, i) \in Seq(T)
    <2>1. \A j \in 1..i : s[j] \in T
      BY <1>1, <1>2
    <2> QED BY <2>1, SubSeqProperties DEF Upto
  <1>3. ASSUME i >= 1
        PROVE  /\ From(s, i) \in Seq(T)
               /\ Len(From(s, i)) = IF i <= Len(s) THEN Len(s) - i + 1 ELSE 0
               /\ \A j \in 1..(Len(s) - i + 1) : From(s, i)[j] = s[i + j - 1]
    <2>1. \A j \in i..Len(s) : s[j] \in T
      BY <1>1, <1>3
    <2> QED BY <1>1, <2>1, SubSeqProperties DEF From
  <1> QED BY <1>2, <1>3

\* A number behind a keyword.
LEMMA NumberBehind ==
  ASSUME NEW T, NEW s \in Seq(T), NEW i \in 1..Len(s), IsNumber(From(s, i + 1))
  PROVE  i < Len(s) /\ Atoi[s[i + 1]] \in Nat
PROOF
  <1>1. Len(s) \in Nat /\ i \in Int /\ i + 1 \in Int /\ i + 1 >= 1
    BY LenProperties
  <1>2. /\ Len(From(s, i + 1)) = IF i + 1 <= Len(s) THEN Len(s) - (i + 1) + 1 ELSE 0
        /\ \A j \in 1..(Len(s) - (i + 1) + 1) : From(s, i + 1)[j] = s[(i + 1) + j - 1]
    BY <1>1, Pieces
  <1>3. Len(From(s, i + 1)) = 1 /\ From(s, i + 1)[1] \in DOMAIN Atoi
    BY DEF IsNumber
  <1>4. i + 1 <= Len(s) /\ 1 \in 1..(Len(s) - (i + 1) + 1) /\ (i + 1) + 1 - 1 = i + 1
    BY <1>1, <1>2, <1>3
  <1>5. s[i + 1] \in DOMAIN Atoi
    BY <1>2, <1>3, <1>4
  <1> QED BY <1>1, <1>4, <1>5, Tables

\* The number of a post or dev release is natural, or -1 for none.
LEMMA CounterType ==
  ASSUME NEW T, NEW s \in Seq(T), NEW k
  PROVE  Counter(s, k).n \in Nat \cup {-1} /\ Counter(s, k).rest \in Seq(T)
PROOF
  <1> DEFINE i == LastOf(s, k)
  <1>1. Len(s) \in Nat /\ i \in 0..Len(s)
    BY LenProperties, Positions
  <1>2. CASE i # 0 /\ IsNumber(From(s, i + 1))
    <2>1. i \in 1..Len(s) /\ i - 1 \in Int /\ i - 1 <= Len(s)
      BY <1>1, <1>2
    <2>2. Atoi[s[i + 1]] \in Nat /\ Upto(s, i - 1) \in Seq(T)
      BY <1>2, <2>1, NumberBehind, Pieces
    <2>3. Counter(s, k) = [ok |-> TRUE, n |-> Atoi[s[i + 1]], rest |-> Upto(s, i - 1)]
      BY <1>2 DEF Counter
    <2> QED BY <2>2, <2>3
  <1>3. CASE ~(i # 0 /\ IsNumber(From(s, i + 1)))
    <2>1. Counter(s, k).n = -1 /\ Counter(s, k).rest = s
      BY <1>3 DEF Counter
    <2> QED BY <2>1
  <1> QED BY <1>2, <1>3

\* splitPre returns a known kind and a number, 0 where there is no kind.
LEMMA SplitPreType ==
  ASSUME NEW T, NEW s \in Seq(T)
  PROVE  /\ SplitPre(s).kind \in DOMAIN Rank /\ SplitPre(s).num \in Nat /\ SplitPre(s).rest \in Seq(T)
         /\ SplitPre(s).kind = Blank => SplitPre(s).num = 0
PROOF
  <1>1. ASSUME NEW k \in {"a", "b", "rc"}, PreAt(s, k) # 0
        PROVE  /\ PreOf(s, k).kind = k /\ PreOf(s, k).num \in Nat /\ PreOf(s, k).rest \in Seq(T)
    <2> DEFINE i == LastOf(s, k)
    <2>1. i > 1 /\ IsNumber(From(s, i + 1)) /\ PreAt(s, k) = i
      BY <1>1 DEF PreAt
    <2>2. Len(s) \in Nat /\ i \in 0..Len(s)
      BY LenProperties, Positions
    <2>3. i \in 1..Len(s) /\ i - 1 \in Int /\ i - 1 <= Len(s)
      BY <2>1, <2>2
    <2>4. Atoi[s[i + 1]] \in Nat /\ Upto(s, i - 1) \in Seq(T)
      BY <2>1, <2>3, NumberBehind, Pieces
    <2> QED BY <2>1, <2>4 DEF PreOf
  <1>2. \/ \E k \in {"a", "b", "rc"} : PreAt(s, k) # 0 /\ SplitPre(s) = PreOf(s, k)
        \/ SplitPre(s) = [kind |-> Blank, num |-> 0, rest |-> s]
    BY DEF SplitPre
  <1> QED BY <1>1, <1>2, Tables

\* What Parse reads of a release is a sequence of numbers.
LEMMA ReleaseType ==
  ASSUME NEW T, NEW r \in Seq(T), IsRelease(r)
  PROVE  ReleaseOf(r) \in Seq(Nat)
PROOF
  <1> DEFINE n == (Len(r) + 1) \div 2
  <1>1. Len(r) \in Nat /\ DOMAIN r = 1..Len(r) /\ n \in Nat /\ 2 * n <= Len(r) + 1
    BY LenProperties
  <1>2. ASSUME NEW i \in 1..n PROVE Atoi[r[2 * i - 1]] \in Nat
    <2>1. 2 * i - 1 \in 1..Len(r) /\ (2 * i - 1) % 2 = 1
      BY <1>1
    <2>2. r[2 * i - 1] \in DOMAIN Atoi
      BY <1>1, <2>1 DEF IsRelease
    <2> QED BY <2>2, Tables
  <1>3. ReleaseOf(r) = [i \in 1..n |-> Atoi[r[2 * i - 1]]]
    BY DEF ReleaseOf
  <1> HIDE DEF n
  <1>4. ReleaseOf(r) \in [1..n -> Nat]
    BY <1>2, <1>3
  <1> QED BY <1>1, <1>4, SeqDef

\* A local label is a sequence of numbers and words.
LEMMA SegmentsType ==
  ASSUME NEW l \in Seq(LocalTokens), \A i \in DOMAIN l : l[i] \notin {"!", "+", " "}
  PROVE  Segments(l) \in Seq(Segment)
PROOF
  <1> DEFINE seps == {".", "-", "_"}
             W == LocalTokens \ {"!", "+", " "}
             parts == Split(l, seps)
  <1>1. l \in Seq(W)
    <2>1. Len(l) \in Nat /\ l \in [1..Len(l) -> LocalTokens] /\ DOMAIN l = 1..Len(l)
      BY LenProperties
    <2>2. l \in [1..Len(l) -> W]
      BY <2>1
    <2> HIDE DEF W
    <2> QED BY <2>1, <2>2, IsSeq
  <1>2. parts \in Seq(Seq(W \ seps)) /\ \A k \in DOMAIN parts : parts[k] \in Seq(W \ seps)
    BY <1>1, SplitParts
  <1>3. W \ seps \subseteq Segment /\ Blank \in Segment
    BY Tables DEF LocalTokens, Segment
  <1> HIDE DEF W, parts, seps
  <1>4. Len(parts) \in Nat /\ DOMAIN parts = 1..Len(parts)
    BY <1>2, LenProperties
  <1>5. ASSUME NEW k \in DOMAIN parts PROVE (IF parts[k] = <<>> THEN Blank ELSE parts[k][1]) \in Segment
    <2>1. CASE parts[k] = <<>>
      BY <1>3, <2>1
    <2>2. CASE parts[k] # <<>>
      <3>1. parts[k] \in Seq(W \ seps)
        BY <1>2
      <3>2. parts[k][1] \in W \ seps
        BY <2>2, <3>1, FirstElement
      <3> QED BY <1>3, <2>2, <3>2
    <2> QED BY <2>1, <2>2
  <1>6. Segments(l) = [k \in DOMAIN parts |-> IF parts[k] = <<>> THEN Blank ELSE parts[k][1]]
    BY DEF Segments, parts, seps
  <1>7. Segments(l) \in [1..Len(parts) -> Segment]
    BY <1>4, <1>5, <1>6
  <1> QED BY <1>4, <1>7, SeqDef
\* The release, and the rest but for the local label, of any text of strings.
LEMMA ParseParts ==
  ASSUME NEW T, NEW t \in Seq(T), ParseVersion(t).ok
  PROVE  \E e \in Nat, r \in Seq(Nat), k \in DOMAIN Rank, n \in Nat, p \in Nat \cup {-1}, d \in Nat \cup {-1} :
           /\ k = Blank => n = 0
           /\ ParseVersion(t) = [ok |-> TRUE, epoch |-> e, release |-> r, preKind |-> k, preNum |-> n, post |-> p, dev |-> d,
                local |-> IF First(t, "+") = 0 THEN <<>> ELSE Segments(From(t, First(t, "+") + 1))]
           /\ First(t, "+") # 0 =>
                \A i \in DOMAIN From(t, First(t, "+") + 1) : From(t, First(t, "+") + 1)[i] \notin {"!", "+", " "}
PROOF
  <1> DEFINE plus  == First(t, "+")
             local == IF plus = 0 THEN <<>> ELSE From(t, plus + 1)
             main  == IF plus = 0 THEN t ELSE Upto(t, plus - 1)
             bang  == First(main, "!")
             epoch == Upto(main, bang - 1)
             rest  == IF bang = 0 THEN main ELSE From(main, bang + 1)
             dev   == Counter(rest, ".dev")
             post  == Counter(dev.rest, ".post")
             pre   == SplitPre(post.rest)
             bad   == \/ t = <<>> \/ t[1] = "v" \/ " " \in {t[1], t[Len(t)]}
                      \/ plus # 0 /\ (local = <<>> \/ \E i \in DOMAIN local : local[i] \in {"!", "+", " "})
                      \/ bang # 0 /\ ~IsNumber(epoch)
                      \/ ~dev.ok \/ ~post.ok \/ ~IsRelease(pre.rest)
             v     == [ok |-> TRUE, epoch |-> IF bang = 0 THEN 0 ELSE Atoi[epoch[1]],
                       release |-> ReleaseOf(pre.rest), preKind |-> pre.kind, preNum |-> pre.num,
                       post |-> post.n, dev |-> dev.n,
                       local |-> IF plus = 0 THEN <<>> ELSE Segments(local)]
  <1>1. ParseVersion(t) = IF bad THEN Bad ELSE v
    BY DEF ParseVersion
  <1>2. ~bad /\ ParseVersion(t) = v
    <2>1. ~Bad.ok
      BY DEF Bad
    <2> HIDE DEF bad, v
    <2>2. CASE bad
      BY <1>1, <2>1, <2>2
    <2> QED BY <1>1, <2>2
  <1>3. Len(t) \in Nat /\ plus \in 0..Len(t)
    BY LenProperties, Positions
  <1>4. main \in Seq(T)
    <2>1. plus # 0 => plus - 1 \in Int /\ plus - 1 <= Len(t)
      BY <1>3
    <2>2. plus # 0 => Upto(t, plus - 1) \in Seq(T)
      BY <2>1, Pieces
    <2> QED BY <2>2
  <1> HIDE DEF main
  <1>5. Len(main) \in Nat /\ bang \in 0..Len(main)
    BY <1>4, LenProperties, Positions
  <1>6. rest \in Seq(T)
    <2>1. bang # 0 => bang + 1 \in Int /\ bang + 1 >= 1
      BY <1>5
    <2>2. bang # 0 => From(main, bang + 1) \in Seq(T)
      BY <1>4, <2>1, Pieces
    <2> QED BY <1>4, <2>2
  <1>7. dev.n \in Nat \cup {-1} /\ dev.rest \in Seq(T)
    BY <1>6, CounterType
  <1>8. post.n \in Nat \cup {-1} /\ post.rest \in Seq(T)
    BY <1>7, CounterType
  <1>9. pre.kind \in DOMAIN Rank /\ pre.num \in Nat /\ pre.rest \in Seq(T) /\ (pre.kind = Blank => pre.num = 0)
    BY <1>8, SplitPreType
  <1>10. ReleaseOf(pre.rest) \in Seq(Nat)
    <2>1. IsRelease(pre.rest)
      BY <1>2
    <2> QED BY <1>9, <2>1, ReleaseType
  <1>11. (IF bang = 0 THEN 0 ELSE Atoi[epoch[1]]) \in Nat
    <2>1. bang # 0 => epoch[1] \in DOMAIN Atoi
      BY <1>2 DEF IsNumber
    <2> QED BY <2>1, Tables
  <1>12. plus # 0 => \A i \in DOMAIN From(t, plus + 1) : From(t, plus + 1)[i] \notin {"!", "+", " "}
    BY <1>2
  <1> DEFINE lab == IF plus = 0 THEN <<>> ELSE Segments(From(t, plus + 1))
             eph == IF bang = 0 THEN 0 ELSE Atoi[epoch[1]]
  <1>13. ParseVersion(t) = [ok |-> TRUE, epoch |-> eph, release |-> ReleaseOf(pre.rest), preKind |-> pre.kind,
                            preNum |-> pre.num, post |-> post.n, dev |-> dev.n, local |-> lab]
    <2>1. (IF plus = 0 THEN <<>> ELSE Segments(local)) = lab
      OBVIOUS
    <2> HIDE DEF bad, pre, post, dev, rest, bang, plus, epoch, local, lab
    <2> QED BY <1>2, <2>1
  <1>14. eph \in Nat
    BY <1>11
  <1> HIDE DEF bad, pre, post, dev, rest, bang, epoch, eph
  <1>15. /\ ReleaseOf(pre.rest) \in Seq(Nat) /\ pre.kind \in DOMAIN Rank /\ pre.num \in Nat
         /\ post.n \in Nat \cup {-1} /\ dev.n \in Nat \cup {-1}
    BY <1>7, <1>8, <1>9, <1>10
  <1> USE <1>14, <1>15
  <1> WITNESS eph \in Nat, ReleaseOf(pre.rest) \in Seq(Nat), pre.kind \in DOMAIN Rank, pre.num \in Nat,
              post.n \in Nat \cup {-1}, dev.n \in Nat \cup {-1}
  <1> QED BY <1>9, <1>12, <1>13
\* What Parse accepts of a version text is a version.
LEMMA ParseIsVersion ==
  ASSUME NEW t \in VersionTexts, ParseVersion(t).ok
  PROVE  IsVersion(ParseVersion(t))
PROOF
  <1> DEFINE plus == First(t, "+")
             l == From(t, plus + 1)
             lab == IF plus = 0 THEN <<>> ELSE Segments(l)
  <1>1. t \in Seq(STRING) /\ \A i, j \in DOMAIN t : t[i] = "+" /\ i < j => t[j] \in LocalTokens
    BY VersionTextsAssumption
  <1>2. PICK e \in Nat, r \in Seq(Nat), k \in DOMAIN Rank, n \in Nat, p \in Nat \cup {-1}, d \in Nat \cup {-1} :
           /\ k = Blank => n = 0
           /\ ParseVersion(t) = [ok |-> TRUE, epoch |-> e, release |-> r, preKind |-> k, preNum |-> n, post |-> p, dev |-> d,
                local |-> lab]
           /\ plus # 0 => \A i \in DOMAIN l : l[i] \notin {"!", "+", " "}
    BY <1>1, ParseParts
  <1>3. Len(t) \in Nat /\ DOMAIN t = 1..Len(t) /\ plus \in 0..Len(t) /\ (plus # 0 => t[plus] = "+")
    BY <1>1, LenProperties, Positions
  <1>4. lab \in Seq(Segment)
    <2>1. CASE plus = 0
      BY <2>1, EmptySeq
    <2>2. CASE plus # 0
      <3>1. plus + 1 \in Int /\ plus + 1 >= 1 /\ plus \in DOMAIN t
        BY <1>3, <2>2
      <3>2. ASSUME NEW i \in (plus + 1)..Len(t) PROVE t[i] \in LocalTokens
        <4>1. i \in DOMAIN t /\ plus < i
          BY <1>3, <3>1, <3>2
        <4> QED BY <1>1, <1>3, <2>2, <3>1, <4>1
      <3>3. l \in Seq(LocalTokens)
        BY <1>3, <3>1, <3>2, SubSeqProperties DEF From
      <3>4. Segments(l) \in Seq(Segment)
        BY <1>2, <2>2, <3>3, SegmentsType
      <3> QED BY <2>2, <3>4
    <2> QED BY <2>1, <2>2
  <1> HIDE DEF lab, l, plus
  <1>5. /\ ParseVersion(t) = [ok |-> TRUE, epoch |-> e, release |-> r, preKind |-> k, preNum |-> n, post |-> p, dev |-> d,
                               local |-> lab]
        /\ k = Blank => n = 0
    BY <1>2
  <1> DEFINE v == ParseVersion(t)
             VT == [ok : {TRUE}, epoch : Nat, release : Seq(Nat), preKind : DOMAIN Rank, preNum : Nat,
                    post : Nat \cup {-1}, dev : Nat \cup {-1}, local : Seq(Segment)]
             R == DOMAIN Rank
             Q == Seq(Segment)
  <1>6. v \in VT
    <2> HIDE DEF v
    <2>1. k \in R /\ lab \in Q /\ VT = [ok : {TRUE}, epoch : Nat, release : Seq(Nat), preKind : R, preNum : Nat,
                    post : Nat \cup {-1}, dev : Nat \cup {-1}, local : Q]
      BY <1>4
    <2> HIDE DEF R, Q, VT
    <2> QED BY <1>5, <2>1 DEF v
  <1>7. v.preKind = Blank => v.preNum = 0
    BY <1>5
  <1> QED BY <1>6, <1>7 DEF IsVersion, Segment

\* Trimming a text leaves a text.
LEMMA TrimmedType ==
  ASSUME NEW T, NEW s \in Seq(T)
  PROVE  Trimmed(s) \in Seq(T)
PROOF
  <1> DEFINE kept == {i \in DOMAIN s : s[i] # " "}
             a == CHOOSE i \in kept : \A j \in kept : i <= j
             b == CHOOSE i \in kept : \A j \in kept : j <= i
  <1>1. Len(s) \in Nat /\ DOMAIN s = 1..Len(s) /\ (\A i \in 1..Len(s) : s[i] \in T) /\ kept \in SUBSET (1..Len(s))
    BY LenProperties
  <1>2. CASE kept = {}
    <2>1. Trimmed(s) = <<>>
      BY <1>2 DEF Trimmed
    <2> QED BY <2>1, EmptySeq
  <1>3. CASE kept # {}
    <2>1. a \in kept
      BY <1>1, <1>3, FirstIndex
    <2>2. b \in kept
      BY <1>1, <1>3, LastIndex
    <2>3. Trimmed(s) = SubSeq(s, a, b)
      BY <1>3 DEF Trimmed
    <2> HIDE DEF a, b
    <2>4. a \in 1..Len(s) /\ b \in 1..Len(s)
      BY <1>1, <2>1, <2>2
    <2> HIDE DEF kept
    <2>5. a \in Int /\ b \in Int
      BY <1>1, <2>4
    <2>6. ASSUME NEW i \in a..b PROVE s[i] \in T
      <3>1. i \in 1..Len(s)
        BY <1>1, <2>4, <2>5, <2>6
      <3> QED BY <1>1, <3>1
    <2> QED BY <2>3, <2>5, <2>6, SubSeqProperties
  <1> QED BY <1>2, <1>3

\* Every clause of a specifier names a version that Parse accepted.
LEMMA ClauseVersion ==
  ASSUME NEW T, NEW text \in Seq(T), ParseSpecifier(text).ok, NEW i \in DOMAIN ParseSpecifier(text).clauses
  PROVE  ParseSpecifier(text).clauses[i].version.release \in Seq(Nat)
PROOF
  <1> DEFINE trim == Trimmed(text)
             parts == IF trim = <<>> THEN <<>> ELSE Split(trim, {","})
             parsed == [k \in DOMAIN parts |-> ParseClause(parts[k])]
  <1>1. ParseSpecifier(text) = SpecifierOf(parsed)
    BY DEF ParseSpecifier
  <1> HIDE DEF parsed
  <1>2. ParseSpecifier(text) = [ok |-> TRUE, clauses |-> parsed] /\ \A k \in DOMAIN parsed : parsed[k].ok
    <2>1. CASE \A k \in DOMAIN parsed : parsed[k].ok
      BY <1>1, <2>1 DEF SpecifierOf
    <2>2. CASE ~\A k \in DOMAIN parsed : parsed[k].ok
      <3>1. ParseSpecifier(text) = [ok |-> FALSE]
        BY <1>1, <2>2 DEF SpecifierOf, Bad
      <3> QED BY <3>1
    <2> QED BY <2>1, <2>2
  <1>3. ParseSpecifier(text).clauses = parsed
    BY <1>2
  <1>4. i \in DOMAIN parts /\ parsed[i] = ParseClause(parts[i]) /\ parsed[i].ok
    BY <1>2, <1>3 DEF parsed
  <1>5. trim \in Seq(T)
    BY TrimmedType
  <1> HIDE DEF trim
  <1>6. parts[i] \in Seq(T)
    <2>1. trim # <<>>
      <3>1. trim = <<>> => DOMAIN parts = {}
        <4>1. trim = <<>> => parts = <<>>
          OBVIOUS
        <4> HIDE DEF parts
        <4> QED BY <4>1
      <3> HIDE DEF parts
      <3> QED BY <1>4, <3>1
    <2>2. parts = Split(trim, {","})
      BY <2>1
    <2>3. parts[i] \in Seq(T \ {","})
      BY <1>4, <1>5, <2>2, SplitParts
    <2>4. T \ {","} \subseteq T
      OBVIOUS
    <2> QED BY <2>3, <2>4, SeqMonotonic
  <1> HIDE DEF parts
  <1> DEFINE src == Trimmed(parts[i])
             rest == Trimmed(Tail(src))
  <1>7. src \in Seq(T)
    BY <1>6, TrimmedType
  <1>8. ParseClause(parts[i]).ok
    BY <1>4
  <1>9. ~Bad.ok
    BY DEF Bad
  <1>10. src # <<>> /\ ParseClause(parts[i]) = ClauseOf(src[1], ParseVersion(rest))
    <2>1. ParseClause(parts[i]) =
            IF src = <<>> THEN Bad ELSE IF src[1] \notin Operators THEN Bad ELSE ClauseOf(src[1], ParseVersion(rest))
      BY DEF ParseClause
    <2> QED BY <1>8, <1>9, <2>1
  <1> HIDE DEF src
  <1>11. rest \in Seq(T)
    <2>1. Tail(src) \in Seq(T)
      BY <1>7, <1>10, HeadTailProperties
    <2> QED BY <2>1, TrimmedType
  <1> HIDE DEF rest
  <1>12. ParseVersion(rest).ok /\ ParseClause(parts[i]) = [ok |-> TRUE, op |-> src[1], version |-> ParseVersion(rest)]
    <2>1. CASE ParseVersion(rest).ok
      BY <1>10, <2>1 DEF ClauseOf
    <2>2. CASE ~ParseVersion(rest).ok
      BY <1>8, <1>9, <1>10, <2>2 DEF ClauseOf
    <2> QED BY <2>1, <2>2
  <1>13. ParseVersion(rest).release \in Seq(Nat)
    <2>1. PICK e \in Nat, r \in Seq(Nat), k \in DOMAIN Rank, n \in Nat, p \in Nat \cup {-1}, d \in Nat \cup {-1} :
            ParseVersion(rest) = [ok |-> TRUE, epoch |-> e, release |-> r, preKind |-> k, preNum |-> n, post |-> p, dev |-> d,
              local |-> IF First(rest, "+") = 0 THEN <<>> ELSE Segments(From(rest, First(rest, "+") + 1))]
      BY <1>11, <1>12, ParseParts
    <2> QED BY <2>1
  <1>14. parsed[i].version = ParseVersion(rest)
    BY <1>4, <1>12
  <1> QED BY <1>3, <1>13, <1>14

\* A result is what the function says of its argument.
SemverInv ==
  \/ /\ subject = "semver.Parse" /\ in \in VersionTexts \X VersionTexts \X VersionTexts
     /\ out = <<>> \/ out = <<ParseThree(in)>>
  \/ /\ subject = "semver.Match" /\ in \in SpecifierTexts \X VersionTexts
     /\ out = <<>> \/ out = <<ParseAndMatch(in)>>

\* The order holds on whatever Parse returned of the version texts.
LEMMA ParseOrdered == SemverInv => TotalOrder /\ PhaseOrder
PROOF
  <1> SUFFICES ASSUME SemverInv, Returned("semver.Parse") PROVE TotalOrder /\ PhaseOrder
    BY DEF TotalOrder, PhaseOrder
  <1> DEFINE v == out[1]
  <1>1. in \in VersionTexts \X VersionTexts \X VersionTexts /\ v = ParseThree(in)
    BY DEF SemverInv, Returned
  <1>2. \A i \in 1..3 : in[i] \in VersionTexts /\ v[i] = ParseVersion(in[i])
    BY <1>1 DEF ParseThree
  <1>3. ASSUME NEW i \in 1..3, v[i].ok PROVE IsVersion(v[i])
    BY <1>2, <1>3, ParseIsVersion
  <1> HIDE DEF v
  <1>4. (\A i \in 1..3 : v[i].ok) => (\A i \in 1..3 : IsVersion(v[i])) /\ InOrder(v[1], v[2], v[3])
    BY <1>3, CompareIsAnOrder
  <1>5. (\A i \in 1..2 : v[i].ok) => Phased(v[1], v[2])
    BY <1>3, PhasesFollow
  <1> QED BY <1>4, <1>5 DEF v, TotalOrder, PhaseOrder

\* ~= accepts what lies at or above the clause's version and has its prefix.
LEMMA MatchCompatibly == SemverInv => CompatibleRelease
PROOF
  <1> SUFFICES ASSUME SemverInv, Returned("semver.Match"), out[1].ok, NEW i \in DOMAIN out[1].spec.clauses,
                      out[1].spec.clauses[i].op = "~=", out[1].v.epoch = out[1].spec.clauses[i].version.epoch,
                      Len(out[1].v.release) >= Len(out[1].spec.clauses[i].version.release) - 1
               PROVE  LET c == out[1].spec.clauses[i]
                          n == Len(c.version.release) - 1
                          v == out[1].v
                      IN MatchClause(c, v) <=> n > 0 /\ Compare(v, c.version) >= 0 /\ Prefixed(v, c.version, n)
    BY DEF CompatibleRelease
  <1> DEFINE spec == ParseSpecifier(in[1])
             ver == ParseVersion(in[2])
             c == out[1].spec.clauses[i]
             v == out[1].v
             n == Len(c.version.release) - 1
  <1>1. in \in SpecifierTexts \X VersionTexts /\ out[1] = Matched(spec, ver)
    BY DEF SemverInv, Returned, ParseAndMatch
  <1>2. in[1] \in Seq(STRING) /\ in[2] \in VersionTexts
    BY <1>1, VersionTextsAssumption
  <1> HIDE DEF spec, ver
  <1>3. spec.ok /\ ver.ok /\ out[1].spec = spec /\ v = ver
    <2>1. CASE spec.ok /\ ver.ok
      BY <1>1, <2>1 DEF Matched
    <2>2. CASE ~(spec.ok /\ ver.ok)
      <3>1. out[1] = [ok |-> FALSE]
        BY <1>1, <2>2 DEF Matched, Bad
      <3> QED BY <3>1
    <2> QED BY <2>1, <2>2
  <1>4. c.version.release \in Seq(Nat)
    BY <1>2, <1>3, ClauseVersion DEF spec
  <1>5. v.release \in Seq(Nat)
    <2>1. IsVersion(ver)
      BY <1>2, <1>3, ParseIsVersion DEF ver
    <2> QED BY <1>3, <2>1 DEF IsVersion
  <1>6. c.op = "~=" /\ v.epoch = c.version.epoch /\ Len(v.release) >= n
    OBVIOUS
  <1> HIDE DEF c, v
  <1>7. MatchClause(c, v) <=> MatchCompatible(v, c.version)
    BY <1>6 DEF MatchClause
  <1>8. Len(v.release) \in Nat /\ n \in Int
    BY <1>4, <1>5, LenProperties
  <1>9. MatchCompatible(v, c.version) <=>
          Compare(v, c.version) >= 0 /\ n > 0 /\ \A k \in 1..n : v.release[k] = c.version.release[k]
    BY <1>6 DEF MatchCompatible
  <1>10. \A k \in 1..n : At(v.release, k, 0) = v.release[k]
    BY <1>6, <1>8 DEF At
  <1>11. MatchClause(c, v) <=> n > 0 /\ Compare(v, c.version) >= 0 /\ Prefixed(v, c.version, n)
    BY <1>6, <1>7, <1>9, <1>10 DEF Prefixed
  <1> QED BY <1>11 DEF c, v

\* Parse and Compare: the versions Parse makes of any texts are ordered, and
\* ordered as PEP 440 says; Match's ~= follows that order.
THEOREM VersionsAreOrdered == SemverSpec => []VersionOrder
PROOF
  <1>1. SemverInit => SemverInv
    BY DEF SemverInit, Called, SemverInv
  <1>2. SemverInv /\ [SemverNext]_evalVars => SemverInv'
    <2> SUFFICES ASSUME SemverInv, [SemverNext]_evalVars PROVE SemverInv'
      OBVIOUS
    <2>1. CASE CallParse
      <3>1. subject = "semver.Parse" /\ subject' = subject /\ in' = in /\ out' = <<ParseThree(in)>>
        BY <2>1 DEF CallParse, Evaluate
      <3>2. in \in VersionTexts \X VersionTexts \X VersionTexts
        BY <3>1 DEF SemverInv
      <3> QED BY <3>1, <3>2 DEF SemverInv
    <2>2. CASE CallMatch
      <3>1. subject = "semver.Match" /\ subject' = subject /\ in' = in /\ out' = <<ParseAndMatch(in)>>
        BY <2>2 DEF CallMatch, Evaluate
      <3>2. in \in SpecifierTexts \X VersionTexts
        BY <3>1 DEF SemverInv
      <3> QED BY <3>1, <3>2 DEF SemverInv
    <2>3. CASE UNCHANGED evalVars
      BY <2>3 DEF evalVars, SemverInv
    <2> QED BY <2>1, <2>2, <2>3 DEF SemverNext
  <1>3. SemverInv => VersionOrder
    BY ParseOrdered, MatchCompatibly DEF VersionOrder
  <1> QED BY <1>1, <1>2, <1>3, PTL DEF SemverSpec

-----------------------------------------------------------------------------
(* SimpleIndex: hashes and listings.                                       *)

EntrySet == [filename : STRING, hashes : Seq(STRING \X STRING), yanked : STRING,
             core : BOOLEAN, distInfo : BOOLEAN]

\* The digests of an entry as the client keeps them.
LEMMA HashesOfEntry ==
  ASSUME NEW l \in Listings, NEW i \in DOMAIN l
  PROVE  /\ DOMAIN HashMap(l[i].hashes) = {LowerHash(l[i].hashes[k])[1] : k \in DOMAIN l[i].hashes}
         /\ \A k \in DOMAIN l[i].hashes : HashMap(l[i].hashes)[LowerHash(l[i].hashes[k])[1]] = LowerHash(l[i].hashes[k])[2]
PROOF
  <1> DEFINE hs == l[i].hashes
             low == {LowerHash(hs[k]) : k \in DOMAIN hs}
  <1>1. \A j, k \in DOMAIN hs : LowerHash(hs[j])[1] = LowerHash(hs[k])[1] => j = k
    BY ListingsAssumption
  <1> HIDE DEF hs
  <1>2. HashMap(hs) = [a \in {h[1] : h \in low} |-> (CHOOSE h \in low : h[1] = a)[2]]
    BY DEF HashMap
  <1>3. \A g, h \in low : g[1] = h[1] => g = h
    BY <1>1
  <1>4. \A h \in low : (CHOOSE g \in low : g[1] = h[1]) = h
    BY <1>3
  <1>5. \A k \in DOMAIN hs : LowerHash(hs[k]) \in low
    OBVIOUS
  <1>6. DOMAIN HashMap(hs) = {h[1] : h \in low}
    BY <1>2
  <1>7. {h[1] : h \in low} = {LowerHash(hs[k])[1] : k \in DOMAIN hs}
    OBVIOUS
  <1> HIDE DEF low
  <1>8. \A h \in low : HashMap(hs)[h[1]] = h[2]
    <2> SUFFICES ASSUME NEW h \in low PROVE HashMap(hs)[h[1]] = h[2]
      OBVIOUS
    <2>1. h[1] \in {g[1] : g \in low}
      OBVIOUS
    <2>2. HashMap(hs)[h[1]] = (CHOOSE g \in low : g[1] = h[1])[2]
      BY <1>2, <2>1, Zenon
    <2> QED BY <1>4, <2>2
  <1>9. \A k \in DOMAIN hs : HashMap(hs)[LowerHash(hs[k])[1]] = LowerHash(hs[k])[2]
    BY <1>5, <1>8
  <1> QED BY <1>6, <1>7, <1>9 DEF hs

\* What matches the client's digests of an entry matches the index's.
LEMMA MatchesListed ==
  ASSUME NEW l \in Listings, NEW i \in DOMAIN l, NEW bytes, HashesMatch(bytes, HashMap(l[i].hashes))
  PROVE  ListedDigests(l[i]) = {bytes} /\ bytes # "cut"
PROOF
  <1> DEFINE hs == l[i].hashes
             map == HashMap(hs)
  <1>1. /\ DOMAIN map = {LowerHash(hs[k])[1] : k \in DOMAIN hs}
        /\ \A k \in DOMAIN hs : map[LowerHash(hs[k])[1]] = LowerHash(hs[k])[2]
    BY HashesOfEntry
  <1>2. SupportedHashAlgos \cap DOMAIN map # {} /\ \A a \in SupportedHashAlgos \cap DOMAIN map : map[a] = bytes
    BY DEF HashesMatch
  <1>3. \A k \in DOMAIN hs : hs[k][2] # "cut" /\ LowerHash(hs[k])[2] = hs[k][2]
    BY ListingsAssumption DEF LowerHash
  <1>4. ListedDigests(l[i]) = {h[2] : h \in {h \in {LowerHash(hs[k]) : k \in DOMAIN hs} : h[1] \in SupportedHashAlgos}}
    BY DEF ListedDigests
  <1> HIDE DEF hs, map
  <1>5. \A k \in DOMAIN hs : LowerHash(hs[k])[1] \in SupportedHashAlgos => LowerHash(hs[k])[2] = bytes
    BY <1>1, <1>2
  <1>6. PICK k \in DOMAIN hs : LowerHash(hs[k])[1] \in SupportedHashAlgos
    BY <1>1, <1>2
  <1>7. bytes \in ListedDigests(l[i])
    BY <1>4, <1>5, <1>6
  <1>8. \A d \in ListedDigests(l[i]) : d = bytes
    BY <1>4, <1>5
  <1> QED BY <1>3, <1>5, <1>6, <1>7, <1>8

\* The file each parser makes of an entry.
Reason(e) == IF e.yanked = "no" THEN "" ELSE e.yanked
ObjectFile(e) == File(e.filename, HashMap(e.hashes), e.yanked # "no", Reason(e), e.core)
AnchorFile(e) == File(e.filename, HashMap(e.hashes), e.yanked # "no",
                      IF e.yanked = "no" THEN "" ELSE TrimSpace(e.yanked), e.core \/ e.distInfo)
AsAnchors(l) == [i \in DOMAIN l |-> AsAnchor(l[i])]
AsObjects(l) == [i \in DOMAIN l |-> AsObject(l[i])]
ListedFiles(l) == [i \in DOMAIN l |-> ObjectFile(l[i])]
Anchored(l) == [i \in DOMAIN l |-> ParseAnchor(AsAnchor(l[i]))]

LEMMA ParsedEntries ==
  ASSUME NEW e
  PROVE  /\ ParseObject(AsObject(e)) = ObjectFile(e)
         /\ ParseAnchor(AsAnchor(e)) = IF e.filename = "" THEN <<>> ELSE <<AnchorFile(e)>>
PROOF BY DEF ParseObject, AsObject, ParseAnchor, AsAnchor, ObjectFile, AnchorFile, Reason

LEMMA ParsedFiles ==
  ASSUME NEW l
  PROVE  /\ ParseHTML(Name, AsAnchors(l)).ok =>
              ParseHTML(Name, AsAnchors(l)) = [ok |-> TRUE, name |-> Normalise(Name), files |-> FlattenSeq(Anchored(l))]
         /\ ParseJSON(Name, AsObjects(l)).ok =>
              /\ \A i \in DOMAIN l : l[i].filename # ""
              /\ ParseJSON(Name, AsObjects(l)) = [ok |-> TRUE, name |-> Normalise(Name), files |-> ListedFiles(l)]
PROOF
  <1>1. DOMAIN AsAnchors(l) = DOMAIN l /\ \A i \in DOMAIN l : AsAnchors(l)[i] = AsAnchor(l[i])
    BY DEF AsAnchors
  <1>2. DOMAIN AsObjects(l) = DOMAIN l /\ \A i \in DOMAIN l : AsObjects(l)[i] = AsObject(l[i])
    BY DEF AsObjects
  <1>3. [i \in DOMAIN AsAnchors(l) |-> ParseAnchor(AsAnchors(l)[i])] = Anchored(l)
    BY <1>1 DEF Anchored
  <1>4. [i \in DOMAIN AsObjects(l) |-> ParseObject(AsObjects(l)[i])] = ListedFiles(l)
    BY <1>2, ParsedEntries DEF ListedFiles
  <1>5. ~Bad.ok
    BY DEF Bad
  <1>6. ParseHTML(Name, AsAnchors(l)).ok => ~\E i \in DOMAIN AsAnchors(l) : AnchorFails(AsAnchors(l)[i])
    BY <1>5 DEF ParseHTML
  <1>7. ParseJSON(Name, AsObjects(l)).ok =>
          ~(Name = <<>> \/ \E i \in DOMAIN AsObjects(l) : "" \in {AsObjects(l)[i].filename, AsObjects(l)[i].url})
    BY <1>5 DEF ParseJSON
  <1>8. \A i \in DOMAIN l : AsObject(l[i]).filename = l[i].filename
    BY DEF AsObject
  <1>9. ASSUME ParseHTML(Name, AsAnchors(l)).ok
        PROVE  ParseHTML(Name, AsAnchors(l)) = [ok |-> TRUE, name |-> Normalise(Name), files |-> FlattenSeq(Anchored(l))]
    BY <1>3, <1>6, <1>9 DEF ParseHTML
  <1>10. ASSUME ParseJSON(Name, AsObjects(l)).ok
         PROVE  /\ \A i \in DOMAIN l : l[i].filename # ""
                /\ ParseJSON(Name, AsObjects(l)) = [ok |-> TRUE, name |-> Normalise(Name), files |-> ListedFiles(l)]
    <2>1. \A i \in DOMAIN l : l[i].filename # ""
      BY <1>2, <1>7, <1>8, <1>10
    <2> QED BY <1>4, <1>7, <1>10, <2>1 DEF ParseJSON
  <1> QED BY <1>9, <1>10

\* In either format, a file is the one of some entry.
LEMMA FilesAreListed ==
  ASSUME NEW l \in Listings, NEW p, p.ok, p = ParseHTML(Name, AsAnchors(l)) \/ p = ParseJSON(Name, AsObjects(l)),
         NEW k \in DOMAIN p.files
  PROVE  \E i \in DOMAIN l : p.files[k] \in {ObjectFile(l[i]), AnchorFile(l[i])}
PROOF
  <1>1. l \in Seq(EntrySet) /\ Len(l) \in Nat /\ DOMAIN l = 1..Len(l)
    BY ListingsAssumption DEF EntrySet
  <1>2. CASE p = ParseJSON(Name, AsObjects(l))
    <2>1. p.files = ListedFiles(l)
      <3>1. ParseJSON(Name, AsObjects(l)).ok
        BY <1>2, Zenon
      <3>2. ParseJSON(Name, AsObjects(l)) = [ok |-> TRUE, name |-> Normalise(Name), files |-> ListedFiles(l)]
        BY <3>1, ParsedFiles
      <3> QED BY <1>2, <3>2
    <2> QED BY <2>1 DEF ListedFiles
  <1>3. CASE p = ParseHTML(Name, AsAnchors(l))
    <2> DEFINE S == {AnchorFile(l[i]) : i \in DOMAIN l}
               ss == Anchored(l)
    <2>1. p.files = FlattenSeq(ss)
      <3>1. ParseHTML(Name, AsAnchors(l)).ok
        BY <1>3, Zenon
      <3>2. ParseHTML(Name, AsAnchors(l)) = [ok |-> TRUE, name |-> Normalise(Name), files |-> FlattenSeq(ss)]
        BY <3>1, ParsedFiles
      <3> QED BY <1>3, <3>2
    <2>2. \A i \in DOMAIN l : ss[i] = IF l[i].filename = "" THEN <<>> ELSE <<AnchorFile(l[i])>>
      BY ParsedEntries DEF Anchored
    <2>3. \A i \in DOMAIN l : ss[i] \in Seq(S) /\ Entries(ss[i]) \subseteq S
      <3> SUFFICES ASSUME NEW i \in DOMAIN l PROVE ss[i] \in Seq(S) /\ Entries(ss[i]) \subseteq S
        OBVIOUS
      <3>1. AnchorFile(l[i]) \in S
        OBVIOUS
      <3> HIDE DEF S, ss
      <3>2. <<>> \in Seq(S) /\ Entries(<<>>) = {}
        BY DEF Entries
      <3>3. <<AnchorFile(l[i])>> \in Seq(S)
        BY <3>1
      <3>4. Entries(<<AnchorFile(l[i])>>) = {AnchorFile(l[i])}
        <4>1. \A x : DOMAIN <<x>> = {1} /\ <<x>>[1] = x
          OBVIOUS
        <4>2. \A x : Entries(<<x>>) = {x}
          BY <4>1 DEF Entries
        <4> QED BY <4>2
      <3>5. ss[i] = <<>> \/ ss[i] = <<AnchorFile(l[i])>>
        BY <2>2
      <3> QED BY <3>1, <3>2, <3>3, <3>4, <3>5
    <2>4. ss \in Seq(Seq(S)) /\ DOMAIN ss = DOMAIN l
      <3>1. ss = [i \in DOMAIN l |-> ss[i]]
        BY DEF Anchored
      <3> HIDE DEF S, ss
      <3> QED BY <1>1, <2>3, <3>1
    <2> HIDE DEF S, ss
    <2>5. Entries(FlattenSeq(ss)) = UNION {Entries(ss[i]) : i \in DOMAIN ss}
      BY <2>4, FlattenEntries
    <2>6. p.files[k] \in Entries(FlattenSeq(ss))
      BY <2>1 DEF Entries
    <2>7. p.files[k] \in S
      BY <2>3, <2>4, <2>5, <2>6
    <2> QED BY <2>7 DEF S
  <1> QED BY <1>2, <1>3

\* Where both formats can be read, the files of one follow from those of the other.
LEMMA FormatsSame ==
  ASSUME NEW l \in Listings, ParseHTML(Name, AsAnchors(l)).ok, ParseJSON(Name, AsObjects(l)).ok
  PROVE  /\ ParseHTML(Name, AsAnchors(l)).name = ParseJSON(Name, AsObjects(l)).name
         /\ ParseHTML(Name, AsAnchors(l)).files =
              [i \in DOMAIN ParseJSON(Name, AsObjects(l)).files |->
                 SeenInHTML(ParseJSON(Name, AsObjects(l)).files[i], l[i])]
PROOF
  <1> DEFINE S == {AnchorFile(l[i]) : i \in DOMAIN l}
             s == [i \in DOMAIN l |-> AnchorFile(l[i])]
             js == ListedFiles(l)
  <1>1. l \in Seq(EntrySet) /\ Len(l) \in Nat /\ DOMAIN l = 1..Len(l)
    BY ListingsAssumption DEF EntrySet
  <1>2. s \in Seq(S) /\ DOMAIN s = DOMAIN l
    BY <1>1
  <1>3. \A i \in DOMAIN l : l[i].filename # ""
    BY ParsedFiles
  <1>4. \A i \in DOMAIN l : ParseAnchor(AsAnchor(l[i])) = <<s[i]>>
    BY <1>3, ParsedEntries
  <1>5. Anchored(l) = [i \in DOMAIN s |-> <<s[i]>>]
    BY <1>2, <1>4 DEF Anchored
  <1>6. \A i \in DOMAIN l : s[i] = SeenInHTML(js[i], l[i])
    <2> SUFFICES ASSUME NEW i \in DOMAIN l PROVE AnchorFile(l[i]) = SeenInHTML(ObjectFile(l[i]), l[i])
      BY DEF ListedFiles
    <2>1. TrimSpace("") = ""
      BY DEF TrimSpace
    <2> QED BY <2>1 DEF AnchorFile, ObjectFile, Reason, SeenInHTML, File
  <1>7. DOMAIN js = DOMAIN l
    BY DEF ListedFiles
  <1>8. s = [i \in DOMAIN js |-> SeenInHTML(js[i], l[i])]
    BY <1>6, <1>7
  <1> HIDE DEF S, s
  <1>9. FlattenSeq(Anchored(l)) = s
    BY <1>2, <1>5, FlattenSingletons
  <1>10. ParseJSON(Name, AsObjects(l)) = [ok |-> TRUE, name |-> Normalise(Name), files |-> js]
    BY ParsedFiles
  <1>11. ParseHTML(Name, AsAnchors(l)) = [ok |-> TRUE, name |-> Normalise(Name), files |-> s]
    BY <1>9, ParsedFiles
  <1> HIDE DEF js
  <1>12. \A n, f : [ok |-> TRUE, name |-> n, files |-> f].name = n /\ [ok |-> TRUE, name |-> n, files |-> f].files = f
    OBVIOUS
  <1> QED BY <1>8, <1>10, <1>11, <1>12

-----------------------------------------------------------------------------
(* SimpleIndex: the client against an index that changes.                  *)

\* The files the client holds were listed together, whatever the index lists now.
ProjectListed ==
  project # <<>> =>
    \E l \in Listings : \A k \in DOMAIN project[1].files : \E i \in DOMAIN l :
      project[1].files[k] \in {ObjectFile(l[i]), AnchorFile(l[i])}
IndexInv ==
  /\ subject = "simple" /\ index.entries \in Listings
  /\ ProjectListed
  /\ body # <<>> => project # <<>> /\ chosen \in DOMAIN project[1].files
  /\ verdict = "accepted" => body # <<>> /\ HashesMatch(body[1], project[1].files[chosen].hashes)

LEMMA IndexStep == IndexInv /\ [IndexNext]_<<evalVars, indexVars>> => IndexInv'
PROOF
  <1> SUFFICES ASSUME IndexInv, [IndexNext]_<<evalVars, indexVars>> PROVE IndexInv'
    OBVIOUS
  <1> USE DEF IndexInv
  <1>1. CASE UNCHANGED <<evalVars, indexVars>>
    BY <1>1 DEF evalVars, indexVars, ProjectListed
  <1>2. ASSUME NEW l \in Listings, NEW b \in Contents, IndexUpdates(l, b) PROVE IndexInv'
    BY <1>2 DEF IndexUpdates, evalVars, ProjectListed
  <1>3. ASSUME NEW f \in {"json", "html"}, FetchProject(f) PROVE IndexInv'
    <2> DEFINE l == index.entries
               p == IF f = "json" THEN ParseJSON(Name, AsObjects(l)) ELSE ParseHTML(Name, AsAnchors(l))
    <2>1. /\ project = <<>> /\ p.ok /\ project' = <<p>>
          /\ subject' = subject /\ index' = index /\ body' = body /\ chosen' = chosen /\ verdict' = verdict
      BY <1>3 DEF FetchProject, AsObjects, AsAnchors, evalVars
    <2>2. l \in Listings
      OBVIOUS
    <2>3. p = ParseHTML(Name, AsAnchors(l)) \/ p = ParseJSON(Name, AsObjects(l))
      OBVIOUS
    <2>4. project' # <<>> /\ project'[1] = p
      BY <2>1
    <2> HIDE DEF p, l
    <2>5. \A k \in DOMAIN p.files : \E i \in DOMAIN l : p.files[k] \in {ObjectFile(l[i]), AnchorFile(l[i])}
      BY <2>1, <2>2, <2>3, FilesAreListed
    <2>6. ProjectListed'
      BY <2>2, <2>4, <2>5 DEF ProjectListed
    <2> QED BY <2>1, <2>6
  <1>4. ASSUME NEW i, NEW w \in BOOLEAN, project # <<>>, i \in DOMAIN project[1].files, FetchFile(i, w) PROVE IndexInv'
    <2>1. /\ body = <<>> /\ body' # <<>> /\ chosen' = i /\ project' = project
          /\ subject' = subject /\ index' = index /\ verdict' = verdict
      BY <1>4 DEF FetchFile, evalVars
    <2> QED BY <1>4, <2>1 DEF ProjectListed
  <1>5. CASE Verify
    <2>1. /\ body # <<>> /\ project' = project /\ body' = body /\ chosen' = chosen
          /\ subject' = subject /\ index' = index
          /\ verdict' = "accepted" => HashesMatch(body[1], project[1].files[chosen].hashes)
      BY <1>5 DEF Verify, evalVars
    <2> QED BY <2>1 DEF ProjectListed, HashesMatch
  <1> QED BY <1>1, <1>2, <1>3, <1>4, <1>5 DEF IndexNext

LEMMA IndexInvLaws == IndexInv => IndexLaws
PROOF
  <1> SUFFICES ASSUME IndexInv PROVE FormatsAgree /\ AcceptedAsListed
    BY DEF IndexLaws
  <1>1. FormatsAgree
    <2>1. index.entries \in Listings
      BY DEF IndexInv
    <2>2. ParseHTML(Name, AsAnchors(index.entries)).ok /\ ParseJSON(Name, AsObjects(index.entries)).ok =>
            /\ ParseHTML(Name, AsAnchors(index.entries)).name = ParseJSON(Name, AsObjects(index.entries)).name
            /\ ParseHTML(Name, AsAnchors(index.entries)).files =
                 [i \in DOMAIN ParseJSON(Name, AsObjects(index.entries)).files |->
                    SeenInHTML(ParseJSON(Name, AsObjects(index.entries)).files[i], index.entries[i])]
      BY <2>1, FormatsSame
    <2> DEFINE h == ParseHTML(Name, AsAnchors(index.entries))
               j == ParseJSON(Name, AsObjects(index.entries))
    <2>3. FormatsAgree <=> (subject = "simple" => (h.ok /\ j.ok =>
             /\ h.name = j.name
             /\ h.files = [i \in DOMAIN j.files |-> SeenInHTML(j.files[i], index.entries[i])]))
      BY DEF FormatsAgree, AsAnchors, AsObjects
    <2> QED BY <2>2, <2>3
  <1>2. ASSUME verdict = "accepted"
        PROVE  /\ body[1] # "cut"
               /\ \E l \in Listings : \E i \in DOMAIN l :
                    l[i].filename = project[1].files[chosen].filename /\ ListedDigests(l[i]) = {body[1]}
    <2>1. /\ project # <<>> /\ chosen \in DOMAIN project[1].files
          /\ HashesMatch(body[1], project[1].files[chosen].hashes)
      BY <1>2 DEF IndexInv
    <2>2. PICK l \in Listings : \E i \in DOMAIN l : project[1].files[chosen] \in {ObjectFile(l[i]), AnchorFile(l[i])}
      BY <2>1 DEF IndexInv, ProjectListed
    <2>3. PICK i \in DOMAIN l : project[1].files[chosen] \in {ObjectFile(l[i]), AnchorFile(l[i])}
      BY <2>2
    <2>4. /\ project[1].files[chosen].filename = l[i].filename
          /\ project[1].files[chosen].hashes = HashMap(l[i].hashes)
      <3>1. \A n, h, y, r, c : File(n, h, y, r, c).filename = n /\ File(n, h, y, r, c).hashes = h
        BY DEF File
      <3>2. \A e : ObjectFile(e).filename = e.filename /\ ObjectFile(e).hashes = HashMap(e.hashes)
        BY <3>1 DEF ObjectFile
      <3>3. \A e : AnchorFile(e).filename = e.filename /\ AnchorFile(e).hashes = HashMap(e.hashes)
        <4> TAKE e
        <4> DEFINE why == IF e.yanked = "no" THEN "" ELSE TrimSpace(e.yanked)
                   metadata == e.core \/ e.distInfo
        <4>1. AnchorFile(e) = File(e.filename, HashMap(e.hashes), e.yanked # "no", why, metadata)
          BY DEF AnchorFile
        <4> HIDE DEF why, metadata
        <4> QED BY ONLY <3>1, <4>1
      <3>4. CASE project[1].files[chosen] = ObjectFile(l[i])
        BY ONLY <3>2, <3>4
      <3>5. CASE project[1].files[chosen] = AnchorFile(l[i])
        BY ONLY <3>3, <3>5
      <3>6. project[1].files[chosen] = ObjectFile(l[i]) \/ project[1].files[chosen] = AnchorFile(l[i])
        BY ONLY <2>3
      <3> QED BY ONLY <3>4, <3>5, <3>6
    <2>5. HashesMatch(body[1], HashMap(l[i].hashes))
      BY <2>1, <2>3, <2>4
    <2>6. ListedDigests(l[i]) = {body[1]} /\ body[1] # "cut"
      BY <2>5, MatchesListed
    <2> QED BY <2>3, <2>4, <2>6
  <1> QED BY <1>1, <1>2 DEF AcceptedAsListed

\* FetchProject, FetchFile and Verify (simple/): for every listing an index
\* may serve and however often it changes them, the files read from one format are
\* those read from the other but for a trimmed reason and the metadata file announced
\* under its old spelling alone, and a file is accepted only with every supported digest of one entry
\* of its name in one listing.
THEOREM IndexIsTrusted == IndexSpec => []IndexLaws
PROOF
  <1>1. IndexInit => IndexInv
    BY DEF IndexInit, IndexInv, ProjectListed
  <1> QED BY <1>1, IndexStep, IndexInvLaws, PTL DEF IndexSpec
=============================================================================
