--------------------------- MODULE CodegenProofs ---------------------------
(***************************************************************************)
(* Proofs about the code generator's state machines: the effect inference  *)
(* of the checker, for programs of any length and call graph, and the      *)
(* Python build driver, for any number of builds over one cache.           *)
(***************************************************************************)
EXTENDS Effects, PyBuild, SequenceTheorems, TLAPS

-----------------------------------------------------------------------------
(* Effects: inferred sets, reachability.                                   *)

\* Where an inferred effect comes from.
LEMMA InferMember ==
  ASSUME NEW fn, NEW sigs, NEW l
  PROVE  l \in InferFunctionEffects(fn, sigs) <=>
           \E u \in Uses(fn) : \/ u.label # "" /\ l = u.label
                               \/ u.label = "" /\ u.fun \in DOMAIN sigs /\ l \in sigs[u.fun]
PROOF BY DEF InferFunctionEffects

\* Larger signatures make larger inferred sets.
LEMMA InferMonotone ==
  ASSUME NEW fn, NEW s, NEW t, DOMAIN s = DOMAIN t, \A n \in DOMAIN s : s[n] \subseteq t[n]
  PROVE  InferFunctionEffects(fn, s) \subseteq InferFunctionEffects(fn, t)
PROOF BY InferMember

\* What n reaches has n, the callees of its members, and whatever they reach.
LEMMA ReachesClosed ==
  ASSUME NEW funs, NEW n \in NamesOf(funs)
  PROVE  /\ n \in Reaches(funs, n) /\ Reaches(funs, n) \subseteq NamesOf(funs)
         /\ \A m \in Reaches(funs, n) : Callees(funs, m) \subseteq Reaches(funs, n)
         /\ \A m \in Reaches(funs, n) : Reaches(funs, m) \subseteq Reaches(funs, n)
PROOF
  <1>1. n \in Reaches(funs, n) /\ Reaches(funs, n) \subseteq NamesOf(funs)
    BY DEF Reaches
  <1>2. \A m \in NamesOf(funs) : Callees(funs, m) \subseteq NamesOf(funs)
    BY DEF Callees
  <1>3. \A m \in Reaches(funs, n) : Callees(funs, m) \subseteq Reaches(funs, n)
    BY <1>1, <1>2 DEF Reaches, CallClosed
  <1>4. CallClosed(funs, Reaches(funs, n))
    BY <1>3 DEF CallClosed
  <1>5. \A m \in Reaches(funs, n) : Reaches(funs, m) \subseteq Reaches(funs, n)
    BY <1>1, <1>4 DEF Reaches
  <1> QED BY <1>1, <1>3, <1>5

\* The most a signature can come to.
Bound(funs, n) == OwnEffects(funs, Reaches(funs, n)) \cup Promised(funs, Reaches(funs, n))

LEMMA BoundGrows ==
  ASSUME NEW funs, NEW n \in NamesOf(funs), NEW m \in Callees(funs, n)
  PROVE  m \in NamesOf(funs) /\ Bound(funs, m) \subseteq Bound(funs, n)
PROOF
  <1>1. m \in NamesOf(funs)
    BY DEF Callees
  <1>2. Reaches(funs, m) \subseteq Reaches(funs, n)
    BY ReachesClosed
  <1>3. OwnEffects(funs, Reaches(funs, m)) \subseteq OwnEffects(funs, Reaches(funs, n))
    BY <1>2 DEF OwnEffects
  <1>4. Promised(funs, Reaches(funs, m)) \subseteq Promised(funs, Reaches(funs, n))
    BY <1>2 DEF Promised
  <1> QED BY <1>1, <1>3, <1>4 DEF Bound

\* A function inferred against bounded signatures is bounded.
LEMMA InferBounded ==
  ASSUME NEW funs, NEW sigs, DOMAIN sigs = NamesOf(funs), NEW i \in DOMAIN funs,
         \A m \in NamesOf(funs) : sigs[m] \subseteq Bound(funs, m)
  PROVE  InferFunctionEffects(funs[i], sigs) \subseteq Bound(funs, funs[i].name)
PROOF
  <1> DEFINE n == funs[i].name
  <1>1. n \in NamesOf(funs) /\ n \in Reaches(funs, n)
    BY ReachesClosed DEF NamesOf
  <1> SUFFICES ASSUME NEW l \in InferFunctionEffects(funs[i], sigs) PROVE l \in Bound(funs, n)
    OBVIOUS
  <1>2. PICK u \in Uses(funs[i]) : \/ u.label # "" /\ l = u.label
                                   \/ u.label = "" /\ u.fun \in DOMAIN sigs /\ l \in sigs[u.fun]
    BY InferMember
  <1>3. CASE u.label # "" /\ l = u.label
    BY <1>1, <1>3 DEF Bound, OwnEffects
  <1>4. CASE u.label = "" /\ u.fun \in DOMAIN sigs /\ l \in sigs[u.fun]
    <2>1. u.fun \in Callees(funs, n)
      BY <1>1, <1>4 DEF Callees
    <2> QED BY <1>1, <1>4, <2>1, BoundGrows
  <1> QED BY <1>2, <1>3, <1>4

-----------------------------------------------------------------------------
(* Effects: the inductive invariant.                                       *)

EffectsShape ==
  /\ subject = "effects" /\ in \in FunSets
  /\ known = [n \in NamesOf(in) |-> known[n]]
  /\ cursor \in 1 .. Len(in) + 1 /\ changed \in BOOLEAN
  /\ out # <<>> => cursor = Len(in) + 1 /\ ~changed /\ out[1] = Exceeding(in, known)

\* An annotation stays in its signature.
PinnedKept == \A i \in DOMAIN in : Pinned(in, in[i].name) => known[in[i].name] = Published(in, in[i].name)
\* A signature is at most what inferring it again would give, which is why a
\* sweep only adds.
NotBeyondInferred ==
  \A i \in DOMAIN in : ~Pinned(in, in[i].name) => known[in[i].name] \subseteq InferFunctionEffects(in[i], known)
NotBeyondReached == \A n \in NamesOf(in) : known[n] \subseteq Bound(in, n)
\* Behind the cursor of a sweep that has changed nothing, inferring changes nothing.
SettledBehind ==
  ~changed => \A i \in DOMAIN in : i < cursor /\ ~Pinned(in, in[i].name)
                                     => known[in[i].name] = InferFunctionEffects(in[i], known)

EffectsInv ==
  /\ EffectsShape
  /\ OneEach(in) => PinnedKept /\ NotBeyondInferred /\ NotBeyondReached /\ SettledBehind

\* In a program that declares no function twice, the last of a name is the one.
LEMMA OneNamed ==
  ASSUME NEW funs, OneEach(funs), NEW is \in SUBSET DOMAIN funs, NEW i \in is,
         funs \in Seq([name : STRING, declared : {"declared", "inferred"}, effects : SUBSET STRING,
                       body : SUBSET [fun : STRING, label : STRING, place : STRING]])
  PROVE  LastNamed(funs, is, funs[i].name) = i
PROOF
  <1>1. funs[i].name = funs[i].name /\ \A j \in is : funs[j].name = funs[i].name => j <= i
    BY DEF OneEach
  <1>2. \A k \in is : funs[k].name = funs[i].name => k = i
    BY DEF OneEach
  <1> QED BY <1>1, <1>2 DEF LastNamed

LEMMA EffectsInitially == EffectsInit => EffectsInv
PROOF
  <1> SUFFICES ASSUME EffectsInit PROVE EffectsInv
    OBVIOUS
  <1>1. subject = "effects" /\ in \in FunSets /\ out = <<>> /\ known = Seed(in) /\ cursor = 1 /\ changed = FALSE
    BY DEF EffectsInit, Called
  <1>2. in \in Seq([name : STRING, declared : {"declared", "inferred"}, effects : SUBSET STRING,
                    body : SUBSET [fun : STRING, label : STRING, place : STRING]])
    BY <1>1, FunSetsAssumption
  <1>3. EffectsShape
    <2>1. known = [n \in NamesOf(in) |-> known[n]]
      BY <1>1 DEF Seed
    <2>2. 1 \in 1 .. Len(in) + 1
      BY <1>2
    <2> QED BY <1>1, <2>1, <2>2 DEF EffectsShape
  <1>4. ASSUME OneEach(in), NEW i \in DOMAIN in
        PROVE  /\ in[i].name \in NamesOf(in)
               /\ in[i].declared = "declared" => Pinned(in, in[i].name) /\ known[in[i].name] = in[i].effects
                                                 /\ Published(in, in[i].name) = in[i].effects
               /\ in[i].declared # "declared" => ~Pinned(in, in[i].name) /\ known[in[i].name] = {}
    <2>1. in[i].name \in NamesOf(in)
      BY DEF NamesOf
    <2>2. LastNamed(in, DOMAIN in, in[i].name) = i
      BY <1>2, <1>4, OneNamed
    <2>3. known[in[i].name] = IF in[i].declared = "declared" THEN in[i].effects ELSE {}
      BY <1>1, <2>1, <2>2 DEF Seed
    <2>4. in[i].declared = "declared" => i \in AnnotatedOf(in) /\ LastNamed(in, AnnotatedOf(in), in[i].name) = i
      <3>1. AnnotatedOf(in) \in SUBSET DOMAIN in /\ (in[i].declared = "declared" => i \in AnnotatedOf(in))
        BY DEF AnnotatedOf
      <3> QED BY <1>2, <1>4, <3>1, OneNamed
    <2>5. in[i].declared # "declared" => ~Pinned(in, in[i].name)
      BY <1>4 DEF OneEach, Pinned, AnnotatedOf
    <2> QED BY <2>1, <2>3, <2>4, <2>5 DEF Pinned, Published
  <1>5. ASSUME OneEach(in) PROVE PinnedKept /\ NotBeyondInferred /\ SettledBehind
    <2>1. PinnedKept
      BY <1>4, <1>5 DEF PinnedKept
    <2>2. NotBeyondInferred
      BY <1>4, <1>5 DEF NotBeyondInferred
    <2>3. \A i \in DOMAIN in : ~(i < cursor)
      BY <1>1, <1>2
    <2> QED BY <2>1, <2>2, <2>3 DEF SettledBehind
  <1>6. ASSUME OneEach(in) PROVE NotBeyondReached
    <2> SUFFICES ASSUME NEW i \in DOMAIN in PROVE known[in[i].name] \subseteq Bound(in, in[i].name)
      BY DEF NotBeyondReached, NamesOf
    <2>1. in[i].name \in Reaches(in, in[i].name)
      BY <1>4, <1>6, ReachesClosed
    <2>2. in[i].declared = "declared" => in[i].effects \subseteq Promised(in, Reaches(in, in[i].name))
      BY <2>1 DEF Promised, AnnotatedOf
    <2> QED BY <1>4, <1>6, <2>2 DEF Bound
  <1> QED BY <1>3, <1>5, <1>6 DEF EffectsInv

\* A step that infers a signature.
LEMMA InferStep ==
  ASSUME EffectsInv, InferNext, OneEach(in)
  PROVE  /\ \A n \in NamesOf(in) : known[n] \subseteq known'[n]
         /\ PinnedKept' /\ NotBeyondInferred' /\ NotBeyondReached' /\ SettledBehind'
PROOF
  <1> DEFINE n == in[cursor].name
             fresh == InferFunctionEffects(in[cursor], known)
  <1>1. /\ cursor \in DOMAIN in /\ ~Pinned(in, n) /\ in' = in /\ cursor' = cursor + 1
        /\ known' = [known EXCEPT ![n] = fresh]
        /\ changed' = (changed \/ fresh # known[n])
    BY DEF InferNext, InSweep, evalVars
  <1>2. /\ in \in FunSets /\ known = [m \in NamesOf(in) |-> known[m]] /\ cursor \in 1 .. Len(in) + 1 /\ changed \in BOOLEAN
        /\ PinnedKept /\ NotBeyondInferred /\ NotBeyondReached /\ SettledBehind
    BY DEF EffectsInv, EffectsShape
  <1>3. in \in Seq([name : STRING, declared : {"declared", "inferred"}, effects : SUBSET STRING,
                    body : SUBSET [fun : STRING, label : STRING, place : STRING]])
    BY <1>2, FunSetsAssumption
  <1> HIDE DEF n, fresh
  <1>4. n \in NamesOf(in) /\ \A i \in DOMAIN in : in[i].name \in NamesOf(in)
    BY <1>1 DEF NamesOf, n
  <1>5. known[n] \subseteq fresh
    BY <1>1, <1>2 DEF NotBeyondInferred, n, fresh
  <1>6. DOMAIN known = NamesOf(in) /\ DOMAIN known' = NamesOf(in)
    BY <1>1, <1>2
  <1>7. known'[n] = fresh /\ \A m \in NamesOf(in) : m # n => known'[m] = known[m]
    BY <1>1, <1>2, <1>4
  <1>8. \A m \in NamesOf(in) : known[m] \subseteq known'[m]
    BY <1>5, <1>7
  <1>9. PinnedKept'
    BY <1>1, <1>2, <1>4, <1>7 DEF PinnedKept, Pinned
  <1>10. NotBeyondInferred'
    <2> SUFFICES ASSUME NEW i \in DOMAIN in, ~Pinned(in, in[i].name)
                 PROVE  known'[in[i].name] \subseteq InferFunctionEffects(in[i], known')
      BY <1>1 DEF NotBeyondInferred
    <2>1. InferFunctionEffects(in[i], known) \subseteq InferFunctionEffects(in[i], known')
      BY <1>6, <1>8, InferMonotone
    <2>2. CASE in[i].name = n
      <3>1. i = cursor
        BY <1>1, <2>2 DEF OneEach, n
      <3> QED BY <1>7, <2>1, <2>2, <3>1 DEF fresh
    <2>3. CASE in[i].name # n
      <3>1. known'[in[i].name] = known[in[i].name]
        BY <1>4, <1>7, <2>3
      <3> QED BY <1>2, <2>1, <3>1 DEF NotBeyondInferred
    <2> QED BY <2>2, <2>3
  <1>11. NotBeyondReached'
    <2>1. fresh \subseteq Bound(in, n)
      BY <1>1, <1>2, <1>6, InferBounded DEF NotBeyondReached, n, fresh
    <2> QED BY <1>1, <1>2, <1>7, <2>1 DEF NotBeyondReached
  <1>12. SettledBehind'
    <2> SUFFICES ASSUME ~changed', NEW i \in DOMAIN in, i < cursor + 1, ~Pinned(in, in[i].name)
                 PROVE  known'[in[i].name] = InferFunctionEffects(in[i], known')
      BY <1>1 DEF SettledBehind
    <2>1. ~changed /\ fresh = known[n]
      BY <1>1, <1>2
    <2>2. known' = known
      BY <1>1, <1>2, <2>1
    <2>3. CASE i = cursor
      BY <2>1, <2>2, <2>3 DEF n, fresh
    <2>4. CASE i # cursor
      <3>1. i < cursor
        BY <1>2, <1>3, <2>4
      <3> QED BY <1>2, <2>1, <2>2, <3>1 DEF SettledBehind
    <2> QED BY <2>3, <2>4
  <1> QED BY <1>8, <1>9, <1>10, <1>11, <1>12

LEMMA EffectsStep == EffectsInv /\ [EffectsNext]_<<evalVars, effectsVars>> => EffectsInv'
PROOF
  <1> SUFFICES ASSUME EffectsInv, [EffectsNext]_<<evalVars, effectsVars>> PROVE EffectsInv'
    OBVIOUS
  <1> USE DEF EffectsInv
  <1>0. /\ in \in Seq([name : STRING, declared : {"declared", "inferred"}, effects : SUBSET STRING,
                       body : SUBSET [fun : STRING, label : STRING, place : STRING]])
        /\ cursor \in 1 .. Len(in) + 1
    BY FunSetsAssumption DEF EffectsShape
  <1>1. CASE UNCHANGED <<evalVars, effectsVars>>
    BY <1>1 DEF EffectsShape, PinnedKept, NotBeyondInferred, NotBeyondReached, SettledBehind, evalVars, effectsVars
  <1>2. CASE SkipPinned
    <2>1. /\ subject' = subject /\ in' = in /\ out' = out /\ out = <<>> /\ known' = known /\ changed' = changed
          /\ cursor \in DOMAIN in /\ cursor' = cursor + 1 /\ Pinned(in, in[cursor].name)
      BY <1>2 DEF SkipPinned, InSweep, evalVars
    <2>2. cursor' \in 1 .. Len(in) + 1
      BY <1>0, <2>1
    <2>3. EffectsShape'
      BY <2>1, <2>2 DEF EffectsShape
    <2>4. \A i \in DOMAIN in : i < cursor + 1 => i < cursor \/ i = cursor
      BY <1>0
    <2>5. SettledBehind => SettledBehind'
      BY <2>1, <2>4 DEF SettledBehind
    <2> QED BY <2>1, <2>3, <2>5 DEF PinnedKept, NotBeyondInferred, NotBeyondReached
  <1>3. CASE InferNext
    <2>1. /\ subject' = subject /\ in' = in /\ out' = out /\ out = <<>>
          /\ cursor \in DOMAIN in /\ cursor' = cursor + 1 /\ changed' \in BOOLEAN
          /\ \E e : known' = [known EXCEPT ![in[cursor].name] = e]
      BY <1>3 DEF InferNext, InSweep, evalVars, EffectsShape
    <2>2. cursor' \in 1 .. Len(in) + 1
      BY <1>0, <2>1
    <2>3. known' = [n \in NamesOf(in) |-> known'[n]]
      BY <2>1 DEF EffectsShape
    <2>4. EffectsShape'
      BY <2>1, <2>2, <2>3 DEF EffectsShape
    <2> QED BY <1>3, <2>1, <2>4, InferStep
  <1>4. CASE SweepAgain
    <2>1. /\ subject' = subject /\ in' = in /\ out' = out /\ out = <<>> /\ known' = known
          /\ cursor' = 1 /\ changed' = FALSE
      BY <1>4 DEF SweepAgain, SweepOver, evalVars
    <2>2. 1 \in 1 .. Len(in) + 1 /\ \A i \in DOMAIN in : ~(i < 1)
      BY <1>0
    <2>3. EffectsShape'
      BY <2>1, <2>2 DEF EffectsShape
    <2> QED BY <2>1, <2>2, <2>3 DEF PinnedKept, NotBeyondInferred, NotBeyondReached, SettledBehind
  <1>5. CASE CheckAnnotations
    <2>1. /\ subject' = subject /\ in' = in /\ known' = known /\ cursor' = cursor /\ changed' = changed
          /\ out' = <<Exceeding(in, known)>> /\ cursor = Len(in) + 1 /\ ~changed
      BY <1>5 DEF CheckAnnotations, SweepOver, effectsVars
    <2>2. EffectsShape'
      BY <2>1 DEF EffectsShape
    <2> QED BY <2>1, <2>2 DEF PinnedKept, NotBeyondInferred, NotBeyondReached, SettledBehind
  <1> QED BY <1>1, <1>2, <1>3, <1>4, <1>5 DEF EffectsNext

-----------------------------------------------------------------------------
(* Effects: the theorems.                                                  *)

\* Once every body is within its function's signature, the signature of n has
\* the own effects of all n reaches: the functions whose signatures are within
\* that of n are closed under calls.
LEMMA SettledCovers ==
  ASSUME NEW funs, NEW sigs, DOMAIN sigs = NamesOf(funs), NEW n \in NamesOf(funs),
         \A i \in DOMAIN funs : InferFunctionEffects(funs[i], sigs) \subseteq sigs[funs[i].name]
  PROVE  OwnEffects(funs, Reaches(funs, n)) \subseteq sigs[n]
PROOF
  <1> DEFINE S == {m \in NamesOf(funs) : sigs[m] \subseteq sigs[n]}
  <1>1. CallClosed(funs, S)
    <2> SUFFICES ASSUME NEW m \in S, NEW c \in Callees(funs, m) PROVE c \in S
      BY DEF CallClosed
    <2>1. c \in NamesOf(funs)
      BY DEF Callees
    <2>2. PICK i \in DOMAIN funs : funs[i].name = m /\ \E u \in Uses(funs[i]) : u.label = "" /\ u.fun = c
      BY DEF Callees
    <2>3. ASSUME NEW l \in sigs[c] PROVE l \in InferFunctionEffects(funs[i], sigs)
      <3>1. PICK u \in Uses(funs[i]) : u.label = "" /\ u.fun = c
        BY <2>2
      <3>2. u.label = "" /\ u.fun \in DOMAIN sigs /\ l \in sigs[u.fun]
        BY <2>1, <2>3, <3>1
      <3> QED BY <3>2, InferMember, Zenon
    <2>4. InferFunctionEffects(funs[i], sigs) \subseteq sigs[m]
      BY <2>2
    <2>5. sigs[m] \subseteq sigs[n]
      OBVIOUS
    <2>6. sigs[c] \subseteq sigs[n]
      BY <2>3, <2>4, <2>5, Zenon
    <2> QED BY <2>1, <2>6
  <1>2. Reaches(funs, n) \subseteq S
    <2>1. S \in SUBSET NamesOf(funs) /\ n \in S
      OBVIOUS
    <2> HIDE DEF S
    <2> QED BY <1>1, <2>1 DEF Reaches
  <1> SUFFICES ASSUME NEW l \in OwnEffects(funs, Reaches(funs, n)) PROVE l \in sigs[n]
    OBVIOUS
  <1>3. PICK i \in DOMAIN funs : funs[i].name \in Reaches(funs, n)
                                 /\ \E u \in Uses(funs[i]) : u.label # "" /\ u.label = l
    BY DEF OwnEffects
  <1>4. l \in InferFunctionEffects(funs[i], sigs)
    BY <1>3, InferMember
  <1> QED BY <1>2, <1>3, <1>4

LEMMA EffectsInvCovers == EffectsInv => EffectsCoverCalls
PROOF
  <1> SUFFICES ASSUME EffectsInv, out # <<>>, OneEach(in), out[1] = {}, NEW n \in NamesOf(in)
               PROVE  /\ OwnEffects(in, Reaches(in, n)) \subseteq known[n]
                      /\ known[n] \subseteq Bound(in, n)
    BY DEF EffectsCoverCalls, Returned, Bound
  <1>1. /\ in \in FunSets /\ DOMAIN known = NamesOf(in) /\ cursor = Len(in) + 1 /\ ~changed /\ Exceeding(in, known) = {}
        /\ PinnedKept /\ NotBeyondReached /\ SettledBehind
    BY DEF EffectsInv, EffectsShape
  <1>2. \A i \in DOMAIN in : i < cursor
    BY <1>1, FunSetsAssumption
  <1>3. ASSUME NEW i \in DOMAIN in PROVE InferFunctionEffects(in[i], known) \subseteq known[in[i].name]
    <2>1. CASE Pinned(in, in[i].name)
      <3>1. InferFunctionEffects(in[i], known) \subseteq Published(in, in[i].name)
        BY <1>1, <2>1 DEF Exceeding
      <3> QED BY <1>1, <2>1, <3>1 DEF PinnedKept
    <2>2. CASE ~Pinned(in, in[i].name)
      BY <1>1, <1>2, <2>2 DEF SettledBehind
    <2> QED BY <2>1, <2>2
  <1>4. OwnEffects(in, Reaches(in, n)) \subseteq known[n]
    BY <1>1, <1>3, SettledCovers
  <1> QED BY <1>1, <1>4 DEF NotBeyondReached

\* Check (types/check.go:440-535): whatever the functions, their order and
\* their calls, once the sweeps end and no annotation is reported, every signature
\* covers what its function reaches and no inferred one says more.
THEOREM EffectsAreCovered == EffectsSpec => []EffectsCoverCalls
PROOF
  <1>1. EffectsSpec => []EffectsInv
    BY EffectsInitially, EffectsStep, PTL DEF EffectsSpec
  <1> QED BY <1>1, EffectsInvCovers, PTL

\* The comment of check.go:485-488: in a program that declares no function
\* twice, every step of the sweeps only adds effects to a signature.
THEOREM EffectsOnlyClimb == EffectsSpec => EffectsClimb
PROOF
  <1>1. EffectsInv /\ [EffectsNext]_<<evalVars, effectsVars>> =>
          [subject = "effects" /\ OneEach(in) => \A n \in NamesOf(in) : known[n] \subseteq known'[n]]_<<evalVars, effectsVars>>
    <2> SUFFICES ASSUME EffectsInv, EffectsNext, OneEach(in), NEW n \in NamesOf(in)
                 PROVE  known[n] \subseteq known'[n]
      BY DEF evalVars, effectsVars
    <2>1. CASE InferNext
      BY <2>1, InferStep
    <2>2. CASE SkipPinned \/ SweepAgain \/ CheckAnnotations
      BY <2>2 DEF SkipPinned, SweepAgain, CheckAnnotations, effectsVars
    <2> QED BY <2>1, <2>2 DEF EffectsNext
  <1>2. EffectsSpec => []EffectsInv
    BY EffectsInitially, EffectsStep, PTL DEF EffectsSpec
  <1> QED BY <1>1, <1>2, PTL DEF EffectsSpec, EffectsClimb

-----------------------------------------------------------------------------
(* PyBuild: trees.                                                         *)

LEMMA Overlay ==
  ASSUME NEW dst, NEW tree
  PROVE  /\ DOMAIN CopyTree(dst, tree) = DOMAIN tree \cup DOMAIN dst
         /\ \A f \in DOMAIN tree : CopyTree(dst, tree)[f] = tree[f]
         /\ \A f \in DOMAIN dst : f \notin DOMAIN tree => CopyTree(dst, tree)[f] = dst[f]
PROOF BY DEF CopyTree

LEMMA OverlaidFile ==
  ASSUME NEW dst, NEW tree, NEW f \in DOMAIN tree
  PROVE  CopyTree(dst, tree)[f] = tree[f]
PROOF BY DEF CopyTree

LEMMA OverlayIsTree ==
  ASSUME NEW dst, NEW tree
  PROVE  CopyTree(dst, tree) = [f \in DOMAIN CopyTree(dst, tree) |-> CopyTree(dst, tree)[f]]
PROOF BY DEF CopyTree

LEMMA TreeFiles == \A files : DOMAIN Tree(files) = {e[1] : e \in files}
PROOF BY DEF Tree

LEMMA WorkTree ==
  ASSUME NEW job
  PROVE  /\ WorkDir(job) = [f \in DOMAIN WorkDir(job) |-> WorkDir(job)[f]]
         /\ <<"pyproject.toml">> \in DOMAIN WorkDir(job)
         /\ <<"src", PackageName(job), "__init__">> \in DOMAIN WorkDir(job)
         /\ job.src \in WithExterns => <<"src", ExternsFile(job)>> \in DOMAIN WorkDir(job)
PROOF
  <1>1. {<<"pyproject.toml">>, <<"src", PackageName(job), "__init__">>} \subseteq DOMAIN PackageLayout(job)
    <2> DEFINE pkg == PackageName(job)
               emitted == Tree({<<<<"src", pkg, "generated", job.module>>, <<"code", job.src, job.module>>>>})
               files == {<<<<"src", pkg, "generated", "__init__">>, <<"empty">>>>,
                         <<<<"src", pkg, "__init__">>, <<"reexports main of", job.module>>>>,
                         <<<<"src", pkg, "__main__">>, <<"runs main of", job.module>>>>,
                         <<<<"src", pkg, "py.typed">>, <<"empty">>>>,
                         <<<<"pyproject.toml">>, <<"project", pkg>>>>}
    <2>1. PackageLayout(job) = CopyTree(emitted, Tree(files))
      BY DEF PackageLayout
    <2>2. DOMAIN Tree(files) = {e[1] : e \in files}
      BY TreeFiles
    <2>3. /\ <<<<"pyproject.toml">>, <<"project", pkg>>>> \in files
          /\ <<<<"src", pkg, "__init__">>, <<"reexports main of", job.module>>>> \in files
      OBVIOUS
    <2>5. \A a, b : <<a, b>>[1] = a
      OBVIOUS
    <2> HIDE DEF emitted, files
    <2>4. DOMAIN Tree(files) \subseteq DOMAIN PackageLayout(job)
      <3>1. DOMAIN CopyTree(emitted, Tree(files)) = DOMAIN Tree(files) \cup DOMAIN emitted
        BY Overlay
      <3> QED BY <2>1, <3>1
    <2>6. \A a, b : <<a, b>> \in files => a \in DOMAIN Tree(files)
      BY <2>2, <2>5
    <2> QED BY <2>3, <2>4, <2>6
  <1>2. PackageLayout(job) = [f \in DOMAIN PackageLayout(job) |-> PackageLayout(job)[f]]
    BY OverlayIsTree DEF PackageLayout
  <1>3. CASE job.src \in WithExterns
    <2> DEFINE sidecar == Tree({<<<<"src", ExternsFile(job)>>, <<"sidecar", job.sidecar>>>>})
    <2>1. WorkDir(job) = CopyTree(PackageLayout(job), sidecar)
      BY <1>3 DEF WorkDir
    <2>2. <<"src", ExternsFile(job)>> \in DOMAIN sidecar
      BY TreeFiles
    <2> HIDE DEF sidecar
    <2>3. DOMAIN CopyTree(PackageLayout(job), sidecar) = DOMAIN sidecar \cup DOMAIN PackageLayout(job)
      BY Overlay
    <2>4. WorkDir(job) = [f \in DOMAIN WorkDir(job) |-> WorkDir(job)[f]]
      BY <2>1, OverlayIsTree
    <2> QED BY <1>1, <2>1, <2>2, <2>3, <2>4
  <1>4. CASE job.src \notin WithExterns
    BY <1>1, <1>2, <1>4 DEF WorkDir
  <1> QED BY <1>3, <1>4

-----------------------------------------------------------------------------
(* PyBuild: the inductive invariant.                                       *)

\* The job of build i, its key and the tree of its program.
Work(i) == WorkDir(in[i])
\* Every build that may use i's entry makes i's tree.
OneTree(i) == \A j \in DOMAIN in : Key(j) = Key(i) => Work(j) = Work(i)
\* f may stand in the entry of i with this content.
KnownFile(i, f, content) == \E j \in DOMAIN in : Key(j) = Key(i) /\ f \in DOMAIN Work(j) /\ content \in {Work(j)[f], Torn}

CoveredBy(paths, f) == \E p \in paths : Under(p, f)
\* dst has all of tree but what is under paths, and nothing else.
Copied(dst, tree, paths) ==
  /\ \A f \in DOMAIN dst : f \in DOMAIN tree /\ dst[f] \in {tree[f], Torn}
  /\ \A f \in DOMAIN tree : CoveredBy(paths, f) \/ (f \in DOMAIN dst /\ dst[f] = tree[f])

\* The names of which the paths of a build are made.
LayoutNames == {"src", "generated", "__init__", "__main__", "py.typed", "pyproject.toml"}
PathNames(jobs) ==
  LayoutNames \cup {PackageName(jobs[i]) : i \in DOMAIN jobs} \cup {ExternsFile(jobs[i]) : i \in DOMAIN jobs}
  \cup {jobs[i].module : i \in DOMAIN jobs}
Paths == Seq(PathNames(in))

IsRecord(r) == DOMAIN r = {"at", "error", "pending", "open", "hit", "beside", "made"}
RecordOk(i) ==
  LET r == proc[i]
  IN /\ IsRecord(r)
     /\ r.at \in {"start", "hit", "out", "fill", "done", "dropped"}
     /\ r.open \subseteq r.pending /\ \A p \in r.pending : p \in Paths
     /\ r.made \subseteq Bundles(in[i])
     /\ r.at \notin {"hit", "out", "fill"} => r.pending = {}
     /\ r.at # "done" => r.error = "" /\ (r.at = "start" \/ in[i].target = "source")
     /\ r.at \in {"fill", "dropped"} => in[i].cached
     /\ r.hit \in BOOLEAN /\ (r.at = "hit" => r.hit /\ Key(i) \in DOMAIN cache)
     /\ r.at \in {"start", "out", "fill", "dropped"} => ~r.hit
IsTree(t) == t = [f \in DOMAIN t |-> t[f]]
Shape ==
  /\ subject = "pybuild" /\ in \in JobLists
  /\ proc = [i \in DOMAIN in |-> proc[i]] /\ \A i \in DOMAIN in : RecordOk(i)
  /\ outs = [o \in OutDirs(in) |-> outs[o]] /\ \A o \in OutDirs(in) : IsTree(outs[o])
  /\ cache = [k \in DOMAIN cache |-> cache[k]] /\ \A k \in DOMAIN cache : IsTree(cache[k])

\* Nothing foreign gets into an entry or an output directory.
FilesKnown ==
  \A i \in DOMAIN in :
    /\ \A f \in DOMAIN Entry(Key(i)) : KnownFile(i, f, Entry(Key(i))[f])
    /\ OwnOutput(i) => \A f \in DOMAIN outs[in[i].out] : KnownFile(i, f, outs[in[i].out][f])

Filled(i) ==
  proc[i].at = "done" /\ proc[i].error = "" /\ ~proc[i].hit /\ in[i].target = "source" /\ in[i].cached
\* Who fills an entry leaves no file of its own tree out.
FillsCover ==
  \A i \in DOMAIN in :
    proc[i].at = "fill" \/ Filled(i) => \A f \in DOMAIN Work(i) : CoveredBy(proc[i].pending, f) \/ f \in DOMAIN Entry(Key(i))
Writer(i) == proc[i].at \in {"fill", "dropped"} \/ Filled(i)
EntriesHaveWriters ==
  \A i \in DOMAIN in : Key(i) \in DOMAIN cache => \E j \in DOMAIN in : Key(j) = Key(i) /\ Writer(j)
\* A torn file has a build to blame.
Tears(i, f) == proc[i].at = "dropped" \/ (proc[i].at = "fill" /\ f \in proc[i].open)
TornHaveWriters ==
  \A i \in DOMAIN in : OneTree(i) =>
    \A f \in DOMAIN Entry(Key(i)) :
      Entry(Key(i))[f] = Work(i)[f] \/ \E j \in DOMAIN in : Key(j) = Key(i) /\ Tears(j, f)

\* What build i promises about its output directory.
Exact(i) == ~proc[i].hit \/ (proc[i].beside = {} /\ OneTree(i))
OwnTree(i) ==
  /\ proc[i].at = "start" => outs[in[i].out] = EmptyTree
  /\ proc[i].at \in {"hit", "out"} => Copied(outs[in[i].out], Work(i), proc[i].pending)
  /\ proc[i].at \in {"fill", "dropped"} \/ (proc[i].at = "done" /\ proc[i].error = "") => outs[in[i].out] = Work(i)
OwnTrees == \A i \in DOMAIN in : OwnOutput(i) /\ Exact(i) => OwnTree(i)
QuietHits == \A i \in DOMAIN in : proc[i].at = "hit" /\ proc[i].beside = {} => Unfinished(i) = {}

PyBuildInv ==
  Shape /\ FilesKnown /\ FillsCover /\ EntriesHaveWriters /\ TornHaveWriters /\ OwnTrees /\ QuietHits

-----------------------------------------------------------------------------
(* PyBuild: the paths of a program's tree.                                  *)

\* The files of a build's tree.
LayoutPaths(job) ==
  {<<"pyproject.toml">>, <<"src", PackageName(job), "__init__">>, <<"src", PackageName(job), "__main__">>,
   <<"src", PackageName(job), "py.typed">>, <<"src", PackageName(job), "generated", "__init__">>,
   <<"src", PackageName(job), "generated", job.module>>, <<"src", ExternsFile(job)>>}

LEMMA WorkPaths == \A job : DOMAIN WorkDir(job) \subseteq LayoutPaths(job)
PROOF
  <1> SUFFICES ASSUME NEW job PROVE DOMAIN WorkDir(job) \subseteq LayoutPaths(job)
    OBVIOUS
  <1> DEFINE pkg == PackageName(job)
             emitted == {<<<<"src", pkg, "generated", job.module>>, <<"code", job.src, job.module>>>>}
             files == {<<<<"src", pkg, "generated", "__init__">>, <<"empty">>>>,
                       <<<<"src", pkg, "__init__">>, <<"reexports main of", job.module>>>>,
                       <<<<"src", pkg, "__main__">>, <<"runs main of", job.module>>>>,
                       <<<<"src", pkg, "py.typed">>, <<"empty">>>>,
                       <<<<"pyproject.toml">>, <<"project", pkg>>>>}
             sidecar == {<<<<"src", ExternsFile(job)>>, <<"sidecar", job.sidecar>>>>}
  <1>1. \A a, b : <<a, b>>[1] = a
    OBVIOUS
  <1>2. /\ {e[1] : e \in emitted} \subseteq LayoutPaths(job) /\ {e[1] : e \in files} \subseteq LayoutPaths(job)
        /\ {e[1] : e \in sidecar} \subseteq LayoutPaths(job)
    <2>1. \A S, p, c : p \in S => {e[1] : e \in {<<p, c>>}} \subseteq S
      BY <1>1
    <2>3. {e[1] : e \in emitted} \subseteq LayoutPaths(job)
      <3>1. <<"src", pkg, "generated", job.module>> \in LayoutPaths(job)
        BY DEF LayoutPaths
      <3> QED BY <2>1, <3>1
    <2>4. {e[1] : e \in sidecar} \subseteq LayoutPaths(job)
      <3>1. <<"src", ExternsFile(job)>> \in LayoutPaths(job)
        BY DEF LayoutPaths
      <3> QED BY <2>1, <3>1
    <2>5. {e[1] : e \in files} \subseteq LayoutPaths(job)
      <3>1. {<<"src", pkg, "generated", "__init__">>, <<"src", pkg, "__init__">>, <<"src", pkg, "__main__">>,
             <<"src", pkg, "py.typed">>, <<"pyproject.toml">>} \subseteq LayoutPaths(job)
        BY DEF LayoutPaths
      <3>2. \A S, p, c : p \in S => \A e : e = <<p, c>> => e[1] \in S
        BY <1>1
      <3>3. ASSUME NEW e \in files PROVE e[1] \in LayoutPaths(job)
        <4>1. \/ e = <<<<"src", pkg, "generated", "__init__">>, <<"empty">>>>
              \/ e = <<<<"src", pkg, "__init__">>, <<"reexports main of", job.module>>>>
              \/ e = <<<<"src", pkg, "__main__">>, <<"runs main of", job.module>>>>
              \/ e = <<<<"src", pkg, "py.typed">>, <<"empty">>>>
              \/ e = <<<<"pyproject.toml">>, <<"project", pkg>>>>
          OBVIOUS
        <4> HIDE DEF files, pkg
        <4> QED BY <3>1, <3>2, <4>1
      <3> QED BY <3>3
    <2> QED BY <2>3, <2>4, <2>5
  <1> HIDE DEF emitted, files, sidecar
  <1>3. PackageLayout(job) = CopyTree(Tree(emitted), Tree(files))
    BY DEF PackageLayout, emitted, files
  <1>4. DOMAIN PackageLayout(job) \subseteq LayoutPaths(job)
    <2>1. DOMAIN CopyTree(Tree(emitted), Tree(files)) = DOMAIN Tree(files) \cup DOMAIN Tree(emitted)
      BY Overlay
    <2> QED BY <1>2, <1>3, <2>1, TreeFiles
  <1>5. WorkDir(job) = CopyTree(PackageLayout(job), Tree(sidecar)) \/ WorkDir(job) = PackageLayout(job)
    BY DEF WorkDir, sidecar
  <1>6. DOMAIN CopyTree(PackageLayout(job), Tree(sidecar)) \subseteq LayoutPaths(job)
    <2>1. DOMAIN CopyTree(PackageLayout(job), Tree(sidecar)) = DOMAIN Tree(sidecar) \cup DOMAIN PackageLayout(job)
      BY Overlay
    <2> QED BY <1>2, <1>4, <2>1, TreeFiles
  <1> QED BY <1>4, <1>5, <1>6

LEMMA WorkIsPaths ==
  ASSUME NEW jobs, NEW i \in DOMAIN jobs
  PROVE  DOMAIN WorkDir(jobs[i]) \subseteq Seq(PathNames(jobs))
PROOF
  <1> DEFINE names == PathNames(jobs)
  <1>1. {"src", "generated", "__init__", "__main__", "py.typed", "pyproject.toml",
         PackageName(jobs[i]), ExternsFile(jobs[i]), jobs[i].module} \subseteq names
    BY DEF PathNames, LayoutNames
  <1> HIDE DEF names
  <1>2. LayoutPaths(jobs[i]) \subseteq Seq(names)
    <2>1. \A a, b, c, d \in names : <<a>> \in Seq(names) /\ <<a, b>> \in Seq(names) /\ <<a, b, c>> \in Seq(names) /\ <<a, b, c, d>> \in Seq(names)
      OBVIOUS
    <2> QED BY <1>1, <2>1 DEF LayoutPaths
  <1> QED BY <1>2, WorkPaths DEF names

\* No file of a tree is a directory of it.
NoneWithin(tree) == \A f, g \in DOMAIN tree : Under(f, g) => f = g

LEMMA NoFileIsDirectory ==
  ASSUME NEW job, PackageName(job) # ExternsFile(job)
  PROVE  NoneWithin(WorkDir(job))
PROOF
  <1> SUFFICES ASSUME NEW f \in LayoutPaths(job), NEW g \in LayoutPaths(job), Under(f, g) PROVE f = g
    BY WorkPaths DEF NoneWithin
  <1>1. \A k \in DOMAIN f : f[k] = g[k]
    BY DEF Under
  <1> DEFINE pkg == PackageName(job)
             ext == ExternsFile(job)
  <1>2. CASE f = <<"pyproject.toml">>
    <2>1. g[1] = "pyproject.toml"
      BY <1>1, <1>2
    <2> QED BY <1>2, <2>1 DEF LayoutPaths
  <1>3. CASE f = <<"src", ext>>
    <2>1. g[1] = "src" /\ g[2] = ext
      BY <1>1, <1>3
    <2> QED BY <1>3, <2>1 DEF LayoutPaths
  <1>4. ASSUME NEW name \in {"__init__", "__main__", "py.typed"}, f = <<"src", pkg, name>> PROVE f = g
    <2>1. g[1] = "src" /\ g[2] = pkg /\ g[3] = name /\ Len(f) = 3 /\ Len(f) <= Len(g)
      BY <1>1, <1>4 DEF Under
    <2> QED BY <1>4, <2>1 DEF LayoutPaths
  <1>5. ASSUME NEW name, f = <<"src", pkg, "generated", name>> PROVE f = g
    <2>1. g[1] = "src" /\ g[2] = pkg /\ g[3] = "generated" /\ g[4] = name /\ Len(f) = 4 /\ Len(f) <= Len(g)
      BY <1>1, <1>5 DEF Under
    <2> QED BY <1>5, <2>1 DEF LayoutPaths
  <1> QED BY <1>2, <1>3, <1>4, <1>5 DEF LayoutPaths

\* Jobs of one program that the key does tell apart build one tree.
LEMMA OneTreePerProgram ==
  ASSUME NEW a, NEW b, CacheKey(a) = CacheKey(b), ~Apart(a, b)
  PROVE  WorkDir(a) = WorkDir(b)
PROOF
  <1>1. /\ a.src = b.src /\ a.module = b.module /\ a.prefix = b.prefix
        /\ a.src \in WithExterns => a.sidecar = b.sidecar
    BY DEF Apart, CacheKey
  <1>2. PackageName(a) = PackageName(b) /\ ExternsFile(a) = ExternsFile(b)
    BY <1>1 DEF PackageName, ExternsFile
  <1>3. PackageLayout(a) = PackageLayout(b)
    BY <1>1, <1>2 DEF PackageLayout
  <1> QED BY <1>1, <1>2, <1>3 DEF WorkDir

-----------------------------------------------------------------------------
(* PyBuild: walks.                                                         *)

LEMMA PutFile ==
  ASSUME NEW tree, NEW f, NEW content
  PROVE  /\ DOMAIN Put(tree, f, content) = DOMAIN tree \cup {f} /\ Put(tree, f, content)[f] = content
         /\ \A g \in DOMAIN tree : g # f => Put(tree, f, content)[g] = tree[g]
         /\ IsTree(Put(tree, f, content))
PROOF BY DEF Put, IsTree

LEMMA UnderRoot ==
  ASSUME NEW S, NEW f \in Seq(S)
  PROVE  Under(Root, f) /\ Under(f, f)
PROOF
  <1>1. Len(f) \in Nat /\ Len(Root) = 0 /\ DOMAIN Root = {}
    BY DEF Root
  <1> QED BY <1>1 DEF Under

\* What was to be visited still is once its directory has been read.
LEMMA WalkCovers ==
  ASSUME NEW S, NEW tree, DOMAIN tree \subseteq Seq(S), NEW paths, \A p \in paths : p \in Seq(S),
         NEW d \in paths, d \notin DOMAIN tree
  PROVE  /\ \A p \in (paths \ {d}) \cup Children(tree, d) : p \in Seq(S)
         /\ \A f \in DOMAIN tree : CoveredBy(paths, f) => CoveredBy((paths \ {d}) \cup Children(tree, d), f)
PROOF
  <1>1. ASSUME NEW f \in DOMAIN tree, Under(d, f), f # d
        PROVE  [k \in 1 .. Len(d) + 1 |-> f[k]] \in Seq(S) /\ Under([k \in 1 .. Len(d) + 1 |-> f[k]], f)
    <2>0. f \in Seq(S) /\ d \in Seq(S) /\ Len(f) \in Nat /\ Len(d) \in Nat /\ DOMAIN f = 1 .. Len(f) /\ DOMAIN d = 1 .. Len(d)
      OBVIOUS
    <2>1. Len(d) <= Len(f) /\ \A k \in 1 .. Len(d) : d[k] = f[k]
      BY <1>1, <2>0 DEF Under
    <2>2. Len(d) # Len(f)
      BY <1>1, <2>0, <2>1, SeqEqual
    <2>3. Len(d) + 1 \in Nat /\ Len(d) + 1 <= Len(f) /\ \A k \in 1 .. Len(d) + 1 : k \in 1 .. Len(f)
      <3>1. \A m, n \in Nat : m <= n /\ m # n => m + 1 \in Nat /\ m + 1 <= n /\ \A k \in 1 .. m + 1 : k \in 1 .. n
        OBVIOUS
      <3>2. Len(d) \in Nat /\ Len(f) \in Nat /\ Len(d) <= Len(f) /\ Len(d) # Len(f)
        BY <2>0, <2>1, <2>2
      <3> QED BY ONLY <3>1, <3>2
    <2>4. \A k \in 1 .. Len(d) + 1 : f[k] \in S
      BY <2>0, <2>3
    <2> DEFINE c == [k \in 1 .. Len(d) + 1 |-> f[k]]
               n == Len(d) + 1
    <2>5. c \in Seq(S) /\ Len(c) = n /\ DOMAIN c = 1 .. n
      <3>1. c \in [1 .. n -> S] /\ n \in Nat
        BY <2>3, <2>4
      <3> HIDE DEF c, n
      <3> QED BY <3>1
    <2>6. \A k \in DOMAIN c : c[k] = f[k]
      OBVIOUS
    <2> HIDE DEF c
    <2>7. c \in Seq(S) /\ Under(c, f)
      BY <2>3, <2>5, <2>6 DEF Under
    <2> QED BY <2>7 DEF c
  <1>2. ASSUME NEW p \in (paths \ {d}) \cup Children(tree, d) PROVE p \in Seq(S)
    BY <1>1, <1>2 DEF Children
  <1>3. ASSUME NEW f \in DOMAIN tree, CoveredBy(paths, f) PROVE CoveredBy((paths \ {d}) \cup Children(tree, d), f)
    <2>1. PICK p \in paths : Under(p, f)
      BY <1>3 DEF CoveredBy
    <2>2. CASE p # d
      BY <2>1, <2>2 DEF CoveredBy
    <2>3. CASE p = d
      <3>1. f # d
        OBVIOUS
      <3>2. [k \in 1 .. Len(d) + 1 |-> f[k]] \in Children(tree, d)
        BY <2>1, <2>3, <3>1 DEF Children
      <3>3. Under([k \in 1 .. Len(d) + 1 |-> f[k]], f)
        BY <1>1, <2>1, <2>3, <3>1
      <3> QED BY <3>2, <3>3 DEF CoveredBy
    <2> QED BY <2>2, <2>3
  <1> QED BY <1>2, <1>3

\* Once a file is written, every other is still to be visited if it was.
LEMMA WriteCovers ==
  ASSUME NEW tree, NoneWithin(tree), NEW paths, NEW f \in DOMAIN tree, NEW g \in DOMAIN tree, g # f, CoveredBy(paths, g)
  PROVE  CoveredBy(paths \ {f}, g)
PROOF BY DEF NoneWithin, CoveredBy

LEMMA CopyBegins == ASSUME NEW S, NEW tree, DOMAIN tree \subseteq Seq(S) PROVE Copied(EmptyTree, tree, {Root})
PROOF
  <1>1. DOMAIN EmptyTree = {}
    BY DEF EmptyTree
  <1>2. \A f \in DOMAIN tree : CoveredBy({Root}, f)
    BY UnderRoot DEF CoveredBy
  <1> QED BY <1>1, <1>2 DEF Copied

LEMMA CopyOpens ==
  ASSUME NEW dst, NEW S, NEW tree, DOMAIN tree \subseteq Seq(S), NEW paths, NEW f \in DOMAIN tree, f \in paths, Copied(dst, tree, paths)
  PROVE  Copied(Put(dst, f, Torn), tree, paths)
PROOF
  <1> DEFINE new == Put(dst, f, Torn)
  <1>1. DOMAIN new = DOMAIN dst \cup {f} /\ new[f] = Torn /\ \A g \in DOMAIN dst : g # f => new[g] = dst[g]
    BY DEF Put
  <1>2. CoveredBy(paths, f)
    BY UnderRoot DEF CoveredBy
  <1> HIDE DEF new
  <1> QED BY <1>1, <1>2 DEF Copied, new

LEMMA CopyWrites ==
  ASSUME NEW dst, NEW tree, NoneWithin(tree), NEW paths, NEW f \in DOMAIN tree, f \in DOMAIN dst, Copied(dst, tree, paths)
  PROVE  Copied(Put(dst, f, Written(dst[f], tree[f])), tree, paths \ {f})
PROOF
  <1> DEFINE new == Put(dst, f, Written(dst[f], tree[f]))
  <1>1. DOMAIN new = DOMAIN dst \cup {f} /\ new[f] = Written(dst[f], tree[f]) /\ \A g \in DOMAIN dst : g # f => new[g] = dst[g]
    BY DEF Put
  <1>2. Written(dst[f], tree[f]) = tree[f]
    BY DEF Copied, Written
  <1>3. \A g \in DOMAIN tree : g # f /\ CoveredBy(paths, g) => CoveredBy(paths \ {f}, g)
    BY WriteCovers
  <1> HIDE DEF new
  <1> QED BY <1>1, <1>2, <1>3 DEF Copied, new

LEMMA CopyEnds ==
  ASSUME NEW dst, NEW tree, IsTree(dst), IsTree(tree), Copied(dst, tree, {})
  PROVE  dst = tree
PROOF
  <1>1. DOMAIN dst = DOMAIN tree /\ \A f \in DOMAIN tree : dst[f] = tree[f]
    BY DEF Copied, CoveredBy
  <1> QED BY <1>1 DEF IsTree

-----------------------------------------------------------------------------
(* PyBuild: the invariant holds at first, and what it says of an entry.    *)

LEMMA WorkFacts ==
  ASSUME in \in JobLists, NEW i \in DOMAIN in
  PROVE  IsTree(Work(i)) /\ NoneWithin(Work(i)) /\ DOMAIN Work(i) \subseteq Paths
PROOF
  <1>1. PackageName(in[i]) # ExternsFile(in[i])
    BY JobListsAssumption
  <1>2. IsTree(Work(i))
    BY WorkTree DEF IsTree, Work
  <1>3. NoneWithin(Work(i))
    BY <1>1, NoFileIsDirectory DEF Work
  <1>4. DOMAIN Work(i) \subseteq Paths
    BY WorkIsPaths DEF Work, Paths
  <1> QED BY <1>2, <1>3, <1>4

LEMMA PyBuildInitially == PyBuildInit => PyBuildInv
PROOF
  <1> SUFFICES ASSUME PyBuildInit PROVE PyBuildInv
    OBVIOUS
  <1>1. /\ subject = "pybuild" /\ in \in JobLists /\ cache = [k \in {} |-> EmptyTree] /\ DOMAIN cache = {}
        /\ outs = [o \in OutDirs(in) |-> EmptyTree] /\ proc = [i \in DOMAIN in |-> NotStarted]
    BY DEF PyBuildInit, Called
  <1>2. \A i \in DOMAIN in : proc[i] = NotStarted /\ outs[in[i].out] = EmptyTree
    BY <1>1 DEF OutDirs
  <1>12. /\ IsRecord(NotStarted) /\ NotStarted.at = "start" /\ NotStarted.error = "" /\ NotStarted.pending = {} /\ NotStarted.open = {}
         /\ NotStarted.hit = FALSE /\ NotStarted.made = {}
    BY DEF NotStarted, IsRecord
  <1>3. ASSUME NEW i \in DOMAIN in
        PROVE  /\ IsRecord(proc[i]) /\ proc[i].at = "start" /\ proc[i].error = "" /\ proc[i].pending = {} /\ proc[i].open = {}
               /\ proc[i].hit = FALSE /\ proc[i].made = {}
    BY <1>2, <1>12
  <1>4. DOMAIN EmptyTree = {} /\ IsTree(EmptyTree)
    BY DEF EmptyTree, IsTree
  <1>5. Shape
    <2>1. \A i \in DOMAIN in : RecordOk(i)
      BY <1>3 DEF RecordOk
    <2>2. \A o \in OutDirs(in) : IsTree(outs[o])
      BY <1>1, <1>4
    <2> QED BY <1>1, <2>1, <2>2 DEF Shape
  <1>6. \A k : Entry(k) = EmptyTree
    BY <1>1 DEF Entry
  <1>7. FilesKnown
    BY <1>2, <1>4, <1>6 DEF FilesKnown
  <1>8. FillsCover
    BY <1>3 DEF FillsCover, Filled
  <1>9. EntriesHaveWriters /\ TornHaveWriters
    BY <1>1, <1>4, <1>6 DEF EntriesHaveWriters, TornHaveWriters
  <1>10. OwnTrees
    BY <1>2, <1>3 DEF OwnTrees, OwnTree
  <1>11. QuietHits
    BY <1>3 DEF QuietHits
  <1> QED BY <1>5, <1>7, <1>8, <1>9, <1>10, <1>11 DEF PyBuildInv

\* An entry that nobody is writing or has given up is whole.
LEMMA QuietEntryIsWhole ==
  ASSUME PyBuildInv, NEW i \in DOMAIN in, Key(i) \in DOMAIN cache, OneTree(i), Unfinished(i) = {}
  PROVE  cache[Key(i)] = Work(i)
PROOF
  <1> DEFINE entry == cache[Key(i)]
  <1>1. Entry(Key(i)) = entry /\ IsTree(entry) /\ in \in JobLists /\ IsTree(Work(i))
    BY WorkFacts DEF PyBuildInv, Shape, Entry
  <1>2. \A j \in DOMAIN in : Key(j) = Key(i) => proc[j].at \notin {"fill", "dropped"} /\ Work(j) = Work(i)
    BY DEF Unfinished, OneTree
  <1> HIDE DEF entry
  <1>3. PICK j \in DOMAIN in : Key(j) = Key(i) /\ Filled(j)
    BY <1>2 DEF PyBuildInv, EntriesHaveWriters, Writer
  <1>4. proc[j].pending = {}
    BY <1>3 DEF PyBuildInv, Shape, RecordOk, Filled
  <1>5. \A f \in DOMAIN Work(i) : f \in DOMAIN entry
    BY <1>1, <1>2, <1>3, <1>4 DEF PyBuildInv, FillsCover, CoveredBy
  <1>6. \A f \in DOMAIN entry : f \in DOMAIN Work(i)
    BY <1>1, <1>2 DEF PyBuildInv, FilesKnown, KnownFile
  <1>7. \A f \in DOMAIN entry : entry[f] = Work(i)[f]
    BY <1>1, <1>2 DEF PyBuildInv, TornHaveWriters, Tears
  <1>8. entry = Work(i)
    BY <1>1, <1>5, <1>6, <1>7 DEF IsTree
  <1> QED BY <1>8 DEF entry

\* What a copy reads is of a build that uses its entry, and its paths are paths.
LEMMA SourceKnown ==
  ASSUME PyBuildInv, NEW i \in DOMAIN in, Copying(i), NEW f \in DOMAIN CopySource(i)
  PROVE  f \in Paths /\ KnownFile(i, f, Torn) /\ KnownFile(i, f, CopySource(i)[f])
PROOF
  <1>0. in \in JobLists
    BY DEF PyBuildInv, Shape
  <1>1. CASE proc[i].at = "hit"
    <2>1. CopySource(i) = cache[Key(i)] /\ Entry(Key(i)) = cache[Key(i)]
      BY <1>1 DEF CopySource, Entry, PyBuildInv, Shape, RecordOk
    <2>2. KnownFile(i, f, CopySource(i)[f])
      BY <2>1 DEF PyBuildInv, FilesKnown
    <2>3. PICK j \in DOMAIN in : Key(j) = Key(i) /\ f \in DOMAIN Work(j)
      BY <2>2 DEF KnownFile
    <2>4. KnownFile(i, f, Torn)
      BY <2>3 DEF KnownFile
    <2>5. f \in Paths
      BY <1>0, <2>3, WorkFacts
    <2> QED BY <2>2, <2>4, <2>5
  <1>2. CASE proc[i].at # "hit"
    <2>1. CopySource(i) = Work(i)
      BY <1>2 DEF CopySource, Work
    <2>2. KnownFile(i, f, Work(i)[f]) /\ KnownFile(i, f, Torn)
      BY <2>1 DEF KnownFile
    <2>3. f \in Paths
      BY <1>0, <2>1, WorkFacts
    <2> QED BY <2>1, <2>2, <2>3
  <1> QED BY <1>1, <1>2

-----------------------------------------------------------------------------
(* PyBuild: steps that leave the trees alone.                              *)

\* Who copies the entry that i begins to write knows that i is beside it.
Beside(i, j) ==
  proc[j].at = "hit" /\ Key(j) = Key(i) /\ proc'[j] = [proc[j] EXCEPT !.beside = @ \cup {i}]

LEMMA StandKeeps ==
  ASSUME PyBuildInv, NEW i \in DOMAIN in, in' = in, subject' = subject, cache' = cache, outs' = outs,
         proc' = [j \in DOMAIN in |-> proc'[j]], RecordOk(i)',
         \A j \in DOMAIN in : j # i => proc'[j] = proc[j] \/ Beside(i, j),
         proc'[i].at = "fill" \/ Filled(i)'
           => \A f \in DOMAIN Work(i) : CoveredBy(proc'[i].pending, f) \/ f \in DOMAIN Entry(Key(i)),
         Writer(i) => Writer(i)',
         \A f : Tears(i, f) => Tears(i, f)',
         OwnOutput(i) /\ Exact(i)' => OwnTree(i)',
         proc'[i].at = "hit" /\ proc'[i].beside = {} => Unfinished(i) = {},
         proc'[i].at \in {"fill", "dropped"} =>
           \/ proc[i].at \in {"fill", "dropped"}
           \/ \A j \in DOMAIN in : j # i /\ proc[j].at = "hit" /\ Key(j) = Key(i) => Beside(i, j)
  PROVE  PyBuildInv'
PROOF
  <1>1. \A j \in DOMAIN in : Key(j)' = Key(j) /\ Work(j)' = Work(j) /\ (OneTree(j)' <=> OneTree(j)) /\ (OwnOutput(j)' <=> OwnOutput(j))
    BY DEF Key, Work, OneTree, OwnOutput
  <1>2. \A k : Entry(k)' = Entry(k)
    BY DEF Entry
  <1>3. ASSUME NEW j \in DOMAIN in, j # i
        PROVE  /\ IsRecord(proc[j]) => IsRecord(proc'[j])
               /\ proc'[j].at = proc[j].at /\ proc'[j].error = proc[j].error /\ proc'[j].pending = proc[j].pending
               /\ proc'[j].open = proc[j].open /\ proc'[j].hit = proc[j].hit /\ proc'[j].made = proc[j].made
               /\ proc[j].beside \subseteq proc'[j].beside
               /\ Beside(i, j) => proc'[j].beside # {}
    <2>1. CASE proc'[j] = proc[j] /\ ~Beside(i, j)
      BY <2>1
    <2>2. CASE Beside(i, j)
      <3>1. RecordOk(j)
        BY DEF PyBuildInv, Shape
      <3>2. IsRecord(proc[j])
        BY <3>1 DEF RecordOk
      <3> QED BY <2>2, <3>2 DEF Beside, IsRecord
    <2> QED BY <1>3, <2>1, <2>2
  <1>4. Shape'
    <2>1. \A j \in DOMAIN in : RecordOk(j)'
      <3> SUFFICES ASSUME NEW j \in DOMAIN in, j # i PROVE RecordOk(j)'
        OBVIOUS
      <3>1. RecordOk(j)
        BY DEF PyBuildInv, Shape
      <3> QED BY <1>1, <1>3, <3>1 DEF RecordOk, Paths
    <2> QED BY <2>1 DEF PyBuildInv, Shape
  <1>5. FilesKnown'
    <2>1. \A f, content : \A j \in DOMAIN in : KnownFile(j, f, content) => KnownFile(j, f, content)'
      BY <1>1 DEF KnownFile
    <2> QED BY <1>1, <1>2, <2>1 DEF PyBuildInv, FilesKnown
  <1>6. \A j \in DOMAIN in : j # i => (Filled(j)' <=> Filled(j)) /\ (Writer(j)' <=> Writer(j)) /\ \A f : Tears(j, f)' <=> Tears(j, f)
    BY <1>3 DEF Filled, Writer, Tears
  <1>7. FillsCover'
    BY <1>1, <1>2, <1>3, <1>6 DEF PyBuildInv, FillsCover
  <1>8. EntriesHaveWriters'
    BY <1>1, <1>6 DEF PyBuildInv, EntriesHaveWriters
  <1>9. TornHaveWriters'
    <2> SUFFICES ASSUME NEW j \in DOMAIN in, OneTree(j), NEW f \in DOMAIN Entry(Key(j)), Entry(Key(j))[f] # Work(j)[f]
                 PROVE  \E k \in DOMAIN in : Key(k) = Key(j) /\ Tears(k, f)'
      BY <1>1, <1>2 DEF TornHaveWriters
    <2>1. PICK k \in DOMAIN in : Key(k) = Key(j) /\ Tears(k, f)
      BY DEF PyBuildInv, TornHaveWriters
    <2> QED BY <1>6, <2>1
  <1>10. OwnTrees'
    <2> SUFFICES ASSUME NEW j \in DOMAIN in, j # i, OwnOutput(j), Exact(j)' PROVE OwnTree(j)'
      BY <1>1 DEF OwnTrees
    <2>1. Exact(j)
      BY <1>1, <1>3 DEF Exact
    <2>2. OwnTree(j)
      BY <2>1 DEF PyBuildInv, OwnTrees
    <2> QED BY <1>1, <1>3, <2>2 DEF OwnTree
  <1>11. QuietHits'
    <2> SUFFICES ASSUME NEW j \in DOMAIN in, proc'[j].at = "hit", proc'[j].beside = {}, NEW k \in DOMAIN in, Key(k) = Key(j),
                        proc'[k].at \in {"fill", "dropped"}
                 PROVE  FALSE
      BY <1>1 DEF QuietHits, Unfinished
    <2>1. j # k
      OBVIOUS
    <2>2. CASE j = i
      BY <1>3, <2>1, <2>2 DEF Unfinished
    <2>3. CASE j # i
      <3>1. proc[j].at = "hit" /\ proc[j].beside = {} /\ ~Beside(i, j)
        BY <1>3, <2>3
      <3>2. proc[k].at \notin {"fill", "dropped"}
        BY <3>1 DEF PyBuildInv, QuietHits, Unfinished
      <3>3. k = i
        BY <1>3, <3>2
      <3> QED BY <2>3, <3>1, <3>2, <3>3
    <2> QED BY <2>2, <2>3
  <1> QED BY <1>4, <1>5, <1>7, <1>8, <1>9, <1>10, <1>11 DEF PyBuildInv

-----------------------------------------------------------------------------
(* PyBuild: steps of a copy.                                               *)

LEMMA CopyKeeps ==
  ASSUME PyBuildInv, NEW i \in DOMAIN in, in' = in, subject' = subject, Copying(i),
         NEW tree, IsTree(tree), SetTarget(i, tree), NEW P, NEW O, O \subseteq P, \A p \in P : p \in Paths,
         proc' = [j \in DOMAIN in |-> proc'[j]], \A j \in DOMAIN in : j # i => proc'[j] = proc[j],
         IsRecord(proc'[i]), proc'[i].pending = P, proc'[i].open = O,
         proc'[i].at = proc[i].at, proc'[i].error = proc[i].error, proc'[i].hit = proc[i].hit,
         proc'[i].beside = proc[i].beside, proc'[i].made = proc[i].made,
         proc[i].at = "fill" \/ OwnOutput(i) => \A f \in DOMAIN tree : KnownFile(i, f, tree[f]),
         \A f \in DOMAIN CopyTarget(i) : f \in DOMAIN tree,
         CopySource(i) = Work(i) /\ Copied(CopyTarget(i), Work(i), proc[i].pending) => Copied(tree, Work(i), P),
         proc[i].at = "fill" => \A f \in DOMAIN Work(i) :
           CoveredBy(proc[i].pending, f) => CoveredBy(P, f) \/ f \in DOMAIN tree,
         proc[i].at = "fill" /\ OneTree(i) => \A f \in DOMAIN tree :
           \/ tree[f] = Work(i)[f] \/ f \in O
           \/ f \in DOMAIN CopyTarget(i) /\ tree[f] = CopyTarget(i)[f] /\ f \notin proc[i].open
  PROVE  PyBuildInv'
PROOF
  <1>1. \A j \in DOMAIN in : Key(j)' = Key(j) /\ Work(j)' = Work(j) /\ (OneTree(j)' <=> OneTree(j)) /\ (OwnOutput(j)' <=> OwnOutput(j))
    BY DEF Key, Work, OneTree, OwnOutput
  <1>2. /\ in \in JobLists /\ proc = [j \in DOMAIN in |-> proc[j]] /\ RecordOk(i)
        /\ outs = [o \in OutDirs(in) |-> outs[o]] /\ cache = [k \in DOMAIN cache |-> cache[k]]
        /\ subject = "pybuild" /\ in[i].out \in OutDirs(in)
    BY DEF PyBuildInv, Shape, OutDirs
  <1>3. \A j \in DOMAIN in : j # i => proc'[j] = proc[j]
    OBVIOUS
  <1>4. \A j \in DOMAIN in : /\ proc'[j].at = proc[j].at /\ proc'[j].error = proc[j].error /\ proc'[j].hit = proc[j].hit
                             /\ proc'[j].beside = proc[j].beside /\ proc'[j].made = proc[j].made
    OBVIOUS
  <1>5. /\ proc[i].at = "fill" => /\ outs' = outs /\ Entry(Key(i))' = tree /\ CopyTarget(i) = Entry(Key(i))
                                  /\ DOMAIN cache' = DOMAIN cache \cup {Key(i)}
        /\ proc[i].at # "fill" => cache' = cache /\ outs'[in[i].out] = tree /\ CopyTarget(i) = outs[in[i].out]
        /\ \A k : k # Key(i) => Entry(k)' = Entry(k)
        /\ \A o \in OutDirs(in) : o # in[i].out => outs'[o] = outs[o]
        /\ outs' = [o \in OutDirs(in) |-> outs'[o]] /\ \A o \in OutDirs(in) : IsTree(outs'[o])
        /\ cache' = [k \in DOMAIN cache' |-> cache'[k]] /\ \A k \in DOMAIN cache' : IsTree(cache'[k])
        /\ DOMAIN cache \subseteq DOMAIN cache'
    <2>0. (\A o \in OutDirs(in) : IsTree(outs[o])) /\ \A k \in DOMAIN cache : IsTree(cache[k])
      BY DEF PyBuildInv, Shape
    <2>1. CASE proc[i].at = "fill"
      <3>1. /\ cache' = [k \in DOMAIN cache \cup {Key(i)} |-> IF k = Key(i) THEN tree ELSE cache[k]] /\ outs' = outs
            /\ CopyTarget(i) = Entry(Key(i))
        BY <2>1 DEF SetTarget, CopyTarget
      <3>2. /\ DOMAIN cache' = DOMAIN cache \cup {Key(i)} /\ cache' = [k \in DOMAIN cache' |-> cache'[k]]
            /\ cache'[Key(i)] = tree /\ \A k \in DOMAIN cache : k # Key(i) => cache'[k] = cache[k]
        BY <3>1
      <3>3. Entry(Key(i))' = tree
        BY <1>1, <3>2 DEF Entry
      <3>4. ASSUME NEW k, k # Key(i) PROVE Entry(k)' = Entry(k)
        BY <3>2, <3>4 DEF Entry
      <3>5. \A k \in DOMAIN cache' : IsTree(cache'[k])
        BY <2>0, <3>2
      <3> QED BY <1>2, <2>0, <2>1, <3>1, <3>2, <3>3, <3>4, <3>5
    <2>2. CASE proc[i].at # "fill"
      <3>1. /\ outs' = [outs EXCEPT ![in[i].out] = tree] /\ cache' = cache
            /\ CopyTarget(i) = outs[in[i].out]
        BY <2>2 DEF SetTarget, CopyTarget
      <3>2. /\ outs'[in[i].out] = tree /\ \A o \in OutDirs(in) : o # in[i].out => outs'[o] = outs[o]
            /\ outs' = [o \in OutDirs(in) |-> outs'[o]]
        BY <1>2, <3>1
      <3>3. \A k : Entry(k)' = Entry(k)
        BY <3>1 DEF Entry
      <3>4. \A o \in OutDirs(in) : IsTree(outs'[o])
        BY <2>0, <3>2
      <3> QED BY <1>2, <2>0, <2>2, <3>1, <3>2, <3>3, <3>4
    <2> QED BY <2>1, <2>2
  <1>6. proc[i].at \in {"hit", "out", "fill"}
    BY DEF Copying
  <1>7. \A j \in DOMAIN in : /\ OwnOutput(j) /\ j # i => outs'[in[j].out] = outs[in[j].out]
                             /\ in[j].out \in OutDirs(in)
    BY <1>5 DEF OwnOutput, OutDirs
  <1>8. /\ \A j \in DOMAIN in : (Filled(j)' <=> Filled(j)) /\ (Writer(j)' <=> Writer(j)) /\ (Exact(j)' <=> Exact(j))
        /\ \A j \in DOMAIN in : Unfinished(j)' = Unfinished(j)
        /\ \A f : \A j \in DOMAIN in : j # i => (Tears(j, f)' <=> Tears(j, f))
    <2>1. ASSUME NEW j \in DOMAIN in PROVE (Filled(j)' <=> Filled(j)) /\ (Writer(j)' <=> Writer(j))
      BY <1>4 DEF Filled, Writer
    <2>2. ASSUME NEW j \in DOMAIN in PROVE Exact(j)' <=> Exact(j)
      BY <1>1, <1>4 DEF Exact
    <2>3. ASSUME NEW j \in DOMAIN in PROVE Unfinished(j)' = Unfinished(j)
      BY <1>1, <1>4 DEF Unfinished
    <2>4. ASSUME NEW j \in DOMAIN in, NEW f, j # i PROVE Tears(j, f)' <=> Tears(j, f)
      BY <1>3, <1>4, <2>4 DEF Tears
    <2> QED BY <2>1, <2>2, <2>3, <2>4
  <1>9. \A f, content : \A j \in DOMAIN in : KnownFile(j, f, content)' <=> KnownFile(j, f, content)
    BY <1>1 DEF KnownFile
  <1>10. Shape'
    <2>1. RecordOk(i)'
      <3>1. Bundles(in[i])' = Bundles(in[i]) /\ Paths' = Paths
        BY DEF Paths
      <3> QED BY <1>1, <1>2, <1>3, <1>4, <1>5, <1>6, <3>1 DEF RecordOk
    <2>2. ASSUME NEW j \in DOMAIN in, j # i PROVE RecordOk(j)'
      <3>1. RecordOk(j) /\ proc'[j] = proc[j]
        BY <1>3, <2>2 DEF PyBuildInv, Shape
      <3>2. Paths' = Paths /\ Key(j)' = Key(j) /\ in'[j] = in[j]
        BY <1>1 DEF Paths
      <3> QED BY <1>5, <3>1, <3>2 DEF RecordOk
    <2> QED BY <1>2, <1>3, <1>5, <2>1, <2>2 DEF Shape
  <1>11. FilesKnown'
    <2>1. ASSUME NEW j \in DOMAIN in, NEW f \in DOMAIN (Entry(Key(j))') PROVE KnownFile(j, f, Entry(Key(j))'[f])
      <3>1. CASE proc[i].at = "fill" /\ Key(j) = Key(i)
        BY <1>1, <1>5, <2>1, <3>1 DEF KnownFile
      <3>2. CASE ~(proc[i].at = "fill" /\ Key(j) = Key(i))
        <4>1. Entry(Key(j))' = Entry(Key(j))
          BY <1>1, <1>5, <3>2 DEF Entry
        <4> QED BY <2>1, <4>1 DEF PyBuildInv, FilesKnown
      <3> QED BY <3>1, <3>2
    <2>2. ASSUME NEW j \in DOMAIN in, OwnOutput(j), NEW f \in DOMAIN outs'[in[j].out] PROVE KnownFile(j, f, outs'[in[j].out][f])
      <3>1. CASE j = i /\ proc[i].at # "fill"
        BY <1>5, <2>2, <3>1
      <3>2. CASE ~(j = i /\ proc[i].at # "fill")
        <4>1. outs'[in[j].out] = outs[in[j].out]
          BY <1>5, <1>7, <2>2, <3>2
        <4> QED BY <2>2, <4>1 DEF PyBuildInv, FilesKnown
      <3> QED BY <3>1, <3>2
    <2> QED BY <1>1, <1>9, <2>1, <2>2 DEF FilesKnown
  <1>12. FillsCover'
    <2> SUFFICES ASSUME NEW j \in DOMAIN in, proc[j].at = "fill" \/ Filled(j), NEW f \in DOMAIN Work(j),
                        ~CoveredBy(proc'[j].pending, f)
                 PROVE  f \in DOMAIN (Entry(Key(j))')
      BY <1>1, <1>4, <1>8 DEF FillsCover
    <2>1. CoveredBy(proc[j].pending, f) \/ f \in DOMAIN Entry(Key(j))
      BY DEF PyBuildInv, FillsCover
    <2>2. \A k \in DOMAIN in : DOMAIN Entry(Key(k)) \subseteq DOMAIN (Entry(Key(k))')
      BY <1>1, <1>5 DEF Entry
    <2>3. CASE j = i
      <3>1. proc[i].at = "fill"
        BY <1>6, <2>3 DEF Filled
      <3> QED BY <1>3, <1>5, <2>1, <2>2, <2>3, <3>1
    <2>4. CASE j # i
      BY <1>3, <2>1, <2>2, <2>4
    <2> QED BY <2>3, <2>4
  <1>13. EntriesHaveWriters'
    <2> SUFFICES ASSUME NEW j \in DOMAIN in, Key(j) \in DOMAIN cache' PROVE \E k \in DOMAIN in : Key(k) = Key(j) /\ Writer(k)
      BY <1>1, <1>8 DEF EntriesHaveWriters
    <2>1. CASE Key(j) \in DOMAIN cache
      BY <2>1 DEF PyBuildInv, EntriesHaveWriters
    <2>2. CASE Key(j) \notin DOMAIN cache
      BY <1>5, <2>2 DEF Writer
    <2> QED BY <2>1, <2>2
  <1>14. TornHaveWriters'
    <2> SUFFICES ASSUME NEW j \in DOMAIN in, OneTree(j), NEW f \in DOMAIN (Entry(Key(j))'), Entry(Key(j))'[f] # Work(j)[f]
                 PROVE  \E k \in DOMAIN in : Key(k) = Key(j) /\ Tears(k, f)'
      BY <1>1 DEF TornHaveWriters
    <2>1. ASSUME f \in DOMAIN Entry(Key(j)), Entry(Key(j))'[f] = Entry(Key(j))[f], Key(j) = Key(i) => ~Tears(i, f)
          PROVE  \E k \in DOMAIN in : Key(k) = Key(j) /\ Tears(k, f)'
      <3>1. PICK k \in DOMAIN in : Key(k) = Key(j) /\ Tears(k, f)
        BY <2>1 DEF PyBuildInv, TornHaveWriters
      <3> QED BY <1>8, <2>1, <3>1
    <2>2. CASE proc[i].at = "fill" /\ Key(j) = Key(i)
      <3>1. OneTree(i) /\ Work(j) = Work(i)
        BY <2>2 DEF OneTree
      <3>2. Entry(Key(j))' = tree /\ CopyTarget(i) = Entry(Key(j))
        BY <1>1, <1>5, <2>2
      <3>3. CASE f \in O
        BY <1>3, <1>4, <2>2, <3>3 DEF Tears
      <3>4. CASE f \notin O
        <4>1. f \in DOMAIN Entry(Key(j)) /\ tree[f] = Entry(Key(j))[f] /\ f \notin proc[i].open
          BY <2>2, <3>1, <3>2, <3>4
        <4>2. ~Tears(i, f)
          BY <2>2, <4>1 DEF Tears
        <4> QED BY <2>1, <3>2, <4>1, <4>2
      <3> QED BY <3>3, <3>4
    <2>3. CASE ~(proc[i].at = "fill" /\ Key(j) = Key(i))
      <3>1. Entry(Key(j))' = Entry(Key(j))
        BY <1>1, <1>5, <2>3 DEF Entry
      <3>2. Key(j) = Key(i) => ~Tears(i, f)
        BY <1>6, <2>3 DEF Tears
      <3> QED BY <2>1, <3>1, <3>2
    <2> QED BY <2>2, <2>3
  <1>15. OwnTrees'
    <2> SUFFICES ASSUME NEW j \in DOMAIN in, OwnOutput(j), Exact(j) PROVE OwnTree(j)'
      BY <1>1, <1>8 DEF OwnTrees
    <2>1. OwnTree(j)
      BY DEF PyBuildInv, OwnTrees
    <2>2. CASE j # i
      <3>1. outs'[in[j].out] = outs[in[j].out] /\ proc'[j] = proc[j]
        BY <1>3, <1>7, <2>2
      <3> QED BY <1>1, <2>1, <3>1 DEF OwnTree
    <2>3. CASE j = i /\ proc[i].at = "fill"
      BY <1>1, <1>3, <1>4, <1>5, <2>1, <2>3 DEF OwnTree
    <2>4. CASE j = i /\ proc[i].at # "fill"
      <3>1. CopySource(i) = Work(i)
        <4>1. CASE proc[i].at = "out"
          BY <4>1 DEF CopySource, Work
        <4>2. CASE proc[i].at = "hit"
          <5>1. Key(i) \in DOMAIN cache /\ proc[i].beside = {} /\ OneTree(i)
            BY <1>2, <2>4, <4>2 DEF RecordOk, Exact
          <5>2. Unfinished(i) = {}
            BY <4>2, <5>1 DEF PyBuildInv, QuietHits
          <5> QED BY <4>2, <5>1, <5>2, QuietEntryIsWhole DEF CopySource
        <4> QED BY <1>6, <2>4, <4>1, <4>2
      <3>2. Copied(outs[in[i].out], Work(i), proc[i].pending)
        BY <1>6, <2>1, <2>4 DEF OwnTree
      <3>3. Copied(tree, Work(i), P)
        BY <1>5, <2>4, <3>1, <3>2
      <3> QED BY <1>1, <1>3, <1>4, <1>5, <1>6, <2>4, <3>3 DEF OwnTree
    <2> QED BY <2>2, <2>3, <2>4
  <1>16. QuietHits'
    BY <1>4, <1>8 DEF PyBuildInv, QuietHits
  <1> QED BY <1>10, <1>11, <1>12, <1>13, <1>14, <1>15, <1>16 DEF PyBuildInv

-----------------------------------------------------------------------------
(* PyBuild: every action keeps the invariant.                              *)

LEMMA StandFacts ==
  ASSUME PyBuildInv, NEW i \in DOMAIN in, UNCHANGED <<cache, outs, evalVars>>
  PROVE  /\ in' = in /\ subject' = subject /\ cache' = cache /\ outs' = outs /\ in \in JobLists
         /\ proc = [j \in DOMAIN in |-> proc[j]] /\ RecordOk(i) /\ IsRecord(proc[i])
         /\ Work(i)' = Work(i) /\ Key(i)' = Key(i) /\ Bundles(in[i])' = Bundles(in[i]) /\ Paths' = Paths /\ Root \in Paths
         /\ OwnTree(i)' <=> /\ proc'[i].at = "start" => outs[in[i].out] = EmptyTree
                            /\ proc'[i].at \in {"hit", "out"} => Copied(outs[in[i].out], Work(i), proc'[i].pending)
                            /\ proc'[i].at \in {"fill", "dropped"} \/ (proc'[i].at = "done" /\ proc'[i].error = "")
                                 => outs[in[i].out] = Work(i)
         /\ OwnOutput(i) /\ Exact(i) => OwnTree(i)
PROOF
  <1>1. /\ in' = in /\ subject' = subject /\ cache' = cache /\ outs' = outs
    BY DEF evalVars
  <1>2. in \in JobLists /\ proc = [j \in DOMAIN in |-> proc[j]] /\ RecordOk(i) /\ (OwnOutput(i) /\ Exact(i) => OwnTree(i))
    BY DEF PyBuildInv, Shape, OwnTrees
  <1>3. IsRecord(proc[i])
    BY <1>2 DEF RecordOk
  <1>4. Work(i)' = Work(i) /\ Key(i)' = Key(i) /\ Bundles(in[i])' = Bundles(in[i]) /\ Paths' = Paths
    BY <1>1 DEF Work, Key, Paths
  <1>5. Root \in Paths
    BY DEF Root, Paths
  <1> QED BY <1>1, <1>2, <1>3, <1>4, <1>5 DEF OwnTree

LEMMA RefuseKeeps == ASSUME PyBuildInv, NEW i \in DOMAIN in, Refuse(i) PROVE PyBuildInv'
PROOF
  <1>1. Starting(i) /\ proc[i].at = "start" /\ UNCHANGED <<cache, outs, evalVars>>
    BY DEF Refuse, Starting
  <1>2. /\ in' = in /\ subject' = subject /\ cache' = cache /\ outs' = outs /\ in \in JobLists
        /\ proc = [j \in DOMAIN in |-> proc[j]] /\ RecordOk(i) /\ IsRecord(proc[i])
    BY <1>1, StandFacts
  <1>3. proc[i].pending = {} /\ proc[i].open = {} /\ proc[i].hit = FALSE /\ proc[i].made \subseteq Bundles(in[i]) /\ proc[i].error = ""
    BY <1>1, <1>2 DEF Starting, RecordOk
  <1>4. PICK e : e # "" /\ proc' = [proc EXCEPT ![i].at = "done", ![i].error = e]
    BY DEF Refuse
  <1>5. /\ \A j \in DOMAIN in : j # i => proc'[j] = proc[j]
        /\ proc' = [j \in DOMAIN in |-> proc'[j]]
    BY <1>2, <1>4
  <1>6. /\ IsRecord(proc'[i]) /\ proc'[i].at = "done" /\ proc'[i].error = e /\ proc'[i].pending = proc[i].pending
        /\ proc'[i].open = proc[i].open /\ proc'[i].hit = proc[i].hit /\ proc'[i].made = proc[i].made
    BY <1>2, <1>4 DEF IsRecord
  <1>7. RecordOk(i)'
    BY <1>1, <1>2, <1>3, <1>6, StandFacts DEF RecordOk
  <1>8. ~Writer(i) /\ ~Filled(i)' /\ (\A f : ~Tears(i, f)) /\ OwnTree(i)'
    BY <1>1, <1>4, <1>6, StandFacts DEF Writer, Filled, Tears
  <1> QED BY <1>1, <1>2, <1>5, <1>6, <1>7, <1>8, StandKeeps

LEMMA BeginHitKeeps == ASSUME PyBuildInv, NEW i \in DOMAIN in, BeginHit(i) PROVE PyBuildInv'
PROOF
  <1>1. /\ Starting(i) /\ proc[i].at = "start" /\ Hit(i) /\ UNCHANGED <<cache, outs, evalVars>>
        /\ proc' = [proc EXCEPT ![i].at = "hit", ![i].pending = {Root}, ![i].hit = TRUE, ![i].beside = Unfinished(i)]
    BY DEF BeginHit, Starting
  <1>2. /\ in' = in /\ subject' = subject /\ cache' = cache /\ outs' = outs /\ in \in JobLists
        /\ proc = [j \in DOMAIN in |-> proc[j]] /\ RecordOk(i) /\ IsRecord(proc[i])
    BY <1>1, StandFacts
  <1>3. proc[i].pending = {} /\ proc[i].open = {} /\ proc[i].hit = FALSE /\ proc[i].made \subseteq Bundles(in[i]) /\ proc[i].error = ""
    BY <1>1, <1>2 DEF Starting, RecordOk
  <1>4. in[i].target = "source" /\ Key(i) \in DOMAIN cache
    BY <1>1 DEF Hit, Reads
  <1>5. /\ \A j \in DOMAIN in : j # i => proc'[j] = proc[j]
        /\ proc' = [j \in DOMAIN in |-> proc'[j]]
    BY <1>1, <1>2
  <1>6. /\ IsRecord(proc'[i]) /\ proc'[i].at = "hit" /\ proc'[i].error = proc[i].error /\ proc'[i].pending = {Root}
        /\ proc'[i].open = proc[i].open /\ proc'[i].hit = TRUE /\ proc'[i].made = proc[i].made /\ proc'[i].beside = Unfinished(i)
    BY <1>1, <1>2 DEF IsRecord
  <1>7. RecordOk(i)'
    <2>1. Paths' = Paths /\ Root \in Paths /\ Bundles(in[i])' = Bundles(in[i]) /\ Key(i)' = Key(i)
      BY <1>1, StandFacts
    <2>2. \A p \in proc'[i].pending : p \in Paths'
      BY <1>6, <2>1
    <2> QED BY <1>2, <1>3, <1>4, <1>6, <2>1, <2>2 DEF RecordOk
  <1>8. /\ proc'[i].at \notin {"fill", "dropped"} /\ ~Writer(i) /\ ~Filled(i)' /\ \A f : ~Tears(i, f)
        /\ proc'[i].beside = {} => Unfinished(i) = {}
    BY <1>1, <1>6 DEF Writer, Filled, Tears
  <1>9. OwnOutput(i) => OwnTree(i)'
    <2>1. OwnOutput(i) => outs[in[i].out] = EmptyTree
      BY <1>1, <1>3, StandFacts DEF Exact, OwnTree
    <2>2. Copied(EmptyTree, Work(i), {Root})
      BY <1>2, WorkFacts, CopyBegins DEF Paths
    <2>3. OwnOutput(i) => Copied(outs[in[i].out], Work(i), proc'[i].pending)
      BY <1>6, <2>1, <2>2
    <2> QED BY <1>1, <1>6, <2>3, StandFacts
  <1> QED BY <1>1, <1>2, <1>5, <1>6, <1>7, <1>8, <1>9, StandKeeps

LEMMA MakeBundlesKeeps == ASSUME PyBuildInv, NEW i \in DOMAIN in, MakeBundles(i) PROVE PyBuildInv'
PROOF
  <1>1. /\ Starting(i) /\ proc[i].at = "start" /\ in[i].target # "source" /\ UNCHANGED <<cache, outs, evalVars>>
    BY DEF MakeBundles, Misses, Starting
  <1>2. /\ in' = in /\ subject' = subject /\ cache' = cache /\ outs' = outs /\ in \in JobLists
        /\ proc = [j \in DOMAIN in |-> proc[j]] /\ RecordOk(i) /\ IsRecord(proc[i])
    BY <1>1, StandFacts
  <1>3. proc[i].pending = {} /\ proc[i].open = {} /\ proc[i].hit = FALSE /\ proc[i].made \subseteq Bundles(in[i]) /\ proc[i].error = ""
    BY <1>1, <1>2 DEF Starting, RecordOk
  <1>4. proc' = [proc EXCEPT ![i].at = "done", ![i].made = Bundles(in[i])]
    BY DEF MakeBundles
  <1>5. /\ \A j \in DOMAIN in : j # i => proc'[j] = proc[j]
        /\ proc' = [j \in DOMAIN in |-> proc'[j]]
    BY <1>2, <1>4
  <1>6. /\ IsRecord(proc'[i]) /\ proc'[i].at = "done" /\ proc'[i].error = proc[i].error /\ proc'[i].pending = proc[i].pending
        /\ proc'[i].open = proc[i].open /\ proc'[i].hit = proc[i].hit /\ proc'[i].made = Bundles(in[i])
    BY <1>2, <1>4 DEF IsRecord
  <1>7. RecordOk(i)'
    BY <1>2, <1>3, <1>6, StandFacts DEF RecordOk
  <1>8. ~Writer(i) /\ ~Filled(i)' /\ (\A f : ~Tears(i, f)) /\ ~OwnOutput(i)
    BY <1>1, <1>2, <1>6 DEF Writer, Filled, Tears, OwnOutput
  <1> QED BY <1>1, <1>2, <1>5, <1>6, <1>7, <1>8, StandKeeps

LEMMA BeginOutKeeps == ASSUME PyBuildInv, NEW i \in DOMAIN in, BeginOut(i) PROVE PyBuildInv'
PROOF
  <1>1. /\ Starting(i) /\ proc[i].at = "start" /\ in[i].target = "source" /\ UNCHANGED <<cache, outs, evalVars>>
    BY DEF BeginOut, Misses, Starting
  <1>2. /\ in' = in /\ subject' = subject /\ cache' = cache /\ outs' = outs /\ in \in JobLists
        /\ proc = [j \in DOMAIN in |-> proc[j]] /\ RecordOk(i) /\ IsRecord(proc[i])
    BY <1>1, StandFacts
  <1>3. proc[i].pending = {} /\ proc[i].open = {} /\ proc[i].hit = FALSE /\ proc[i].made \subseteq Bundles(in[i]) /\ proc[i].error = ""
    BY <1>1, <1>2 DEF Starting, RecordOk
  <1>4. proc' = [proc EXCEPT ![i].at = "out", ![i].pending = {Root}]
    BY DEF BeginOut
  <1>5. /\ \A j \in DOMAIN in : j # i => proc'[j] = proc[j]
        /\ proc' = [j \in DOMAIN in |-> proc'[j]]
    BY <1>2, <1>4
  <1>6. /\ IsRecord(proc'[i]) /\ proc'[i].at = "out" /\ proc'[i].error = proc[i].error /\ proc'[i].pending = {Root}
        /\ proc'[i].open = proc[i].open /\ proc'[i].hit = proc[i].hit /\ proc'[i].made = proc[i].made
    BY <1>2, <1>4 DEF IsRecord
  <1>7. RecordOk(i)'
    <2>1. Paths' = Paths /\ Root \in Paths /\ Bundles(in[i])' = Bundles(in[i]) /\ Key(i)' = Key(i)
      BY <1>1, StandFacts
    <2>2. \A p \in proc'[i].pending : p \in Paths'
      BY <1>6, <2>1
    <2> QED BY <1>1, <1>2, <1>3, <1>6, <2>1, <2>2 DEF RecordOk
  <1>8. ~Writer(i) /\ ~Filled(i)' /\ (\A f : ~Tears(i, f)) /\ (OwnOutput(i) => OwnTree(i)')
    <2>1. OwnOutput(i) => outs[in[i].out] = EmptyTree
      BY <1>1, <1>3, StandFacts DEF Exact, OwnTree
    <2>2. Copied(EmptyTree, Work(i), {Root})
      BY <1>2, WorkFacts, CopyBegins DEF Paths
    <2> QED BY <1>1, <1>6, <2>1, <2>2, StandFacts DEF Writer, Filled, Tears
  <1> QED BY <1>1, <1>2, <1>5, <1>6, <1>7, <1>8, StandKeeps

LEMMA BeginFillKeeps == ASSUME PyBuildInv, NEW i \in DOMAIN in, BeginFill(i) PROVE PyBuildInv'
PROOF
  <1>1. /\ proc[i].at = "out" /\ proc[i].pending = {} /\ in[i].cached /\ UNCHANGED <<cache, outs, evalVars>>
    BY DEF BeginFill
  <1>2. /\ in' = in /\ subject' = subject /\ cache' = cache /\ outs' = outs /\ in \in JobLists
        /\ proc = [j \in DOMAIN in |-> proc[j]] /\ RecordOk(i) /\ IsRecord(proc[i])
    BY <1>1, StandFacts
  <1>3. /\ proc[i].open = {} /\ proc[i].hit = FALSE /\ proc[i].made \subseteq Bundles(in[i]) /\ proc[i].error = ""
        /\ in[i].target = "source"
    BY <1>1, <1>2 DEF RecordOk
  <1>4. proc' = [j \in DOMAIN in |->
                   IF j = i THEN [proc[i] EXCEPT !.at = "fill", !.pending = {Root}]
                   ELSE IF proc[j].at = "hit" /\ Key(j) = Key(i) THEN [proc[j] EXCEPT !.beside = @ \cup {i}] ELSE proc[j]]
    BY <1>2 DEF BeginFill
  <1>5. /\ \A j \in DOMAIN in : j # i => proc'[j] = proc[j] \/ Beside(i, j)
        /\ \A j \in DOMAIN in : j # i /\ proc[j].at = "hit" /\ Key(j) = Key(i) => Beside(i, j)
        /\ proc' = [j \in DOMAIN in |-> proc'[j]]
    BY <1>4 DEF Beside
  <1>6. /\ IsRecord(proc'[i]) /\ proc'[i].at = "fill" /\ proc'[i].error = proc[i].error /\ proc'[i].pending = {Root}
        /\ proc'[i].open = proc[i].open /\ proc'[i].hit = proc[i].hit /\ proc'[i].made = proc[i].made /\ proc'[i].beside = proc[i].beside
    BY <1>2, <1>4 DEF IsRecord
  <1>7. RecordOk(i)'
    <2>1. Paths' = Paths /\ Root \in Paths /\ Bundles(in[i])' = Bundles(in[i]) /\ Key(i)' = Key(i)
      BY <1>1, StandFacts
    <2>2. \A p \in proc'[i].pending : p \in Paths'
      BY <1>6, <2>1
    <2> QED BY <1>1, <1>2, <1>3, <1>6, <2>1, <2>2 DEF RecordOk
  <1>8. /\ \A f \in DOMAIN Work(i) : CoveredBy(proc'[i].pending, f)
        /\ Writer(i)' /\ (\A f : ~Tears(i, f)) /\ (OwnOutput(i) => OwnTree(i)')
    <2>1. \A f \in DOMAIN Work(i) : CoveredBy({Root}, f)
      BY <1>2, WorkFacts, UnderRoot DEF Paths, CoveredBy
    <2>2. Writer(i)' /\ \A f : ~Tears(i, f)
      BY <1>1, <1>6 DEF Writer, Tears
    <2>3. ASSUME OwnOutput(i) PROVE OwnTree(i)'
      <3>1. Copied(outs[in[i].out], Work(i), {})
        BY <1>1, <1>3, <2>3, StandFacts DEF Exact, OwnTree
      <3>2. IsTree(outs[in[i].out]) /\ IsTree(Work(i))
        BY <1>2, WorkFacts DEF PyBuildInv, Shape, OutDirs
      <3> QED BY <1>1, <1>6, <3>1, <3>2, CopyEnds, StandFacts
    <2> QED BY <1>6, <2>1, <2>2, <2>3
  <1> QED BY <1>1, <1>2, <1>5, <1>6, <1>7, <1>8, StandKeeps

LEMMA EndCopyKeeps == ASSUME PyBuildInv, NEW i \in DOMAIN in, EndCopy(i) PROVE PyBuildInv'
PROOF
  <1>1. /\ Copying(i) /\ proc[i].at \in {"hit", "out", "fill"} /\ proc[i].pending = {} /\ ~(proc[i].at = "out" /\ in[i].cached)
        /\ UNCHANGED <<cache, outs, evalVars>>
    BY DEF EndCopy, Copying
  <1>2. /\ in' = in /\ subject' = subject /\ cache' = cache /\ outs' = outs /\ in \in JobLists
        /\ proc = [j \in DOMAIN in |-> proc[j]] /\ RecordOk(i) /\ IsRecord(proc[i])
    BY <1>1, StandFacts
  <1>3. /\ proc[i].open = {} /\ proc[i].hit \in BOOLEAN /\ proc[i].made \subseteq Bundles(in[i]) /\ proc[i].error = ""
        /\ in[i].target = "source" /\ (proc[i].at = "hit" => proc[i].hit) /\ (proc[i].at = "fill" => ~proc[i].hit /\ in[i].cached)
    BY <1>1, <1>2 DEF RecordOk
  <1>4. proc' = [proc EXCEPT ![i].at = "done"]
    BY DEF EndCopy
  <1>5. /\ \A j \in DOMAIN in : j # i => proc'[j] = proc[j]
        /\ proc' = [j \in DOMAIN in |-> proc'[j]]
    BY <1>2, <1>4
  <1>6. /\ IsRecord(proc'[i]) /\ proc'[i].at = "done" /\ proc'[i].error = proc[i].error /\ proc'[i].pending = proc[i].pending
        /\ proc'[i].open = proc[i].open /\ proc'[i].hit = proc[i].hit /\ proc'[i].made = proc[i].made /\ proc'[i].beside = proc[i].beside
    BY <1>2, <1>4 DEF IsRecord
  <1>7. RecordOk(i)'
    BY <1>1, <1>2, <1>3, <1>6, StandFacts DEF RecordOk
  <1>8. /\ Filled(i)' => \A f \in DOMAIN Work(i) : f \in DOMAIN Entry(Key(i))
        /\ Writer(i) => Writer(i)'
        /\ \A f : ~Tears(i, f)
        /\ OwnOutput(i) /\ Exact(i)' => OwnTree(i)'
    <2>1. Filled(i)' <=> proc[i].at = "fill"
      BY <1>1, <1>2, <1>3, <1>6 DEF Filled
    <2>2. proc[i].at = "fill" => \A f \in DOMAIN Work(i) : f \in DOMAIN Entry(Key(i))
      BY <1>1 DEF PyBuildInv, FillsCover, CoveredBy
    <2>3. (Writer(i) => Writer(i)') /\ \A f : ~Tears(i, f)
      BY <1>1, <1>3, <2>1 DEF Writer, Tears, Filled
    <2>4. ASSUME OwnOutput(i), Exact(i)' PROVE OwnTree(i)'
      <3>0. Exact(i)
        BY <1>2, <1>6, <2>4 DEF Exact, OneTree, Key, Work
      <3>1. OwnTree(i)
        BY <3>0, <2>4 DEF PyBuildInv, OwnTrees
      <3>2. IsTree(outs[in[i].out]) /\ IsTree(Work(i))
        BY <1>2, WorkFacts DEF PyBuildInv, Shape, OutDirs
      <3>3. outs[in[i].out] = Work(i)
        BY <1>1, <3>1, <3>2, CopyEnds DEF OwnTree
      <3> QED BY <1>1, <1>6, <3>3, StandFacts
    <2> QED BY <2>1, <2>2, <2>3, <2>4
  <1> QED BY <1>1, <1>2, <1>5, <1>6, <1>7, <1>8, StandKeeps

LEMMA CopyFailsKeeps == ASSUME PyBuildInv, NEW i \in DOMAIN in, CopyFails(i) PROVE PyBuildInv'
PROOF
  <1>1. /\ Copying(i) /\ proc[i].at \in {"hit", "out", "fill"} /\ UNCHANGED <<cache, outs, evalVars>>
    BY DEF CopyFails, Copying
  <1>2. /\ in' = in /\ subject' = subject /\ cache' = cache /\ outs' = outs /\ in \in JobLists
        /\ proc = [j \in DOMAIN in |-> proc[j]] /\ RecordOk(i) /\ IsRecord(proc[i])
    BY <1>1, StandFacts
  <1>3. /\ proc[i].hit \in BOOLEAN /\ proc[i].made \subseteq Bundles(in[i]) /\ proc[i].error = ""
        /\ in[i].target = "source" /\ (proc[i].at = "hit" => proc[i].hit) /\ (proc[i].at = "fill" => ~proc[i].hit /\ in[i].cached)
    BY <1>1, <1>2 DEF RecordOk
  <1>4. proc' = IF proc[i].at = "fill" THEN [proc EXCEPT ![i].at = "dropped", ![i].pending = {}, ![i].open = {}]
                ELSE [proc EXCEPT ![i].at = "done", ![i].error = "copy", ![i].pending = {}, ![i].open = {}]
    BY DEF CopyFails
  <1>5. /\ \A j \in DOMAIN in : j # i => proc'[j] = proc[j]
        /\ proc' = [j \in DOMAIN in |-> proc'[j]]
    BY <1>2, <1>4
  <1>6. /\ IsRecord(proc'[i]) /\ proc'[i].pending = {} /\ proc'[i].open = {} /\ proc'[i].hit = proc[i].hit
        /\ proc'[i].made = proc[i].made /\ proc'[i].beside = proc[i].beside
        /\ proc[i].at = "fill" => proc'[i].at = "dropped" /\ proc'[i].error = ""
        /\ proc[i].at # "fill" => proc'[i].at = "done" /\ proc'[i].error = "copy"
    BY <1>2, <1>3, <1>4 DEF IsRecord
  <1>7. RecordOk(i)'
    BY <1>1, <1>2, <1>3, <1>6, StandFacts DEF RecordOk
  <1>8. /\ proc'[i].at # "fill" /\ ~Filled(i)'
        /\ Writer(i) => Writer(i)'
        /\ \A f : Tears(i, f) => Tears(i, f)'
        /\ OwnOutput(i) /\ Exact(i)' => OwnTree(i)'
    <2>1. proc'[i].at # "fill" /\ ~Filled(i)' /\ (Writer(i) => Writer(i)') /\ \A f : Tears(i, f) => Tears(i, f)'
      BY <1>1, <1>6 DEF Writer, Tears, Filled
    <2>2. ASSUME OwnOutput(i), Exact(i)' PROVE OwnTree(i)'
      <3>0. Exact(i)
        BY <1>2, <1>6, <2>2 DEF Exact, OneTree, Key, Work
      <3>1. OwnTree(i)
        BY <3>0, <2>2 DEF PyBuildInv, OwnTrees
      <3> QED BY <1>1, <1>6, <3>1, StandFacts DEF OwnTree
    <2> QED BY <2>1, <2>2
  <1> QED BY <1>1, <1>2, <1>5, <1>6, <1>7, <1>8, StandKeeps

\* What a step of a copy may rely on.
LEMMA CopyFacts ==
  ASSUME PyBuildInv, NEW i \in DOMAIN in, Copying(i)
  PROVE  /\ in \in JobLists /\ proc = [j \in DOMAIN in |-> proc[j]] /\ IsRecord(proc[i])
         /\ proc[i].open \subseteq proc[i].pending /\ \A p \in proc[i].pending : p \in Paths
         /\ IsTree(CopyTarget(i)) /\ DOMAIN CopySource(i) \subseteq Paths
         /\ NoneWithin(Work(i)) /\ DOMAIN Work(i) \subseteq Paths
         /\ proc[i].at = "fill" => CopySource(i) = Work(i)
         /\ \A f \in DOMAIN CopySource(i) : KnownFile(i, f, Torn) /\ KnownFile(i, f, CopySource(i)[f])
         /\ proc[i].at = "fill" \/ OwnOutput(i) => \A f \in DOMAIN CopyTarget(i) : KnownFile(i, f, CopyTarget(i)[f])
PROOF
  <1>1. in \in JobLists /\ proc = [j \in DOMAIN in |-> proc[j]] /\ RecordOk(i) /\ in[i].out \in OutDirs(in)
    BY DEF PyBuildInv, Shape, OutDirs
  <1>2. IsRecord(proc[i]) /\ proc[i].open \subseteq proc[i].pending /\ \A p \in proc[i].pending : p \in Paths
    BY <1>1 DEF RecordOk
  <1>3. IsTree(CopyTarget(i))
    <2>1. IsTree(EmptyTree)
      BY DEF IsTree, EmptyTree
    <2> QED BY <1>1, <2>1 DEF PyBuildInv, Shape, CopyTarget, Entry
  <1>4. NoneWithin(Work(i)) /\ DOMAIN Work(i) \subseteq Paths
    BY <1>1, WorkFacts
  <1>5. proc[i].at = "fill" => CopySource(i) = Work(i)
    BY DEF CopySource, Work
  <1>6. \A f \in DOMAIN CopySource(i) : f \in Paths /\ KnownFile(i, f, Torn) /\ KnownFile(i, f, CopySource(i)[f])
    BY SourceKnown
  <1>7. proc[i].at = "fill" \/ OwnOutput(i) => \A f \in DOMAIN CopyTarget(i) : KnownFile(i, f, CopyTarget(i)[f])
    BY DEF CopyTarget, PyBuildInv, FilesKnown
  <1> QED BY <1>1, <1>2, <1>3, <1>4, <1>5, <1>6, <1>7

LEMMA WalkDirKeeps == ASSUME PyBuildInv, NEW i \in DOMAIN in, WalkDir(i) PROVE PyBuildInv'
PROOF
  <1>1. PICK d \in Visited(i) \ DOMAIN CopySource(i) :
          /\ SetTarget(i, CopyTarget(i))
          /\ proc' = [proc EXCEPT ![i].pending = (@ \ {d}) \cup Children(CopySource(i), d)]
    BY DEF WalkDir
  <1> DEFINE src == CopySource(i)
             tree == CopyTarget(i)
             paths == proc[i].pending
             P == (paths \ {d}) \cup Children(src, d)
             O == proc[i].open
  <1>2. Copying(i) /\ O = {} /\ in' = in /\ subject' = subject
    BY DEF WalkDir, evalVars
  <1>3. d \in paths /\ d \notin DOMAIN src
    BY <1>1 DEF Visited
  <1>4. /\ proc = [j \in DOMAIN in |-> proc[j]] /\ IsRecord(proc[i]) /\ IsTree(tree) /\ DOMAIN src \subseteq Paths
        /\ \A p \in paths : p \in Paths
        /\ proc[i].at = "fill" => src = Work(i)
        /\ proc[i].at = "fill" \/ OwnOutput(i) => \A f \in DOMAIN tree : KnownFile(i, f, tree[f])
    BY <1>2, CopyFacts
  <1>5. /\ proc' = [j \in DOMAIN in |-> proc'[j]] /\ \A j \in DOMAIN in : j # i => proc'[j] = proc[j]
        /\ IsRecord(proc'[i]) /\ proc'[i].pending = P /\ proc'[i].open = O
        /\ proc'[i].at = proc[i].at /\ proc'[i].error = proc[i].error /\ proc'[i].hit = proc[i].hit
        /\ proc'[i].beside = proc[i].beside /\ proc'[i].made = proc[i].made
    BY <1>1, <1>4 DEF IsRecord
  <1>6. /\ \A p \in P : p \in Paths
        /\ \A f \in DOMAIN src : CoveredBy(paths, f) => CoveredBy(P, f)
    BY <1>3, <1>4, WalkCovers DEF Paths
  <1> HIDE DEF P
  <1>7. src = Work(i) /\ Copied(tree, Work(i), paths) => Copied(tree, Work(i), P)
    BY <1>6 DEF Copied
  <1>8. proc[i].at = "fill" => \A f \in DOMAIN Work(i) : CoveredBy(paths, f) => CoveredBy(P, f)
    BY <1>4, <1>6
  <1>9. O \subseteq P /\ SetTarget(i, tree)
    BY <1>1, <1>2
  <1>10. proc[i].at = "fill" /\ OneTree(i) => \A f \in DOMAIN tree :
           \/ tree[f] = Work(i)[f] \/ f \in O
           \/ f \in DOMAIN CopyTarget(i) /\ tree[f] = CopyTarget(i)[f] /\ f \notin proc[i].open
    BY <1>2
  <1>11. proc[i].at = "fill" => \A f \in DOMAIN Work(i) : CoveredBy(proc[i].pending, f) => CoveredBy(P, f) \/ f \in DOMAIN tree
    BY <1>8
  <1>12. CopySource(i) = Work(i) /\ Copied(CopyTarget(i), Work(i), proc[i].pending) => Copied(tree, Work(i), P)
    BY <1>7
  <1>13. \A f \in DOMAIN CopyTarget(i) : f \in DOMAIN tree
    OBVIOUS
  <1> HIDE DEF tree, paths, O, src
  <1> QED BY <1>2, <1>4, <1>5, <1>6, <1>9, <1>10, <1>11, <1>12, <1>13, CopyKeeps

LEMMA OpenFileKeeps == ASSUME PyBuildInv, NEW i \in DOMAIN in, OpenFile(i) PROVE PyBuildInv'
PROOF
  <1>1. PICK f \in Visited(i) \cap DOMAIN CopySource(i) :
          SetTarget(i, Put(CopyTarget(i), f, Torn)) /\ proc' = [proc EXCEPT ![i].open = {f}]
    BY DEF OpenFile
  <1> DEFINE src == CopySource(i)
             old == CopyTarget(i)
             tree == Put(old, f, Torn)
             paths == proc[i].pending
             O == {f}
  <1>2. Copying(i) /\ proc[i].open = {} /\ in' = in /\ subject' = subject
    BY DEF OpenFile, evalVars
  <1>3. f \in paths /\ f \in DOMAIN src
    BY <1>1 DEF Visited
  <1>4. /\ proc = [j \in DOMAIN in |-> proc[j]] /\ IsRecord(proc[i]) /\ DOMAIN src \subseteq Paths
        /\ \A p \in paths : p \in Paths
        /\ KnownFile(i, f, Torn)
        /\ proc[i].at = "fill" \/ OwnOutput(i) => \A g \in DOMAIN old : KnownFile(i, g, old[g])
    BY <1>2, <1>3, CopyFacts
  <1>5. /\ proc' = [j \in DOMAIN in |-> proc'[j]] /\ \A j \in DOMAIN in : j # i => proc'[j] = proc[j]
        /\ IsRecord(proc'[i]) /\ proc'[i].pending = paths /\ proc'[i].open = O
        /\ proc'[i].at = proc[i].at /\ proc'[i].error = proc[i].error /\ proc'[i].hit = proc[i].hit
        /\ proc'[i].beside = proc[i].beside /\ proc'[i].made = proc[i].made
    BY <1>1, <1>4 DEF IsRecord
  <1>6. /\ DOMAIN tree = DOMAIN old \cup {f} /\ tree[f] = Torn /\ IsTree(tree)
        /\ \A g \in DOMAIN old : g # f => tree[g] = old[g]
    BY DEF Put, IsTree
  <1>7. src = Work(i) /\ Copied(old, Work(i), paths) => Copied(tree, Work(i), paths)
    <2> SUFFICES ASSUME src = Work(i), Copied(old, Work(i), paths) PROVE Copied(tree, Work(i), paths)
      OBVIOUS
    <2>1. DOMAIN Work(i) \subseteq Seq(PathNames(in)) /\ f \in DOMAIN Work(i)
      BY <1>3, <1>4 DEF Paths
    <2> QED BY <1>3, <2>1, CopyOpens
  <1> HIDE DEF tree
  <1>8. proc[i].at = "fill" \/ OwnOutput(i) => \A g \in DOMAIN tree : KnownFile(i, g, tree[g])
    BY <1>4, <1>6
  <1>9. /\ \A g \in DOMAIN old : g \in DOMAIN tree
        /\ \A g \in DOMAIN tree : g \in O \/ (g \in DOMAIN old /\ tree[g] = old[g] /\ g \notin proc[i].open)
        /\ O \subseteq paths
    BY <1>2, <1>3, <1>6
  <1>10. SetTarget(i, tree)
    BY <1>1 DEF tree
  <1> HIDE DEF old, paths, O, src
  <1> QED BY <1>2, <1>4, <1>5, <1>6, <1>7, <1>8, <1>9, <1>10, CopyKeeps DEF old, paths, src

LEMMA WriteFileKeeps == ASSUME PyBuildInv, NEW i \in DOMAIN in, WriteFile(i) PROVE PyBuildInv'
PROOF
  <1>1. PICK f \in proc[i].open \cap DOMAIN CopySource(i) \cap DOMAIN CopyTarget(i) :
          /\ SetTarget(i, Put(CopyTarget(i), f, Written(CopyTarget(i)[f], CopySource(i)[f])))
          /\ proc' = [proc EXCEPT ![i].pending = @ \ {f}, ![i].open = @ \ {f}]
    BY DEF WriteFile
  <1> DEFINE src == CopySource(i)
             old == CopyTarget(i)
             new == Written(old[f], src[f])
             tree == Put(old, f, new)
             paths == proc[i].pending
             P == paths \ {f}
             O == proc[i].open \ {f}
  <1>2. Copying(i) /\ in' = in /\ subject' = subject
    BY DEF WriteFile, evalVars
  <1>3. f \in proc[i].open /\ f \in DOMAIN src /\ f \in DOMAIN old
    BY <1>1
  <1>4. /\ proc = [j \in DOMAIN in |-> proc[j]] /\ IsRecord(proc[i]) /\ proc[i].open \subseteq paths
        /\ \A p \in paths : p \in Paths
        /\ KnownFile(i, f, Torn) /\ KnownFile(i, f, src[f]) /\ NoneWithin(Work(i))
        /\ proc[i].at = "fill" => src = Work(i)
        /\ proc[i].at = "fill" \/ OwnOutput(i) => \A g \in DOMAIN old : KnownFile(i, g, old[g])
    BY <1>2, <1>3, CopyFacts
  <1>5. /\ proc' = [j \in DOMAIN in |-> proc'[j]] /\ \A j \in DOMAIN in : j # i => proc'[j] = proc[j]
        /\ IsRecord(proc'[i]) /\ proc'[i].pending = P /\ proc'[i].open = O
        /\ proc'[i].at = proc[i].at /\ proc'[i].error = proc[i].error /\ proc'[i].hit = proc[i].hit
        /\ proc'[i].beside = proc[i].beside /\ proc'[i].made = proc[i].made
    BY <1>1, <1>4 DEF IsRecord
  <1>6. /\ DOMAIN tree = DOMAIN old \cup {f} /\ tree[f] = new /\ IsTree(tree)
        /\ \A g \in DOMAIN old : g # f => tree[g] = old[g]
    BY DEF Put, IsTree
  <1>7. new \in {Torn, src[f]}
    BY DEF Written
  <1>8. src = Work(i) /\ Copied(old, Work(i), paths) => Copied(tree, Work(i), P)
    BY <1>3, <1>4, CopyWrites
  <1>9. proc[i].at = "fill" => \A g \in DOMAIN Work(i) : CoveredBy(paths, g) => CoveredBy(P, g) \/ g = f
    BY <1>3, <1>4, WriteCovers
  <1>10. proc[i].at = "fill" /\ OneTree(i) => tree[f] = Work(i)[f]
    <2> SUFFICES ASSUME proc[i].at = "fill", OneTree(i) PROVE tree[f] = Work(i)[f]
      OBVIOUS
    <2>1. KnownFile(i, f, old[f])
      BY <1>3, <1>4
    <2>2. old[f] \in {Work(i)[f], Torn}
      BY <2>1 DEF KnownFile, OneTree
    <2> QED BY <1>4, <1>6, <2>2 DEF Written
  <1> HIDE DEF tree, new
  <1>11. proc[i].at = "fill" \/ OwnOutput(i) => \A g \in DOMAIN tree : KnownFile(i, g, tree[g])
    BY <1>4, <1>6, <1>7
  <1>12. /\ \A g \in DOMAIN old : g \in DOMAIN tree
         /\ \A g \in DOMAIN tree : g = f \/ g \in O \/ (g \in DOMAIN old /\ tree[g] = old[g] /\ g \notin proc[i].open)
         /\ O \subseteq P /\ (\A p \in P : p \in Paths) /\ f \in DOMAIN tree
    BY <1>3, <1>4, <1>6
  <1>13. SetTarget(i, tree)
    BY <1>1 DEF tree, new
  <1>14. proc[i].at = "fill" => \A g \in DOMAIN Work(i) : CoveredBy(paths, g) => CoveredBy(P, g) \/ g \in DOMAIN tree
    BY <1>9, <1>12
  <1>15. proc[i].at = "fill" /\ OneTree(i) => \A g \in DOMAIN tree :
           \/ tree[g] = Work(i)[g] \/ g \in O
           \/ g \in DOMAIN old /\ tree[g] = old[g] /\ g \notin proc[i].open
    BY <1>10, <1>12
  <1> HIDE DEF old, paths, src, P, O
  <1> QED BY <1>2, <1>4, <1>5, <1>6, <1>8, <1>11, <1>12, <1>13, <1>14, <1>15, CopyKeeps DEF old, paths, src

\* Every step of every build keeps the invariant.
LEMMA PyBuildStep == PyBuildInv /\ [PyBuildNext]_<<evalVars, pyBuildVars>> => PyBuildInv'
PROOF
  <1> SUFFICES ASSUME PyBuildInv, [PyBuildNext]_<<evalVars, pyBuildVars>> PROVE PyBuildInv'
    OBVIOUS
  <1>1. ASSUME NEW i \in DOMAIN proc, BuildStep(i) PROVE PyBuildInv'
    <2>1. i \in DOMAIN in
      BY DEF PyBuildInv, Shape
    <2>2. CASE Refuse(i)
      BY <2>1, <2>2, RefuseKeeps
    <2>3. CASE BeginHit(i)
      BY <2>1, <2>3, BeginHitKeeps
    <2>4. CASE MakeBundles(i)
      BY <2>1, <2>4, MakeBundlesKeeps
    <2>5. CASE BeginOut(i)
      BY <2>1, <2>5, BeginOutKeeps
    <2>6. CASE BeginFill(i)
      BY <2>1, <2>6, BeginFillKeeps
    <2>7. CASE WalkDir(i)
      BY <2>1, <2>7, WalkDirKeeps
    <2>8. CASE OpenFile(i)
      BY <2>1, <2>8, OpenFileKeeps
    <2>9. CASE WriteFile(i)
      BY <2>1, <2>9, WriteFileKeeps
    <2>10. CASE EndCopy(i)
      BY <2>1, <2>10, EndCopyKeeps
    <2>11. CASE CopyFails(i)
      BY <2>1, <2>11, CopyFailsKeeps
    <2> QED BY <1>1, <2>2, <2>3, <2>4, <2>5, <2>6, <2>7, <2>8, <2>9, <2>10, <2>11 DEF BuildStep
  <1>2. CASE UNCHANGED <<evalVars, pyBuildVars>>
    <2>1. in' = in /\ subject' = subject /\ cache' = cache /\ outs' = outs /\ proc' = proc
      BY <1>2 DEF evalVars, pyBuildVars
    <2>2. \A i \in DOMAIN in : RecordOk(i) => RecordOk(i)'
      BY <2>1 DEF RecordOk, Paths, Key
    <2>3. Shape'
      BY <2>1, <2>2 DEF PyBuildInv, Shape
    <2>4. /\ \A k : Entry(k)' = Entry(k)
          /\ \A i \in DOMAIN in : /\ Key(i)' = Key(i) /\ Work(i)' = Work(i) /\ (OneTree(i)' <=> OneTree(i))
                                  /\ (OwnOutput(i)' <=> OwnOutput(i)) /\ Unfinished(i)' = Unfinished(i)
      BY <2>1 DEF Entry, Key, Work, OneTree, OwnOutput, Unfinished
    <2>5. FilesKnown' /\ QuietHits'
      BY <2>1, <2>4 DEF PyBuildInv, FilesKnown, KnownFile, QuietHits
    <2>6. FillsCover' /\ EntriesHaveWriters'
      <3>1. \A i \in DOMAIN in : (Filled(i)' <=> Filled(i)) /\ (Writer(i)' <=> Writer(i))
        BY <2>1 DEF Filled, Writer
      <3>2. FillsCover'
        BY <2>1, <2>4, <3>1 DEF PyBuildInv, FillsCover
      <3>3. EntriesHaveWriters'
        BY <2>1, <2>4, <3>1 DEF PyBuildInv, EntriesHaveWriters
      <3> QED BY <3>2, <3>3
    <2>7. TornHaveWriters'
      BY <2>1, <2>4 DEF PyBuildInv, TornHaveWriters, Tears
    <2>8. OwnTrees'
      BY <2>1, <2>4 DEF PyBuildInv, OwnTrees, OwnTree, Exact
    <2> QED BY <2>3, <2>5, <2>6, <2>7, <2>8 DEF PyBuildInv
  <1> QED BY <1>1, <1>2 DEF PyBuildNext

-----------------------------------------------------------------------------
(* PyBuild: what an archive carries.                                       *)

\* A wheel has the package, the externs and the runtime at its root.
LEMMA WheelCarries ==
  ASSUME NEW work, NEW path \in DOMAIN work, NEW name, path[1] = "src", Tail(path)[1] = name, name \notin Reserved
  PROVE  name \in Importable(Wheel(work)) /\ "mochi_runtime" \in Importable(Wheel(work))
PROOF
  <1> DEFINE info == Tree({<<<<"dist-info", "METADATA">>, <<"metadata">>>>, <<<<"dist-info", "WHEEL">>, <<"tag">>>>})
             record == Tree({<<<<"dist-info", "RECORD">>, <<"record">>>>})
             stage == CopyTree(CopyTree(UnderSrc(work), Runtime), info)
  <1>1. Wheel(work).files = CopyTree(stage, record)
    BY DEF Wheel
  <1> HIDE DEF info, record, stage
  <1>2. DOMAIN stage \subseteq DOMAIN CopyTree(stage, record)
    <2>1. DOMAIN CopyTree(stage, record) = DOMAIN record \cup DOMAIN stage
      BY Overlay
    <2> QED BY <2>1
  <1>3. DOMAIN stage = DOMAIN info \cup DOMAIN CopyTree(UnderSrc(work), Runtime)
    BY Overlay DEF stage
  <1>4. DOMAIN CopyTree(UnderSrc(work), Runtime) = DOMAIN Runtime \cup DOMAIN UnderSrc(work)
    BY Overlay
  <1>5. Tail(path) \in DOMAIN UnderSrc(work)
    BY DEF UnderSrc
  <1>6. <<"mochi_runtime", "io">> \in DOMAIN Runtime
    BY TreeFiles DEF Runtime
  <1>7. Tail(path) \in DOMAIN Wheel(work).files /\ <<"mochi_runtime", "io">> \in DOMAIN Wheel(work).files
    BY <1>1, <1>2, <1>3, <1>4, <1>5, <1>6
  <1>8. <<"mochi_runtime", "io">>[1] = "mochi_runtime" /\ "mochi_runtime" \notin Reserved
    BY DEF Reserved
  <1> QED BY <1>7, <1>8 DEF Importable

LEMMA WheelRecords == \A work : Wheel(work).record = DOMAIN Wheel(work).files
PROOF
  <1> SUFFICES ASSUME NEW work PROVE Wheel(work).record = DOMAIN Wheel(work).files
    OBVIOUS
  <1> DEFINE stage == CopyTree(CopyTree(UnderSrc(work), Runtime),
                               Tree({<<<<"dist-info", "METADATA">>, <<"metadata">>>>, <<<<"dist-info", "WHEEL">>, <<"tag">>>>}))
             record == Tree({<<<<"dist-info", "RECORD">>, <<"record">>>>})
  <1>1. Wheel(work).files = CopyTree(stage, record) /\ Wheel(work).record = Record(stage)
    BY DEF Wheel
  <1>2. DOMAIN record = {<<"dist-info", "RECORD">>}
    BY DEF Tree
  <1> HIDE DEF stage, record
  <1>3. DOMAIN CopyTree(stage, record) = DOMAIN record \cup DOMAIN stage
    BY Overlay
  <1> QED BY <1>1, <1>2, <1>3 DEF Record

\* A source bundle has them under src/.
LEMMA SourceCarries ==
  ASSUME NEW work, NEW beside, NEW path \in DOMAIN work, path[1] = "src"
  PROVE  path[2] \in Importable(SourceBundle(work, beside)) /\ "mochi_runtime" \in Importable(SourceBundle(work, beside))
PROOF
  <1> DEFINE runtime == Prefixed(<<"src">>, Runtime)
             extra == Tree({<<beside, <<"metadata">>>>})
             b == SourceBundle(work, beside)
             io == <<"src">> \o <<"mochi_runtime", "io">>
  <1>1. b.files = CopyTree(CopyTree(work, runtime), extra)
    BY DEF SourceBundle
  <1>2. io \in DOMAIN runtime
    <2>1. <<"mochi_runtime", "io">> \in DOMAIN Runtime
      BY TreeFiles DEF Runtime
    <2> QED BY <2>1 DEF Prefixed
  <1>3. io[1] = "src" /\ io[2] = "mochi_runtime"
    <2>1. /\ <<"src">> \in Seq({"src", "mochi_runtime", "io"}) /\ Len(<<"src">>) = 1 /\ <<"src">>[1] = "src"
          /\ <<"mochi_runtime", "io">> \in Seq({"src", "mochi_runtime", "io"}) /\ Len(<<"mochi_runtime", "io">>) = 2
          /\ <<"mochi_runtime", "io">>[1] = "mochi_runtime"
      OBVIOUS
    <2>2. \A s, t \in Seq({"src", "mochi_runtime", "io"}) : Len(s) = 1 /\ Len(t) = 2 => (s \o t)[1] = s[1] /\ (s \o t)[2] = t[1]
      <3> SUFFICES ASSUME NEW S, NEW s \in Seq(S), NEW t \in Seq(S), Len(s) = 1, Len(t) = 2
                   PROVE  (s \o t)[1] = s[1] /\ (s \o t)[2] = t[1]
        OBVIOUS
      <3>1. \A k \in 1 .. Len(s) + Len(t) : (s \o t)[k] = IF k <= Len(s) THEN s[k] ELSE t[k - Len(s)]
        BY ConcatProperties
      <3>2. 1 \in 1 .. Len(s) + Len(t) /\ 2 \in 1 .. Len(s) + Len(t) /\ 1 <= Len(s) /\ ~(2 <= Len(s)) /\ 2 - Len(s) = 1
        OBVIOUS
      <3> QED BY <3>1, <3>2
    <2> QED BY <2>1, <2>2
  <1> HIDE DEF runtime, extra, b, io
  <1>4. DOMAIN CopyTree(CopyTree(work, runtime), extra) = DOMAIN extra \cup DOMAIN CopyTree(work, runtime)
    BY Overlay
  <1>5. DOMAIN CopyTree(work, runtime) = DOMAIN runtime \cup DOMAIN work
    BY Overlay
  <1>6. path \in DOMAIN b.files /\ io \in DOMAIN b.files
    BY <1>1, <1>2, <1>4, <1>5
  <1>8. path[2] \in Importable(b) /\ "mochi_runtime" \in Importable(b)
    BY <1>3, <1>6 DEF Importable
  <1> QED BY <1>8 DEF b

\* Every bundle of a job has what the job's program imports.
LEMMA BundleCarries ==
  ASSUME NEW job, NEW b \in Bundles(job), PackageName(job) \notin Reserved, ExternsFile(job) \notin Reserved
  PROVE  /\ b.record # {} => b.record = DOMAIN b.files
         /\ {PackageName(job), "mochi_runtime"} \subseteq Importable(b)
         /\ job.src \in WithExterns => ExternsFile(job) \in Importable(b)
PROOF
  <1> DEFINE work == WorkDir(job)
             pkg == PackageName(job)
             path == <<"src", pkg, "__init__">>
             side == <<"src", ExternsFile(job)>>
  <1>1. path \in DOMAIN work /\ (job.src \in WithExterns => side \in DOMAIN work)
    BY WorkTree
  <1>2. /\ path[1] = "src" /\ path[2] = pkg /\ Tail(path)[1] = pkg
        /\ side[1] = "src" /\ side[2] = ExternsFile(job) /\ Tail(side)[1] = ExternsFile(job)
    OBVIOUS
  <1>3. \/ b = Wheel(work) \/ b = SourceBundle(work, <<"PKG-INFO">>) \/ b = SourceBundle(work, <<"kernels", "kernel.json">>)
    BY DEF Bundles, PublishBundles, Sdist, KernelBundle
  <1> HIDE DEF work, pkg, path, side
  <1>4. CASE b = Wheel(work)
    <2>1. pkg \in Importable(Wheel(work)) /\ "mochi_runtime" \in Importable(Wheel(work))
      BY <1>1, <1>2, WheelCarries DEF pkg
    <2>2. job.src \in WithExterns => ExternsFile(job) \in Importable(Wheel(work))
      BY <1>1, <1>2, WheelCarries
    <2>3. Wheel(work).record = DOMAIN Wheel(work).files
      BY WheelRecords
    <2> QED BY <1>4, <2>1, <2>2, <2>3 DEF pkg
  <1>5. ASSUME NEW beside, b = SourceBundle(work, beside)
        PROVE  /\ b.record = {} /\ {pkg, "mochi_runtime"} \subseteq Importable(b)
               /\ job.src \in WithExterns => ExternsFile(job) \in Importable(b)
    <2>1. b.record = {}
      BY <1>5 DEF SourceBundle
    <2>2. pkg \in Importable(b) /\ "mochi_runtime" \in Importable(b)
      BY <1>1, <1>2, <1>5, SourceCarries
    <2>3. job.src \in WithExterns => ExternsFile(job) \in Importable(b)
      BY <1>1, <1>2, <1>5, SourceCarries
    <2> QED BY <2>1, <2>2, <2>3
  <1> QED BY <1>3, <1>4, <1>5 DEF pkg

LEMMA PyBuildInvCorrect == PyBuildInv => PyBuildCorrect
PROOF
  <1> SUFFICES ASSUME PyBuildInv PROVE PyBuildCorrect
    OBVIOUS
  <1>1. CachedTreeIsFresh
    <2> SUFFICES ASSUME NEW i \in DOMAIN in, OwnOutput(i)
                 PROVE  /\ \A f \in DOMAIN outs[in[i].out] : \E j \in SameProgram(i) :
                             f \in DOMAIN WorkDir(in[j]) /\ outs[in[i].out][f] \in {WorkDir(in[j])[f], Torn}
                        /\ proc[i].at \in {"done", "dropped"} /\ proc[i].error = "" /\ outs[in[i].out] # WorkDir(in[i]) =>
                             proc[i].hit /\ (proc[i].beside # {} \/ \E j \in SameProgram(i) : Apart(in[i], in[j]))
      BY DEF CachedTreeIsFresh
    <2>1. \A j \in DOMAIN in : Key(j) = Key(i) => j \in SameProgram(i)
      BY DEF Key, CacheKey, SameProgram
    <2>2. \A f \in DOMAIN outs[in[i].out] : \E j \in SameProgram(i) :
            f \in DOMAIN WorkDir(in[j]) /\ outs[in[i].out][f] \in {WorkDir(in[j])[f], Torn}
      BY <2>1 DEF PyBuildInv, FilesKnown, KnownFile, Work
    <2>3. ASSUME proc[i].at \in {"done", "dropped"}, proc[i].error = "", outs[in[i].out] # WorkDir(in[i])
          PROVE  proc[i].hit /\ (proc[i].beside # {} \/ \E j \in SameProgram(i) : Apart(in[i], in[j]))
      <3>1. ~OwnTree(i)
        BY <2>3 DEF OwnTree, Work
      <3>2. ~Exact(i)
        BY <3>1 DEF PyBuildInv, OwnTrees
      <3>3. proc[i].hit /\ (proc[i].beside = {} => ~OneTree(i))
        BY <3>2 DEF Exact
      <3>4. ASSUME ~OneTree(i) PROVE \E j \in SameProgram(i) : Apart(in[i], in[j])
        <4>1. PICK j \in DOMAIN in : Key(j) = Key(i) /\ Work(j) # Work(i)
          BY <3>4 DEF OneTree
        <4>2. Apart(in[i], in[j])
          BY <4>1, OneTreePerProgram DEF Key, Work
        <4> QED BY <2>1, <4>1, <4>2
      <3> QED BY <3>3, <3>4
    <2> QED BY <2>2, <2>3
  <1>2. BundlesSelfContained
    <2> SUFFICES ASSUME NEW i \in DOMAIN in, NEW b \in proc[i].made
                 PROVE  /\ b.record # {} => b.record = DOMAIN b.files
                        /\ in[i].prefix = DefaultPrefix =>
                             {PackageName(in[i]), "mochi_runtime"}
                               \cup (IF in[i].src \in WithExterns THEN {ExternsImported(in[i])} ELSE {}) \subseteq Importable(b)
      BY DEF BundlesSelfContained
    <2>1. in \in JobLists /\ b \in Bundles(in[i])
      BY DEF PyBuildInv, Shape, RecordOk
    <2>2. PackageName(in[i]) \notin Reserved /\ ExternsFile(in[i]) \notin Reserved
      BY <2>1, JobListsAssumption
    <2>3. in[i].prefix = DefaultPrefix => ExternsImported(in[i]) = ExternsFile(in[i])
      BY DEF ExternsImported, ExternsFile, PackageName
    <2>4. /\ b.record # {} => b.record = DOMAIN b.files
          /\ {PackageName(in[i]), "mochi_runtime"} \subseteq Importable(b)
          /\ in[i].src \in WithExterns => ExternsFile(in[i]) \in Importable(b)
      BY <2>1, <2>2, BundleCarries
    <2> QED BY <2>3, <2>4
  <1> QED BY <1>1, <1>2 DEF PyBuildCorrect

\* Driver.Build (transpiler3/python/build/build.go:118-262): however many
\* builds share the cache, in whatever order they take their steps, file by file,
\* and wherever they are killed or fail, an output directory holds files of its
\* own program only, and a build that reports success leaves exactly its own
\* tree there, unless the entry that it copied was being written, had been given
\* up, or is shared with a build that the key does not tell apart; and every
\* archive carries what its program imports.
THEOREM PyBuildIsCorrect == PyBuildSpec => []PyBuildCorrect
PROOF BY PyBuildInitially, PyBuildStep, PyBuildInvCorrect, PTL DEF PyBuildSpec
=============================================================================
