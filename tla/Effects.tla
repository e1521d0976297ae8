------------------------------- MODULE Effects ------------------------------
(***************************************************************************)
(* Which effects a top-level function may have (types/effects_infer.go and *)
(* the passes of types/check.go around it): annotations are seeded and     *)
(* pinned, the others are inferred from their bodies in sweeps over the    *)
(* program until a sweep changes nothing.  A body is a set of uses: a call *)
(* of a function or a primitive with an effect, each at a place.           *)
(***************************************************************************)
EXTENDS Evaluation

CONSTANT FunSets \* programs: sequences of [name, declared, effects, body]

VARIABLES
  known,   \* the effects in the signature of each function, by name
  cursor,  \* the statement the sweep is at
  changed  \* the sweep has changed a signature

effectsVars == <<known, cursor, changed>>

ASSUME FunSetsAssumption == FunSets \subseteq Seq([name : STRING, declared : {"declared", "inferred"},
  effects : SUBSET STRING, body : SUBSET [fun : STRING, label : STRING, place : STRING]])

-----------------------------------------------------------------------------
(* One function.                                                           *)

\* Where the walkers of effects_infer.go look: statements and nested bodies,
\* operands, groups, arguments, indices and functions passed as arguments.
\* Literals, if, match and query expressions, and try blocks are not among them.
Walked == {"statement", "nested body", "operand", "argument", "index", "callable argument"}
Uses(fn) == {u \in fn.body : u.place \in Walked}

\* inferFunctionEffects against the signatures as they are.
InferFunctionEffects(fn, sigs) ==
  UNION {IF u.label # "" THEN {u.label} ELSE IF u.fun \in DOMAIN sigs THEN sigs[u.fun] ELSE {} : u \in Uses(fn)}

-----------------------------------------------------------------------------
(* One program.  Signatures and annotations are kept by name: of several   *)
(* functions of a name the last one is seeded, the last annotated one is   *)
(* what is pinned.                                                         *)

NamesOf(funs) == {funs[i].name : i \in DOMAIN funs}
AnnotatedOf(funs) == {i \in DOMAIN funs : funs[i].declared = "declared"}
LastNamed(funs, is, n) == CHOOSE i \in is : funs[i].name = n /\ \A j \in is : funs[j].name = n => j <= i
Pinned(funs, n) == \E i \in AnnotatedOf(funs) : funs[i].name = n
Published(funs, n) == funs[LastNamed(funs, AnnotatedOf(funs), n)].effects

\* Mutant: what is not annotated starts with every effect the program has.
SeedTop(funs) ==
  [n \in NamesOf(funs) |->
     LET fn == funs[LastNamed(funs, DOMAIN funs, n)]
     IN IF fn.declared = "declared" THEN fn.effects ELSE {u.label : u \in UNION {funs[i].body : i \in DOMAIN funs}} \ {""}]
\* The first pass: an annotation is the seed of its function.
Seed(funs) ==
  [n \in NamesOf(funs) |->
     LET fn == funs[LastNamed(funs, DOMAIN funs, n)] IN IF fn.declared = "declared" THEN fn.effects ELSE {}]

\* T065: an annotation that promises less than the body needs.
Exceeding(funs, sigs) ==
  {funs[i].name : i \in {i \in DOMAIN funs :
     Pinned(funs, funs[i].name) /\ ~(InferFunctionEffects(funs[i], sigs) \subseteq Published(funs, funs[i].name))}}

EffectsInit == Called("effects", FunSets) /\ known = Seed(in) /\ cursor = 1 /\ changed = FALSE

\* Inside the loop over the statements.
InSweep == subject = "effects" /\ out = <<>> /\ cursor \in DOMAIN in
SkipPinned ==
  /\ InSweep /\ Pinned(in, in[cursor].name)
  /\ cursor' = cursor + 1 /\ UNCHANGED <<known, changed, evalVars>>
\* Mutant: the sweep does not notice what it changed.
InferUnnoticed ==
  /\ InSweep /\ ~Pinned(in, in[cursor].name)
  /\ known' = [known EXCEPT ![in[cursor].name] = InferFunctionEffects(in[cursor], known)]
  /\ cursor' = cursor + 1 /\ UNCHANGED <<changed, evalVars>>
\* Mutant: the sweep takes every inference for a change.
InferRestless ==
  /\ InSweep /\ ~Pinned(in, in[cursor].name)
  /\ known' = [known EXCEPT ![in[cursor].name] = InferFunctionEffects(in[cursor], known)]
  /\ changed' = TRUE /\ cursor' = cursor + 1 /\ UNCHANGED evalVars
InferNext ==
  /\ InSweep /\ ~Pinned(in, in[cursor].name)
  /\ LET fresh == InferFunctionEffects(in[cursor], known)
     IN /\ known' = [known EXCEPT ![in[cursor].name] = fresh]
        /\ changed' = (changed \/ fresh # known[in[cursor].name])
  /\ cursor' = cursor + 1 /\ UNCHANGED evalVars

\* After the last statement: another sweep, or the check of the annotations.
SweepOver == subject = "effects" /\ out = <<>> /\ cursor = Len(in) + 1
SweepAgain ==
  SweepOver /\ changed /\ cursor' = 1 /\ changed' = FALSE /\ UNCHANGED <<known, evalVars>>
CheckAnnotations ==
  /\ SweepOver /\ ~changed /\ out' = <<Exceeding(in, known)>>
  /\ UNCHANGED <<subject, in, effectsVars>>

EffectsNext == SkipPinned \/ InferNext \/ SweepAgain \/ CheckAnnotations
EffectsSpec == EffectsInit /\ [][EffectsNext]_<<evalVars, effectsVars>>
\* Check runs in one goroutine and waits for nobody.
EffectsFairSpec == EffectsSpec /\ WF_<<evalVars, effectsVars>>(EffectsNext)

-----------------------------------------------------------------------------
(* Properties.                                                             *)

\* A program that declares no function twice.
OneEach(funs) == \A i, j \in DOMAIN funs : funs[i].name = funs[j].name => i = j

\* What function n calls at places the walkers look at, and all it can reach:
\* the members of every set that has n and the callees of its members.
Callees(funs, n) ==
  {u.fun : u \in {u \in UNION {Uses(funs[i]) : i \in {i \in DOMAIN funs : funs[i].name = n}} : u.label = ""}} \cap NamesOf(funs)
CallClosed(funs, S) == \A n \in S : Callees(funs, n) \subseteq S
Reaches(funs, n) == {m \in NamesOf(funs) : \A S \in SUBSET NamesOf(funs) : n \in S /\ CallClosed(funs, S) => m \in S}

\* The effects the bodies of the functions ns have of their own, and what the
\* annotated ones among them publish.
OwnEffects(funs, ns) ==
  {u.label : u \in {u \in UNION {Uses(funs[i]) : i \in {i \in DOMAIN funs : funs[i].name \in ns}} : u.label # ""}}
Promised(funs, ns) == UNION {funs[i].effects : i \in {i \in AnnotatedOf(funs) : funs[i].name \in ns}}

\* Check: when no annotation is reported as too small, every function's
\* signature has the effects of all it reaches, however the functions are ordered
\* and however they call each other; and an unannotated function gets nothing
\* beyond what it and the annotated ones it reaches have.
EffectsCoverCalls ==
  Returned("effects") /\ OneEach(in) /\ out[1] = {} =>
    \A n \in NamesOf(in) :
      /\ OwnEffects(in, Reaches(in, n)) \subseteq known[n]
      /\ ~Pinned(in, n) => known[n] \subseteq OwnEffects(in, Reaches(in, n)) \cup Promised(in, Reaches(in, n))

\* "Each function climbs monotonically" (check.go:487): no sweep takes back an
\* effect, in a program that declares no function twice.
EffectsClimb ==
  [][subject = "effects" /\ OneEach(in) => \A n \in NamesOf(in) : known[n] \subseteq known'[n]]_<<evalVars, effectsVars>>

\* "... so the loop terminates" (check.go:487): Check returns.
EffectsSettle == subject = "effects" ~> out # <<>>
=============================================================================
