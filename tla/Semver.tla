------------------------------- MODULE Semver -------------------------------
(***************************************************************************)
(* PEP 440 versions and specifiers (semver/).  A version text is its       *)
(* sequence of tokens: numbers, letters, separators and the two keywords   *)
(* ".dev" and ".post"; two numbers, or two letters, never stand next to    *)
(* each other in a text.                                                   *)
(***************************************************************************)
EXTENDS Evaluation, SequencesExt

CONSTANTS
  VersionTexts,  \* the version texts tried
  SpecifierTexts \* the specifier texts tried

\* strconv.Atoi on the number tokens of the model.
Atoi == [t \in {"0", "1", "2", "3"} |-> CASE t = "0" -> 0 [] t = "1" -> 1 [] t = "2" -> 2 [] t = "3" -> 3]
Itoa(n) == CHOOSE t \in DOMAIN Atoi : Atoi[t] = n
IsNumber(s) == Len(s) = 1 /\ s[1] \in DOMAIN Atoi
\* The empty string: no pre-release kind, an empty segment.
Blank == ""
\* strings.Compare on the words a local label is made of.
Rank == [t \in {Blank, "a", "b", "rc"} |-> CASE t = Blank -> 0 [] t = "a" -> 1 [] t = "b" -> 2 [] t = "rc" -> 3]

\* A local label is words and numbers with separators between them, or has one
\* of the characters Parse refuses in it.
LocalTokens == DOMAIN Rank \cup DOMAIN Atoi \cup {".", "-", "_", "!", "+", " "}
ASSUME VersionTextsAssumption ==
  /\ SpecifierTexts \subseteq Seq(STRING)
  /\ \A t \in VersionTexts : t \in Seq(STRING) /\ \A i, j \in DOMAIN t : t[i] = "+" /\ i < j => t[j] \in LocalTokens

-----------------------------------------------------------------------------
(* Reading and writing a version.                                          *)

\* splitPre: the pre-release suffix, tried in the order rc, a, b.
PreAt(rest, k) ==
  LET i == LastOf(rest, k)
  IN IF i > 1 /\ rest[i - 1] \in DOMAIN Atoi /\ IsNumber(From(rest, i + 1)) THEN i ELSE 0
PreOf(rest, k) ==
  LET i == PreAt(rest, k) IN [kind |-> k, num |-> Atoi[rest[i + 1]], rest |-> Upto(rest, i - 1)]
SplitPre(rest) ==
  IF PreAt(rest, "rc") # 0 THEN PreOf(rest, "rc")
  ELSE IF PreAt(rest, "a") # 0 THEN PreOf(rest, "a")
  ELSE IF PreAt(rest, "b") # 0 THEN PreOf(rest, "b")
  ELSE [kind |-> Blank, num |-> 0, rest |-> rest]

\* The release segment: number, dot, number, ...; strings.Split on "." gives
\* an empty component whenever a dot has no number on both sides.
IsRelease(r) ==
  /\ r # <<>> /\ Len(r) % 2 = 1
  /\ \A i \in DOMAIN r : IF i % 2 = 1 THEN r[i] \in DOMAIN Atoi ELSE r[i] = "."
ReleaseOf(r) == [i \in 1..((Len(r) + 1) \div 2) |-> Atoi[r[2 * i - 1]]]

\* The local label, "-" and "_" read as ".": the segments strings.Split makes.
Segments(l) ==
  LET parts == Split(l, {".", "-", "_"})
  IN [k \in DOMAIN parts |-> IF parts[k] = <<>> THEN Blank ELSE parts[k][1]]

\* A counter behind a keyword: -1 when the keyword is absent.
Counter(s, k) ==
  LET i == LastOf(s, k)
  IN IF i = 0 THEN [ok |-> TRUE, n |-> -1, rest |-> s]
     ELSE IF IsNumber(From(s, i + 1))
          THEN [ok |-> TRUE, n |-> Atoi[s[i + 1]], rest |-> Upto(s, i - 1)]
          ELSE [ok |-> FALSE, n |-> -1, rest |-> s]

ParseVersion(t) ==
  LET plus  == First(t, "+")
      local == IF plus = 0 THEN <<>> ELSE From(t, plus + 1)
      body  == IF plus = 0 THEN t ELSE Upto(t, plus - 1)
      bang  == First(body, "!")
      epoch == Upto(body, bang - 1)
      dev   == Counter(IF bang = 0 THEN body ELSE From(body, bang + 1), ".dev")
      post  == Counter(dev.rest, ".post")
      pre   == SplitPre(post.rest)
  IN IF \/ t = <<>> \/ t[1] = "v" \/ " " \in {t[1], t[Len(t)]}
        \/ plus # 0 /\ (local = <<>> \/ \E i \in DOMAIN local : local[i] \in {"!", "+", " "})
        \/ bang # 0 /\ ~IsNumber(epoch)
        \/ ~dev.ok \/ ~post.ok \/ ~IsRelease(pre.rest)
     THEN Bad
     ELSE [ok |-> TRUE, epoch |-> IF bang = 0 THEN 0 ELSE Atoi[epoch[1]],
           release |-> ReleaseOf(pre.rest), preKind |-> pre.kind, preNum |-> pre.num,
           post |-> post.n, dev |-> dev.n,
           local |-> IF plus = 0 THEN <<>> ELSE Segments(local)]

Dotted(parts) == [i \in 1..(2 * Len(parts) - 1) |-> IF i % 2 = 1 THEN parts[(i + 1) \div 2] ELSE "."]
VersionString(v) ==
     (IF v.epoch > 0 THEN <<Itoa(v.epoch), "!">> ELSE <<>>)
  \o Dotted([i \in DOMAIN v.release |-> Itoa(v.release[i])])
  \o (IF v.preKind # Blank THEN <<v.preKind, Itoa(v.preNum)>> ELSE <<>>)
  \o (IF v.post >= 0 THEN <<".post", Itoa(v.post)>> ELSE <<>>)
  \o (IF v.dev >= 0 THEN <<".dev", Itoa(v.dev)>> ELSE <<>>)
  \o (IF v.local # <<>> THEN <<"+">> \o SelectSeq(Dotted(v.local), LAMBDA s : s # Blank) ELSE <<>>)

-----------------------------------------------------------------------------
(* Order.                                                                  *)

CmpInt(a, b) == IF a < b THEN -1 ELSE IF a > b THEN 1 ELSE 0
\* The first comparison that tells the two apart decides.
Decide(cs) ==
  LET told == {i \in DOMAIN cs : cs[i] # 0}
  IN IF told = {} THEN 0 ELSE cs[CHOOSE i \in told : \A j \in told : i <= j]

Longest(a, b) == IF Len(a) > Len(b) THEN Len(a) ELSE Len(b)
At(s, i, absent) == IF i <= Len(s) THEN s[i] ELSE absent
\* Mutant: only the components both have are compared.
CmpReleaseUnpadded(a, b) ==
  Decide([i \in 1..(IF Len(a) < Len(b) THEN Len(a) ELSE Len(b)) |-> CmpInt(a[i], b[i])])
CmpRelease(a, b) == Decide([i \in 1..Longest(a, b) |-> CmpInt(At(a, i, 0), At(b, i, 0))])

\* keyOf: 0 is minus infinity, 4 plus infinity, the kinds lie between.
PreKey(v) == CASE v.preKind = Blank /\ v.post < 0 /\ v.dev >= 0 -> 0
               [] v.preKind = Blank /\ ~(v.post < 0 /\ v.dev >= 0) -> 4
               [] OTHER -> Rank[v.preKind]
CmpPreKey(v, w) ==
  Decide(<<CmpInt(PreKey(v), PreKey(w)),
           IF v.preKind # Blank /\ w.preKind # Blank THEN CmpInt(v.preNum, w.preNum) ELSE 0>>)
\* An absent post counter (-1) sorts first.
CmpPostKey(v, w) == CmpInt(v.post, w.post)
CmpDevKey(v, w) ==
  CASE v.dev < 0 /\ w.dev < 0 -> 0 [] v.dev < 0 /\ w.dev >= 0 -> 1
    [] v.dev >= 0 /\ w.dev < 0 -> -1 [] OTHER -> CmpInt(v.dev, w.dev)
CmpSegment(a, b) ==
  CASE a \in DOMAIN Atoi /\ b \in DOMAIN Atoi -> CmpInt(Atoi[a], Atoi[b])
    [] a \in DOMAIN Atoi /\ b \notin DOMAIN Atoi -> 1
    [] a \notin DOMAIN Atoi /\ b \in DOMAIN Atoi -> -1
    [] OTHER -> CmpInt(Rank[a], Rank[b])
CmpLocal(a, b) ==
  CASE a = <<>> /\ b = <<>> -> 0 [] a = <<>> /\ b # <<>> -> -1 [] a # <<>> /\ b = <<>> -> 1
    [] OTHER -> Decide([i \in 1..Longest(a, b) |-> CmpSegment(At(a, i, Blank), At(b, i, Blank))])

Compare(v, w) ==
  Decide(<<CmpInt(v.epoch, w.epoch), CmpRelease(v.release, w.release), CmpPreKey(v, w),
           CmpPostKey(v, w), CmpDevKey(v, w), CmpLocal(v.local, w.local)>>)

-----------------------------------------------------------------------------
(* Specifiers.                                                             *)

Operators == {"===", "==", "!=", "<=", ">=", "~=", "<", ">"}
ClauseOf(op, v) == IF v.ok THEN [ok |-> TRUE, op |-> op, version |-> v] ELSE Bad
\* A clause without an operator, or with a version Parse refuses, is refused.
ParseClause(text) ==
  LET src == Trimmed(text)
  IN IF src = <<>> THEN Bad
     ELSE IF src[1] \notin Operators THEN Bad
     ELSE ClauseOf(src[1], ParseVersion(Trimmed(Tail(src))))
SpecifierOf(parsed) ==
  IF \A i \in DOMAIN parsed : parsed[i].ok THEN [ok |-> TRUE, clauses |-> parsed] ELSE Bad
ParseSpecifier(text) ==
  LET parts == IF Trimmed(text) = <<>> THEN <<>> ELSE Split(Trimmed(text), {","})
  IN SpecifierOf([i \in DOMAIN parts |-> ParseClause(parts[i])])
SpecifierString(spec) ==
  FlattenSeq([i \in DOMAIN spec.clauses |->
    (IF i = 1 THEN <<>> ELSE <<",", " ">>)
      \o <<spec.clauses[i].op>> \o VersionString(spec.clauses[i].version)])

MatchCompatible(v, ref) ==
  LET n == Len(ref.release) - 1
  IN Compare(v, ref) >= 0 /\ n > 0 /\ Len(v.release) >= n
     /\ \A i \in 1..n : v.release[i] = ref.release[i]
MatchClause(c, v) ==
  LET cmp == Compare(v, c.version)
  IN CASE c.op = "==" -> cmp = 0 [] c.op = "!=" -> cmp # 0
       [] c.op = "<" -> cmp < 0  [] c.op = "<=" -> cmp <= 0
       [] c.op = ">" -> cmp > 0  [] c.op = ">=" -> cmp >= 0
       [] c.op = "~=" -> MatchCompatible(v, c.version)
       [] c.op = "===" -> VersionString(v) = VersionString(c.version)
MatchSpecifier(spec, v) == \A i \in DOMAIN spec.clauses : MatchClause(spec.clauses[i], v)

-----------------------------------------------------------------------------
(* Calls: three versions are parsed, or a specifier is matched.            *)

SemverInit == \/ Called("semver.Parse", VersionTexts \X VersionTexts \X VersionTexts)
              \/ Called("semver.Match", SpecifierTexts \X VersionTexts)
ParseThree(ts) == [i \in 1..3 |-> ParseVersion(ts[i])]
Matched(spec, v) ==
  IF spec.ok /\ v.ok THEN [ok |-> TRUE, spec |-> spec, v |-> v, match |-> MatchSpecifier(spec, v)] ELSE Bad
ParseAndMatch(a) == Matched(ParseSpecifier(a[1]), ParseVersion(a[2]))
CallParse == Evaluate("semver.Parse", ParseThree)
CallMatch == Evaluate("semver.Match", ParseAndMatch)
SemverNext == CallParse \/ CallMatch
SemverSpec == SemverInit /\ [][SemverNext]_evalVars

-----------------------------------------------------------------------------
(* Properties.                                                             *)

\* What a version stands for, as PEP 440 and version.go's comment order it:
\* epoch, release without trailing zeros, then a phase in which dev releases,
\* pre-releases, the final one and post-releases follow each other.
Trim(s, absent) ==
  LET kept == {i \in DOMAIN s : s[i] # absent}
  IN IF kept = {} THEN <<>> ELSE Upto(s, CHOOSE i \in kept : \A j \in kept : j <= i)
Point(v) == [epoch |-> v.epoch, release |-> Trim(v.release, 0), pre |-> <<v.preKind, v.preNum>>,
             post |-> v.post, dev |-> v.dev, local |-> Trim(v.local, Blank)]

\* What Parse makes of a version it accepts.
IsVersion(v) ==
  /\ v \in [ok : {TRUE}, epoch : Nat, release : Seq(Nat), preKind : DOMAIN Rank, preNum : Nat,
            post : Nat \cup {-1}, dev : Nat \cup {-1}, local : Seq(DOMAIN Rank \cup DOMAIN Atoi)]
  /\ v.preKind = Blank => v.preNum = 0

\* Compare orders versions: it is antisymmetric and transitive, and calls two
\* versions equal only if they are the same point of PEP 440's line (1 and
\* 1.0, but not 1.0 and 1.0.dev1).
InOrder(v, w, x) ==
  /\ Compare(v, w) = -Compare(w, v)
  /\ Compare(v, w) <= 0 /\ Compare(w, x) <= 0 => Compare(v, x) <= 0
  /\ Compare(v, w) = 0 => Point(v) = Point(w)

\* Any three versions Parse returns are versions, and are ordered.
TotalOrder ==
  Returned("semver.Parse") /\ (\A i \in 1..3 : out[1][i].ok) =>
    LET v == out[1]
    IN (\A i \in 1..3 : IsVersion(v[i])) /\ InOrder(v[1], v[2], v[3])

\* PEP 440's line for one release: dev releases of it, its a, b and rc
\* pre-releases, the release, its post-releases.
Phase(v) == CASE v.preKind = "a" -> 2 [] v.preKind = "b" -> 3 [] v.preKind = "rc" -> 4
              [] v.preKind = Blank /\ v.post >= 0 -> 6
              [] v.preKind = Blank /\ v.post < 0 /\ v.dev >= 0 -> 1
              [] v.preKind = Blank /\ v.post < 0 /\ v.dev < 0 -> 5
\* Compare follows that line between any two versions of one release, and puts
\* the dev release of anything before the thing itself.
Phased(v, w) ==
  /\ v.epoch = w.epoch /\ Trim(v.release, 0) = Trim(w.release, 0) /\ Phase(v) < Phase(w)
       => Compare(v, w) = -1
  /\ v.dev >= 0 => Compare(v, [v EXCEPT !.dev = -1]) = -1

PhaseOrder ==
  Returned("semver.Parse") /\ (\A i \in 1..2 : out[1][i].ok) => Phased(out[1][1], out[1][2])

\* Version.String and Parse: Parse reads several spellings of a version (an
\* epoch of 0, "-" and "_" in the local label), and what String writes for any
\* of them is read back as the same version.
CanonicalText ==
  Returned("semver.Parse") =>
    \A i \in 1..3 : out[1][i].ok => ParseVersion(VersionString(out[1][i])) = out[1][i]

\* "V.*" of PEP 440: the same epoch and the same components, missing ones zero.
Prefixed(v, ref, n) ==
  v.epoch = ref.epoch /\ \A i \in 1..n : At(v.release, i, 0) = ref.release[i]
\* Clause.Match: a ~= clause is the pair ">= V, == V.*" (specifier_test.go:161)
\* for every candidate of V's epoch that spells out as many components as the
\* prefix has.
CompatibleRelease ==
  Returned("semver.Match") /\ out[1].ok =>
    \A i \in DOMAIN out[1].spec.clauses :
      LET c == out[1].spec.clauses[i]
          n == Len(c.version.release) - 1
          v == out[1].v
      IN c.op = "~=" /\ v.epoch = c.version.epoch /\ Len(v.release) >= n =>
           (MatchClause(c, v) <=> n > 0 /\ Compare(v, c.version) >= 0 /\ Prefixed(v, c.version, n))

\* Clause.Match: the textual === never accepts what == refuses.
ExactMatch ==
  Returned("semver.Match") /\ out[1].ok /\ out[1].match =>
    \A i \in DOMAIN out[1].spec.clauses :
      LET c == out[1].spec.clauses[i] IN c.op = "===" => Compare(out[1].v, c.version) = 0

\* What Parse returns is ordered as PEP 440 has it, and ~= follows that order.
VersionOrder == TotalOrder /\ PhaseOrder /\ CompatibleRelease
\* What String writes means what Parse read.
VersionSpelling == CanonicalText /\ ExactMatch
=============================================================================
