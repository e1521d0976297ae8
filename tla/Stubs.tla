-------------------------------- MODULE Stubs -------------------------------
(***************************************************************************)
(* PEP 561 (stubs/): where a package's stubs are found, and the reader of  *)
(* .pyi text.  Text is a sequence of physical lines [indent, toks]; a      *)
(* token is a word, a mark or a whole string literal.                      *)
(***************************************************************************)
EXTENDS TypeMap

CONSTANTS
  StubTexts,    \* the .pyi documents tried
  Sites,        \* the installations tried, see Resolve
  StubTrees     \* the directory trees tried: sets of [stem, ext]

-----------------------------------------------------------------------------
(* Discovery.                                                              *)

Tiers == <<"inline", "sibling-stubs", "typeshed", "stubgen">>
WalkStubFiles(tree) ==
  {f \in tree : f.ext = ".pyi" \/ (f.ext = ".py" /\ [f EXCEPT !.ext = ".pyi"] \notin tree)}

\* Where typeshed keeps a package: the first of its four places that exists.
TypeshedPlaces == <<"stubs/name/module", "stubs/name", "stdlib/module", "stdlib/module.pyi">>
Lookup(places) ==
  LET hits == {i \in DOMAIN TypeshedPlaces : TypeshedPlaces[i] \in places}
  IN IF hits = {} THEN "" ELSE TypeshedPlaces[CHOOSE i \in hits : \A j \in hits : i <= j]

Source(tier, root, partial) == [ok |-> TRUE, tier |-> tier, root |-> root, partial |-> partial]
\* The generator runs once, under a timeout; what it wrote is never complete.
StubgenGenerate(site) == IF site.stubgen = "works" THEN Source("stubgen", "cache/name", TRUE) ELSE Bad
\* site: [marker (of py.typed), sibling, typeshed, stubgen, allowStubgen].
Resolve(site) ==
  CASE site.marker # "absent" -> Source("inline", "name", site.marker = "partial")
    [] site.marker = "absent" /\ site.sibling -> Source("sibling-stubs", "name-stubs", FALSE)
    [] OTHER ->
         CASE Lookup(site.typeshed) # "" -> Source("typeshed", Lookup(site.typeshed), FALSE)
           [] Lookup(site.typeshed) = "" /\ site.allowStubgen /\ site.stubgen # "none" -> StubgenGenerate(site)
           [] OTHER -> Bad

-----------------------------------------------------------------------------
(* Lines.                                                                  *)

Openers == {"(", "[", "{"}
Closers == {")", "]", "}"}
BracketDelta(toks) ==
  FoldLeft(LAMBDA d, t : IF t \in Openers THEN d + 1 ELSE IF t \in Closers THEN d - 1 ELSE d, 0, toks)
StripComment(toks) == IF First(toks, "#") = 0 THEN toks ELSE Upto(toks, First(toks, "#") - 1)

\* A logical line ends where no bracket is open and no backslash is pending.
Flush(s) ==
  [s EXCEPT !.out = IF s.toks = <<>> THEN @ ELSE Append(@, [indent |-> s.indent, toks |-> s.toks]),
            !.toks = <<>>, !.indent = -1]
TakeLine(s, indent, toks, cont) ==
  [s EXCEPT !.toks = @ \o (IF cont THEN Front(toks) ELSE toks),
            !.indent = IF @ = -1 THEN indent ELSE @,
            !.depth = @ + BracketDelta(toks), !.ok = @ /\ s.depth + BracketDelta(toks) >= 0]
EndLine(s, cont) == IF cont \/ s.depth > 0 THEN s ELSE Flush(s)
NextLine(s, indent, toks) ==
  LET cont == toks # <<>> /\ Last(toks) = "\\" IN EndLine(TakeLine(s, indent, toks, cont), cont)
LogicalLines(text) ==
  Flush(FoldLeft(LAMBDA s, line : NextLine(s, line.indent, StripComment(line.toks)),
                 [ok |-> TRUE, out |-> <<>>, toks |-> <<>>, indent |-> -1, depth |-> 0], text))

-----------------------------------------------------------------------------
(* Statements.                                                             *)

\* Positions of mark c outside every bracket of s, and the pieces between.
TopLevel(s, c) == {i \in DOMAIN s : s[i] = c /\ BracketDelta(Upto(s, i - 1)) = 0}
FirstTopLevel(s, c) ==
  LET at == TopLevel(s, c) IN IF at = {} THEN 0 ELSE CHOOSE i \in at : \A j \in at : i <= j
SplitTopLevel(s) ==
  LET cut == {0, Len(s) + 1} \cup TopLevel(s, ",")
      nth == Ascending(cut)
  IN SelectSeq([k \in 1..(Len(nth) - 1) |-> SubSeq(s, nth[k] + 1, nth[k + 1] - 1)], LAMBDA p : p # <<>>)
Words == STRING \ (Openers \cup Closers \cup {",", ":", "=", "*", "**", "/", ".", "|", "->", "@", "...", Quoted, Numeral})
IsPlainIdent(s) == Len(s) = 1 /\ s[1] \in Words

\* name: type = default, and name = expression.
SplitAnnotation(s) ==
  LET colon == FirstTopLevel(s, ":")
      rest  == From(s, colon + 1)
      eq    == FirstTopLevel(rest, "=")
  IN IF colon = 0 \/ ~IsPlainIdent(Upto(s, colon - 1)) THEN Bad
     ELSE [ok |-> TRUE, decl |-> [name |-> Upto(s, colon - 1), type |-> IF eq = 0 THEN rest ELSE Upto(rest, eq - 1)]]
SplitAlias(s) ==
  LET eq == FirstTopLevel(s, "=")
  IN IF eq = 0 \/ ~IsPlainIdent(Upto(s, eq - 1)) THEN Bad
     ELSE [ok |-> TRUE, decl |-> [name |-> Upto(s, eq - 1), type |-> From(s, eq + 1)]]

Stars(p) == IF p[1] \in {"*", "**"} THEN Tail(p) ELSE p
ParamOf(p, keywordOnly) ==
  LET bare  == Stars(p)
      eq    == FirstTopLevel(bare, "=")
      decl  == IF eq = 0 THEN bare ELSE Upto(bare, eq - 1)
      colon == First(decl, ":")
  IN [name |-> IF colon = 0 THEN decl[1] ELSE decl[colon - 1],
      type |-> IF colon = 0 THEN <<>> ELSE From(decl, colon + 1),
      default |-> eq # 0,
      kind |-> CASE p[1] = "**" -> "kwargs" [] p[1] = "*" -> "varargs"
                 [] OTHER -> IF keywordOnly THEN "keyword" ELSE "positional"]
ParseParams(raw) ==
  LET PositionalOnly(q) == IF q.kind = "positional" THEN [q EXCEPT !.kind = "positional-only"] ELSE q
      Take(s, p) ==
        CASE p = <<"/">> -> [s EXCEPT !.out = [i \in DOMAIN @ |-> PositionalOnly(@[i])]]
          [] p = <<"*">> -> [s EXCEPT !.star = TRUE]
          [] OTHER -> [out |-> Append(s.out, ParamOf(p, s.star)), star |-> s.star \/ p[1] \in {"*", "**"}]
  IN FoldLeft(Take, [out |-> <<>>, star |-> FALSE], SplitTopLevel(raw)).out

\* Parentheses alone are counted, other brackets may be open.
MatchingClose(s, open) ==
  LET seen(i, c) == Cardinality({k \in open..i : s[k] = c})
      at == {i \in (open + 1)..Len(s) : s[i] = ")" /\ seen(i, "(") = seen(i, ")")}
  IN IF at = {} THEN 0 ELSE CHOOSE i \in at : \A j \in at : i <= j
IsDef(toks) == toks[1] = "def" \/ (Len(toks) > 1 /\ toks[1] = "async" /\ toks[2] = "def")
ParseFunction(toks) ==
  LET async == toks[1] = "async"
      rest  == From(toks, IF async THEN 3 ELSE 2)
      open  == First(rest, "(")
      close == MatchingClose(rest, open)
      tail  == From(rest, close + 1)
      arrow == tail # <<>> /\ tail[1] = "->"
      colon == LastOf(tail, ":")
  IN IF open = 0 \/ close = 0 THEN Bad
     ELSE [ok |-> TRUE,
           decl |-> [name |-> Upto(rest, open - 1), params |-> ParseParams(SubSeq(rest, open + 1, close - 1)), async |-> async,
                     ret |-> IF ~arrow THEN <<>> ELSE SubSeq(tail, 2, IF colon = 0 THEN Len(tail) ELSE colon - 1)]]

\* The header of a class and what its bases and decorators make of it.
ClassHeader(toks, decorators) ==
  LET rest  == Tail(toks)
      colon == LastOf(rest, ":")
      left  == Upto(rest, colon - 1)
      open  == First(left, "(")
      close == LastOf(left, ")")
      bases == IF open = 0 THEN <<>> ELSE SplitTopLevel(SubSeq(left, open + 1, close - 1))
      Names(b, n) == b[1] = n /\ (Len(b) = 1 \/ b[2] = "[")
      Dataclass(d) == d = <<"dataclass">> \/ (d[1] = "dataclass" /\ d[2] = "(")
                      \/ (Len(d) > 2 /\ Last(d) = "dataclass" /\ d[Len(d) - 1] = ".")
      Frozen(d) == /\ "dataclass" \in Range(d) /\ First(d, "(") # 0
                   /\ \E i \in First(d, "(")..(Len(d) - 2) : SubSeq(d, i, i + 2) = <<"frozen", "=", "True">>
  IN IF colon = 0 \/ (open # 0 /\ close < open) THEN Bad
     ELSE [ok |-> TRUE,
           decl |-> [name |-> IF open = 0 THEN left ELSE Upto(left, open - 1),
                     protocol |-> \E i \in DOMAIN bases : Names(bases[i], "Protocol"),
                     typedDict |-> \E i \in DOMAIN bases : Names(bases[i], "TypedDict"),
                     dataclass |-> \E i \in DOMAIN decorators : Dataclass(decorators[i]),
                     frozen |-> \E i \in DOMAIN decorators : Frozen(decorators[i]),
                     methods |-> <<>>, fields |-> <<>>]]

EmptySurface == [classes |-> <<>>, functions |-> <<>>, constants |-> <<>>, aliases |-> <<>>]
Grown(s, part, d) == IF d.ok THEN [s EXCEPT !.surface[part] = Append(@, d.decl), !.decorators = <<>>]
                     ELSE [s EXCEPT !.ok = FALSE]
\* One line of the open class: nested headers and unknown lines are passed over.
WithMember(s, part, d, otherwise) ==
  IF d.ok THEN [s EXCEPT !.surface.classes[Len(s.surface.classes)][part] = Append(@, d.decl)] ELSE otherwise
ClassLine(s, toks) ==
  CASE toks \in {<<"...">>, <<"pass">>} \/ toks[1] = "@" -> s
    [] toks[1] # "@" /\ IsDef(toks) -> WithMember(s, "methods", ParseFunction(toks), [s EXCEPT !.ok = FALSE])
    [] OTHER -> WithMember(s, "fields", SplitAnnotation(toks), s)
\* A constant, an alias, or a line that only ends the decorators.
Assignment(s, constant, alias) ==
  CASE constant.ok -> Grown(s, "constants", constant)
    [] ~constant.ok /\ alias.ok -> Grown(s, "aliases", alias)
    [] OTHER -> [s EXCEPT !.decorators = <<>>]
ModuleLine(s, toks) ==
  CASE toks[1] = "@" -> [s EXCEPT !.decorators = Append(@, Tail(toks))]
    [] toks[1] \in {"import", "from"} ->
         [s EXCEPT !.decorators = <<>>, !.ok = @ /\ (toks[1] = "from" => "import" \in Range(toks))]
    [] toks[1] = "class" -> Grown([s EXCEPT !.open = TRUE], "classes", ClassHeader(toks, s.decorators))
    [] IsDef(toks) -> Grown(s, "functions", ParseFunction(toks))
    [] OTHER -> Assignment(s, SplitAnnotation(toks), SplitAlias(toks))
\* An indented line belongs to the class above it, or to nothing.
ParseLine(s, line) ==
  IF line.indent = 0 THEN ModuleLine([s EXCEPT !.open = FALSE], line.toks)
  ELSE IF s.open THEN ClassLine(s, line.toks) ELSE s
ParseLines(lines) ==
  FoldLeft(LAMBDA s, line : IF s.ok THEN ParseLine(s, line) ELSE s,
           [ok |-> lines.ok, surface |-> EmptySurface, decorators |-> <<>>, open |-> FALSE], lines.out)
SurfaceOf(end) == IF end.ok THEN [ok |-> TRUE, surface |-> end.surface] ELSE Bad
ParsePYI(text) == SurfaceOf(ParseLines(LogicalLines(text)))

-----------------------------------------------------------------------------
StubsInit == \/ Called("pyi", StubTexts) \/ Called("discovery", Sites) \/ Called("walk", StubTrees)
StubsNext ==
  \/ Evaluate("pyi", ParsePYI)
  \/ Evaluate("discovery", Resolve)
  \/ Evaluate("walk", WalkStubFiles)

(* Installing something more never hides a better source: with a superset  *)
(* of what was there, Resolve answers whenever it answered before, and     *)
(* with the same tier or an earlier one.                                   *)
AtLeast(more, less) ==
  /\ less.marker # "absent" => more.marker = less.marker
  /\ less.sibling => more.sibling
  /\ less.typeshed \subseteq more.typeshed
  /\ less.stubgen = "works" => more.stubgen = "works"
  /\ less.allowStubgen => more.allowStubgen
Rank(source) == First(Tiers, source.tier)
TierMonotone ==
  Returned("discovery") /\ out[1].ok =>
    \A more \in Sites : AtLeast(more, in) => Resolve(more).ok /\ Rank(Resolve(more)) <= Rank(out[1])

(* Each module of a tree is listed once, by its stub when it has one.      *)
OneFilePerModule ==
  Returned("walk") =>
    \A s \in {f.stem : f \in {g \in in : g.ext \in {".pyi", ".py"}}} :
      \E f \in out[1] : {g \in out[1] : g.stem = s} = {f} /\ (f.ext = ".py" => [f EXCEPT !.ext = ".pyi"] \notin in)

(* How a stub breaks its brackets over lines does not change what is read  *)
(* from it: one token per line inside brackets parses like one line.       *)
OpenAfter(toks, i) ==
  Cardinality({j \in 1..i : toks[j] \in Openers}) - Cardinality({j \in 1..i : toks[j] \in Closers})
Broken(line) ==
  LET cut == {i \in 1..(Len(line.toks) - 1) : OpenAfter(line.toks, i) > 0} \cup {0, Len(line.toks)}
      nth == Ascending(cut)
  IN [k \in 1..(Len(nth) - 1) |->
        [indent |-> IF k = 1 THEN line.indent ELSE 8, toks |-> SubSeq(line.toks, nth[k] + 1, nth[k + 1])]]
Balanced(line) == "#" \notin Range(line.toks) /\ OpenAfter(line.toks, Len(line.toks)) = 0
LayoutIrrelevant ==
  Returned("pyi") /\ (\A i \in DOMAIN in : Balanced(in[i])) =>
    ParsePYI(FlattenSeq([i \in DOMAIN in |-> Broken(in[i])])) = out[1]

(* Every def that is not inside a conditional block is read exactly once,  *)
(* by the class whose header is the last module-level line above it.       *)
Owner(lines, i) ==
  LET heads == {j \in 1..i : lines[j].indent = 0}
  IN IF heads = {} THEN 0 ELSE CHOOSE j \in heads : \A k \in heads : k <= j
DefsOwnedBy(lines, j) ==
  {lines[i].toks : i \in {i \in DOMAIN lines : i # j /\ IsDef(lines[i].toks) /\ Owner(lines, i) = j}}
Headers(lines) ==
  SelectSeq([i \in DOMAIN lines |-> i], LAMBDA i : lines[i].indent = 0 /\ lines[i].toks[1] = "class")
Owns(classes, lines) ==
  /\ Len(Headers(lines)) = Len(classes)
  /\ \A k \in DOMAIN classes :
       Range(classes[k].methods) = {ParseFunction(t).decl : t \in DefsOwnedBy(lines, Headers(lines)[k])}
MembersOwned == Returned("pyi") /\ out[1].ok => Owns(out[1].surface.classes, LogicalLines(in).out)

(* The kinds of parameters come out in the order Python allows: positional *)
(* -only, positional, one *args, keyword-only, one **kwargs.  (Texts that  *)
(* Python itself refuses, with / after *, are not tried.)                  *)
KindOrder == <<"positional-only", "positional", "varargs", "keyword", "kwargs">>
ParamKindsOrdered ==
  Returned("pyi") /\ out[1].ok =>
    \A f \in Range(out[1].surface.functions) : \A i, j \in DOMAIN f.params :
      i < j => /\ First(KindOrder, f.params[i].kind) <= First(KindOrder, f.params[j].kind)
               /\ f.params[i].kind \in VariadicKinds => f.params[j].kind # f.params[i].kind

\* Stubs are found in one place and read independently of their layout.
StubsRead == TierMonotone /\ OneFilePerModule /\ LayoutIrrelevant /\ MembersOwned /\ ParamKindsOrdered
=============================================================================
