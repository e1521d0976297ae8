------------------------------ MODULE PyPackage -----------------------------
(***************************************************************************)
(* A Mochi package published as a Python distribution (pypackage/): the    *)
(* file layouts of its sdist and its wheel, and the typed stub in both.    *)
(* A layout is a function from paths to bodies.  A record type's params    *)
(* are its field types, an interface's are its methods' signatures.        *)
(***************************************************************************)
EXTENDS Wrapper

CONSTANT Packages \* [distribution, version, summary, license, module, exports]

-----------------------------------------------------------------------------
(* Names.                                                                  *)

Lowercase == {"a", "b"}
Digits == {"1"}
IsPEP503Name(s) ==
  /\ s # <<>>
  /\ \A i \in DOMAIN s : s[i] \in Lowercase \cup Digits \/ (s[i] = "-" /\ i \notin {1, Len(s)})
IsPyIdent(s) ==
  s # <<>> /\ \A i \in DOMAIN s : s[i] \in Lowercase \cup {"_", "mochi_build"} \/ (s[i] \in Digits /\ i > 1)
ModuleName(p) ==
  IF p.module # <<>> THEN p.module
  ELSE [i \in DOMAIN p.distribution |-> IF p.distribution[i] = "-" THEN "_" ELSE p.distribution[i]]
Validate(p) ==
  /\ IsPEP503Name(p.distribution)
  /\ "" \notin {p.version, p.summary, p.license}
  /\ \A i \in DOMAIN p.exports : IsPyIdent(p.exports[i].name)

-----------------------------------------------------------------------------
(* The stub: what is written, and what is imported for it.                 *)

RECURSIVE PyAnnotation(_)
PyAnnotation(t) ==
  LET args == [i \in DOMAIN t.params |-> PyAnnotation(t.params[i])]
  IN CASE t.kind = "scalar" -> <<IF t.name = "Any" THEN "Any" ELSE ScalarPyAnno[t.name]>>
       [] t.kind = "tuple" -> Subscripted(<<"tuple">>, args)
       [] t.kind \in DOMAIN Constructor \ {"tuple"} -> Subscripted(<<Constructor[t.kind]>>, args)
       [] t.kind = "fun" -> Subscripted(<<"Callable">>, <<Subscripted(<<>>, Front(args)), Last(args)>>)
       [] t.kind \in {"record", "interface"} -> <<IF t.name = "" THEN "Any" ELSE t.name>>
       [] OTHER -> <<t.name>>
\* The types a stub entry spells out.
Spelled(e) ==
  CASE e.kind = "fun" -> e.type.params
    [] e.kind = "record" -> e.type.params
    [] e.kind = "interface" -> FlattenSeq([i \in DOMAIN e.type.params |-> e.type.params[i].params])
    [] e.kind = "const" -> <<e.type>>
InitPYI(p) ==
  [i \in DOMAIN p.exports |->
     [name |-> p.exports[i].name,
      words |-> (IF p.exports[i].kind = "interface" THEN <<"Protocol">> ELSE <<>>)
                \o FlattenSeq([k \in DOMAIN Spelled(p.exports[i]) |-> PyAnnotation(Spelled(p.exports[i])[k])])]]

NeedsTyping == [optional |-> "Optional", sum |-> "Union", async |-> "Awaitable", stream |-> "AsyncIterator", fun |-> "Callable"]
RECURSIVE WalkTyping(_)
WalkTyping(t) ==
  LET within(u) == UNION {WalkTyping(u.params[i]) : i \in DOMAIN u.params}
  IN CASE t.kind \in DOMAIN NeedsTyping -> {NeedsTyping[t.kind]} \cup within(t)
       [] t.kind = "scalar" -> IF t.name = "Any" THEN {"Any"} ELSE {}
       [] t.kind \in {"list", "set", "map", "tuple", "record"} -> within(t)
       [] t.kind = "interface" -> UNION {within(t.params[i]) : i \in DOMAIN t.params}
       [] OTHER -> {}
PyImportsFor(p) ==
  UNION {WalkTyping(p.exports[i].type) \cup (IF p.exports[i].kind = "interface" THEN {"Protocol"} ELSE {})
         : i \in DOMAIN p.exports}

-----------------------------------------------------------------------------
(* Layouts.                                                                *)

Add(layout, path, body) == (path :> body) @@ layout
Metadata(p) == <<p.distribution, p.version, p.summary>>
InitPy(p) == {p.exports[i].name : i \in DOMAIN p.exports}
Module(p, layout) ==
  Add(Add(layout, <<ModuleName(p), "__init__.py">>, InitPy(p)),
      <<ModuleName(p), "__init__.pyi">>, <<PyImportsFor(p), InitPYI(p)>>)
RenderSdist(p) ==
  LET top == (<<<<>>, "pyproject.toml">> :> Metadata(p)) @@ (<<<<>>, "PKG-INFO">> :> Metadata(p))
             @@ (<<<<>>, "README.md">> :> p.summary)
  IN Add(Module(p, top), <<<<"mochi_build">>, "__init__.py">>, "backend")

DistInfo(p) == p.distribution \o <<"-", p.version, ".dist-info">>
\* RECORD has a row for every file so far and one, without hash, for itself.
RecordBody(layout, recordPath) == (recordPath :> "no hash") @@ [path \in DOMAIN layout |-> <<"sha256", layout[path]>>]
RenderWheel(p) ==
  LET distInfo == DistInfo(p)
      l == Add(Add(Module(p, <<>>), <<distInfo, "METADATA">>, Metadata(p)), <<distInfo, "WHEEL">>, "py3-none-any")
  IN Add(l, <<distInfo, "RECORD">>, RecordBody(l, <<distInfo, "RECORD">>))
RenderPackage(p) == IF Validate(p) THEN [ok |-> TRUE, wheel |-> RenderWheel(p), sdist |-> RenderSdist(p)] ELSE Bad

-----------------------------------------------------------------------------
PyPackageInit == Called("pypackage", Packages)
PyPackageNext == Evaluate("pypackage", RenderPackage)
Rendered == Returned("pypackage") /\ out[1].ok

(* RECORD vouches for the wheel as it is shipped: one row per file, each   *)
(* with the hash of the body that is in the layout.                        *)
RecordComplete ==
  Rendered =>
    LET wheel == out[1].wheel
        path == <<DistInfo(in), "RECORD">>
    IN /\ DOMAIN wheel[path] = DOMAIN wheel
       /\ \A f \in DOMAIN wheel \ {path} : wheel[path][f] = <<"sha256", wheel[f]>>

(* Both artifacts carry the package's own module, under one importable     *)
(* name.  (A distribution that begins with a digit, a Module set by hand   *)
(* and a module called mochi_build are outside: nothing refuses them.)     *)
SameModule ==
  Rendered /\ in.module = <<>> /\ Head(in.distribution) \notin Digits =>
    LET mod == ModuleName(in)
    IN /\ IsPyIdent(mod)
       /\ \A f \in {"__init__.py", "__init__.pyi"} :
            <<mod, f>> \in DOMAIN out[1].wheel /\ out[1].sdist[<<mod, f>>] = out[1].wheel[<<mod, f>>]

(* Every typing name the stub writes is imported by it.  Any is excepted:  *)
(* it also stands for unnamed records and for references called Any, which *)
(* the import scan does not see.                                           *)
TypingNames == {NeedsTyping[k] : k \in DOMAIN NeedsTyping} \cup {"Protocol"}
TypingImported ==
  Rendered => \A i \in DOMAIN InitPYI(in) : Range(InitPYI(in)[i].words) \cap TypingNames \subseteq PyImportsFor(in)

\* What a Mochi program takes from a Python package is bound, and the distribution
\* made of a Mochi package lists, names and imports what it holds.
PackageComplete == BindingsWork /\ RecordComplete /\ SameModule /\ TypingImported
=============================================================================
