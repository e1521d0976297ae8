------------------------------- MODULE Wrapper ------------------------------
(***************************************************************************)
(* The wrapper synthesiser (wrapper/) and the shim emitter (emit/): from   *)
(* the surface of a package to the Python module that re-exports it and    *)
(* the extern declarations that bind to that module.  An identifier is a   *)
(* sequence of parts, <<"f">>, <<"_", "p">>, <<"f", "_sync">>.             *)
(***************************************************************************)
EXTENDS Stubs

CONSTANTS
  Surfaces,   \* the calls tried: [pkg, surface, loop, partial]
  NameOrder   \* every identifier part, in string order

-----------------------------------------------------------------------------
(* Names and paths.                                                        *)

IsPrivate(name) == Head(name) = "_"
PartLess(a, b) == First(NameOrder, a) < First(NameOrder, b)
\* Lexicographic, a prefix first: strings compared part by part.
PathLess(p, q) ==
  \/ IsStrictPrefix(p, q)
  \/ \E i \in DOMAIN p \cap DOMAIN q : Upto(p, i - 1) = Upto(q, i - 1) /\ PartLess(p[i], q[i])
Suffixed(name, suffix) == Append(name, suffix)
TrimSuffix(name, suffix) == IF Last(name) = suffix THEN Front(name) ELSE name
LastDot(path) == path[Len(path)]
\* qualify: a path that is or begins with the package's own name is left alone,
\* even if it is a class of that name that it means.
Qualify(pkg, path) == IF Head(path) = pkg THEN path ELSE <<pkg>> \o path
Dotted(path) == FlattenSeq([i \in DOMAIN path |-> IF i = 1 THEN path[i] ELSE <<".">> \o path[i]])

-----------------------------------------------------------------------------
(* Synthesis: each declaration becomes an item or skip reports.            *)

Item(name, source, kind, type) ==
  [name |-> name, source |-> source, kind |-> kind, type |-> type, async |-> FALSE, members |-> <<>>]
Report(path, reason) == [path |-> path, reason |-> reason]
Kept(item) == [items |-> <<item>>, skipped |-> <<>>]
Dropped(path, reason) == [items |-> <<>>, skipped |-> <<Report(path, reason)>>]

\* What becomes of a declaration whose type was decided: private names and
\* refused types are reported, the latter under refusedAt, the rest is kept as
\* the decision says.
Decided(pkg, decl, refusedAt, dec, kept) ==
  CASE IsPrivate(decl.name) -> Dropped(<<pkg, decl.name>>, "PrivateName")
    [] ~IsPrivate(decl.name) /\ ~dec.ok -> Dropped(refusedAt, dec.reason)
    [] OTHER -> kept
SynthClass(m, pkg, cd) ==
  LET dec == MapClass(m, cd)
  IN Decided(pkg, cd, Qualify(pkg, <<cd.name>>), dec,
       [items |-> <<[Item(cd.name, <<cd.name>>, dec.kind, Ref(Last(cd.name))) EXCEPT !.members = dec.members]>>,
        skipped |-> [i \in DOMAIN dec.skipped |->
                       Report(Qualify(pkg, <<cd.name, dec.skipped[i].name>>), dec.skipped[i].decision.reason)]])
SynthFunction(m, pkg, fn) ==
  LET dec == MapFunction(m, fn)
  IN Decided(pkg, fn, Qualify(pkg, <<fn.name>>), dec,
       Kept([Item(IF fn.async THEN Suffixed(fn.name, "_sync") ELSE fn.name, <<fn.name>>, "fun", dec.type)
             EXCEPT !.async = fn.async]))
SynthConstant(m, pkg, c) == \* no annotation: Unsupported
  LET dec == Map(m, c.type)
  IN Decided(pkg, c, <<pkg, c.name>>, dec, Kept(Item(c.name, <<c.name>>, "const", dec.type)))

\* The bridge gives the mapper neither classes nor type variables.
BridgeMapper(partial) == [typeVars |-> {}, classes |-> {}, partial |-> partial]
\* The items by source name, the reports by path.
SortedWrapper(call, parts) ==
  [ok |-> TRUE, loop |-> call.loop,
   items |-> StableSort(FlattenSeq([i \in DOMAIN parts |-> parts[i].items]),
                        LAMBDA a, b : PathLess(a.source[1], b.source[1])),
   skipped |-> StableSort(FlattenSeq([i \in DOMAIN parts |-> parts[i].skipped]),
                          LAMBDA a, b : PathLess(Dotted(a.path), Dotted(b.path)))]
SynthSurface(m, pkg, s) ==
  [i \in DOMAIN s.classes |-> SynthClass(m, pkg, s.classes[i])]
  \o [i \in DOMAIN s.functions |-> SynthFunction(m, pkg, s.functions[i])]
  \o [i \in DOMAIN s.constants |-> SynthConstant(m, pkg, s.constants[i])]
Synthesise(call) ==
  IF IsPlainIdent(call.pkg)
  THEN SortedWrapper(call, SynthSurface(BridgeMapper(call.partial), call.pkg, call.surface))
  ELSE Bad

-----------------------------------------------------------------------------
(* The .py module: its imports and its definitions, in order.              *)

HasAsync(w) == \E i \in DOMAIN w.items : w.items[i].async
WrapperHelpers(w) ==
  {"_to_mochi_dict"} \cup (IF HasAsync(w) THEN {"_run_async"} ELSE {})
                     \cup (IF HasAsync(w) /\ w.loop = "persistent" THEN {"_persistent_loop"} ELSE {})

Def(name, item, uses) == [name |-> name, source |-> LastDot(item.source), uses |-> uses, args |-> 0]
\* Positional parameters arg0, arg1, ... passed on in the same order.
Shim(name, item, uses) == [Def(name, item, uses) EXCEPT !.args = Len(item.type.params) - 1]
RenderFunc(item, loop) ==
  IF item.async
  THEN <<Shim(item.name, item, {IF loop = "persistent" THEN "_MOCHI_LOOP" ELSE "_run_async"}),
         Shim(Suffixed(TrimSuffix(item.name, "_sync"), "_async"), item, {})>>
  ELSE <<Shim(item.name, item, {})>>
RenderRecord(item) ==
  <<Def(item.name, item, {})>>
  \o (IF item.members = <<>> THEN <<>>
      ELSE <<Def(<<"_">> \o item.name \o <<"_to_mochi_dict">>, item, {"_to_mochi_dict"})>>)
RenderItem(item, loop) ==
  CASE item.kind = "fun" -> RenderFunc(item, loop)
    [] item.kind = "record" -> RenderRecord(item)
    [] item.kind \in {"interface", "const"} -> <<Def(item.name, item, {})>>
RenderPy(w) ==
  LET loop == w.loop = "persistent" /\ HasAsync(w)
  IN [imports |-> WrapperHelpers(w) \cup (IF HasAsync(w) THEN {"asyncio"} ELSE {}),
      defs |-> FlattenSeq([i \in DOMAIN w.items |-> RenderItem(w.items[i], w.loop)])
               \o (IF loop THEN <<[name |-> <<"_MOCHI_LOOP">>, source |-> <<>>, uses |-> {"_persistent_loop"}, args |-> 0]>>
                   ELSE <<>>)]

\* The annotation of a type in the .pyi beside it.
ScalarPyAnno == [int |-> "int", float |-> "float", bool |-> "bool", string |-> "str", bytes |-> "bytes", None |-> "None"]
Constructor == [list |-> "list", set |-> "set", map |-> "dict", tuple |-> "Tuple", optional |-> "Optional",
                sum |-> "Union", async |-> "Awaitable", stream |-> "AsyncIterator"]
RECURSIVE RenderPyAnno(_)
RenderPyAnno(t) ==
  LET args == [i \in DOMAIN t.params |-> RenderPyAnno(t.params[i])]
  IN CASE t.kind = "scalar" -> <<ScalarPyAnno[t.name]>>
       [] t.kind \in DOMAIN Constructor -> Subscripted(<<Constructor[t.kind]>>, args)
       [] t.kind = "fun" -> Subscripted(<<"Callable">>, <<Subscripted(<<>>, Front(args)), Last(args)>>)
       [] OTHER -> <<t.name>>
RenderPYI(w) ==
  FlattenSeq([i \in DOMAIN w.items |->
    LET it == w.items[i]
    IN <<it.name>> \o (IF it.async THEN <<Suffixed(TrimSuffix(it.name, "_sync"), "_async")>> ELSE <<>>)])

-----------------------------------------------------------------------------
(* The shim: extern declarations, by group.                                *)

ItemGroups == <<"record", "interface", "const", "fun">>
\* Mutant: an async function is declared under its own name.
DeclarationOwnName(item) == [name |-> LastDot(item.source), source |-> LastDot(item.source), kind |-> "extern_fun"]
Declaration(item) ==
  [name |-> item.name, source |-> LastDot(item.source),
   kind |-> CASE item.kind = "fun" -> "extern_fun" [] item.kind = "const" -> "extern_var"
              [] item.kind = "record" /\ item.members # <<>> -> "type_alias" [] OTHER -> "extern_type"]
EmitShim(w) ==
  LET Group(g) == SelectSeq(w.items, LAMBDA it : it.kind = g)
      decls(g) == [i \in DOMAIN Group(g) |-> Declaration(Group(g)[i])]
  IN FlattenSeq([k \in DOMAIN ItemGroups |-> decls(ItemGroups[k])])

\* One package through both: what build/ runs for it.
RenderAll(w) ==
  IF w.ok THEN [ok |-> TRUE, wrapper |-> w, py |-> RenderPy(w), pyi |-> RenderPYI(w), shim |-> EmitShim(w)] ELSE Bad
Generate(call) == RenderAll(Synthesise(call))

-----------------------------------------------------------------------------
WrapperInit == Called("wrapper", Surfaces)
WrapperNext == Evaluate("wrapper", Generate)
Generated == Returned("wrapper") /\ out[1].ok

(* Nothing of a surface disappears: each declaration has one item or one   *)
(* skip report of its own, private ones too, and so does each member of a  *)
(* class that was mapped.  Two kinds of members are outside the bridge and *)
(* in neither: the methods of a record and the fields of a Protocol.  When *)
(* a class has the package's name, its members are reported like the       *)
(* package's own names, and a name may have a report too many.             *)
Declared(s) == s.classes \o s.functions \o s.constants
Bridged(cd) == IF cd.protocol THEN cd.methods ELSE cd.fields
CountOf(s, Test(_)) == Cardinality({i \in DOMAIN s : Test(s[i])})
EveryItemAccounted ==
  Generated =>
    LET w == out[1].wrapper
        At(name) == {<<in.pkg, name>>, Qualify(in.pkg, <<name>>)}
        ownClass == \E cd \in Range(in.surface.classes) : cd.name = in.pkg
    IN /\ \A n \in {d.name : d \in Range(Declared(in.surface))} :
            LET declared == CountOf(Declared(in.surface), LAMBDA d : d.name = n)
                accounted == CountOf(w.items, LAMBDA it : it.source = <<n>>)
                             + CountOf(w.skipped, LAMBDA r : r.path \in At(n))
            IN declared <= accounted /\ (~ownClass => declared = accounted)
       /\ \A cd \in Range(in.surface.classes) : \A it \in Range(w.items) : it.source = <<cd.name>> =>
            \A d \in Range(Bridged(cd)) :
              \/ \E mem \in Range(it.members) : mem.name = d.name
              \/ \E r \in Range(w.skipped) : r.path = Qualify(in.pkg, <<cd.name, d.name>>)

(* A name the shim declares is bound, when the module has been executed,   *)
(* to the source item the declaration was made from.  Where two items get  *)
(* one name (an overload, or f_sync beside an async f) the last one wins.  *)
PyNames(s) == [i \in DOMAIN s.classes |-> {s.classes[i].name}] \o [i \in DOMAIN s.constants |-> {s.constants[i].name}]
  \o [i \in DOMAIN s.functions |->
        {s.functions[i].name} \cup
        IF s.functions[i].async THEN {Suffixed(s.functions[i].name, x) : x \in {"_sync", "_async"}} ELSE {}]
NoClash(s) == \A i, j \in DOMAIN PyNames(s) : i # j => PyNames(s)[i] \cap PyNames(s)[j] = {}
BoundTo(py, name) ==
  LET at == {i \in DOMAIN py.defs : py.defs[i].name = name}
  IN IF at = {} THEN <<>> ELSE py.defs[CHOOSE i \in at : \A j \in at : j <= i].source
ShimBindsWrapper ==
  Generated =>
    \A d \in Range(out[1].shim) :
      /\ d.name \in Range(out[1].pyi)
      /\ BoundTo(out[1].py, d.name) # <<>>
      /\ NoClash(in.surface) => BoundTo(out[1].py, d.name) = d.source

(* Every helper a definition uses is imported by the module or defined in  *)
(* it by the time a shim can run.                                          *)
HelpersImported ==
  Generated =>
    LET py == out[1].py
        global == py.imports \cup {py.defs[i].name[1] : i \in DOMAIN py.defs}
    IN \A i \in DOMAIN py.defs : py.defs[i].uses \subseteq global

(* A shim's positional call is one its source function accepts: not too    *)
(* many arguments, none required missing.  A function with keyword-only    *)
(* parameters is the exception: it is wrapped, and no call can reach it.   *)
Accepts(fn, n) ==
  /\ n <= Len(fn.params)
  /\ \A i \in DOMAIN fn.params : i > n => fn.params[i].default
CallsBind ==
  Generated /\ NoClash(in.surface) =>
    \A d \in Range(out[1].py.defs) : \A fn \in Range(in.surface.functions) :
      d.source = fn.name /\ (\A p \in Range(fn.params) : p.kind # "keyword") => Accepts(fn, d.args)

(* The annotation written for a type is one the type table maps back to    *)
(* that type; type arguments of a class are not written.                   *)
RECURSIVE HasGenericRef(_)
HasGenericRef(t) ==
  (t.kind = "ref" /\ t.params # <<>>) \/ \E i \in DOMAIN t.params : HasGenericRef(t.params[i])
AnnotationAgrees ==
  Returned("typemap") /\ out[1].ok /\ ~HasGenericRef(out[1].type) =>
    Map(in.mapper, RenderPyAnno(out[1].type)) = out[1]

\* Types are mapped into a closed table, stubs are read whatever their layout,
\* every item of a package is bound or reported, and a bound one can be called.
BindingsWork ==
  /\ TypeTable /\ StubsRead
  /\ EveryItemAccounted /\ ShimBindsWrapper /\ HelpersImported /\ CallsBind /\ AnnotationAgrees
=============================================================================
