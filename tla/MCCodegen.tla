----------------------------- MODULE MCCodegen -----------------------------
(* Everything between Mochi source and Python text that keeps no state of its *)
(* own: the binding generator, the checker's rules and the Python target.     *)
EXTENDS PyPackage, Flow, MCEffects, PyRun, MCDatalog, PyBuild

-----------------------------------------------------------------------------
(* Type texts, stubs, surfaces and packages for the binding generator.      *)
\* Type expressions: every constructor over small ones, and the odd forms.
Small == {<<"int">>, <<"None">>, <<"C">>, <<"T">>, <<"Any">>, <<"str", "|", "None">>, <<"complex">>}
Nested == Small \cup {Subscripted(<<"Optional">>, <<<<"str">>>>), Subscripted(<<"list">>, <<<<"int">>>>),
                      Subscripted(<<"Union">>, <<<<"int">>, <<"str">>>>), <<"(", "int", "|", "str", ")">>}
MCTypeTexts ==
  Nested
  \cup {Subscripted(<<b>>, <<a>>) : a \in Nested,
          b \in {"List", "Optional", "Awaitable", "AsyncIterator", "Final", "FrozenSet", "Annotated", "Literal", "Type", "Unpack", "C", "Tuple"}}
  \cup {Subscripted(b, <<a, c>>) : a \in Nested, c \in Small \cup {<<"...">>},
          b \in {<<"dict">>, <<"typing", ".", "Mapping">>, <<"tuple">>, <<"Union">>, <<"collections", ".", "abc", ".", "Callable">>}}
  \cup {Subscripted(<<"Callable">>, <<Subscripted(<<>>, ps), r>>) : ps \in {<<>>, <<<<"int">>>>, <<<<"T">>, <<"complex">>>>}, r \in Nested}
  \cup {a \o <<"|">> \o c : a, c \in Nested}
  \cup {<<>>, <<"pkg", ".", "C">>, <<"pkg", ".", "D">>, <<"typing", ".", "Any">>, <<"builtins", ".", "int">>, <<"'C'">>, <<"D">>,
        <<"Self">>, <<"Dict">>, <<"int", "int">>, <<"[">>, <<"list", "[">>, <<"int", "|">>, <<".", "int">>,
        <<"a", ".", "b", ".", "C">>, <<"collections", ".", "abc", ".", "x", ".", "C">>,
        Subscripted(<<"Literal">>, <<<<"'C'">>, <<"'C'">>>>), Subscripted(<<"Literal">>, <<<<"'C'">>, <<"1">>>>),
        Subscripted(<<"Literal">>, <<<<"True">>, <<"False">>>>), Subscripted(<<"Callable">>, <<<<"...">>, <<"int">>>>),
        Subscripted(<<"Coroutine">>, <<<<"Any">>, <<"Any">>, <<"int">>>>),
        Subscripted(<<"list">>, <<>>), Subscripted(<<"(", "int", ")">>, <<<<"int">>>>)}
MCMappers == {[typeVars |-> {"T"}, classes |-> {"C"}, partial |-> p] : p \in BOOLEAN}
             \cup {[typeVars |-> {}, classes |-> {"complex", "Any"}, partial |-> FALSE]}

L(indent, toks) == [indent |-> indent, toks |-> toks]
MCLines ==
  {L(0, <<"@", "dataclass", "(", "frozen", "=", "True", ")">>), L(0, <<"class", "C", "(", "Protocol", "[", "T", "]", ")", ":">>),
   L(4, <<"def", "m", "(", "self", ",", "x", ":", "int", ")", "->", "str", ":", "...">>), L(4, <<"class", "D", ":">>),
   L(0, <<"def", "f", "(", "a", ":", "int", ",", "/", ",", "b", "=", "{", "1", ":", "1", "}", ",", "*", "xs", ",", "k", ":", "str", "=", "'C'", ")", "->", "int", ":", "...">>),
   L(4, <<"x", ":", "dict", "[", "str", ",", "int", "]", "=", "1">>), L(0, <<"K", ":", "int", "=", "1", "#", "(">>),
   L(0, <<"if", "C", ":">>), L(0, <<"async", "def", "g", "(", "a", ",", "*", ",", "k", ",", "**", "kw", ")", ":">>),
   L(0, <<"else", ":">>), L(4, <<"...">>), L(0, <<"def", "h", "(", "a", ":", "list", "[">>), L(0, <<"int", "]", ")", ":">>),
   L(0, <<"A", "=", "\\">>), L(0, <<"def", "broken">>), L(0, <<"class", "E">>), L(0, <<"from", "typing", "import", "Any">>)}
MCStubTexts == UNION {[1..n -> MCLines] : n \in 0..3}
MCSites == [marker : {"absent", "full", "partial"}, sibling : BOOLEAN, typeshed : SUBSET Range(TypeshedPlaces),
            stubgen : {"none", "works", "fails"}, allowStubgen : BOOLEAN]
MCStubTrees == SUBSET [stem : {"m", "n"}, ext : {".pyi", ".py", ".so"}]

Param(name, type, kind) == [name |-> name, type |-> type, kind |-> kind, default |-> FALSE]
Fn(name, params, ret, async) == [name |-> name, params |-> params, ret |-> ret, async |-> async]
IntText == <<"int">>
MCFunctions ==
  {Fn(<<"f">>, <<Param("a", IntText, "positional")>>, IntText, TRUE), Fn(<<"f">>, <<>>, <<>>, FALSE),
   Fn(<<"f", "_sync">>, <<>>, IntText, FALSE), Fn(<<"g">>, <<Param("a", <<>>, "positional")>>, IntText, FALSE),
   Fn(<<"g">>, <<Param("a", IntText, "positional-only"), Param("k", IntText, "keyword")>>, IntText, FALSE),
   Fn(<<"g">>, <<Param("a", IntText, "positional"), [Param("b", <<>>, "positional") EXCEPT !.default = TRUE]>>, IntText, FALSE),
   Fn(<<"g">>, <<Param("a", IntText, "varargs")>>, IntText, FALSE), Fn(<<"_", "p">>, <<>>, IntText, FALSE),
   Fn(<<"__", "d">>, <<Param("self", IntText, "positional")>>, <<"Any">>, TRUE)}
Cls(name, p, t, d, fz, methods, fields) ==
  [name |-> name, protocol |-> p, typedDict |-> t, dataclass |-> d, frozen |-> fz, methods |-> methods, fields |-> fields]
Meth(n) == Fn(n, <<Param("self", <<>>, "positional"), Param("x", IntText, "positional")>>, IntText, FALSE)
Field(n, t) == [name |-> n, type |-> t]
MCClasses ==
  {Cls(<<"c">>, TRUE, FALSE, FALSE, FALSE, <<Meth(<<"m">>), Meth(<<"__", "d">>)>>, <<Field(<<"x">>, IntText)>>),
   Cls(<<"c">>, FALSE, TRUE, FALSE, FALSE, <<>>, <<Field(<<"x">>, IntText), Field(<<"y">>, <<"c">>)>>),
   Cls(<<"f">>, FALSE, FALSE, TRUE, TRUE, <<Meth(<<"m">>)>>, <<>>),
   Cls(<<"c">>, FALSE, FALSE, TRUE, FALSE, <<>>, <<>>), Cls(<<"_", "p">>, TRUE, FALSE, FALSE, FALSE, <<>>, <<>>),
   Cls(<<"pkg">>, FALSE, TRUE, FALSE, FALSE, <<>>, <<Field(<<"x">>, IntText), Field(<<"f">>, <<"c">>)>>),
   Cls(<<"pkg">>, FALSE, FALSE, TRUE, FALSE, <<>>, <<>>)}
MCConstants == {Field(<<"k">>, IntText), Field(<<"k">>, <<>>), Field(<<"_", "p">>, IntText), Field(<<"f", "_async">>, <<"list">>)}
Lists(S, n) == UNION {[1..k -> S] : k \in 0..n}
MCSurfaces == [pkg : {<<"pkg">>, <<"my", "-", "pkg">>}, loop : {"per-call", "persistent"}, partial : BOOLEAN,
  surface : [classes : Lists(MCClasses, 1), functions : Lists(MCFunctions, 2), constants : Lists(MCConstants, 1), aliases : {<<>>}]]
MCNameOrder == <<".", "_", "__", "_async", "_sync", "c", "d", "f", "g", "k", "m", "p", "pkg", "x", "y">>

Of(kind, params) == Mochi(kind, "", params)
MCTypes == {Scalar("int"), Scalar("Any"), Ref("Any"), Of("list", <<Of("optional", <<Scalar("int")>>)>>),
            Of("map", <<Scalar("string"), Of("sum", <<Scalar("int"), Scalar("None")>>)>>), Mochi("record", "", <<Scalar("int")>>),
            NewFun(Of("stream", <<Scalar("int")>>), <<Of("async", <<Scalar("bytes")>>)>>)}
Export(n, k, t) == [name |-> n, kind |-> k, type |-> t]
MCExports ==
  {Export(<<"a">>, "const", t) : t \in MCTypes} \cup {Export(<<"a">>, "fun", NewFun(t, <<Scalar("float")>>)) : t \in MCTypes}
  \cup {Export(<<"b">>, "record", Mochi("record", "b", <<t, Scalar("int")>>)) : t \in MCTypes}
  \cup {Export(<<"b">>, "interface", Mochi("interface", "b", <<NewFun(t, <<>>)>>)) : t \in MCTypes}
  \cup {Export(<<"1">>, "const", Scalar("int"))}
MCPackages == [distribution : {<<"a">>, <<"a", "-", "b">>, <<"1", "a">>, <<"-">>, <<>>, <<"A">>}, version : {"1.0", ""}, summary : {"s"},
               license : {"MIT"}, module : {<<>>, <<"mochi_build">>}, exports : Lists(MCExports, 1) \cup [1..2 -> {e \in MCExports : e.kind = "const"}]]

-----------------------------------------------------------------------------
(* Programs for the Python target.                                          *)
IntT == IrType("int", "", <<>>)
ListT == IrType("list", "", <<IntT>>)
LitE(n) == IrExpr("Lit", n, <<>>, <<>>)
VarE(n) == IrExpr("VarRef", n, <<>>, <<>>)
OpE(op, l, r) == IrExpr("Binary", op, <<>>, <<l, r>>)
NodeE(k, a) == IrExpr(k, "", <<>>, a)
LetS(n, e) == IrStmt("Let", n, IntT, <<>>, <<e>>, <<>>)
AssignS(n, e) == IrStmt("Assign", n, <<>>, <<>>, <<e>>, <<>>)
CallS(n, a) == IrStmt("Call", n, <<>>, <<>>, a, <<>>)
BlockS(k, n, a, b) == IrStmt(k, n, <<>>, <<>>, a, b)
PrintS(e) == CallS("mochi_print", <<e>>)
MCFn(n, params, ret, body) == [n |-> n, params |-> params, ret |-> ret, body |-> body, captures |-> <<>>]
MCProgram(funs, main) == [name |-> "m", records |-> <<>>, unions |-> <<>>, agents |-> <<>>, funs |-> funs, externs |-> <<>>, foreign |-> FALSE, main |-> main]

MCValueOf == ("0" :> 0) @@ ("1" :> 1) @@ ("2" :> 2) @@ ("7" :> 7)

\* Typed expressions, one level over i, b and l.
IntsOver(i, b, l) ==
  {OpE(o, x, y) : o \in {"SubI64", "MulI64"}, x, y \in i}
  \cup {IrExpr("Unary", "NegI64", <<>>, <<x>>) : x \in i}
  \cup {NodeE(k, <<x>>) : k \in {"Len", "ListSumI64"}, x \in l} \cup {NodeE("Index", <<x, y>>) : x \in l, y \in i}
BoolsOver(i, b, l) ==
  {OpE(o, x, y) : o \in {"LtI64"}, x, y \in i} \cup {OpE(o, x, y) : o \in {"AndBool", "OrBool"}, x, y \in b}
  \cup {IrExpr("Unary", "NotBool", <<>>, <<x>>) : x \in b} \cup {NodeE("SetHas", <<NodeE("SetLiteral", <<x>>), y>>) : x, y \in i}
ListsOver(i, b, l) ==
  {NodeE("ListLit", <<x, y>>) : x, y \in i} \cup {NodeE("Append", <<x, y>>) : x \in l, y \in i}
  \cup {NodeE("ListSlice", <<x, y, y>>) : x \in l, y \in i} \cup {NodeE("ListSortAsc", <<x>>) : x \in l}
  \cup {NodeE("ListFilter", <<x, IrExpr("FunLit", "mochi__f", <<>>, <<>>)>>) : x \in l}
  \cup {NodeE("SetToList", <<NodeE("SetAdd", <<NodeE("SetLiteral", <<>>), x>>)>>) : x \in i}
  \cup {NodeE("MapKeys", <<NodeE("MapLit", <<x, y>>)>>) : x, y \in i}
MCI0 == {VarE("x")}
MCB0 == {VarE("p")}
MCL0 == {VarE("xs")}
MCI1 == MCI0 \cup IntsOver(MCI0, MCB0, MCL0)
MCB1 == MCB0 \cup BoolsOver(MCI0, MCB0, MCL0)
MCL1 == MCL0 \cup ListsOver(MCI0, MCB0, MCL0)
MCExprs == IntsOver(MCI1, MCB1, MCL1) \cup BoolsOver(MCI1, MCB1, MCL1) \cup ListsOver(MCI1, MCB1, MCL1)
MCFilterFn == MCFn("mochi__f", <<[n |-> "q", t |-> IntT]>>, IrType("bool", "", <<>>), <<BlockS("Return", "", <<OpE("LtI64", VarE("q"), LitE("1"))>>, <<>>)>>)
MCExprPrograms ==
  {MCProgram(<<MCFilterFn>>, <<LetS("x", LitE("1")), LetS("p", OpE("LtI64", VarE("x"), LitE("2"))), LetS("xs", NodeE("ListLit", <<VarE("x")>>)), PrintS(e)>>) : e \in MCExprs}

\* Statements: what a body may hold, and the blocks around it.
MCFault == {OpE("DivI64", VarE("x"), LitE("0")), NodeE("Index", <<NodeE("ListLit", <<VarE("x")>>), VarE("x")>>)}
MCSimple(names) ==
  {PrintS(VarE("x")), AssignS("x", OpE("AddI64", VarE("x"), LitE("1"))), AssignS("x", NodeE("Len", <<NodeE("ListLit", <<VarE("x"), VarE("x")>>)>>)),
   BlockS("Return", "", <<>>, <<>>), BlockS("Panic", "", <<LitE("7"), LitE("0")>>, <<>>),
   AssignS("x", IrExpr("Call", "mochi__f", <<>>, <<VarE("x")>>))}
  \cup {PrintS(e) : e \in MCFault} \cup {LetS(n, NodeE("Append", <<NodeE("ListLit", <<LitE("2")>>), VarE("x")>>)) : n \in names}
MCLoopEnds == {BlockS("Break", "", <<>>, <<>>), BlockS("Continue", "", <<>>, <<>>)}
MCBodies1(S) == {<<>>} \cup {<<s>> : s \in S}
Less(n) == OpE("LtI64", VarE("x"), LitE(n))
MCIfs(B, C) == {IrStmt("If", "", <<>>, <<>>, <<Less("2")>>, <<b>>) : b \in B} \cup {IrStmt("If", "", <<>>, <<>>, <<Less("1")>>, <<b, c>>) : b \in B, c \in C}
MCLoops(B, i) == {BlockS("While", "", <<Less("2")>>, <<b \o <<AssignS("x", OpE("AddI64", VarE("x"), LitE("1")))>>>>) : b \in B}
  \cup {BlockS("ForRange", i, <<LitE("0"), LitE("2")>>, <<b>>) : b \in B}
  \cup {BlockS("ForEach", i, <<NodeE("SetToList", <<NodeE("SetLiteral", <<LitE("2"), VarE("x")>>)>>)>>, <<b>>) : b \in B}
MCCase(v, f, n, g) == [wildcard |-> FALSE, variant |-> v, binds |-> <<[field |-> f, name |-> n]>>, guard |-> g]
MCElse == [wildcard |-> TRUE, variant |-> "", binds |-> <<>>, guard |-> <<>>]
MCMatches(B, n) == {IrStmt("Match", "", <<>>, <<MCCase("A", "v", n, g), MCElse>>, <<IrExpr("VariantLit", k, <<"v">>, <<VarE("x")>>)>>, <<b, <<PrintS(LitE("7"))>>>>) :
  b \in B, k \in {"A", "B"}, g \in {<<>>, <<OpE("LtI64", VarE(n), LitE("1"))>>}}
MCTries(B, n) == {BlockS("TryCatch", n, <<>>, <<b, <<PrintS(VarE(n))>>>>) : b \in B}
MCScopes(B) == {BlockS("QueryScope", "", <<>>, <<b>>) : b \in B}
MCF(body) == MCFn("mochi__f", <<[n |-> "a", t |-> IntT]>>, IntT, body)
MCFuns == {MCF(<<PrintS(VarE("a")), BlockS("Return", "", <<OpE("AddI64", VarE("a"), LitE("1"))>>, <<>>)>>), MCF(<<PrintS(VarE("a")), BlockS("Panic", "", <<LitE("2"), LitE("0")>>, <<>>)>>)}
MCUnion == [n |-> "U", variants |-> <<[n |-> "A", fields |-> <<[n |-> "v", t |-> IntT]>>], [n |-> "B", fields |-> <<[n |-> "v", t |-> IntT]>>]>>]
MCRuns(main) == {[MCProgram(<<fn>>, <<LetS("x", LitE("1"))>> \o main \o <<PrintS(VarE("x"))>>) EXCEPT !.unions = <<MCUnion>>] : fn \in MCFuns}

MCNested ==
  LET simple == MCSimple({"y", "f"})
      two == MCBodies1(simple) \cup {<<AssignS("x", OpE("AddI64", VarE("x"), LitE("1"))), t>> : t \in simple} \cup {<<LetS("y", VarE("x")), t>> : t \in simple}
      ends == MCBodies1(simple \cup MCLoopEnds)
      ifs == MCIfs(ends, MCBodies1(MCLoopEnds))
  IN MCIfs(two, MCBodies1(simple)) \cup MCLoops(two, "i") \cup MCMatches(two, "z") \cup MCTries(two, "e") \cup MCScopes(two)
     \cup MCLoops({<<s>> : s \in ifs}, "i") \cup MCTries({<<s>> : s \in {s \in MCLoops({<<t>> : t \in MCIfs(ends, {<<>>})}, "i") : s.k # "While"}}, "e")
MCRunPrograms == UNION {MCRuns(<<s>>) : s \in MCNested}
  \cup UNION {MCRuns(<<LetS(n, LitE("2")), s>>) : n \in {"y", "sorted", "len"}, s \in MCLoops(MCBodies1(MCSimple({"z"})), "i")}

\* Declarations, and everything that pulls in an import.
MCAgent(m) == [n |-> "Ag", fields |-> <<[n |-> "c", t |-> IntT]>>,
  intents |-> <<[n |-> m, params |-> <<>>, ret |-> IntT, body |-> <<IrStmt("SelfAssign", "c", <<>>, <<>>, <<OpE("AddI64", IrExpr("SelfRef", "c", <<>>, <<>>), LitE("1"))>>, <<>>),
    BlockS("Return", "", <<IrExpr("SelfRef", "c", <<>>, <<>>)>>, <<>>)>>]>>]
ConduitT(k) == IrType(k, "", <<IntT>>)
MCUses ==
  {<<>>, <<LetS("ag", IrExpr("AgentLit", "Ag", <<"c">>, <<LitE("1")>>)), IrStmt("AgentIntentCall", "step", <<>>, <<>>, <<VarE("ag")>>, <<>>)>>,
   <<IrStmt("Let", "ch", ConduitT("chan"), <<>>, <<NodeE("ChanMake", <<LitE("2")>>)>>, <<>>), BlockS("ChanSend", "", <<VarE("ch"), LitE("1")>>, <<>>), PrintS(NodeE("ChanRecv", <<VarE("ch")>>))>>,
   <<IrStmt("Let", "st", ConduitT("stream"), <<>>, <<NodeE("StreamMake", <<LitE("2")>>)>>, <<>>), IrStmt("Let", "sb", ConduitT("sub"), <<>>, <<NodeE("SubMake", <<VarE("st")>>)>>, <<>>),
     BlockS("StreamEmit", "", <<VarE("st"), LitE("1")>>, <<>>), PrintS(NodeE("SubRecv", <<VarE("sb")>>))>>,
   <<PrintS(NodeE("LLMGenerate", <<LitE("1")>>))>>, <<BlockS("WriteFile", "", <<LitE("1"), LitE("2")>>, <<>>)>>, <<PrintS(NodeE("HttpGet", <<LitE("1")>>))>>,
   <<PrintS(OpE("DivF64", LitE("1"), LitE("2")))>>, <<PrintS(NodeE("StrConvert", <<LitE("1")>>))>>, <<PrintS(NodeE("ListSumF64", <<NodeE("ListLit", <<LitE("1")>>)>>))>>,
   <<PrintS(NodeE("StrUpper", <<LitE("1")>>)), PrintS(NodeE("NumCast", <<LitE("1")>>))>>,
   <<IrStmt("Let", "mp", IrType("map", "", <<IntT, IntT>>), <<>>, <<NodeE("MapLit", <<>>)>>, <<>>), IrStmt("MapPut", "mp", <<>>, <<>>, <<LitE("1"), LitE("2")>>, <<>>), PrintS(NodeE("MapGet", <<VarE("mp"), LitE("1")>>))>>,
   <<LetS("r", IrExpr("RecordLit", "Rec", <<"k", "s">>, <<LitE("1"), LitE("2")>>)), PrintS(IrExpr("FieldAccess", "k", <<>>, <<VarE("r")>>))>>,
   <<PrintS(IrExpr("Call", "ext", <<>>, <<LitE("1")>>)), BlockS("RawC", "", <<>>, <<>>)>>, <<CallS("mochi_other", <<>>)>>, <<CallS("ext", <<LitE("1")>>)>>, <<CallS("mochi__g", <<LitE("1")>>)>>,
   <<IrStmt("Let", "res", IntT, <<>>, <<>>, <<>>), IrStmt("Match", "", <<>>, <<MCElse>>, <<LitE("1")>>, <<<<AssignS("res", LitE("1"))>>>>)>>,
   <<PrintS(IrExpr("AgentIntentCall", "step", <<"spawned">>, <<VarE("ag")>>))>>}
MCHigher(capt) == [MCFn("mochi__g", <<[n |-> "h", t |-> IrType("fun", "", <<IntT, IrType("unit", "", <<>>)>>)]>>, IrType("unit", "", <<>>),
  <<IrStmt("Return", "", <<>>, <<>>, <<NodeE("FunCall", <<VarE("h"), LitE("1")>>)>>, <<>>)>>) EXCEPT !.captures = capt]
MCDeclPrograms ==
  {[MCProgram(fs, m \o n) EXCEPT !.agents = ags, !.records = rs, !.externs = <<"ext">>, !.foreign = fo] :
     m \in MCUses, n \in {<<>>, <<LetS("z", LitE("1"))>>}, fs \in {<<>>, <<MCHigher(<<>>)>>, <<MCHigher(<<"v">>)>>}, ags \in {<<MCAgent("step")>>, <<MCAgent("main")>>},
     rs \in {<<[n |-> "Rec", fields |-> <<[n |-> "k", t |-> IntT], [n |-> "s", t |-> IrType("string", "", <<>>)]>>]>>}, fo \in BOOLEAN}
MCMochiNames == {"mochi_print", "mochi_other", "mochi__f", "mochi__g"}
MCPrograms == MCExprPrograms \cup MCRunPrograms \cup MCDeclPrograms

-----------------------------------------------------------------------------
(* Types, calls, chains and conditions for the checker.                     *)
TInt == Plain("int")
TStr == Plain("string")
TV == TyVar("T")
UV == TyVar("U")
Over(leaves) ==
  {Made(k, <<a>>) : k \in {"list", "chan", "option"}, a \in leaves}
  \cup {Made("map", <<a, b>>) : a, b \in leaves}
  \cup {FunTy(<<a>>, b) : a, b \in leaves} \cup {VariadicTy(<<>>, a, b) : a, b \in leaves}
MCUnifyTypes == LET leaves == {TInt, TV, UV, AnyTy} IN
  leaves \cup {TStr, Plain("value")} \cup Over(leaves)
  \cup {Made("list", <<Made("list", <<TV>>)>>), Made("list", <<Made("chan", <<TV>>)>>), Made("map", <<Made("list", <<TV>>), UV>>),
        Made("map", <<UV, Made("list", <<UV>>)>>),
        Ty("struct", "S", <<"x">>, <<TV>>), Ty("struct", "S", <<"x">>, <<TInt>>), Ty("struct", "", <<"y">>, <<TInt>>),
        Ty("union", "W", <<"S">>, <<Ty("struct", "S", <<"x">>, <<TInt>>)>>)}
MCUnifyInputs == MCUnifyTypes \X MCUnifyTypes
MCImages == {TInt, TStr, Made("list", <<TInt>>), Made("list", <<Made("list", <<TInt>>)>>), Made("chan", <<TInt>>)}
MCSigs == {FunTy(<<a, b>>, c) : a \in {TV, Made("list", <<TV>>)}, b \in {TV, UV, TInt, Made("map", <<TV, UV>>), Made("chan", <<TV>>)}, c \in {TV, Made("map", <<UV, TV>>)}}
MCArgs == {TInt, Plain("bigint"), TStr, TV, AnyTy, Made("list", <<TInt>>), Made("list", <<TV>>), Made("chan", <<TInt>>),
   Made("map", <<TInt, TStr>>), Made("set", <<TInt>>)}
MCCallInputs == [sig : MCSigs, params : {<<"T", "U">>}, args : {<<a, b>> : a, b \in MCArgs} \cup {<<TInt>>, <<Hole>>}
                   \cup UNION {{<<a, Hole>>, <<Hole, a>>} : a \in MCArgs}, live : BOOLEAN]
RecS == Ty("struct", "S", <<"x">>, <<TInt>>)
MCRuleTypes == {Plain(k) : k \in Numeric} \cup {AnyTy, Plain("value"), TV, RecS, Ty("union", "W", <<"S">>, <<RecS>>),
  Ty("struct", "", <<"y">>, <<TInt>>), Made("set", <<TInt>>), Made("list", <<TInt>>), Made("list", <<AnyTy>>), Made("option", <<TInt>>), Made("option", <<Plain("int64")>>),
  Made("map", <<TStr, TInt>>), Made("map", <<TStr, AnyTy>>), Made("future", <<TInt>>), Made("chan", <<TInt>>), Made("list", <<Made("future", <<TInt>>)>>),
  FunTy(<<TInt>>, TInt), FunTy(<<AnyTy>>, TInt), FunTy(<<TInt>>, AnyTy), VariadicTy(<<>>, TInt, TInt), FunTy(<<FunTy(<<TInt>>, TInt)>>, TInt)}
MCOps == {"*", "+", "<", "==", "in", "&&", "||", "??", "union"}
MCOperands == {TInt, Plain("bigint"), Plain("float"), TStr, Plain("bool"), AnyTy, Made("list", <<TInt>>), Made("list", <<AnyTy>>), Made("option", <<TInt>>), Made("set", <<TInt>>)}
MCChains == [operands : {<<a, b, c>> : a, b, c \in MCOperands}, ops : {<<p, q>> : p, q \in MCOps}]
MCComparisons == {[operands |-> <<a, b>>, ops |-> <<o>>] : a \in {"x", "y", "none"}, b \in {"x", "none"}, o \in Equality} \cup {[operands |-> <<"b">>, ops |-> <<>>]}
Chained(p, o, q) == [operands |-> p.operands \o q.operands, ops |-> p.ops \o <<o>> \o q.ops]
MCConds == LET two == {Chained(p, o, q) : p, q \in MCComparisons, o \in {"&&", "||"}}
           IN MCComparisons \cup two
              \cup {Chained(p, o, [operands |-> <<"none", "y">>, ops |-> <<e>>]) : p \in two, o \in {"&&", "||"}, e \in Equality}
MCStmts == {[stmt |-> "assign", name |-> "x", value |-> v] : v \in {"none", "some", "opt"}}
  \cup {[stmt |-> "call", name |-> "x", leftmost |-> l, effects |-> e, mutates |-> m] : l \in BOOLEAN, e \in {{}, {"io"}}, m \in {{}, {"x"}}}
MCBodies == {<<>>} \cup {<<s>> : s \in MCStmts} \cup {<<s, t>> : s, t \in MCStmts}
MCValues == [{"x", "y", "b"} -> {"none", "some"}]
MCBranches == [cond : MCConds, value : MCValues, mutable : {{"x"}}, body : {<<>>}]
  \cup [cond : MCComparisons \cup {[operands |-> <<"x", "none", "none", "y">>, ops |-> <<"==", "||", "==">>]}, value : MCValues, mutable : {{}, {"x"}}, body : MCBodies]
-----------------------------------------------------------------------------
(* Jobs and schedules for the build driver.                                 *)
MCPy(minor) == [major |-> 3, minor |-> minor]
MCJob(src, mod, pre, side, py, target, cached, o) ==
  [src |-> src, module |-> mod, prefix |-> pre, sidecar |-> side, python |-> py, target |-> target, cached |-> cached, out |-> o]
MCC1(o) == MCJob("c1", "m", DefaultPrefix, NoSidecar, MCPy(12), "source", TRUE, o)
MCExt(o) == MCJob("ext", "m", DefaultPrefix, "s1", MCPy(12), "source", TRUE, o)
\* As one of the two, apart from it in one way.
MCNear(job) ==
  {job, [job EXCEPT !.src = "bad"], [job EXCEPT !.module = "n"], [job EXCEPT !.prefix = "x_"], [job EXCEPT !.sidecar = "s2"],
   [job EXCEPT !.sidecar = NoSidecar], [job EXCEPT !.python = MCPy(11)], [job EXCEPT !.python = MCPy(13)], [job EXCEPT !.cached = FALSE]}
MCOtherJobs ==
  {MCJob(s, "m", pre, d, MCPy(12), t, TRUE, "o1") : s \in {"c1", "ext", "bad"}, pre \in {DefaultPrefix, "x_"}, d \in {NoSidecar, "s1"},
     t \in {"wheel", "sdist", "ipykernel", "publish", "app"}}
\* Two builds, and each bundle.
MCJobLists ==
  {<<MCC1("o1"), j>> : j \in MCNear(MCC1("o2")) \cup {MCExt("o2")}} \cup {<<MCExt("o1"), j>> : j \in MCNear(MCExt("o2"))}
  \cup {<<j>> : j \in MCOtherJobs}
MCWalkOrder ==
  <<"__init__", "__main__", "generated", "m", "mochi_user_m", "mochi_user_m_externs", "mochi_user_n", "mochi_user_n_externs",
    "n", "py.typed", "pyproject.toml", "src", "x_m", "x_m_externs">>
MCWalkRank == [n \in {MCWalkOrder[k] : k \in DOMAIN MCWalkOrder} |-> CHOOSE k \in DOMAIN MCWalkOrder : MCWalkOrder[k] = n]
-----------------------------------------------------------------------------

NoBuild == cache = EmptyTree /\ outs = EmptyTree /\ proc = EmptyTree
NoSweep == known = EmptyTree /\ cursor = 0 /\ changed = FALSE
Init ==
  \/ /\ \/ TypeMapInit \/ StubsInit \/ WrapperInit \/ PyPackageInit
        \/ MochiTypesInit \/ TypeRulesInit \/ FlowInit
        \/ PyRunInit \/ DatalogInit
     /\ NoBuild /\ NoSweep
  \/ PyBuildInit /\ NoSweep
  \/ EffectsInit /\ NoBuild
Next ==
  \/ /\ \/ TypeMapNext \/ StubsNext \/ WrapperNext \/ PyPackageNext
        \/ MochiTypesNext \/ TypeRulesNext \/ FlowNext
        \/ PyRunNext \/ DatalogNext
     /\ UNCHANGED <<pyBuildVars, effectsVars>>
  \/ PyBuildNext /\ UNCHANGED effectsVars
  \/ EffectsNext /\ UNCHANGED pyBuildVars
vars == <<evalVars, pyBuildVars, effectsVars>>
Spec == Init /\ [][Next]_vars /\ WF_vars(EffectsNext /\ UNCHANGED pyBuildVars)
=============================================================================
