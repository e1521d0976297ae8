------------------------------- MODULE PyLower -------------------------------
(***************************************************************************)
(* Lowering of a verified Mochi program to a Python module                 *)
(* (transpiler3/python/lower).  The intermediate form has the shape of the *)
(* Python tree: an expression is [k, n, f, a], a statement [k, n, t, f, a, *)
(* b]; a type is a kind, a name and its components.                        *)
(***************************************************************************)
EXTENDS PySrc

CONSTANT MochiNames \* those names in the programs that begin with mochi_

IrExpr(k, n, f, a) == [k |-> k, n |-> n, f |-> f, a |-> a]
IrType(k, n, a) == [k |-> k, n |-> n, a |-> a]
IrStmt(k, n, t, f, a, b) == [k |-> k, n |-> n, t |-> t, f |-> f, a |-> a, b |-> b]

\* What the lowerer refuses; the whole module is then refused.
NotLowered == PyExpr("unsupported", "", <<>>, <<>>)

-----------------------------------------------------------------------------
(* Annotations: a sequence of tokens, empty when there is none.            *)

PyTypeFor(t) == CASE t.k = "string" -> <<"str">> [] t.k \in {"int", "float", "bool"} -> <<t.k>> [] OTHER -> <<>>

Subscript(head, parts) ==
  IF \E i \in DOMAIN parts : parts[i] = <<>> THEN <<>> ELSE <<head, "[">> \o Separated(parts, ",") \o <<"]">>

\* pyTypeForUnion as it is called: the name of a list's union is never passed.
PyTypeForUnion(t) ==
  CASE t.k \in {"record", "union"} -> <<t.n>>
    [] t.k = "list" -> Subscript("list", <<IF t.a[1].k = "record" THEN <<t.a[1].n>> ELSE PyTypeFor(t.a[1])>>)
    [] t.k = "map" -> Subscript("dict", <<PyTypeFor(t.a[1]), PyTypeFor(t.a[2])>>)
    [] t.k = "set" -> Subscript("set", <<PyTypeFor(t.a[1])>>)
    [] OTHER -> PyTypeFor(t)

\* pyTypeForFun: the parameters, then the result.
PyTypeForFun(t) ==
  LET part(i) == IF i = Len(t.a) /\ t.a[i].k = "unit" THEN <<"None">> ELSE PyTypeFor(t.a[i])
      params == Separated([i \in 1..(Len(t.a) - 1) |-> part(i)], ",")
  IN IF \E i \in DOMAIN t.a : part(i) = <<>> THEN <<>>
     ELSE <<"Callable", "[", "[">> \o params \o <<"]", ",">> \o part(Len(t.a)) \o <<"]">>

SignatureType(t) == CASE t.k = "fun" -> PyTypeForFun(t) [] t.k = "unit" -> <<"None">> [] OTHER -> PyTypeForUnion(t)

Conduits == [chan |-> "deque", stream |-> "MochiStream", sub |-> "MochiSub"]
LetType(t) ==
  CASE t.k = "agent" -> <<t.n>>
    [] t.k \in DOMAIN Conduits -> Subscript(Conduits[t.k], <<PyTypeFor(t.a[1])>>)
    [] OTHER -> PyTypeForUnion(t)

-----------------------------------------------------------------------------
(* Expressions.                                                            *)

BinOpToPython ==
  [AddI64 |-> "+", StrCat |-> "+", SubI64 |-> "-", MulI64 |-> "*", DivI64 |-> "//", ModI64 |-> "%",
   EqI64 |-> "==", NeI64 |-> "!=", LtI64 |-> "<", LeI64 |-> "<=", GtI64 |-> ">", GeI64 |-> ">=", AndBool |-> "and", OrBool |-> "or"]
UnOpToPython == [NegI64 |-> "-", NotBool |-> "not"]

StreamHelpers == [StreamMake |-> "mochi_make_stream", SubMake |-> "mochi_subscribe", SubRecv |-> "mochi_recv_sub"]
LLMHelpers == [LLMGenerate |-> "mochi_llm_generate"]
FetchHelpers == [HttpGet |-> "mochi_fetch"]
\* Nodes that become a call of a function: some of the runtime's, some of
\* Python's own.
HelperOf ==
  [StrLen |-> "len", Len |-> "len", MapLen |-> "len", SetLen |-> "len", NumCast |-> "int", SetToList |-> "sorted",
   StrConvert |-> "str_from", ListSumI64 |-> "sum_i64", ListSumF64 |-> "sum_f64", ListSortAsc |-> "sort_asc",
   MapKeys |-> "keys_sorted", MapValues |-> "values_sorted"] @@ StreamHelpers @@ LLMHelpers @@ FetchHelpers
MethodOf == [StrUpper |-> "upper", StrLower |-> "lower"]

LowerBinary(op, l, r) ==
  CASE op = "DivF64" -> PyCall(NameExpr("fdiv"), <<l, r>>)
    [] op \in DOMAIN BinOpToPython -> BinaryExpr(l, BinOpToPython[op], r)
    [] OTHER -> NotLowered

\* The list cases of lowerExpr.
LowerListExpr(e, a) ==
  CASE e.k = "ListLit" -> PyExpr("list", "", <<>>, a)
    [] e.k = "Append" -> BinaryExpr(a[1], "+", PyExpr("list", "", <<>>, <<a[2]>>))
    [] e.k = "ListSlice" -> PyExpr("slice", "", <<>>, a)
    [] OTHER -> PyCall(NameExpr("list"), <<PyCall(NameExpr(IF e.k = "ListFilter" THEN "filter" ELSE "map"), <<a[2], a[1]>>)>>)

\* The map and set cases.
LowerMapSetExpr(e, a) ==
  CASE e.k = "MapLit" -> PyExpr("dict", "", <<>>, a)
    [] e.k \in {"MapHas", "SetHas", "StrContains"} -> BinaryExpr(a[2], "in", a[1])
    [] e.k = "SetAdd" -> BinaryExpr(a[1], "|", PyExpr("set", "", <<>>, <<a[2]>>))
    [] OTHER -> IF a = <<>> THEN PyCall(NameExpr("set"), <<>>) ELSE PyExpr("set", "", <<>>, a)

\* A call of an intent, of an agent that was not spawned.
LowerIntentCall(e, a) == IF e.f = <<"spawned">> THEN NotLowered ELSE PyCall(Attribute(a[1], e.n), Tail(a))
\* Agents and channels.
LowerAgentExpr(e, a) ==
  CASE e.k = "AgentLit" -> KeywordCall(NameExpr(e.n), e.f, a)
    [] e.k = "ChanMake" -> KeywordCall(NameExpr("deque"), <<"maxlen">>, a)
    [] e.k = "ChanRecv" -> PyCall(Attribute(a[1], "popleft"), <<>>)
    [] e.k = "AgentIntentCall" -> LowerIntentCall(e, a)
\* Records, variants and functions.
LowerObjectExpr(e, a) ==
  CASE e.k \in {"RecordLit", "VariantLit"} -> KeywordCall(NameExpr(e.n), e.f, a)
    [] e.k \in {"FieldAccess", "VariantFieldAccess"} -> Attribute(a[1], e.n)
    [] e.k = "FunLit" -> IF e.f # <<>> THEN NotLowered ELSE NameExpr(e.n)

\* A node over its lowered operands.
LowerNode(e, a) ==
  CASE e.k = "Lit" -> PyExpr("literal", e.n, <<>>, <<>>)
    [] e.k \in {"VarRef", "UnionVarRef"} -> NameExpr(e.n)
    [] e.k = "SelfRef" -> Attribute(NameExpr("self"), e.n) \* a name that starts with __self->
    [] e.k = "Binary" -> LowerBinary(e.n, a[1], a[2])
    [] e.k = "Unary" -> UnaryExpr(UnOpToPython[e.n], a[1])
    [] e.k = "Call" -> PyCall(NameExpr(e.n), a) \* the extern prefix mochi_py_ is gone
    [] e.k = "FunCall" -> PyCall(a[1], Tail(a))
    [] e.k \in DOMAIN HelperOf -> PyCall(NameExpr(HelperOf[e.k]), a)
    [] e.k \in DOMAIN MethodOf -> PyCall(Attribute(a[1], MethodOf[e.k]), <<>>)
    [] e.k \in {"StrIndex", "Index", "MapGet"} -> PyExpr("index", "", <<>>, a)
    [] e.k \in {"ListLit", "Append", "ListSlice", "ListFilter", "ListMap"} -> LowerListExpr(e, a)
    [] e.k \in {"MapLit", "MapHas", "SetHas", "StrContains", "SetAdd", "SetLiteral"} -> LowerMapSetExpr(e, a)
    [] e.k \in {"RecordLit", "VariantLit", "FieldAccess", "VariantFieldAccess", "FunLit"} -> LowerObjectExpr(e, a)
    [] e.k \in {"AgentLit", "ChanMake", "ChanRecv", "AgentIntentCall"} -> LowerAgentExpr(e, a)
    [] OTHER -> NotLowered
RECURSIVE LowerExpr(_)
LowerExpr(e) == LowerNode(e, [i \in DOMAIN e.a |-> LowerExpr(e.a[i])])

-----------------------------------------------------------------------------
(* Statements.                                                             *)

\* lowerCallStmt: the print builtins, and Python externs without their prefix.
\* Any other name that begins with mochi_ is refused as an unknown builtin; the
\* middle end gives every function of the user such a name, mochi__f, so that a
\* call of one is refused when it stands as a statement.
LowerCallStmt(n, a) ==
  CASE n = "mochi_print" -> ExprStmt(PyCall(Attribute(NameExpr("Print"), "line"), a))
    [] n \in MochiNames \ {"mochi_print"} -> ExprStmt(NotLowered)
    [] OTHER -> ExprStmt(PyCall(NameExpr(n), a))

\* The cases of a match: labels as they are, guards lowered.
LowerCases(cases) == [i \in DOMAIN cases |-> [cases[i] EXCEPT !.guard = [j \in DOMAIN @ |-> LowerExpr(@[j])]]]

CatchBind == "__mp"
\* Mutant: an index out of range is not caught.
CaughtNoIndex == <<"MochiPanic", "ZeroDivisionError">>
CaughtTypes == <<"MochiPanic", "ZeroDivisionError", "IndexError">>

\* The first line of a handler: the code of what was caught.
LowerCatchVar(n) == AssignStmt(n, <<"int">>, PyCall(NameExpr("_panic_code"), <<NameExpr(CatchBind)>>))

\* Mutant: an empty block is left empty.
LowerBlockBare(stmts) == stmts
\* The end of lowerBlock: a block is never empty.
LowerBlockEnd(stmts) == IF stmts = <<>> THEN <<PassStmt>> ELSE stmts

\* A statement over its lowered expressions and blocks.
LowerStmtNode(s, a, b) ==
  LET made(k, f) == PyStmt(k, s.n, <<>>, f, a, b)
  IN CASE s.k = "Call" -> LowerCallStmt(s.n, a)
       [] s.k = "Let" -> PyStmt(IF a = <<>> THEN "annotate" ELSE "assign", s.n, LetType(s.t), <<>>, a, <<>>)
       [] s.k = "Match" -> made("match", LowerCases(s.f))
       [] s.k = "Assign" -> AssignStmt(s.n, <<>>, a[1])
       [] s.k = "SelfAssign" -> PyStmt("attr assign", s.n, <<>>, <<>>, <<NameExpr("self")>> \o a, <<>>)
       [] s.k = "If" -> made("if", <<>>)
       [] s.k = "While" -> made("while", <<>>)
       [] s.k = "ForRange" -> made("for range", <<>>)
       [] s.k = "ForEach" -> made("for each", <<>>)
       [] s.k = "MapPut" -> PyStmt("index assign", "", <<>>, <<>>, <<NameExpr(s.n)>> \o a, <<>>)
       [] s.k = "Break" -> made("break", <<>>)
       [] s.k = "Continue" -> made("continue", <<>>)
       [] s.k = "Return" -> made("return", <<>>)
       [] s.k = "AgentIntentCall" -> ExprStmt(LowerIntentCall(s, a))
       [] s.k = "ChanSend" -> ExprStmt(PyCall(Attribute(a[1], "append"), <<a[2]>>))
       [] s.k = "StreamEmit" -> ExprStmt(PyCall(NameExpr("mochi_emit"), a))
       [] s.k = "WriteFile" -> ExprStmt(PyCall(NameExpr("mochi_write_file"), a))
       [] s.k = "Panic" -> PyStmt("raise", "", <<>>, <<>>, <<PyCall(NameExpr("MochiPanic"), a)>>, <<>>)
       [] s.k = "TryCatch" -> PyStmt("try", CatchBind, <<>>, CaughtTypes, <<>>, <<b[1], <<LowerCatchVar(s.n)>> \o b[2]>>)
       [] OTHER -> ExprStmt(NotLowered)

RECURSIVE LowerStmt(_), LowerBlock(_)
\* lowerBlock: query scopes are spliced in, C fragments dropped.
LowerBlock(blk) ==
  LowerBlockEnd(Flat([i \in DOMAIN blk |->
    CASE blk[i].k = "QueryScope" -> LowerBlock(blk[i].b[1])
      [] blk[i].k = "RawC" -> <<>>
      [] OTHER -> <<LowerStmt(blk[i])>>]))
LowerStmt(s) ==
  LowerStmtNode(s, [i \in DOMAIN s.a |-> LowerExpr(s.a[i])], [i \in DOMAIN s.b |-> LowerBlock(s.b[i])])

-----------------------------------------------------------------------------
(* Declarations.                                                           *)

\* The type of a field: the element types of a list, map or set are not passed
\* on, and neither is a union's name but for a variant.  Such a field is left with
\* an empty annotation; the verifier allows scalars only.
FieldType(t) == IF t.k = "record" THEN <<t.n>> ELSE PyTypeFor(t)
VariantFieldType(t) == IF t.k = "union" THEN <<t.n>> ELSE FieldType(t)
FieldTypes(fields) == [i \in DOMAIN fields |-> FieldType(fields[i].t)]
VariantFieldTypes(fields) == [i \in DOMAIN fields |-> VariantFieldType(fields[i].t)]
FieldStmts(fields, types) ==
  [i \in DOMAIN fields |-> PyStmt("annotate", fields[i].n, types[i], <<>>, <<>>, <<>>)]
Dataclass(name, fields) == PyStmt("class", name, <<>>, <<"dataclass">>, <<>>, <<fields, <<>>>>)
LowerRecordDecl(r) == Dataclass(r.n, FieldStmts(r.fields, FieldTypes(r.fields)))
LowerUnionDecl(u) ==
  [i \in DOMAIN u.variants |->
     LET v == u.variants[i] IN Dataclass(v.n, FieldStmts(v.fields, VariantFieldTypes(v.fields)))]
  \o <<PyStmt("union", u.n, <<>>, [i \in DOMAIN u.variants |-> u.variants[i].n], <<>>, <<>>)>>

PyParams(params) == [i \in DOMAIN params |-> [n |-> params[i].n, t |-> SignatureType(params[i].t)]]
LowerFunction(fn) == FunctionDef(fn.n, PyParams(fn.params), SignatureType(fn.ret), LowerBlock(fn.body))

\* lowerAgentDecl: typed slots, an __init__ that fills them, a method per intent.
LowerAgentDecl(ag) ==
  LET self == <<[n |-> "self", t |-> <<>>]>>
      sets == [i \in DOMAIN ag.fields |->
                 PyStmt("attr assign", ag.fields[i].n, <<>>, <<>>, <<NameExpr("self"), NameExpr(ag.fields[i].n)>>, <<>>)]
      method(m) == FunctionDef(m.n, self \o [i \in DOMAIN m.params |-> [n |-> m.params[i].n, t |-> PyTypeFor(m.params[i].t)]],
                               IF m.ret.k = "unit" THEN <<"None">> ELSE PyTypeFor(m.ret), LowerBlock(m.body))
  IN PyStmt("class", ag.n, <<>>, <<>>, <<>>,
            <<FieldStmts(ag.fields, FieldTypes(ag.fields)),
              <<FunctionDef("__init__", self \o [i \in DOMAIN ag.fields |-> [n |-> ag.fields[i].n, t |-> FieldType(ag.fields[i].t)]],
                            <<"None">>, IF sets = <<>> THEN <<PassStmt>> ELSE sets)>>
              \o [i \in DOMAIN ag.intents |-> method(ag.intents[i])]>>)

-----------------------------------------------------------------------------
(* The needs flags, and the imports they pull in.                          *)

ExprFlag(e) ==
  CASE e.k = "Binary" /\ e.n = "DivF64" -> {"math"}
    [] e.k \in {"MapKeys", "MapValues"} -> {"mapping"}
    [] e.k = "ListSortAsc" -> {"query"}
    [] e.k = "ListSumI64" -> {"sum_i64"}
    [] e.k = "ListSumF64" -> {"sum_f64"}
    [] e.k = "StrConvert" -> {"str_from"}
    [] e.k = "ChanMake" -> {"deque"}
    [] e.k \in {"StreamMake", "SubMake", "SubRecv"} -> {"stream"}
    [] e.k = "LLMGenerate" -> {"llm"}
    [] e.k = "HttpGet" -> {"fetch"}
    [] OTHER -> {}
StmtFlag(s) ==
  CASE s.k \in {"Panic", "TryCatch"} -> {"except"}
    [] s.k = "StreamEmit" -> {"stream"}
    [] s.k = "WriteFile" -> {"fetch"}
    [] s.k = "Let" /\ s.t.k \in DOMAIN Conduits /\ LetType(s.t) # <<>> -> {IF s.t.k = "chan" THEN "deque" ELSE "stream"}
    [] OTHER -> {}

RECURSIVE ExprNeeds(_), BlockNeeds(_)
ExprNeeds(e) == ExprFlag(e) \cup UNION {ExprNeeds(e.a[i]) : i \in DOMAIN e.a}
BlockNeeds(blk) ==
  UNION {LET s == blk[i]
             guards == IF s.k = "Match" THEN UNION {{s.f[j].guard[g] : g \in DOMAIN s.f[j].guard} : j \in DOMAIN s.f} ELSE {}
         IN StmtFlag(s) \cup UNION {ExprNeeds(e) : e \in guards \cup {s.a[j] : j \in DOMAIN s.a}}
            \cup UNION {BlockNeeds(s.b[j]) : j \in DOMAIN s.b} : i \in DOMAIN blk}

Elements(s) == {s[i] : i \in DOMAIN s}
ProgramNeeds(p) ==
  BlockNeeds(p.main) \cup (IF p.records = <<>> /\ p.unions = <<>> THEN {} ELSE {"dataclass"})
  \cup UNION {BlockNeeds(m.body) : m \in UNION {Elements(ag.intents) : ag \in Elements(p.agents)}}
  \cup UNION {BlockNeeds(fn.body)
              \cup (IF \E t \in {fn.ret} \cup {q.t : q \in Elements(fn.params)} : t.k = "fun" THEN {"callable"} ELSE {}) : fn \in Elements(p.funs)}

Import(from, flags, names) == [from |-> from, flags |-> flags, names |-> names]
\* Each name with the flag that asks for it; the first is always there.
ImportTable ==
  <<Import("mochi_runtime.io", <<"">>, <<"Print">>),
    Import("mochi_runtime.math", <<"math">>, <<"fdiv">>),
    Import("mochi_runtime.mapping", <<"mapping", "mapping">>, <<"keys_sorted", "values_sorted">>),
    Import("dataclasses", <<"dataclass">>, <<"dataclass">>),
    Import("collections.abc", <<"callable">>, <<"Callable">>),
    Import("mochi_runtime.query", <<"query", "sum_i64", "sum_f64">>, <<"sort_asc", "sum_i64", "sum_f64">>),
    Import("mochi_runtime.fmt", <<"str_from">>, <<"str_from">>),
    Import("collections", <<"deque">>, <<"deque">>),
    Import("mochi_runtime.stream", <<"stream", "stream", "stream", "stream", "stream", "stream">>,
           <<"MochiStream", "MochiSub", "mochi_emit", "mochi_make_stream", "mochi_recv_sub", "mochi_subscribe">>),
    Import("mochi_runtime.except_", <<"except", "except">>, <<"MochiPanic", "_panic_code">>),
    Import("mochi_runtime.llm", <<"llm">>, <<"mochi_llm_generate">>),
    Import("mochi_runtime.fetch", <<"fetch", "fetch">>, <<"mochi_fetch", "mochi_write_file">>)>>

\* The imports of the module; the externs come from the module beside it.
Imports(p) ==
  LET needs == ProgramNeeds(p) \cup {""}
      kept(r) == LET at == Ascending({j \in DOMAIN r.flags : r.flags[j] \in needs})
                 IN [from |-> r.from, names |-> [j \in DOMAIN at |-> r.names[at[j]]]]
      used == SelectSeq(ImportTable, LAMBDA r : \E j \in DOMAIN r.flags : r.flags[j] \in needs)
  IN [i \in DOMAIN used |-> kept(used[i])]
     \o (IF p.externs = <<>> THEN <<>> ELSE <<[from |-> "mochi_user_" \o p.name \o "_externs", names |-> p.externs]>>)

RECURSIVE SubExprs(_), ExprsIn(_)
SubExprs(e) == {e} \cup UNION {SubExprs(e.a[i]) : i \in DOMAIN e.a}
\* Every expression of the statements and of their blocks.
ExprsIn(stmts) ==
  UNION {LET s == stmts[i]
             guards == IF s.k \in {"match", "Match"} THEN UNION {Elements(s.f[j].guard) : j \in DOMAIN s.f} ELSE {}
         IN UNION {SubExprs(e) : e \in Elements(s.a) \cup guards} \cup UNION {ExprsIn(s.b[j]) : j \in DOMAIN s.b} : i \in DOMAIN stmts}

\* Lower: externs of another language and closures that capture are refused,
\* and so is a module with anything unsupported in it.
ModuleOf(p, stmts) ==
  IF p.foreign \/ (\E fn \in Elements(p.funs) : fn.captures # <<>>) \/ NotLowered \in ExprsIn(stmts) THEN Bad
  ELSE [ok |-> TRUE, imports |-> Imports(p), stmts |-> stmts]
LowerProgram(p) ==
  LET defs == [i \in DOMAIN p.records |-> LowerRecordDecl(p.records[i])]
              \o Flat([i \in DOMAIN p.unions |-> LowerUnionDecl(p.unions[i])])
              \o [i \in DOMAIN p.agents |-> LowerAgentDecl(p.agents[i])]
              \o [i \in DOMAIN p.funs |-> LowerFunction(p.funs[i])]
      main == FunctionDef("main", <<>>, <<"None">>, LowerBlock(p.main))
      guard == PyStmt("if", "", <<>>, <<>>, <<PyExpr("equal", "", <<>>, <<NameExpr("__name__"), PyExpr("literal", "'__main__'", <<>>, <<>>)>>)>>,
                      <<<<ExprStmt(PyCall(NameExpr("main"), <<>>))>>>>)
  IN ModuleOf(p, defs \o <<main, guard>>)
=============================================================================
