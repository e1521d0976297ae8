------------------------------- MODULE TypeMap ------------------------------
(***************************************************************************)
(* The closed type table (typemap/): Python type expressions, as sequences *)
(* of tokens, parsed into trees and lowered to Mochi types or refused.     *)
(***************************************************************************)
EXTENDS Evaluation, SequencesExt

CONSTANTS
  TypeTexts,  \* the type expressions tried
  Mappers     \* the mappers tried: [typeVars, classes, partial]

Quoted == "'C'" \* a string literal: the forward reference to class C
Numeral == "1"
Punctuation == {"[", "]", ",", "|", ".", "(", ")", "..."}

-----------------------------------------------------------------------------
(* Python type expressions.                                                *)

Py(kind, name, base, args) == [kind |-> kind, name |-> name, base |-> base, args |-> args]
PyName(n) == Py("name", n, <<>>, <<>>)
Literal(l) == Py("literal", l, <<>>, <<>>)
Ellipsis == Py("ellipsis", "", <<>>, <<>>)

\* A parser's answer: the node and the position after it.
Parsed(node, pos) == [ok |-> TRUE, node |-> node, pos |-> pos]
Token(s, i) == IF i <= Len(s) THEN s[i] ELSE ""

\* Past the bracket that closes what p parsed.
Closed(s, p, bracket) ==
  IF p.ok /\ Token(s, p.pos) = bracket THEN [p EXCEPT !.pos = @ + 1] ELSE Bad

RECURSIVE ParseUnion(_, _), ParseTail(_, _, _), ParseArglist(_, _, _), UnionTail(_, _, _)
ParseAtom(s, i) ==
  LET c == Token(s, i)
  IN CASE c = "(" -> Closed(s, ParseUnion(s, i + 1), ")")
       [] c = "..." -> Parsed(Ellipsis, i + 1)
       [] c \in {Quoted, Numeral, "True", "False", "None"} -> Parsed(Literal(c), i + 1)
       [] c \in {""} \cup (Punctuation \ {"(", "..."}) -> Bad
       [] OTHER -> Parsed(PyName(c), i + 1)
\* The subscripts and attributes behind an atom.
SubscriptTail(s, atom, list) ==
  IF list.ok THEN ParseTail(s, list.pos, Py("subscript", "", <<atom>>, list.node)) ELSE Bad
ParseTail(s, i, atom) ==
  CASE Token(s, i) = "[" -> SubscriptTail(s, atom, Closed(s, ParseArglist(s, i + 1, <<>>), "]"))
    [] Token(s, i) = "." ->
         IF Token(s, i + 1) \in {"", Quoted, Numeral} \cup Punctuation THEN Bad
         ELSE ParseTail(s, i + 2, Py("attr", Token(s, i + 1), <<atom>>, <<>>))
    [] OTHER -> Parsed(atom, i)
PrimaryTail(s, atom) == IF atom.ok THEN ParseTail(s, atom.pos, atom.node) ELSE Bad
ParsePrimary(s, i) == PrimaryTail(s, ParseAtom(s, i))
\* Arguments up to the closing bracket; a bracketed one is Callable's list.
BracketedArg(list) == IF list.ok THEN Parsed(Py("tuple", "", <<>>, list.node), list.pos) ELSE Bad
MoreArgs(s, args, arg) ==
  IF ~arg.ok THEN Bad
  ELSE IF Token(s, arg.pos) = "," THEN ParseArglist(s, arg.pos + 1, Append(args, arg.node))
  ELSE Parsed(Append(args, arg.node), arg.pos)
ParseArglist(s, i, args) ==
  IF Token(s, i) = "]" THEN Parsed(args, i)
  ELSE MoreArgs(s, args, IF Token(s, i) = "[" THEN BracketedArg(Closed(s, ParseArglist(s, i + 1, <<>>), "]"))
                         ELSE ParseUnion(s, i))
\* The branches so far and the one just read.
UnionTail(s, branches, p) ==
  IF ~p.ok THEN Bad
  ELSE IF Token(s, p.pos) = "|" THEN UnionTail(s, Append(branches, p.node), ParsePrimary(s, p.pos + 1))
  ELSE IF branches = <<>> THEN p ELSE Parsed(Py("union", "", <<>>, Append(branches, p.node)), p.pos)
ParseUnion(s, i) == UnionTail(s, <<>>, ParsePrimary(s, i))
WholeText(s, t) == IF t.ok /\ t.pos > Len(s) THEN t ELSE Bad
ParsePyType(s) == WholeText(s, ParseUnion(s, 1))

Joined(parts, sep) ==
  IF parts = <<>> THEN <<>> ELSE FoldLeft(LAMBDA a, p : a \o <<sep>> \o p, Head(parts), Tail(parts))
RECURSIVE PyString(_)
PyString(t) ==
  LET args == [i \in DOMAIN t.args |-> PyString(t.args[i])]
  IN CASE t.kind \in {"name", "literal"} -> <<t.name>>
       [] t.kind = "attr" -> PyString(t.base[1]) \o <<".", t.name>>
       [] t.kind = "subscript" -> PyString(t.base[1]) \o <<"[">> \o Joined(args, ",") \o <<"]">>
       [] t.kind = "tuple" -> <<"[">> \o Joined(args, ",") \o <<"]">>
       [] t.kind = "union" -> Joined(args, "|")
       [] t.kind = "ellipsis" -> <<"...">>
\* The dotted path of a name, <<>> when the node is not one.
RECURSIVE QualifiedName(_)
QualifiedName(t) ==
  CASE t.kind = "name" -> <<t.name>>
    [] t.kind = "attr" -> LET b == QualifiedName(t.base[1]) IN IF b = <<>> THEN <<>> ELSE Append(b, t.name)
    [] OTHER -> <<>>

-----------------------------------------------------------------------------
(* Mochi types.                                                            *)

Mochi(kind, name, params) == [kind |-> kind, name |-> name, params |-> params]
Scalar(n) == Mochi("scalar", n, <<>>)
Ref(n) == Mochi("ref", n, <<>>)
NewOptional(t) == IF t.kind = "optional" THEN t ELSE Mochi("optional", "", <<t>>)
NewSum(branches) ==
  LET nonNone == SelectSeq(branches, LAMBDA b : b # Scalar("None"))
      inner == IF Len(nonNone) = 1 THEN nonNone[1] ELSE Mochi("sum", "", nonNone)
  IN IF nonNone = <<>> THEN Scalar("None")
     ELSE IF Len(nonNone) < Len(branches) THEN NewOptional(inner) ELSE inner
NewFun(ret, params) == Mochi("fun", "", Append(params, ret))
FunParams(t) == Front(t.params)
FunReturn(t) == Last(t.params)

BracketWord == [list |-> "list", set |-> "set", map |-> "map", tuple |-> "tuple", stream |-> "stream"]
\* The extern-declaration text of a type, as tokens.
RECURSIVE Render(_)
Render(t) ==
  LET params == [i \in DOMAIN t.params |-> Render(t.params[i])]
  IN CASE t.kind \in {"scalar", "ref", "typevar"} -> <<t.name>>
       [] t.kind \in DOMAIN BracketWord -> <<BracketWord[t.kind], "<">> \o Joined(params, ",") \o <<">">>
       [] t.kind = "async" -> <<"async">> \o params[1]
       [] t.kind = "optional" -> Append(params[1], "?")
       [] t.kind = "sum" -> Joined(params, "|")
       [] t.kind = "fun" -> <<"fun", "(">> \o Joined(Front(params), ",") \o <<")", ":">> \o Last(params)

-----------------------------------------------------------------------------
(* The mapper.                                                             *)

Mapped(t) == [ok |-> TRUE, type |-> t]
Skip(reason) == [ok |-> FALSE, reason |-> reason]
Unsupported == Skip("UnsupportedTypingConstruct")

ScalarTable == [int |-> "int", float |-> "float", bool |-> "bool", str |-> "string", bytes |-> "bytes",
                None |-> "None", NoneType |-> "None"]
BareConstructors == {"List", "Tuple", "Dict", "Set", "FrozenSet", "Optional", "Union", "Callable", "Awaitable",
  "AsyncIterator", "Iterator", "Iterable", "Type", "Literal", "Final", "ClassVar", "Annotated", "TypedDict",
  "Protocol", "TypeVar", "ParamSpec", "TypeVarTuple", "Generic", "Concatenate", "Unpack", "NotRequired", "Required"}
MapName(m, n) ==
  CASE n \in DOMAIN ScalarTable -> Mapped(Scalar(ScalarTable[n]))
    [] n \notin DOMAIN ScalarTable /\ n \in m.typeVars -> Mapped(Mochi("typevar", n, <<>>))
    [] n \notin DOMAIN ScalarTable \cup m.typeVars /\ n \in m.classes -> Mapped(Ref(n))
    [] OTHER ->
         CASE n = "Any" -> IF m.partial THEN Mapped(Ref("Any")) ELSE Unsupported
           [] n = "complex" -> Skip("NoComplexType")
           [] n = "Self" -> Mapped(Ref("Self"))
           [] n \in {"object"} \cup BareConstructors -> Unsupported
           [] OTHER -> Skip("ForwardRef")

TypingPrefixes == {<<"typing">>, <<"typing_extensions">>, <<"collections", "abc">>, <<"builtins">>}
Stripped(qn) ==
  IF \E p \in TypingPrefixes : IsStrictPrefix(p, qn)
  THEN From(qn, Len(CHOOSE p \in TypingPrefixes : IsStrictPrefix(p, qn)) + 1) ELSE qn
MapQualified(m, qn) ==
  IF Stripped(qn) # qn THEN IF Len(Stripped(qn)) = 1 THEN MapName(m, Stripped(qn)[1]) ELSE Skip("ForwardRef")
  ELSE IF Last(qn) \in m.classes THEN Mapped(Ref(Last(qn))) ELSE Skip("ForwardRef")

\* Constructors of one argument, by the kind they lower to; "" is the argument.
OneArgument == [list |-> "list", List |-> "list", set |-> "set", Set |-> "set", frozenset |-> "set",
  FrozenSet |-> "set", Optional |-> "optional", Awaitable |-> "async", AsyncIterator |-> "stream",
  AsyncIterable |-> "stream", Iterator |-> "list", Iterable |-> "list", Final |-> "", ClassVar |-> "",
  NotRequired |-> "", Required |-> ""]
Refused == [Type |-> "UnsupportedTypingConstruct", Generator |-> "UnsupportedTypingConstruct",
  AsyncGenerator |-> "UnsupportedTypingConstruct", ParamSpec |-> "ParamSpec", Concatenate |-> "ParamSpec",
  TypeVarTuple |-> "TypeVarTuple", Unpack |-> "TypeVarTuple"]
IsValidMapKey(t) == t \in {Scalar("string"), Scalar("int")}
LiteralKind(a) == CASE a.name = Quoted -> Scalar("string") [] a.name \in {"True", "False"} -> Scalar("bool")
                    [] a.name = "None" -> Scalar("None") [] OTHER -> Scalar("int")
MapLiteral(args) ==
  IF args = <<>> \/ \E i \in DOMAIN args : args[i].kind # "literal" THEN Unsupported
  ELSE LET kinds == {LiteralKind(args[i]) : i \in DOMAIN args}
       IN IF Cardinality(kinds) = 1 THEN Mapped(CHOOSE k \in kinds : TRUE) ELSE Unsupported
Wrapped(kind, t) == CASE kind = "" -> t [] kind = "optional" -> NewOptional(t) [] OTHER -> Mochi(kind, "", <<t>>)

\* The first refusal of a list of decisions, or what Then makes of their types.
All(ds, Then(_)) ==
  LET bad == {i \in DOMAIN ds : ~ds[i].ok}
  IN IF bad = {} THEN Then([i \in DOMAIN ds |-> ds[i].type])
     ELSE ds[CHOOSE i \in bad : \A j \in bad : i <= j]

RECURSIVE MapNode(_, _)
MapAll(m, args) == [i \in DOMAIN args |-> MapNode(m, args[i])]
\* Each branch is mapped and tested for Any before the next one is looked at.
MapUnion(m, branches) ==
  LET ds == MapAll(m, branches)
      each == [i \in DOMAIN ds |-> IF ds[i].ok /\ ds[i].type = Ref("Any") THEN Skip("OpenUnion") ELSE ds[i]]
  IN IF branches = <<>> THEN Unsupported ELSE All(each, LAMBDA ts : Mapped(NewSum(ts)))
MapCallable(m, args) ==
  CASE Len(args) # 2 -> Unsupported
    [] Len(args) = 2 /\ args[1].kind = "ellipsis" -> Skip("ParamSpec")
    [] Len(args) = 2 /\ args[1].kind \notin {"ellipsis", "tuple"} -> Unsupported
    [] OTHER -> All(Append(MapAll(m, args[1].args), MapNode(m, args[2])),
                    LAMBDA ts : Mapped(NewFun(Last(ts), Front(ts))))
MapDict(m, args) ==
  IF Len(args) # 2 THEN Unsupported
  ELSE All(MapAll(m, args), LAMBDA ts : IF IsValidMapKey(ts[1]) THEN Mapped(Mochi("map", "", ts)) ELSE Unsupported)
MapTuple(m, args) ==
  IF Len(args) = 2 /\ args[2].kind = "ellipsis"
  THEN All(<<MapNode(m, args[1])>>, LAMBDA ts : Mapped(Mochi("list", "", ts)))
  ELSE All(MapAll(m, args), LAMBDA ts : Mapped(Mochi("tuple", "", ts)))
MapSubscript(m, t) ==
  LET qn == Stripped(QualifiedName(t.base[1]))
      base == IF Len(qn) = 1 THEN qn[1] ELSE ""
      args == t.args
  IN CASE QualifiedName(t.base[1]) = <<>> -> Unsupported
       [] base \in DOMAIN OneArgument ->
            IF Len(args) # 1 THEN Unsupported
            ELSE All(<<MapNode(m, args[1])>>, LAMBDA ts : Mapped(Wrapped(OneArgument[base], ts[1])))
       [] base \in {"dict", "Dict", "Mapping", "MutableMapping"} -> MapDict(m, args)
       [] base \in {"tuple", "Tuple"} -> MapTuple(m, args)
       [] base = "Union" -> MapUnion(m, args)
       [] base = "Callable" -> MapCallable(m, args)
       [] base = "Coroutine" -> IF Len(args) # 3 THEN Unsupported
                                ELSE All(<<MapNode(m, args[3])>>, LAMBDA ts : Mapped(Mochi("async", "", ts)))
       [] base = "Literal" -> MapLiteral(args)
       [] base = "Annotated" -> IF args = <<>> THEN Unsupported ELSE MapNode(m, args[1])
       [] base \in DOMAIN Refused -> Skip(Refused[base])
       [] base \in m.classes \ {"Union", "Callable", "Literal", "Annotated"} ->
            All(MapAll(m, args), LAMBDA ts : Mapped(Mochi("ref", base, ts)))
       [] OTHER -> IF QualifiedName(t.base[1]) = <<>> THEN Unsupported ELSE Skip("ForwardRef")
MapNode(m, t) ==
  CASE t.kind = "name" -> MapName(m, t.name)
    [] t.kind = "attr" -> IF QualifiedName(t) = <<>> THEN Unsupported ELSE MapQualified(m, QualifiedName(t))
    [] t.kind = "subscript" -> MapSubscript(m, t)
    [] t.kind = "union" -> MapUnion(m, t.args)
    [] t.kind = "literal" /\ t.name = "None" -> Mapped(Scalar("None"))
    [] t.kind = "literal" /\ t.name = Quoted -> MapName(m, "C")
    [] OTHER -> Unsupported
MapParsed(m, t) == IF t.ok THEN MapNode(m, t.node) ELSE Unsupported
Map(m, text) == MapParsed(m, ParsePyType(text)) \* the empty text does not parse

-----------------------------------------------------------------------------
(* Declarations: what stubs/ hands over, a function or method with its     *)
(* parameters, and a class with its fields and methods.                    *)

VariadicKinds == {"varargs", "kwargs"}
MapParam(m, p) ==
  CASE p.kind \in VariadicKinds -> Skip("ParamSpec")
    [] p.kind \notin VariadicKinds /\ p.type = <<>> -> Unsupported
    [] OTHER -> Map(m, p.type)
MapReturn(m, fn) == IF fn.ret = <<>> THEN Mapped(Scalar("None")) ELSE Map(m, fn.ret)
MapSignature(m, params, fn, Then(_, _)) ==
  All(Append([i \in DOMAIN params |-> MapParam(m, params[i])], MapReturn(m, fn)),
      LAMBDA ts : Mapped(Then(Last(ts), Front(ts))))
MapFunction(m, fn) ==
  MapSignature(m, fn.params, fn,
    LAMBDA ret, params : NewFun(IF fn.async THEN Mochi("async", "", <<ret>>) ELSE ret, params))

\* A member of a class: [name, ok, type] or [name, ok, reason].
Dunder(name) == Head(name) = "__"
MapMethod(m, fn) ==
  LET params == SelectSeq(fn.params, LAMBDA p : p.name \notin {"self", "cls"})
  IN IF Dunder(fn.name) THEN Skip("Dunder") ELSE MapSignature(m, params, fn, NewFun)
Members(decls, Decide(_)) ==
  [i \in DOMAIN decls |-> [name |-> decls[i].name, decision |-> Decide(decls[i])]]
ClassMembers(m, cd) ==
  IF cd.protocol THEN Members(cd.methods, LAMBDA fn : MapMethod(m, fn))
  ELSE Members(cd.fields, LAMBDA f : Map(m, f.type))
\* A Protocol is an interface, a TypedDict or frozen dataclass a record.
Structure(cd, members) ==
  [ok |-> TRUE, kind |-> IF cd.protocol THEN "interface" ELSE "record",
   members |-> SelectSeq(members, LAMBDA d : d.decision.ok),
   skipped |-> SelectSeq(members, LAMBDA d : ~d.decision.ok)]
MapClass(m, cd) ==
  IF cd.protocol \/ cd.typedDict \/ (cd.dataclass /\ cd.frozen) THEN Structure(cd, ClassMembers(m, cd))
  ELSE Unsupported

-----------------------------------------------------------------------------
TypeMapInit == Called("typemap", [mapper : Mappers, text : TypeTexts])
MapCall(call) == Map(call.mapper, call.text)
TypeMapNext == Evaluate("typemap", MapCall)
Subscripted(base, args) == base \o <<"[">> \o Joined(args, ",") \o <<"]">>

(* What the table lets through is in the closed grammar emit/ and wrapper/ *)
(* rely on: no union with one branch or with None in it, no optional of an *)
(* optional, maps keyed by int or string only, Params of the right length. *)
RECURSIVE WellFormed(_)
WellFormed(t) ==
  /\ \A i \in DOMAIN t.params : WellFormed(t.params[i])
  /\ CASE t.kind \in {"scalar", "typevar"} -> t.params = <<>>
       [] t.kind \in {"list", "set", "async", "stream"} -> Len(t.params) = 1
       [] t.kind = "optional" -> Len(t.params) = 1 /\ t.params[1].kind # "optional"
       [] t.kind = "map" -> Len(t.params) = 2 /\ t.params[1].kind = "scalar" /\ t.params[1].name \in {"int", "string"}
       [] t.kind = "sum" -> Len(t.params) >= 2 /\ Scalar("None") \notin Range(t.params)
       [] t.kind = "fun" -> Len(t.params) >= 1
       [] OTHER -> t.kind \in {"ref", "tuple"}
ClosedGrammar == Returned("typemap") /\ out[1].ok => WellFormed(out[1].type)

(* X | None, Optional[X] and Union[None, X] are one type, and a typing.    *)
(* prefix changes nothing.  (For X = Any the two unions are refused and    *)
(* Optional is not; Optional[None] is not None.)                           *)
OneOptional ==
  Returned("typemap") /\ out[1].ok /\ out[1].type \notin {Ref("Any"), Scalar("None")} =>
    LET m == in.mapper
        optional == Map(m, Subscripted(<<"Optional">>, <<in.text>>))
    IN /\ optional = Mapped(NewOptional(out[1].type))
       /\ Map(m, Subscripted(<<"typing", ".", "Union">>, <<<<"None">>, in.text>>)) = optional
       /\ "|" \notin Range(in.text) => Map(m, in.text \o <<"|", "None">>) = optional

(* What the mapper sees of an argument is what a reader of its text sees:  *)
(* printing a parsed expression and mapping the print gives the decision   *)
(* of the original, unless it was bracketed by parentheses, which String   *)
(* does not print.                                                         *)
PrintAgrees(t) == t.ok => Map(in.mapper, PyString(t.node)) = out[1]
PrintedTypeAgrees ==
  Returned("typemap") /\ "(" \notin Range(in.text) => PrintAgrees(ParsePyType(in.text))

(* The extern declarations of two types differ unless the types are equal: *)
(* exceptions are the open-ended forms, where a "?" or a "|" may belong to *)
(* the whole or to its last part.                                          *)
RECURSIVE OpenEnded(_)
OpenEnded(t) ==
  \/ t.kind \in {"optional", "sum"} /\ \E i \in DOMAIN t.params : t.params[i].kind \in {"sum", "fun", "async", "optional"}
  \/ t.kind \in {"fun", "async"} /\ Last(t.params).kind \in {"sum", "optional", "fun", "async"}
  \/ \E i \in DOMAIN t.params : OpenEnded(t.params[i])
  \/ t.kind = "ref" /\ t.params # <<>>
RenderDistinguishes ==
  Returned("typemap") /\ out[1].ok =>
    LET t == out[1].type
        near == {Mochi("list", "", <<t>>), NewOptional(t), Mochi("sum", "", <<t, Scalar("bool")>>),
                 NewFun(t, <<>>), Mochi("async", "", <<t>>), Mochi("set", "", <<t>>)}
                \cup {t.params[i] : i \in DOMAIN t.params}
                \cup {[t EXCEPT !.params = Reverse(@)], [t EXCEPT !.kind = "set"], [t EXCEPT !.kind = "tuple"]}
    IN \A u \in near : Render(u) = Render(t) /\ ~OpenEnded(t) /\ ~OpenEnded(u) => u = t

\* The type table: a closed grammar, one optional, and texts that mean the type.
TypeTable == ClosedGrammar /\ OneOptional /\ PrintedTypeAgrees /\ RenderDistinguishes
=============================================================================
