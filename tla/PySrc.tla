-------------------------------- MODULE PySrc --------------------------------
(***************************************************************************)
(* The Python syntax tree of the transpiler and its text                   *)
(* (transpiler3/python/pysrc).  An expression is a kind, a name or an      *)
(* operator, the keywords of its last operands, and its operands.  A       *)
(* statement adds an annotation and blocks.  Text is lines of tokens, each *)
(* at a depth of four blanks per level.                                    *)
(***************************************************************************)
EXTENDS Evaluation

PyExpr(k, n, f, a) == [k |-> k, n |-> n, f |-> f, a |-> a]
NameExpr(id) == PyExpr("name", id, <<>>, <<>>)
PyCall(fn, args) == PyExpr("call", "", <<>>, <<fn>> \o args)
KeywordCall(fn, names, values) == PyExpr("call", "", names, <<fn>> \o values)
Attribute(value, attr) == PyExpr("attribute", attr, <<>>, <<value>>)
BinaryExpr(l, op, r) == PyExpr("binary", op, <<>>, <<l, r>>)
UnaryExpr(op, x) == PyExpr("unary", op, <<>>, <<x>>)

PyStmt(k, n, t, f, a, b) == [k |-> k, n |-> n, t |-> t, f |-> f, a |-> a, b |-> b]
PassStmt == PyStmt("pass", "", <<>>, <<>>, <<>>, <<>>)
AssignStmt(target, type, value) == PyStmt("assign", target, type, <<>>, <<value>>, <<>>)
ExprStmt(x) == PyStmt("expr", "", <<>>, <<>>, <<x>>, <<>>)
FunctionDef(name, params, returns, body) == PyStmt("def", name, returns, params, <<>>, <<body>>)

RECURSIVE Separated(_, _), Flat(_)
\* The parts with sep between them, and one after the other.
Separated(parts, sep) ==
  IF parts = <<>> THEN <<>> ELSE Head(parts) \o (IF Len(parts) = 1 THEN <<>> ELSE <<sep>> \o Separated(Tail(parts), sep))
Flat(parts) == IF parts = <<>> THEN <<>> ELSE Head(parts) \o Flat(Tail(parts))

-----------------------------------------------------------------------------
(* PyString of expressions.                                                *)

Parenthesised(toks) == <<"(">> \o toks \o <<")">>

RECURSIVE ExprText(_)
ExprText(e) ==
  LET s == [i \in DOMAIN e.a |-> ExprText(e.a[i])]
      half == Len(s) \div 2
      args == [i \in 1..(Len(s) - 1) |->
                 LET kw == i - (Len(s) - 1 - Len(e.f)) IN IF kw > 0 THEN <<e.f[kw], "=">> \o s[i + 1] ELSE s[i + 1]]
  IN CASE e.k = "call" -> s[1] \o <<"(">> \o Separated(args, ",") \o <<")">>
       [] e.k = "attribute" -> s[1] \o <<".", e.n>>
       [] e.k = "equal" -> s[1] \o <<"==">> \o s[2]
       [] e.k = "binary" -> Parenthesised(s[1] \o <<e.n>> \o s[2])
       [] e.k = "unary" -> Parenthesised(<<e.n>> \o s[1])
       [] e.k = "list" -> <<"[">> \o Separated(s, ",") \o <<"]">>
       [] e.k = "set" -> <<"{">> \o Separated(s, ",") \o <<"}">>
       [] e.k = "dict" -> <<"{">> \o Separated([i \in 1..half |-> s[i] \o <<":">> \o s[half + i]], ",") \o <<"}">>
       [] e.k = "slice" -> s[1] \o <<"[">> \o s[2] \o <<":">> \o s[3] \o <<"]">>
       [] e.k = "index" -> s[1] \o <<"[">> \o s[2] \o <<"]">>
       [] OTHER -> <<e.n>> \* names and literals

-----------------------------------------------------------------------------
(* PyString of statements.                                                 *)

LineAt(depth, toks) == [depth |-> depth, toks |-> toks]

\* A name with its annotation, when it has one.
Annotated(n, t) == IF t = <<>> THEN <<n>> ELSE <<n, ":">> \o t

\* The except clause: one type bare, several as a tuple.
ExceptClause(types, bind) ==
  <<"except">> \o (IF Len(types) = 1 THEN types ELSE Parenthesised(Separated([i \in DOMAIN types |-> <<types[i]>>], ",")))
  \o (IF bind = "" THEN <<>> ELSE <<"as", bind>>) \o <<":">>

\* A case label: its pattern and its guard.
CasePattern(c) ==
  <<"case">>
  \o (IF c.wildcard THEN <<"_">>
      ELSE <<c.variant, "(">> \o Separated([j \in DOMAIN c.binds |-> <<c.binds[j].field, "=", c.binds[j].name>>], ",") \o <<")">>)
  \o (IF c.guard = <<>> THEN <<>> ELSE <<"if">> \o ExprText(c.guard[1])) \o <<":">>

RECURSIVE StmtText(_, _)
StmtsText(stmts, depth) == Flat([i \in DOMAIN stmts |-> StmtText(stmts[i], depth)])
\* A body that may be empty.
BodyText(stmts, depth) == IF stmts = <<>> THEN <<LineAt(depth, <<"pass">>)>> ELSE StmtsText(stmts, depth)

\* A function; a class, with f its decorators and b its fields, then its methods.
FunctionText(s, d) ==
  <<LineAt(d, <<"def", s.n, "(">> \o Separated([j \in DOMAIN s.f |-> Annotated(s.f[j].n, s.f[j].t)], ",") \o <<")">>
              \o (IF s.t = <<>> THEN <<>> ELSE <<"->">> \o s.t) \o <<":">>)>> \o BodyText(s.b[1], d + 1)
ClassText(s, d) ==
  [j \in DOMAIN s.f |-> LineAt(d, <<"@", s.f[j]>>)] \o <<LineAt(d, <<"class", s.n, ":">>)>> \o BodyText(s.b[1] \o s.b[2], d + 1)

MatchText(s, d) ==
  <<LineAt(d, <<"match">> \o ExprText(s.a[1]) \o <<":">>)>>
  \o Flat([j \in DOMAIN s.f |-> <<LineAt(d + 1, CasePattern(s.f[j]))>> \o BodyText(s.b[j], d + 2)])
IfText(s, d) ==
  <<LineAt(d, <<"if">> \o ExprText(s.a[1]) \o <<":">>)>> \o StmtsText(s.b[1], d + 1)
  \o (IF Len(s.b) = 1 THEN <<>> ELSE <<LineAt(d, <<"else", ":">>)>> \o StmtsText(s.b[2], d + 1))
TryText(s, d) ==
  <<LineAt(d, <<"try", ":">>)>> \o BodyText(s.b[1], d + 1) \o <<LineAt(d, ExceptClause(s.f, s.n))>> \o BodyText(s.b[2], d + 1)
LoopText(s, d) ==
  LET x == [i \in DOMAIN s.a |-> ExprText(s.a[i])]
      head == CASE s.k = "while" -> <<"while">> \o x[1]
                [] s.k = "for each" -> <<"for", s.n, "in">> \o x[1]
                [] s.k = "for range" -> <<"for", s.n, "in", "range", "(">> \o x[1] \o <<",">> \o x[2] \o <<")">>
  IN <<LineAt(d, head \o <<":">>)>> \o BodyText(s.b[1], d + 1)

\* Statements of one line.
LineText(s) ==
  LET x == [i \in DOMAIN s.a |-> ExprText(s.a[i])]
  IN CASE s.k = "union" -> <<"type", s.n, "=">> \o Separated([j \in DOMAIN s.f |-> <<s.f[j]>>], "|")
       [] s.k = "annotate" -> <<s.n, ":">> \o s.t
       [] s.k = "expr" -> x[1]
       [] s.k = "assign" -> Annotated(s.n, s.t) \o <<"=">> \o x[1]
       [] s.k = "attr assign" -> x[1] \o <<".", s.n, "=">> \o x[2]
       [] s.k = "index assign" -> x[1] \o <<"[">> \o x[2] \o <<"]", "=">> \o x[3]
       [] s.k \in {"return", "raise"} -> <<s.k>> \o Flat(x)
       [] OTHER -> <<s.k>> \* pass, break, continue

StmtText(s, d) ==
  CASE s.k = "def" -> FunctionText(s, d)
    [] s.k = "class" -> ClassText(s, d)
    [] s.k = "match" -> MatchText(s, d)
    [] s.k = "if" -> IfText(s, d)
    [] s.k = "try" -> TryText(s, d)
    [] s.k \in {"while", "for each", "for range"} -> LoopText(s, d)
    [] OTHER -> <<LineAt(d, LineText(s))>>

ImportText(i) == LineAt(0, <<"from", i.from, "import">> \o Separated([j \in DOMAIN i.names |-> <<i.names[j]>>], ","))

\* Module.PySource, without its blank lines.
PySource(mod) ==
  <<LineAt(0, <<"from", "__future__", "import", "annotations">>)>>
  \o [i \in DOMAIN mod.imports |-> ImportText(mod.imports[i])] \o StmtsText(mod.stmts, 0)

-----------------------------------------------------------------------------
(* How Python reads it: expressions by precedence, blocks by depth.        *)

Compared == {"in", "==", "!=", "<", "<=", ">", ">="}
Binds(op) == CASE op = "or" -> 1 [] op = "and" -> 2 [] op \in Compared -> 4 [] op = "|" -> 5
               [] op \in {"+", "-"} -> 6 [] op \in {"*", "//", "%"} -> 7 [] OTHER -> 0

Got(e, i) == [e |-> e, i |-> i]
TokenAt(t, i) == IF i <= Len(t) THEN t[i] ELSE ""

RECURSIVE ReadExpr(_, _, _), ReadTail(_, _, _, _), ReadItems(_, _, _)
\* Items up to a closing bracket: keyword, expression, and what follows a colon.
ReadItems(t, i, close) ==
  IF TokenAt(t, i) = close THEN Got(<<>>, i + 1)
  ELSE LET kw == IF TokenAt(t, i + 1) = "=" THEN <<t[i]>> ELSE <<>>
           x == ReadExpr(t, i + 2 * Len(kw), 0)
           y == IF TokenAt(t, x.i) = ":" THEN ReadExpr(t, x.i + 1, 0) ELSE Got(<<>>, x.i)
           rest == ReadItems(t, y.i + (IF TokenAt(t, y.i) = "," THEN 1 ELSE 0), close)
       IN IF TokenAt(t, y.i) \notin {",", close} THEN Got(<<>>, Len(t) + 2)
          ELSE Got(<<[kw |-> kw, x |-> x.e, y |-> y.e]>> \o rest.e, rest.i)
\* An expression from token i, of operators that bind tighter than p.
ReadExpr(t, i, p) ==
  LET here == TokenAt(t, i)
      items == ReadItems(t, i + 1, IF here = "[" THEN "]" ELSE "}")
      firsts == [j \in DOMAIN items.e |-> items.e[j].x]
      inner == ReadExpr(t, i + 1, IF here = "(" THEN 0 ELSE IF here = "not" THEN 3 ELSE 8)
      start == CASE here \in {"", ")", "]", "}", ",", ":", "="} -> Got(PyExpr("nothing", "", <<>>, <<>>), Len(t) + 2)
                 [] here = "(" -> Got(inner.e, IF TokenAt(t, inner.i) = ")" THEN inner.i + 1 ELSE Len(t) + 2)
                 [] here \in {"not", "-"} -> Got(UnaryExpr(here, inner.e), inner.i)
                 [] here = "[" -> Got(PyExpr("list", "", <<>>, firsts), items.i)
                 [] here = "{" /\ (firsts = <<>> \/ items.e[1].y # <<>>) ->
                      Got(PyExpr("dict", "", <<>>, firsts \o [j \in DOMAIN items.e |-> items.e[j].y]), items.i)
                 [] here = "{" -> Got(PyExpr("set", "", <<>>, firsts), items.i)
                 [] OTHER -> Got(PyExpr("word", here, <<>>, <<>>), i + 1)
  IN ReadTail(t, start.e, start.i, p)
ReadTail(t, e, i, p) ==
  LET op == TokenAt(t, i)
      args == ReadItems(t, i + 1, ")")
      subs == ReadItems(t, i + 1, "]")
      one == subs.e[1]
      right == ReadExpr(t, i + 1, Binds(op))
  IN CASE op = "." -> ReadTail(t, Attribute(e, TokenAt(t, i + 1)), i + 2, p)
       [] op = "(" -> ReadTail(t, PyExpr("call", "", Flat([j \in DOMAIN args.e |-> args.e[j].kw]),
                                         <<e>> \o [j \in DOMAIN args.e |-> args.e[j].x]), args.i, p)
       [] op = "[" /\ Len(subs.e) = 1 ->
            ReadTail(t, IF one.y = <<>> THEN PyExpr("index", "", <<>>, <<e, one.x>>)
                        ELSE PyExpr("slice", "", <<>>, <<e, one.x, one.y>>), subs.i, p)
       [] Binds(op) > p -> ReadTail(t, BinaryExpr(e, op, right.e), right.i, p)
       [] OTHER -> Got(e, i)

RECURSIVE AsRead(_)
\* The tree as the reader builds it: a name and a literal are one word each.
AsRead(e) ==
  LET a == [i \in DOMAIN e.a |-> AsRead(e.a[i])]
  IN CASE e.k \in {"name", "literal"} -> PyExpr("word", e.n, <<>>, <<>>)
       [] e.k = "equal" -> BinaryExpr(a[1], "==", a[2])
       [] OTHER -> [e EXCEPT !.a = a]

ReadsBack(e) == LET t == ExprText(e) IN ReadExpr(t, 1, 0) = Got(AsRead(e), Len(t) + 1)

\* A block opens after every line that ends in a colon and nowhere else, one
\* level deeper; an annotation or a condition left empty would show here too.
BlocksOpen(lines) ==
  \A i \in DOMAIN lines :
    LET toks == lines[i].toks
        opens == toks[Len(toks)] = ":"
    IN /\ opens => /\ i < Len(lines) /\ lines[i + 1].depth = lines[i].depth + 1
                   /\ toks[1] \in {"def", "class", "match", "case", "if", "else", "try", "except", "while", "for"}
       /\ ~opens /\ i < Len(lines) => lines[i + 1].depth <= lines[i].depth
=============================================================================
