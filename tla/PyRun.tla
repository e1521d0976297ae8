-------------------------------- MODULE PyRun --------------------------------
(***************************************************************************)
(* What a Mochi program prints and what its Python module prints.  Mochi's *)
(* blocks are scopes, as the verifier and the lowerer of the intermediate  *)
(* form keep them; a Python function is one scope, and a name it assigns   *)
(* anywhere is local everywhere.                                           *)
(***************************************************************************)
EXTENDS PyLower

CONSTANTS
  Programs,    \* programs to lower: [name, records, unions, agents, funs, externs, foreign, main]
  ValueOf      \* the integers that literals stand for

\* Names with a meaning of their own in Python or in an emitted module.
Builtins == {"len", "int", "sorted", "list", "filter", "map", "set", "range", "ZeroDivisionError", "IndexError", "__name__"}
RuntimeNames == UNION {Elements(ImportTable[i].names) : i \in DOMAIN ImportTable}

-----------------------------------------------------------------------------
(* Values, faults and states.                                              *)

Val(t, v) == [t |-> t, v |-> v]
IntVal(n) == Val("int", n)
Fault(class, code) == Val("fault", [class |-> class, code |-> code])
Failing(vs) == {i \in DOMAIN vs : vs[i].t = "fault"}
FirstFault(vs) == vs[CHOOSE i \in Failing(vs) : \A j \in Failing(vs) : i <= j]

Running(env) == [env |-> env, out |-> <<>>, ctl |-> "", val |-> IntVal(0)]
Stop(st, ctl, v) == [st EXCEPT !.ctl = ctl, !.val = v]
ScopeOf(env, n) == {i \in DOMAIN env : n \in DOMAIN env[i]}
Here(env, n, v) == [env EXCEPT ![1] = (n :> v) @@ @]
Update(env, n, v) == LET i == CHOOSE i \in ScopeOf(env, n) : \A j \in ScopeOf(env, n) : i <= j IN [env EXCEPT ![i][n] = v]
Look(env, n) == env[CHOOSE i \in ScopeOf(env, n) : \A j \in ScopeOf(env, n) : i <= j][n]
NoNames == [n \in {} |-> IntVal(0)]

Sum(s) == LET f[i \in 0..Len(s)] == IF i = 0 THEN 0 ELSE f[i - 1] + s[i].v IN f[Len(s)]
SortedVals(s) == StableSort(s, LAMBDA x, y : x.v < y.v)

\* Integer arithmetic: division is the floor, by nothing it is a fault.
Arith(op, x, y) ==
  CASE op = "+" -> IntVal(x + y)
    [] op = "-" -> IntVal(x - y)
    [] op = "//" -> IF y = 0 THEN Fault("ZeroDivisionError", 5) ELSE IntVal(x \div y)
    [] op = "<" -> Val("bool", x < y)
    [] op = "==" -> Val("bool", x = y)

ArithOf == [AddI64 |-> "+", SubI64 |-> "-", DivI64 |-> "//", LtI64 |-> "<", EqI64 |-> "=="]
ExecutedExprs == {"Lit", "VarRef", "ListLit", "SetLiteral", "Append", "Len", "Index", "ListSortAsc", "SetToList", "ListSumI64", "VariantLit", "Call"}

-----------------------------------------------------------------------------
(* One machine for both languages: control is the same, scopes are not.    *)
(* ctx: py, funs (by name: params and body), and for Python the names that *)
(* are local to the function and those the module defines or imports.      *)

KindOf == [If |-> "if", While |-> "while", ForRange |-> "for range", ForEach |-> "for each", Break |-> "break", Continue |-> "continue",
           Return |-> "return", Match |-> "match", TryCatch |-> "try", Let |-> "let", Assign |-> "update", Call |-> "print",
           Panic |-> "panic", QueryScope |-> "scope"]
Kind(s) == IF s.k \in DOMAIN KindOf THEN KindOf[s.k] ELSE s.k

RECURSIVE Targets(_)
\* The names a Python function assigns.
Targets(stmts) ==
  UNION {LET s == stmts[i]
         IN (IF s.k \in {"assign", "annotate", "for each", "for range", "try"} THEN {s.n} ELSE {})
            \cup (IF s.k = "match" THEN UNION {{s.f[j].binds[b].name : b \in DOMAIN s.f[j].binds} : j \in DOMAIN s.f} ELSE {})
            \cup UNION {Targets(s.b[j]) : j \in DOMAIN s.b} : i \in DOMAIN stmts}

RECURSIVE EvalIr(_, _, _), EvalPy(_, _, _), RunBlock(_, _, _), RunStmt(_, _, _), RunNested(_, _, _, _), RunFor(_, _, _, _, _), RunWhile(_, _, _, _), RunArms(_, _, _, _, _), RunUser(_, _, _), Said(_, _, _)

\* A node over the values of its operands; the first fault of them is its own.
IrNode(e, a, env, ctx) ==
  IF Failing(a) # {} THEN FirstFault(a)
  ELSE CASE e.k = "Lit" -> IntVal(ValueOf[e.n])
         [] e.k = "VarRef" -> Look(env, e.n)
         [] e.k = "Binary" -> Arith(ArithOf[e.n], a[1].v, a[2].v)
         [] e.k = "ListLit" -> Val("list", a)
         [] e.k = "SetLiteral" -> Val("set", {a[i].v : i \in DOMAIN a})
         [] e.k = "Append" -> Val("list", Append(a[1].v, a[2]))
         [] e.k = "Len" -> IntVal(Len(a[1].v))
         [] e.k = "Index" -> IF a[2].v \in 0..(Len(a[1].v) - 1) THEN a[1].v[a[2].v + 1] ELSE Fault("IndexError", 4)
         [] e.k = "ListSortAsc" -> Val("list", SortedVals(a[1].v))
         [] e.k = "SetToList" -> Val("list", [i \in 1..Cardinality(a[1].v) |-> IntVal(Ascending(a[1].v)[i])])
         [] e.k = "ListSumI64" -> IntVal(Sum(a[1].v))
         [] e.k = "VariantLit" -> Val("variant", [n |-> e.n, f |-> [x \in Elements(e.f) |-> a[First(e.f, x)]]])
         [] e.k = "Call" -> RunUser(e.n, a, ctx).val
EvalIr(e, env, ctx) == IrNode(e, [i \in DOMAIN e.a |-> EvalIr(e.a[i], env, ctx)], env, ctx)

\* What a name means: a local, a name of the module, or a builtin.
PyNameValue(n, env, ctx) ==
  IF n \in ctx.locals THEN IF n \in DOMAIN env[1] THEN env[1][n] ELSE Fault("UnboundLocalError", 0)
  ELSE IF n \in ctx.globals \cup Builtins THEN Val("global", n) ELSE Fault("NameError", 0)

PyHelper(h, a) ==
  CASE h = "len" -> IntVal(Len(a[1].v))
    [] h = "sorted" -> Val("list", [i \in 1..Cardinality(a[1].v) |-> IntVal(Ascending(a[1].v)[i])])
    [] h = "sort_asc" -> Val("list", SortedVals(a[1].v))
    [] h = "sum_i64" -> IntVal(Sum(a[1].v))
    [] h = "set" -> Val("set", {})
    [] h = "MochiPanic" -> Val("error", [class |-> h, code |-> a[1].v])
    [] h = "_panic_code" -> IntVal(a[1].v.code)

PyNode(e, a, env, ctx) ==
  LET args == Tail(a)
  IN IF Failing(a) # {} THEN FirstFault(a)
     ELSE CASE e.k = "literal" -> IntVal(ValueOf[e.n])
            [] e.k = "name" -> PyNameValue(e.n, env, ctx)
            [] e.k = "attribute" -> Val("global", e.n)
            [] e.k = "binary" -> IF e.n = "+" /\ a[1].t = "list" THEN Val("list", a[1].v \o a[2].v) ELSE Arith(e.n, a[1].v, a[2].v)
            [] e.k = "list" -> Val("list", a)
            [] e.k = "set" -> Val("set", {a[i].v : i \in DOMAIN a})
            [] e.k = "index" -> IF a[2].v \in (-Len(a[1].v))..(Len(a[1].v) - 1)
                                THEN a[1].v[a[2].v + 1 + (IF a[2].v < 0 THEN Len(a[1].v) ELSE 0)] ELSE Fault("IndexError", 4)
            [] e.k = "call" ->
                 IF a[1].t # "global" THEN Fault("TypeError", 0)
                 ELSE IF a[1].v \in DOMAIN ctx.funs THEN RunUser(a[1].v, args, ctx).val
                 ELSE IF a[1].v \in ctx.variants THEN Val("variant", [n |-> a[1].v, f |-> [x \in Elements(e.f) |-> args[First(e.f, x)]]])
                 ELSE PyHelper(a[1].v, args)
EvalPy(e, env, ctx) == PyNode(e, [i \in DOMAIN e.a |-> EvalPy(e.a[i], env, ctx)], env, ctx)

Eval(e, env, ctx) == IF ctx.py THEN EvalPy(e, env, ctx) ELSE EvalIr(e, env, ctx)

\* What the calls in an expression, or in several in order, print: all of it up
\* to the first fault.
UserCall(e, a, ctx) ==
  IF ctx.py THEN e.k = "call" /\ a[1].t = "global" /\ a[1].v \in DOMAIN ctx.funs ELSE e.k = "Call"
SaidByAll(es, vals, env, ctx) ==
  LET reached == {i \in DOMAIN es : \A j \in Failing(vals) : i <= j}
  IN Flat([i \in 1..Cardinality(reached) |-> Said(es[i], env, ctx)])
Said(e, env, ctx) ==
  LET a == [i \in DOMAIN e.a |-> Eval(e.a[i], env, ctx)]
  IN SaidByAll(e.a, a, env, ctx)
     \o (IF Failing(a) # {} \/ ~UserCall(e, a, ctx) THEN <<>>
         ELSE IF ctx.py THEN RunUser(a[1].v, Tail(a), ctx).out ELSE RunUser(e.n, a, ctx).out)

Resumed(r) == Stop(r, "", r.val)
Finished(r) == IF r.ctl = "raise" THEN r ELSE Resumed(r)
\* A call of a function of the program, from a fresh scope of its own.
RunUser(n, args, ctx) ==
  LET fn == ctx.funs[n]
      env == <<[x \in Elements(fn.params) |-> args[First(fn.params, x)]]>>
  IN Finished(RunBlock(fn.body, Running(env), [ctx EXCEPT !.locals = fn.locals]))

RunBlock(blk, st, ctx) ==
  IF blk = <<>> \/ st.ctl # "" THEN st ELSE RunBlock(Tail(blk), RunStmt(Head(blk), st, ctx), ctx)

\* A block with names bound for it: in a scope of its own, or in the function's.
RunNested(blk, st, binds, ctx) ==
  IF ctx.py THEN RunBlock(blk, [st EXCEPT !.env[1] = binds @@ @], ctx)
  ELSE LET r == RunBlock(blk, [st EXCEPT !.env = <<binds>> \o @], ctx) IN [r EXCEPT !.env = Tail(@)]

\* After one turn r of a loop: out of it, or on with Again.
NextTurn(r, Again(_)) ==
  CASE r.ctl = "break" -> Resumed(r)
    [] r.ctl \in {"return", "raise"} -> r
    [] OTHER -> Again(Resumed(r))
RunFor(vals, i, s, st, ctx) ==
  IF i > Len(vals) THEN st
  ELSE NextTurn(RunNested(s.b[1], st, s.n :> vals[i], ctx), LAMBDA r : RunFor(vals, i + 1, s, r, ctx))

MaxTurns == 4 \* turns of a while loop before it counts as endless
RunWhile(s, st, ctx, turns) ==
  LET c == Eval(s.a[1], st.env, ctx)
  IN CASE turns > MaxTurns -> Stop(st, "raise", Fault("endless", 0))
       [] c.t = "fault" -> Stop(st, "raise", c)
       [] ~c.v -> st
       [] OTHER -> NextTurn(RunNested(s.b[1], st, NoNames, ctx), LAMBDA r : RunWhile(s, r, ctx, turns + 1))

\* The first case whose pattern and guard hold; Python keeps the names a case
\* bound before its guard failed.
RunArms(s, v, i, st, ctx) ==
  IF i > Len(s.f) THEN st
  ELSE LET c == s.f[i]
           binds == [x \in {c.binds[j].name : j \in DOMAIN c.binds} |->
                       v.v.f[c.binds[CHOOSE j \in DOMAIN c.binds : c.binds[j].name = x].field]]
           under == IF ctx.py THEN [st.env EXCEPT ![1] = binds @@ @] ELSE <<binds>> \o st.env
       IN IF ~c.wildcard /\ c.variant # v.v.n THEN RunArms(s, v, i + 1, st, ctx)
          ELSE IF c.guard # <<>> /\ ~Eval(c.guard[1], under, ctx).v
          THEN RunArms(s, v, i + 1, IF ctx.py THEN [st EXCEPT !.env = under] ELSE st, ctx)
          ELSE RunNested(s.b[i], st, IF c.wildcard THEN NoNames ELSE binds, ctx)

Printed(st, v) == [st EXCEPT !.out = Append(@, v)]

\* Behind a try block: its handler, when it catches what was raised.  Python
\* forgets the name the handler bound.
WithoutName(r, n) == [r EXCEPT !.env[1] = [x \in DOMAIN @ \ {n} |-> @[x]]]
Handled(s, r, ctx) ==
  IF r.ctl # "raise" THEN r
  ELSE IF ~ctx.py THEN RunNested(s.b[2], Resumed(r), s.n :> IntVal(r.val.v.code), ctx)
  ELSE IF r.val.v.class \notin Elements(s.f) THEN r
  ELSE WithoutName(RunBlock(s.b[2], Resumed([r EXCEPT !.env = Here(@, s.n, Val("error", r.val.v))]), ctx), s.n)

\* A statement over the values of its expressions.
RunWith(s, k, v, st, ctx) ==
  CASE Failing(v) # {} -> Stop(st, "raise", FirstFault(v))
    [] k = "let" -> [st EXCEPT !.env = Here(@, s.n, IF v = <<>> THEN IntVal(0) ELSE v[1])]
    [] k = "assign" -> [st EXCEPT !.env = Here(@, s.n, v[1])]
    [] k = "update" -> [st EXCEPT !.env = Update(@, s.n, v[1])]
    [] k \in {"pass", "annotate"} -> st
    [] k = "print" -> Printed(st, v[1])
    [] k = "expr" -> Printed(st, v[2]) \* Print.line
    [] k = "if" -> IF v[1].v THEN RunNested(s.b[1], st, NoNames, ctx)
                   ELSE IF Len(s.b) = 2 THEN RunNested(s.b[2], st, NoNames, ctx) ELSE st
    [] k = "scope" -> RunNested(s.b[1], st, NoNames, ctx)
    [] k = "while" -> RunWhile(s, st, ctx, 1)
    [] k = "for range" -> RunFor([i \in 1..(v[2].v - v[1].v) |-> IntVal(v[1].v + i - 1)], 1, s, st, ctx)
    [] k = "for each" -> RunFor(v[1].v, 1, s, st, ctx)
    [] k \in {"break", "continue"} -> Stop(st, k, st.val)
    [] k = "return" -> Stop(st, k, IF v = <<>> THEN st.val ELSE v[1])
    [] k = "match" -> RunArms(s, v[1], 1, st, ctx)
    [] k = "panic" -> Stop(st, "raise", Fault("MochiPanic", v[1].v))
    [] k = "raise" -> Stop(st, "raise", Val("fault", v[1].v))
    [] k = "try" -> Handled(s, RunNested(s.b[1], st, NoNames, ctx), ctx)
\* The expressions of a statement: a loop's condition is evaluated each turn, of a
\* call statement its function and its arguments.
Operands(s, k) == CASE k = "while" -> <<>> [] k = "expr" -> s.a[1].a [] OTHER -> s.a
RunStmt(s, st, ctx) ==
  LET k == Kind(s)
      ops == Operands(s, k)
      vals == [i \in DOMAIN ops |-> Eval(ops[i], st.env, ctx)]
  IN RunWith(s, k, vals, [st EXCEPT !.out = @ \o SaidByAll(ops, vals, st.env, ctx)], ctx)

\* What is printed, and whether the program dies.
Outcome(st) == [out |-> st.out, died |-> st.ctl = "raise"]

RunMochi(p) ==
  LET funs == [n \in {p.funs[i].n : i \in DOMAIN p.funs} |->
                 LET fn == p.funs[CHOOSE i \in DOMAIN p.funs : p.funs[i].n = n]
                 IN [params |-> [i \in DOMAIN fn.params |-> fn.params[i].n], body |-> fn.body, locals |-> {}]]
  IN Outcome(RunBlock(p.main, Running(<<NoNames>>), [py |-> FALSE, funs |-> funs, locals |-> {}, globals |-> {}, variants |-> {}]))

\* The module is executed from the top: later definitions replace imports.
RunPython(mod) ==
  LET defs == {i \in DOMAIN mod.stmts : mod.stmts[i].k = "def"}
      params(i) == [j \in DOMAIN mod.stmts[i].f |-> mod.stmts[i].f[j].n]
      funs == [n \in {mod.stmts[i].n : i \in defs} |->
                 LET i == CHOOSE i \in defs : mod.stmts[i].n = n /\ \A j \in defs : mod.stmts[j].n = n => j <= i
                 IN [params |-> params(i), body |-> mod.stmts[i].b[1], locals |-> Targets(mod.stmts[i].b[1]) \cup Elements(params(i))]]
      classes == {mod.stmts[i].n : i \in {i \in DOMAIN mod.stmts : mod.stmts[i].k = "class"}}
      imported == UNION {Elements(mod.imports[i].names) : i \in DOMAIN mod.imports}
  IN Outcome(RunUser("main", <<>>, [py |-> TRUE, funs |-> funs, locals |-> {}, variants |-> classes,
                                    globals |-> DOMAIN funs \cup classes \cup imported]))

-----------------------------------------------------------------------------
(* The notebook kernel runs a cell by its module, with main taken apart.   *)

Opens(line, words) == Upto(line.toks, Len(words)) = words

\* A line of the body, moved out by the depth of the body's first line.
Dedented(line, depth) == [line EXCEPT !.depth = @ - depth]

RECURSIVE UnwrapMain(_)
\* _unwrap_main: a def main at any depth is replaced by its body, the guard on
\* __name__ goes with its block.
UnwrapMain(lines) ==
  IF lines = <<>> THEN <<>>
  ELSE LET rest == Tail(lines)
           depth == IF rest = <<>> THEN 0 ELSE rest[1].depth
           leaves(least) == {i \in DOMAIN rest : rest[i].depth < least}
           block(least) == Upto(rest, IF leaves(least) = {} THEN Len(rest) ELSE Ascending(leaves(least))[1] - 1)
           body == IF depth = 0 THEN <<>> ELSE block(depth)
       IN CASE Opens(Head(lines), <<"def", "main">>) ->
                 [i \in DOMAIN body |-> Dedented(body[i], depth)] \o UnwrapMain(From(rest, Len(body) + 1))
            [] Opens(Head(lines), <<"if", "__name__">>) -> UnwrapMain(From(rest, Len(block(1)) + 1))
            [] OTHER -> <<Head(lines)>> \o UnwrapMain(rest)

-----------------------------------------------------------------------------
(* Properties of the lowered module.                                       *)

PyRunInit == Called("lower", Programs)
PyRunNext == Evaluate("lower", LowerProgram)

Lowered == Returned("lower") /\ out[1].ok
LoweredModule == out[1]

RECURSIVE Blocks(_), Distinct(_, _)
\* The statements of a block and of the blocks in it.
Blocks(stmts) == Elements(stmts) \cup UNION {UNION {Blocks(stmts[i].b[j]) : j \in DOMAIN stmts[i].b} : i \in DOMAIN stmts}

\* No name is bound in the block that is already seen where it is bound.
Distinct(blk, seen) ==
  \/ blk = <<>>
  \/ LET s == Head(blk)
         inner == (IF s.k \in {"ForRange", "ForEach", "TryCatch"} THEN {s.n} ELSE {})
                  \cup (IF s.k = "Match" THEN UNION {{x.name : x \in Elements(c.binds)} : c \in Elements(s.f)} ELSE {})
         own == IF s.k = "Let" THEN {s.n} ELSE {}
     IN /\ (inner \cup own) \cap seen = {}
        /\ \A b \in Elements(s.b) : Distinct(b, seen \cup inner)
        /\ Distinct(Tail(blk), seen \cup own)

\* The part of the language that is also executed.  A call statement in it is a
\* print: without externs no other one is lowered.  Loop conditions and guards
\* call no function.
Executed(p) ==
  LET bodies == {p.main} \cup {fn.body : fn \in Elements(p.funs)}
      conditions(s) == CASE s.k = "While" -> Elements(s.a)
                         [] s.k = "Match" -> UNION {Elements(c.guard) : c \in Elements(s.f)}
                         [] OTHER -> {}
  IN /\ p.agents = <<>> /\ p.records = <<>> /\ p.externs = <<>>
     /\ \A b \in bodies : /\ \A s \in Blocks(b) : /\ s.k \in DOMAIN KindOf
                                                 /\ \A e \in conditions(s) : \A x \in SubExprs(e) : x.k # "Call"
                          /\ \A e \in ExprsIn(b) : e.k \in ExecutedExprs \/ (e.k = "Binary" /\ e.n \in DOMAIN ArithOf)

FunNames(p) == {fn.n : fn \in Elements(p.funs)}
\* The program shadows nothing: no name of its own, none of a function.
NoShadowing(p, reserved) ==
  /\ Distinct(p.main, reserved \cup FunNames(p))
  /\ FunNames(p) \cap reserved = {}
  /\ \A fn \in Elements(p.funs) : LET params == {q.n : q \in Elements(fn.params)}
                                 IN params \cap (reserved \cup FunNames(p)) = {} /\ Distinct(fn.body, reserved \cup FunNames(p) \cup params)

\* The text reads back: what Python parses from it is the tree that was
\* lowered, and every block it opens has a line.
ModuleReadable ==
  Lowered => /\ \A e \in ExprsIn(LoweredModule.stmts) : ReadsBack(e)
             /\ BlocksOpen(PySource(LoweredModule))

\* Every name the module uses is one it binds, imports, or gets from Python.
NamesResolve ==
  Lowered =>
    LET all == Blocks(LoweredModule.stmts)
        defs == {s \in all : s.k = "def"}
        bound == {s.n : s \in {s \in Elements(LoweredModule.stmts) : s.k \in {"def", "class", "union"}}}
                 \cup UNION {Elements(i.names) : i \in Elements(LoweredModule.imports)} \cup Builtins
        named(stmts) == {e.n : e \in {e \in ExprsIn(stmts) : e.k = "name"}}
        caught(stmts) == UNION {Elements(s.f) : s \in {s \in Blocks(stmts) : s.k = "try"}}
        cases(stmts) == UNION {{c.variant : c \in {c \in Elements(s.f) : ~c.wildcard}} : s \in {s \in Blocks(stmts) : s.k = "match"}}
    IN /\ \A d \in defs : named(d.b[1]) \cup caught(d.b[1]) \cup cases(d.b[1])
                          \subseteq bound \cup Targets(d.b[1]) \cup {q.n : q \in Elements(d.f)}
       /\ \A c \in {s \in all : s.k = "class"} : Elements(c.f) \subseteq bound

\* A cell runs the module's declarations and then the statements of main, each
\* where main had it; agents whose intent is called main are left out.
CellIsMain ==
  Lowered /\ (\A ag \in Elements(in.agents) : \A m \in Elements(ag.intents) : m.n # "main") =>
    LET n == Len(LoweredModule.stmts)
    IN UnwrapMain(PySource(LoweredModule)) =
         PySource([LoweredModule EXCEPT !.stmts = Upto(@, n - 2)]) \o StmtsText(LoweredModule.stmts[n - 1].b[1], 0)

\* The emitted text is a Python module that means the tree it was written from,
\* finds all its names, and can be taken apart into a cell.
EmittedModule == ModuleReadable /\ NamesResolve /\ CellIsMain

\* Python prints what Mochi prints and dies when Mochi dies, for a program that
\* shadows no name and takes none of Python's or the runtime's.
SameOutput ==
  Lowered /\ Executed(in) /\ NoShadowing(in, Builtins \cup RuntimeNames \cup {"main", CatchBind}) =>
    RunPython(LoweredModule) = RunMochi(in)
=============================================================================
