------------------------------ MODULE TypeRules -----------------------------
(***************************************************************************)
(* The relations of the type checker (types/subtype.go, infer.go and       *)
(* check_expr.go): subtyping, assignability, the numeric lattice, binary   *)
(* operators as the checker and as the inferrer type them, and calls.      *)
(***************************************************************************)
EXTENDS MochiTypes

CONSTANTS
  RuleTypes,  \* types compared with each other
  Chains,     \* operator chains: [operands, ops]
  CallInputs  \* calls: [sig, params, args, live], the type parameters a sequence

RECURSIVE EqualKinds(_, _), SubtypeOf(_, _), AssignableAt(_, _, _), EqualTypes(_, _)
\* equalKinds: structural equality, records and unions by name.  Futures have no case.
EqualKinds(a, b) ==
  /\ a.k = b.k /\ a.n = b.n /\ a.k # "future"
  /\ \/ a.k = "union" \/ (a.k = "struct" /\ a.n # "")
     \/ a.f = b.f /\ Len(a.a) = Len(b.a) /\ \A i \in DOMAIN a.a : EqualKinds(a.a[i], b.a[i])

\* The numeric kinds above each kind.
Above(k) == CASE k = "int" -> {"int64", "bigint", "bigrat"}
              [] k = "int64" -> {"bigint", "bigrat"}
              [] k \in {"bigint", "float"} -> {"bigrat"}
              [] OTHER -> {}

\* Subtype: covariant elements of sets, lists and options, contravariant
\* parameters, a variant below its union, everything else invariant.
SubtypeOf(s, t) ==
  \/ EqualKinds(s, t) \/ t.k = "any" \/ t.k \in Above(s.k)
  \/ s.k \in {"set", "list", "option"} /\ t.k = s.k /\ SubtypeOf(s.a[1], t.a[1])
  \/ s.k = "struct" /\ t.k = "union" /\ VariantOf(t, s)
  \/ /\ s.k = "func" /\ t.k = "func" /\ s.n = t.n /\ Len(s.a) = Len(t.a)
     /\ \A i \in 1..(Len(s.a) - 1) : SubtypeOf(t.a[i], s.a[i])
     /\ SubtypeOf(ReturnOf(s), ReturnOf(t))

Containers == {"list", "map", "omap", "chan", "stream", "sub", "option"}
\* assignableAt: inside a container any is the element of an empty literal, and
\* outside options a value flows into an option of what it would flow into.
AssignableAt(src, dst, element) ==
  \/ dst.k = "any" \/ (element /\ src.k = "any")
  \/ IF src.k \in Containers /\ dst.k = src.k
     THEN \A i \in DOMAIN src.a : AssignableAt(src.a[i], dst.a[i], TRUE)
     ELSE IF dst.k = "option" /\ src.k # "option" THEN AssignableAt(src, dst.a[1], element)
     ELSE SubtypeOf(src, dst)
Assignable(src, dst) == AssignableAt(src, dst, FALSE)

\* equalTypes: like EqualKinds, but a variant equals its union, records are
\* equal by name even without one, and only these containers are compared.
EqualTypes(a, b) ==
  CASE a.k \in Scalars \cup {"any"} -> b.k = a.k
    [] a.k \in {"list", "map", "option", "group"} -> b.k = a.k /\ \A i \in DOMAIN a.a : EqualTypes(a.a[i], b.a[i])
    [] a.k = "struct" -> (b.k = "struct" /\ a.n = b.n) \/ (b.k = "union" /\ VariantOf(b, a))
    [] a.k = "union" -> (b.k = "union" /\ a.n = b.n) \/ (b.k = "struct" /\ VariantOf(a, b))
    [] a.k = "func" -> b.k = "func" /\ a.n = b.n /\ Len(a.a) = Len(b.a) /\ \A i \in DOMAIN a.a : EqualTypes(a.a[i], b.a[i])
    [] a.k = "var" -> a = b
    [] OTHER -> FALSE

\* castOk.
CastOk(from, to) ==
  \/ EqualTypes(from, to) \/ "any" \in {from.k, to.k} \/ {from.k, to.k} \subseteq Numeric
  \/ to.k = "struct" /\ (from.k = "map" \/ (from.k = "union" /\ VariantOf(from, to)))

\* numericJoin: float absorbs the machine integers and meets the others in bigrat.
NumericJoin(a, b) ==
  LET rank == <<"int", "int64", "bigint", "bigrat">>
      r(t) == First(rank, t.k)
  IN IF "float" \in {a.k, b.k}
     THEN Plain(IF {a.k, b.k} \cap {"bigint", "bigrat"} # {} THEN "bigrat" ELSE "float")
     ELSE Plain(rank[IF r(a) > r(b) THEN r(a) ELSE r(b)])

-----------------------------------------------------------------------------
(* Binary operators.                                                       *)

Arithmetic == {"+", "-", "*", "/", "%"}
Equality == {"==", "!="}
Comparison == Equality \cup {"<", "<=", ">", ">="}
SetOps == {"union", "union_all", "except", "intersect"}
Typed(t) == [ok |-> TRUE, type |-> t]
BoolTy == Plain("bool")
StrTy == Plain("string")

\* applyBinaryType: the type the checker gives to `left op right`.
ApplyBinary(op, left, right) ==
  LET numeric == {left.k, right.k} \subseteq Numeric
      text == op = "+" /\ (LegacyUnify(left, StrTy) \/ LegacyUnify(right, StrTy))
  IN CASE "any" \in {left.k, right.k} ->
            Typed(IF text THEN StrTy ELSE IF op \in Comparison \cup {"&&", "||", "in"} THEN BoolTy ELSE AnyTy)
       [] op \in SetOps \cup {"+"} /\ left.k = "list" /\ right.k = "list" ->
            IF LegacyUnify(left.a[1], right.a[1]) THEN Typed(left) ELSE Bad
       [] op \in Arithmetic -> IF numeric THEN Typed(NumericJoin(left, right)) ELSE IF text THEN Typed(StrTy) ELSE Bad
       [] op \in Comparison -> IF numeric \/ LegacyUnify(left, right) THEN Typed(BoolTy) ELSE Bad
       [] op = "in" ->
            IF CASE right.k \in {"map", "set", "list"} -> LegacyUnify(left, right.a[1])
                 [] OTHER -> LegacyUnify(left, StrTy) /\ LegacyUnify(right, StrTy)
            THEN Typed(BoolTy) ELSE Bad
       [] op \in {"&&", "||"} -> IF LegacyUnify(left, BoolTy) /\ LegacyUnify(right, BoolTy) THEN Typed(BoolTy) ELSE Bad
       [] op = "??" ->
            IF left.k # "option" THEN Bad
            ELSE IF right.k = "option"
            THEN Typed(Made("option", <<IF LegacyUnify(left.a[1], right.a[1]) THEN left.a[1] ELSE AnyTy>>))
            ELSE IF LegacyUnify(left.a[1], right) THEN Typed(left.a[1])
            ELSE IF {left.a[1].k, right.k} \subseteq Numeric THEN Typed(NumericJoin(left.a[1], right))
            ELSE Bad
       [] OTHER -> Bad

\* inferBinaryType: what the inferrer says of it; it never refuses.
InferBinary(op, left, right) ==
  CASE op \in Arithmetic ->
         IF {left.k, right.k} \subseteq Numeric THEN NumericJoin(left, right)
         ELSE IF op = "+" /\ left.k = "list"
         THEN IF right.k # "list" THEN Made("list", <<AnyTy>>)
              ELSE IF ~LegacyUnify(left.a[1], right.a[1]) THEN AnyTy
              ELSE IF left.a[1].k = "any" THEN right ELSE left
         ELSE IF op = "+" /\ left.k = "string" /\ right.k = "string" THEN StrTy ELSE AnyTy
    [] op \in Comparison \cup {"&&", "||", "in"} -> BoolTy
    [] op \in SetOps ->
         IF left.k # "list" THEN AnyTy
         ELSE IF right.k = "list" /\ EqualTypes(left.a[1], right.a[1]) THEN left ELSE Made("list", <<AnyTy>>)
    [] OTHER -> AnyTy

\* The operator levels, tightest first; the inferrer has no level for ??.
Levels == <<{"*", "/", "%"}, {"+", "-"}, {"<", "<=", ">", ">="}, Equality \cup {"in"}, {"&&"}, {"||"}, {"??"}, SetOps>>
InferLevels == SelectSeq(Levels, LAMBDA l : "??" \notin l)

\* The leftmost operator of the tightest level left in ops, 0 when none is.
NextOperator(levels, ops) ==
  LET at(l) == {i \in DOMAIN ops : ops[i] \in levels[l]}
      open == {l \in DOMAIN levels : at(l) # {}}
      tight == CHOOSE l \in open : \A m \in open : l <= m
  IN IF open = {} THEN 0 ELSE CHOOSE i \in at(tight) : \A j \in at(tight) : i <= j

Without(s, i) == SubSeq(s, 1, i - 1) \o SubSeq(s, i + 1, Len(s))

RECURSIVE Reduce(_, _, _), CheckChain(_, _), InferChain(_, _)
\* Precedence climbing over operands that are already typed.
Reduce(operands, ops, i) ==
  IF i = 0 THEN Typed(operands[1])
  ELSE LET r == ApplyBinary(ops[i], operands[i], operands[i + 1])
           rest == Without(ops, i)
       IN IF r.ok THEN Reduce([Without(operands, i + 1) EXCEPT ![i] = r.type], rest, NextOperator(Levels, rest)) ELSE Bad
\* checkBinaryExpr: split at the last || or else the last &&, then climb.
CheckChain(operands, ops) ==
  LET cut == IF LastOf(ops, "||") # 0 THEN LastOf(ops, "||") ELSE LastOf(ops, "&&")
      l == CheckChain(Upto(operands, cut), Upto(ops, cut - 1))
      r == CheckChain(From(operands, cut + 1), From(ops, cut + 1))
  IN IF cut = 0 THEN Reduce(operands, ops, NextOperator(Levels, ops))
     ELSE IF l.ok /\ r.ok THEN ApplyBinary(ops[cut], l.type, r.type) ELSE Bad
\* inferBinaryType over the chain: any when an operator is left over.
InferChain(operands, ops) ==
  LET i == NextOperator(InferLevels, ops)
  IN IF i = 0 THEN IF Len(operands) = 1 THEN operands[1] ELSE AnyTy
     ELSE InferChain([Without(operands, i + 1) EXCEPT ![i] = InferBinary(ops[i], operands[i], operands[i + 1])], Without(ops, i))

-----------------------------------------------------------------------------
(* Calls of functions with type parameters.                                *)

\* isAliasableAggregate.
Shared(t) == t.k \in {"list", "map", "struct"}

\* checkExprWithExpected: the value's type against the slot's.
Flows(actual, expected) == LegacyUnify(actual, expected) \/ Assignable(actual, expected)

RECURSIVE CheckArgs(_, _, _, _, _)
\* Mutant: each argument is unified on its own.
CheckArgsForgetful(params, args, live, i, sub) ==
  IF i > Len(args) THEN Unified(sub)
  ELSE LET next == UnifyTypes(args[i], params[i], NoBindings)
       IN IF ~next.ok /\ ~LegacyUnify(args[i], params[i]) THEN Bad
          ELSE CheckArgs(params, args, live, i + 1, IF next.ok THEN next.sub @@ sub ELSE sub)
\* The arguments one by one: checked against a parameter that mentions no
\* variable, then unified, with the older unifier to fall back on; an argument
\* that names live storage may not have its element type widened.
CheckArgs(params, args, live, i, sub) ==
  IF i > Len(args) THEN Unified(sub)
  ELSE LET want == Apply(sub, params[i])
           next == UnifyTypes(args[i], want, sub)
           kept == IF next.ok THEN next.sub ELSE sub
           final == Apply(kept, params[i])
       IN IF \/ FreeTypeVars(params[i], NoBindings) = {} /\ ~Flows(args[i], want)
             \/ ~next.ok /\ ~LegacyUnify(args[i], want)
             \/ live /\ Finite(final) /\ Shared(args[i]) /\ Shared(final) /\ ~EqualKinds(args[i], final)
          THEN Bad ELSE CheckArgs(params, args, live, i + 1, kept)

RECURSIVE Curried(_, _)
\* curryFuncType: the parameters still to come, one function each.
Curried(params, ret) == IF params = <<>> THEN ret ELSE FunTy(<<Head(params)>>, Curried(Tail(params), ret))

\* A bare `_` where a call has an argument.
Hole == Plain("_")

\* Partial application: the arguments given are checked against their
\* parameters and bind no type parameter; the others stay parameters.
CheckPartial(formal, args, ret, sub) ==
  LET holes == {i \in DOMAIN args : args[i] = Hole}
      want == [i \in DOMAIN formal |-> Apply(sub, formal[i])]
  IN IF \E i \in DOMAIN args \ holes : ~LegacyUnify(args[i], want[i]) THEN Bad
     ELSE [ok |-> TRUE, sub |-> sub, type |-> FunTy(KeptAt(want, holes), Apply(sub, ret))]

\* The call case of checkPrimary, for functions without a variadic tail.  With
\* fewer arguments than parameters a `_` is an undefined name.
CheckCall(sig, params, args, live) ==
  LET inst == Instantiate(sig, params)
      formal == ParamsOf(inst.sig)
      done == CheckArgs(formal, args, live, 1, inst.sub)
      ret == Apply(done.sub, ReturnOf(inst.sig))
      holes == First(args, Hole) # 0
  IN IF holes /\ Len(args) = Len(formal) THEN CheckPartial(formal, args, ReturnOf(inst.sig), inst.sub)
     ELSE
     IF \/ Len(args) > Len(formal) \/ holes \/ ~done.ok
        \/ params # <<>> /\ Len(args) = Len(formal) /\ FreeTypeVars(ret, done.sub) # {}
     THEN Bad
     ELSE [ok |-> TRUE, sub |-> done.sub, type |-> Curried(From(formal, Len(args) + 1), ret)]

-----------------------------------------------------------------------------
TypeRulesInit == Called("rules", RuleTypes \X RuleTypes \X RuleTypes) \/ Called("chain", Chains) \/ Called("call", CallInputs)
TypeRulesNext ==
  \/ Evaluate("rules", LAMBDA p : [below |-> [i, j \in 1..3 |-> SubtypeOf(p[i], p[j])], flows |-> [i, j \in 1..3 |-> Assignable(p[i], p[j])]])
  \/ Evaluate("chain", LAMBDA c : [checked |-> CheckChain(c.operands, c.ops), inferred |-> InferChain(c.operands, c.ops)])
  \/ Evaluate("call", LAMBDA c : CheckCall(c.sig, c.params, c.args, c.live))

-----------------------------------------------------------------------------
(* Properties.                                                             *)

HasFuture(t) == \E u \in Nodes(t) : u.k = "future"

\* Subtyping is a partial order on the kinds it knows: reflexive except for
\* futures, transitive, and antisymmetric up to equalKinds.
SubtypeOrder ==
  LET le == out[1].below
  IN /\ \A i \in 1..3 : le[i, i] <=> ~HasFuture(in[i])
     /\ le[1, 2] /\ le[2, 3] => le[1, 3]
     /\ le[1, 2] /\ le[2, 1] => EqualKinds(in[1], in[2])

\* What is a subtype may be assigned, what is equal may be cast, and of the two
\* directions of a cast between numbers both are open; any itself flows only
\* into any, optional or not.
RelationsNest ==
  \A i, j \in 1..3 :
    /\ out[1].below[i, j] => out[1].flows[i, j]
    /\ EqualTypes(in[i], in[j]) => CastOk(in[i], in[j])
    /\ in[i].k = "any" /\ out[1].flows[i, j] => AnyTy \in Nodes(in[j])

\* The join of two numeric kinds is the least upper bound of both in the subtype
\* order with the machine integers put below float.
JoinIsLeast ==
  {in[1].k, in[2].k} \subseteq Numeric =>
    LET j == NumericJoin(in[1], in[2])
        under(s, t) == SubtypeOf(s, t) \/ (s.k \in {"int", "int64"} /\ t.k = "float")
    IN /\ j = NumericJoin(in[2], in[1])
       /\ under(in[1], j) /\ under(in[2], j)
       /\ in[3].k \in Numeric /\ under(in[1], in[3]) /\ under(in[2], in[3]) => under(j, in[3])

\* subtype.go, infer.go: the relations of the checker fit together.
TypeRelations == Returned("rules") => SubtypeOrder /\ RelationsNest /\ JoinIsLeast

\* The inferrer never contradicts the checker on an expression the checker
\* accepts: where it knows a type at all, it is the checker's up to any.  Two
\* things part them: an operand of type any, with which the checker takes + to
\* give a string and || to split a chain below the set operators; and a list
\* added to a string, a string to the checker and a list to the inferrer.
InferrerAgrees ==
  Returned("chain") /\ out[1].checked.ok =>
    LET kinds == {in.operands[i].k : i \in DOMAIN in.operands}
    IN \/ Alike(out[1].inferred, out[1].checked.type)
       \/ "any" \in kinds \/ {"list", "string"} \subseteq kinds

\* A call of all parameters accepted for arguments without variables or any
\* (and without a `_`, which leaves the callee's variables) makes every parameter
\* its argument's type, up to the widening of numbers and options, and the
\* return type the instance of the declared one; no variable of the callee or
\* of the caller is left in it.
GenericCallExact ==
  Returned("call") /\ out[1].ok /\ Len(in.args) = Len(ParamsOf(in.sig)) /\ First(in.args, Hole) = 0 =>
    LET r == out[1]
        inst == Instantiate(in.sig, in.params)
        want(i) == Apply(r.sub, ParamsOf(inst.sig)[i])
    IN /\ ~HasVar(r.type)
       /\ \A i \in DOMAIN in.args : ~HasVar(in.args[i]) /\ ~HasAny(in.args[i]) => Flows(in.args[i], want(i))

\* types/: subtyping, assignment and casts nest, the inferrer agrees with the
\* checker, and a generic call is typed by one consistent instance.
TypesAgree == TypeRelations /\ InferrerAgrees /\ GenericCallExact
=============================================================================
