----------------------------- MODULE MochiTypes -----------------------------
(***************************************************************************)
(* Mochi's static types and their two unifiers (types/kinds.go, unify.go,  *)
(* subst.go, poly.go).  A type is a tree: its kind, the name it carries,   *)
(* the names of its fields or variants, and its component types.  A        *)
(* function's components are its parameters, the element of its variadic   *)
(* tail if it has one, and its return type.                                *)
(***************************************************************************)
EXTENDS Evaluation

CONSTANTS
  UnifyInputs, \* pairs of types to unify
  Images       \* variable-free types a variable may stand for

Ty(k, n, f, a) == [k |-> k, n |-> n, f |-> f, a |-> a]
Plain(k) == Ty(k, "", <<>>, <<>>)
Made(k, a) == Ty(k, "", <<>>, a)
TyVar(n) == Ty("var", n, <<>>, <<>>)
AnyTy == Plain("any")
FunTy(params, ret) == Made("func", Append(params, ret))
VariadicTy(params, elem, ret) == Ty("func", "variadic", <<>>, params \o <<elem, ret>>)
ParamsOf(t) == SubSeq(t.a, 1, Len(t.a) - (IF t.n = "variadic" THEN 2 ELSE 1))
ReturnOf(t) == t.a[Len(t.a)]

ElementKinds == {"set", "list", "chan", "stream", "sub", "future", "option"}
KeyedKinds == {"map", "omap", "group"}
Numeric == {"int", "int64", "bigint", "bigrat", "float"}

RECURSIVE Nodes(_)
\* The type and everything it is made of.
Nodes(t) == {t} \cup UNION {Nodes(t.a[i]) : i \in DOMAIN t.a}
HasVar(t) == \E u \in Nodes(t) : u.k = "var"
HasAny(t) == \E u \in Nodes(t) : u.k = "any"

-----------------------------------------------------------------------------
(* Substitutions.                                                          *)

\* Where following the bindings of a cyclic substitution never ends.
Endless == Plain("endless")
Finite(t) == Endless \notin Nodes(t)

RECURSIVE ApplyChasing(_, _, _)
\* Subst.Apply: bound variables are chased, unions are left alone.
ApplyChasing(sub, t, chased) ==
  CASE t.k = "var" ->
         IF t.n \notin DOMAIN sub THEN t
         ELSE IF t.n \in chased THEN Endless
         ELSE ApplyChasing(sub, sub[t.n], chased \cup {t.n})
    [] t.k = "union" -> t
    [] OTHER -> [t EXCEPT !.a = [i \in DOMAIN @ |-> ApplyChasing(sub, @[i], chased)]]
Apply(sub, t) == ApplyChasing(sub, t, {})

NoBindings == [x \in {} |-> AnyTy]
Bound(sub, n, t) == (n :> t) @@ sub

\* Subst.Compose: sub applied to other's images, sub's own bindings winning.
Compose(sub, other) == sub @@ [n \in DOMAIN other |-> Apply(sub, other[n])]

\* The kinds the occurs check looks into.
Searched == {"set", "list", "map", "omap", "option", "group", "func", "struct"}

RECURSIVE Occurs(_, _, _)
Occurs(n, t, sub) ==
  CASE t.k = "var" -> t.n = n \/ (t.n \in DOMAIN sub /\ Occurs(n, sub[t.n], sub))
    [] t.k \in Searched -> \E i \in DOMAIN t.a : Occurs(n, t.a[i], sub)
    [] OTHER -> FALSE

Unified(sub) == [ok |-> TRUE, sub |-> sub]

\* Mutant: a variable is bound without the occurs check.
BindUnchecked(sub, n, t) == IF t = TyVar(n) THEN Unified(sub) ELSE Unified(Bound(sub, n, t))

\* Subst.Bind.
Bind(sub, n, t) ==
  IF t = TyVar(n) THEN Unified(sub)
  ELSE IF Occurs(n, t, sub) THEN Bad
  ELSE Unified(Bound(sub, n, t))

RECURSIVE UnifyInto(_, _, _), UnifyAll(_, _, _, _)
\* Components pair by pair, each under the bindings of those before it.
UnifyAll(as, bs, i, sub) ==
  IF i > Len(as) THEN Unified(sub)
  ELSE LET one == UnifyInto(as[i], bs[i], sub)
       IN IF one.ok THEN UnifyAll(as, bs, i + 1, one.sub) ELSE one
\* unifyInto: variables first, then any, then kind by kind.
UnifyInto(a0, b0, sub) ==
  LET a == Apply(sub, a0)
      b == Apply(sub, b0)
  IN CASE ~Finite(a) \/ ~Finite(b) -> [ok |-> FALSE, endless |-> TRUE]
       [] a.k = "var" -> IF a = b THEN Unified(sub) ELSE Bind(sub, a.n, b)
       [] b.k = "var" -> Bind(sub, b.n, a)
       [] "any" \in {a.k, b.k} -> Unified(sub)
       [] a.k # b.k \/ a.k = "value" -> Bad
       [] a.k \in {"struct", "union"} -> IF a.n = b.n THEN Unified(sub) ELSE Bad
       [] OTHER -> IF a.n = b.n /\ Len(a.a) = Len(b.a) THEN UnifyAll(a.a, b.a, 1, sub) ELSE Bad

UnifyTypes(a, b, sub) == UnifyInto(a, b, sub)

-----------------------------------------------------------------------------
(* The older unifier, which most of the checker still calls, without a     *)
(* substitution: a variable then matches only itself.                      *)

\* The numeric kinds b that a value of kind a unifies with.
Widened(k) == CASE k = "int" -> {"int", "bigint"}
                [] k = "int64" -> {"int64", "int"}
                [] k = "bigint" -> {"bigint", "int", "int64"}
                [] k = "bigrat" -> Numeric
                [] OTHER -> {k}
Scalars == Numeric \cup {"string", "bool", "unit", "value"}

FieldAt(t, name) == CHOOSE i \in DOMAIN t.f : t.f[i] = name
VariantOf(u, s) == s.n \in {u.f[i] : i \in DOMAIN u.f}

RECURSIVE LegacyUnify(_, _)
LegacyUnify(a, b) ==
  CASE b.k = "any" \/ a.k = "any" -> TRUE
    [] a.k = "var" -> b = a
    [] a.k \in Scalars -> b.k \in Widened(a.k)
    [] a.k \in {"list", "map", "chan", "stream", "sub", "future", "option", "group"} ->
         b.k = a.k /\ \A i \in DOMAIN a.a : LegacyUnify(a.a[i], b.a[i])
    [] a.k = "struct" ->
         CASE b.k = "struct" ->
                /\ "" \in {a.n, b.n} \/ a.n = b.n
                /\ Len(a.f) = Len(b.f)
                /\ \A i \in DOMAIN a.f : /\ a.f[i] \in {b.f[j] : j \in DOMAIN b.f}
                                         /\ LegacyUnify(a.a[i], b.a[FieldAt(b, a.f[i])])
           [] b.k = "union" -> VariantOf(b, a) /\ LegacyUnify(a, b.a[FieldAt(b, a.n)])
           [] OTHER -> FALSE
    [] a.k = "union" ->
         \/ b.k = "union" /\ a.n = b.n
         \/ b.k = "struct" /\ VariantOf(a, b) /\ LegacyUnify(a.a[FieldAt(a, b.n)], b)
    [] a.k = "func" -> /\ b.k = "func" /\ a.n = b.n /\ Len(a.a) = Len(b.a)
                       /\ \A i \in DOMAIN a.a : LegacyUnify(a.a[i], b.a[i])
    [] OTHER -> FALSE \* sets and ordered maps have no case

-----------------------------------------------------------------------------
(* Type parameters.                                                        *)

RECURSIVE FreeTypeVars(_, _)
FreeTypeVars(t, sub) ==
  CASE t.k = "var" -> IF t.n \in DOMAIN sub THEN FreeTypeVars(sub[t.n], sub) ELSE {t.n}
    [] t.k = "union" -> {}
    [] OTHER -> UNION {FreeTypeVars(t.a[i], sub) : i \in DOMAIN t.a}

\* Instantiate: FreshTypeVar's "#" cannot occur in a declared name.
Instantiate(t, params) ==
  LET fresh == [n \in {params[i] : i \in DOMAIN params} |-> TyVar(n \o "#")]
  IN [sig |-> Apply(fresh, t), sub |-> fresh]

-----------------------------------------------------------------------------
MochiTypesInit == Called("unify", UnifyInputs)
MochiTypesNext == Evaluate("unify", LAMBDA p : UnifyTypes(p[1], p[2], NoBindings))

-----------------------------------------------------------------------------
(* Properties.                                                             *)

\* A variable sits below a channel, stream, subscription or future: the occurs
\* check does not look there.
Unsearched(t) == \E u \in Nodes(t) : u.k \in {"chan", "stream", "sub", "future"} /\ HasVar(u)
\* Records without a name are told apart by their fields in no case of Unify.
Nameless(t) == \E u \in Nodes(t) : u.k = "struct" /\ u.n = ""

RECURSIVE Alike(_, _)
\* The same type, records and unions by name and any in place of anything.
Alike(a, b) ==
  \/ "any" \in {a.k, b.k}
  \/ /\ a.k = b.k /\ a.n = b.n
     /\ a.k \in {"struct", "union"} \/ (Len(a.a) = Len(b.a) /\ \A i \in DOMAIN a.a : Alike(a.a[i], b.a[i]))

Variables(a, b) == FreeTypeVars(a, NoBindings) \cup FreeTypeVars(b, NoBindings)

\* What Unify returns unifies its arguments, never runs into itself and, when
\* there is a common instance, exists and is the most general: every common
\* instance is an instance of it.  Excepted are variables below the kinds the
\* occurs check skips, and the opaque value type, which Unify never accepts.
UnifierCorrect ==
  Returned("unify") =>
    LET a == in[1]
        b == in[2]
        r == out[1]
        plain == ~\E t \in {a, b} : Unsearched(t) \/ Plain("value") \in Nodes(t)
    IN /\ r.ok /\ plain =>
            LET a1 == Apply(r.sub, a)
                b1 == Apply(r.sub, b)
            IN /\ Finite(a1) /\ Finite(b1) /\ Alike(a1, b1)
               /\ Apply(r.sub, a1) = a1
       /\ plain /\ ~HasAny(a) /\ ~HasAny(b) =>
            \A th \in [Variables(a, b) -> Images] :
              Apply(th, a) = Apply(th, b) =>
                r.ok /\ \A x \in DOMAIN th : Apply(th, Apply(r.sub, TyVar(x))) = th[x]
=============================================================================
