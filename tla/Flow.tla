-------------------------------- MODULE Flow --------------------------------
(***************************************************************************)
(* What the checker knows beyond declared types: which optional variables  *)
(* are present in a branch (types/narrow.go, env.go, checkIfStmt).         *)
(***************************************************************************)
EXTENDS TypeRules

CONSTANT Branches \* if statements: [cond, value, mutable, body]

-----------------------------------------------------------------------------
(* Scopes: the innermost first.  narrowed are the names whose type here is *)
(* a shadow of the declared one.                                           *)

NewScope == [types |-> NoBindings, mut |-> [n \in {} |-> TRUE], narrowed |-> {}]
NewEnv(env) == <<NewScope>> \o env
SetVar(env, n, t, m) == [env EXCEPT ![1].types = Bound(@, n, t), ![1].mut = (n :> m) @@ @]
Binding(env, n) == {i \in DOMAIN env : n \in DOMAIN env[i].types}
Innermost(is) == CHOOSE i \in is : \A j \in is : i <= j
GetVar(env, n) == env[Innermost(Binding(env, n))].types[n]
IsMutable(env, n) == env[Innermost(Binding(env, n))].mut[n]
DeclaredVarType(env, n) ==
  LET plain == {i \in Binding(env, n) : n \notin env[i].narrowed}
      from == IF plain # {} THEN plain ELSE {Len(env)}
  IN env[Innermost(from)].types[n]
ShadowedNames(env) == UNION {env[i].narrowed : i \in DOMAIN env}

\* narrowedEnv: a scope in which the names have the tightened types.
NarrowedEnv(env, types) ==
  IF DOMAIN types = {} THEN env
  ELSE <<[types |-> types, mut |-> [n \in DOMAIN types |-> IsMutable(env, n)], narrowed |-> DOMAIN types]>> \o env

\* closureBoundaryEnv: declared types again for every shadowed name.
ClosureBoundaryEnv(env) ==
  LET shadowed == ShadowedNames(env)
  IN IF shadowed = {} THEN env
     ELSE <<[types |-> [n \in shadowed |-> DeclaredVarType(env, n)],
             mut |-> [n \in shadowed |-> IsMutable(env, n)], narrowed |-> {}]>> \o env

\* Mutant: variables keep their narrowing across a call.
DropNothing(env) == env

\* dropMutableNarrowings: declared types again for the shadowed variables,
\* unless the scope at hand binds the name itself.
DropMutableNarrowings(env) ==
  LET lost == {n \in ShadowedNames(env) : IsMutable(env, n) /\ n \notin DOMAIN env[1].types}
  IN [env EXCEPT ![1].types = [n \in lost |-> DeclaredVarType(env, n)] @@ @,
                 ![1].mut = [n \in lost |-> TRUE] @@ @]

-----------------------------------------------------------------------------
(* Conditions: chains of operands ("none", a name, another value) and      *)
(* operators, as parsed.                                                   *)

Narrowed(truthy, falsy) == [truthy |-> truthy, falsy |-> falsy]

RECURSIVE OptionNarrowing(_, _, _)
\* optionNarrowingBinary: split at the last || or else the last &&, the right
\* side under what the left side leaves; one comparison with none tightens.
OptionNarrowing(operands, ops, env) ==
  LET or == LastOf(ops, "||") # 0
      cut == IF or THEN LastOf(ops, "||") ELSE LastOf(ops, "&&")
      l == OptionNarrowing(Upto(operands, cut), Upto(ops, cut - 1), env)
      r == OptionNarrowing(From(operands, cut + 1), From(ops, cut + 1), NarrowedEnv(env, IF or THEN l.falsy ELSE l.truthy))
      names == {operands[i] : i \in DOMAIN operands} \ {"none"}
      n == CHOOSE m \in names : TRUE
      tight == n :> GetVar(env, n).a[1]
  IN IF cut # 0
     THEN IF or THEN Narrowed(NoBindings, r.falsy @@ l.falsy) ELSE Narrowed(r.truthy @@ l.truthy, NoBindings)
     ELSE IF \/ Len(ops) # 1 \/ ops[1] \notin Equality
             \/ Cardinality(names) # 1 \/ "none" \notin {operands[1], operands[2]}
             \/ GetVar(env, n).k # "option"
          THEN Narrowed(NoBindings, NoBindings)
     ELSE IF ops[1] = "!=" THEN Narrowed(tight, NoBindings) ELSE Narrowed(NoBindings, tight)

-----------------------------------------------------------------------------
(* A branch, statement by statement: the scopes and the values together.   *)

OptInt == Made("option", <<Plain("int")>>)
NoneType == Made("option", <<AnyTy>>)

\* The type of what a statement assigns.
AssignedType(s) == CASE s.value = "none" -> NoneType [] s.value = "opt" -> OptInt [] OTHER -> Plain("int")

\* statementHasImpureCall: only the leftmost operand's callee is looked at.
StatementHasImpureCall(s) == s.stmt = "call" /\ s.leftmost /\ s.effects # {}

\* The assignment and expression cases of checkStmt, and the values they leave.
CheckStatement(s, at) ==
  LET lhs == DeclaredVarType(at.env, s.name)
      rhs == AssignedType(s)
      fits == IsMutable(at.env, s.name) /\ (LegacyUnify(lhs, rhs) \/ Assignable(rhs, lhs))
  IN IF s.stmt = "assign"
     THEN [ok |-> fits, value |-> [at.value EXCEPT ![s.name] = IF s.value = "some" THEN "some" ELSE "none"],
           env |-> IF HasAny(rhs) THEN at.env ELSE SetVar(at.env, s.name, rhs, TRUE)]
     ELSE [ok |-> TRUE, env |-> at.env, value |-> [n \in DOMAIN at.value |-> IF n \in s.mutates /\ IsMutable(at.env, n) THEN "none" ELSE at.value[n]]]

RECURSIVE CheckBody(_, _, _)
CheckBody(body, i, at) ==
  IF i > Len(body) \/ ~at.ok THEN <<at>>
  ELSE LET next == CheckStatement(body[i], at)
           after == IF StatementHasImpureCall(body[i]) THEN [next EXCEPT !.env = DropMutableNarrowings(@)] ELSE next
       IN <<at>> \o CheckBody(body, i + 1, after)

RECURSIVE Holds(_, _, _)
\* The value of a condition: || over && over single comparisons and values.
Holds(operands, ops, value) ==
  LET or == First(ops, "||")
      and == First(ops, "&&")
      cut == IF or # 0 THEN or ELSE and
      v(o) == IF o = "none" THEN "none" ELSE value[o]
      l == Holds(Upto(operands, cut), Upto(ops, cut - 1), value)
      r == Holds(From(operands, cut + 1), From(ops, cut + 1), value)
  IN IF cut # 0 THEN IF or # 0 THEN l \/ r ELSE l /\ r
     ELSE IF Len(ops) = 0 THEN value[operands[1]] = "some"
     ELSE (v(operands[1]) = v(operands[2])) <=> (ops[1] = "==")

\* checkIfStmt on the branch the values lead to: the state before the body and
\* after each statement of it.
CheckIfStmt(b) ==
  LET root == <<[types |-> [n \in DOMAIN b.value |-> OptInt], mut |-> [n \in DOMAIN b.value |-> n \in b.mutable], narrowed |-> {}]>>
      how == OptionNarrowing(b.cond.operands, b.cond.ops, root)
      taken == IF Holds(b.cond.operands, b.cond.ops, b.value) THEN how.truthy ELSE how.falsy
  IN CheckBody(b.body, 1, [ok |-> TRUE, env |-> NewEnv(NarrowedEnv(root, taken)), value |-> b.value])

-----------------------------------------------------------------------------
FlowInit == Called("branch", Branches)
FlowNext == Evaluate("branch", CheckIfStmt)

-----------------------------------------------------------------------------
(* Properties.                                                             *)

\* Statements the checker does not see through: none assigned to a narrowed
\* variable, and a call that clears a variable but is not the leftmost operand,
\* has no effect label, or comes after an assignment to it in the branch.
Unseen(body, i) ==
  LET s == body[i]
  IN IF s.stmt = "assign" THEN s.value = "none"
     ELSE s.mutates # {} /\ (~StatementHasImpureCall(s) \/ \E j \in 1..(i - 1) : body[j].stmt = "assign" /\ body[j].name \in s.mutates)

\* narrow.go: in a branch, and after every statement of it that the checker
\* accepts and sees through, a variable typed as present is present; a let is
\* narrowed for good, and a closure made anywhere sees declared types only.
NarrowingSound ==
  Returned("branch") =>
    \A i \in DOMAIN out[1] :
      LET at == out[1][i]
      IN (at.ok /\ ~\E k \in 1..(i - 1) : Unseen(in.body, k)) =>
           \A n \in DOMAIN at.value :
             /\ GetVar(at.env, n).k # "option" => at.value[n] = "some"
             /\ (\A k \in 1..(i - 1) : in.body[k].stmt = "call") => GetVar(ClosureBoundaryEnv(at.env), n) = OptInt
             /\ n \notin in.mutable => GetVar(at.env, n) = GetVar(out[1][1].env, n)
=============================================================================
