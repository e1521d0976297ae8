------------------------------- MODULE Datalog -------------------------------
(***************************************************************************)
(* Logic queries: the strata and the magic-set transform of the lowering   *)
(* (transpiler3/c/lower), the evaluation the C code makes of the           *)
(* transformed rules, and the one the Python target makes, at compile      *)
(* time, of the rules as they were written (transpiler3/python/lower).     *)
(* A relation is a set of tuples: the order of the answers is left out.    *)
(***************************************************************************)
EXTENDS Evaluation

CONSTANTS
  LogicInputs, \* [facts, rules, query]; a rule has positive conditions, which bind its variables
  LogicNames   \* the constants that occur in them

Term(var, n) == [var |-> var, n |-> n]
\* logicBody: a condition is "pred", "not" or "neq"; the last compares its args.
Condition(k, n, args) == [k |-> k, n |-> n, args |-> args]
Rule(n, args, body) == [n |-> n, args |-> args, body |-> body]

RangeOf(s) == {s[i] : i \in DOMAIN s}
MagicName == "magic" \* magic_REL: there is one per query
Relations(facts, rules, query) ==
  {MagicName, query.n} \cup {f.n : f \in RangeOf(facts)} \cup {r.n : r \in RangeOf(rules)}
  \cup UNION {{b.n : b \in RangeOf(r.body)} : r \in RangeOf(rules)}

-----------------------------------------------------------------------------
(* One rule over the tuples known so far.                                  *)

Unbound == ""
\* datalogResolveArg.
ResolveArg(t, env) == IF ~t.var THEN t.n ELSE IF t.n \in DOMAIN env THEN env[t.n] ELSE Unbound

\* The environments in which the arguments match the tuple: one or none.
Extended(args, tuple, env) ==
  LET vars == {i \in DOMAIN args : args[i].var}
      value(i) == IF args[i].n \in DOMAIN env THEN env[args[i].n]
                  ELSE tuple[CHOOSE j \in vars : args[j].n = args[i].n /\ \A k \in vars : args[k].n = args[i].n => j <= k]
  IN IF Len(args) = Len(tuple) /\ \A i \in DOMAIN args : tuple[i] = (IF i \in vars THEN value(i) ELSE args[i].n)
     THEN {env @@ [v \in {args[i].n : i \in vars} |-> value(CHOOSE i \in vars : args[i].n = v)]} ELSE {}

\* One condition of the body filters or extends the environments.
Conditioned(b, envs, state) ==
  CASE b.k = "neq" -> {env \in envs : ({b.args[1].n, b.args[2].n} \subseteq DOMAIN env) => env[b.args[1].n] # env[b.args[2].n]}
    [] b.k = "not" -> {env \in envs : \A t \in state[b.n] : t # [i \in DOMAIN b.args |-> ResolveArg(b.args[i], env)]}
    [] OTHER -> UNION {UNION {Extended(b.args, t, env) : t \in state[b.n]} : env \in envs}

RECURSIVE Satisfied(_, _, _)
Satisfied(body, envs, state) == IF body = <<>> THEN envs ELSE Satisfied(Tail(body), Conditioned(Head(body), envs, state), state)

NoVars == [v \in {} |-> Unbound]
\* datalogDeriveRule: the conditions in the order of body.
DeriveRule(rule, body, state) ==
  {[i \in DOMAIN rule.args |-> ResolveArg(rule.args[i], env)] : env \in Satisfied(body, {NoVars}, state)}

BaseState(facts, rels) == [r \in rels |-> {f.args : f \in {f \in RangeOf(facts) : f.n = r}}]

\* The rows of the query's relation that have the query's constants.
Answers(query, state) ==
  {t \in state[query.n] : Len(t) = Len(query.args) /\ \A i \in DOMAIN t : ~query.args[i].var => t[i] = query.args[i].n}

-----------------------------------------------------------------------------
(* datalogEval: every rule in turn, as written, until nothing is new.      *)

RECURSIVE PySweep(_, _, _), PyFixpoint(_, _)
PySweep(rules, i, state) ==
  IF i > Len(rules) THEN state
  ELSE PySweep(rules, i + 1, [state EXCEPT ![rules[i].n] = @ \cup DeriveRule(rules[i], rules[i].body, state)])
PyFixpoint(rules, state) == LET next == PySweep(rules, 1, state) IN IF next = state THEN state ELSE PyFixpoint(rules, next)

DatalogEval(p) ==
  Answers(p.query, PyFixpoint(p.rules, BaseState(p.facts, Relations(p.facts, p.rules, p.query))))

-----------------------------------------------------------------------------
(* computeDatalogStrata.                                                   *)

\* Mutant: a negated relation may share the stratum of the head.
NegatedLevelSame(s) == s
NegatedLevel(s) == s + 1

RECURSIVE Raise(_, _, _), StrataFixpoint(_, _, _)
\* One pass: a head is at least where its positive conditions are, and above
\* its negated ones.
Raise(rules, i, strata) ==
  IF i > Len(rules) THEN strata
  ELSE LET r == rules[i]
           least == {strata[r.n]} \cup {strata[b.n] : b \in {b \in RangeOf(r.body) : b.k = "pred"}}
                    \cup {NegatedLevel(strata[b.n]) : b \in {b \in RangeOf(r.body) : b.k = "not"}}
       IN Raise(rules, i + 1, [strata EXCEPT ![r.n] = CHOOSE s \in least : \A t \in least : t <= s])
StrataFixpoint(rules, strata, left) ==
  LET next == Raise(rules, 1, strata) IN IF left = 0 \/ next = strata THEN strata ELSE StrataFixpoint(rules, next, left - 1)

\* The strata, or a refusal when a negated relation is not below its head.
ComputeStrata(rules, rels) ==
  LET strata == StrataFixpoint(rules, [r \in rels |-> 0], Len(rules) * Len(rules) + 10)
      cyclic == \E r \in RangeOf(rules) : \E b \in RangeOf(r.body) : b.k = "not" /\ strata[b.n] >= strata[r.n]
  IN IF cyclic THEN Bad ELSE [ok |-> TRUE, strata |-> strata]

-----------------------------------------------------------------------------
(* applyMagicSet.                                                          *)

BoundPositions(query) == Ascending({i \in DOMAIN query.args : ~query.args[i].var})
AtPositions(args, pos) == [k \in DOMAIN pos |-> args[pos[k]]]

\* The rule with its guard, then the propagation rules of its recursive calls:
\* the guard and the conditions on other relations before the call.
Transformed(rule, query) ==
  LET pos == BoundPositions(query)
      guard == Condition("pred", MagicName, AtPositions(rule.args, pos))
      calls == SelectSeq([i \in DOMAIN rule.body |-> i],
                         LAMBDA i : rule.body[i].k = "pred" /\ rule.body[i].n = query.n /\ AtPositions(rule.body[i].args, pos) # guard.args)
      before(i) == SelectSeq(Upto(rule.body, i - 1), LAMBDA b : b.k = "pred" /\ b.n # query.n)
  IN IF rule.n # query.n THEN <<rule>>
     ELSE <<[rule EXCEPT !.body = <<guard>> \o @]>>
          \o [k \in DOMAIN calls |-> Rule(MagicName, AtPositions(rule.body[calls[k]].args, pos), <<guard>> \o before(calls[k]))]

RECURSIVE MagicRules(_, _)
MagicRules(rules, query) == IF rules = <<>> THEN <<>> ELSE Transformed(Head(rules), query) \o MagicRules(Tail(rules), query)

Goal(p) == BoundPositions(p.query) # <<>> /\ \E r \in RangeOf(p.rules) : r.n = p.query.n
ApplyMagicSet(p) ==
  LET seed == AtPositions(p.query.args, BoundPositions(p.query))
  IN IF ~Goal(p) THEN p
     ELSE [p EXCEPT !.facts = Append(@, [n |-> MagicName, args |-> [k \in DOMAIN seed |-> seed[k].n]]), !.rules = MagicRules(@, p.query)]

-----------------------------------------------------------------------------
(* lowerLogicQuery: what the emitted C computes, stratum by stratum; the   *)
(* tables are taken large enough.                                          *)

\* An array is declared for each relation that has facts, and for each derived one.
Tabled(p) == {f.n : f \in RangeOf(p.facts)} \cup {r.n : r \in RangeOf(p.rules)}
\* The relations whose array is looped over: by the query, by a positive
\* condition and by a negated one. One that is not declared does not compile.
LoopedOver(p) == {p.query.n} \cup UNION {{b.n : b \in {b \in RangeOf(r.body) : b.k # "neq"}} : r \in RangeOf(p.rules)}
AllDeclared(p) == LoopedOver(p) \subseteq Tabled(p)

\* The loops of the positive conditions, then the inequalities, then the negations.
EmittedOrder(body) ==
  SelectSeq(body, LAMBDA b : b.k = "pred") \o SelectSeq(body, LAMBDA b : b.k = "neq") \o SelectSeq(body, LAMBDA b : b.k = "not")

RECURSIVE CFixpoint(_, _, _, _)
CFixpoint(rules, strata, level, state) ==
  LET here == {r \in RangeOf(rules) : strata[r.n] = level}
      next == [n \in DOMAIN state |-> state[n] \cup UNION {DeriveRule(r, EmittedOrder(r.body), state) : r \in {r \in here : r.n = n}}]
  IN CASE next # state -> CFixpoint(rules, strata, level, next)
       [] \E n \in DOMAIN strata : strata[n] > level -> CFixpoint(rules, strata, level + 1, state)
       [] OTHER -> state

LowerLogicQuery(p) ==
  LET q == ApplyMagicSet(p)
      rels == Relations(q.facts, q.rules, q.query)
      s == ComputeStrata(q.rules, rels)
  IN IF ~s.ok THEN Bad
     ELSE [ok |-> TRUE, strata |-> s.strata, python |-> DatalogEval(p),
           c |-> IF AllDeclared(q) THEN <<Answers(p.query, CFixpoint(q.rules, s.strata, 0, BaseState(q.facts, rels)))>> ELSE <<>>]

DatalogInit == Called("datalog", LogicInputs)
DatalogNext == Evaluate("datalog", LowerLogicQuery)

-----------------------------------------------------------------------------
(* The reference: the perfect model, by ground instances of the rules and  *)
(* any stratification.                                                     *)

Level == 0..2
Stratified(level, rules) ==
  \A r \in RangeOf(rules) : \A b \in RangeOf(r.body) :
    CASE b.k = "pred" -> level[b.n] <= level[r.n] [] b.k = "not" -> level[b.n] < level[r.n] [] OTHER -> TRUE
Stratifications(p) == {level \in [Relations(p.facts, p.rules, p.query) -> Level] : Stratified(level, p.rules)}

VarsOf(r) == UNION {{t.n : t \in {t \in RangeOf(b.args) : t.var}} : b \in RangeOf(r.body)}
Instance(args, env) == [i \in DOMAIN args |-> ResolveArg(args[i], env)]
Satisfies(b, env, model) ==
  LET t == Instance(b.args, env) IN CASE b.k = "pred" -> t \in model[b.n] [] b.k = "not" -> t \notin model[b.n] [] OTHER -> t[1] # t[2]

RECURSIVE PerfectFrom(_, _, _, _)
PerfectFrom(rules, level, k, model) ==
  LET next == [n \in DOMAIN model |->
                 model[n] \cup UNION {{Instance(r.args, env) : env \in {env \in [VarsOf(r) -> LogicNames] : \A b \in RangeOf(r.body) : Satisfies(b, env, model)}} :
                                      r \in {r \in RangeOf(rules) : r.n = n /\ level[n] = k}}]
  IN CASE next # model -> PerfectFrom(rules, level, k, next) [] k \in Level /\ k + 1 \in Level -> PerfectFrom(rules, level, k + 1, model) [] OTHER -> model
Perfect(p, level) == Answers(p.query, PerfectFrom(p.rules, level, 0, BaseState(p.facts, DOMAIN level)))

-----------------------------------------------------------------------------
(* Properties.                                                             *)

Negated(p) == UNION {{b.n : b \in {b \in RangeOf(r.body) : b.k = "not"}} : r \in RangeOf(p.rules)}
Derived(p) == {r.n : r \in RangeOf(p.rules)}
\* The relations of the program as written with neither a fact nor a rule.
Undefined(p) == {n \in Relations(p.facts, p.rules, p.query) \ {MagicName, ""} : ~\E d \in RangeOf(p.facts) \cup RangeOf(p.rules) : d.n = n}
\* Only the query's own rules read its relation, and each call of it there is
\* bound by the head and by the other relations before the call.
LinearGoal(p) ==
  LET pos == BoundPositions(p.query)
      vars(args) == {t.n : t \in {t \in RangeOf(args) : t.var}}
      bound(r, i) == vars(AtPositions(r.args, pos)) \cup UNION {vars(b.args) : b \in {b \in RangeOf(Upto(r.body, i - 1)) : b.k = "pred" /\ b.n # p.query.n}}
  IN \A r \in RangeOf(p.rules) : \A i \in DOMAIN r.body :
       r.body[i].k # "neq" /\ r.body[i].n = p.query.n =>
         r.n = p.query.n /\ vars(AtPositions(r.body[i].args, pos)) \subseteq bound(r, i)

\* A stratified program is never refused and its strata are a stratification;
\* its C compiles exactly when every relation it mentions has facts or rules,
\* and then the goal-directed evaluation finds the answers of the perfect model
\* when the goal is linear. So does the Python evaluation, which knows no
\* strata and takes an undefined relation for an empty one, when nothing that
\* is negated is derived.
DatalogAnswers ==
  Returned("datalog") /\ Stratifications(in) # {} =>
    LET level == CHOOSE l \in Stratifications(in) : TRUE
    IN /\ out[1].ok
       /\ Stratified(out[1].strata, in.rules)
       /\ out[1].c = <<>> <=> Undefined(in) # {}
       /\ Undefined(in) = {} /\ (~Goal(in) \/ LinearGoal(in)) => out[1].c = <<Perfect(in, level)>>
       /\ Negated(in) \cap Derived(in) = {} => out[1].python = Perfect(in, level)

\* A cycle through negation is an error, as the comment of computeDatalogStrata
\* says: what is accepted can be stratified.
NegativeCyclesRefused == Returned("datalog") /\ out[1].ok => Stratifications(in) # {}
=============================================================================
