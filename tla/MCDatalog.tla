----------------------------- MODULE MCDatalog -----------------------------
EXTENDS Datalog
DX == Term(TRUE, "X")
DY == Term(TRUE, "Y")
DZ == Term(TRUE, "Z")
DA == Term(FALSE, "a")
DB == Term(FALSE, "b")
Pred(n, s, t) == Condition("pred", n, <<s, t>>)
NotPred(n, s, t) == Condition("not", n, <<s, t>>)
MCRulePool ==
  {Rule("p", <<DX, DY>>, <<Pred("e", DX, DY)>>),
   Rule("p", <<DX, DY>>, <<Pred("e", DX, DZ), Pred("p", DZ, DY)>>),
   Rule("p", <<DX, DY>>, <<Pred("p", DX, DZ), Pred("e", DZ, DY)>>),
   Rule("p", <<DX, DY>>, <<Pred("p", DX, DZ), Pred("p", DZ, DY)>>),
   Rule("p", <<DX, DA>>, <<Pred("e", DX, DY), NotPred("q", DY, DX)>>),
   Rule("p", <<DY, DX>>, <<Pred("q", DX, DY)>>),
   Rule("q", <<DX, DY>>, <<NotPred("p", DX, DY), Pred("e", DY, DX)>>),
   Rule("q", <<DX, DX>>, <<Pred("e", DX, DY), Condition("neq", "", <<DX, DY>>), NotPred("e", DY, DX)>>),
   Rule("q", <<DX, DY>>, <<Pred("e", DX, DZ), Pred("e", DZ, DY)>>)}
MCLogicFacts == {{<<"a", "b">>, <<"b", "c">>}, {<<"a", "b">>, <<"b", "a">>, <<"c", "c">>}}
AsFacts(S) == LET f == CHOOSE f \in [1..Cardinality(S) -> S] : \A i, j \in DOMAIN f : f[i] = f[j] => i = j IN [i \in DOMAIN f |-> [n |-> "e", args |-> f[i]]]
MCRuleSeqs == {s \in UNION {[1..n -> MCRulePool] : n \in 1..3} : \A i, j \in DOMAIN s : s[i] = s[j] => i = j}
MCLogicQueries == {[n |-> n, args |-> a] : n \in {"p", "q"}, a \in {<<DA, DY>>, <<DX, DY>>, <<DX, DB>>}}
MCLogicInputs == {[facts |-> AsFacts(f), rules |-> r, query |-> q] : f \in MCLogicFacts, r \in MCRuleSeqs, q \in MCLogicQueries}
MCLogicNames == {"a", "b", "c"}

\* The Datalog programs by themselves.
DatalogSpec == DatalogInit /\ [][DatalogNext]_evalVars
=============================================================================
