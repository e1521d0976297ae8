----------------------------- MODULE MCEffects -----------------------------
(* Three functions that call each other in every way, annotated or not; and *)
(* two functions of one name.                                               *)
EXTENDS Effects

MCUse(f, l, p) == [fun |-> f, label |-> l, place |-> p]
MCFunBodies ==
  SUBSET {MCUse("f", "", "argument"), MCUse("g", "", "statement"), MCUse("h", "", "nested body"),
          MCUse("", "io", "operand"), MCUse("", "net", "list literal")}
MCFun(n) ==
  [name : {n}, declared : {"inferred"}, effects : {{}}, body : MCFunBodies]
  \cup [name : {n}, declared : {"declared"}, effects : {{"net"}, {"io"}}, body : MCFunBodies]
MCFunSets ==
  {<<f, g, h>> : f \in {f \in MCFun("f") : MCUse("f", "", "argument") \notin f.body /\ Cardinality(f.body) <= 2},
                 g \in {g \in MCFun("g") : Cardinality(g.body) <= 2}, h \in {h \in MCFun("h") : Cardinality(h.body) <= 1}}

MCRedeclared ==
  {<<f, g>> : f \in {f \in MCFun("f") : f.declared = "inferred"}, g \in {f \in MCFun("f") : Cardinality(f.body) <= 1}}
=============================================================================
