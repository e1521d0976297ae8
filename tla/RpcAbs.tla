------------------------------- MODULE RpcAbs -------------------------------
(***************************************************************************)
(* What package subproc promises its callers: at-most-once remote calls.   *)
(* A call is issued, its method may be executed, at any time after that    *)
(* and at most once, and the caller gets one outcome; a result is only     *)
(* ever the result of that call's own execution.                           *)
(***************************************************************************)
EXTENDS Naturals

CONSTANT MaxCalls, Failures

VARIABLES issued, runs, outcome

absVars == <<issued, runs, outcome>>

AbsInit ==
  /\ issued = 0
  /\ runs = [i \in 1 .. MaxCalls |-> 0]
  /\ outcome = [i \in 1 .. MaxCalls |-> [status |-> "pending", val |-> 0]]

\* The caller gets an id.
Issue ==
  /\ issued < MaxCalls /\ issued' = issued + 1
  /\ UNCHANGED <<runs, outcome>>

\* The method of an issued call is executed, perhaps after the caller gave up.
Execute(i) ==
  /\ runs[i] = 0 /\ runs' = [runs EXCEPT ![i] = 1]
  /\ UNCHANGED <<issued, outcome>>

\* The caller gets the result of its own execution.
Succeed(i) ==
  /\ outcome[i].status = "pending" /\ runs[i] = 1
  /\ outcome' = [outcome EXCEPT ![i] = [status |-> "ok", val |-> i]]
  /\ UNCHANGED <<issued, runs>>

\* The caller gets an error; the method may have been executed or not.
Fail(i) ==
  /\ outcome[i].status = "pending"
  /\ \E st \in Failures, v \in 0 .. MaxCalls :
       outcome' = [outcome EXCEPT ![i] = [status |-> st, val |-> v]]
  /\ UNCHANGED <<issued, runs>>

AbsNext ==
  Issue \/ \E i \in 1 .. issued : Execute(i) \/ Succeed(i) \/ Fail(i)

AbsSpec == AbsInit /\ [][AbsNext]_absVars
=============================================================================
