--------------------------- MODULE SubprocProofs ---------------------------
(***************************************************************************)
(* Proofs about Subproc for every number of goroutines, calls and frames,  *)
(* both workers and every mode of use.                                     *)
(***************************************************************************)
EXTENDS Subproc, TLAPS, SequenceTheorems

USE DEF Ids

\* What Append and Tail do to the elements of a queue.
LEMMA AppendElements ==
  ASSUME NEW S, NEW q \in Seq(S), NEW x \in S
  PROVE  /\ Append(q, x) \in Seq(S) /\ Len(Append(q, x)) = Len(q) + 1
         /\ \A k \in 1 .. Len(q) : Append(q, x)[k] = q[k]
         /\ Append(q, x)[Len(q) + 1] = x
PROOF BY SMT

LEMMA TailElements ==
  ASSUME NEW S, NEW q \in Seq(S), q # << >>
  PROVE  /\ Head(q) \in S /\ Head(q) = q[1] /\ Len(q) \in Nat \ {0}
         /\ Tail(q) \in Seq(S) /\ Len(Tail(q)) = Len(q) - 1
         /\ \A k \in 1 .. Len(q) - 1 : Tail(q)[k] = q[k + 1]
PROOF BY SMT

\* What is left of a queue that has lost its first frames.
LEMMA SuffixElements ==
  ASSUME NEW S, NEW q \in Seq(S), NEW k \in 1 .. Len(q) + 1
  PROVE  /\ SubSeq(q, k, Len(q)) \in Seq(S) /\ Len(SubSeq(q, k, Len(q))) = Len(q) - k + 1
         /\ \A l \in 1 .. Len(q) - k + 1 : SubSeq(q, k, Len(q))[l] = q[l + k - 1]
PROOF BY SMT

\* The frames the worker builds, and the outcomes Call builds, are well typed.
LEMMA FrameTypes ==
  ASSUME NEW i \in 0 .. MaxCalls
  PROVE  Ok(i) \in Frame /\ Err(i) \in Frame /\ Junk \in Frame /\ Replies(i) \subseteq Frame
PROOF BY ConstantsAssumption DEF Ok, Err, Junk, Frame, Replies

LEMMA VerdictType ==
  ASSUME NEW i \in 0 .. MaxCalls, NEW f \in Frame
  PROVE  /\ Verdict(i, f).status \in Statuses \ {"pending"}
         /\ Verdict(i, f).val \in 0 .. MaxCalls
         /\ Verdict(i, f).status = "ok" => f.kind = "ok" /\ f.id = i /\ Verdict(i, f).val = f.val
PROOF BY ConstantsAssumption DEF Verdict, Frame, Statuses

\* Counting an execution keeps runs a function into the naturals.
LEMMA RunsType ==
  ASSUME NEW f \in [Ids -> Nat], NEW i \in 0 .. MaxCalls
  PROVE  [f EXCEPT ![i] = @ + 1] \in [Ids -> Nat]
PROOF
  <1>1. CASE i \in Ids
    BY <1>1
  <1>2. CASE i \notin Ids
    BY <1>2
  <1> QED BY <1>1, <1>2

\* Return changes pc, cur and outcome to well-typed values.
LEMMA ReturnType ==
  ASSUME TypeOK, NEW g \in Callers, Active(g),
         NEW st \in Statuses, NEW v \in 0 .. MaxCalls, Return(g, st, v)
  PROVE  /\ pc' \in [Callers -> {"idle", "build", "write", "wrote", "read"}]
         /\ cur' \in [Callers -> Request]
         /\ outcome' \in [Ids -> Outcome]
         /\ \A h \in Callers : Active(h)' => cur'[h] = cur[h] /\ pc'[h] = pc[h] /\ h # g
PROOF
  <1>1. [status |-> st, val |-> v] \in Outcome
    BY DEF Outcome
  <1>2. NoRequest \in Request
    BY ConstantsAssumption DEF NoRequest, Request
  <1> QED BY <1>1, <1>2 DEF TypeOK, Return, Active

\* A torn read returns like any other, with something of the right type.
LEMMA TornReturns ==
  ASSUME TypeOK, NEW g \in Callers, ReadTorn(g)
  PROVE  \E st \in Statuses \ {"pending"}, v \in 0 .. MaxCalls : Return(g, st, v)
PROOF
  <1>1. PICK e \in seen \cup {Junk}, f \in seen :
          Return(g, Verdict(cur[g].id, [e EXCEPT !.val = f.val]).status,
                    Verdict(cur[g].id, [e EXCEPT !.val = f.val]).val)
    BY DEF ReadTorn
  <1>2. e \in Frame /\ f \in Frame
    <2>1. 0 \in 0 .. MaxCalls
      BY ConstantsAssumption
    <2>2. Junk \in Frame
      BY <2>1, FrameTypes
    <2> QED BY <1>1, <2>2 DEF TypeOK
  <1>3. [e EXCEPT !.val = f.val] \in Frame
    BY <1>2 DEF Frame
  <1>4. cur[g].id \in 0 .. MaxCalls
    BY DEF TypeOK, Request
  <1> QED BY <1>1, <1>3, <1>4, VerdictType

----------------------------------------------------------------------------
(***************************************************************************)
(* Type correctness                                                        *)
(***************************************************************************)
LEMMA InitType == Init => TypeOK
PROOF
  <1> SUFFICES ASSUME Init PROVE TypeOK
    OBVIOUS
  <1>1. NoRequest \in Request /\ Junk \in Frame /\ Pending \in Outcome
    BY ConstantsAssumption DEF NoRequest, Request, Junk, Frame, Pending, Outcome, Statuses
  <1>2. /\ toWorker \in Seq(Request) /\ Len(toWorker) <= PipeCap
        /\ toHost \in Seq(Frame) /\ Len(toHost) <= PipeCap /\ seen \subseteq Frame
    BY ConstantsAssumption DEF Init
  <1>3. closed \in BOOLEAN /\ connOpen \in BOOLEAN /\ torn \in BOOLEAN
    BY DEF Init
  <1>4. /\ pc \in [Callers -> {"idle", "build", "write", "wrote", "read"}]
        /\ cur \in [Callers -> Request]
        /\ \A g \in Callers : ~Active(g)
        /\ wpc \in {"read", "dispatch", "reply", "lastReply", "dead"}
        /\ job \in Request /\ reply \in Frame
    BY <1>1 DEF Init, Active
  <1>5. nextID \in 0 .. MaxCalls /\ runs \in [Ids -> Nat] /\ outcome \in [Ids -> Outcome]
    BY <1>1, ConstantsAssumption DEF Init
  <1> QED BY <1>2, <1>3, <1>4, <1>5 DEF TypeOK

LEMMA TypeStep == TypeOK /\ [Next]_vars => TypeOK'
PROOF
  <1> SUFFICES ASSUME TypeOK, [Next]_vars PROVE TypeOK'
    OBVIOUS
  <1> USE ConstantsAssumption
  <1>1. ASSUME NEW g \in Callers, NEW m \in Methods, TakeID(g, m) PROVE TypeOK'
    <2>0. nextID' = nextID + 1 /\ nextID' \in 0 .. MaxCalls /\ nextID \in Nat
      BY <1>1 DEF TakeID, TypeOK
    <2>1. [id |-> nextID + 1, method |-> m] \in Request
      BY <2>0 DEF Request
    <2>2. cur' \in [Callers -> Request]
      BY <1>1, <2>1 DEF TakeID, TypeOK
    <2>3. pc' \in [Callers -> {"idle", "build", "write", "wrote", "read"}]
      BY <1>1 DEF TakeID, TypeOK
    <2>4. ASSUME NEW h \in Callers, Active(h)' PROVE cur'[h].id \in 1 .. nextID'
      <3>1. CASE h = g
        BY <1>1, <2>0, <3>1 DEF TakeID, TypeOK
      <3>2. CASE h # g
        BY <1>1, <2>0, <2>4, <3>2 DEF TakeID, TypeOK, Active
      <3> QED BY <3>1, <3>2
    <2> QED BY <1>1, <2>0, <2>2, <2>3, <2>4 DEF TakeID, TypeOK, server
  <1>2. ASSUME NEW g \in Callers, BuildRequest(g) PROVE TypeOK'
    BY <1>2 DEF BuildRequest, TypeOK, Active, server
  <1>3. ASSUME NEW g \in Callers, BuildFails(g) PROVE TypeOK'
    <2>1. PICK st \in {"buildError", "writeError"} : Return(g, st, 0)
      BY <1>3 DEF BuildFails
    <2>2. st \in Statuses /\ 0 \in 0 .. MaxCalls /\ Active(g)
      BY <1>3 DEF Statuses, BuildFails, Active
    <2>3. /\ pc' \in [Callers -> {"idle", "build", "write", "wrote", "read"}]
          /\ cur' \in [Callers -> Request]
          /\ outcome' \in [Ids -> Outcome]
          /\ \A h \in Callers : Active(h)' => cur'[h] = cur[h] /\ pc'[h] = pc[h] /\ h # g
      BY <2>1, <2>2, ReturnType
    <2> QED BY <1>3, <2>3 DEF BuildFails, TypeOK, server, Active
  <1>4. ASSUME NEW g \in Callers, WriteRequest(g) PROVE TypeOK'
    <2>1. cur[g] \in Request
      BY DEF TypeOK
    <2>2. toWorker' \in Seq(Request) /\ Len(toWorker') <= PipeCap
      BY <1>4, <2>1, AppendElements DEF WriteRequest, TypeOK
    <2> QED BY <1>4, <2>2 DEF WriteRequest, TypeOK, Active, server
  <1>5. ASSUME NEW g \in Callers, WriteBroken(g) PROVE TypeOK'
    <2>1. "writeError" \in Statuses /\ 0 \in 0 .. MaxCalls /\ Active(g)
      BY <1>5 DEF Statuses, WriteBroken, Active
    <2>2. Return(g, "writeError", 0)
      BY <1>5 DEF WriteBroken
    <2>3. /\ pc' \in [Callers -> {"idle", "build", "write", "wrote", "read"}]
          /\ cur' \in [Callers -> Request]
          /\ outcome' \in [Ids -> Outcome]
          /\ \A h \in Callers : Active(h)' => cur'[h] = cur[h] /\ pc'[h] = pc[h] /\ h # g
      BY <2>1, <2>2, ReturnType
    <2> QED BY <1>5, <2>3 DEF WriteBroken, TypeOK, server, Active
  <1>6. ASSUME NEW g \in Callers, EnterRead(g) PROVE TypeOK'
    BY <1>6 DEF EnterRead, TypeOK, Active, server
  <1>7. ASSUME NEW g \in Callers, ReadResponse(g) PROVE TypeOK'
    <2> DEFINE v == Verdict(cur[g].id, Head(toHost))
    <2>1. toHost' \in Seq(Frame) /\ Len(toHost') <= PipeCap /\ Head(toHost) \in Frame
      BY <1>7, TailElements DEF ReadResponse, TypeOK
    <2>2. cur[g].id \in 0 .. MaxCalls
      BY DEF TypeOK, Request
    <2>3. v.status \in Statuses /\ v.val \in 0 .. MaxCalls
      BY <2>1, <2>2, VerdictType
    <2>4. Return(g, v.status, v.val) /\ Active(g)
      BY <1>7 DEF ReadResponse, Active
    <2> HIDE DEF v
    <2>5. /\ pc' \in [Callers -> {"idle", "build", "write", "wrote", "read"}]
          /\ cur' \in [Callers -> Request]
          /\ outcome' \in [Ids -> Outcome]
          /\ \A h \in Callers : Active(h)' => cur'[h] = cur[h] /\ pc'[h] = pc[h] /\ h # g
      BY <2>3, <2>4, ReturnType
    <2> QED BY <1>7, <2>1, <2>5 DEF ReadResponse, TypeOK, server, Active
  <1>8. ASSUME NEW g \in Callers, ReadTorn(g) PROVE TypeOK'
    <2>1. PICK st \in Statuses \ {"pending"}, v \in 0 .. MaxCalls : Return(g, st, v)
      BY <1>8, TornReturns
    <2>2. Active(g)
      BY <1>8 DEF ReadTorn, Active
    <2>3. toHost' \in Seq(Frame) /\ Len(toHost') <= PipeCap
      <3>1. PICK k \in 1 .. Len(toHost) + 1 : toHost' = SubSeq(toHost, k, Len(toHost))
        BY <1>8 DEF ReadTorn
      <3>2. toHost \in Seq(Frame) /\ Len(toHost) \in Nat /\ Len(toHost) <= PipeCap
        BY DEF TypeOK
      <3>3. toHost' \in Seq(Frame) /\ Len(toHost') = Len(toHost) - k + 1
        BY <3>1, <3>2, SuffixElements
      <3> QED BY <3>2, <3>3
    <2>4. /\ pc' \in [Callers -> {"idle", "build", "write", "wrote", "read"}]
          /\ cur' \in [Callers -> Request]
          /\ outcome' \in [Ids -> Outcome]
          /\ \A h \in Callers : Active(h)' => cur'[h] = cur[h] /\ pc'[h] = pc[h] /\ h # g
      BY <2>1, <2>2, ReturnType
    <2> QED BY <1>8, <2>3, <2>4 DEF ReadTorn, TypeOK, server, Active
  <1>9. ASSUME NEW g \in Callers, ReadFails(g) PROVE TypeOK'
    <2>1. "readError" \in Statuses /\ 0 \in 0 .. MaxCalls /\ Active(g)
      BY <1>9 DEF Statuses, ReadFails, Active
    <2>2. Return(g, "readError", 0)
      BY <1>9 DEF ReadFails
    <2>3. /\ pc' \in [Callers -> {"idle", "build", "write", "wrote", "read"}]
          /\ cur' \in [Callers -> Request]
          /\ outcome' \in [Ids -> Outcome]
          /\ \A h \in Callers : Active(h)' => cur'[h] = cur[h] /\ pc'[h] = pc[h] /\ h # g
      BY <2>1, <2>2, ReturnType
    <2> QED BY <1>9, <2>3 DEF ReadFails, TypeOK, server, Active
  <1>10. CASE CloseMark
    BY <1>10 DEF CloseMark, TypeOK, Active, server
  <1>11. CASE CloseConn
    BY <1>11 DEF CloseConn, TypeOK, Active, server
  <1>12. CASE WorkerRead
    <2>1. /\ Head(toWorker) \in Request /\ Err(0) \in Frame
          /\ toWorker' \in Seq(Request) /\ Len(toWorker') <= PipeCap
      BY <1>12, TailElements, FrameTypes DEF WorkerRead, TypeOK
    <2> QED BY <1>12, <2>1 DEF WorkerRead, TypeOK, Active, client
  <1>13. CASE WorkerEOF
    BY <1>13 DEF WorkerEOF, TypeOK, Active, client
  <1>14. CASE DispatchUnlisted
    <2>1. Err(job.id) \in Frame
      BY FrameTypes DEF TypeOK, Request
    <2> QED BY <1>14, <2>1 DEF DispatchUnlisted, TypeOK, Active, client
  <1>15. CASE DispatchRuns
    <2>1. reply' \in Frame
      BY <1>15, FrameTypes DEF TypeOK, Request, DispatchRuns
    <2>2. runs' \in [Ids -> Nat]
      BY <1>15, RunsType DEF DispatchRuns, TypeOK, Request
    <2> QED BY <1>15, <2>1, <2>2 DEF DispatchRuns, TypeOK, Active, client
  <1>16. CASE DispatchFatal
    <2>1. runs' \in [Ids -> Nat]
      BY <1>16, RunsType DEF DispatchFatal, TypeOK, Request
    <2> QED BY <1>16, <2>1 DEF DispatchFatal, TypeOK, Active, client
  <1>17. CASE WorkerPrint
    <2>1. Junk \in Frame
      BY FrameTypes
    <2>2. toHost' \in Seq(Frame) /\ Len(toHost') <= PipeCap /\ seen' \subseteq Frame
      BY <1>17, <2>1, AppendElements DEF WorkerPrint, Deliver, TypeOK
    <2> QED BY <1>17, <2>2 DEF WorkerPrint, TypeOK, Active, client, server
  <1>18. CASE WriteResponse
    <2>1. toHost' \in Seq(Frame) /\ Len(toHost') <= PipeCap /\ seen' \subseteq Frame
      BY <1>18, AppendElements DEF WriteResponse, Deliver, TypeOK
    <2> QED BY <1>18, <2>1 DEF WriteResponse, TypeOK, Active, client
  <1>19. CASE ResponseBroken
    BY <1>19 DEF ResponseBroken, TypeOK, Active, client
  <1>20. CASE WorkerCrash
    <2>1. Junk \in Frame
      BY FrameTypes
    <2>2. toHost' \in Seq(Frame) /\ Len(toHost') <= PipeCap /\ seen' \subseteq Frame
      <3>1. CASE UNCHANGED <<toHost, seen>>
        BY <3>1 DEF TypeOK
      <3>2. CASE Len(toHost) < PipeCap /\ Deliver(Junk)
        BY <2>1, <3>2, AppendElements DEF Deliver, TypeOK
      <3> QED BY <1>20, <3>1, <3>2 DEF WorkerCrash
    <2> QED BY <1>20, <2>2 DEF WorkerCrash, TypeOK, Active, client
  <1>21. CASE UNCHANGED vars
    BY <1>21 DEF vars, client, server, TypeOK, Active
  <1> QED
    BY <1>1, <1>2, <1>3, <1>4, <1>5, <1>6, <1>7, <1>8, <1>9, <1>10, <1>11, <1>12,
       <1>13, <1>14, <1>15, <1>16, <1>17, <1>18, <1>19, <1>20, <1>21
       DEF Next, CallStep, WorkerStep

\* The state of Client, pipes and worker is always well typed: a Call in
\* progress owns an id that was handed out, and no pipe overflows.
THEOREM TypeCorrect == Spec => []TypeOK
PROOF
  <1> QED BY InitType, TypeStep, PTL DEF Spec

----------------------------------------------------------------------------
(***************************************************************************)
(* Provenance: where a request id can be, and what an answer vouches for.  *)
(***************************************************************************)

Unsent(g) == pc[g] \in {"build", "write"}

\* Nothing is known of an id that has not been handed out.
Unissued ==
  \A i \in Ids : i > nextID => runs[i] = 0 /\ outcome[i] = Pending

\* Each Call in progress has an id of its own, still without an outcome.
Owners ==
  /\ \A g \in Callers : Active(g) => outcome[cur[g].id] = Pending
  /\ \A g, h \in Callers :
       Active(g) /\ Active(h) /\ cur[g].id = cur[h].id => g = h

\* A request that has not been written yet has not been executed, and is
\* neither in the pipe nor in the worker.
FreshUnsent ==
  \A g \in Callers : Unsent(g) =>
    /\ runs[cur[g].id] = 0
    /\ \A k \in 1 .. Len(toWorker) : toWorker[k].id # cur[g].id
    /\ wpc = "dispatch" => job.id # cur[g].id

\* The requests in the pipe are distinct and have not been executed.
FreshQueue ==
  /\ \A k \in 1 .. Len(toWorker) : toWorker[k].id \in 1 .. nextID /\ runs[toWorker[k].id] = 0
  /\ \A k, l \in 1 .. Len(toWorker) : toWorker[k].id = toWorker[l].id => k = l

\* Nor has the request the worker is about to execute.
FreshJob ==
  wpc = "dispatch" =>
    /\ job.id \in 1 .. nextID /\ runs[job.id] = 0
    /\ \A k \in 1 .. Len(toWorker) : toWorker[k].id # job.id

\* A result frame carries the result of the one execution of its id.
Honest(f) == f.kind = "ok" => f.val = f.id /\ f.id \in 1 .. nextID /\ runs[f.id] = 1

HonestFrames == Honest(reply) /\ \A k \in 1 .. Len(toHost) : Honest(toHost[k])

\* So does a result Call has returned.
HonestOutcomes ==
  ~torn => \A i \in Ids : outcome[i].status = "ok" => outcome[i].val = i /\ runs[i] = 1

\* Callers that take turns never meet inside the reader.
TurnTaking ==
  Serial => ~torn /\ \A g, h \in Callers : Active(g) /\ Active(h) => g = h

Provenance ==
  /\ TypeOK /\ ExecutedOnce /\ Unissued /\ Owners
  /\ FreshUnsent /\ FreshQueue /\ FreshJob
  /\ HonestFrames /\ HonestOutcomes /\ TurnTaking

LEMMA InitProvenance == Init => Provenance
PROOF
  <1> SUFFICES ASSUME Init PROVE Provenance
    OBVIOUS
  <1>1. TypeOK
    BY InitType
  <1>2. Len(toWorker) = 0 /\ Len(toHost) = 0 /\ \A g \in Callers : pc[g] = "idle"
    BY DEF Init
  <1>3. ExecutedOnce /\ Unissued
    BY DEF Init, ExecutedOnce, Unissued
  <1>4. Owners /\ FreshUnsent /\ TurnTaking
    BY <1>2 DEF Init, Owners, FreshUnsent, Unsent, TurnTaking, Active
  <1>5. FreshQueue /\ FreshJob
    BY <1>2 DEF Init, FreshQueue, FreshJob
  <1>6. HonestFrames /\ HonestOutcomes
    BY <1>2 DEF Init, HonestFrames, Honest, Junk, HonestOutcomes, Pending
  <1> QED BY <1>1, <1>3, <1>4, <1>5, <1>6 DEF Provenance

\* Every way in which Call returns: the frames left in the pipe were there
\* before, and a result is the caller's own unless the reader has been torn.
LEMMA ReturnProvenance ==
  ASSUME Provenance, TypeOK', NEW g \in Callers, Active(g),
         NEW st \in Statuses \ {"pending"}, NEW v \in 0 .. MaxCalls, Return(g, st, v),
         UNCHANGED <<nextID, torn, server, toWorker>>,
         \A k \in 1 .. Len(toHost') : \E l \in 1 .. Len(toHost) : toHost'[k] = toHost[l],
         torn \/ (st = "ok" => v = cur[g].id /\ runs[cur[g].id] = 1)
  PROVE  Provenance'
PROOF
  <1> DEFINE i0 == cur[g].id
  <1>1. i0 \in 1 .. nextID /\ i0 \in Ids /\ nextID \in 0 .. MaxCalls
    BY ConstantsAssumption DEF Provenance, TypeOK
  <1>2. /\ \A h \in Callers : h # g => pc'[h] = pc[h] /\ cur'[h] = cur[h]
        /\ pc'[g] = "idle"
    BY DEF Return, Provenance, TypeOK
  <1>3. /\ \A i \in Ids : i # i0 => outcome'[i] = outcome[i]
        /\ outcome'[i0] = [status |-> st, val |-> v]
    BY <1>1 DEF Return, Provenance, TypeOK
  <1>4. UNCHANGED <<nextID, torn, wpc, job, reply, runs, toWorker>>
    BY DEF server
  <1> HIDE DEF i0
  <1>5. ExecutedOnce' /\ FreshQueue' /\ FreshJob'
    BY <1>4 DEF Provenance, ExecutedOnce, FreshQueue, FreshJob
  <1>6. Unissued'
    BY <1>1, <1>3, <1>4, ConstantsAssumption DEF Provenance, Unissued
  <1>7. Owners'
    <2>1. \A h \in Callers : Active(h)' => h # g /\ Active(h) /\ cur'[h].id = cur[h].id
      BY <1>2 DEF Active
    <2>2. \A h \in Callers : Active(h)' => cur[h].id # i0 /\ cur[h].id \in Ids
      BY <2>1, ConstantsAssumption DEF Provenance, Owners, i0, TypeOK
    <2> QED BY <1>3, <2>1, <2>2 DEF Provenance, Owners
  <1>8. FreshUnsent'
    BY <1>2, <1>4 DEF Provenance, FreshUnsent, Unsent
  <1>9. HonestFrames'
    BY <1>4 DEF Provenance, HonestFrames, Honest
  <1>10. HonestOutcomes'
    <2> SUFFICES ASSUME ~torn, NEW i \in Ids, outcome'[i].status = "ok"
                 PROVE  outcome'[i].val = i /\ runs[i] = 1
      BY <1>4 DEF HonestOutcomes
    <2>1. CASE i = i0
      BY <1>3, <2>1 DEF i0
    <2>2. CASE i # i0
      BY <1>3, <2>2 DEF Provenance, HonestOutcomes
    <2> QED BY <2>1, <2>2
  <1>11. TurnTaking'
    BY <1>2, <1>4 DEF Provenance, TurnTaking, Active
  <1> QED BY <1>5, <1>6, <1>7, <1>8, <1>9, <1>10, <1>11 DEF Provenance

\* The steps of Call that do not return.
LEMMA CallProvenance ==
  ASSUME Provenance, TypeOK', NEW g \in Callers,
         BuildRequest(g) \/ WriteRequest(g) \/ EnterRead(g)
  PROVE  Provenance'
PROOF
  <1> USE DEF Provenance
  <1>1. CASE BuildRequest(g)
    <2> USE <1>1 DEF BuildRequest, server
    <2>1. \A h \in Callers : (Active(h)' <=> Active(h)) /\ (Unsent(h)' <=> Unsent(h))
      BY DEF Active, Unsent, TypeOK
    <2>2. ExecutedOnce' /\ FreshQueue' /\ FreshJob' /\ Unissued' /\ HonestOutcomes'
      BY DEF ExecutedOnce, FreshQueue, FreshJob, Unissued, HonestOutcomes
    <2>3. Owners' /\ TurnTaking'
      BY <2>1 DEF Owners, TurnTaking
    <2>4. FreshUnsent' /\ HonestFrames'
      BY <2>1 DEF FreshUnsent, HonestFrames, Honest
    <2> QED BY <2>2, <2>3, <2>4
  <1>2. CASE WriteRequest(g)
    <2> USE <1>2 DEF WriteRequest, server
    <2>1. \A h \in Callers : /\ Active(h)' <=> Active(h)
                             /\ Unsent(h)' <=> Unsent(h) /\ h # g
      BY DEF Active, Unsent, TypeOK
    <2>2. /\ toWorker \in Seq(Request) /\ Len(toWorker) \in Nat
          /\ Len(toWorker') = Len(toWorker) + 1
          /\ \A k \in 1 .. Len(toWorker) : toWorker'[k] = toWorker[k]
          /\ toWorker'[Len(toWorker) + 1] = cur[g]
      BY AppendElements DEF TypeOK
    <2>3. Unsent(g) /\ Active(g) /\ cur[g].id \in 1 .. nextID
      BY DEF Unsent, Active, TypeOK
    <2>4. \A k \in 1 .. Len(toWorker') : k \in 1 .. Len(toWorker) \/ k = Len(toWorker) + 1
      BY <2>2
    <2>5. ExecutedOnce' /\ Unissued' /\ HonestOutcomes' /\ HonestFrames'
      BY DEF ExecutedOnce, Unissued, HonestOutcomes, HonestFrames, Honest
    <2>6. Owners' /\ TurnTaking'
      BY <2>1 DEF Owners, TurnTaking
    <2>7. FreshUnsent'
      <3> SUFFICES ASSUME NEW h \in Callers, Unsent(h), h # g
                   PROVE  /\ runs[cur[h].id] = 0
                          /\ \A k \in 1 .. Len(toWorker') : toWorker'[k].id # cur[h].id
                          /\ wpc = "dispatch" => job.id # cur[h].id
        BY <2>1 DEF FreshUnsent
      <3>1. Active(h) /\ cur[h].id # cur[g].id
        BY <2>3 DEF Unsent, Active, Owners
      <3>2. ASSUME NEW k \in 1 .. Len(toWorker') PROVE toWorker'[k].id # cur[h].id
        BY <2>2, <2>4, <3>1, <3>2 DEF FreshUnsent
      <3> QED BY <3>2 DEF FreshUnsent
    <2>8. FreshQueue'
      BY <2>2, <2>3, <2>4 DEF FreshQueue, FreshUnsent
    <2>9. FreshJob'
      BY <2>2, <2>3, <2>4 DEF FreshJob, FreshUnsent
    <2> QED BY <2>5, <2>6, <2>7, <2>8, <2>9
  <1>3. CASE EnterRead(g)
    <2> USE <1>3 DEF EnterRead, server
    <2>1. \A h \in Callers : (Active(h)' <=> Active(h)) /\ (Unsent(h)' <=> Unsent(h))
      BY DEF Active, Unsent, TypeOK
    <2>2. ExecutedOnce' /\ FreshQueue' /\ FreshJob' /\ Unissued'
      BY DEF ExecutedOnce, FreshQueue, FreshJob, Unissued
    <2>3. Owners' /\ FreshUnsent' /\ HonestFrames'
      BY <2>1 DEF Owners, FreshUnsent, HonestFrames, Honest
    <2>4. HonestOutcomes'
      BY DEF HonestOutcomes, TypeOK
    <2>5. Serial => ~torn /\ ~torn'
      BY DEF TurnTaking, Active
    <2>6. TurnTaking'
      BY <2>1, <2>5 DEF TurnTaking
    <2> QED BY <2>2, <2>3, <2>4, <2>6
  <1> QED BY <1>1, <1>2, <1>3

\* A fresh id cannot be anywhere yet.
LEMMA TakeIDProvenance ==
  ASSUME Provenance, TypeOK', NEW g \in Callers, NEW m \in Methods, TakeID(g, m)
  PROVE  Provenance'
PROOF
  <1> USE DEF Provenance
  <1>1. /\ nextID \in Nat /\ nextID' = nextID + 1 /\ nextID + 1 \in Ids
        /\ UNCHANGED <<torn, outcome, wpc, job, reply, runs, toWorker, toHost>>
    BY ConstantsAssumption DEF TakeID, TypeOK, server
  <1>2. /\ pc'[g] = "build" /\ cur'[g].id = nextID + 1 /\ ~Active(g)
        /\ \A h \in Callers : h # g => pc'[h] = pc[h] /\ cur'[h] = cur[h]
    BY DEF TakeID, TypeOK, Active
  <1>3. runs[nextID + 1] = 0 /\ outcome[nextID + 1] = Pending
    BY <1>1 DEF Unissued
  <1>4. ExecutedOnce' /\ HonestOutcomes'
    BY <1>1 DEF ExecutedOnce, HonestOutcomes
  <1>5. Unissued'
    BY <1>1 DEF Unissued
  <1>6. FreshQueue'
    BY <1>1 DEF FreshQueue
  <1>7. FreshJob'
    BY <1>1 DEF FreshJob
  <1>8. HonestFrames'
    BY <1>1 DEF HonestFrames, Honest
  <1>9. \A h \in Callers : h # g /\ Active(h)' => Active(h) /\ cur'[h].id = cur[h].id /\ cur[h].id \in 1 .. nextID
    BY <1>2 DEF Active, TypeOK
  <1>10. Owners'
    BY <1>1, <1>2, <1>3, <1>9 DEF Owners
  <1>11. FreshUnsent'
    <2> SUFFICES ASSUME NEW h \in Callers, Unsent(h)'
                 PROVE  /\ runs[cur'[h].id] = 0
                        /\ \A k \in 1 .. Len(toWorker) : toWorker[k].id # cur'[h].id
                        /\ wpc = "dispatch" => job.id # cur'[h].id
      BY <1>1 DEF FreshUnsent
    <2>1. CASE h = g
      BY <1>1, <1>2, <1>3, <2>1 DEF FreshQueue, FreshJob
    <2>2. CASE h # g
      BY <1>2, <2>2 DEF FreshUnsent, Unsent
    <2> QED BY <2>1, <2>2
  <1>12. TurnTaking'
    BY <1>1, <1>2, <1>9 DEF TurnTaking, TakeID, Active
  <1> QED BY <1>4, <1>5, <1>6, <1>7, <1>8, <1>10, <1>11, <1>12

\* Close, and the steps of the worker that execute nothing.
LEMMA QuietProvenance ==
  ASSUME Provenance, TypeOK',
         UNCHANGED <<nextID, pc, cur, torn, outcome, runs, toWorker>>,
         wpc' = "dispatch" => wpc = "dispatch" /\ job' = job,
         Honest(reply'),
         \/ toHost' = toHost
         \/ \E f \in Frame : Honest(f) /\ toHost' = Append(toHost, f)
  PROVE  Provenance'
PROOF
  <1> USE DEF Provenance
  <1>1. ExecutedOnce' /\ Unissued' /\ FreshQueue' /\ FreshJob' /\ HonestOutcomes'
    BY DEF ExecutedOnce, Unissued, FreshQueue, FreshJob, HonestOutcomes
  <1>2. Owners' /\ FreshUnsent' /\ TurnTaking'
    BY DEF Owners, FreshUnsent, TurnTaking, Active, Unsent
  <1>3. HonestFrames'
    <2>1. CASE toHost' = toHost
      BY <2>1 DEF HonestFrames, Honest
    <2>2. ASSUME NEW f \in Frame, Honest(f), toHost' = Append(toHost, f)
          PROVE  HonestFrames'
      <3>1. /\ Len(toHost) \in Nat /\ Len(toHost') = Len(toHost) + 1
            /\ \A k \in 1 .. Len(toHost) : toHost'[k] = toHost[k]
            /\ toHost'[Len(toHost) + 1] = f
        BY <2>2, AppendElements DEF TypeOK
      <3>2. \A k \in 1 .. Len(toHost') : k \in 1 .. Len(toHost) \/ k = Len(toHost) + 1
        BY <3>1
      <3> QED BY <2>2, <3>1, <3>2 DEF HonestFrames, Honest
    <2> QED BY <2>1, <2>2
  <1> QED BY <1>1, <1>2, <1>3

\* The worker takes a request off the pipe.
LEMMA WorkerReadProvenance ==
  ASSUME Provenance, TypeOK', WorkerRead
  PROVE  Provenance'
PROOF
  <1> USE DEF Provenance
  <1>1. /\ UNCHANGED <<nextID, pc, cur, torn, outcome, runs, toHost>>
        /\ job' = Head(toWorker)
        /\ Honest(reply) => Honest(reply')
    BY DEF WorkerRead, client, Honest, Err
  <1>2. /\ Len(toWorker) \in Nat \ {0} /\ Len(toWorker') = Len(toWorker) - 1
        /\ Head(toWorker) = toWorker[1]
        /\ \A k \in 1 .. Len(toWorker) - 1 : toWorker'[k] = toWorker[k + 1]
    BY TailElements DEF WorkerRead, TypeOK
  <1>3. \A k \in 1 .. Len(toWorker') :
          toWorker'[k] = toWorker[k + 1] /\ k + 1 \in 1 .. Len(toWorker) /\ k + 1 # 1
    BY <1>2
  <1>4. 1 \in 1 .. Len(toWorker)
    BY <1>2
  <1>5. ExecutedOnce' /\ Unissued' /\ HonestOutcomes'
    BY <1>1 DEF ExecutedOnce, Unissued, HonestOutcomes
  <1>6. HonestFrames'
    BY <1>1 DEF HonestFrames, Honest
  <1>7. Owners' /\ TurnTaking'
    BY <1>1 DEF Owners, TurnTaking, Active
  <1>8. FreshQueue'
    <2>1. \A k, l \in 1 .. Len(toWorker') : k + 1 = l + 1 => k = l
      BY <1>2
    <2>2. ASSUME NEW k \in 1 .. Len(toWorker')
          PROVE  toWorker'[k].id \in 1 .. nextID /\ runs[toWorker'[k].id] = 0
      BY <1>3, <2>2 DEF FreshQueue
    <2>3. ASSUME NEW k \in 1 .. Len(toWorker'), NEW l \in 1 .. Len(toWorker'),
                 toWorker'[k].id = toWorker'[l].id
          PROVE  k = l
      <3>1. toWorker[k + 1].id = toWorker[l + 1].id
        BY <1>3, <2>3
      <3>2. k + 1 = l + 1
        BY <1>3, <3>1 DEF FreshQueue
      <3> QED BY <2>1, <3>2
    <2> QED BY <1>1, <2>2, <2>3 DEF FreshQueue
  <1>9. FreshJob'
    BY <1>1, <1>2, <1>3, <1>4 DEF FreshJob, FreshQueue
  <1>10. FreshUnsent'
    BY <1>1, <1>2, <1>3, <1>4 DEF FreshUnsent, Unsent
  <1> QED BY <1>5, <1>6, <1>7, <1>8, <1>9, <1>10

\* The worker executes a request: the only step that changes runs.
LEMMA ExecuteProvenance ==
  ASSUME Provenance, TypeOK', DispatchRuns \/ DispatchFatal
  PROVE  Provenance'
PROOF
  <1> USE DEF Provenance
  <1>1. /\ UNCHANGED <<nextID, pc, cur, torn, outcome, toWorker, toHost, job>>
        /\ wpc = "dispatch" /\ wpc' # "dispatch"
        /\ runs' = [runs EXCEPT ![job.id] = @ + 1]
        /\ reply' = reply \/ reply' \in Replies(job.id)
    BY DEF DispatchRuns, DispatchFatal, client
  <1>2. job.id \in Ids /\ job.id \in 1 .. nextID /\ runs[job.id] = 0
    BY <1>1, ConstantsAssumption DEF FreshJob, TypeOK
  <1>3. runs'[job.id] = 1 /\ \A i \in Ids : i # job.id => runs'[i] = runs[i]
    BY <1>1, <1>2 DEF TypeOK
  <1>4. ExecutedOnce' /\ Unissued'
    BY <1>1, <1>2, <1>3 DEF ExecutedOnce, Unissued, TypeOK
  <1>5. Owners' /\ TurnTaking' /\ FreshJob'
    BY <1>1 DEF Owners, TurnTaking, FreshJob, Active
  <1>6. FreshQueue'
    <2>1. \A k \in 1 .. Len(toWorker) : toWorker[k].id \in Ids /\ toWorker[k].id # job.id
      BY <1>1, ConstantsAssumption DEF FreshQueue, FreshJob, TypeOK
    <2> QED BY <1>1, <1>3, <2>1 DEF FreshQueue
  <1>7. FreshUnsent'
    <2>1. \A g \in Callers : Unsent(g) => cur[g].id \in Ids /\ cur[g].id # job.id
      BY <1>1, ConstantsAssumption DEF Unsent, Active, FreshUnsent, TypeOK
    <2> QED BY <1>1, <1>3, <2>1 DEF FreshUnsent, Unsent
  <1>8. \A f : Honest(f) => Honest(f)'
    BY <1>1, <1>2, <1>3, ConstantsAssumption DEF Honest, TypeOK
  <1>9. HonestFrames'
    <2>1. Honest(reply)'
      <3>1. CASE reply' = reply
        BY <1>8, <3>1 DEF HonestFrames, Honest
      <3>2. CASE reply' \in Replies(job.id)
        BY <1>1, <1>2, <1>3, <3>2 DEF Replies, Ok, Err, Junk, Honest
      <3> QED BY <1>1, <3>1, <3>2
    <2>2. \A k \in 1 .. Len(toHost) : Honest(toHost[k])'
      BY <1>1, <1>8 DEF HonestFrames, Honest
    <2> QED BY <1>1, <2>1, <2>2 DEF HonestFrames, Honest
  <1>10. HonestOutcomes'
    BY <1>1, <1>2, <1>3 DEF HonestOutcomes
  <1> QED BY <1>4, <1>5, <1>6, <1>7, <1>9, <1>10

LEMMA ProvenanceStep == Provenance /\ [Next]_vars => Provenance'
PROOF
  <1> SUFFICES ASSUME Provenance, [Next]_vars PROVE Provenance'
    OBVIOUS
  <1>0. TypeOK /\ TypeOK'
    BY TypeStep DEF Provenance
  <1>1. ASSUME NEW g \in Callers, NEW m \in Methods, TakeID(g, m) PROVE Provenance'
    BY <1>0, <1>1, TakeIDProvenance
  <1>2. ASSUME NEW g \in Callers, BuildRequest(g) \/ WriteRequest(g) \/ EnterRead(g)
        PROVE  Provenance'
    BY <1>0, <1>2, CallProvenance
  <1>3. ASSUME NEW g \in Callers, BuildFails(g) \/ WriteBroken(g) \/ ReadFails(g)
        PROVE  Provenance'
    <2>1. PICK st \in {"buildError", "writeError", "readError"} : Return(g, st, 0)
      BY <1>3 DEF BuildFails, WriteBroken, ReadFails
    <2>2. /\ Active(g) /\ UNCHANGED <<nextID, torn, server, toWorker>> /\ toHost' = toHost
          /\ st \in Statuses \ {"pending"} /\ st # "ok" /\ 0 \in 0 .. MaxCalls
      BY <1>3, ConstantsAssumption DEF BuildFails, WriteBroken, ReadFails, Active, Statuses
    <2>3. \A k \in 1 .. Len(toHost') : \E l \in 1 .. Len(toHost) : toHost'[k] = toHost[l]
      BY <2>2
    <2> QED BY <1>0, <2>1, <2>2, <2>3, ReturnProvenance
  <1>4. ASSUME NEW g \in Callers, ReadResponse(g) PROVE Provenance'
    <2> DEFINE v == Verdict(cur[g].id, Head(toHost))
    <2>1. /\ Return(g, v.status, v.val) /\ Active(g)
          /\ UNCHANGED <<nextID, torn, server, toWorker>>
          /\ toHost # << >> /\ toHost' = Tail(toHost)
      BY <1>4 DEF ReadResponse, Active
    <2>2. Head(toHost) \in Frame /\ Honest(Head(toHost))
      BY <1>0, <2>1, TailElements DEF Provenance, HonestFrames, TypeOK
    <2>3. cur[g].id \in 0 .. MaxCalls
      BY <1>0 DEF TypeOK, Request
    <2>4. v.status \in Statuses \ {"pending"} /\ v.val \in 0 .. MaxCalls
      BY <2>2, <2>3, VerdictType
    <2>5. v.status = "ok" => v.val = cur[g].id /\ runs[cur[g].id] = 1
      BY <2>2, <2>3, VerdictType DEF Honest
    <2>6. \A k \in 1 .. Len(toHost') : \E l \in 1 .. Len(toHost) : toHost'[k] = toHost[l]
      <3>1. toHost \in Seq(Frame)
        BY <1>0 DEF TypeOK
      <3>2. \A k \in 1 .. Len(toHost') : k + 1 \in 1 .. Len(toHost) /\ toHost'[k] = toHost[k + 1]
        BY <2>1, <3>1, TailElements
      <3> QED BY <3>2
    <2> HIDE DEF v
    <2> QED BY <1>0, <2>1, <2>4, <2>5, <2>6, ReturnProvenance
  <1>5. ASSUME NEW g \in Callers, ReadTorn(g) PROVE Provenance'
    <2>1. PICK st \in Statuses \ {"pending"}, v \in 0 .. MaxCalls : Return(g, st, v)
      BY <1>0, <1>5, TornReturns
    <2>2. Active(g) /\ torn /\ UNCHANGED <<nextID, torn, server, toWorker>>
      BY <1>5 DEF ReadTorn, Active
    <2>3. \A k \in 1 .. Len(toHost') : \E l \in 1 .. Len(toHost) : toHost'[k] = toHost[l]
      <3>1. PICK n \in 1 .. Len(toHost) + 1 : toHost' = SubSeq(toHost, n, Len(toHost))
        BY <1>5 DEF ReadTorn
      <3>2. toHost \in Seq(Frame) /\ Len(toHost) \in Nat
        BY <1>0 DEF TypeOK
      <3>3. /\ Len(toHost') = Len(toHost) - n + 1
            /\ \A k \in 1 .. Len(toHost) - n + 1 : toHost'[k] = toHost[k + n - 1]
        BY <3>1, <3>2, SuffixElements
      <3>4. \A k \in 1 .. Len(toHost') : k + n - 1 \in 1 .. Len(toHost) /\ toHost'[k] = toHost[k + n - 1]
        BY <3>2, <3>3
      <3> QED BY <3>4
    <2> QED BY <1>0, <2>1, <2>2, <2>3, ReturnProvenance
  <1>6. CASE WorkerRead
    BY <1>0, <1>6, WorkerReadProvenance
  <1>7. CASE DispatchRuns \/ DispatchFatal
    BY <1>0, <1>7, ExecuteProvenance
  <1>8. CASE CloseMark \/ CloseConn \/ WorkerEOF \/ DispatchUnlisted \/ WorkerPrint
             \/ WriteResponse \/ ResponseBroken \/ WorkerCrash \/ UNCHANGED vars
    <2>1. /\ UNCHANGED <<nextID, pc, cur, torn, outcome, runs, toWorker>>
          /\ wpc' = "dispatch" => wpc = "dispatch" /\ job' = job
      BY <1>8 DEF CloseMark, CloseConn, WorkerEOF, DispatchUnlisted, WorkerPrint,
         WriteResponse, ResponseBroken, WorkerCrash, vars, client, server
    <2>2. Honest(reply) /\ Honest(Junk) /\ Honest(Err(job.id)) /\ Junk \in Frame /\ reply \in Frame
      BY <1>0, FrameTypes, ConstantsAssumption
         DEF Provenance, HonestFrames, Honest, Junk, Err, TypeOK, Frame
    <2>3. reply' = reply \/ reply' = Err(job.id)
      BY <1>8 DEF CloseMark, CloseConn, WorkerEOF, DispatchUnlisted, WorkerPrint,
         WriteResponse, ResponseBroken, WorkerCrash, vars, client, server
    <2>4. toHost' = toHost \/ toHost' = Append(toHost, reply) \/ toHost' = Append(toHost, Junk)
      BY <1>8 DEF CloseMark, CloseConn, WorkerEOF, DispatchUnlisted, WorkerPrint, Deliver,
         WriteResponse, ResponseBroken, WorkerCrash, vars, client, server
    <2> QED BY <1>0, <2>1, <2>2, <2>3, <2>4, QuietProvenance
  <1> QED
    BY <1>1, <1>2, <1>3, <1>4, <1>5, <1>6, <1>7, <1>8 DEF Next, CallStep, WorkerStep

LEMMA ProvenanceInvariant == Spec => []Provenance
PROOF
  <1> QED BY InitProvenance, ProvenanceStep, PTL DEF Spec

\* For any number of goroutines, calls, frames and crashes, printing methods
\* included: a result Call returns is the result of its own request, until two
\* goroutines have been inside the unguarded bufio.Reader at once.
THEOREM OwnAnswerAlways == Spec => []OwnAnswer
PROOF
  <1>1. Provenance => OwnAnswer
    BY DEF Provenance, HonestOutcomes, OwnAnswer
  <1> QED BY <1>1, ProvenanceInvariant, PTL

\* The worker never executes a request twice, whatever fails around it.
THEOREM ExecutedOnceAlways == Spec => []ExecutedOnce
PROOF
  <1>1. Provenance => ExecutedOnce
    BY DEF Provenance
  <1> QED BY <1>1, ProvenanceInvariant, PTL

----------------------------------------------------------------------------
(***************************************************************************)
(* Refinement: a Client whose callers take turns is an at-most-once RPC.   *)
(***************************************************************************)

\* An unsuccessful return is a failure of the abstract call.
LEMMA ReturnFails ==
  ASSUME Provenance, NEW g \in Callers, Active(g),
         NEW st \in Statuses \ {"pending", "ok"}, NEW v \in 0 .. MaxCalls,
         Return(g, st, v), UNCHANGED <<nextID, runs>>
  PROVE  Abs!AbsNext
PROOF
  <1>1. cur[g].id \in 1 .. nextID /\ outcome[cur[g].id].status = "pending"
    BY DEF Provenance, TypeOK, Owners, Pending
  <1>2. Abs!Fail(cur[g].id)
    BY <1>1 DEF Abs!Fail, Return
  <1> QED BY <1>1, <1>2 DEF Abs!AbsNext

\* Reading the caller's own result is a success of the abstract call.
LEMMA ReadRefines ==
  ASSUME Provenance, NEW g \in Callers, ReadResponse(g)
  PROVE  Abs!AbsNext
PROOF
  <1> DEFINE f == Head(toHost)
             v == Verdict(cur[g].id, f)
  <1>1. /\ Return(g, v.status, v.val) /\ Active(g) /\ UNCHANGED <<nextID, runs>>
        /\ toHost # << >>
    BY DEF ReadResponse, Active, server
  <1>2. f \in Frame /\ Honest(f)
    BY <1>1, TailElements DEF Provenance, HonestFrames, TypeOK
  <1>3. cur[g].id \in 1 .. nextID /\ cur[g].id \in 0 .. MaxCalls
    BY <1>1 DEF Provenance, TypeOK, Request
  <1>4. outcome[cur[g].id].status = "pending"
    BY <1>1 DEF Provenance, Owners, Pending
  <1>5. CASE v.status = "ok"
    <2>1. v.val = cur[g].id /\ runs[cur[g].id] = 1
      BY <1>2, <1>3, <1>5, VerdictType DEF Honest
    <2> HIDE DEF v
    <2>2. Abs!Succeed(cur[g].id)
      BY <1>1, <1>4, <1>5, <2>1 DEF Abs!Succeed, Return
    <2> QED BY <1>3, <2>2 DEF Abs!AbsNext
  <1>6. CASE v.status # "ok"
    <2>1. v.status \in Statuses \ {"pending", "ok"} /\ v.val \in 0 .. MaxCalls
      BY <1>2, <1>3, <1>6, VerdictType
    <2> HIDE DEF v
    <2> QED BY <1>1, <2>1, ReturnFails
  <1> QED BY <1>5, <1>6

LEMMA StepRefines ==
  ASSUME Serial, Provenance, [Next]_vars
  PROVE  [Abs!AbsNext]_(Abs!absVars)
PROOF
  <1> USE DEF Abs!absVars
  <1>1. ASSUME NEW g \in Callers, NEW m \in Methods, TakeID(g, m) PROVE Abs!AbsNext
    BY <1>1 DEF TakeID, server, Abs!AbsNext, Abs!Issue
  <1>2. ASSUME NEW g \in Callers, BuildFails(g) \/ WriteBroken(g) \/ ReadFails(g)
        PROVE  Abs!AbsNext
    <2>1. PICK st \in {"buildError", "writeError", "readError"} : Return(g, st, 0)
      BY <1>2 DEF BuildFails, WriteBroken, ReadFails
    <2>2. /\ Active(g) /\ UNCHANGED <<nextID, runs>>
          /\ st \in Statuses \ {"pending", "ok"} /\ 0 \in 0 .. MaxCalls
      BY <1>2, ConstantsAssumption
         DEF BuildFails, WriteBroken, ReadFails, Active, Statuses, server
    <2> QED BY <2>1, <2>2, ReturnFails
  <1>3. ASSUME NEW g \in Callers, ReadResponse(g) PROVE Abs!AbsNext
    BY <1>3, ReadRefines
  <1>4. ASSUME NEW g \in Callers, ReadTorn(g) PROVE FALSE
    BY <1>4 DEF ReadTorn, Provenance, TurnTaking
  <1>5. ASSUME DispatchRuns \/ DispatchFatal PROVE Abs!AbsNext
    <2>1. job.id \in 1 .. nextID /\ runs[job.id] = 0
      BY <1>5 DEF DispatchRuns, DispatchFatal, Provenance, FreshJob
    <2>2. runs' = [runs EXCEPT ![job.id] = 1] /\ UNCHANGED <<nextID, outcome>>
      BY <1>5, <2>1 DEF DispatchRuns, DispatchFatal, client
    <2>3. Abs!Execute(job.id)
      BY <2>1, <2>2 DEF Abs!Execute
    <2> QED BY <2>1, <2>3 DEF Abs!AbsNext
  <1>6. ASSUME NEW g \in Callers, BuildRequest(g) \/ WriteRequest(g) \/ EnterRead(g)
        PROVE  UNCHANGED <<nextID, runs, outcome>>
    BY <1>6 DEF BuildRequest, WriteRequest, EnterRead, server
  <1>7. CASE CloseMark \/ CloseConn \/ WorkerRead \/ WorkerEOF \/ DispatchUnlisted
             \/ WorkerPrint \/ WriteResponse \/ ResponseBroken \/ WorkerCrash
             \/ UNCHANGED vars
    BY <1>7 DEF CloseMark, CloseConn, WorkerRead, WorkerEOF, DispatchUnlisted, WorkerPrint,
       WriteResponse, ResponseBroken, WorkerCrash, vars, client, server
  <1> QED
    BY <1>1, <1>2, <1>3, <1>4, <1>5, <1>6, <1>7 DEF Next, CallStep, WorkerStep

\* Callers that take turns get at-most-once remote calls, for any number of
\* calls and either worker: Client, Codec and worker implement RpcAbs.
THEOREM ImplementsRPC ==
  ASSUME Serial
  PROVE  Spec => AtMostOnceRPC
PROOF
  <1>1. Init => Abs!AbsInit
    BY DEF Init, Abs!AbsInit, Pending
  <1>2. Provenance /\ [Next]_vars => [Abs!AbsNext]_(Abs!absVars)
    BY StepRefines
  <1> QED BY <1>1, <1>2, ProvenanceInvariant, PTL DEF Spec, AtMostOnceRPC, Abs!AbsSpec

----------------------------------------------------------------------------
(***************************************************************************)
(* Callers that take turns: what is in flight between host and worker.     *)
(***************************************************************************)

Sent(g) == pc[g] \in {"wrote", "read"}

\* The worker has taken a request off the pipe and not written its answer.
Busy == wpc \in {"dispatch", "reply", "lastReply"}

\* Requests and frames anywhere between a WriteRequest and a ReadResponse.
InFlight == Len(toHost) + Len(toWorker) + (IF Busy THEN 1 ELSE 0)

\* The request of the Call in progress is the last in line: in the pipe, in the
\* worker, or answered by the last frame.
LastInLine(g) ==
  /\ toWorker # << >> => toWorker[Len(toWorker)].id = cur[g].id
  /\ toWorker = << >> /\ Busy => job.id = cur[g].id
  /\ toWorker = << >> /\ wpc = "reply" => reply.id = cur[g].id \/ reply.kind = "junk"
  /\ toWorker = << >> /\ wpc = "read" =>
       /\ toHost # << >>
       /\ toHost[Len(toHost)].id = cur[g].id \/ toHost[Len(toHost)].kind = "junk"

\* Callers that take turns use the latest id, and no call begins after Close.
Turns ==
  Serial =>
    /\ ~connOpen => closed
    /\ \A g \in Callers : Active(g) => cur[g].id = nextID
    /\ \A g \in Callers : Sent(g) /\ wpc # "dead" => LastInLine(g)

\* Some call has read the answer of another.
Behind == \E i \in Ids : outcome[i].status = "mismatch"

\* A client that is behind stays behind: something is always in flight ahead of
\* the current request, until the worker or the connection is gone.
Lag ==
  Serial /\ Behind =>
    /\ wpc = "dead" \/ ~connOpen \/ InFlight >= 1
    /\ \A g \in Callers : Sent(g) =>
         /\ wpc # "dead" => InFlight >= 2
         /\ \A k \in 1 .. Len(toHost) :
              toHost[k].kind = "ok" /\ toHost[k].id = cur[g].id => k >= 2

\* Nothing is in flight that a later call could read.
Quiet == toHost = << >> /\ (wpc = "dead" \/ (wpc = "read" /\ toWorker = << >>))

\* A frame is an answer to request i, or the Go worker's parse error.
Answers(f, i) == f.kind = "junk" \/ f.id = i \/ (Worker = "go" /\ f.id = 0)

\* Without printing methods, at most one request or answer is in flight, and it
\* is the one of the Call in progress.
OneAtATime ==
  Serial /\ ~Noisy =>
    /\ wpc # "dead" => InFlight <= 1
    /\ Len(toHost) <= 1
    /\ connOpen /\ (\A g \in Callers : ~Active(g)) => Quiet
    /\ \A g \in Callers :
         /\ Unsent(g) => Quiet
         /\ Active(g) => \A k \in 1 .. Len(toHost) : Answers(toHost[k], cur[g].id)
         /\ Active(g) /\ wpc \in {"reply", "lastReply"} => Answers(reply, cur[g].id)

InTurn == Turns /\ StaysOutOfStep /\ Lag /\ InStep /\ OneAtATime

LEMMA InitInTurn == Init => InTurn
PROOF
  <1> SUFFICES ASSUME Init PROVE InTurn
    OBVIOUS
  <1>1. /\ \A g \in Callers : ~Active(g) /\ ~Sent(g) /\ ~Unsent(g)
        /\ toHost = << >> /\ toWorker = << >> /\ Len(toHost) = 0 /\ Len(toWorker) = 0
        /\ wpc = "read" /\ ~Busy
        /\ connOpen = TRUE
    BY DEF Init, Active, Sent, Unsent, Busy
  <1>2. \A i \in Ids : outcome[i].status = "pending"
    BY DEF Init, Pending
  <1>3. Turns
    BY <1>1 DEF Turns
  <1>4. StaysOutOfStep /\ InStep /\ Lag
    BY <1>2 DEF StaysOutOfStep, InStep, Lag, Behind
  <1>5. OneAtATime
    BY <1>1 DEF OneAtATime, Quiet, InFlight
  <1> QED BY <1>3, <1>4, <1>5 DEF InTurn

\* A Call begins: no other is in progress and Close has not run.
LEMMA TakeIDInTurn ==
  ASSUME Serial, Provenance, InTurn, NEW g \in Callers, NEW m \in Methods, TakeID(g, m)
  PROVE  InTurn'
PROOF
  <1>1. UNCHANGED <<wpc, job, reply, toWorker, toHost, outcome, closed, connOpen>>
    BY DEF TakeID, server
  <1>2. InFlight' = InFlight /\ Behind' = Behind /\ Quiet' = Quiet
    BY <1>1 DEF InFlight, Busy, Behind, Quiet
  <1>3. StaysOutOfStep' /\ InStep'
    BY <1>1 DEF InTurn, StaysOutOfStep, InStep
  <1>4. /\ nextID' = nextID + 1 /\ pc'[g] = "build" /\ cur'[g].id = nextID' /\ ~closed
        /\ \A h \in Callers : pc[h] = "idle"
        /\ \A h \in Callers : h # g => pc'[h] = "idle"
    BY DEF TakeID, Provenance, TypeOK, Active
  <1>5. connOpen /\ \A h \in Callers : ~Sent(h)'
    BY <1>4 DEF InTurn, Turns, Sent
  <1>6. Turns'
    BY <1>1, <1>4, <1>5 DEF InTurn, Turns, Active
  <1>7. Lag'
    BY <1>1, <1>2, <1>5 DEF InTurn, Lag
  <1>8. OneAtATime'
    <2> SUFFICES ASSUME ~Noisy PROVE OneAtATime'
      BY DEF OneAtATime
    <2>1. Quiet
      BY <1>4, <1>5 DEF InTurn, OneAtATime, Active
    <2>2. Len(toHost) = 0 /\ wpc \notin {"reply", "lastReply"}
      BY <2>1 DEF Quiet
    <2> QED BY <1>1, <1>2, <2>1, <2>2 DEF InTurn, OneAtATime
  <1> QED BY <1>3, <1>6, <1>7, <1>8 DEF InTurn

\* A Call moves on inside the host, or Close runs.
LEMMA HostInTurn ==
  ASSUME Serial, Provenance, InTurn,
         \/ \E g \in Callers : BuildRequest(g) \/ EnterRead(g)
         \/ CloseMark \/ CloseConn \/ UNCHANGED vars
  PROVE  InTurn'
PROOF
  <1>1. UNCHANGED <<wpc, job, reply, toWorker, toHost, outcome, nextID, cur>>
    BY DEF BuildRequest, EnterRead, CloseMark, CloseConn, vars, client, server
  <1>2. InFlight' = InFlight /\ Behind' = Behind /\ Quiet' = Quiet
    BY <1>1 DEF InFlight, Busy, Behind, Quiet
  <1>3. StaysOutOfStep' /\ InStep'
    BY <1>1 DEF InTurn, StaysOutOfStep, InStep
  <1>4. \A h \in Callers : /\ Active(h)' <=> Active(h)
                           /\ Sent(h)' <=> Sent(h)
                           /\ Unsent(h)' <=> Unsent(h)
    <2>1. ASSUME NEW g \in Callers, BuildRequest(g) \/ EnterRead(g), NEW h \in Callers
          PROVE  (pc'[h] = pc[h]) \/ (pc[h] = "build" /\ pc'[h] = "write") \/ (pc[h] = "wrote" /\ pc'[h] = "read")
      BY <2>1 DEF BuildRequest, EnterRead, Provenance, TypeOK
    <2>2. CASE CloseMark \/ CloseConn \/ UNCHANGED vars
      BY <2>2 DEF CloseMark, CloseConn, vars, client, Active, Sent, Unsent
    <2> QED BY <2>1, <2>2 DEF Active, Sent, Unsent
  <1>5. (connOpen' => connOpen) /\ (~connOpen' => closed')
    BY DEF BuildRequest, EnterRead, CloseMark, CloseConn, vars, client, InTurn, Turns
  <1>6. \A h \in Callers : LastInLine(h)' <=> LastInLine(h)
    BY <1>1 DEF LastInLine, Busy
  <1>7. Turns'
    BY <1>1, <1>4, <1>5, <1>6 DEF InTurn, Turns
  <1>8. Lag'
    BY <1>1, <1>2, <1>4, <1>5 DEF InTurn, Lag
  <1>9. OneAtATime'
    BY <1>1, <1>2, <1>4, <1>5 DEF InTurn, OneAtATime, Answers
  <1> QED BY <1>3, <1>7, <1>8, <1>9 DEF InTurn

\* A request is written behind whatever is in flight.
LEMMA WriteInTurn ==
  ASSUME Serial, Provenance, TypeOK', InTurn, NEW g \in Callers, WriteRequest(g)
  PROVE  InTurn'
PROOF
  <1> DEFINE j == cur[g].id
  <1>1. /\ UNCHANGED <<wpc, job, reply, toHost, outcome, nextID, cur, closed, connOpen>>
        /\ pc[g] = "write" /\ wpc # "dead" /\ connOpen /\ toWorker' = Append(toWorker, cur[g])
        /\ pc' = [pc EXCEPT ![g] = "wrote"]
    BY DEF WriteRequest, server
  <1>2. /\ Len(toWorker) \in Nat /\ Len(toHost) \in Nat /\ Len(toWorker') = Len(toWorker) + 1
        /\ toWorker'[Len(toWorker')] = cur[g] /\ toWorker' # << >>
    BY <1>1, AppendElements DEF Provenance, TypeOK
  <1>3. InFlight' = InFlight + 1 /\ InFlight \in Nat /\ Behind' = Behind
    BY <1>1, <1>2 DEF InFlight, Busy, Behind
  <1>4. StaysOutOfStep' /\ InStep'
    BY <1>1 DEF InTurn, StaysOutOfStep, InStep
  <1>5. \A h \in Callers : h # g => pc[h] = "idle" /\ pc'[h] = "idle"
    BY <1>1 DEF Provenance, TurnTaking, Active, TypeOK
  <1>6. pc'[g] = "wrote"
    BY <1>1 DEF Provenance, TypeOK
  <1>7. Turns'
    BY <1>1, <1>2, <1>5, <1>6 DEF InTurn, Turns, Active, Sent, LastInLine
  <1>8. ASSUME NEW k \in 1 .. Len(toHost), toHost[k].kind = "ok" PROVE toHost[k].id # j
    BY <1>1, <1>8 DEF Provenance, HonestFrames, Honest, FreshUnsent, Unsent
  <1>9. Lag'
    <2> SUFFICES ASSUME Behind PROVE Lag'
      BY <1>3 DEF Lag
    <2>1. InFlight >= 1
      BY <1>1 DEF InTurn, Lag
    <2>2. InFlight' >= 2 /\ InFlight' >= 1
      BY <1>3, <2>1
    <2>3. ASSUME NEW h \in Callers, Sent(h)', NEW k \in 1 .. Len(toHost'),
                 toHost'[k].kind = "ok" /\ toHost'[k].id = cur'[h].id
          PROVE  FALSE
      BY <1>1, <1>5, <1>8, <2>3 DEF Sent
    <2> QED BY <2>2, <2>3 DEF Lag
  <1>10. OneAtATime'
    <2> SUFFICES ASSUME ~Noisy PROVE OneAtATime'
      BY DEF OneAtATime
    <2>1. toHost = << >> /\ wpc = "read" /\ toWorker = << >>
      BY <1>1 DEF InTurn, OneAtATime, Unsent, Quiet
    <2>2. Len(toHost) = 0 /\ Len(toWorker) = 0 /\ ~Busy
      BY <2>1 DEF Busy
    <2>3. InFlight' <= 1
      BY <1>3, <2>2 DEF InFlight
    <2> QED BY <1>1, <1>5, <1>6, <2>1, <2>2, <2>3 DEF OneAtATime, Active, Unsent
  <1> QED BY <1>4, <1>7, <1>9, <1>10 DEF InTurn

\* After a return nobody is inside Call, and only the outcome of that Call is new.
LEMMA ReturnEffect ==
  ASSUME Serial, Provenance, NEW g \in Callers, Active(g), NEW st, NEW v, Return(g, st, v)
  PROVE  /\ \A h \in Callers : ~Active(h)' /\ ~Sent(h)' /\ ~Unsent(h)'
         /\ cur[g].id \in Ids /\ outcome[cur[g].id].status = "pending"
         /\ outcome'[cur[g].id] = [status |-> st, val |-> v]
         /\ \A i \in Ids : i # cur[g].id => outcome'[i] = outcome[i]
PROOF
  <1>1. \A h \in Callers : pc'[h] = "idle"
    BY DEF Return, Provenance, TypeOK, TurnTaking, Active
  <1>2. cur[g].id \in Ids
    BY ConstantsAssumption DEF Provenance, TypeOK
  <1>3. outcome[cur[g].id].status = "pending"
    BY DEF Provenance, Owners, Pending
  <1>4. /\ outcome'[cur[g].id] = [status |-> st, val |-> v]
        /\ \A i \in Ids : i # cur[g].id => outcome'[i] = outcome[i]
    BY <1>2 DEF Return, Provenance, TypeOK
  <1> QED BY <1>1, <1>2, <1>3, <1>4 DEF Active, Sent, Unsent

\* A Call fails without reading a frame.
LEMMA FailInTurn ==
  ASSUME Serial, Provenance, InTurn, NEW g \in Callers, Active(g),
         NEW st \in {"buildError", "writeError", "readError"}, Return(g, st, 0),
         UNCHANGED <<nextID, closed, connOpen, server, toWorker, toHost>>,
         Unsent(g) \/ ~connOpen \/ (wpc = "dead" /\ toHost = << >>)
  PROVE  InTurn'
PROOF
  <1>1. /\ \A h \in Callers : ~Active(h)' /\ ~Sent(h)' /\ ~Unsent(h)'
        /\ cur[g].id \in Ids /\ outcome[cur[g].id].status = "pending"
        /\ outcome'[cur[g].id] = [status |-> st, val |-> 0]
        /\ \A i \in Ids : i # cur[g].id => outcome'[i] = outcome[i]
    BY ReturnEffect
  <1>2. \A i \in Ids : /\ outcome'[i].status = "mismatch" =>
                            outcome[i].status = "mismatch" /\ outcome'[i].val = outcome[i].val
                       /\ outcome'[i].status = "ok" => outcome[i].status = "ok"
    BY <1>1
  <1>3. InFlight' = InFlight /\ Quiet' = Quiet /\ UNCHANGED <<wpc, connOpen, closed, toHost>>
    BY DEF InFlight, Busy, Quiet, server
  <1>4. StaysOutOfStep' /\ InStep' /\ (Behind' => Behind)
    BY <1>2 DEF InTurn, StaysOutOfStep, InStep, Behind
  <1>5. Turns' /\ Lag'
    BY <1>1, <1>3, <1>4 DEF InTurn, Turns, Lag
  <1>6. OneAtATime'
    BY <1>1, <1>3 DEF InTurn, OneAtATime, Quiet
  <1> QED BY <1>4, <1>5, <1>6 DEF InTurn

\* A Call reads the next frame.
LEMMA ReadInTurn ==
  ASSUME Serial, Provenance, InTurn, NEW g \in Callers, ReadResponse(g)
  PROVE  InTurn'
PROOF
  <1> DEFINE j == cur[g].id
             f == Head(toHost)
             v == Verdict(j, f)
  <1>1. /\ Return(g, v.status, v.val) /\ Active(g) /\ Sent(g) /\ toHost # << >> /\ toHost' = Tail(toHost)
        /\ UNCHANGED <<nextID, closed, connOpen, wpc, job, reply, toWorker>>
    BY DEF ReadResponse, Active, Sent, server
  <1>2. /\ Len(toHost) \in Nat \ {0} /\ Len(toHost') = Len(toHost) - 1 /\ f = toHost[1] /\ f \in Frame
        /\ Len(toWorker) \in Nat /\ toHost' \in Seq(Frame)
    BY <1>1, TailElements DEF Provenance, TypeOK
  <1>3. j \in Ids /\ j \in 0 .. MaxCalls /\ j = nextID
    BY <1>1, ConstantsAssumption DEF Provenance, TypeOK, InTurn, Turns
  <1>4. /\ \A h \in Callers : ~Active(h)' /\ ~Sent(h)' /\ ~Unsent(h)'
        /\ outcome[j].status = "pending"
        /\ outcome'[j].status = v.status /\ outcome'[j].val = v.val
        /\ \A i \in Ids : i # j => outcome'[i] = outcome[i]
    <2> HIDE DEF v
    <2>1. Active(g) /\ Return(g, v.status, v.val)
      BY <1>1
    <2>2. /\ \A h \in Callers : ~Active(h)' /\ ~Sent(h)' /\ ~Unsent(h)'
          /\ outcome[cur[g].id].status = "pending"
          /\ outcome'[cur[g].id] = [status |-> v.status, val |-> v.val]
          /\ \A i \in Ids : i # cur[g].id => outcome'[i] = outcome[i]
      BY <2>1, ReturnEffect
    <2> QED BY <2>2
  <1>5. InFlight' = InFlight - 1 /\ InFlight \in Nat /\ InFlight >= 1
    BY <1>1, <1>2 DEF InFlight, Busy
  <1>6. \A i \in Ids : i > j => outcome'[i].status = "pending"
    BY <1>3, <1>4 DEF Provenance, Unissued, Pending
  <1>7. v.status = "ok" => ~Behind
    <2> SUFFICES ASSUME v.status = "ok", Behind PROVE FALSE
      OBVIOUS
    <2>1. f.kind = "ok" /\ f.id = j
      BY <1>2, <1>3, VerdictType
    <2>2. 1 \in 1 .. Len(toHost)
      BY <1>2
    <2>3. 1 >= 2
      BY <1>1, <1>2, <2>1, <2>2 DEF InTurn, Lag
    <2> QED BY <2>3
  <1>8. v.status = "mismatch" => f.kind # "junk" /\ f.id # j /\ v.val = f.id
    BY DEF Verdict
  <1> HIDE DEF v
  <1>9. StaysOutOfStep'
    <2> SUFFICES ASSUME NEW i \in Ids, NEW k \in Ids, i < k, outcome'[i].status = "mismatch",
                        outcome'[k].status = "ok"
                 PROVE  FALSE
      BY DEF StaysOutOfStep
    <2>1. i # j
      BY <1>6
    <2>2. outcome[i].status = "mismatch"
      BY <1>4, <2>1
    <2>3. CASE k = j
      BY <1>4, <1>7, <2>2, <2>3 DEF Behind
    <2>4. CASE k # j
      BY <1>4, <2>2, <2>4 DEF InTurn, StaysOutOfStep
    <2> QED BY <2>3, <2>4
  <1>10. Turns'
    BY <1>1, <1>4 DEF InTurn, Turns
  <1>11. Lag'
    <2> SUFFICES ASSUME Behind', wpc # "dead" PROVE InFlight >= 2
      BY <1>1, <1>4, <1>5 DEF Lag
    <2>1. CASE Behind
      BY <1>1, <2>1 DEF InTurn, Lag
    <2>2. CASE ~Behind
      <3>1. f.kind # "junk" /\ f.id # j
        BY <1>4, <1>8, <2>2 DEF Behind
      <3>2. LastInLine(g)
        BY <1>1 DEF InTurn, Turns
      <3>3. CASE toWorker # << >>
        <4>1. Len(toWorker) >= 1
          BY <1>2, <3>3 DEF Provenance, TypeOK
        <4> QED BY <1>2, <4>1 DEF InFlight
      <3>4. CASE Busy
        BY <1>2, <3>4 DEF InFlight
      <3>5. CASE toWorker = << >> /\ ~Busy
        <4>1. wpc = "read"
          BY <3>5 DEF Busy, Provenance, TypeOK
        <4>2. toHost[Len(toHost)].id = j \/ toHost[Len(toHost)].kind = "junk"
          BY <3>2, <3>5, <4>1 DEF LastInLine
        <4>3. Len(toHost) # 1
          BY <1>2, <3>1, <4>2
        <4> QED BY <1>2, <3>5, <4>3 DEF InFlight
      <3> QED BY <3>3, <3>4, <3>5
    <2> QED BY <2>1, <2>2
  <1>12. InStep'
    <2> SUFFICES ASSUME ~Noisy, NEW i \in Ids, outcome'[i].status = "mismatch"
                 PROVE  Worker = "go" /\ outcome'[i].val = 0
      BY DEF InStep
    <2>1. CASE i # j
      BY <1>4, <2>1 DEF InTurn, InStep
    <2>2. CASE i = j
      <3>1. Answers(f, j)
        BY <1>1, <1>2 DEF InTurn, OneAtATime
      <3> QED BY <1>4, <1>8, <2>2, <3>1 DEF Answers
    <2> QED BY <2>1, <2>2
  <1>13. OneAtATime'
    <2> SUFFICES ASSUME ~Noisy PROVE OneAtATime'
      BY DEF OneAtATime
    <2>1. Len(toHost) = 1 /\ (wpc # "dead" => InFlight <= 1)
      BY <1>2 DEF InTurn, OneAtATime
    <2>2. Len(toHost') = 0 /\ toHost' = << >>
      BY <1>2, <2>1
    <2>3. wpc # "dead" => Len(toWorker) = 0 /\ ~Busy
      BY <1>2, <2>1 DEF InFlight
    <2>4. wpc # "dead" => toWorker = << >> /\ wpc = "read"
      BY <2>3 DEF Busy, Provenance, TypeOK
    <2>5. Quiet'
      BY <1>1, <2>2, <2>4 DEF Quiet
    <2>6. wpc' # "dead" => InFlight' <= 1
      BY <1>1, <1>5, <2>1
    <2> QED BY <1>4, <2>2, <2>5, <2>6 DEF OneAtATime
  <1> QED BY <1>9, <1>10, <1>11, <1>12, <1>13 DEF InTurn

\* The worker takes the next request off the pipe.
LEMMA WorkerReadInTurn ==
  ASSUME Serial, Provenance, InTurn, WorkerRead
  PROVE  InTurn'
PROOF
  <1>1. /\ UNCHANGED <<nextID, closed, connOpen, pc, cur, outcome, toHost>>
        /\ wpc = "read" /\ toWorker # << >> /\ toWorker' = Tail(toWorker) /\ job' = Head(toWorker)
        /\ wpc' \in {"dispatch", "lastReply"}
        /\ wpc' = "lastReply" => Worker = "go" /\ reply' = Err(0)
    BY DEF WorkerRead, client
  <1>2. /\ Len(toWorker) \in Nat \ {0} /\ Len(toWorker') = Len(toWorker) - 1 /\ Len(toHost) \in Nat
        /\ Head(toWorker) = toWorker[1] /\ toWorker' \in Seq(Request)
        /\ \A k \in 1 .. Len(toWorker) - 1 : toWorker'[k] = toWorker[k + 1]
    BY <1>1, TailElements DEF Provenance, TypeOK
  <1>3. ~Busy /\ Busy' /\ InFlight' = InFlight /\ Behind' = Behind
    BY <1>1, <1>2 DEF Busy, InFlight, Behind
  <1>4. StaysOutOfStep' /\ InStep'
    BY <1>1 DEF InTurn, StaysOutOfStep, InStep
  <1>5. \A h \in Callers : /\ Active(h)' <=> Active(h)
                           /\ Sent(h)' <=> Sent(h)
                           /\ Unsent(h)' <=> Unsent(h)
    BY <1>1 DEF Active, Sent, Unsent
  <1>6. ASSUME NEW g \in Callers, Sent(g) PROVE LastInLine(g)'
    <2>1. toWorker[Len(toWorker)].id = cur[g].id
      BY <1>1, <1>6 DEF InTurn, Turns, LastInLine
    <2>2. CASE toWorker' = << >>
      <3>1. Len(toWorker) = 1
        BY <1>2, <2>2
      <3> QED BY <1>1, <1>2, <2>1, <2>2, <3>1 DEF LastInLine
    <2>3. CASE toWorker' # << >>
      <3>1. Len(toWorker') >= 1
        BY <1>2, <2>3
      <3>2. toWorker'[Len(toWorker')] = toWorker[Len(toWorker)]
        BY <1>2, <3>1
      <3> QED BY <1>1, <2>1, <2>3, <3>2 DEF LastInLine
    <2> QED BY <2>2, <2>3
  <1>7. Turns'
    BY <1>1, <1>5, <1>6 DEF InTurn, Turns
  <1>8. Lag'
    BY <1>1, <1>3, <1>5 DEF InTurn, Lag
  <1>9. OneAtATime'
    <2> SUFFICES ASSUME ~Noisy PROVE OneAtATime'
      BY DEF OneAtATime
    <2>1. InFlight <= 1 /\ ~Quiet
      BY <1>1 DEF InTurn, OneAtATime, Quiet
    <2>2. Len(toHost') = 0
      BY <1>1, <1>2, <2>1 DEF InFlight, Busy
    <2>3. wpc' = "lastReply" => Worker = "go" /\ reply'.id = 0
      BY <1>1 DEF Err
    <2> QED BY <1>1, <1>3, <1>5, <2>1, <2>2, <2>3 DEF InTurn, OneAtATime, Answers
  <1> QED BY <1>4, <1>7, <1>8, <1>9 DEF InTurn

\* The worker ends, perhaps with a response cut short.
LEMMA DeadInTurn ==
  ASSUME Serial, Provenance, InTurn, wpc' = "dead",
         UNCHANGED <<client, toWorker>>,
         toHost' = toHost \/ (Busy /\ toHost' = Append(toHost, Junk))
  PROVE  InTurn'
PROOF
  <1>1. UNCHANGED <<nextID, closed, connOpen, pc, cur, outcome>> /\ Behind' = Behind
    BY DEF client, Behind
  <1>2. StaysOutOfStep' /\ InStep'
    BY <1>1 DEF InTurn, StaysOutOfStep, InStep
  <1>3. \A h \in Callers : /\ Active(h)' <=> Active(h)
                           /\ Sent(h)' <=> Sent(h)
                           /\ Unsent(h)' <=> Unsent(h)
    BY <1>1 DEF Active, Sent, Unsent
  <1>4. /\ Len(toHost) \in Nat /\ Len(toWorker) \in Nat
        /\ \A k \in 1 .. Len(toHost') : \/ k \in 1 .. Len(toHost) /\ toHost'[k] = toHost[k]
                                        \/ toHost'[k] = Junk
        /\ \/ toHost' = toHost
           \/ Busy /\ Len(toHost') = Len(toHost) + 1
    <2>1. Len(toHost) \in Nat /\ Len(toWorker) \in Nat /\ Junk \in Frame
      BY FrameTypes, ConstantsAssumption DEF Provenance, TypeOK
    <2>2. CASE toHost' = toHost
      BY <2>1, <2>2
    <2>3. CASE Busy /\ toHost' = Append(toHost, Junk)
      BY <2>1, <2>3, AppendElements DEF Provenance, TypeOK
    <2> QED BY <2>1, <2>2, <2>3
  <1>5. Turns'
    BY <1>1, <1>3 DEF InTurn, Turns
  <1>6. Lag'
    BY <1>1, <1>3, <1>4 DEF InTurn, Lag, Junk
  <1>7. OneAtATime'
    <2> SUFFICES ASSUME ~Noisy PROVE OneAtATime'
      BY DEF OneAtATime
    <2>1. Busy => Len(toHost) = 0
      BY <1>4 DEF InTurn, OneAtATime, InFlight, Busy
    <2>2. Len(toHost') <= 1
      BY <1>4, <2>1 DEF InTurn, OneAtATime
    <2>3. Quiet => Quiet'
      BY <1>4 DEF Quiet, Busy
    <2> QED BY <1>1, <1>3, <1>4, <2>2, <2>3 DEF InTurn, OneAtATime, Answers, Junk
  <1> QED BY <1>2, <1>5, <1>6, <1>7 DEF InTurn

\* The worker builds the answer to its job.
LEMMA ReplyInTurn ==
  ASSUME Serial, Provenance, InTurn, DispatchUnlisted \/ DispatchRuns
  PROVE  InTurn'
PROOF
  <1>1. /\ UNCHANGED <<nextID, closed, connOpen, pc, cur, outcome, toHost, toWorker, job>>
        /\ wpc = "dispatch" /\ wpc' = "reply"
        /\ reply'.id = job.id \/ reply'.kind = "junk"
    BY DEF DispatchUnlisted, DispatchRuns, client, Replies, Ok, Err, Junk
  <1>2. Busy /\ Busy' /\ InFlight' = InFlight /\ Behind' = Behind /\ ~Quiet /\ ~Quiet'
    BY <1>1 DEF Busy, InFlight, Behind, Quiet
  <1>3. StaysOutOfStep' /\ InStep'
    BY <1>1 DEF InTurn, StaysOutOfStep, InStep
  <1>4. \A h \in Callers : /\ Active(h)' <=> Active(h)
                           /\ Sent(h)' <=> Sent(h)
                           /\ Unsent(h)' <=> Unsent(h)
    BY <1>1 DEF Active, Sent, Unsent
  <1>5. \A g \in Callers : Sent(g) => LastInLine(g)'
    BY <1>1, <1>2 DEF InTurn, Turns, LastInLine
  <1>6. Turns' /\ Lag'
    BY <1>1, <1>2, <1>4, <1>5 DEF InTurn, Turns, Lag
  <1>7. OneAtATime'
    <2> SUFFICES ASSUME ~Noisy PROVE OneAtATime'
      BY DEF OneAtATime
    <2>1. Len(toWorker) = 0 /\ toWorker = << >>
      BY <1>1, <1>2 DEF InTurn, OneAtATime, InFlight, Provenance, TypeOK
    <2>2. ASSUME NEW g \in Callers, Active(g) PROVE Answers(reply', cur[g].id)
      <3>1. Sent(g)
        BY <1>2, <2>2 DEF InTurn, OneAtATime, Unsent, Active, Sent, Provenance, TypeOK
      <3>2. job.id = cur[g].id
        BY <1>1, <1>2, <2>1, <3>1 DEF InTurn, Turns, LastInLine
      <3> QED BY <1>1, <3>2 DEF Answers
    <2> QED BY <1>1, <1>2, <1>4, <2>2 DEF InTurn, OneAtATime, Answers
  <1> QED BY <1>3, <1>6, <1>7 DEF InTurn

\* A method prints: one more frame in flight, ahead of the answer to its job.
LEMMA PrintInTurn ==
  ASSUME Serial, Provenance, InTurn, WorkerPrint
  PROVE  InTurn'
PROOF
  <1>1. /\ UNCHANGED <<nextID, closed, connOpen, pc, cur, outcome, toWorker, wpc, job, reply>>
        /\ toHost' = Append(toHost, Junk) /\ Noisy /\ wpc = "dispatch"
    BY DEF WorkerPrint, Deliver, client, server
  <1>2. /\ Len(toHost) \in Nat /\ Len(toWorker) \in Nat /\ Len(toHost') = Len(toHost) + 1
        /\ \A k \in 1 .. Len(toHost) : toHost'[k] = toHost[k]
        /\ toHost'[Len(toHost) + 1] = Junk
    BY <1>1, FrameTypes, ConstantsAssumption, AppendElements DEF Provenance, TypeOK
  <1>3. /\ Busy /\ Busy' /\ InFlight' = InFlight + 1 /\ InFlight \in Nat /\ Behind' = Behind
    BY <1>1, <1>2 DEF Busy, InFlight, Behind
  <1>4. StaysOutOfStep' /\ InStep' /\ OneAtATime'
    BY <1>1 DEF InTurn, StaysOutOfStep, InStep, OneAtATime
  <1>5. \A h \in Callers : /\ Active(h)' <=> Active(h)
                           /\ Sent(h)' <=> Sent(h)
    BY <1>1 DEF Active, Sent
  <1>6. \A g \in Callers : Sent(g) => LastInLine(g)'
    BY <1>1, <1>3 DEF InTurn, Turns, LastInLine
  <1>7. Turns'
    BY <1>1, <1>5, <1>6 DEF InTurn, Turns
  <1>8. Lag'
    <2> SUFFICES ASSUME Behind PROVE Lag'
      BY <1>3 DEF Lag
    <2>1. /\ InFlight' >= 1
          /\ \A g \in Callers : Sent(g) => InFlight' >= 2
      BY <1>1, <1>3 DEF InTurn, Lag
    <2>2. ASSUME NEW g \in Callers, Sent(g), NEW k \in 1 .. Len(toHost'),
                 toHost'[k].kind = "ok", toHost'[k].id = cur[g].id
          PROVE  k >= 2
      <3>1. k # Len(toHost) + 1
        BY <1>2, <2>2 DEF Junk
      <3>2. k \in 1 .. Len(toHost) /\ toHost'[k] = toHost[k]
        BY <1>2, <3>1
      <3> QED BY <2>2, <3>2 DEF InTurn, Lag
    <2> QED BY <1>1, <1>5, <2>1, <2>2 DEF Lag
  <1> QED BY <1>4, <1>7, <1>8 DEF InTurn

\* The worker writes its answer behind the frames already there.
LEMMA WriteResponseInTurn ==
  ASSUME Serial, Provenance, InTurn, WriteResponse
  PROVE  InTurn'
PROOF
  <1>1. /\ UNCHANGED <<nextID, closed, connOpen, pc, cur, outcome, toWorker, job, reply, runs>>
        /\ toHost' = Append(toHost, reply) /\ wpc \in {"reply", "lastReply"}
        /\ wpc' \in {"read", "dead"} /\ (wpc' = "read" => wpc = "reply") /\ connOpen
    BY DEF WriteResponse, Deliver, client
  <1>2. /\ Len(toHost) \in Nat /\ Len(toWorker) \in Nat /\ Len(toHost') = Len(toHost) + 1
        /\ \A k \in 1 .. Len(toHost) : toHost'[k] = toHost[k]
        /\ toHost'[Len(toHost) + 1] = reply /\ toHost' # << >>
    BY <1>1, AppendElements DEF Provenance, TypeOK
  <1>3. Busy /\ ~Busy' /\ InFlight' = InFlight /\ InFlight \in Nat /\ Behind' = Behind /\ ~Quiet
    BY <1>1, <1>2 DEF Busy, InFlight, Behind, Quiet
  <1>4. StaysOutOfStep' /\ InStep'
    BY <1>1 DEF InTurn, StaysOutOfStep, InStep
  <1>5. \A h \in Callers : /\ Active(h)' <=> Active(h)
                           /\ Sent(h)' <=> Sent(h)
                           /\ Unsent(h)' <=> Unsent(h)
    BY <1>1 DEF Active, Sent, Unsent
  <1>6. \A g \in Callers : Sent(g) /\ wpc' # "dead" => LastInLine(g)'
    BY <1>1, <1>2, <1>3 DEF InTurn, Turns, LastInLine
  <1>7. Turns'
    BY <1>1, <1>5, <1>6 DEF InTurn, Turns
  <1>8. Lag'
    <2> SUFFICES ASSUME Behind PROVE Lag'
      BY <1>3 DEF Lag
    <2>1. /\ InFlight' >= 1
          /\ \A g \in Callers : Sent(g) => InFlight' >= 2
      BY <1>1, <1>3 DEF InTurn, Lag
    <2>2. ASSUME NEW g \in Callers, Sent(g), NEW k \in 1 .. Len(toHost'),
                 toHost'[k].kind = "ok", toHost'[k].id = cur[g].id
          PROVE  k >= 2
      <3>1. CASE k \in 1 .. Len(toHost)
        BY <1>2, <2>2, <3>1 DEF InTurn, Lag
      <3>2. CASE k = Len(toHost) + 1
        <4>1. runs[cur[g].id] = 1
          BY <1>2, <2>2, <3>2 DEF Provenance, HonestFrames, Honest
        <4>2. toWorker = << >>
          <5> SUFFICES ASSUME toWorker # << >> PROVE FALSE
            OBVIOUS
          <5>1. Len(toWorker) \in 1 .. Len(toWorker)
            BY <1>2 DEF Provenance, TypeOK
          <5>2. toWorker[Len(toWorker)].id = cur[g].id
            BY <1>1, <2>2 DEF InTurn, Turns, LastInLine
          <5> QED BY <4>1, <5>1, <5>2 DEF Provenance, FreshQueue
        <4>3. Len(toWorker) = 0 /\ InFlight >= 2
          BY <1>3, <2>1, <2>2, <4>2
        <4>4. Len(toHost) >= 1
          BY <1>2, <1>3, <4>3 DEF InFlight
        <4> QED BY <1>2, <3>2, <4>4
      <3> QED BY <1>2, <3>1, <3>2
    <2> QED BY <1>1, <1>5, <2>1, <2>2 DEF Lag
  <1>9. OneAtATime'
    <2> SUFFICES ASSUME ~Noisy PROVE OneAtATime'
      BY DEF OneAtATime
    <2>1. InFlight <= 1 /\ Len(toHost) = 0
      BY <1>1, <1>2, <1>3 DEF InTurn, OneAtATime, InFlight
    <2>2. /\ Len(toHost') = 1 /\ toHost'[1] = reply
          /\ \A g \in Callers : Active(g) => Answers(reply, cur[g].id)
          /\ \A g \in Callers : ~Unsent(g)
          /\ \E g \in Callers : Active(g)
      BY <1>1, <1>2, <1>3, <2>1 DEF InTurn, OneAtATime
    <2> QED BY <1>1, <1>3, <1>5, <2>1, <2>2 DEF OneAtATime, Answers
  <1> QED BY <1>4, <1>7, <1>8, <1>9 DEF InTurn

LEMMA InTurnStep ==
  ASSUME Serial, Provenance, Provenance', InTurn, [Next]_vars
  PROVE  InTurn'
PROOF
  <1>1. ASSUME NEW g \in Callers, NEW m \in Methods, TakeID(g, m) PROVE InTurn'
    BY <1>1, TakeIDInTurn
  <1>2. ASSUME NEW g \in Callers, BuildRequest(g) \/ EnterRead(g) PROVE InTurn'
    BY <1>2, HostInTurn
  <1>3. ASSUME NEW g \in Callers, WriteRequest(g) PROVE InTurn'
    BY <1>3, WriteInTurn DEF Provenance
  <1>4. ASSUME NEW g \in Callers, BuildFails(g) \/ WriteBroken(g) \/ ReadFails(g)
        PROVE  InTurn'
    <2>1. PICK st \in {"buildError", "writeError", "readError"} : Return(g, st, 0)
      BY <1>4 DEF BuildFails, WriteBroken, ReadFails
    <2>2. /\ Active(g) /\ UNCHANGED <<nextID, closed, connOpen, server, toWorker, toHost>>
          /\ Unsent(g) \/ ~connOpen \/ (wpc = "dead" /\ toHost = << >>)
      BY <1>4 DEF BuildFails, WriteBroken, ReadFails, Active, Unsent
    <2> QED BY <2>1, <2>2, FailInTurn
  <1>5. ASSUME NEW g \in Callers, ReadResponse(g) PROVE InTurn'
    BY <1>5, ReadInTurn
  <1>6. ASSUME NEW g \in Callers, ReadTorn(g) PROVE InTurn'
    BY <1>6 DEF ReadTorn, Provenance, TurnTaking
  <1>7. CASE CloseMark \/ CloseConn \/ UNCHANGED vars
    BY <1>7, HostInTurn
  <1>8. CASE WorkerRead
    BY <1>8, WorkerReadInTurn
  <1>9. CASE WorkerEOF \/ DispatchFatal \/ ResponseBroken \/ WorkerCrash
    <2>1. /\ wpc' = "dead" /\ UNCHANGED <<client, toWorker>>
          /\ toHost' = toHost \/ (Busy /\ toHost' = Append(toHost, Junk))
      BY <1>9 DEF WorkerEOF, DispatchFatal, ResponseBroken, WorkerCrash, Deliver, Busy
    <2> QED BY <2>1, DeadInTurn
  <1>10. CASE DispatchUnlisted \/ DispatchRuns
    BY <1>10, ReplyInTurn
  <1>11. CASE WorkerPrint
    BY <1>11, PrintInTurn
  <1>12. CASE WriteResponse
    BY <1>12, WriteResponseInTurn
  <1> QED
    BY <1>1, <1>2, <1>3, <1>4, <1>5, <1>6, <1>7, <1>8, <1>9, <1>10, <1>11, <1>12
       DEF Next, CallStep, WorkerStep

LEMMA InTurnInvariant == Spec => []InTurn
PROOF
  <1>1. InTurn /\ Provenance /\ Provenance' /\ [Next]_vars => InTurn'
    <2>1. CASE Serial
      BY <2>1, InTurnStep
    <2>2. CASE ~Serial
      BY <2>2 DEF InTurn, Turns, StaysOutOfStep, Lag, InStep, OneAtATime
    <2> QED BY <2>1, <2>2
  <1> QED BY <1>1, InitInTurn, ProvenanceInvariant, PTL DEF Spec

\* Callers that take turns and methods that do not print stay in step with the
\* worker for any number of calls: the only foreign id a Call ever reads is the 0
\* of the Go worker's parse error.
THEOREM StaysInStep == Spec => []InStep
PROOF
  <1>1. InTurn => InStep
    BY DEF InTurn
  <1> QED BY <1>1, InTurnInvariant, PTL

\* A client that has read another call's answer never succeeds again, however
\* many calls follow: the surplus frame stays ahead of every later answer.
THEOREM NeverRecovers == Spec => []StaysOutOfStep
PROOF
  <1>1. InTurn => StaysOutOfStep
    BY DEF InTurn
  <1> QED BY <1>1, InTurnInvariant, PTL
=============================================================================
