---------------------------- MODULE BuildProofs ----------------------------
(***************************************************************************)
(* Proofs about Build, for every set of requests and any number of scratch *)
(* directories and failing file operations, under the specification of     *)
(* Lockfile: what the driver leaves on disk, and what a build writes.      *)
(***************************************************************************)
EXTENDS Lockfile, SeqFacts, SequenceTheorems, FiniteSetTheorems

-----------------------------------------------------------------------------
(* WriteAll.                                                               *)

\* Of the writes to a path the last one counts.
LEMMA LastWrite ==
  ASSUME NEW S, NEW ws \in Seq(S), NEW i \in DOMAIN ws, NEW files
  PROVE  /\ ws[i][1] \in DOMAIN WriteAll(files, ws)
         /\ \E k \in DOMAIN ws : /\ ws[k][1] = ws[i][1]
                                 /\ WriteAll(files, ws)[ws[i][1]] = ws[k][2]
PROOF
  <1> DEFINE p == ws[i][1]
             At == {k \in DOMAIN ws : ws[k][1] = p}
             Back == {n \in Nat : Len(ws) - n \in At}
  <1>1. DOMAIN ws = 1..Len(ws) /\ Len(ws) \in Nat
    BY LenProperties
  <1>2. Back \in SUBSET Nat /\ Len(ws) - i \in Back
    BY <1>1
  <1>3. PICK n \in Back : \A o \in Back : n <= o
    <2> HIDE DEF Back
    <2> QED BY <1>2, LeastNat
  <1>4. Len(ws) - n \in At
    OBVIOUS
  <1>5. ASSUME NEW j \in At PROVE Len(ws) - n >= j
    <2>1. Len(ws) - j \in Nat /\ Len(ws) - (Len(ws) - j) = j /\ n \in Nat
      BY <1>1
    <2>2. n <= Len(ws) - j
      BY <1>3, <2>1
    <2> QED BY <1>1, <2>1, <2>2
  <1>6. Max(At) \in At
    BY <1>4, <1>5 DEF Max
  <1>7. p \in DOMAIN WriteAll(files, ws) /\ WriteAll(files, ws)[p] = ws[Max(At)][2]
    BY <1>6 DEF WriteAll
  <1> HIDE DEF At
  <1> QED BY <1>6, <1>7 DEF At

\* A path all whose writes agree holds what they wrote.
LEMMA WriteOnce ==
  ASSUME NEW S, NEW ws \in Seq(S), NEW e \in Entries(ws), NEW files,
         \A d \in Entries(ws) : d[1] = e[1] => d[2] = e[2]
  PROVE  e[1] \in DOMAIN WriteAll(files, ws) /\ WriteAll(files, ws)[e[1]] = e[2]
PROOF
  <1>1. PICK i \in DOMAIN ws : ws[i] = e
    BY DEF Entries
  <1>2. PICK k \in DOMAIN ws : ws[k][1] = e[1] /\ WriteAll(files, ws)[e[1]] = ws[k][2]
    BY <1>1, LastWrite
  <1>3. ws[k] \in Entries(ws)
    BY DEF Entries
  <1> QED BY <1>1, <1>2, <1>3, LastWrite

\* Writing the same again changes nothing.
LEMMA WriteTwice ==
  ASSUME NEW ws, NEW files
  PROVE  WriteAll(WriteAll(files, ws), ws) = WriteAll(files, ws)
PROOF
  BY DEF WriteAll

-----------------------------------------------------------------------------
(* What a build writes: no path twice.                                     *)

TargetEntries(t, req) ==
  {<< <<t.alias, 0, "__init__.py">>, [file |-> "init", name |-> t.name] >>,
   << <<t.alias, t.name, ".py">>, PySource(t, req) >>,
   << <<t.alias, t.name, ".pyi">>, PYISource(t) >>,
   << <<t.alias, t.name, "shim">>, ShimSource(t, req) >>}
  \cup (IF t.stub.skips THEN {<< <<t.alias, 0, "SKIPPED.txt">>, [file |-> "skipped", name |-> t.name] >>}
                        ELSE {})

RootEntries(v) ==
  {<<Root("pyproject.toml"), Pyproject(v)>>, <<Root(".gitignore"), [file |-> "gitignore"]>>,
   <<Root("_mochi_wrap.py"), [file |-> "runtime"]>>, <<Root("_mochi_wrap.pyi"), [file |-> "runtime"]>>}

AllEntries(req, v) ==
  RootEntries(v) \cup UNION {TargetEntries(req.targets[i], req) : i \in DOMAIN req.targets}

LEMMA EntriesConcat ==
  ASSUME NEW S, NEW s \in Seq(S), NEW t \in Seq(S)
  PROVE  s \o t \in Seq(S) /\ Entries(s \o t) = Entries(s) \cup Entries(t)
PROOF
  <1>1. Range(s \o t) = Range(s) \cup Range(t)
    BY RangeConcatenation
  <1> QED BY <1>1, ConcatProperties DEF Entries, Range

\* Tuples of the lengths written, as sequences.
LEMMA OneEntry ==
  ASSUME NEW a
  PROVE  <<a>> \in Seq({a}) /\ Entries(<<a>>) = {a}
PROOF
  BY DEF Entries

LEMMA TwoEntries ==
  ASSUME NEW a, NEW b
  PROVE  <<a, b>> \in Seq({a, b}) /\ Entries(<<a, b>>) = {a, b}
PROOF
  BY DEF Entries

LEMMA FourEntries ==
  ASSUME NEW a, NEW b, NEW c, NEW d
  PROVE  <<a, b, c, d>> \in Seq({a, b, c, d}) /\ Entries(<<a, b, c, d>>) = {a, b, c, d}
PROOF
  BY DEF Entries

LEMMA SeqWiden ==
  ASSUME NEW S, NEW T, S \subseteq T, NEW s \in Seq(S)
  PROVE  s \in Seq(T)
PROOF
  OBVIOUS

\* The files of a target, as a set.
LEMMA TargetFilesEntries ==
  ASSUME NEW t, NEW req
  PROVE  /\ TargetFiles(t, req) \in Seq(TargetEntries(t, req))
         /\ Entries(TargetFiles(t, req)) = TargetEntries(t, req)
PROOF
  <1> DEFINE a == << <<t.alias, 0, "__init__.py">>, [file |-> "init", name |-> t.name] >>
             b == << <<t.alias, t.name, ".py">>, PySource(t, req) >>
             c == << <<t.alias, t.name, ".pyi">>, PYISource(t) >>
             d == << <<t.alias, t.name, "shim">>, ShimSource(t, req) >>
             e == << <<t.alias, 0, "SKIPPED.txt">>, [file |-> "skipped", name |-> t.name] >>
             four == <<a, b, c, d>>
             more == IF t.stub.skips THEN <<e>> ELSE <<>>
             S == TargetEntries(t, req)
  <1>1. TargetFiles(t, req) = four \o more
    BY DEF TargetFiles
  <1>2. S = {a, b, c, d} \cup (IF t.stub.skips THEN {e} ELSE {})
    BY DEF TargetEntries
  <1> HIDE DEF a, b, c, d, e, S
  <1>3. four \in Seq(S) /\ Entries(four) = {a, b, c, d}
    <2>1. four \in Seq({a, b, c, d}) /\ Entries(four) = {a, b, c, d}
      BY FourEntries
    <2>2. {a, b, c, d} \subseteq S
      BY <1>2
    <2> HIDE DEF four
    <2> QED BY <2>1, <2>2, SeqWiden
  <1>4. more \in Seq(S) /\ Entries(more) = (IF t.stub.skips THEN {e} ELSE {})
    <2>1. CASE t.stub.skips
      <3>1. <<e>> \in Seq({e}) /\ Entries(<<e>>) = {e}
        BY OneEntry
      <3>2. <<e>> \in Seq(S)
        BY <1>2, <2>1, <3>1, SeqWiden
      <3> QED BY <2>1, <3>1, <3>2
    <2>2. CASE ~t.stub.skips
      <3>1. Entries(<<>>) = {} /\ <<>> \in Seq(S)
        BY DEF Entries
      <3> QED BY <2>2, <3>1
    <2> QED BY <2>1, <2>2
  <1> HIDE DEF four, more
  <1>5. four \o more \in Seq(S) /\ Entries(four \o more) = S
    BY <1>2, <1>3, <1>4, EntriesConcat
  <1> QED BY <1>1, <1>5 DEF S

\* Everything a build writes, as a set.
LEMMA WritesEntries ==
  ASSUME NEW v, NEW req, NEW T, req.targets \in Seq(T)
  PROVE  /\ Writes(req, v) \in Seq(AllEntries(req, v))
         /\ Entries(Writes(req, v)) = AllEntries(req, v)
PROOF
  <1> DEFINE S == AllEntries(req, v)
             r == RootFiles(v)
             w == << <<Root("_mochi_wrap.py"), [file |-> "runtime"]>>,
                     <<Root("_mochi_wrap.pyi"), [file |-> "runtime"]>> >>
             ss == [i \in DOMAIN req.targets |-> TargetFiles(req.targets[i], req)]
  <1>1. Writes(req, v) = (r \o w) \o FlattenSeq(ss)
    BY DEF Writes
  <1>2. r \in Seq(RootEntries(v)) /\ w \in Seq(RootEntries(v)) /\ Entries(r) \cup Entries(w) = RootEntries(v)
    <2> DEFINE a == <<Root("pyproject.toml"), Pyproject(v)>>
               b == <<Root(".gitignore"), [file |-> "gitignore"]>>
               c == <<Root("_mochi_wrap.py"), [file |-> "runtime"]>>
               d == <<Root("_mochi_wrap.pyi"), [file |-> "runtime"]>>
    <2>1. r = <<a, b>> /\ w = <<c, d>> /\ RootEntries(v) = {a, b, c, d}
      BY DEF RootFiles, RootEntries
    <2> HIDE DEF a, b, c, d
    <2>2. <<a, b>> \in Seq({a, b}) /\ Entries(<<a, b>>) = {a, b}
      BY TwoEntries
    <2>3. <<c, d>> \in Seq({c, d}) /\ Entries(<<c, d>>) = {c, d}
      BY TwoEntries
    <2>4. {a, b} \subseteq RootEntries(v) /\ {c, d} \subseteq RootEntries(v)
      BY <2>1
    <2> HIDE DEF r, w
    <2>5. r \in Seq(RootEntries(v)) /\ w \in Seq(RootEntries(v))
      BY <2>1, <2>2, <2>3, <2>4, SeqWiden
    <2> QED BY <2>1, <2>2, <2>3, <2>5
  <1>3. r \in Seq(S) /\ w \in Seq(S)
    BY <1>2, SeqWiden DEF AllEntries
  <1>4. \A i \in DOMAIN req.targets :
          TargetFiles(req.targets[i], req) \in Seq(S) /\ Entries(ss[i]) = TargetEntries(req.targets[i], req)
    BY TargetFilesEntries, SeqWiden DEF AllEntries
  <1>5. ss \in Seq(Seq(S)) /\ DOMAIN ss = DOMAIN req.targets
    <2>1. DOMAIN req.targets = 1..Len(req.targets) /\ Len(req.targets) \in Nat
      BY LenProperties
    <2>2. ss = [i \in 1..Len(req.targets) |-> TargetFiles(req.targets[i], req)]
      BY <2>1
    <2>3. \A i \in 1..Len(req.targets) : TargetFiles(req.targets[i], req) \in Seq(S)
      BY <1>4, <2>1
    <2> HIDE DEF S, ss
    <2>4. ss \in [1..Len(req.targets) -> Seq(S)]
      BY <2>2, <2>3
    <2>5. ss \in Seq(Seq(S))
      BY <2>1, <2>4, SeqDef
    <2> QED BY <2>1, <2>4, <2>5
  <1> HIDE DEF r, w, ss, S
  <1>6. FlattenSeq(ss) \in Seq(S)
        /\ Entries(FlattenSeq(ss)) = UNION {Entries(ss[i]) : i \in DOMAIN ss}
    BY <1>5, FlattenEntries
  <1>7. r \o w \in Seq(S) /\ Entries(r \o w) = RootEntries(v)
    <2>1. r \o w \in Seq(S) /\ Entries(r \o w) = Entries(r) \cup Entries(w)
      BY <1>3, EntriesConcat
    <2> QED BY <1>2, <2>1
  <1>8. Entries((r \o w) \o FlattenSeq(ss)) = Entries(r \o w) \cup Entries(FlattenSeq(ss))
        /\ (r \o w) \o FlattenSeq(ss) \in Seq(S)
    <2> DEFINE a == r \o w
               b == FlattenSeq(ss)
    <2>1. a \in Seq(S) /\ b \in Seq(S)
      BY <1>6, <1>7
    <2> HIDE DEF a, b
    <2>2. a \o b \in Seq(S) /\ Entries(a \o b) = Entries(a) \cup Entries(b)
      BY <2>1, EntriesConcat
    <2> QED BY <2>2 DEF a, b
  <1>9. UNION {Entries(ss[i]) : i \in DOMAIN ss}
          = UNION {TargetEntries(req.targets[i], req) : i \in DOMAIN req.targets}
    BY <1>4, <1>5
  <1> QED BY <1>1, <1>6, <1>7, <1>8, <1>9 DEF S, AllEntries

\* The files of well-formed targets do not overwrite each other nor the root's.
LEMMA NoOverlap ==
  ASSUME NEW v, NEW req, WellFormed(req),
         NEW d \in AllEntries(req, v), NEW e \in AllEntries(req, v), d[1] = e[1]
  PROVE  d = e
PROOF
  <1> DEFINE ts == req.targets
  <1>1. \A x \in RootEntries(v) : x[1][1] = 0
    BY DEF RootEntries, Root
  <1>2. \A i \in DOMAIN ts : \A x \in TargetEntries(ts[i], req) : x[1][1] = ts[i].alias /\ ts[i].alias # 0
    BY DEF TargetEntries, WellFormed
  <1>3. CASE d \in RootEntries(v) /\ e \in RootEntries(v)
    BY <1>3 DEF RootEntries, Root
  <1>4. ASSUME NEW i \in DOMAIN ts, NEW j \in DOMAIN ts,
               d \in TargetEntries(ts[i], req), e \in TargetEntries(ts[j], req)
        PROVE  d = e
    <2>1. ts[i].alias = ts[j].alias
      BY <1>2, <1>4
    <2>2. i = j
      BY <2>1 DEF WellFormed
    <2>3. e \in TargetEntries(ts[i], req) /\ d[1][3] = e[1][3]
      BY <1>4, <2>2
    <2> QED BY <1>4, <2>3 DEF TargetEntries
  <1> QED BY <1>1, <1>2, <1>3, <1>4 DEF AllEntries

-----------------------------------------------------------------------------
(* The driver's directories.                                               *)

IsFcn(f) == f = [x \in DOMAIN f |-> f[x]]

\* No scratch directory but the current one is on disk, and while the caller's
\* directory is, it is the current one.
DriverInv ==
  /\ tmps \in 0..MaxTmp
  /\ workDir \in {None, callerDir} \cup 1..tmps
  /\ DOMAIN disk \subseteq {callerDir, CacheDir} \cup 1..tmps
  /\ None \notin DOMAIN disk
  /\ IsFcn(disk)
  /\ ScratchBounded
  /\ Plain \in DOMAIN disk => workDir = Plain

\* What a step can do to them: nothing, use the work directory (making it and
\* perhaps the cache), or remove it and forget it.
Keeps == UNCHANGED <<workDir, tmps, disk>>
Uses ==
  /\ WithinTmp
  /\ workDir' = WorkDirFor /\ tmps' = TmpAfter
  /\ IsFcn(disk')
  /\ \/ DOMAIN disk' = DOMAIN disk \cup {WorkDirFor}
     \/ DOMAIN disk' = DOMAIN disk \cup {WorkDirFor, CacheDir}
Forgets ==
  /\ workDir \notin {None, Plain} /\ workDir' = None /\ tmps' = tmps
  /\ IsFcn(disk') /\ DOMAIN disk' = DOMAIN disk \ {workDir}

LEMMA PrepareFailsEffect == WithinTmp /\ PrepareFails => Keeps \/ Uses
PROOF
  BY DEF PrepareFails, Keeps, Uses, Mkdir, IsFcn

LEMMA PrepareVenvEffect == PrepareVenv => Keeps \/ Uses
PROOF
  <1>1. ASSUME WithinTmp, workDir' = WorkDirFor, tmps' = TmpAfter, disk' = Prepared(WorkDirFor)
        PROVE  Uses
    BY <1>1 DEF Uses, Prepared, Mkdir, IsFcn
  <1> QED BY <1>1, PrepareFailsEffect DEF PrepareVenv

LEMMA WriteVenvRootEffect == WriteVenvRoot => Keeps \/ Uses
PROOF
  <1>1. ASSUME workDir # None, workDir' = workDir, tmps' = tmps, NEW n,
               disk' = [Mkdir({workDir}) EXCEPT ![workDir] = WriteAll(@, SubSeq(RootFiles(BaseVenv), 1, n))]
        PROVE  Uses
    BY <1>1 DEF Uses, Mkdir, IsFcn, WithinTmp, WorkDirFor, TmpAfter
  <1> QED BY <1>1 DEF WriteVenvRoot, Keeps

LEMMA CleanupEffect == DriverInv /\ Cleanup => Keeps \/ Uses \/ Forgets
PROOF
  <1> SUFFICES ASSUME DriverInv, Cleanup PROVE Keeps \/ Uses \/ Forgets
    OBVIOUS
  <1>1. CASE UNCHANGED <<workDir, disk>>
    BY <1>1 DEF Cleanup, Keeps
  <1>2. CASE workDir' = None /\ workDir # None
    BY <1>2 DEF Cleanup, Forgets, IsFcn, RemovableName
  <1>3. CASE workDir # None /\ workDir' = workDir /\ disk' \in RemovedInPart(workDir)
    <2>1. CASE workDir \notin DOMAIN disk
      BY <1>1, <1>3, <2>1 DEF RemovedInPart
    <2>2. CASE workDir \in DOMAIN disk
      <3>1. PICK files : disk' = [disk EXCEPT ![workDir] = files]
        BY <1>3, <2>2 DEF RemovedInPart
      <3>2. IsFcn(disk') /\ DOMAIN disk' = DOMAIN disk \cup {workDir}
        BY <2>2, <3>1 DEF IsFcn, DriverInv
      <3> QED BY <1>3, <3>2 DEF Uses, Cleanup, WithinTmp, WorkDirFor, TmpAfter
    <2> QED BY <2>1, <2>2
  <1> QED BY <1>1, <1>2, <1>3 DEF Cleanup

LEMMA BuildEffect == ASSUME NEW req, Build(req) PROVE Keeps \/ Uses
PROOF
  <1>1. ASSUME NEW ws, NEW n, WithinTmp, workDir' = WorkDirFor, tmps' = TmpAfter,
               disk' = [Prepared(WorkDirFor) EXCEPT ![WorkDirFor] = WriteAll(@, SubSeq(ws, 1, n))]
        PROVE  Uses
    BY <1>1 DEF Uses, Prepared, Mkdir, IsFcn
  <1> QED BY <1>1, PrepareFailsEffect DEF Build, Keeps

\* Every step but a build leaves no build behind.
LEMMA StepEffect ==
  ASSUME DriverInv, [Next]_vars
  PROVE  /\ Keeps \/ Uses \/ Forgets
         /\ callerDir' = callerDir
         /\ \/ UNCHANGED buildVars
            \/ last'.op # "build"
            \/ \E req \in Requests : Build(req)
PROOF
  <1>1. CASE UNCHANGED vars
    BY <1>1 DEF vars, buildVars, Keeps
  <1>2. ASSUME NEW req, Plan(req) PROVE Keeps /\ callerDir' = callerDir /\ last'.op # "build"
    BY <1>2 DEF Plan, NotABuild, Keeps
  <1>3. CASE \E req \in Requests : WriteLock(req) \/ CheckLock(req)
    BY <1>2, <1>3 DEF WriteLock, CheckLock
  <1>4. CASE BuildStep
    <2>1. ASSUME NEW req \in Requests, Build(req) PROVE (Keeps \/ Uses) /\ callerDir' = callerDir
      BY <2>1, BuildEffect DEF Build
    <2>2. CASE \E req \in Requests : Plan(req)
      BY <1>2, <2>2
    <2>3. CASE PrepareVenv \/ WriteVenvRoot \/ Cleanup
      <3>1. last'.op # "build" /\ callerDir' = callerDir
        BY <2>3 DEF PrepareVenv, WriteVenvRoot, Cleanup, NotABuild
      <3> QED BY <2>3, <3>1, PrepareVenvEffect, WriteVenvRootEffect, CleanupEffect
    <2> QED BY <1>4, <2>1, <2>2, <2>3 DEF BuildStep
  <1>5. CASE EditLock
    BY <1>5 DEF EditLock, NotABuild, Keeps
  <1> QED BY <1>1, <1>3, <1>4, <1>5 DEF Next

LEMMA InitDriver == Init => DriverInv
PROOF
  BY DirsAssumption, BoundsAssumption DEF Init, BuildInit, DriverInv, IsFcn, ScratchBounded

LEMMA DriverStep == DriverInv /\ [Next]_vars => DriverInv'
PROOF
  <1> SUFFICES ASSUME DriverInv, [Next]_vars PROVE DriverInv'
    OBVIOUS
  <1>0. callerDir' = callerDir
    BY StepEffect
  <1>1. CASE Keeps
    BY <1>0, <1>1 DEF Keeps, DriverInv, IsFcn, ScratchBounded
  <1>2. CASE Uses
    <2>1. CASE workDir = None
      BY <1>0, <1>2, <2>1, DirsAssumption, BoundsAssumption
         DEF Uses, DriverInv, ScratchBounded, WithinTmp, WorkDirFor, TmpAfter
    <2>2. CASE workDir # None
      BY <1>0, <1>2, <2>2, DirsAssumption DEF Uses, DriverInv, ScratchBounded, WorkDirFor, TmpAfter
    <2> QED BY <2>1, <2>2
  <1>3. CASE Forgets
    BY <1>0, <1>3, DirsAssumption DEF Forgets, DriverInv, ScratchBounded
  <1> QED BY <1>1, <1>2, <1>3, StepEffect

LEMMA DriverInvariant == Spec => []DriverInv
PROOF
  BY InitDriver, DriverStep, PTL DEF Spec

\* At most one scratch directory is on disk, and it is the one Cleanup would
\* remove, after any sequence of builds, failures and cleanups.
THEOREM ScratchIsBounded == Spec => []ScratchBounded
PROOF
  <1>1. DriverInv => ScratchBounded
    BY DEF DriverInv
  <1> QED BY <1>1, DriverInvariant, PTL

-----------------------------------------------------------------------------
(* What a successful build leaves behind.                                  *)

\* The files of the last build are those it writes on top of what was there;
\* the same request would be planned again, to the same venv.
LastBuild ==
  last.op = "build" /\ last.ok =>
    /\ last.req \in Requests /\ PlanSucceeds(last.req)
    /\ workDir # None /\ workDir \in DOMAIN disk
    /\ NoCache \/ CacheDir \in DOMAIN disk
    /\ \E files : disk[workDir] = WriteAll(files, Writes(last.req, BuildVenv(last.req)))

\* Adding the targets again changes nothing.
LEMMA AddTwice ==
  ASSUME NEW v, NEW ts
  PROVE  /\ AddTargets(AddTargets(v, ts), ts) = AddTargets(v, ts)
         /\ ~AddTargets(v, ts).nil
PROOF
  <1> DEFINE ds == [i \in DOMAIN ts |-> <<ts[i].name, SharedDepVersion(ts[i])>>]
             w == AddTargets(v, ts)
  <1>1. /\ w.members = v.members \cup {ts[i].alias : i \in DOMAIN ts}
        /\ w.deps = WriteAll(v.deps, ds)
        /\ w.valid = v.valid
        /\ ~w.nil
    BY DEF AddTargets
  <1>2. WriteAll(w.deps, ds) = w.deps
    BY <1>1, WriteTwice
  <1>3. w.members \cup {ts[i].alias : i \in DOMAIN ts} = w.members
    BY <1>1
  <1>4. AddTargets(w, ts) = [nil |-> FALSE, members |-> w.members, deps |-> w.deps, valid |-> w.valid]
    BY <1>2, <1>3 DEF AddTargets
  <1>5. w = [nil |-> FALSE, members |-> w.members, deps |-> w.deps, valid |-> w.valid]
    BY DEF AddTargets
  <1> QED BY <1>1, <1>4, <1>5

\* A request that was planned is planned again the same way.
LEMMA PlanAgain ==
  ASSUME NEW req, PlanSucceeds(req), PlanEffect(req)
  PROVE  PlanSucceeds(req)' /\ BuildVenv(req)' = BuildVenv(req)
PROOF
  <1> DEFINE ts == req.targets
  <1>1. WellFormed(req) /\ Processed(req) = ts /\ Valid(AddTargets(BaseVenv, ts))
    BY DEF PlanSucceeds, PlannedVenv
  <1>2. BuildVenv(req)' = BuildVenv(req)
    <2>1. CASE venv.nil
      <3>1. venv' = venv
        BY <2>1 DEF PlanEffect
      <3> QED BY <3>1 DEF BuildVenv, BaseVenv
    <2>2. CASE ~venv.nil
      <3>1. venv' = AddTargets(venv, ts)
        BY <1>1, <2>2 DEF PlanEffect, PlannedVenv, BaseVenv
      <3>2. BaseVenv' = AddTargets(venv, ts)
        BY <3>1, AddTwice DEF BaseVenv
      <3>3. BuildVenv(req)' = AddTargets(AddTargets(venv, ts), ts)
        BY <3>2 DEF BuildVenv
      <3>4. BuildVenv(req) = AddTargets(venv, ts)
        BY <2>2 DEF BuildVenv, BaseVenv
      <3> QED BY <3>3, <3>4, AddTwice
    <2> QED BY <2>1, <2>2
  <1>3. PlanSucceeds(req)' <=> WellFormed(req) /\ Processed(req) = ts /\ Valid(BuildVenv(req)')
    BY DEF PlanSucceeds, PlannedVenv, BuildVenv, WellFormed, Processed, Synthesises
  <1> QED BY <1>1, <1>2, <1>3 DEF BuildVenv

\* How a build that succeeds gets there.
LEMMA BuildSucceeds ==
  ASSUME NEW req \in Requests, Build(req), last'.ok
  PROVE  /\ PlanSucceeds(req) /\ PlanEffect(req)
         /\ last'.req = req
         /\ workDir' = WorkDirFor
         /\ LET ws == Writes(req, BuildVenv(req))
            IN disk' = [Prepared(WorkDirFor) EXCEPT ![WorkDirFor] = WriteAll(@, ws)]
PROOF
  <1> DEFINE ws == Writes(req, BuildVenv(req))
  <1>1. /\ PlanSucceeds(req) /\ PlanEffect(req) /\ last'.req = req /\ workDir' = WorkDirFor
        /\ \E n \in 0..Len(ws) :
             /\ disk' = [Prepared(WorkDirFor) EXCEPT ![WorkDirFor] = WriteAll(@, SubSeq(ws, 1, n))]
             /\ n = Len(ws)
    <2>1. ASSUME NEW fault, Built(req, FALSE, fault) PROVE FALSE
      BY <2>1 DEF Built
    <2>2. ASSUME NEW n \in 0..Len(ws), Built(req, n = Len(ws), n # Len(ws))
          PROVE  last'.req = req /\ n = Len(ws)
      BY <2>2 DEF Built
    <2>3. PlanEffect(req)
      BY DEF Build
    <2>4. /\ PlanSucceeds(req) /\ workDir' = WorkDirFor
          /\ \E n \in 0..Len(ws) :
               /\ disk' = [Prepared(WorkDirFor) EXCEPT ![WorkDirFor] = WriteAll(@, SubSeq(ws, 1, n))]
               /\ Built(req, n = Len(ws), n # Len(ws))
      BY <2>1 DEF Build
    <2> QED BY <2>2, <2>3, <2>4
  <1>2. ws \in Seq(AllEntries(req, BuildVenv(req)))
    BY RequestsAssumption, WritesEntries
  <1> HIDE DEF ws
  <1>3. SubSeq(ws, 1, Len(ws)) = ws
    BY <1>2
  <1> QED BY <1>1, <1>3 DEF ws

LEMMA LastBuildStep == DriverInv /\ LastBuild /\ [Next]_vars => LastBuild'
PROOF
  <1> SUFFICES ASSUME DriverInv, LastBuild, [Next]_vars, last'.op = "build", last'.ok
               PROVE  LastBuild'
    BY DEF LastBuild
  <1>1. CASE UNCHANGED buildVars
    <2>1. UNCHANGED <<last, workDir, disk, venv>>
      BY <1>1 DEF buildVars
    <2>2. BaseVenv' = BaseVenv
      BY <2>1 DEF BaseVenv
    <2>3. PlanSucceeds(last.req)' <=> PlanSucceeds(last.req)
      BY <2>1, <2>2 DEF PlanSucceeds, PlannedVenv, WellFormed, Processed, Synthesises
    <2>4. BuildVenv(last.req)' = BuildVenv(last.req)
      BY <2>1, <2>2 DEF BuildVenv
    <2>5. Writes(last.req, BuildVenv(last.req))' = Writes(last.req, BuildVenv(last.req))
      BY <2>1, <2>4 DEF Writes, RootFiles, Pyproject, Root, TargetFiles, PySource, PYISource, ShimSource
    <2> QED BY <2>1, <2>3, <2>5 DEF LastBuild
  <1>2. ASSUME NEW req \in Requests, Build(req) PROVE LastBuild'
    <2> DEFINE ws == Writes(req, BuildVenv(req))
    <2>1. /\ PlanSucceeds(req) /\ PlanEffect(req) /\ last'.req = req /\ workDir' = WorkDirFor
          /\ disk' = [Prepared(WorkDirFor) EXCEPT ![WorkDirFor] = WriteAll(@, ws)]
      BY <1>2, BuildSucceeds
    <2>2. PlanSucceeds(req)' /\ BuildVenv(req)' = BuildVenv(req)
      BY <2>1, PlanAgain
    <2>3. WorkDirFor # None
      BY DirsAssumption DEF WorkDirFor, DriverInv
    <2>4. DOMAIN disk' = DOMAIN disk \cup {WorkDirFor} \cup (IF NoCache THEN {} ELSE {CacheDir})
      BY <2>1 DEF Prepared, Mkdir
    <2>5. disk'[workDir'] = WriteAll(Prepared(WorkDirFor)[WorkDirFor], ws)
      BY <2>1 DEF Prepared, Mkdir
    <2>6. Writes(req, BuildVenv(req))' = ws
      BY <2>2 DEF Writes, RootFiles, Pyproject, Root, TargetFiles, PySource, PYISource, ShimSource
    <2>7. PlanSucceeds(last.req)' /\ Writes(last.req, BuildVenv(last.req))' = ws
      BY <2>1, <2>2, <2>6
    <2> HIDE DEF ws
    <2> QED BY <2>1, <2>3, <2>4, <2>5, <2>7, NoCacheAssumption DEF LastBuild
  <1> QED BY <1>1, <1>2, StepEffect

LEMMA BuildInvariant == Spec => [](DriverInv /\ LastBuild)
PROOF
  <1>1. Init => LastBuild
    BY DEF Init, BuildInit, LastBuild
  <1> QED BY <1>1, InitDriver, DriverStep, LastBuildStep, PTL DEF Spec

\* Every file of the last build is there, as it was written.
LEMMA BuildFiles ==
  ASSUME LastBuild, last.op = "build", last.ok,
         NEW e \in AllEntries(last.req, BuildVenv(last.req))
  PROVE  e[1] \in DOMAIN disk[workDir] /\ disk[workDir][e[1]] = e[2]
PROOF
  <1> DEFINE v == BuildVenv(last.req)
             ws == Writes(last.req, v)
  <1>1. last.req \in Requests /\ WellFormed(last.req)
    BY DEF LastBuild, PlanSucceeds
  <1>2. PICK files : disk[workDir] = WriteAll(files, ws)
    BY DEF LastBuild
  <1>3. ws \in Seq(AllEntries(last.req, v)) /\ Entries(ws) = AllEntries(last.req, v)
    BY <1>1, RequestsAssumption, WritesEntries
  <1>4. \A d \in AllEntries(last.req, v) : d[1] = e[1] => d[2] = e[2]
    BY <1>1, NoOverlap
  <1> HIDE DEF ws, v
  <1>5. e \in AllEntries(last.req, v)
    BY DEF v
  <1> QED BY <1>2, <1>3, <1>4, <1>5, WriteOnce

\* pyproject.toml is rendered from the venv of the last build.
LEMMA BuildPyproject ==
  ASSUME LastBuild, last.op = "build", last.ok
  PROVE  disk[workDir][Root("pyproject.toml")] = Pyproject(BuildVenv(last.req))
PROOF
  <1> DEFINE e == <<Root("pyproject.toml"), Pyproject(BuildVenv(last.req))>>
  <1>1. e \in AllEntries(last.req, BuildVenv(last.req))
    BY DEF AllEntries, RootEntries
  <1>2. disk[workDir][e[1]] = e[2]
    BY <1>1, BuildFiles
  <1> QED BY <1>2

LEMMA LastBuildComplete == LastBuild => DiskComplete
PROOF
  <1> SUFFICES ASSUME LastBuild, last.op = "build", last.ok, NEW i \in DOMAIN last.req.targets
               PROVE  LET files == disk[workDir]
                          py == files[Root("pyproject.toml")]
                          t == last.req.targets[i]
                      IN /\ FilesOf(t, last.req) \subseteq DOMAIN files
                         /\ files[<<t.alias, 0, "__init__.py">>].name = t.name
                         /\ files[<<t.alias, t.name, ".py">>] = PySource(t, last.req)
                         /\ files[<<t.alias, t.name, "shim">>] = ShimSource(t, last.req)
                         /\ t.stub.skips => <<t.alias, 0, "SKIPPED.txt">> \in DOMAIN files
                         /\ t.alias \in py.members /\ t.name \in DOMAIN py.deps
    BY DEF DiskComplete
  <1> DEFINE files == disk[workDir]
             py == files[Root("pyproject.toml")]
             v == BuildVenv(last.req)
             t == last.req.targets[i]
  <1>1. \A e \in TargetEntries(t, last.req) : e[1] \in DOMAIN files /\ files[e[1]] = e[2]
    BY BuildFiles DEF AllEntries
  <1>2. /\ <<t.alias, 0, "__init__.py">> \in DOMAIN files
        /\ files[<<t.alias, 0, "__init__.py">>] = [file |-> "init", name |-> t.name]
    <2> DEFINE e == << <<t.alias, 0, "__init__.py">>, [file |-> "init", name |-> t.name] >>
    <2>1. e \in TargetEntries(t, last.req)
      BY DEF TargetEntries
    <2>2. e[1] \in DOMAIN files /\ files[e[1]] = e[2]
      BY <1>1, <2>1
    <2> QED BY <2>2
  <1>3. /\ <<t.alias, t.name, ".py">> \in DOMAIN files
        /\ files[<<t.alias, t.name, ".py">>] = PySource(t, last.req)
    <2> DEFINE e == << <<t.alias, t.name, ".py">>, PySource(t, last.req) >>
    <2>1. e \in TargetEntries(t, last.req)
      BY DEF TargetEntries
    <2>2. e[1] \in DOMAIN files /\ files[e[1]] = e[2]
      BY <1>1, <2>1
    <2> QED BY <2>2
  <1>4. <<t.alias, t.name, ".pyi">> \in DOMAIN files
    <2> DEFINE e == << <<t.alias, t.name, ".pyi">>, PYISource(t) >>
    <2>1. e \in TargetEntries(t, last.req)
      BY DEF TargetEntries
    <2>2. e[1] \in DOMAIN files
      BY <1>1, <2>1
    <2> QED BY <2>2
  <1>5. /\ <<t.alias, t.name, "shim">> \in DOMAIN files
        /\ files[<<t.alias, t.name, "shim">>] = ShimSource(t, last.req)
    <2> DEFINE e == << <<t.alias, t.name, "shim">>, ShimSource(t, last.req) >>
    <2>1. e \in TargetEntries(t, last.req)
      BY DEF TargetEntries
    <2>2. e[1] \in DOMAIN files /\ files[e[1]] = e[2]
      BY <1>1, <2>1
    <2> QED BY <2>2
  <1>6. ASSUME t.stub.skips PROVE <<t.alias, 0, "SKIPPED.txt">> \in DOMAIN files
    <2> DEFINE e == << <<t.alias, 0, "SKIPPED.txt">>, [file |-> "skipped", name |-> t.name] >>
    <2>1. e \in TargetEntries(t, last.req)
      BY <1>6 DEF TargetEntries
    <2>2. e[1] \in DOMAIN files
      BY <1>1, <2>1
    <2> QED BY <2>2
  <1>7. FilesOf(t, last.req) \subseteq DOMAIN files
    BY <1>2, <1>3, <1>4, <1>5 DEF FilesOf
  <1>8. t.alias \in py.members /\ t.name \in DOMAIN py.deps
    <2>1. py.members = v.members /\ py.deps = v.deps
      BY BuildPyproject DEF Pyproject
    <2>2. t.alias \in v.members
      BY DEF BuildVenv, AddTargets
    <2> DEFINE ts == last.req.targets
               ds == [j \in DOMAIN ts |-> <<ts[j].name, SharedDepVersion(ts[j])>>]
    <2>3. v.deps = WriteAll(BaseVenv.deps, ds)
      BY DEF BuildVenv, AddTargets
    <2>4. ds[i][1] = t.name /\ i \in DOMAIN ds
      OBVIOUS
    <2> HIDE DEF ds
    <2>5. t.name \in DOMAIN WriteAll(BaseVenv.deps, ds)
      BY <2>4 DEF WriteAll
    <2> QED BY <2>1, <2>2, <2>3, <2>5
  <1>9. files[<<t.alias, 0, "__init__.py">>].name = t.name
    BY <1>2
  <1> QED BY <1>3, <1>5, <1>6, <1>7, <1>8, <1>9, Zenon

\* After a successful build every target's files are on disk as this request
\* renders them, and pyproject.toml lists every target, whatever earlier
\* builds left in the directory.
THEOREM BuildsAreComplete == Spec => []DiskComplete
PROOF
  BY LastBuildComplete, BuildInvariant, PTL

\* A build without a Venv of the caller's lists exactly its own targets.
THEOREM NilVenvsAreExact == Spec => []NilVenvExact
PROOF
  <1>1. LastBuild => NilVenvExact
    <2> SUFFICES ASSUME LastBuild, last.op = "build", last.ok, venv.nil
                 PROVE  disk[workDir][Root("pyproject.toml")].members
                          = {last.req.targets[i].alias : i \in DOMAIN last.req.targets}
      BY DEF NilVenvExact
    <2>1. disk[workDir][Root("pyproject.toml")].members = BuildVenv(last.req).members
      BY BuildPyproject DEF Pyproject
    <2>2. BaseVenv.members = {}
      BY DEF BaseVenv, DefaultVenv
    <2> QED BY <2>1, <2>2 DEF BuildVenv, AddTargets
  <1> QED BY <1>1, BuildInvariant, PTL

\* A build repeated at once, with no file operation failing, succeeds and
\* leaves the disk as it was; and no step removes or abandons the directory the
\* caller named.
THEOREM BuildStepsAreSafe == Spec => BuildSteps
PROOF
  <1> DEFINE Repeats ==
               last.op = "build" /\ last'.op = "build" /\ last.ok /\ last'.req = last.req /\ ~last'.fault
                 => last'.ok /\ disk' = disk
             Stays == (Plain \in DOMAIN disk) => Plain \in DOMAIN disk' /\ workDir' = workDir
  <1>1. DriverInv /\ LastBuild /\ [Next]_vars => [Repeats]_buildVars
    <2> SUFFICES ASSUME DriverInv, LastBuild, [Next]_vars, ~UNCHANGED buildVars,
                        last.op = "build", last'.op = "build", last.ok, last'.req = last.req, ~last'.fault
                 PROVE  last'.ok /\ disk' = disk
      OBVIOUS
    <2>1. PICK req \in Requests : Build(req)
      BY StepEffect
    <2>2. req = last.req
      BY <2>1 DEF Build, Built
    <2> DEFINE ws == Writes(req, BuildVenv(req))
    <2>3. PICK n \in 0..Len(ws) :
            /\ workDir' = WorkDirFor
            /\ disk' = [Prepared(WorkDirFor) EXCEPT ![WorkDirFor] = WriteAll(@, SubSeq(ws, 1, n))]
            /\ Built(req, n = Len(ws), n # Len(ws))
      <3>1. PlanSucceeds(req)
        BY <2>2 DEF LastBuild
      <3>2. ~Built(req, FALSE, TRUE)
        BY DEF Built
      <3> QED BY <2>1, <3>1, <3>2 DEF Build
    <2>4. n = Len(ws) /\ last'.ok
      BY <2>3 DEF Built
    <2>5. last'.ok
      BY <2>4
    <2>6. disk' = [Prepared(WorkDirFor) EXCEPT ![WorkDirFor] = WriteAll(@, ws)]
      BY <2>1, <2>5, BuildSucceeds
    <2>7. WorkDirFor = workDir
      BY DEF LastBuild, WorkDirFor
    <2>8. PICK files : disk[workDir] = WriteAll(files, ws)
      BY <2>2 DEF LastBuild
    <2>9. Prepared(workDir) = disk
      BY NoCacheAssumption DEF LastBuild, DriverInv, Prepared, Mkdir, IsFcn
    <2>10. WriteAll(disk[workDir], ws) = disk[workDir]
      BY <2>8, WriteTwice
    <2> HIDE DEF ws
    <2>11. disk' = [disk EXCEPT ![workDir] = disk[workDir]]
      BY <2>6, <2>7, <2>9, <2>10
    <2>12. disk' = disk
      BY <2>11 DEF DriverInv, IsFcn
    <2> QED BY <2>5, <2>12
  <1>2. DriverInv /\ [Next]_vars => [Stays]_buildVars
    <2> SUFFICES ASSUME DriverInv, [Next]_vars, Plain \in DOMAIN disk
                 PROVE  Plain \in DOMAIN disk' /\ workDir' = workDir
      OBVIOUS
    <2>1. workDir = Plain /\ Plain # None
      BY DirsAssumption DEF DriverInv
    <2> QED BY <2>1, StepEffect DEF Keeps, Uses, Forgets, WorkDirFor
  <1>3. Spec => RepeatBuild
    BY <1>1, BuildInvariant, PTL DEF Spec, RepeatBuild
  <1>4. Spec => CallerDirKept
    BY <1>2, BuildInvariant, PTL DEF Spec, CallerDirKept
  <1> QED BY <1>3, <1>4 DEF BuildSteps

-----------------------------------------------------------------------------
(* Manifest.Sort.                                                          *)

\* A sequence of entries whose keys can be compared.
IsManifest(m) ==
  /\ m \in Seq(Entries(m))
  /\ \A i \in DOMAIN m : m[i].name \in Nat /\ m[i].alias \in Nat

LEMMA ManifestDomain ==
  ASSUME NEW m, IsManifest(m)
  PROVE  /\ Len(m) \in Nat /\ DOMAIN m = 1..Len(m)
         /\ IsFiniteSet(DOMAIN m) /\ Cardinality(DOMAIN m) = Len(m)
PROOF
  <1>1. Len(m) \in Nat /\ DOMAIN m = 1..Len(m)
    BY LenProperties DEF IsManifest
  <1>2. IsFiniteSet(1..Len(m)) /\ Cardinality(1..Len(m)) = Len(m)
    <2>1. 1 \in Int /\ Len(m) \in Int
      BY <1>1
    <2>2. /\ IsFiniteSet(1..Len(m))
          /\ Cardinality(1..Len(m)) = IF 1 > Len(m) THEN 0 ELSE Len(m) - 1 + 1
      BY <2>1, FS_Interval
    <2> QED BY <1>1, <2>2
  <1> QED BY <1>1, <1>2

\* Before is a strict total order of the positions.
LEMMA BeforeOrder ==
  ASSUME NEW m, IsManifest(m), NEW i \in DOMAIN m, NEW j \in DOMAIN m
  PROVE  /\ ~Before(m, i, i)
         /\ i # j => Before(m, i, j) \/ Before(m, j, i)
         /\ \A k \in DOMAIN m : Before(m, k, i) /\ Before(m, i, j) => Before(m, k, j)
PROOF
  <1>1. \A k \in DOMAIN m : /\ k \in Nat /\ m[k].name \in Nat /\ m[k].alias \in Nat
                            /\ Key(m[k])[1] = m[k].name /\ Key(m[k])[2] = m[k].alias
    BY ManifestDomain DEF IsManifest, Key
  <1>2. \A k, l \in DOMAIN m : Key(m[k]) = Key(m[l]) <=> m[k].name = m[l].name /\ m[k].alias = m[l].alias
    BY DEF Key
  <1>3. ~Before(m, i, i)
    BY <1>1 DEF Before, KeyLess
  <1>4. i # j => Before(m, i, j) \/ Before(m, j, i)
    BY <1>1, <1>2 DEF Before, KeyLess
  <1>5. ASSUME NEW k \in DOMAIN m, Before(m, k, i), Before(m, i, j) PROVE Before(m, k, j)
    BY <1>1, <1>2, <1>5 DEF Before, KeyLess
  <1> QED BY <1>3, <1>4, <1>5

\* A position's place is one of the positions, and follows Before.
LEMMA PlaceOrder ==
  ASSUME NEW m, IsManifest(m), NEW i \in DOMAIN m
  PROVE  /\ Place(m, i) + 1 \in DOMAIN m
         /\ \A j \in DOMAIN m : i # j => Place(m, i) # Place(m, j)
PROOF
  <1> DEFINE Below(j) == {k \in DOMAIN m : Before(m, k, j)}
  <1>1. \A j \in DOMAIN m : Place(m, j) = Cardinality(Below(j)) /\ IsFiniteSet(Below(j))
                            /\ Cardinality(Below(j)) \in Nat
    <2> SUFFICES ASSUME NEW j \in DOMAIN m
                 PROVE  Place(m, j) = Cardinality(Below(j)) /\ IsFiniteSet(Below(j))
                        /\ Cardinality(Below(j)) \in Nat
      OBVIOUS
    <2>1. Below(j) \in SUBSET DOMAIN m
      OBVIOUS
    <2>2. IsFiniteSet(Below(j))
      BY <2>1, ManifestDomain, FS_Subset
    <2>3. Cardinality(Below(j)) \in Nat
      BY <2>2, FS_CardinalityType
    <2> QED BY <2>2, <2>3 DEF Place
  <1>2. Place(m, i) + 1 \in DOMAIN m
    <2>1. Below(i) \in SUBSET (DOMAIN m \ {i})
      BY BeforeOrder
    <2>2. IsFiniteSet(DOMAIN m \ {i}) /\ Cardinality(DOMAIN m \ {i}) = Len(m) - 1
      BY ManifestDomain, FS_RemoveElement
    <2>3. Cardinality(Below(i)) <= Len(m) - 1
      BY <2>1, <2>2, FS_Subset
    <2> QED BY <1>1, <2>3, ManifestDomain
  <1>3. ASSUME NEW k \in DOMAIN m, NEW l \in DOMAIN m, Before(m, k, l)
        PROVE  Place(m, k) # Place(m, l)
    <2>1. Below(k) \in SUBSET Below(l)
      BY <1>3, BeforeOrder
    <2>2. k \in Below(l) /\ k \notin Below(k)
      BY <1>3, BeforeOrder
    <2> HIDE DEF Below
    <2>3. Below(l) # Below(k)
      BY <2>2
    <2>4. Cardinality(Below(l)) # Cardinality(Below(k))
      BY <1>1, <2>1, <2>3, FS_Subset
    <2> QED BY <1>1, <2>4
  <1>4. \A j \in DOMAIN m : i # j => Place(m, i) # Place(m, j)
    BY <1>3, BeforeOrder
  <1> QED BY <1>2, <1>4

\* Sorting moves every entry to its place and fills every place.
LEMMA SortedPlaces ==
  ASSUME NEW m, IsManifest(m)
  PROVE  /\ DOMAIN Sorted(m) = DOMAIN m
         /\ \A i \in DOMAIN m : Sorted(m)[Place(m, i) + 1] = m[i]
         /\ \A n \in DOMAIN m : \E i \in DOMAIN m : Place(m, i) + 1 = n
PROOF
  <1> DEFINE f == [i \in DOMAIN m |-> Place(m, i) + 1]
  <1>1. DOMAIN Sorted(m) = DOMAIN m
    BY DEF Sorted
  <1>2. \A i \in DOMAIN m : Place(m, i) \in Int
    <2> SUFFICES ASSUME NEW i \in DOMAIN m PROVE Place(m, i) \in Int
      OBVIOUS
    <2>1. {j \in DOMAIN m : Before(m, j, i)} \in SUBSET DOMAIN m
      OBVIOUS
    <2>2. IsFiniteSet({j \in DOMAIN m : Before(m, j, i)})
      BY <2>1, ManifestDomain, FS_Subset
    <2>3. Cardinality({j \in DOMAIN m : Before(m, j, i)}) \in Nat
      BY <2>2, FS_CardinalityType
    <2> QED BY <2>3 DEF Place
  <1>3. \A i, j \in DOMAIN m : Place(m, i) + 1 = Place(m, j) + 1 => i = j
    BY <1>2, PlaceOrder
  <1>4. f \in Injection(DOMAIN m, DOMAIN m)
    BY <1>3, PlaceOrder DEF Injection, IsInjective
  <1> HIDE DEF f
  <1>5. f \in Surjection(DOMAIN m, DOMAIN m)
    BY <1>4, ManifestDomain, FS_Injection
  <1>6. \A n \in DOMAIN m : \E i \in DOMAIN m : f[i] = n
    BY <1>5 DEF Surjection
  <1>7. \A n \in DOMAIN m : \E i \in DOMAIN m : Place(m, i) + 1 = n
    BY <1>6 DEF f
  <1>8. ASSUME NEW i \in DOMAIN m PROVE Sorted(m)[Place(m, i) + 1] = m[i]
    <2> DEFINE k == CHOOSE k \in DOMAIN m : Place(m, k) + 1 = Place(m, i) + 1
    <2>1. k \in DOMAIN m /\ Place(m, k) + 1 = Place(m, i) + 1
      OBVIOUS
    <2>2. k = i
      BY <1>3, <2>1
    <2>3. Sorted(m)[Place(m, i) + 1] = m[k]
      BY PlaceOrder DEF Sorted
    <2> QED BY <2>2, <2>3
  <1> QED BY <1>1, <1>7, <1>8

LEMMA SortedEntries ==
  ASSUME NEW m, IsManifest(m)
  PROVE  /\ Entries(Sorted(m)) = Entries(m) /\ IsManifest(Sorted(m))
         /\ Unambiguous(m) => Unambiguous(Sorted(m))
PROOF
  <1> DEFINE s == Sorted(m)
  <1>1. DOMAIN s = DOMAIN m /\ DOMAIN m = 1..Len(m) /\ Len(m) \in Nat
    BY SortedPlaces, ManifestDomain
  <1>2. \A n \in DOMAIN s : \E i \in DOMAIN m : n = Place(m, i) + 1 /\ s[n] = m[i]
    BY <1>1, SortedPlaces
  <1>3. \A i \in DOMAIN m : \E n \in DOMAIN s : s[n] = m[i]
    BY <1>1, SortedPlaces, PlaceOrder
  <1>4. Entries(s) = Entries(m)
    BY <1>2, <1>3 DEF Entries
  <1>5. s \in Seq(Entries(s))
    <2>1. s = [n \in 1..Len(m) |-> s[n]]
      BY <1>1 DEF Sorted
    <2>2. \A n \in 1..Len(m) : s[n] \in Entries(s)
      BY <1>1 DEF Entries
    <2> HIDE DEF s
    <2>3. s \in [1..Len(m) -> Entries(s)]
      BY <2>1, <2>2
    <2> QED BY <1>1, <2>3, SeqDef
  <1>6. IsManifest(s)
    BY <1>2, <1>5 DEF IsManifest
  <1>7. Unambiguous(m) => Unambiguous(s)
    BY <1>2 DEF Unambiguous
  <1> QED BY <1>4, <1>6, <1>7

\* Of a manifest without duplicates ByKey finds the entry of a key.
LEMMA ByKeyFinds ==
  ASSUME NEW m, IsManifest(m), Unambiguous(m), NEW i \in DOMAIN m
  PROVE  ByKey(m, Key(m[i])) = m[i]
PROOF
  <1>1. {j \in DOMAIN m : Key(m[j]) = Key(m[i])} = {i}
    BY DEF Unambiguous
  <1>2. i \in Nat
    BY ManifestDomain
  <1>3. Max({i}) = i
    BY <1>2 DEF Max
  <1> QED BY <1>1, <1>3 DEF ByKey

\* Manifests of the same entries, none twice, are sorted to the same sequence.
LEMMA SameSorted ==
  ASSUME NEW m, NEW o, IsManifest(m), IsManifest(o), Unambiguous(m), Unambiguous(o),
         Entries(m) = Entries(o)
  PROVE  Sorted(m) = Sorted(o)
PROOF
  <1> DEFINE h == [i \in DOMAIN m |-> CHOOSE j \in DOMAIN o : o[j] = m[i]]
  <1>1. \A i \in DOMAIN m : h[i] \in DOMAIN o /\ o[h[i]] = m[i]
    BY DEF Entries
  <1>2. \A i, j \in DOMAIN m : h[i] = h[j] => i = j
    BY <1>1 DEF Unambiguous
  <1>3. \A j \in DOMAIN o : \E i \in DOMAIN m : h[i] = j
    <2> SUFFICES ASSUME NEW j \in DOMAIN o PROVE \E i \in DOMAIN m : h[i] = j
      OBVIOUS
    <2>1. PICK i \in DOMAIN m : m[i] = o[j]
      BY DEF Entries
    <2>2. Key(o[h[i]]) = Key(o[j])
      BY <1>1, <2>1
    <2> HIDE DEF h
    <2> QED BY <1>1, <2>2 DEF Unambiguous
  <1>4. DOMAIN h = DOMAIN m /\ IsFiniteSet(DOMAIN m)
    BY ManifestDomain
  <1>5. h \in [DOMAIN m -> DOMAIN o]
    BY <1>1
  <1> HIDE DEF h
  <1>6. Len(o) = Len(m)
    <2>1. h \in Bijection(DOMAIN m, DOMAIN o)
      BY <1>2, <1>3, <1>4, <1>5 DEF Bijection, Injection, Surjection, IsInjective
    <2>2. ExistsBijection(DOMAIN m, DOMAIN o)
      BY <2>1 DEF ExistsBijection
    <2>3. Cardinality(DOMAIN o) = Cardinality(DOMAIN m)
      BY <1>4, <2>2, FS_Bijection
    <2> QED BY <2>3, ManifestDomain
  <1>7. ASSUME NEW i \in DOMAIN m PROVE Place(m, i) = Place(o, h[i])
    <2> DEFINE A == {j \in DOMAIN m : Before(m, j, i)}
               B == {j \in DOMAIN o : Before(o, j, h[i])}
               g == [j \in A |-> h[j]]
    <2>1. \A j \in DOMAIN m : Before(m, j, i) <=> KeyLess(Key(m[j]), Key(m[i]))
      BY BeforeOrder DEF Before, Unambiguous
    <2>2. \A j \in DOMAIN o : Before(o, j, h[i]) <=> KeyLess(Key(o[j]), Key(o[h[i]]))
      BY <1>1, BeforeOrder DEF Before, Unambiguous
    <2>3. \A j \in DOMAIN m : j \in A <=> h[j] \in B
      BY <1>1, <2>1, <2>2
    <2>4. g \in [A -> B]
      BY <2>3
    <2>5. \A b \in B : \E a \in A : g[a] = b
      BY <1>3, <2>3
    <2>6. \A a, b \in A : g[a] = g[b] => a = b
      BY <1>2
    <2>7. IsFiniteSet(A)
      <3>1. A \in SUBSET DOMAIN m
        OBVIOUS
      <3> QED BY <1>4, <3>1, FS_Subset
    <2>8. Place(m, i) = Cardinality(A) /\ Place(o, h[i]) = Cardinality(B)
      BY DEF Place
    <2>9. DOMAIN g = A
      OBVIOUS
    <2> HIDE DEF A, B, g
    <2>10. g \in Bijection(A, B)
      BY <2>4, <2>5, <2>6, <2>9 DEF Bijection, Injection, Surjection, IsInjective
    <2>11. ExistsBijection(A, B)
      BY <2>10 DEF ExistsBijection
    <2>12. Cardinality(B) = Cardinality(A)
      BY <2>7, <2>11, FS_Bijection
    <2> QED BY <2>8, <2>12
  <1>8. DOMAIN m = DOMAIN o
    BY <1>6, ManifestDomain
  <1>9. ASSUME NEW n \in DOMAIN m PROVE Sorted(m)[n] = Sorted(o)[n]
    <2>1. PICK i \in DOMAIN m : Place(m, i) + 1 = n
      BY SortedPlaces
    <2>2. Sorted(m)[n] = m[i]
      BY <2>1, SortedPlaces
    <2>3. Sorted(o)[Place(o, h[i]) + 1] = o[h[i]]
      BY <1>1, SortedPlaces
    <2> QED BY <1>1, <1>7, <2>1, <2>2, <2>3
  <1>10. Sorted(m) = [n \in DOMAIN m |-> Sorted(m)[n]] /\ Sorted(o) = [n \in DOMAIN o |-> Sorted(o)[n]]
    BY DEF Sorted
  <1> QED BY <1>8, <1>9, <1>10

-----------------------------------------------------------------------------
(* Check.                                                                  *)

Compared == {"source", "version", "specifier", "sha", "caps"}
Planned(req) == [i \in DOMAIN req.targets |-> Entry(req.targets[i], req)]
Decoded(ts) == [i \in DOMAIN ts |-> DecodeEntry(ts[i])]

\* The tables of a lock file name their packages and aliases.
TableOK(t) == {"name", "alias"} \subseteq DOMAIN t /\ t.name \in Nat /\ t.alias \in Nat
IsTables(ts) == \E S : ts \in Seq(S) /\ \A t \in S : TableOK(t)

LEMMA CheckMeans ==
  ASSUME NEW old, NEW new
  PROVE  Check(old, new) <=> /\ Keys(old) = Keys(new)
                             /\ \A k \in Keys(new) : \A f \in Compared : ByKey(old, k)[f] = ByKey(new, k)[f]
PROOF
  <1>1. Check(old, new) <=>
          /\ Keys(new) \ Keys(old) = {} /\ Keys(old) \ Keys(new) = {}
          /\ {j \in Keys(old) \cap Keys(new) : EntryFieldDiff(ByKey(old, j), ByKey(new, j)) # {}} = {}
    BY DEF Check, CompareManifests
  <1>2. \A a, b : EntryFieldDiff(a, b) = {} <=> \A f \in Compared : a[f] = b[f]
    BY DEF EntryFieldDiff, Compared
  <1> QED BY <1>1, <1>2

\* A function on an initial segment of the naturals is a sequence.
LEMMA FunctionSeq ==
  ASSUME NEW n \in Nat, NEW S, NEW s \in [1..n -> S]
  PROVE  s \in Seq(S)
PROOF
  BY SeqDef

LEMMA PlannedManifest ==
  ASSUME NEW req \in Requests, WellFormed(req)
  PROVE  IsManifest(Planned(req)) /\ Unambiguous(Planned(req))
PROOF
  <1> DEFINE ts == req.targets
             m == Planned(req)
  <1>1. Len(ts) \in Nat /\ DOMAIN ts = 1..Len(ts)
    BY RequestsAssumption, LenProperties
  <1>2. \A i \in DOMAIN ts : m[i].name = ts[i].name /\ m[i].alias = ts[i].alias
    BY DEF Planned, Entry
  <1>3. DOMAIN m = DOMAIN ts /\ m = [i \in DOMAIN ts |-> m[i]]
    BY DEF Planned
  <1> HIDE DEF m
  <1>4. m \in [1..Len(ts) -> Entries(m)]
    BY <1>1, <1>3 DEF Entries
  <1>5. m \in Seq(Entries(m))
    BY <1>1, <1>4, FunctionSeq
  <1>6. \A i \in DOMAIN ts : ts[i].name \in Nat /\ ts[i].alias \in Nat
    BY RequestsAssumption
  <1>7. \A i, j \in DOMAIN m : Key(m[i]) = Key(m[j]) => i = j
    BY <1>2, <1>3 DEF Key, WellFormed
  <1> QED BY <1>2, <1>3, <1>5, <1>6, <1>7 DEF IsManifest, Unambiguous, m

LEMMA DecodedManifest ==
  ASSUME NEW ts, IsTables(ts)
  PROVE  /\ IsManifest(Decoded(ts))
         /\ Unambiguous(ts) => Unambiguous(Decoded(ts))
PROOF
  <1> DEFINE m == Decoded(ts)
  <1>0. PICK S : ts \in Seq(S) /\ \A t \in S : TableOK(t)
    BY DEF IsTables
  <1>1. Len(ts) \in Nat /\ DOMAIN ts = 1..Len(ts) /\ \A i \in DOMAIN ts : TableOK(ts[i])
    BY <1>0, LenProperties
  <1>2. \A i \in DOMAIN ts : m[i].name = ts[i].name /\ m[i].alias = ts[i].alias
    BY <1>1 DEF Decoded, DecodeEntry, TableOK, Required
  <1>3. DOMAIN m = DOMAIN ts /\ m = [i \in DOMAIN ts |-> m[i]]
    BY DEF Decoded
  <1> HIDE DEF m
  <1>4. m \in [1..Len(ts) -> Entries(m)]
    BY <1>1, <1>3 DEF Entries
  <1>5. m \in Seq(Entries(m))
    BY <1>1, <1>4, FunctionSeq
  <1>6. \A i \in DOMAIN ts : ts[i].name \in Nat /\ ts[i].alias \in Nat
    BY <1>1 DEF TableOK
  <1>7. Unambiguous(ts) => \A i, j \in DOMAIN m : Key(m[i]) = Key(m[j]) => i = j
    BY <1>2, <1>3 DEF Key, Unambiguous
  <1> QED BY <1>2, <1>3, <1>5, <1>6, <1>7 DEF IsManifest, Unambiguous, m

\* Entries that agree on their key and on what Check compares are equal.
LEMMA SameEntry ==
  ASSUME NEW t, NEW u, NEW req,
         Key(DecodeEntry(t)) = Key(Entry(u, req)),
         \A f \in Compared : DecodeEntry(t)[f] = Entry(u, req)[f]
  PROVE  DecodeEntry(t) = Entry(u, req)
PROOF
  <1> DEFINE d == DecodeEntry(t)
             e == Entry(u, req)
             Fields == {"name", "alias", "source", "version", "specifier", "sha", "caps"}
  <1>1. d = [f \in Fields |-> d[f]]
    <2>1. Required \cup Optional = Fields
      BY DEF Required, Optional
    <2> QED BY <2>1 DEF DecodeEntry
  <1>2. e = [f \in Fields |-> e[f]]
    BY DEF Entry
  <1>3. d["name"] = e["name"] /\ d["alias"] = e["alias"]
    BY DEF Key
  <1> HIDE DEF d, e
  <1>4. \A f \in Compared : d[f] = e[f]
    BY DEF d, e
  <1>5. \A f \in Fields : d[f] = e[f]
    BY <1>3, <1>4 DEF Compared
  <1>6. d = e
    BY <1>1, <1>2, <1>5
  <1> QED BY <1>6 DEF d, e

\* Of lock files without duplicate tables Check accepts the manifest alone.
LEMMA CheckIsExact ==
  ASSUME NEW ts, IsTables(ts), Unambiguous(ts), NEW req \in Requests, WellFormed(req)
  PROVE  Check(ParseTOML(ts), FromBuildResult(req)) <=> ParseTOML(ts) = FromBuildResult(req)
PROOF
  <1> DEFINE d == Decoded(ts)
             m == Planned(req)
  <1>1. ParseTOML(ts) = Sorted(d) /\ FromBuildResult(req) = Sorted(m)
    BY DEF ParseTOML, FromBuildResult, Decoded, Planned
  <1>2. IsManifest(d) /\ Unambiguous(d) /\ IsManifest(m) /\ Unambiguous(m)
    BY PlannedManifest, DecodedManifest
  <1>3. ASSUME ParseTOML(ts) = FromBuildResult(req) PROVE Check(ParseTOML(ts), FromBuildResult(req))
    BY <1>3, CheckMeans
  <1>4. ASSUME Check(Sorted(d), Sorted(m)) PROVE Sorted(d) = Sorted(m)
    <2> HIDE DEF d, m
    <2>1. /\ Entries(Sorted(d)) = Entries(d) /\ IsManifest(Sorted(d)) /\ Unambiguous(Sorted(d))
          /\ Entries(Sorted(m)) = Entries(m) /\ IsManifest(Sorted(m)) /\ Unambiguous(Sorted(m))
      BY <1>2, SortedEntries
    <2>2. /\ \A i \in DOMAIN d : \E x : d[i] = DecodeEntry(x)
          /\ \A j \in DOMAIN m : \E u : m[j] = Entry(u, req)
      BY DEF d, m, Decoded, Planned
    <2>3. Keys(Sorted(d)) = Keys(Sorted(m)) /\
          \A k \in Keys(Sorted(m)) : \A f \in Compared : ByKey(Sorted(d), k)[f] = ByKey(Sorted(m), k)[f]
      BY <1>4, CheckMeans
    <2>4. ASSUME NEW a \in Entries(Sorted(d)), NEW b \in Entries(Sorted(m)), Key(a) = Key(b)
          PROVE  a = b
      <3>1. PICK i \in DOMAIN Sorted(d) : Sorted(d)[i] = a
        BY DEF Entries
      <3>2. PICK j \in DOMAIN Sorted(m) : Sorted(m)[j] = b
        BY DEF Entries
      <3>3. ByKey(Sorted(d), Key(a)) = a /\ ByKey(Sorted(m), Key(b)) = b
        BY <2>1, <3>1, <3>2, ByKeyFinds
      <3>4. Key(b) \in Keys(Sorted(m))
        BY <3>2 DEF Keys
      <3>5. \A f \in Compared : a[f] = b[f]
        BY <2>3, <2>4, <3>3, <3>4
      <3>6. PICK x : a = DecodeEntry(x)
        BY <2>1, <2>2 DEF Entries
      <3>7. PICK u : b = Entry(u, req)
        BY <2>1, <2>2 DEF Entries
      <3> QED BY <2>4, <3>5, <3>6, <3>7, SameEntry
    <2>5. \A a \in Entries(Sorted(d)) : \E b \in Entries(Sorted(m)) : Key(a) = Key(b)
      BY <2>3 DEF Keys, Entries
    <2>6. \A b \in Entries(Sorted(m)) : \E a \in Entries(Sorted(d)) : Key(a) = Key(b)
      BY <2>3 DEF Keys, Entries
    <2>7. Entries(d) = Entries(m)
      BY <2>1, <2>4, <2>5, <2>6
    <2> QED BY <1>2, <2>7, SameSorted
  <1> QED BY <1>1, <1>3, <1>4

\* What a manifest that passed says of the shim of a target.
LEMMA CheckVouches ==
  ASSUME NEW old, NEW req \in Requests, WellFormed(req), Check(old, FromBuildResult(req)),
         NEW i \in DOMAIN req.targets
  PROVE  LET t == req.targets[i]
         IN ByKey(old, Key(t)).sha = Sha256(ShimSource(t, req))
PROOF
  <1> DEFINE t == req.targets[i]
             m == Planned(req)
  <1>1. FromBuildResult(req) = Sorted(m)
    BY DEF FromBuildResult, Planned
  <1>2. IsManifest(m) /\ Unambiguous(m)
    BY PlannedManifest
  <1>3. Key(m[i]) = Key(t) /\ m[i].sha = Sha256(ShimSource(t, req)) /\ i \in DOMAIN m
    BY DEF Planned, Entry, Key
  <1> HIDE DEF m
  <1>4. IsManifest(Sorted(m)) /\ Unambiguous(Sorted(m)) /\ Entries(Sorted(m)) = Entries(m)
    BY <1>2, SortedEntries
  <1>5. PICK n \in DOMAIN Sorted(m) : Sorted(m)[n] = m[i]
    BY <1>3, <1>4 DEF Entries
  <1>6. ByKey(Sorted(m), Key(t)) = m[i] /\ Key(t) \in Keys(Sorted(m))
    BY <1>3, <1>4, <1>5, ByKeyFinds DEF Keys
  <1>7. ByKey(old, Key(t))["sha"] = ByKey(Sorted(m), Key(t))["sha"]
    BY <1>1, <1>6, CheckMeans DEF Compared
  <1> QED BY <1>3, <1>6, <1>7

-----------------------------------------------------------------------------
(* The lock file and the build it vouches for.                             *)

\* The shims of a request are in the work directory.
ShimsThere(req) ==
  /\ workDir \in DOMAIN disk
  /\ \A i \in DOMAIN req.targets :
       LET t == req.targets[i]
       IN disk[workDir][<<t.alias, t.name, "shim">>] = ShimSource(t, req)

\* A request that passed Check still does, against the file as it is now, and
\* the shims of the request last built are still there.
LockInv ==
  /\ lock # None => IsTables(lock)
  /\ {lockReq, checked, built} \subseteq Requests \cup {None}
  /\ checked # None => WellFormed(checked) /\ Check(ParseTOML(lock), FromBuildResult(checked))
  /\ built # None => ShimsThere(built)

\* RenderTOML keeps the keys of every entry.
LEMMA RenderedTables ==
  ASSUME NEW m, IsManifest(m)
  PROVE  IsTables(RenderTOML(m))
PROOF
  <1> DEFINE s == Sorted(m)
             ts == RenderTOML(m)
  <1>1. IsManifest(s)
    BY SortedEntries
  <1>2. Len(s) \in Nat /\ DOMAIN s = 1..Len(s)
    BY <1>1, ManifestDomain
  <1>3. ts = [i \in DOMAIN s |-> RenderEntry(s[i])]
    BY DEF RenderTOML
  <1> HIDE DEF ts, s
  <1>4. \A i \in DOMAIN s : TableOK(RenderEntry(s[i]))
    BY <1>1 DEF IsManifest, TableOK, RenderEntry, Required
  <1>5. ts \in [1..Len(s) -> {t \in Entries(ts) : TableOK(t)}]
    BY <1>2, <1>3, <1>4 DEF Entries
  <1>6. ts \in Seq({t \in Entries(ts) : TableOK(t)})
    BY <1>2, <1>5, FunctionSeq
  <1> QED BY <1>6 DEF IsTables, ts

\* Editing keeps them too.
LEMMA EditedTables ==
  ASSUME lock # None, IsTables(lock), EditLock
  PROVE  IsTables(lock')
PROOF
  <1>0. PICK S : lock \in Seq(S) /\ \A t \in S : TableOK(t)
    BY DEF IsTables
  <1>1. PICK i \in DOMAIN lock :
          \/ lock' = RemoveAt(lock, i)
          \/ \E f \in {"source", "sha"} : lock' = [lock EXCEPT ![i] = [g \in DOMAIN @ \ {f} |-> @[g]]]
          \/ \E j \in {i, i + 1} : lock' = InsertAt(lock, j, Outdated(lock[i]))
    BY DEF EditLock
  <1>2. Len(lock) \in Nat /\ DOMAIN lock = 1..Len(lock) /\ lock[i] \in S
    BY <1>0, LenProperties
  <1>3. CASE lock' = RemoveAt(lock, i)
    <2>1. SubSeq(lock, 1, i - 1) \in Seq(S) /\ SubSeq(lock, i + 1, Len(lock)) \in Seq(S)
      BY <1>0, <1>2
    <2>2. RemoveAt(lock, i) \in Seq(S)
      BY <2>1, ConcatProperties DEF RemoveAt
    <2> QED BY <1>0, <1>3, <2>2 DEF IsTables
  <1>4. ASSUME NEW f \in {"source", "sha"}, lock' = [lock EXCEPT ![i] = [g \in DOMAIN @ \ {f} |-> @[g]]]
        PROVE  IsTables(lock')
    <2> DEFINE t == [g \in DOMAIN lock[i] \ {f} |-> lock[i][g]]
    <2>1. TableOK(t)
      BY <1>0, <1>2 DEF TableOK
    <2> HIDE DEF t
    <2>2. lock' = [lock EXCEPT ![i] = t]
      BY <1>4 DEF t
    <2>3. lock' \in Seq(S \cup {t})
      BY <1>0, <1>2, <2>2
    <2>4. \A u \in S \cup {t} : TableOK(u)
      BY <1>0, <2>1
    <2> QED BY <2>3, <2>4 DEF IsTables
  <1>5. ASSUME NEW j \in {i, i + 1}, lock' = InsertAt(lock, j, Outdated(lock[i]))
        PROVE  IsTables(lock')
    <2> DEFINE t == Outdated(lock[i])
    <2>1. TableOK(t)
      BY <1>0, <1>2 DEF TableOK, Outdated
    <2> HIDE DEF t
    <2>2. SubSeq(lock, 1, j - 1) \in Seq(S \cup {t}) /\ SubSeq(lock, j, Len(lock)) \in Seq(S \cup {t})
          /\ <<t>> \in Seq(S \cup {t})
      BY <1>0, <1>2
    <2>3. InsertAt(lock, j, t) \in Seq(S \cup {t})
      BY <2>2, ConcatProperties DEF InsertAt
    <2>4. \A u \in S \cup {t} : TableOK(u)
      BY <1>0, <2>1
    <2>5. lock' = InsertAt(lock, j, t)
      BY <1>5 DEF t
    <2> QED BY <2>3, <2>4, <2>5 DEF IsTables
  <1> QED BY <1>1, <1>3, <1>4, <1>5

\* A step that leaves the disk alone leaves the work directory with a build in it.
LEMMA ShimsStay ==
  ASSUME DriverInv, [Next]_vars, NEW req, ShimsThere(req), disk' = disk
  PROVE  ShimsThere(req)'
PROOF
  <1>1. workDir # None /\ workDir \in DOMAIN disk
    BY DEF DriverInv, ShimsThere
  <1>2. workDir' = workDir
    BY <1>1, StepEffect DEF Keeps, Uses, Forgets, WorkDirFor
  <1> QED BY <1>2 DEF ShimsThere, ShimSource

LEMMA LockStep == DriverInv /\ LastBuild /\ LastBuild' /\ LockInv /\ [Next]_vars => LockInv'
PROOF
  <1> SUFFICES ASSUME DriverInv, LastBuild', LockInv, [Next]_vars PROVE LockInv'
    OBVIOUS
  <1>1. CASE UNCHANGED vars
    <2>1. UNCHANGED <<lock, lockReq, checked, built, disk, workDir>>
      BY <1>1 DEF vars, buildVars
    <2>2. built # None => ShimsThere(built)'
      BY <2>1, ShimsStay DEF LockInv
    <2> QED BY <2>1, <2>2 DEF LockInv
  <1>2. ASSUME NEW req \in Requests, WriteLock(req) PROVE LockInv'
    <2>1. disk' = disk /\ built' = built
      BY <1>2 DEF WriteLock, Plan
    <2>2. built' # None => ShimsThere(built)'
      BY <2>1, ShimsStay DEF LockInv
    <2>3. CASE UNCHANGED <<lock, lockReq, checked>>
      BY <2>1, <2>2, <2>3 DEF LockInv
    <2>4. CASE PlanSucceeds(req) /\ lock' = RenderTOML(FromBuildResult(req)) /\ lockReq' = req /\ checked' = None
      <3>1. WellFormed(req)
        BY <2>4 DEF PlanSucceeds
      <3>2. IsManifest(FromBuildResult(req))
        BY <3>1, PlannedManifest, SortedEntries DEF FromBuildResult, Planned
      <3>3. IsTables(lock')
        BY <2>4, <3>2, RenderedTables
      <3> QED BY <2>1, <2>2, <2>4, <3>3 DEF LockInv
    <2> QED BY <1>2, <2>3, <2>4 DEF WriteLock
  <1>3. ASSUME NEW req \in Requests, CheckLock(req) PROVE LockInv'
    <2>1. UNCHANGED <<disk, built, lock, lockReq>>
      BY <1>3 DEF CheckLock, Plan
    <2>2. built' # None => ShimsThere(built)'
      BY <2>1, ShimsStay DEF LockInv
    <2>3. \/ checked' = None
          \/ checked' = req /\ WellFormed(req) /\ Check(ParseTOML(lock), FromBuildResult(req))
      BY <1>3 DEF CheckLock, PlanSucceeds
    <2> QED BY <2>1, <2>2, <2>3 DEF LockInv
  <1>4. CASE BuildStep
    <2>1. UNCHANGED <<lock, lockReq, checked>>
      BY <1>4 DEF BuildStep
    <2>2. CASE last'.op = "build" /\ last'.ok
      <3>1. built' = last'.req
        BY <1>4, <2>2 DEF BuildStep
      <3>2. LastBuild' => DiskComplete'
        BY LastBuildComplete, PTL
      <3>3. ShimsThere(last.req)'
        <4>1. workDir' \in DOMAIN disk' /\ last'.req \in Requests
          BY <2>2 DEF LastBuild
        <4> QED BY <2>2, <3>2, <4>1 DEF DiskComplete, ShimsThere, ShimSource
      <3>4. last'.req \in Requests
        BY <2>2 DEF LastBuild
      <3> QED BY <2>1, <3>1, <3>3, <3>4 DEF LockInv
    <2>3. CASE ~(last'.op = "build" /\ last'.ok)
      <3>1. built' = None \/ (built' = built /\ disk' = disk)
        BY <1>4, <2>3 DEF BuildStep
      <3>2. built' # None => ShimsThere(built)'
        BY <3>1, ShimsStay DEF LockInv
      <3> QED BY <2>1, <3>1, <3>2 DEF LockInv
    <2> QED BY <2>2, <2>3
  <1>5. CASE EditLock
    <2>1. lock # None /\ lockReq' = None /\ checked' = None /\ built' = built /\ disk' = disk
      BY <1>5 DEF EditLock
    <2>2. IsTables(lock')
      BY <1>5, <2>1, EditedTables DEF LockInv
    <2>3. built' # None => ShimsThere(built)'
      BY <2>1, ShimsStay DEF LockInv
    <2> QED BY <2>1, <2>2, <2>3 DEF LockInv
  <1> QED BY <1>1, <1>2, <1>3, <1>4, <1>5 DEF Next

LEMMA LockInvariant == Spec => [](DriverInv /\ LockInv)
PROOF
  <1>1. Init => LockInv
    BY DEF Init, LockInv
  <1> QED BY <1>1, BuildInvariant, LockStep, PTL DEF Spec

\* The lock file: Check accepts exactly the manifest it was given, and a
\* request that passed it and was then built has on disk the shims whose
\* hashes the file records.
THEOREM LocksAreSound == Spec => []LockSound
PROOF
  <1>1. DriverInv /\ LockInv => TypeOK
    <2> SUFFICES ASSUME DriverInv, LockInv PROVE TypeOK
      OBVIOUS
    <2>1. lock # None => lock \in Seq(Range(lock))
      <3> SUFFICES ASSUME lock # None PROVE lock \in Seq(Range(lock))
        OBVIOUS
      <3>1. PICK S : lock \in Seq(S)
        BY DEF LockInv, IsTables
      <3>2. Len(lock) \in Nat /\ lock \in [1..Len(lock) -> S]
        BY <3>1, LenProperties
      <3>3. lock \in [1..Len(lock) -> Range(lock)]
        BY <3>2 DEF Range
      <3> QED BY <3>2, <3>3, FunctionSeq
    <2> QED BY <2>1 DEF TypeOK, DriverInv, LockInv, ShimsThere
  <1>2. LockInv => CheckExact
    BY CheckIsExact DEF LockInv, CheckExact
  <1>3. LockInv => LockVouches
    <2> SUFFICES ASSUME LockInv, checked # None, built = checked, NEW i \in DOMAIN checked.targets
                 PROVE  LET t == checked.targets[i]
                        IN ByKey(ParseTOML(lock), Key(t)).sha
                             = Sha256(disk[workDir][<<t.alias, t.name, "shim">>])
      BY DEF LockVouches
    <2> DEFINE t == checked.targets[i]
    <2>1. checked \in Requests /\ WellFormed(checked) /\ Check(ParseTOML(lock), FromBuildResult(checked))
      BY DEF LockInv
    <2>2. ByKey(ParseTOML(lock), Key(t)).sha = Sha256(ShimSource(t, checked))
      BY <2>1, CheckVouches
    <2>3. disk[workDir][<<t.alias, t.name, "shim">>] = ShimSource(t, checked)
      BY DEF LockInv, ShimsThere
    <2> QED BY <2>2, <2>3
  <1>4. DriverInv /\ LockInv => LockSound
    BY <1>1, <1>2, <1>3 DEF LockSound
  <1> QED BY <1>4, LockInvariant, PTL
=============================================================================
