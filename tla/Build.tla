------------------------------- MODULE Build -------------------------------
(***************************************************************************)
(* The build driver and orchestrator (build/): a Request of `import python`*)
(* targets is planned (stub parse, wrapper synthesis, shim emission, venv  *)
(* members and dependencies) and materialised file by file under a work    *)
(* directory, which the driver allocates, reuses and cleans up.            *)
(*                                                                         *)
(* A target's stub is abstracted to the set of items the type table accepts*)
(* and whether it refused some; rendered files to what they are rendered   *)
(* from.  Every file operation may fail, leaving what was written before.  *)
(***************************************************************************)
EXTENDS Naturals, Sequences, SequencesExt, FiniteSets, TLC

CONSTANTS Requests,   \* the requests the program makes
          MaxTmp,     \* bound on the scratch directories ever allocated
          MaxFaults,  \* bound on the file operations that fail
          Hyphenated, \* the names that are no Python identifiers
          RuntimeDep, \* the name mochi-python-runtime, one of them
          NoCache,    \* Options.NoCache
          Plain,      \* a work directory the caller named
          Prefixed,   \* one whose base name the caller began mochi-python-
          CacheDir,   \* the wheel cache
          Broken,     \* a stub that does not parse
          None

(* A request is a record                                                   *)
(*   targets: sequence of [alias, name, source, spec, stub], where alias   *)
(*            and name are positive integers ordered like the strings they *)
(*            stand for and 0 is the empty string; spec is [op, ver]; stub *)
(*            is Broken or [items, skips]                                  *)
(*   loop:    the wrapper's event-loop mode                                *)
(*   header:  ShimOpts: DefaultOptions (banner and skip report) or the zero*)
(*            value (neither)                                              *)

ASSUME NoCacheAssumption == NoCache \in BOOLEAN
ASSUME RuntimeDepAssumption == RuntimeDep \in Hyphenated
ASSUME DirsAssumption ==
  /\ Plain # None /\ CacheDir \notin {None, Plain}
  /\ \A d \in {None, Plain, Prefixed, CacheDir} : d \notin Nat
ASSUME RequestsAssumption ==
  \A req \in Requests :
    /\ req.targets \in Seq(Range(req.targets))
    /\ \A i \in DOMAIN req.targets : req.targets[i].alias \in Nat /\ req.targets[i].name \in Nat
ASSUME BoundsAssumption == MaxTmp \in Nat /\ MaxFaults \in Nat

VARIABLES
  callerDir, \* Options.WorkDir: None, Plain or Prefixed
  workDir,   \* the driver's current work directory, or None
  tmps,      \* scratch directories 1..tmps have been allocated
  disk,      \* directory |-> its files; a directory not in it does not exist
  venv,      \* the Venv the caller passes with every request, or Nil
  faults,    \* file operations that failed so far
  last       \* the last operation; of a Build also how it ended

buildVars == <<callerDir, workDir, tmps, disk, venv, faults, last>>

NoSpec == [op |-> "", ver |-> ""]

\* os.MkdirAll of every directory of ds: one that exists keeps its files.
Mkdir(ds) == [d \in DOMAIN disk \cup ds |-> IF d \in DOMAIN disk THEN disk[d] ELSE <<>>]

\* A file is known by the alias and package in its path, 0 where it has none.
Root(f) == <<0, 0, f>>

\* One path and content of ws after the other, each creating or replacing, as
\* os.WriteFile does; a Go map is assigned to in the same way.
WriteAll(files, ws) ==
  LET writes(p) == {i \in DOMAIN ws : ws[i][1] = p}
  IN [p \in DOMAIN files \cup {ws[i][1] : i \in DOMAIN ws} |->
        IF writes(p) = {} THEN files[p] ELSE ws[Max(writes(p))][2]]

\* A Venv, or the nil pointer.
DefaultVenv ==
  [nil |-> FALSE, members |-> {}, valid |-> TRUE,
   deps |-> [n \in {RuntimeDep} |-> [op |-> ">=", ver |-> "0.6,<0.7"]]]
Nil == [nil |-> TRUE]

BuildInit ==
  /\ callerDir \in {None, Plain, Prefixed}
  /\ workDir = callerDir
  /\ tmps = 0
  /\ disk = [d \in {callerDir} \ {None} |-> <<>>]
  /\ venv \in {Nil, DefaultVenv, [DefaultVenv EXCEPT !.valid = FALSE]}
  /\ faults = 0
  /\ last = [op |-> "other"]

-----------------------------------------------------------------------------
(* What a target is turned into.                                           *)

\* wrapper.Synthesise renders Python whose text depends on the accepted items
\* and, when one of them is async, on the event-loop mode.
PySource(t, req) ==
  [file |-> "py", name |-> t.name, items |-> t.stub.items,
   loop |-> IF "async" \in t.stub.items THEN req.loop ELSE ""]

\* The stub next to it: signatures only.
PYISource(t) == [file |-> "pyi", name |-> t.name, items |-> t.stub.items]

\* emit.EmitShim: the declarations; the banner names the loop mode and the
\* report what was skipped, when they are asked for.
ShimSource(t, req) ==
  [file |-> "shim", name |-> t.name, items |-> t.stub.items,
   banner |-> IF req.header THEN <<req.loop, t.stub.skips>> ELSE <<>>]

\* The shim's SHA-256, taken to be free of collisions.
Sha256(source) == <<"sha256", source>>

-----------------------------------------------------------------------------
(* Venv.                                                                   *)

SharedDepVersion(t) == IF t.source \in {"registry", "index"} THEN t.spec ELSE NoSpec

\* AddMember, which keeps one member per path, and AddSharedDep, which
\* replaces what was there, for one target after the other.
AddTargets(v, ts) ==
  [nil |-> FALSE,
   members |-> v.members \cup {ts[i].alias : i \in DOMAIN ts},
   deps |-> WriteAll(v.deps, [i \in DOMAIN ts |-> <<ts[i].name, SharedDepVersion(ts[i])>>]),
   valid |-> v.valid]

\* Validate: one bit stands for the implementation, runtime and async modes;
\* a member's path is its alias, so the set has no duplicates.
Valid(v) == v.valid /\ 0 \notin v.members

Pyproject(v) == [file |-> "pyproject", members |-> v.members, deps |-> v.deps]

-----------------------------------------------------------------------------
(* Plan.                                                                   *)

BaseVenv == IF venv.nil THEN DefaultVenv ELSE venv

\* The checks made before anything else.
WellFormed(req) ==
  LET ts == req.targets
  IN /\ ts # <<>>
     /\ \A i \in DOMAIN ts : ts[i].alias # 0 /\ ts[i].name # 0
     /\ \A i, j \in DOMAIN ts : ts[i].alias = ts[j].alias => i = j

\* ParsePYI, Synthesise and EmitShim succeed for this target.
Synthesises(t) == t.stub # Broken /\ t.name \notin Hyphenated

\* The targets the synthesis loop gets through before it stops.
Processed(req) ==
  IF ~WellFormed(req) THEN <<>>
  ELSE LET bad == {i \in DOMAIN req.targets : ~Synthesises(req.targets[i])}
           stop == CHOOSE i \in bad : \A j \in bad : i <= j
       IN IF bad = {} THEN req.targets ELSE SubSeq(req.targets, 1, stop - 1)

PlannedVenv(req) == AddTargets(BaseVenv, Processed(req))

PlanSucceeds(req) ==
  WellFormed(req) /\ Processed(req) = req.targets /\ Valid(PlannedVenv(req))

\* Plan works on the caller's Venv in place, whether it succeeds or not.
PlanEffect(req) == venv' = IF venv.nil THEN venv ELSE PlannedVenv(req)

Built(req, ok, fault) == last' = [op |-> "build", req |-> req, ok |-> ok, fault |-> fault]
NotABuild == last' = [op |-> "other"]

\* A file operation fails, or all of them work.
Fault == faults < MaxFaults /\ faults' = faults + 1
NoFault == UNCHANGED faults
FaultIf(b) == IF b THEN Fault ELSE NoFault

Plan(req) ==
  /\ PlanEffect(req)
  /\ NotABuild /\ NoFault
  /\ UNCHANGED <<callerDir, workDir, tmps, disk>>

-----------------------------------------------------------------------------
(* Driver.                                                                 *)

\* The directories PrepareVenv makes sure of when all goes well, in dir.
Prepared(dir) == Mkdir({dir} \cup (IF NoCache THEN {} ELSE {CacheDir}))

\* Mutant: a new scratch directory on every call.
WorkDirForFresh == IF workDir = None \/ workDir \in 1..tmps THEN tmps + 1 ELSE workDir

\* The work directory PrepareVenv uses, allocating one if there is none.
WorkDirFor == IF workDir = None THEN tmps + 1 ELSE workDir

TmpAfter == IF workDir = None THEN tmps + 1 ELSE tmps

WithinTmp == workDir = None => tmps < MaxTmp

\* PrepareVenv fails: in the work directory, which then is neither created
\* nor remembered, or in the cache directory, when it is both.
PrepareFails ==
  /\ Fault
  /\ \/ UNCHANGED <<workDir, tmps, disk>>
     \/ /\ ~NoCache
        /\ workDir' = WorkDirFor /\ tmps' = TmpAfter
        /\ disk' = Mkdir({WorkDirFor})

PrepareVenv ==
  /\ WithinTmp
  /\ \/ PrepareFails
     \/ /\ workDir' = WorkDirFor /\ tmps' = TmpAfter
        /\ disk' = Prepared(WorkDirFor)
        /\ NoFault
  /\ NotABuild
  /\ UNCHANGED <<callerDir, venv>>

\* WriteVenvRoot's two files.
RootFiles(v) == << <<Root("pyproject.toml"), Pyproject(v)>>,
                   <<Root(".gitignore"), [file |-> "gitignore"]>> >>

WriteVenvRoot ==
  /\ LET ws == RootFiles(BaseVenv)
     IN \/ /\ workDir = None \/ ~Valid(BaseVenv)
           /\ NoFault
           /\ UNCHANGED disk
        \/ /\ workDir # None /\ Valid(BaseVenv)
           /\ \E n \in 0..Len(ws) :
                /\ disk' = [Mkdir({workDir}) EXCEPT ![workDir] = WriteAll(@, SubSeq(ws, 1, n))]
                /\ FaultIf(n # Len(ws))
  /\ NotABuild
  /\ UNCHANGED <<callerDir, workDir, tmps, venv>>

\* Cleanup: only a directory named like a scratch directory is removed, and
\* only then forgotten.

RemovableName(d) == d # Plain

\* A RemoveAll that fails has removed everything, nothing, or all but one of
\* the files; the directory stays.
RemovedInPart(dir) ==
  IF dir \notin DOMAIN disk THEN {disk}
  ELSE LET files == disk[dir]
       IN {[disk EXCEPT ![dir] = [p \in kept |-> files[p]]]
             : kept \in {{}, DOMAIN files} \cup {{p} : p \in DOMAIN files}}

Cleanup ==
  /\ \/ /\ workDir = None \/ ~RemovableName(workDir)
        /\ NoFault
        /\ UNCHANGED <<workDir, disk>>
     \/ /\ workDir # None /\ RemovableName(workDir)
        /\ \/ /\ disk' = [d \in DOMAIN disk \ {workDir} |-> disk[d]]
              /\ workDir' = None
              /\ NoFault
           \/ /\ Fault
              /\ disk' \in RemovedInPart(workDir)
              /\ UNCHANGED workDir
  /\ NotABuild
  /\ UNCHANGED <<callerDir, tmps, venv>>

-----------------------------------------------------------------------------
(* Build.                                                                  *)

\* Mutant: the directory of a target is named after its package.
TargetFilesByName(t, req) ==
  << << <<t.name, 0, "__init__.py">>, [file |-> "init", name |-> t.name] >>,
     << <<t.name, t.name, ".py">>, PySource(t, req) >>,
     << <<t.name, t.name, ".pyi">>, PYISource(t) >>,
     << <<t.name, t.name, "shim">>, ShimSource(t, req) >> >>

\* The files of one target, in the order they are written.
TargetFiles(t, req) ==
  << << <<t.alias, 0, "__init__.py">>, [file |-> "init", name |-> t.name] >>,
     << <<t.alias, t.name, ".py">>, PySource(t, req) >>,
     << <<t.alias, t.name, ".pyi">>, PYISource(t) >>,
     << <<t.alias, t.name, "shim">>, ShimSource(t, req) >> >>
  \o (IF t.stub.skips THEN << << <<t.alias, 0, "SKIPPED.txt">>, [file |-> "skipped", name |-> t.name] >> >>
                      ELSE <<>>)

\* Everything Build writes: the venv root, the shared runtime, the targets.
Writes(req, v) ==
  RootFiles(v)
  \o << <<Root("_mochi_wrap.py"), [file |-> "runtime"]>>,
        <<Root("_mochi_wrap.pyi"), [file |-> "runtime"]>> >>
  \o FlattenSeq([i \in DOMAIN req.targets |-> TargetFiles(req.targets[i], req)])

\* Mutant: the fresh Venv of a nil request is not filled again.
BuildVenvBare(req) == BaseVenv

\* The Venv Build writes: the caller's, as Plan left it, or a fresh one that
\* is given the same members and dependencies again.
BuildVenv(req) == AddTargets(BaseVenv, req.targets)

\* Build: any of its writes may be the one that fails.
Build(req) ==
  /\ WithinTmp
  /\ PlanEffect(req)
  /\ \/ /\ ~PlanSucceeds(req)
        /\ Built(req, FALSE, FALSE)
        /\ NoFault
        /\ UNCHANGED <<workDir, tmps, disk>>
     \/ /\ PlanSucceeds(req)
        /\ PrepareFails
        /\ Built(req, FALSE, TRUE)
     \/ /\ PlanSucceeds(req)
        /\ workDir' = WorkDirFor /\ tmps' = TmpAfter
        /\ LET ws == Writes(req, BuildVenv(req))
               before == Prepared(WorkDirFor)
           IN \E n \in 0..Len(ws) :
                /\ disk' = [before EXCEPT ![WorkDirFor] = WriteAll(@, SubSeq(ws, 1, n))]
                /\ Built(req, n = Len(ws), n # Len(ws))
                /\ FaultIf(n # Len(ws))
  /\ UNCHANGED callerDir

-----------------------------------------------------------------------------
(* Properties.                                                             *)

FilesOf(t, req) ==
  {<<t.alias, 0, "__init__.py">>, <<t.alias, t.name, ".py">>,
   <<t.alias, t.name, ".pyi">>, <<t.alias, t.name, "shim">>}

\* After a successful Build the work directory holds, for every target, what
\* this request renders, whatever earlier builds left there or broke off
\* writing; and pyproject.toml lists every target and its package.
DiskComplete ==
  last.op = "build" /\ last.ok =>
    LET files == disk[workDir]
        py == files[Root("pyproject.toml")]
    IN \A i \in DOMAIN last.req.targets :
         LET t == last.req.targets[i]
         IN /\ FilesOf(t, last.req) \subseteq DOMAIN files
            /\ files[<<t.alias, 0, "__init__.py">>].name = t.name
            /\ files[<<t.alias, t.name, ".py">>] = PySource(t, last.req)
            /\ files[<<t.alias, t.name, "shim">>] = ShimSource(t, last.req)
            /\ t.stub.skips => <<t.alias, 0, "SKIPPED.txt">> \in DOMAIN files
            /\ t.alias \in py.members /\ t.name \in DOMAIN py.deps

\* A build with no Venv of the caller's lists nothing but its own targets,
\* however many builds the driver did before; so every wrapper it lists is
\* on disk.  (With a caller's Venv a failed Plan leaves its targets behind.)
NilVenvExact ==
  last.op = "build" /\ last.ok /\ venv.nil =>
    disk[workDir][Root("pyproject.toml")].members
      = {last.req.targets[i].alias : i \in DOMAIN last.req.targets}

\* orchestrator.go:141: "Build is idempotent for a stable Request": repeated
\* right after it succeeded, and with no I/O error, it succeeds again and the
\* disk is what it was.
RepeatBuild ==
  [][last.op = "build" /\ last'.op = "build" /\ last.ok /\ last'.req = last.req /\ ~last'.fault
       => last'.ok /\ disk' = disk]_buildVars

\* A driver has at most one scratch directory on disk, the one it still knows
\* and Cleanup would remove, whatever failed in between.
ScratchBounded == DOMAIN disk \cap 1..tmps \subseteq {workDir}

\* A work directory the caller named is never removed, nor left for another
\* one, by anything the driver does (a name that starts with mochi-python-
\* excepted: Cleanup takes it for its own).
CallerDirKept ==
  [][(Plain \in DOMAIN disk) => Plain \in DOMAIN disk' /\ workDir' = workDir]_buildVars

\* What the driver's steps do to the disk.
BuildSteps == RepeatBuild /\ CallerDirKept
=============================================================================
