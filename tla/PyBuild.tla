------------------------------- MODULE PyBuild -------------------------------
(***************************************************************************)
(* The build driver of the Python target (transpiler3/python/build): the   *)
(* package layout, the source cache, and the wheel, sdist, kernel and      *)
(* publish bundles.  Several builds run at once and share the cache; a     *)
(* build that takes no more steps was killed.                              *)
(***************************************************************************)
EXTENDS Evaluation

CONSTANTS
  JobLists,       \* sequences of jobs: [src, module, prefix, sidecar, python, target, cached, out]
  RefusedSources, \* sources that do not parse, check or lower
  WithExterns,    \* sources that declare extern python functions
  WalkRank        \* the place of each name when filepath.Walk sorts a directory

VARIABLES
  cache, \* the entries of the cache directory: trees by key
  outs,  \* the trees in the output directories
  proc   \* where each build is: its error and bundles, the paths its copy has to
         \* visit and the file it has open, whether it copies from the cache, and the
         \* builds that had not finished writing what it copies

pyBuildVars == <<cache, outs, proc>>

DefaultPrefix == "mochi_user_"
NoSidecar == ""
EmptyTree == [f \in {} |-> ""]

\* resolveToolchain: CPython 3.12 is the floor.
ToolchainOk(v) == v.major >= 3 /\ ~(v.major = 3 /\ v.minor < 12)

\* Driver.packageName, and ModuleName of the source file's name.
PackageName(job) == job.prefix \o job.module
\* The name the lowered module imports its externs from.
ExternsImported(job) == DefaultPrefix \o job.module \o "_externs"
ExternsFile(job) == PackageName(job) \o "_externs"

-----------------------------------------------------------------------------
(* Trees of files, and the one a build makes in its scratch directory: a   *)
(* file is a path and what its content depends on.                         *)

Tree(files) == [f \in {e[1] : e \in files} |-> (CHOOSE e \in files : e[1] = f)[2]]
\* Files are added and overwritten, none removed.
CopyTree(dst, tree) == [f \in DOMAIN tree \cup DOMAIN dst |-> IF f \in DOMAIN tree THEN tree[f] ELSE dst[f]]

Put(tree, f, content) == [g \in DOMAIN tree \cup {f} |-> IF g = f THEN content ELSE tree[g]]

\* A file that was cut short, or that two builds wrote at once.
Torn == <<"torn">>
\* A build writes into the file it has open: another may have written since.
Written(old, new) == IF old \in {Torn, new} THEN new ELSE Torn

\* The directories and files of a walk, from the root on.
Root == <<>>
Under(d, f) == Len(d) <= Len(f) /\ \A k \in DOMAIN d : d[k] = f[k]
Children(tree, d) == {[k \in 1..(Len(d) + 1) |-> f[k]] : f \in {f \in DOMAIN tree : Under(d, f) /\ f # d}}
WalkedBefore(p, q) ==
  \E k \in DOMAIN p \cap DOMAIN q : (\A l \in 1..(k - 1) : p[l] = q[l]) /\ WalkRank[p[k]] < WalkRank[q[k]]

\* writePackageLayout, over the module that emit wrote before it.
PackageLayout(job) ==
  LET pkg == PackageName(job)
  IN CopyTree(Tree({<<<<"src", pkg, "generated", job.module>>, <<"code", job.src, job.module>>>>}),
              Tree({<<<<"src", pkg, "generated", "__init__">>, <<"empty">>>>,
                    <<<<"src", pkg, "__init__">>, <<"reexports main of", job.module>>>>,
                    <<<<"src", pkg, "__main__">>, <<"runs main of", job.module>>>>,
                    <<<<"src", pkg, "py.typed">>, <<"empty">>>>,
                    <<<<"pyproject.toml">>, <<"project", pkg>>>>}))

WorkDir(job) ==
  IF job.src \in WithExterns
  THEN CopyTree(PackageLayout(job), Tree({<<<<"src", ExternsFile(job)>>, <<"sidecar", job.sidecar>>>>})) ELSE PackageLayout(job)

\* The runtime as buildWheel, buildSdist and buildIpykernel copy it: no bytecode.
Runtime == Tree({<<<<"mochi_runtime", "io">>, <<"runtime">>>>, <<<<"mochi_runtime", "py.typed">>, <<"empty">>>>})

\* The files under src/, from there on.
UnderSrc(tree) == LET kept == {f \in DOMAIN tree : f[1] = "src"} IN [g \in {Tail(f) : f \in kept} |-> tree[<<"src">> \o g]]
Prefixed(dir, tree) == [f \in {dir \o g : g \in DOMAIN tree} |-> tree[From(f, Len(dir) + 1)]]

\* buildRecord: a line for every staged file, and its own.
Record(stage) == DOMAIN stage \cup {<<"dist-info", "RECORD">>}

\* buildWheel: the staged files, and the lines of RECORD.
Wheel(work) ==
  LET stage == CopyTree(CopyTree(UnderSrc(work), Runtime),
                        Tree({<<<<"dist-info", "METADATA">>, <<"metadata">>>>, <<<<"dist-info", "WHEEL">>, <<"tag">>>>}))
  IN [files |-> CopyTree(stage, Tree({<<<<"dist-info", "RECORD">>, <<"record">>>>})), record |-> Record(stage)]
\* buildSdist and buildIpykernel ship the same tree, with different files beside it.
SourceBundle(work, beside) ==
  [files |-> CopyTree(CopyTree(work, Prefixed(<<"src">>, Runtime)), Tree({<<beside, <<"metadata">>>>})), record |-> {}]
Sdist(work) == SourceBundle(work, <<"PKG-INFO">>)
KernelBundle(work) == SourceBundle(work, <<"kernels", "kernel.json">>)
\* buildPublishWorkflow: both archives, for the workflow it writes beside them.
PublishBundles(work) == {Wheel(work), Sdist(work)}

\* No package takes a name that an installer keeps for itself.
Reserved == {"src", "dist-info", "pyproject.toml", "PKG-INFO", "kernels"}
ASSUME JobListsAssumption ==
  \A jobs \in JobLists : \A i \in DOMAIN jobs :
    {PackageName(jobs[i]), ExternsFile(jobs[i])} \cap Reserved = {} /\ PackageName(jobs[i]) # ExternsFile(jobs[i])

\* What is on sys.path once the artifact is installed: the first names of the
\* files at its root, or under src/.
Importable(bundle) ==
  {f[1] : f \in {f \in DOMAIN bundle.files : f[1] \notin Reserved}}
  \cup {f[2] : f \in {f \in DOMAIN bundle.files : f[1] = "src"}}

\* The bundles of a target.
Bundles(job) ==
  LET work == WorkDir(job)
  IN CASE job.target = "wheel" -> {Wheel(work)}
       [] job.target = "sdist" -> {Sdist(work)}
       [] job.target = "ipykernel" -> {KernelBundle(work)}
       [] job.target = "publish" -> PublishBundles(work)
       [] OTHER -> {}

-----------------------------------------------------------------------------
(* Driver.Build.                                                           *)

\* Mutant: the key is only the toolchain's.
CacheKeyStale(job) == <<job.python>>
\* cacheKey: the source, the Python version and a tag.
CacheKey(job) == <<job.src, job.python>>

\* The errors before any file is written, in their order.
BuildError(job) ==
  CASE job.src \in RefusedSources -> "source"
    [] job.src \in WithExterns /\ job.sidecar = NoSidecar -> "sidecar not found"
    [] job.target = "app" -> "not supported"
    [] OTHER -> ""

Reads(job) == job.cached /\ job.target = "source"

OutDirs(jobs) == {jobs[i].out : i \in DOMAIN jobs}
NotStarted == [at |-> "start", error |-> "", pending |-> {}, open |-> {}, hit |-> FALSE, beside |-> {}, made |-> {}]
PyBuildInit ==
  /\ Called("pybuild", JobLists)
  /\ cache = [k \in {} |-> EmptyTree]
  /\ outs = [o \in OutDirs(in) |-> EmptyTree] /\ proc = [i \in DOMAIN in |-> NotStarted]

\* Build i is before its first write: the toolchain, the source and the cache.
Starting(i) == subject = "pybuild" /\ proc[i].at = "start"
Key(i) == CacheKey(in[i])
Hit(i) == Reads(in[i]) /\ Key(i) \in DOMAIN cache
Misses(i) == Starting(i) /\ ToolchainOk(in[i].python) /\ ~Hit(i) /\ BuildError(in[i]) = ""

\* The builds that began to write the entry that i uses and have not finished,
\* or never will.
Unfinished(i) == {j \in DOMAIN in : Key(j) = Key(i) /\ proc[j].at \in {"fill", "dropped"}}

Refuse(i) ==
  /\ Starting(i)
  /\ \E e \in {IF ToolchainOk(in[i].python) THEN BuildError(in[i]) ELSE "toolchain"} :
       /\ e # "" /\ (ToolchainOk(in[i].python) => ~Hit(i))
       /\ proc' = [proc EXCEPT ![i].at = "done", ![i].error = e]
  /\ UNCHANGED <<cache, outs, evalVars>>
BeginHit(i) ==
  /\ Starting(i) /\ ToolchainOk(in[i].python) /\ Hit(i)
  /\ proc' = [proc EXCEPT ![i].at = "hit", ![i].pending = {Root}, ![i].hit = TRUE, ![i].beside = Unfinished(i)]
  /\ UNCHANGED <<cache, outs, evalVars>>
MakeBundles(i) ==
  /\ Misses(i) /\ in[i].target # "source"
  /\ proc' = [proc EXCEPT ![i].at = "done", ![i].made = Bundles(in[i])]
  /\ UNCHANGED <<cache, outs, evalVars>>
BeginOut(i) ==
  /\ Misses(i) /\ in[i].target = "source"
  /\ proc' = [proc EXCEPT ![i].at = "out", ![i].pending = {Root}]
  /\ UNCHANGED <<cache, outs, evalVars>>
\* The entry is written in place, and who copies it by then reads it unfinished.
BeginFill(i) ==
  /\ subject = "pybuild" /\ proc[i].at = "out" /\ proc[i].pending = {} /\ in[i].cached
  /\ proc' = [j \in DOMAIN proc |->
                IF j = i THEN [proc[i] EXCEPT !.at = "fill", !.pending = {Root}]
                ELSE IF proc[j].at = "hit" /\ Key(j) = Key(i) THEN [proc[j] EXCEPT !.beside = @ \cup {i}] ELSE proc[j]]
  /\ UNCHANGED <<cache, outs, evalVars>>

-----------------------------------------------------------------------------
(* copyTree, copyFile: the walk of a tree, directory by directory and file *)
(* by file.                                                                *)

\* "hit": entry to out; "out": scratch directory to out; "fill": to the entry.
Copying(i) == subject = "pybuild" /\ proc[i].at \in {"hit", "out", "fill"}
Entry(key) == IF key \in DOMAIN cache THEN cache[key] ELSE EmptyTree
CopySource(i) == IF proc[i].at = "hit" THEN cache[Key(i)] ELSE WorkDir(in[i])
CopyTarget(i) == IF proc[i].at = "fill" THEN Entry(Key(i)) ELSE outs[in[i].out]
SetTarget(i, tree) ==
  IF proc[i].at = "fill"
  THEN cache' = [k \in DOMAIN cache \cup {Key(i)} |-> IF k = Key(i) THEN tree ELSE cache[k]] /\ UNCHANGED outs
  ELSE outs' = [outs EXCEPT ![in[i].out] = tree] /\ UNCHANGED cache

\* What the walk visits next.
Visited(i) == {p \in proc[i].pending : \A q \in proc[i].pending \ {p} : WalkedBefore(p, q)}
\* os.MkdirAll of the target; the names in the directory are read now.
WalkDir(i) ==
  /\ Copying(i) /\ proc[i].open = {}
  /\ \E d \in Visited(i) \ DOMAIN CopySource(i) :
       /\ SetTarget(i, CopyTarget(i))
       /\ proc' = [proc EXCEPT ![i].pending = (@ \ {d}) \cup Children(CopySource(i), d)]
  /\ UNCHANGED evalVars
\* os.Create empties the file.
OpenFile(i) ==
  /\ Copying(i) /\ proc[i].open = {}
  /\ \E f \in Visited(i) \cap DOMAIN CopySource(i) :
       /\ SetTarget(i, Put(CopyTarget(i), f, Torn))
       /\ proc' = [proc EXCEPT ![i].open = {f}]
  /\ UNCHANGED evalVars
\* io.Copy, in one piece.
WriteFile(i) ==
  /\ Copying(i)
  /\ \E f \in proc[i].open \cap DOMAIN CopySource(i) \cap DOMAIN CopyTarget(i) :
       /\ SetTarget(i, Put(CopyTarget(i), f, Written(CopyTarget(i)[f], CopySource(i)[f])))
       /\ proc' = [proc EXCEPT ![i].pending = @ \ {f}, ![i].open = @ \ {f}]
  /\ UNCHANGED evalVars
EndCopy(i) ==
  /\ Copying(i) /\ proc[i].pending = {} /\ ~(proc[i].at = "out" /\ in[i].cached)
  /\ proc' = [proc EXCEPT ![i].at = "done"]
  /\ UNCHANGED <<cache, outs, evalVars>>
\* An error while the cache is written is dropped, and the build succeeds.
CopyFails(i) ==
  /\ Copying(i)
  /\ proc' = IF proc[i].at = "fill" THEN [proc EXCEPT ![i].at = "dropped", ![i].pending = {}, ![i].open = {}]
             ELSE [proc EXCEPT ![i].at = "done", ![i].error = "copy", ![i].pending = {}, ![i].open = {}]
  /\ UNCHANGED <<cache, outs, evalVars>>

BuildStep(i) ==
  Refuse(i) \/ BeginHit(i) \/ MakeBundles(i) \/ BeginOut(i) \/ BeginFill(i)
    \/ WalkDir(i) \/ OpenFile(i) \/ WriteFile(i) \/ EndCopy(i) \/ CopyFails(i)
PyBuildNext == \E i \in DOMAIN proc : BuildStep(i)
PyBuildSpec == PyBuildInit /\ [][PyBuildNext]_<<evalVars, pyBuildVars>>

-----------------------------------------------------------------------------
(* Properties.                                                             *)

\* The builds of i's program, which are all that may use its entry.
SameProgram(i) == {j \in DOMAIN in : in[j].src = in[i].src /\ in[j].python = in[i].python}
\* What the key leaves out, and the tree depends on.
Apart(a, b) == a.module # b.module \/ a.prefix # b.prefix \/ (a.src \in WithExterns /\ a.sidecar # b.sidecar)
\* Build i was asked for the source tree and nobody else writes where it does.
OwnOutput(i) == in[i].target = "source" /\ \A j \in DOMAIN in : in[j].out = in[i].out => j = i

\* Whatever runs before or beside a build and wherever it stops, its output
\* directory holds files of its own program only, whole or torn; and a build that
\* reports success leaves exactly its own tree, unless it copied an entry that
\* another build was writing or had given up, or one that a build of a module,
\* prefix or sidecar that the key does not tell apart wrote.
CachedTreeIsFresh ==
  subject = "pybuild" =>
    \A i \in {i \in DOMAIN in : OwnOutput(i)} :
      /\ \A f \in DOMAIN outs[in[i].out] : \E j \in SameProgram(i) :
           f \in DOMAIN WorkDir(in[j]) /\ outs[in[i].out][f] \in {WorkDir(in[j])[f], Torn}
      /\ proc[i].at \in {"done", "dropped"} /\ proc[i].error = "" /\ outs[in[i].out] # WorkDir(in[i]) =>
           proc[i].hit /\ (proc[i].beside # {} \/ \E j \in SameProgram(i) : Apart(in[i], in[j]))

\* Every archive lists and carries what it needs: RECORD names each file, and
\* the package, its runtime and its externs can be imported from it, when the
\* package has the default prefix.
BundlesSelfContained ==
  subject = "pybuild" =>
    \A i \in DOMAIN in : \A b \in proc[i].made :
      /\ b.record # {} => b.record = DOMAIN b.files
      /\ in[i].prefix = DefaultPrefix =>
           {PackageName(in[i]), "mochi_runtime"} \cup (IF in[i].src \in WithExterns THEN {ExternsImported(in[i])} ELSE {}) \subseteq Importable(b)

\* The Python build driver's promise.
PyBuildCorrect == CachedTreeIsFresh /\ BundlesSelfContained
=============================================================================
