# A TLA+ development of the mochi-python bridge

mochi-python lets a Mochi program `import python` a package, and compiles Mochi
programs to Python packages. Most of the repository is a pipeline of small Go
packages (resolve, read stubs, map types, render wrappers, build, lock, publish,
verify) and a compiler (check, lower, print, package), around two pieces of code
that run at the same time as something else: a JSON-RPC client and its worker
process, and the generated Python that drives `async def`s from synchronous
code. This directory models what keeps state, fails half-way or meets other
processes as state machines, and the rest as the functions it exports, evaluated
on every input of a small language. TLC checks both; TLAPS proves the safety
properties of the state machines, and what Parse, Compare and Match do with any
version text, for every value of the constants.

Contents: [inventory](#inventory), [modules](#modules),
[runs](#runs), [bounds](#bounds), [fairness](#fairness), [proofs](#proofs),
[what the code does otherwise than its documents](#disagreements),
[not modelled](#not-modelled), [plan](#plan).

`tlc -config X.cfg MCModule` repeats a run; `tlapm XProofs.tla` repeats the proofs of a
module (half a minute to two minutes each). PROJECT.json ties every definition to the
lines it stands for and lists runs, mutants, hazards and theorems.

<a id="inventory"></a>
## Inventory

How the parts meet: `importspec` parses the import, `uv` and `simple` find the
distributions, `stubs` finds and parses their `.pyi`, `typemap` translates
types, `wrapper` and `emit` render Python and Mochi text, `build` runs all that
for a request and writes a workspace, `lockfile` records what was built.
`asyncbridge` and `wrapper` render code that runs inside the user's
interpreter; `subproc` runs packages in a worker process instead. `pypackage`
and `publish` go the other way, from Mochi to the registry; `attest` is what
the installer does with what `publish` left there. The compiler is `types` (the
checker), `transpiler3/c` (the middle end it shares with the C target) and
`transpiler3/python` (lowering, the Python tree and its text, and a build driver
with a cache); what it emits imports `runtime/python`.

| part | state it keeps | operations | what is hard | correct when |
|---|---|---|---|---|
| `subproc` client | next id, closed flag, a buffered reader and a writer with a mutex | `Call` from any goroutine, `Close` | overlap of calls between write and read; Close in the middle of a call; frames of somebody else | a result is the caller's own; a method runs at most once; calls return |
| `subproc` workers | the loop's position; Python: the stdout the protocol shares with user code | read, dispatch, reply, in Go (`ServeCodec`) and in rendered Python | methods that print, results that cannot be encoded or are too large, crashes in mid-frame, full pipes | one response per request, in order |
| `asyncbridge` | rendered module: one cached event loop | shims, guard, cache getter | threads switched between check and fill of the cache; nested calls; a loop closed under the cache | calls are driven; tasks left behind are seen by the next call; no loop leaks |
| `wrapper` | rendered module: a loop bound at import; `_mochi_wrap`: one loop for all wrappers | import, shims | the same, without guard and with a stale binding | the same |
| `build` driver | work directory, scratch or the caller's | PrepareVenv, WriteVenvRoot, Cleanup | any file operation fails; a directory is reused or taken for one's own | scratch does not leak; a caller's directory is kept |
| `build` orchestrator | the caller's `Venv`, changed in place; the files | Plan, Build | breaking off after any write, then building again into what is left | a successful build wrote everything |
| `lockfile` | the `[[python-package]]` tables of mochi.lock | FromBuildResult, Render, Parse, Check | edits and merges between lock and check | what passes the check is what is locked |
| `publish` | one release: tokens, uploads, result | Validate, statement, OIDC, mint, upload per target | every external call fails; the caller tries again | success means everything is there, failure leaves a prefix, tokens are not mixed up |
| `attest` | a policy, a report per wheel | fetch, parse, judge, gate | empty lists, half-configured policies, early returns | fails closed, agrees with what is published |
| `simple` | none (an HTTP client) | fetch index, Verify a file | HTTP errors, two formats | what is listed is what is verified |
| `uv` | none (runs the resolver) | run, read uv.lock, write pylock.toml | exit codes, conversion losing entries | the converted lock means the same |
| `stubs` | none | four-tier lookup, `.pyi` parser | precedence of tiers | the first tier that has a stub wins |
| `typemap` | class registry | translate type expressions | recursion, unions, refusals | translated types are in the closed table |
| `importspec`, `semver`, `toml` | none | parse, print, compare | normal forms, order | print and parse agree; Compare is an order that Match respects |
| `emit` | none | render the Mochi shim | what its hash covers | the same input renders the same text |
| `pypackage` | none | wheel and sdist rendering | determinism, RECORD | RECORD lists every file |
| `abi3`, `abi2026`, `freethread`, `pyodide` | none | choose, rename and audit wheels by tag | ties, promotion rules | the choice is compatible and best |
| `types` | scopes of types, narrowings, effects of functions | unify, subtype, infer, check, narrow | two unifiers and two typings of every operator; what a test showed and a later call undid; functions that call each other | unifiers are most general, the two typings agree, narrowed values are present, effects cover calls |
| `transpiler3/c/lower`, Datalog | facts and rules of one program | strata, magic sets, fixpoint | recursion, negation, goal direction | the answers are the perfect model's |
| `transpiler3/python/lower`, `pysrc` | needs flags of one module | lower, print | two languages with different scopes; imports decided apart from uses | Python reads back the tree, finds every name, prints what Mochi prints |
| `transpiler3/python/build` | a cache directory shared by all builds | Build for five targets | entries written in place, read by whoever finds the directory; builds cut short | a cached tree is the tree of its source; an archive carries what it imports |
| `runtime/python` | streams, kernel history | helpers of emitted programs, notebook cells | taking `main` apart textually | a cell runs what main would |
| `errors` | none | skip reasons and error kinds | | |
| `parser`, `ast`, `diagnostic` | none | grammar, printing, messages | | |

The hazards, line by line, are in PROJECT.json. The ones the modules were built
around:

- two goroutines between `WriteRequest` and `ReadResponse` of one Client, and
  both inside its `bufio.Reader` (subproc/client.go:57, codec.go:77);
- a Python method that prints, so that a surplus line shifts every later answer
  by one (subproc/worker.go:126), or fills the pipe until nobody can move;
- Close, a crash or an unencodable result between execution and answer;
- the unlocked check and fill of a cached event loop (asyncbridge/render.go:44)
  and the loop closed behind the cache;
- a build that breaks off at any write and is run again;
- an upload that fails after others went live, and the second run of Publish;
- two packages, or a package and a document, that agree only by convention: the
  names and digests of attestation subjects, the hash in the lock file, the ABI
  tags three packages read, the imports of a module and the names it uses;
- an index that changes between the listing and the download;
- cycles through negation told from legal strata by where an iteration stopped
  (transpiler3/c/lower/lower.go:7485);
- a cache entry that counts as complete as soon as its directory exists
  (transpiler3/python/build/build.go:206).

<a id="modules"></a>
## Modules

| module | models | composed of |
|---|---|---|
| `Subproc` | `subproc/`: Client, Codec, ServeCodec, the rendered Python worker, and the pipes between them | refines `RpcAbs` |
| `RpcAbs` | nothing: what a caller may expect, at-most-once remote calls | |
| `AsyncBridge` | the Python rendered by `asyncbridge/render.go` and `wrapper/render.go`, `wrapper/runtime.go`, run by threads of one interpreter | |
| `Build` | `build/` with what it uses of `wrapper` and `emit` | |
| `Lockfile` | `lockfile/`, and `mochi pkg lock [--check]` around it | extends `Build` |
| `Publish` | `publish/`: Orchestrator, OIDC, minting, uploaders | |
| `Attest` | `attest/`: Verifier, Policy, Statement | |
| `Release` | a publisher, a registry and an installer; `BuildStatement` | extends `Publish`, `Attest` |
| `Evaluation` | nothing: one call of a pure function, and helpers on sequences | |
| `Semver`, `ImportSpec` | `semver/`, `importspec/` | extend `Evaluation` |
| `SimpleIndex` | `simple/`, against an index that changes | extends `ImportSpec` |
| `Toml`, `UvLock` | `toml/`, `uv/lock.go`, `uv/pylock.go` | `UvLock` extends `Toml` |
| `Wheel`, `Pyodide` | `abi3/`, `abi2026/`, `freethread/`; `pyodide/` | `Pyodide` extends `Wheel` |
| `TypeMap`, `Stubs`, `Wrapper`, `PyPackage` | `typemap/`; `stubs/`; `wrapper/` and `emit/`; `pypackage/` | each extends the one before |
| `MochiTypes`, `TypeRules`, `Flow` | `types/`: types and unifiers; subtyping, operators and calls; narrowing | each extends the one before |
| `Effects` | `types/`: the sweeps that infer effects | extends `Evaluation` |
| `PySrc`, `PyLower`, `PyRun` | `transpiler3/python/pysrc`; `.../lower`; what both languages do with a program, and the kernel's cells | each extends the one before |
| `Datalog` | the logic queries of `transpiler3/c/lower` and `transpiler3/python/lower` | extends `Evaluation` |
| `PyBuild` | `transpiler3/python/build` | extends `Evaluation` |
| `SubprocProofs`, `AsyncBridgeProofs` | nothing: theorems about the module of that name | extend it |
| `BuildProofs`, `ReleaseProofs` | nothing: theorems about `Build` and `Lockfile`; about `Publish`, `Attest` and `Release` | extend `Lockfile`; `Release` |
| `ResolveProofs`, `CodegenProofs` | nothing: theorems about `Semver` and `SimpleIndex`; about `Effects` and `PyBuild` | extend those |
| `WheelProofs` | nothing: a theorem about `Wheel` | extends `Wheel`, `ResolveProofs` |
| `SeqFacts` | nothing: least elements, induction and facts about sequences, for the proofs | |
| `MC*` | small instances for TLC; `MCResolve` and `MCCodegen` put the pure packages of each half together; `Subproc` is instantiated by its cfg files alone | extend the above |

### Subproc

One action per step of `Client.Call` that another goroutine, the worker or
Close can come in between: `TakeID` is the critical section under `mu`,
`BuildRequest`/`BuildFails` marshalling and the size check, `WriteRequest`
and `WriteBroken` the write under `writeMu`, `EnterRead` and `ReadResponse`,
`ReadTorn`, `ReadFails` the unlocked read, with the checks of the response in
the order of the code (`Verdict`). `CloseMark` and `CloseConn` are the two
halves of Close, on either side of its unlock. The worker is one loop with
two dispatchers: `Worker = "go"` is ServeCodec, `"python"` is the rendered
worker, which looks methods up in its list, writes results ServeCodec would
refuse, and shares stdout with the methods (`WorkerPrint`).

A frame is one line, read and written whole, except by a crash, which may cut it (`Junk`).
A payload is the id of the execution that produced it: what lets the properties tell one's
own answer from another's. Two goroutines in the `bufio.Reader` at once is a data race;
from then on (`torn`) a read still blocks until the worker has delivered something
(`seen`), and then returns a line put together from what was ever delivered, with any
number of frames lost. A panic inside the racing reader ends the program, which every
behaviour may do anyway. `GoroutineSafe` is about the calls before any such race: its
counterexample is two Calls that have both written, one of which has the reader to itself
and takes the other's response. `Serial` and `Noisy` describe the program that uses the
Client: whether its goroutines take turns, whether its methods print.

### AsyncBridge

Init chooses for each rendered module its renderer and its mode, and the
threads that call shims. A call at top level goes through the points where
Python can switch threads: the check of the cached loop, `new_event_loop`, the
assignment, the second read of the global, the drive; the GIL prevents none of
these switches. Calls also come from inside a running loop (`NestedCall`), from
the program's own loop (`HostEnter`), and the program may close a loop it got
hold of (`HostClose`). asyncio is external and modelled as the rendered code uses
it: `run_until_complete` refuses a closed loop and one that is running,
`asyncio.run` cancels and closes. Left out: which argument types a shim
converts, and what the coroutine does except leave a task behind.

### Build and Lockfile

A request is a sequence of targets; a target's stub is the set of item kinds the
type table accepts, whether something was skipped, or `Broken`. A rendered file
is a record of what its text is a function of: `PySource` of the items and,
if one is async, the loop mode; `ShimSource` of the items and the banner. The
hash is of that record, so the model can tell which inputs a hash covers.
`Build` does what the Go function does: Plan on the caller's Venv in place,
PrepareVenv, then the writes one after another, any of which may be the last.
`PlannedVenv` keeps what Plan added before a later target failed. The caller's
Venv is `Nil` until a request comes with one. Cleanup
decides by the name of the directory, as the code does; when RemoveAll fails it has
removed none of the files, all of them, or all but one.

`Lockfile` adds the file: entries are sorted by name, then alias (`Sorted` puts
each entry at the place given by the number of entries before it, which is what
a stable sort does), optional fields are left out when
empty and come back empty, and an edit may remove tables or keys or leave a stale
duplicate before or after the original. `Check` is `CompareManifests` being
empty, with `indexByKey`'s last-one-wins.

### Publish, Attest, Release

`Publish` is one release published up to `MaxAttempts` times: validation, `Begin` (with
the statement), OIDC, mint, one upload per target, each with its failures; a failed upload
has sent none, one or both files of its target, and a failed mint may have issued a token.
`Attest` is `Verifier.Verify` with the policy as a function from bundle and wheel to a set
of reasons, early returns included. `Release` puts the registry between them: a wheel that
goes live is served with the statement of the run that sent it if the Uploader sends
statements, and a wheel that is sent again keeps what it has. The repository's own
`UVUploader` never reads `call.AttestationJSON`, so what it uploads has no attestation;
only an Uploader of the caller (`"signing"`) may send one. A digest is `<<file, kind,
form>>`, where form is hex or base64, so that the two packages can disagree about it.

### Pure packages

A package that keeps no state is a set of functions. `Evaluation` gives them one
shape: Init picks the package (`subject`) and an input (`in`), the one step
evaluates the function (`out`). An invariant is then a law about all inputs of
the instance. The laws are never the function written twice: they compare it with
a reference definition, with its inverse, with another package that must agree,
or with itself on an input written differently. `SimpleIndex` has steps of its
own, because the index is another party that acts between them.

- `Semver`: texts are tokens; Parse, String, Compare, Match. `ImportSpec`: Parse
  and String of the body of an import.
- `SimpleIndex`: FetchProject in HTML or JSON, FetchFile, Verify; the index
  replaces files and cuts bodies short in between. The two parsers do not read all
  attributes alike (a trimmed reason, the old spelling of the metadata attribute),
  and `FormatsAgree` says exactly where they part.
- `Toml` reads lines and values into tables; `UvLock` decodes a uv.lock,
  converts, renders and reads back.
- `Wheel` and `Pyodide`: file names as tokens, the ranks, the promotions, the
  audits, and the lock shim as rendered and then imported by an interpreter.
- `TypeMap`, `Stubs`, `Wrapper`, `PyPackage`: a type expression is parsed, lowered
  or refused; a stub is lines of tokens; a surface becomes a wrapper and
  declarations; a package becomes two layouts.

### The checker: MochiTypes, TypeRules, Flow, Effects

A type is a tree. `UnifyInto` and `LegacyUnify` are the two unifiers, with their
substitutions chased as the code chases them. `TypeRules` has the relations
(`SubtypeOf`, `AssignableAt`, `EqualTypes`, `CastOk`, `NumericJoin`), the typing of
operator chains by the checker (`CheckChain`) and by the inferrer (`InferChain`),
which split them by different tables, and calls of generic functions, with fewer
arguments than parameters or a `_` in the place of one too. `Flow`
keeps the scopes: which optionals a condition narrows in which branch, and what
each statement of the branch drops.

`Effects` is the loop of `Check` over the top-level functions, one action per
statement of a sweep: `SkipPinned` for an annotated function, `InferNext` for
the others, which recomputes the signature from the body against the signatures
as they are at that moment, then `SweepAgain` or `CheckAnnotations`. Signatures
are kept by name, as the code keeps them, so that two functions of one name
write the same signature.

### The Python target: PySrc, PyLower, PyRun

The intermediate form and the Python tree have the same shape, `[k, n, f, a]`
for expressions and `[k, n, t, f, a, b]` for statements, so that the lowering
reads as a table from node to node. `PySource` prints the module as lines of
tokens, and a small reader (external: Python's grammar) reads them back. `PyRun`
is one machine for both languages, which differ where the languages do: Mochi's
blocks are scopes, a Python function is one scope whose assigned names are local
everywhere, and names are looked up among locals, globals and builtins. A function
of the user is `mochi__f` in both, as the middle end names it, and is called in
expressions only: the lowerer refuses it as a statement. The
kernel's `_unwrap_main` works on the printed lines.

### Datalog

`ComputeStrata` and `ApplyMagicSet` are the two passes of lowerLogicQuery;
`CFixpoint` is the evaluation the emitted C makes, when every array it loops over
is declared (`AllDeclared`), `DatalogEval` the one the Python target makes at compile
time of the untransformed rules. The reference is
the perfect model: some stratification found by search, and level by level the
least model of the rules by quantifying over all assignments.

### PyBuild

A tree is a function from paths to what a file's content depends on. Any number
of builds run beside each other and share the cache and, if they are told so, an
output directory. A build has the steps another process can come between: the
refusals, the test for a cache hit (`BeginHit`), the bundles, the start of the copy
to out (`BeginOut`) and of the copy to the cache (`BeginFill`), and the copies
themselves. copyTree is a walk: `WalkDir` reads a directory's names as they are
then, `OpenFile` is os.Create, which empties the file, `WriteFile` is io.Copy, and
`Visited` is the order in which filepath.Walk comes to the paths still pending. A
file that is open, was cut short, or that two builds wrote at once is `Torn`. A copy
may fail anywhere (`CopyFails`): an error while the cache is written is dropped. A
build that takes no more steps was killed. `beside` remembers which builds had not
finished with the entry a build copies: the code cannot tell, the properties have
to. An io.Copy is one step, and all jobs of a run keep their sources as they are.

<a id="runs"></a>
## Runs

Every passing property has a mutant in PROJECT.json: a plausible bug of the
mapped definition for which TLC finds the property violated under the same cfg.
Several properties are conjunctions of named laws; the modules state each law
with a comment of its own.

| run | instance | states | shows |
|---|---|---|---|
| `subproc_go` | Go worker, 2 goroutines taking turns, 3 calls, 3 methods one of which is empty, pipes of 2 | 21 k | `ExecutedOnce`; `InStep`: the only foreign id is the worker's parse error, id 0; `CallReturns`; `AtMostOnceRPC`: Subproc implements RpcAbs |
| `subproc_noisy` | Python worker, printing methods, 1 goroutine, 4 calls | 235 k | `StaysOutOfStep`: after one surplus line no later call succeeds; `CallReturnsOrClogs`: the one way to hang is in WriteFrame with both pipes full |
| `subproc_shared` | Python worker, printing, 2 goroutines overlapping, pipes of 1 | 46 k | `OwnAnswer` up to a reader race; `CloseReleases` from a hung worker |
| `subproc_goroutine_safe` | Python worker, no printing, 2 goroutines overlapping, 3 calls | violation | of two overlapping calls one reads the other's response and fails, with no two of them ever inside the reader at once |
| `async_bridge` | 2 threads, 2 modules of every kind and mode, 3 loops | 767 k | `ShimsAnswer` (the guard answers before a coroutine exists; a program that calls from one thread is never refused); for such programs also `SerialObservable` and `LoopsConsistent` (no stray loop, one loop for all wrappers) |
| `async_bridge_observable` | the same | violation | two threads' first calls make two loops; a task left on one is not seen by the next call |
| `build_lock` | 7 requests (below), 4 operations, 1 fault | 330 k | `DiskComplete`, `NilVenvExact`, `ScratchBounded`; `BuildSteps` (a repeated build changes nothing, a caller's directory is kept); `LockSound` (Check is exact, and what passes it builds the locked shims) |
| `release` | 2 targets, every request, 2 attempts, every failure; a wheel of somebody else, 144 policies times 1 291 fetches | 366 k | `SuccessMeansLive` (and the result lists the targets), `LiveIsPrefix`, `OwnToken`, `VerifierMirrorsPublisher` (what goes live with its statement is accepted and named in it, what `UVUploader` sent is missing its attestation), with hex digests and pure wheels; `VerdictExact`: the gate agrees with the one-formula `Endorses` in both directions; `Tightening` |
| `resolve` | texts and listings below | 145 k | `VersionOrder`: what Parse accepts is totally ordered along PEP 440's phases, and `~=` is its pair of clauses; `ImportLaws`: versions and specs are read back as written, `===` accepts nothing `==` refuses, names are normalised alike by two packages; `IndexLaws`: HTML and JSON say the same but for a trimmed reason and a metadata file announced under its old spelling, an accepted file has every listed digest; `LockExport`: readable exactly when hashed, read back as written; `WheelChoice`: the wheel the abi2026 selector takes does not depend on the order of the listing, and the transition policy takes the better of what the other two take; `WheelLaws`: the same order independence for WebAssembly, promotion is undone exactly, tags are read alike, the audit and the lock shim are exact |
| `codegen` | programs, types, rules and builds below | 689 k | `PackageComplete`: types, stubs, bindings and calls (`BindingsWork`), and the distribution's files; `UnifierCorrect`: most general; `TypesAgree`; `NarrowingSound`; `EmittedModule`: reads back, resolves its names, can be taken apart into a cell; `SameOutput`; `DatalogAnswers`; `PyBuildCorrect`; `EffectsCoverCalls`: a signature has the effects of all its function reaches and, if inferred, no others; `EffectsClimb`: no sweep takes an effect back; `EffectsSettle`: the sweeps end |
| `effects_redeclared` | two functions of one name | violation | each sweep writes one signature and then the other, and no sweep is the last |
| `datalog_negative_cycles` | the Datalog programs of `codegen` | violation | a cycle through negation is compiled instead of refused |

CHECK_DEADLOCK is off where the program may stop: a Client that has used its
ids and is idle, a release that is published or out of attempts, a build
session after `MaxOps`, a function that has returned. AsyncBridge is checked for
deadlock.

<a id="bounds"></a>
## Bounds

- `MaxCalls` 2 to 4, `PipeCap` 1 or 2: a surplus frame needs one call to arise
  and one to be misread, a third to stay misread; capacity 1 already makes both
  sides block, 2 lets a stale frame sit behind a fresh one. Two goroutines
  suffice for the race: a third adds no new pair. The theorems remove these
  bounds for what they state.
- `MaxLoops` 3: two threads racing make two loops, the third is the one created
  after a close. A call starts only when a loop is left for it (`WithinBound`),
  so the bound never stops a call in the middle.
- `build_lock`: the requests are a pinned import, the same grown upstream (with
  a banner, skipped items and a persistent loop), next to a git package, twice
  under two aliases, and three that Plan refuses: two equal aliases, a
  hyphenated name in the second target, a broken stub in the second target.
  `MaxOps` 4 is lock, edit, check, build, or build, fail, clean up, build.
  `MaxFaults` 1 lets any one file operation fail; `MaxTmp` 2 lets a scratch
  directory be cleaned up and another allocated.
- `release`: two targets give a first that is live and a second that is not;
  two attempts give a repeat with a new statement and a new token.
  The policies are all over a vocabulary of two values wherever they compare,
  with statements of one and two subjects. The wheel of somebody else is judged
  before anything is published: neither side knows of the other.
- `resolve`: versions are every combination of phases, epochs and local labels
  over small numbers, with texts Parse refuses; three of them at a time for the
  order. Index listings have digests that fit, do not fit, are md5 only or
  absent. Wheel pools (`MCPools`) have up to `MaxPool` names out of every class of tag.
- `codegen`, bindings: type expressions two levels deep over every constructor,
  stubs of up to three lines, surfaces with up to two items of each kind.
- `codegen`, checker: all pairs of types one level deep (and some two deep),
  chains of three operands over nine operators, conditions of up to three
  comparisons, branch bodies of up to two statements.
- `codegen`, effects: three functions, each calling any of the others and itself, with an
  effect of its own or one in a place the walkers skip: two sweeps add something,
  the third notices that nothing changed, in every order of the declarations.
- `codegen`, Python: all typed expressions two levels deep; bodies of up to two
  statements inside each block and each pair of blocks; every declaration and
  every node that pulls in an import. A while loop counts as endless after
  `MaxTurns` 4, which no program of the instance reaches unless it is.
- `codegen`, Datalog: all sequences of up to three of nine rules (left, right and
  nonlinear recursion, negation of a base and of a derived relation, inequality)
  over two graphs on three nodes, queries bound left, right or not at all.
  `Level` 0..2 is enough to stratify two derived relations.
- `codegen`, builds: two builds, one that writes the cache and one that differs
  from it in one way (the source, one that is refused, the module, the prefix, the
  sidecar, the Python version, no cache), for sources with and without externs, in
  every order of their steps, file by file; and each bundle. Three builds over one key
  would be 1.1 M states; the proof covers any number.

### What the properties leave out on purpose

Each of these is a place where the code does not do it, recorded under
[disagreements](#disagreements): `SameOutput` is stated of programs that shadow no name in
an inner block and take no name of Python or the runtime, and of indices that are not
negative; what a function prints when it is called inside an expression is not collected.
`DatalogAnswers` asks for the C answers when the goal is linear (`LinearGoal`) and every
relation has a fact or a rule, says that the C does not compile when one has neither, and
asks for the Python answers when nothing negated is derived. Every rule of the instance
has a positive condition: the C code of a rule with none leaves the round by its
`continue`, past the rules that follow (lower.go:7882, 7935, 7987-7995). The order and the
duplicates of answers, and the table limit of 4096 tuples, are left out. `PyBuildCorrect`
asks for a program's imports in an archive only under the default package prefix; of a
build that copied an entry which was being written, had been given up, or is shared with a
build that the key does not tell apart, it asks only that the output holds files of its
own program, whole or torn. `UnifierCorrect` excepts variables below channels, streams and
futures, which the occurs check skips; `TypesAgree` calls with a `_`, whose result may
keep variables of the callee.

`SYMMETRY` is used in `async_bridge` only, over threads and modules, which no
definition tells apart and which run checks only invariants.

<a id="fairness"></a>
## Fairness

Liveness is stated for `Subproc` and `Effects`; the other systems may always
stop, and a pure function has nothing to wait for.

- `HostFairness`: weak fairness of each goroutine's steps inside Call and of
  the second half of Close. Go's scheduler runs a runnable goroutine. Starting
  a Call or a Close is never forced.
- `FairSpec` adds weak fairness of the worker's loop, user methods included:
  the worker process is scheduled and methods return. It is needed for
  `CallReturns` and `CallReturnsOrClogs`, since Call has no deadline.
- `CloseReleases` is checked without it (`HostFairSpec`): a worker that hangs
  inside a method is the case Close is for.
- `EffectsFairSpec`, and the same for the sweeps in `codegen`: weak fairness of
  the sweeps. Check runs in one goroutine and
  waits for nobody.

Printing and crashing carry no fairness.

<a id="proofs"></a>
## Proofs

Seven modules hold 30 theorems; the lemmas on sequences they share are in `SeqFacts`. A
theorem about a specification has the form `Spec => []Inv` (or an action property, or a
refinement) and holds for every value of the constants that the named assumptions allow:
any number of goroutines, threads, calls, targets, attempts, requests, wheels, listings,
functions, builds and version texts. TLC evaluates every assumption on the instances of
the runs.

| module | theorem | states |
|---|---|---|
| `SubprocProofs` | `TypeCorrect`, `OwnAnswerAlways`, `ExecutedOnceAlways`, `StaysInStep`, `NeverRecovers` | `TypeOK`, `OwnAnswer`, `ExecutedOnce`, `InStep`, `StaysOutOfStep` |
| | `ImplementsRPC` | with `Serial`, Subproc implements `RpcAbs` under `issued <- nextID` |
| `AsyncBridgeProofs` | `ShimsAlwaysAnswer`, `AwaitablesStayObservable`, `LoopsStayConsistent` | `ShimsAnswer`, `SerialObservable`, `LoopsConsistent` |
| `BuildProofs` | `ScratchIsBounded`, `BuildsAreComplete`, `NilVenvsAreExact` | `ScratchBounded`, `DiskComplete`, `NilVenvExact` |
| | `BuildStepsAreSafe` | the action property `BuildSteps` |
| | `LocksAreSound` | `LockSound` |
| `ReleaseProofs` | `SuccessIsComplete`, `FailureLeavesPrefix`, `TokensAreOwn` | `SuccessMeansLive`, `LiveIsPrefix`, `OwnToken` |
| | `VerdictsAreExact`, `StrictnessIsMonotone` | `VerdictExact`, `Tightening` |
| | `ReleaseImplementsPublish`, `ReleaseSuccessIsComplete` | Release implements Publish, so `SuccessMeansLive` carries over |
| | `VerifierAcceptsPublished` | `VerifierMirrorsPublisher` |
| `ResolveProofs` | `CompareIsAnOrder`, `PhasesFollow` | `InOrder` of any three versions, `Phased` of any two |
| | `VersionsAreOrdered` | `VersionOrder` |
| | `IndexIsTrusted` | `IndexLaws` |
| `WheelProofs` | `TheBestWheelIsTaken` | `WheelChoice` |
| `CodegenProofs` | `EffectsAreCovered` | `EffectsCoverCalls` |
| | `EffectsOnlyClimb` | the action property `EffectsClimb` |
| | `PyBuildIsCorrect` | `PyBuildCorrect` |

### Subproc

Assumed: `ConstantsAssumption`. `ImplementsRPC` also assumes `Serial`, because
after a reader race a Call may return anything.

None of the safety properties is inductive: that the frame a call is about to
accept is its own depends on what is in the pipes, that depends on what the
worker was given, and that on ids being unique. `Provenance` follows an id along
this way: ids not handed out have left no trace (`Unissued`); each Call in
progress owns a different id (`Owners`); a request that is not yet written, is
queued, or is being dispatched has not been executed and is in one of these
places only (`FreshUnsent`, `FreshQueue`, `FreshJob`); a result frame anywhere
carries the one execution of its own id (`HonestFrames`), hence so does an
accepted result (`HonestOutcomes`); callers that take turns never race
(`TurnTaking`). `ProvenanceStep` has one step per action of Next; the actions
that Call returns through share `ReturnProvenance`, those that neither execute
nor move a request share `QuietProvenance`. For the refinement each step then
maps to Issue (`TakeID`), Execute (`DispatchRuns`, `DispatchFatal`), Succeed or
Fail (whatever returns), or a stutter; Succeed needs `runs[i] = 1`, which is
`HonestFrames`.

`InTurn` is about callers that take turns. The request of the active call is the
last thing under way (`Turns`). Without printing methods at most one thing is
under way, and it belongs to that call (`OneAtATime`). Once a call has read
another's answer, at least one frame is under way between calls, and at least two
while a request is out, its own answer never the first of them (`Lag`): each call
puts one frame in and takes one out, so the client never catches up.

### AsyncBridge

Assumed: `MaxLoopsAssumption`, `DistinctAssumption` (the model values differ and
are no loop numbers), `ThreadsAssumption` (finitely many threads, so that the
loops still to be created can be counted against `MaxLoops`).

`BridgeInv` has a part for every program: what each program point of a thread
knows (`ThreadInv`), a loop and the thread that runs it know each other
(`OwnerInv`), every thread on its way to create a loop finds one within the bound
(`BoundInv`), the guard's answer comes first (`GuardFirst`). For programs that call
from one thread it adds what interleaving would break: a cached loop about to be
replaced is stale and the one about to be used is not (`SerialThreadInv`),
pending tasks are on the module's loop (`PendInv`), an open loop is cached, about
to be, or private to a call (`OpenInv`), wrappers are bound to the shared loop or
to a closed one (`WrapperInv`). `async_bridge_observable` shows what is lost with
a second thread.

### Build and Lockfile

Assumed: `DirsAssumption` (the names of directories differ, and none is the
number of a scratch directory), `RequestsAssumption` (a request has a sequence of
targets, with comparable names and aliases), `RuntimeDepAssumption` (the runtime
is a package with a hyphen in its name), and the types of the bounds. Nothing is assumed of
stubs, versions or options.

`StepEffect` reduces the steps to three effects on the driver's state: directories
are kept, one is used, the current one is removed. `DriverInv` says which
directories can be on disk and which of them is current: `ScratchBounded` is not
inductive by itself, because a step that takes a new scratch directory must
know that no old one is left. `LastBuild` says that the files after a successful
build are that build's writes on top of whatever was there, and that the same
request would be planned to the same venv again (`AddTwice`: adding targets
twice changes nothing), from which completeness and idempotence follow. The
writes are a concatenation of one sequence per target; that each appears in it
is an induction over the targets. `LockInv` keeps that a checked request still
passes Check against the file as it is, and that the shims of the request last
built are still there. Behind `CheckExact` and `LockVouches` are lemmas on
`Sorted` (it moves every entry to a place of its own, and manifests of the same
entries are sorted alike), on render and parse (optional fields come back), and
on `indexByKey` (without duplicates it finds the entry of a key).

### Publish, Attest, Release

Assumed: `PublishAssumption` (types of the constants) and `FetchAssumption`: a
bundle that decoded has a finite list of subjects with a name and a digest each.

`PublishInv`: before target `at` everything is live and listed (`LoopInv`), and
in the upload phase the token at hand is this attempt's and this registry's
(`TokenInv`). `AttestInv`: a report is what the policy says of what was fetched;
the theorems then are facts about the policy, for any lists and statements: an
endorsed wheel is clean, a stricter policy reports at least as much.

`VerifierAcceptsPublished` says both what the verifier makes of a wheel sent with its
statement and of one UVUploader sent without (`Expected`). It has a hypothesis that no
code checks, `ConformingRelease` (hex digests, pure wheels, one target per distribution);
`MCConforms` has TLC evaluate it on the instance of the run, and the
[disagreements](#disagreements) say what happens without it. The property is stated of
policies that accept what the publisher signs (`TrustsPublisher`). Its invariant adds
`ServedInv`: if the Uploader sends statements a live wheel is served with that of some
run, which lists the subjects of all targets; if it does not, no wheel has any.

### Semver

Assumed for texts, not for versions: `VersionTextsAssumption`. A text is a
sequence of tokens of any length; behind a `+` the words and numbers are those
the model can compare (`LocalTokens`), because the order of words is a table.

A version is any record `IsVersion` allows: release and local label of any
length, any numbers. Compare is a lexicographic order (`Decide`) of six
comparisons, two of which are lexicographic orders of sequences of different
lengths; the lemmas say that `Decide` keeps antisymmetry and transitivity when
each comparison has them as far as the ones before it do not decide
(`DecideFollows`), and that padding to a longer common length changes nothing
(`PaddedDecide`). Words and numbers of local labels are those of the model
(`Rank`, `Atoi`).

`VersionsAreOrdered` carries this to the texts. `ParseIsVersion` follows Parse
through its cuts: what is before the first separator and what is behind it are
texts again (`Positions`, `Pieces`), a keyword is followed by a number
(`NumberBehind`, `CounterType`, `SplitPreType`), and the release and the label
are the parts between their separators. Those come from `Ascending`, the
positions of the separators in order: the k-th has k - 1 below it
(`AscendingLists`) and nothing lies between one and the next (`AscendingGaps`),
so no part has a separator in it (`SplitParts`). `ClauseVersion` does the same for
the clauses of a specifier, with or without blanks, and `MatchCompatibly` compares
what `~=` checks component by component with Compare on padded releases.

### SimpleIndex

Assumed: `ListingsAssumption` (a listing gives a file's digests one per
algorithm, and none is the digest of a body cut short). `IndexInv` keeps that the
project at hand is a listing the index once served (`ProjectListed`), in whichever
format, and that an accepted body has the digests of the chosen file. It says
nothing of the index as it is now: that may have changed since, which is the
point. `FilesAreListed` and `FormatsSame` are the facts about the two parsers: the
second gives the HTML file of an entry as `SeenInHTML` of its JSON file.

### Wheel

Assumed: `WheelNamesAssumption` (names are sequences of the tokens of `TokenOrder`,
listings are sequences of names). Listings may be of any length, in any order and
with duplicates. `TextLess` compares names at their first difference, which
`LessAtDifference` shows of its two cases, a differing token and a name that ends
first, by reading a name as the places of its tokens followed by zeros; hence it is
a strict total order (`TextOrder`), and so is the selector's on the wheels a policy
admits (`RankOrder`). A non-empty list then has an entry nothing goes before
(`SomeoneFirst`, by induction along the list), which is where the stable sort puts
its first element, so the wheel taken is the best of those on offer
(`TakesTheBest`), and there is one best (`OneBest`): the order of the listing does
not enter. The transition policy offers the union of what the other two offer and
gives each wheel the rank they give it (`RankOf`), so its best is the better of
theirs (`WorthIsHighest`). A candidate is its file name: of two with one name and
different URLs the code takes the one listed first, which the model does not tell
apart.

### Effects

Assumed: `FunSetsAssumption` (types). `EffectsInv` holds for programs that declare
no function twice; without that, `effects_redeclared` shows that a sweep takes
effects back. A signature is at most what inferring it again would give
(`NotBeyondInferred`), which together with the monotony of inference makes every
step an addition, and is `EffectsClimb`; it is at most what the function reaches
(`NotBeyondReached`); an annotation stays (`PinnedKept`); and behind the cursor of
a sweep that has changed nothing, inferring changes nothing (`SettledBehind`).
When such a sweep has passed the last statement the signatures are a fixpoint,
and a fixpoint covers all that is reachable: the functions whose signature is
within that of n form a closed set that has n in it (`SettledCovers`).

### PyBuild

Assumed: `JobListsAssumption` (no package takes one of the names an archive keeps for
itself, or that of its externs). `PyBuildInv` has seven parts. A build's record is well
formed and its bundles are those of its job (`Shape`). Every file of an entry, and of an
output directory with one owner, is of a build with the same key, whole or torn
(`FilesKnown`). Who fills an entry, or has filled it, leaves no file of its tree out but
those under a path it still has to visit (`FillsCover`); an entry has a build that writes
it, gave it up or finished it (`EntriesHaveWriters`); and a torn file of an entry has a
build that is at it or gave up (`TornHaveWriters`). So an entry that nobody is writing or
has given up is whole (`QuietEntryIsWhole`), and with `QuietHits` (who copies an entry
with nobody beside it, copies such a one) a directory being written holds all of its
build's tree but what is under the pending paths (`OwnTrees`, `Copied`). That the pending
paths go on covering the tree is a lemma about walks (`WalkCovers`, `WriteCovers`), which
needs that no file of a tree is a directory of it (`NoFileIsDirectory`). The parts have to
speak of every intermediate tree: a second build that begins to write an entry again puts
an open file over a whole one.

### Only model-checked

- Liveness (`CallReturns`, `CallReturnsOrClogs`, `CloseReleases`,
  `EffectsSettle`), which is beyond the prover.
- `ImportLaws`, of which `VersionSpelling` is a part: String writes by concatenation and
  Parse finds the pieces by searching for them; that the search stops at the seams is a
  case split over all positions that was left to TLC.
- `LockExport`, `WheelLaws` (the WebAssembly selector, renaming, scores and audits) and
  the properties of `codegen` other than `PyBuildCorrect` and those of effects. They rest
  on RECURSIVE operators (types, expressions, programs), or on folds, sorting and
  filtering of token sequences, for which the provers have no rules.

Induction itself is within reach where the claim can be given as a set
(`SetInduction` of `SeqFacts`, from the least counterexample); `BuildProofs` uses
it for the concatenation of sequences.

<a id="disagreements"></a>
## What the code does otherwise than its documents

With a run and a finding in PROJECT.json:

- `Client` documents goroutine safety with a read lock held end to end
  (subproc/client.go:10-16); there is none around the read.
- asyncbridge/render.go:36 promises that every shim shares the loop; first calls
  from two threads do not.
- computeDatalogStrata documents that cycles through negation are errors
  (transpiler3/c/lower/lower.go:7436); it stops raising strata after a bounded
  number of passes and accepts what looks stratified then.
- Check documents that "each function climbs monotonically so the loop
  terminates" (types/check.go:486-488); two functions of one name whose bodies
  differ in effects overwrite each other's signature in every sweep, and the loop
  does not end.

Seen while modelling, without a run of its own. Publishing, building, running:

- `PublishRequest.DryRun` documents that minting is exercised
  (publish/request.go:84-86); it is skipped.
- the package comment says that every artifact gets an attestation envelope,
  with "the actual Sigstore signing [...] produced by uv at publish time"
  (publish/doc.go:15-20, uploader.go:14-18); `UVUploader.Upload` passes `uv` the
  two paths and the token and never the statement, so the registry serves none and
  a policy that requires attestations rejects what Mochi published;
- `publish` documents base64 digests in the statement (publish/request.go:54-56);
  `attest` compares with hex (attest/policy.go:10): with `HashForm = "b64"`
  `VerifierMirrorsPublisher` fails.
- mep-0071.md:209 says wrapper-sha256 hashes the Python wrapper; it hashes the
  Mochi shim, so switching the loop mode passes the lock check.
- a dry run given a `UVUploader` uploads (publish/orchestrator.go:49);
- `distFilename` names every wheel py3-none-any, so platform wheels are no
  subjects of their own statement: with another `TagOf`, `VerifierMirrorsPublisher` fails;
- `Driver.Cleanup` removes a caller's directory whose name begins with
  mochi-python-, under the comment "Don't remove a directory we didn't create";
  `BuildSteps` is stated of other names;
- a failed Plan leaves the caller's Venv changed; `NilVenvExact` is stated of a
  nil Venv for this reason;
- SKIPPED.txt, documented as written "only when wrapper had skipped items"
  (build/orchestrator.go:139), survives a rebuild that skips nothing;
- two imports of one package under two aliases: the second requirement replaces
  the first;
- the orchestrator writes `_mochi_wrap.py` at the workspace root, wrappers import
  it from their own package, and wrapper/runtime.go:4-6 names a third place, so
  a rendered wrapper cannot be imported from the written tree; AsyncBridge runs
  wrappers as if the import resolved;
- PEP 503 names with a hyphen are no Python identifiers and cannot be wrapped;
- of duplicate tables in a lock file only the last one is compared;
- the persistent loop is one per rendered module, documented as process-global
  (asyncbridge/mode.go:16);
- a wrapper binds its loop at import: when the program closes that loop every
  shim of the wrapper fails from then on;
- the Python worker ends when a result cannot be encoded; the two workers treat
  an empty method differently;
- the client of `simple` documents retries (simple/client.go:48-50), makes none;

Resolving:

- semver/version.go:32 promises a byte-for-byte round trip; `0!1` and `+a-b` come
  back spelled differently;
- `~=` accepts a version of another epoch, and refuses `2` for `~=2.0.0`, which
  Compare calls equal to `2.0.0` (semver/specifier.go:166, specifier_test.go:161);
- `Spec.String` (importspec/spec.go:72-74) is no inverse for a distribution called
  `git` or `path`;
- Verify documents that one matching hash is enough (simple/verify.go:22) and asks
  for all; ParseHTML documents that it rejects a yanked attribute without a value
  (simple/html.go:24-25) and takes it for a yank without a reason;
- an index that announces a metadata file as `dist-info-metadata`, its old spelling,
  is understood in HTML (simple/html.go:126-134, simple/html_test.go:96-117) and not in
  JSON (simple/json.go:49); HTML trims the reason of a yank, JSON keeps it; any value
  of the HTML attribute counts, `false` among them. `FormatsAgree` names the first
  two; values of the attribute are not modelled;
- a pylock.toml with one file without hashes cannot be read back (uv/pylock.go:317),
  and the TOML reader refuses `dependencies = []`;
- `freethread` scores a wheel `Compatible` refuses on a GIL target, and can never score
  abi3 or abi2026 tags, though `Compatible` takes abi3 for pure (abi.go:72-78); its audit
  does not look at the file's suffix; RenderLockShim documents a body that branches on the
  interpreter at import (freethread/lock.go:73-76); the branch is taken when it is
  rendered;
- `abi3` accepts names of four fields, `abi2026` and `pyodide` need five;
- WITWorld documents that records may share a name when their fields match
  (pyodide/wit.go:152-154); every second record of a name is refused.

Binding and packaging:

- `Render` of `int | string?` is ambiguous, and Union[int, Optional[str]] is not
  normalised; fields of a Protocol and methods of a record are neither mapped nor
  reported; any `frozen=True` after the word dataclass makes a record
  (typemap/class.go:221-229);
- overloads, and a function `f_sync` next to an async `f`, define a name twice;
  keyword-only parameters are passed by position; a `_sync` wrapper is annotated
  as awaitable;
- wrapper/synth.go:19-22 says the wrapper is silent on names that begin with an
  underscore; the code reports each as PrivateName (synth.go:42-49, 74-81, 104-111),
  and `EveryItemAccounted` holds it to that;
- `qualify` (wrapper/synth.go:164-172) leaves a path alone that begins with the
  package's name, even when a class of that name is meant: such a class is reported
  as the package, its members like the package's own names. `EveryItemAccounted`
  then promises no less than one item or report for each name;
- pypackage/render.go:403-405 says METADATA has no hash in RECORD; it has one
  (wheel.go:35-59), and `RecordComplete` asks for it. Only RECORD's own row is empty;
- stubs/discovery.go:58-61 documents Partial for every source; the marker of a
  `-stubs` package is not read;
  docstring lines are read as code; members of a nested class leak to the outer one;
- pypackage/package.go:102-104 documents a valid Python import, which a
  distribution that begins with a digit does not get; a module called `mochi_build`
  is overwritten; `Any` is used without import; `__init__` imports a
  `.mochi_runtime` that is in no layout.

The checker:

- types/subst.go:10-11 promises an occurs check, which skips channels, streams and
  futures: T is bound to chan<T> and Apply does not return;
- Unify accepts two anonymous structs with different fields and never accepts
  value against value; the older unifier knows neither sets nor ordered maps;
  equalKinds has no case for futures;
- subtype.go calls maps and channels invariant, assignableAt is covariant; any still
  flows through `return`;
- `any + x` is a string to the checker, list + string a string to the checker and
  a list to the inferrer; the inferrer has no level for `??` and puts set operators
  below `||`;
- a generic function called with the caller's own type variable is refused (T048);
- in a call with a `_` the arguments given bind no type parameter of the callee
  (check_expr.go:724-752), so the function it returns takes anything for the rest;
- narrowings survive an assignment of a literal none, impure calls outside the
  leftmost operand, functions that only assign, and nested bodies; the effects
  walker skips literals of lists, maps and structs, if, match and query
  expressions, and try.

The Python target:

- comments at lower.go:699-717 and 747-751 and query.py:3-8 say builtins are never
  emitted bare; `sorted`, `len`, `int`, `list`, `filter`, `map` and `set` are, so that a
  user's `let sorted = ...` breaks the module (lower.go:911);
- a call of a user's function is refused when it stands as a statement: the middle
  end calls it `mochi__f` (c/lower/lower.go:1124-1127), which lowerCallStmt takes for
  an unknown builtin (lower.go:417-419), above a branch commented "User function call as
  a statement" (lower.go:420) that no verified program reaches; as a value, `let _ = f(1)`,
  the same call is lowered;
- lowerRecordDecl, lowerUnionDecl and lowerAgentDecl do not pass the element type of a
  field on (lower.go:207, 231, agent.go:40): a list field would be printed as `k: `, which is
  no Python (pysrc/nodes.go:192-194). It takes a middle end that lets such a field
  through: aotir.Verify refuses it in a record (c/aotir/verifier.go:66-76), the C lowerer
  in a variant or an agent (c/lower/lower.go:147, 663). `EmittedModule` is stated of
  verified programs, whose fields are scalars;
- a `let` in an inner block is flattened into the function and overwrites the outer
  one; Python keywords are emitted as names; a negative index wraps around;
  a KeyError is not caught; 1.0 is printed as 1;
- the externs import is hard-coded to `mochi_user_` (lower.go:186) while
  build.go:182-184 names it after the package; the cache key leaves out the module's
  name, the prefix and the sidecar; a half-written cache entry is copied and
  reported as success, and copyTree of build.go:358 has no way to tell;
- the kernel takes apart methods called main too, and leaves a `return` of main at
  module level;
- datalog.go calls its evaluation semi-naive and lossless; it is naive, knows no
  strata, and with negation over a derived relation depends on the order of rules;
- a relation that is read but has neither facts nor rules is empty for the Python
  target, while the C code loops over an array nothing declares
  (`transpiler3/c/lower/lower.go:7728-7768` against 7820, 7902 and 8015), and no pass
  before refuses the program;
- the magic-set transform loses answers for nonlinear recursion and for relations
  that read the goal's, which the Python target, evaluating the untransformed
  program, keeps.

<a id="not-modelled"></a>
## Not modelled

- The parser, the AST printer and diagnostics: a grammar and the layout of
  messages, without state.
- The lowering from the parsed tree to the intermediate form
  (`transpiler3/c/lower`, except Datalog and scopes) and its verifier: one case per
  syntax node, whose C fragments only mean something to a C compiler.
- The statement walk of `types/check.go`, builtin signatures and query typing.
- Of `runtime/python`: streams, cassettes, fetches, the kernel's history.
- Text: rendering beyond what a file depends on, lexing of strings and numbers,
  WIT type text, message wording, the bytes and times inside archives.
- In modelled parts: members a caller adds to its Venv itself, the location of
  the wheel cache, the location fields of a lock entry, cryptographic signing
  (uv's and the registry's), partial writes of a single file by `os.WriteFile`,
  a missing runtime directory of the Python build driver, the uv process itself.

<a id="plan"></a>
## Plan

Done, in this order: `Subproc`, `RpcAbs`, `SubprocProofs`; `Publish`, `Attest`,
`Release`; `AsyncBridge`; `Build`, `Lockfile`; the packages of `resolve`; the
binding generator; the checker; the Python target with Datalog and its build
driver.

Next modules:

1. The streams of `runtime/python` (subscribers and their cursors) and the
   history of the notebook kernel, as a state machine over cells.
2. `simple` composed with `Attest` into an installer that fetches, verifies and
   judges.
3. The statement walk of `types/check.go` on the programs of `MCCodegen`, so that
   `SameOutput` is stated of what the checker accepts.

Proved, in this order: `Subproc` and its refinement of `RpcAbs`; `Publish`,
`Attest`, `Release`; `AsyncBridge`; `Build` and `Lockfile`; the order of versions;
the simple-index client; the sweeps of `Effects`; `PyBuild`; Parse and Match; the
wheel selector.

Next theorems:

- `Semver`: `CanonicalText`, that Parse reads back what String writes;
- `Pyodide`: the WebAssembly selector, along the argument of `WheelProofs`; it needs
  that `Number`, a fold over digits, returns a number;
- `Wheel`: `PromotionChain`, which needs `Split` of a concatenation.
