---------------------------- MODULE AsyncBridge ----------------------------
(***************************************************************************)
(* The generated Python that drives imported `async def`s from synchronous *)
(* code.  Two renderers produce it: asyncbridge/render.go (Module.Render:  *)
(* guard, cached loop, one shim per function) and wrapper/render.go        *)
(* (renderPy: no guard, the loop bound when the module is imported).  The  *)
(* module executes what they render: threads of one interpreter call shims *)
(* at top level or from inside a running loop, and may be switched between *)
(* any two global reads and writes, with the GIL or without.               *)
(*                                                                         *)
(* asyncio itself (new_event_loop, run_until_complete, asyncio.run, close) *)
(* is external: modelled as the rendered code uses it.                     *)
(***************************************************************************)
EXTENDS Naturals, FiniteSets, Functions

CONSTANTS Threads,  \* the interpreter's threads
          Modules,  \* the rendered modules
          MaxLoops, \* bound on the event loops ever created
          None, Shared, Host

ASSUME MaxLoopsAssumption == MaxLoops \in Nat
ASSUME DistinctAssumption ==
  /\ Shared \notin Modules /\ None # Host
  /\ None \notin Modules \cup Threads \cup 1..MaxLoops /\ Host \notin 1..MaxLoops
\* An interpreter has finitely many threads.
ASSUME ThreadsAssumption == IsFiniteSet(Threads)

VARIABLES
  kind,    \* module |-> its renderer, fixed
  mode,    \* module |-> PerCall or Persistent, fixed
  users,   \* the threads this program calls shims from, fixed
  glob,    \* the cached loop: _MOCHI_LOOP of each bridge module, and
           \* _PERSISTENT_LOOP of _mochi_wrap (Shared) for all wrappers
  bound,   \* wrapper module |-> the loop its _MOCHI_LOOP was bound to
  nloops,  \* loops 1..nloops have been created
  closed,  \* the closed ones
  owner,   \* loop |-> the thread inside its run_until_complete
  running, \* thread |-> asyncio.get_running_loop() on that thread
  pc, at, got, \* thread |-> program point, module called, loop in hand
  last,    \* thread |-> how its last shim call ended
  pend     \* module |-> loops holding tasks its calls left behind

fixed == <<kind, mode, users>>
loops == <<nloops, closed, owner, running>>
vars == <<fixed, glob, bound, loops, pc, at, got, last, pend>>

PerCall == "per-call"
Persistent == "persistent"
Loop == 1..MaxLoops
IsBridge(m) == kind[m] = "asyncbridge"
Open(l) == l \in 1..nloops /\ l \notin closed
NoCall == [mod |-> None, res |-> "none", coro |-> FALSE]

Init ==
  /\ kind \in [Modules -> {"asyncbridge", "wrapper"}]
  /\ mode \in [Modules -> {PerCall, Persistent}]
  /\ users \in SUBSET Threads \ {{}}
  /\ glob = [g \in Modules \cup {Shared} |-> None]
  /\ bound = [m \in Modules |-> None]
  /\ nloops = 0 /\ closed = {}
  /\ owner = [l \in Loop |-> None]
  /\ running = [t \in Threads |-> None]
  /\ pc = [t \in Threads |-> "idle"]
  /\ at = [t \in Threads |-> None]
  /\ got = [t \in Threads |-> None]
  /\ last = [t \in Threads |-> NoCall]
  /\ pend = [m \in Modules |-> {}]

Goto(t, l) == pc' = [pc EXCEPT ![t] = l]
\* A shim call of m on thread t ends: coro says whether f(args) was built.
Ends(t, m, res, coro) ==
  last' = [last EXCEPT ![t] = [mod |-> m, res |-> res, coro |-> coro]]

-----------------------------------------------------------------------------
(* asyncio, as the rendered code uses it.                                  *)

\* asyncio.new_event_loop()
NewLoop == nloops' = nloops + 1

\* The bound: a call or an import starts only while MaxLoops leaves it a loop
\* to create, so none is stuck half-way for want of one.
Reserved == {t \in Threads : pc[t] \in {"check", "create"}}
WithinBound == nloops + Cardinality(Reserved) < MaxLoops

\* The loop l starts running on t: it marks itself and its thread.
StartsOn(t, l) ==
  /\ owner' = [owner EXCEPT ![l] = t]
  /\ running' = [running EXCEPT ![t] = l]

\* loop.run_until_complete(coro) on a thread with no running loop: a closed
\* loop, or one another thread is running, refuses the coroutine.
RunUntilComplete(t, l) ==
  \/ /\ l \in closed
     /\ Ends(t, at[t], "closed", TRUE) /\ Goto(t, "idle")
     /\ UNCHANGED loops
  \/ /\ l \notin closed /\ owner[l] # None
     /\ Ends(t, at[t], "busy", TRUE) /\ Goto(t, "idle")
     /\ UNCHANGED loops
  \/ /\ l \notin closed /\ owner[l] = None
     /\ StartsOn(t, l) /\ Goto(t, "body")
     /\ UNCHANGED <<nloops, closed, last>>

\* asyncio.run(coro) on a thread with no running loop: a private loop.
AsyncioRun(t) ==
  /\ NewLoop
  /\ StartsOn(t, nloops + 1) /\ Goto(t, "body")
  /\ UNCHANGED <<closed, last>>

-----------------------------------------------------------------------------
(* Shims.                                                                  *)

\* The rendered shim called at top level: an idle thread runs no loop, so the
\* guard lets it through to the driver.
CallShim(t, m) ==
  /\ pc[t] = "idle" /\ t \in users /\ WithinBound
  /\ kind[m] = "wrapper" /\ mode[m] = Persistent => bound[m] # None
  /\ at' = [at EXCEPT ![t] = m]
  /\ \/ /\ mode[m] = PerCall
        /\ AsyncioRun(t)
        /\ UNCHANGED got
     \/ /\ mode[m] = Persistent /\ IsBridge(m)
        /\ Goto(t, "check")
        /\ UNCHANGED <<got, loops, last>>
     \/ /\ mode[m] = Persistent /\ ~IsBridge(m)
        /\ got' = [got EXCEPT ![t] = bound[m]]
        /\ Goto(t, "drive")
        /\ UNCHANGED <<loops, last>>
  /\ UNCHANGED <<fixed, glob, bound, pend>>

\* What a shim answers on a thread that is running a loop: the bridge's guard
\* raises MochiAsyncReentryError before f(args) is evaluated, a wrapper's
\* driver raises asyncio's RuntimeError after.
NestedAnswer(m) ==
  IF IsBridge(m) THEN [mod |-> m, res |-> "reentry", coro |-> FALSE]
                 ELSE [mod |-> m, res |-> "nested", coro |-> TRUE]

\* A shim called from a coroutine or a callback of a loop running on t.
NestedCall(t, m) ==
  /\ pc[t] \in {"body", "host"} /\ t \in users
  /\ kind[m] = "wrapper" /\ mode[m] = Persistent => bound[m] # None
  /\ last' = [last EXCEPT ![t] = NestedAnswer(m)]
  /\ UNCHANGED <<fixed, glob, bound, loops, pc, at, got, pend>>

-----------------------------------------------------------------------------
(* The cached loop: _mochi_get_loop of a bridge module, called by every    *)
(* shim, and _persistent_loop of _mochi_wrap, called by a wrapper's import.*)

Slot(m) == IF IsBridge(m) THEN m ELSE Shared

\* The last line of a persistent wrapper: _MOCHI_LOOP = _persistent_loop().
\* The import lock admits one importer of a module.
ImportWrapper(t, m) ==
  /\ pc[t] = "idle" /\ t \in users /\ WithinBound
  /\ ~IsBridge(m) /\ mode[m] = Persistent /\ bound[m] = None
  /\ \A u \in Threads : pc[u] \in {"check", "create", "store", "return"} => at[u] # m
  /\ at' = [at EXCEPT ![t] = m]
  /\ Goto(t, "check")
  /\ UNCHANGED <<fixed, glob, bound, loops, got, last, pend>>

\* Mutant: the cache check without is_closed().
StaleNoneOnly(l) == l = None
\* Mutant: the cache never used.
StaleAlways(l) == TRUE

Stale(l) == l = None \/ l \in closed

\* if LOOP is None or LOOP.is_closed():
GetterCheck(t) ==
  /\ pc[t] = "check"
  /\ Goto(t, IF Stale(glob[Slot(at[t])]) THEN "create" ELSE "return")
  /\ UNCHANGED <<fixed, glob, bound, loops, at, got, last, pend>>

\* asyncio.new_event_loop(), not yet stored
GetterCreate(t) ==
  /\ pc[t] = "create"
  /\ NewLoop
  /\ got' = [got EXCEPT ![t] = nloops + 1]
  /\ Goto(t, "store")
  /\ UNCHANGED <<fixed, glob, bound, closed, owner, running, at, last, pend>>

\* LOOP = the new loop
GetterStore(t) ==
  /\ pc[t] = "store"
  /\ glob' = [glob EXCEPT ![Slot(at[t])] = got[t]]
  /\ Goto(t, "return")
  /\ UNCHANGED <<fixed, bound, loops, at, got, last, pend>>

\* return LOOP, read again: to the shim's driver, or to the import's binding
GetterReturn(t) ==
  /\ pc[t] = "return"
  /\ LET l == glob[Slot(at[t])]
     IN IF IsBridge(at[t])
        THEN /\ got' = [got EXCEPT ![t] = l]
             /\ Goto(t, "drive")
             /\ UNCHANGED bound
        ELSE /\ bound' = [bound EXCEPT ![at[t]] = l]
             /\ Goto(t, "idle")
             /\ UNCHANGED got
  /\ UNCHANGED <<fixed, glob, loops, at, last, pend>>

\* <loop>.run_until_complete(f(args))
Drive(t) ==
  /\ pc[t] = "drive"
  /\ RunUntilComplete(t, got[t])
  /\ UNCHANGED <<fixed, glob, bound, at, got, pend>>

-----------------------------------------------------------------------------
(* The imported coroutine and the host program.                            *)

\* The coroutine schedules a task that is still pending when it returns.
LeaveTask(t) ==
  /\ pc[t] = "body"
  /\ pend' = [pend EXCEPT ![at[t]] = @ \cup {running[t]}]
  /\ UNCHANGED <<fixed, glob, bound, loops, pc, at, got, last>>

\* The coroutine returns or raises.  asyncio.run cancels what is pending on
\* its loop and closes it; run_until_complete leaves the loop as it is.
Complete(t) ==
  /\ pc[t] = "body"
  /\ \E res \in {"ok", "raised"} : Ends(t, at[t], res, TRUE)
  /\ owner' = [owner EXCEPT ![running[t]] = None]
  /\ running' = [running EXCEPT ![t] = None]
  /\ IF mode[at[t]] = PerCall
     THEN /\ closed' = closed \cup {running[t]}
          /\ pend' = [pend EXCEPT ![at[t]] = @ \ {running[t]}]
     ELSE UNCHANGED <<closed, pend>>
  /\ Goto(t, "idle")
  /\ UNCHANGED <<fixed, glob, bound, nloops, at, got>>

\* The program runs a loop of its own on t and calls shims from it.
HostEnter(t) ==
  /\ pc[t] = "idle" /\ t \in users
  /\ running' = [running EXCEPT ![t] = Host]
  /\ Goto(t, "host")
  /\ UNCHANGED <<fixed, glob, bound, nloops, closed, owner, at, got, last, pend>>

HostLeave(t) ==
  /\ pc[t] = "host"
  /\ running' = [running EXCEPT ![t] = None]
  /\ Goto(t, "idle")
  /\ UNCHANGED <<fixed, glob, bound, nloops, closed, owner, at, got, last, pend>>

\* The program closes a loop it got hold of (close refuses a running one);
\* the tasks pending on it are gone.
HostClose(t) ==
  /\ pc[t] \in {"idle", "host"} /\ t \in users
  /\ \E l \in {k \in 1..nloops : k \notin closed /\ owner[k] = None} :
       /\ l \in Range(glob) \cup Range(bound)
       /\ closed' = closed \cup {l}
       /\ pend' = [m \in Modules |-> pend[m] \ {l}]
  /\ UNCHANGED <<fixed, glob, bound, nloops, owner, running, pc, at, got, last>>

Next ==
  \E t \in Threads :
    \/ \E m \in Modules : CallShim(t, m) \/ NestedCall(t, m) \/ ImportWrapper(t, m)
    \/ GetterCheck(t) \/ GetterCreate(t) \/ GetterStore(t) \/ GetterReturn(t)
    \/ Drive(t) \/ LeaveTask(t) \/ Complete(t)
    \/ HostEnter(t) \/ HostLeave(t) \/ HostClose(t)

Spec == Init /\ [][Next]_vars

-----------------------------------------------------------------------------
(* Properties.                                                             *)

\* The program calls shims from one thread only.
Serial == Cardinality(users) = 1

\* Types, and: a loop in hand when driving, a loop running on a thread inside
\* a coroutine, and each running loop known to exactly the thread it runs on.
TypeOK ==
  /\ glob \in [Modules \cup {Shared} -> Loop \cup {None}]
  /\ bound \in [Modules -> Loop \cup {None}]
  /\ nloops \in 0..MaxLoops /\ closed \subseteq 1..nloops
  /\ owner \in [Loop -> Threads \cup {None}]
  /\ running \in [Threads -> Loop \cup {None, Host}]
  /\ pend \in [Modules -> SUBSET Loop]
  /\ \A t \in Threads :
       /\ pc[t] = "drive" => got[t] \in 1..nloops
       /\ pc[t] = "body" => running[t] \in 1..nloops
  /\ \A l \in Loop, t \in Threads : owner[l] = t <=> running[t] = l

\* A bridge shim called from inside a running loop raises
\* MochiAsyncReentryError, never asyncio's own RuntimeError, and raises it
\* before the coroutine exists, so nothing is left un-awaited.
GuardFirst ==
  \A t \in Threads : last[t].mod # None /\ IsBridge(last[t].mod) =>
    /\ last[t].res # "nested"
    /\ last[t].res = "reentry" => ~last[t].coro

\* A single-threaded program is never refused a loop by a bridge shim: not
\* when the cached loop was closed under it, not after a call that raised,
\* not after a refused nested call.
SerialAlwaysDriven ==
  Serial => \A t \in Threads :
    last[t].mod # None /\ IsBridge(last[t].mod) => last[t].res \notin {"closed", "busy"}

\* render.go:36: "every shim shares the loop so that awaitables scheduled by
\* one call can be observed by the next": a persistent call runs on the loop
\* that holds every task its module's earlier calls left pending.
AwaitablesObservable ==
  \A t \in Threads : pc[t] = "body" /\ mode[at[t]] = Persistent =>
    pend[at[t]] \subseteq {running[t]}

\* The same, promised to single-threaded programs only.
SerialObservable == Serial => AwaitablesObservable

\* Between calls a single-threaded program has no loop open that it cannot
\* reach: every per-call loop was closed, whether its coroutine returned or
\* raised, and no cached loop was replaced while it was open.
NoStrayLoop ==
  Serial /\ (\A t \in Threads : pc[t] = "idle") =>
    \A l \in 1..nloops : Open(l) => l \in Range(glob)

\* wrapper/runtime.go:42: the wrappers of a single-threaded program share one
\* process-global loop: two of them are never bound to two open loops.
OneWrapperLoop ==
  Serial => \A m, n \in Modules :
    bound[m] # None /\ bound[n] # None /\ Open(bound[m]) /\ Open(bound[n])
      => bound[m] = bound[n]

\* What a bridge shim answers: its own error before a coroutine exists, and in
\* a single-threaded program never a refusal.
ShimsAnswer == GuardFirst /\ SerialAlwaysDriven

\* Loops are where the state says they are, and none is lost.
LoopsConsistent == TypeOK /\ NoStrayLoop /\ OneWrapperLoop
=============================================================================
