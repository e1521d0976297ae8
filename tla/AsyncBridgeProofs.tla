------------------------- MODULE AsyncBridgeProofs -------------------------
(***************************************************************************)
(* Proofs about AsyncBridge, for every set of threads and modules and any  *)
(* number of loops: the loop bookkeeping under arbitrary thread switches,  *)
(* and what the shims promise a program that calls them from one thread.   *)
(***************************************************************************)
EXTENDS AsyncBridge, FiniteSetTheorems, TLAPS

Getter == {"check", "create", "store", "return"}
Known == 1..nloops
\* The loop a persistent module's calls are driven on.
LoopOf(m) == IF IsBridge(m) THEN glob[m] ELSE bound[m]

\* The ranges of the variables; a loop that is cached, bound or in hand exists.
Types ==
  /\ kind \in [Modules -> {"asyncbridge", "wrapper"}]
  /\ mode \in [Modules -> {PerCall, Persistent}]
  /\ users \in SUBSET Threads
  /\ nloops \in 0..MaxLoops /\ closed \subseteq Known
  /\ glob \in [Modules \cup {Shared} -> Known \cup {None}]
  /\ bound \in [Modules -> Known \cup {None}]
  /\ owner \in [Loop -> Threads \cup {None}]
  /\ running \in [Threads -> Known \cup {None, Host}]
  /\ pc \in [Threads -> Getter \cup {"idle", "drive", "body", "host"}]
  /\ at \in [Threads -> Modules \cup {None}]
  /\ got \in [Threads -> Known \cup {None}]
  /\ last \in [Threads -> [mod : Modules \cup {None}, coro : BOOLEAN,
                           res : {"none", "closed", "busy", "ok", "raised", "reentry", "nested"}]]
  /\ pend \in [Modules -> SUBSET Loop]

\* What a thread's program point says of the module and the loop it has in hand.
ThreadInv(t) ==
  /\ pc[t] # "idle" => t \in users
  /\ pc[t] \notin {"idle", "host"} => at[t] \in Modules
  /\ pc[t] \in Getter \cup {"drive"} => mode[at[t]] = Persistent
  /\ pc[t] \in {"store", "drive"} => got[t] # None
  /\ pc[t] = "return" => glob[Slot(at[t])] # None
  /\ pc[t] = "body" <=> running[t] \in Known
  /\ pc[t] = "body" => running[t] \notin closed
  /\ pc[t] = "host" <=> running[t] = Host

\* A loop knows the thread that runs it and the thread knows the loop.
OwnerInv == \A l \in Loop, t \in Threads : owner[l] = t <=> running[t] = l

\* Every thread on its way to create a loop finds one within the bound.
BoundInv == nloops + Cardinality(Reserved) <= MaxLoops

\* A thread of a single-threaded program: the cached loop it is about to replace
\* is stale, the one it is about to use is not, a persistent call runs on its
\* module's loop and a per-call one on a loop nobody else can reach.
SerialThreadInv(t) ==
  /\ pc[t] \in {"create", "store"} => Stale(glob[Slot(at[t])])
  /\ pc[t] = "store" => got[t] \notin closed
  /\ pc[t] = "return" => glob[Slot(at[t])] \notin closed
  /\ pc[t] \in Getter /\ ~IsBridge(at[t]) => bound[at[t]] = None
  /\ pc[t] = "drive" => got[t] = LoopOf(at[t]) /\ (IsBridge(at[t]) => got[t] \notin closed)
  /\ pc[t] = "body" /\ mode[at[t]] = Persistent => running[t] = LoopOf(at[t])
  /\ pc[t] = "body" /\ mode[at[t]] = PerCall =>
       /\ \A g \in Modules \cup {Shared} : glob[g] # running[t]
       /\ \A m \in Modules : bound[m] # running[t]

\* What is pending for a persistent module is pending on its loop, and gone
\* once that loop is closed.
PendInv ==
  \A m \in Modules : mode[m] = Persistent => pend[m] \subseteq {LoopOf(m)} /\ pend[m] \cap closed = {}

\* Every open loop is cached, about to be, or private to a running call.
OpenInv ==
  \A l \in Known : l \notin closed =>
    \/ \E g \in Modules \cup {Shared} : glob[g] = l
    \/ \E t \in Threads : pc[t] = "store" /\ got[t] = l
    \/ \E t \in Threads : pc[t] = "body" /\ mode[at[t]] = PerCall /\ running[t] = l

\* A wrapper is bound to the shared loop or to one that was closed.
WrapperInv ==
  \A m \in Modules : bound[m] # None => bound[m] \in closed \/ bound[m] = glob[Shared]

Driven(t) ==
  last[t].mod # None /\ IsBridge(last[t].mod) => last[t].res \notin {"closed", "busy"}

SerialInv ==
  /\ \A t \in Threads : SerialThreadInv(t) /\ Driven(t)
  /\ PendInv /\ OpenInv /\ WrapperInv

\* The invariant of every program, and the one of single-threaded programs.
LoopInv == Types /\ (\A t \in Threads : ThreadInv(t)) /\ OwnerInv /\ BoundInv /\ GuardFirst

BridgeInv == LoopInv /\ (Serial => SerialInv)

----------------------------------------------------------------------------
\* How the set of threads about to create a loop changes with one program point.
LEMMA ReservedSize ==
  ASSUME NEW t \in Threads, pc = [u \in Threads |-> pc[u]], NEW p,
         pc' = [pc EXCEPT ![t] = p]
  PROVE  /\ Cardinality(Reserved) \in Nat /\ Cardinality(Reserved') \in Nat
         /\ pc[t] \in {"check", "create"} => Cardinality(Reserved) > 0
         /\ (pc[t] \in {"check", "create"} <=> p \in {"check", "create"}) =>
              Cardinality(Reserved') = Cardinality(Reserved)
         /\ pc[t] \notin {"check", "create"} /\ p \in {"check", "create"} =>
              Cardinality(Reserved') = Cardinality(Reserved) + 1
         /\ pc[t] \in {"check", "create"} /\ p \notin {"check", "create"} =>
              Cardinality(Reserved') = Cardinality(Reserved) - 1
PROOF
  <1> DEFINE R == Reserved
             S == Reserved'
  <1>1. R \in SUBSET Threads /\ S \in SUBSET Threads
    BY DEF Reserved
  <1>2. /\ \A u \in Threads : u \in R <=> pc[u] \in {"check", "create"}
        /\ \A u \in Threads : u \in S <=> pc'[u] \in {"check", "create"}
    BY DEF Reserved
  <1> HIDE DEF R, S
  <1>3. IsFiniteSet(R) /\ IsFiniteSet(S)
    BY <1>1, ThreadsAssumption, FS_Subset
  <1>4. Cardinality(R) \in Nat /\ Cardinality(S) \in Nat
    BY <1>3, FS_CardinalityType
  <1>5. \A u \in Threads : pc'[u] = IF u = t THEN p ELSE pc[u]
    OBVIOUS
  <1>6. S \cup {t} = R \cup {t} /\ S \ {t} = R \ {t}
    BY <1>1, <1>2, <1>5
  <1>7. /\ (t \in R <=> pc[t] \in {"check", "create"})
        /\ (t \in S <=> p \in {"check", "create"})
    BY <1>2, <1>5
  <1>8. /\ Cardinality(R \ {t}) = IF t \in R THEN Cardinality(R) - 1 ELSE Cardinality(R)
        /\ Cardinality(S \ {t}) = IF t \in S THEN Cardinality(S) - 1 ELSE Cardinality(S)
        /\ Cardinality(R \ {t}) \in Nat
    BY <1>3, FS_RemoveElement, FS_CardinalityType
  <1>9. Cardinality(S \ {t}) = Cardinality(R \ {t})
    BY <1>6
  <1>10. /\ Cardinality(R) \in Nat /\ Cardinality(S) \in Nat
         /\ t \in R => Cardinality(R) > 0
         /\ (t \in R <=> t \in S) => Cardinality(S) = Cardinality(R)
         /\ t \notin R /\ t \in S => Cardinality(S) = Cardinality(R) + 1
         /\ t \in R /\ t \notin S => Cardinality(S) = Cardinality(R) - 1
    BY <1>4, <1>8, <1>9
  <1> QED BY <1>7, <1>10 DEF R, S

\* A thread starts towards a loop only within the bound, so a loop it creates
\* is within the bound, too.
LEMMA BoundStep ==
  ASSUME Types, BoundInv, NEW t \in Threads, NEW p, pc' = [pc EXCEPT ![t] = p],
         \/ nloops' = nloops /\ p \notin {"check", "create"}
         \/ nloops' = nloops /\ (pc[t] \in {"check", "create"} \/ WithinBound)
         \/ /\ nloops' = nloops + 1 /\ p \notin {"check", "create"}
            /\ pc[t] \in {"check", "create"} \/ WithinBound
  PROVE  BoundInv' /\ nloops' \in 0..MaxLoops
PROOF
  <1>1. pc = [u \in Threads |-> pc[u]]
    BY DEF Types
  <1>2. nloops \in Nat /\ MaxLoops \in Nat
    BY MaxLoopsAssumption DEF Types
  <1> DEFINE c == Cardinality(Reserved)
             d == Cardinality(Reserved')
  <1>3. /\ c \in Nat /\ d \in Nat
        /\ pc[t] \in {"check", "create"} => c > 0
        /\ (pc[t] \in {"check", "create"} <=> p \in {"check", "create"}) => d = c
        /\ pc[t] \notin {"check", "create"} /\ p \in {"check", "create"} => d = c + 1
        /\ pc[t] \in {"check", "create"} /\ p \notin {"check", "create"} => d = c - 1
    BY <1>1, ReservedSize
  <1>4. nloops + c <= MaxLoops /\ (WithinBound <=> nloops + c < MaxLoops)
    BY DEF BoundInv, WithinBound
  <1>5. BoundInv' <=> nloops' + d <= MaxLoops
    BY DEF BoundInv
  <1> HIDE DEF c, d
  <1> QED BY <1>2, <1>3, <1>4, <1>5

\* The one thread of a single-threaded program.
LEMMA SerialUser ==
  ASSUME Types, \A t \in Threads : ThreadInv(t), Serial, NEW t \in Threads, pc[t] # "idle" \/ t \in users
  PROVE  users = {t} /\ \A u \in Threads : u # t => pc[u] = "idle"
PROOF
  <1>1. IsFiniteSet(users)
    BY ThreadsAssumption, FS_Subset DEF Types
  <1>2. PICK u : users = {u}
    BY <1>1, FS_Singleton DEF Serial
  <1>3. t \in users
    BY DEF ThreadInv
  <1> QED BY <1>2, <1>3 DEF ThreadInv

----------------------------------------------------------------------------
LEMMA BridgeInvInit == Init => BridgeInv
PROOF
  <1> SUFFICES ASSUME Init PROVE BridgeInv
    OBVIOUS
  <1> USE MaxLoopsAssumption, DistinctAssumption DEF Init, Getter, Known, Loop, NoCall
  <1>1. Types
    BY DEF Types
  <1>2. \A t \in Threads : ThreadInv(t)
    BY DEF ThreadInv
  <1>3. OwnerInv
    BY DEF OwnerInv
  <1>4. BoundInv
    <2>1. Reserved = {}
      BY DEF Reserved
    <2> QED BY <2>1, FS_EmptySet DEF BoundInv
  <1>5. GuardFirst
    BY DEF GuardFirst
  <1>6. SerialInv
    BY DEF SerialInv, SerialThreadInv, Driven, PendInv, OpenInv, WrapperInv
  <1> QED BY <1>1, <1>2, <1>3, <1>4, <1>5, <1>6 DEF BridgeInv, LoopInv
----------------------------------------------------------------------------
\* The three things a shim called at top level does: run a private loop, ask for
\* the cached loop, or take the bound one.
LEMMA CallShimEffect ==
  ASSUME Types, NEW t \in Threads, NEW m \in Modules, CallShim(t, m)
  PROVE  /\ pc[t] = "idle" /\ t \in users /\ WithinBound
         /\ at' = [at EXCEPT ![t] = m] /\ UNCHANGED <<kind, mode, users, glob, bound, closed, last, pend>>
         /\ \/ /\ mode[m] = PerCall /\ nloops' = nloops + 1 /\ got' = got
               /\ owner' = [owner EXCEPT ![nloops + 1] = t]
               /\ running' = [running EXCEPT ![t] = nloops + 1]
               /\ pc' = [pc EXCEPT ![t] = "body"]
            \/ /\ mode[m] = Persistent /\ IsBridge(m) /\ got' = got /\ UNCHANGED <<nloops, owner, running>>
               /\ pc' = [pc EXCEPT ![t] = "check"]
            \/ /\ mode[m] = Persistent /\ ~IsBridge(m) /\ bound[m] # None
               /\ UNCHANGED <<nloops, owner, running>> /\ got' = [got EXCEPT ![t] = bound[m]]
               /\ pc' = [pc EXCEPT ![t] = "drive"]
PROOF
  <1> QED BY DEF Types, CallShim, AsyncioRun, NewLoop, StartsOn, Goto, IsBridge, fixed, loops,
             PerCall, Persistent

\* Every step of every thread keeps the loops and the threads consistent.
LEMMA LoopInvStep ==
  ASSUME LoopInv, [Next]_vars
  PROVE  LoopInv'
PROOF
  <1> USE MaxLoopsAssumption, DistinctAssumption
  <1> USE DEF Getter, Known, Loop, Goto, fixed, loops, PerCall, Persistent
  <1>0. Types /\ BoundInv /\ OwnerInv /\ GuardFirst /\ \A t \in Threads : ThreadInv(t)
    BY DEF LoopInv
  <1>1. ASSUME NEW t \in Threads, NEW m \in Modules, NestedCall(t, m) PROVE LoopInv'
    <2>1. BoundInv'
      BY <1>0, <1>1 DEF NestedCall, NestedAnswer, BoundInv, Reserved
    <2>2. Types'
      BY <1>0, <1>1, <2>1 DEF NestedCall, NestedAnswer, Types, ThreadInv, Slot
    <2>3. \A u \in Threads : ThreadInv(u)'
      BY <1>0, <1>1, <2>1 DEF NestedCall, NestedAnswer, Types, ThreadInv, Slot, IsBridge
    <2>4. OwnerInv'
      BY <1>0, <1>1 DEF NestedCall, OwnerInv
    <2>5. GuardFirst'
      BY <1>0, <1>1 DEF NestedCall, NestedAnswer, Types, GuardFirst, IsBridge
    <2> QED BY <2>1, <2>2, <2>3, <2>4, <2>5 DEF LoopInv
  <1>2. ASSUME NEW t \in Threads, NEW m \in Modules, ImportWrapper(t, m) PROVE LoopInv'
    <2>0. nloops' = nloops /\ WithinBound /\ pc' = [pc EXCEPT ![t] = "check"]
      BY <1>2 DEF ImportWrapper
    <2>1. BoundInv' /\ nloops' \in 0..MaxLoops
      BY <1>0, <2>0, BoundStep
    <2>2. Types'
      BY <1>0, <1>2, <2>1 DEF ImportWrapper, Types, ThreadInv, Slot
    <2>3. \A u \in Threads : ThreadInv(u)'
      BY <1>0, <1>2, <2>1 DEF ImportWrapper, Types, ThreadInv, Slot, IsBridge
    <2>4. OwnerInv'
      BY <1>0, <1>2 DEF ImportWrapper, OwnerInv
    <2>5. GuardFirst'
      BY <1>0, <1>2 DEF ImportWrapper, GuardFirst, IsBridge
    <2> QED BY <2>1, <2>2, <2>3, <2>4, <2>5 DEF LoopInv
  <1>3. ASSUME NEW t \in Threads, GetterCheck(t) PROVE LoopInv'
    <2>0. nloops' = nloops /\ pc[t] \in {"check", "create"} /\ pc' = [pc EXCEPT ![t] = IF Stale(glob[Slot(at[t])]) THEN "create" ELSE "return"]
      BY <1>3 DEF GetterCheck
    <2>1. BoundInv' /\ nloops' \in 0..MaxLoops
      BY <1>0, <2>0, BoundStep
    <2>2. Types'
      BY <1>0, <1>3, <2>1 DEF GetterCheck, Types, ThreadInv, Slot
    <2>3. \A u \in Threads : ThreadInv(u)'
      BY <1>0, <1>3, <2>1 DEF GetterCheck, Types, ThreadInv, Slot, IsBridge, Stale
    <2>4. OwnerInv'
      BY <1>0, <1>3 DEF GetterCheck, OwnerInv
    <2>5. GuardFirst'
      BY <1>0, <1>3 DEF GetterCheck, GuardFirst, IsBridge
    <2> QED BY <2>1, <2>2, <2>3, <2>4, <2>5 DEF LoopInv
  <1>4. ASSUME NEW t \in Threads, GetterCreate(t) PROVE LoopInv'
    <2>0. nloops' = nloops + 1 /\ pc[t] \in {"check", "create"} /\ pc' = [pc EXCEPT ![t] = "store"]
      BY <1>4 DEF GetterCreate, NewLoop
    <2>1. BoundInv' /\ nloops' \in 0..MaxLoops
      BY <1>0, <2>0, BoundStep
    <2>2. Types'
      BY <1>0, <1>4, <2>1 DEF GetterCreate, NewLoop, Types, ThreadInv, Slot
    <2>3. \A u \in Threads : ThreadInv(u)'
      BY <1>0, <1>4, <2>1 DEF GetterCreate, NewLoop, Types, ThreadInv, Slot, IsBridge
    <2>4. OwnerInv'
      BY <1>0, <1>4 DEF GetterCreate, OwnerInv
    <2>5. GuardFirst'
      BY <1>0, <1>4 DEF GetterCreate, GuardFirst, IsBridge
    <2> QED BY <2>1, <2>2, <2>3, <2>4, <2>5 DEF LoopInv
  <1>5. ASSUME NEW t \in Threads, GetterStore(t) PROVE LoopInv'
    <2>0. nloops' = nloops /\ pc' = [pc EXCEPT ![t] = "return"]
      BY <1>5 DEF GetterStore
    <2>1. BoundInv' /\ nloops' \in 0..MaxLoops
      BY <1>0, <2>0, BoundStep
    <2>2. Types'
      BY <1>0, <1>5, <2>1 DEF GetterStore, Types, ThreadInv, Slot
    <2>3. \A u \in Threads : ThreadInv(u)'
      BY <1>0, <1>5, <2>1 DEF GetterStore, Types, ThreadInv, Slot, IsBridge
    <2>4. OwnerInv'
      BY <1>0, <1>5 DEF GetterStore, OwnerInv
    <2>5. GuardFirst'
      BY <1>0, <1>5 DEF GetterStore, GuardFirst, IsBridge
    <2> QED BY <2>1, <2>2, <2>3, <2>4, <2>5 DEF LoopInv
  <1>6. ASSUME NEW t \in Threads, GetterReturn(t) PROVE LoopInv'
    <2>0. nloops' = nloops /\ pc' = [pc EXCEPT ![t] = IF IsBridge(at[t]) THEN "drive" ELSE "idle"]
      BY <1>6 DEF GetterReturn
    <2>1. BoundInv' /\ nloops' \in 0..MaxLoops
      BY <1>0, <2>0, BoundStep
    <2>2. Types'
      <3>1. at[t] \in Modules /\ glob[Slot(at[t])] \in Known
        BY <1>0, <1>6 DEF GetterReturn, Types, ThreadInv, Slot
      <3> QED BY <1>0, <1>6, <2>0, <3>1 DEF GetterReturn, Types
    <2>3. \A u \in Threads : ThreadInv(u)'
      BY <1>0, <1>6, <2>1 DEF GetterReturn, Types, ThreadInv, Slot, IsBridge
    <2>4. OwnerInv'
      BY <1>0, <1>6 DEF GetterReturn, OwnerInv
    <2>5. GuardFirst'
      BY <1>0, <1>6 DEF GetterReturn, GuardFirst, IsBridge
    <2> QED BY <2>1, <2>2, <2>3, <2>4, <2>5 DEF LoopInv
  <1>7. ASSUME NEW t \in Threads, Drive(t) PROVE LoopInv'
    <2>0. /\ nloops' = nloops /\ got[t] \in Known
          /\ pc' = [pc EXCEPT ![t] = "idle"] \/ pc' = [pc EXCEPT ![t] = "body"]
      BY <1>0, <1>7 DEF Drive, RunUntilComplete, StartsOn, Ends, Types, ThreadInv
    <2>1. BoundInv' 
      BY <1>0, <2>0, BoundStep
    <2>2. Types'
      <3>1. at[t] \in Modules
        BY <1>0, <1>7 DEF Drive, ThreadInv
      <3>2. \/ last' = last
            \/ \E r \in {"closed", "busy"} :
                 last' = [last EXCEPT ![t] = [mod |-> at[t], res |-> r, coro |-> TRUE]]
        BY <1>7 DEF Drive, RunUntilComplete, Ends
      <3>3. last' \in [Threads -> [mod : Modules \cup {None}, coro : BOOLEAN,
                         res : {"none", "closed", "busy", "ok", "raised", "reentry", "nested"}]]
        <4>1. CASE last' = last
          BY <1>0, <4>1 DEF Types
        <4>2. ASSUME NEW r \in {"closed", "busy"},
                     last' = [last EXCEPT ![t] = [mod |-> at[t], res |-> r, coro |-> TRUE]]
              PROVE  last' \in [Threads -> [mod : Modules \cup {None}, coro : BOOLEAN,
                         res : {"none", "closed", "busy", "ok", "raised", "reentry", "nested"}]]
          BY <1>0, <3>1, <4>2 DEF Types
        <4> QED BY <3>2, <4>1, <4>2
      <3>4. \/ owner' = owner /\ running' = running
            \/ owner' = [owner EXCEPT ![got[t]] = t] /\ running' = [running EXCEPT ![t] = got[t]]
        BY <1>7 DEF Drive, RunUntilComplete, StartsOn
      <3>5. UNCHANGED <<kind, mode, users, glob, bound, closed, at, got, pend>>
        BY <1>7 DEF Drive, RunUntilComplete
      <3>6. /\ owner' \in [Loop -> Threads \cup {None}]
            /\ running' \in [Threads -> Known \cup {None, Host}]
        <4>1. got[t] \in Loop
          BY <1>0, <2>0 DEF Types
        <4>2. CASE owner' = owner /\ running' = running
          BY <1>0, <2>0, <4>2 DEF Types
        <4>3. CASE owner' = [owner EXCEPT ![got[t]] = t] /\ running' = [running EXCEPT ![t] = got[t]]
          BY <1>0, <2>0, <4>1, <4>3 DEF Types
        <4> QED BY <3>4, <4>2, <4>3
      <3>7. pc' \in [Threads -> Getter \cup {"idle", "drive", "body", "host"}]
        BY <1>0, <2>0 DEF Types
      <3> QED BY <1>0, <2>0, <3>3, <3>5, <3>6, <3>7 DEF Types
    <2>3. \A u \in Threads : ThreadInv(u)'
      BY <1>0, <1>7, <2>1 DEF Drive, RunUntilComplete, StartsOn, Ends, Types, ThreadInv, Slot, IsBridge
    <2>4. OwnerInv'
      BY <1>0, <1>7 DEF Drive, RunUntilComplete, StartsOn, Ends, Types, ThreadInv, OwnerInv
    <2>5. GuardFirst'
      <3>1. \/ last' = last
            \/ \E r \in {"closed", "busy"} :
                 last' = [last EXCEPT ![t] = [mod |-> at[t], res |-> r, coro |-> TRUE]]
        BY <1>7 DEF Drive, RunUntilComplete, Ends
      <3>2. kind' = kind
        BY <1>7 DEF Drive
      <3>3. \A u \in Threads : \/ last'[u] = last[u]
                             \/ last'[u].res \notin {"nested", "reentry"}
        <4>1. DOMAIN last = Threads
          BY <1>0 DEF Types
        <4>2. CASE last' = last
          BY <4>2
        <4>3. ASSUME NEW r \in {"closed", "busy"},
                     last' = [last EXCEPT ![t] = [mod |-> at[t], res |-> r, coro |-> TRUE]]
              PROVE  \A u \in Threads : last'[u] = last[u] \/ last'[u].res = r
          BY <4>1, <4>3
        <4> QED BY <3>1, <4>2, <4>3
      <3> QED BY <1>0, <3>2, <3>3 DEF GuardFirst, IsBridge
    <2> QED BY <2>1, <2>2, <2>3, <2>4, <2>5 DEF LoopInv
  <1>8. ASSUME NEW t \in Threads, LeaveTask(t) PROVE LoopInv'
    <2>1. BoundInv'
      BY <1>0, <1>8 DEF LeaveTask, BoundInv, Reserved
    <2>2. Types'
      BY <1>0, <1>8, <2>1 DEF LeaveTask, Types, ThreadInv, Slot
    <2>3. \A u \in Threads : ThreadInv(u)'
      BY <1>0, <1>8, <2>1 DEF LeaveTask, Types, ThreadInv, Slot, IsBridge
    <2>4. OwnerInv'
      BY <1>0, <1>8 DEF LeaveTask, OwnerInv
    <2>5. GuardFirst'
      BY <1>0, <1>8 DEF LeaveTask, GuardFirst, IsBridge
    <2> QED BY <2>1, <2>2, <2>3, <2>4, <2>5 DEF LoopInv
  <1>9. ASSUME NEW t \in Threads, Complete(t) PROVE LoopInv'
    <2>0. nloops' = nloops /\ pc' = [pc EXCEPT ![t] = "idle"]
      BY <1>9 DEF Complete, Ends
    <2>1. BoundInv' /\ nloops' \in 0..MaxLoops
      BY <1>0, <2>0, BoundStep
    <2>2. Types'
      <3>1. at[t] \in Modules /\ running[t] \in Known
        BY <1>0, <1>9 DEF Complete, ThreadInv
      <3>2. \E r \in {"ok", "raised"} :
              last' = [last EXCEPT ![t] = [mod |-> at[t], res |-> r, coro |-> TRUE]]
        BY <1>9 DEF Complete, Ends
      <3>3. last' \in [Threads -> [mod : Modules \cup {None}, coro : BOOLEAN,
                         res : {"none", "closed", "busy", "ok", "raised", "reentry", "nested"}]]
        BY <1>0, <3>1, <3>2 DEF Types
      <3>4. /\ closed' \in {closed, closed \cup {running[t]}}
            /\ \/ pend' = pend
               \/ pend' = [pend EXCEPT ![at[t]] = @ \ {running[t]}]
        BY <1>9 DEF Complete
      <3>5. /\ owner' = [owner EXCEPT ![running[t]] = None]
            /\ running' = [running EXCEPT ![t] = None]
            /\ UNCHANGED <<kind, mode, users, glob, bound, at, got>>
        BY <1>9 DEF Complete
      <3> QED BY <1>0, <2>0, <3>1, <3>3, <3>4, <3>5 DEF Types
    <2>3. \A u \in Threads : ThreadInv(u)'
      <3>1. /\ closed' \in {closed, closed \cup {running[t]}}
            /\ running' = [running EXCEPT ![t] = None] /\ pc' = [pc EXCEPT ![t] = "idle"]
            /\ running[t] \in Known /\ UNCHANGED <<kind, mode, users, glob, bound, nloops, at, got>>
        BY <1>0, <1>9 DEF Complete, ThreadInv
      <3>2. \A u \in Threads : u # t => running[u] # running[t]
        BY <1>0, <3>1 DEF Types, OwnerInv
      <3> QED BY <1>0, <3>1, <3>2 DEF Types, ThreadInv, Slot, IsBridge
    <2>4. OwnerInv'
      BY <1>0, <1>9 DEF Complete, Ends, Types, ThreadInv, OwnerInv
    <2>5. GuardFirst'
      BY <1>0, <1>9 DEF Complete, Ends, Types, GuardFirst, IsBridge
    <2> QED BY <2>1, <2>2, <2>3, <2>4, <2>5 DEF LoopInv
  <1>10. ASSUME NEW t \in Threads, HostEnter(t) PROVE LoopInv'
    <2>0. nloops' = nloops /\ pc' = [pc EXCEPT ![t] = "host"]
      BY <1>10 DEF HostEnter
    <2>1. BoundInv' /\ nloops' \in 0..MaxLoops
      BY <1>0, <2>0, BoundStep
    <2>2. Types'
      BY <1>0, <1>10, <2>1 DEF HostEnter, Types, ThreadInv, Slot
    <2>3. \A u \in Threads : ThreadInv(u)'
      BY <1>0, <1>10, <2>1 DEF HostEnter, Types, ThreadInv, Slot, IsBridge
    <2>4. OwnerInv'
      BY <1>0, <1>10 DEF HostEnter, Types, ThreadInv, OwnerInv
    <2>5. GuardFirst'
      BY <1>0, <1>10 DEF HostEnter, GuardFirst, IsBridge
    <2> QED BY <2>1, <2>2, <2>3, <2>4, <2>5 DEF LoopInv
  <1>11. ASSUME NEW t \in Threads, HostLeave(t) PROVE LoopInv'
    <2>0. nloops' = nloops /\ pc' = [pc EXCEPT ![t] = "idle"]
      BY <1>11 DEF HostLeave
    <2>1. BoundInv' /\ nloops' \in 0..MaxLoops
      BY <1>0, <2>0, BoundStep
    <2>2. Types'
      BY <1>0, <1>11, <2>1 DEF HostLeave, Types, ThreadInv, Slot
    <2>3. \A u \in Threads : ThreadInv(u)'
      BY <1>0, <1>11, <2>1 DEF HostLeave, Types, ThreadInv, Slot, IsBridge
    <2>4. OwnerInv'
      BY <1>0, <1>11 DEF HostLeave, Types, ThreadInv, OwnerInv
    <2>5. GuardFirst'
      BY <1>0, <1>11 DEF HostLeave, GuardFirst, IsBridge
    <2> QED BY <2>1, <2>2, <2>3, <2>4, <2>5 DEF LoopInv
  <1>12. ASSUME NEW t \in Threads, HostClose(t) PROVE LoopInv'
    <2>1. BoundInv'
      BY <1>0, <1>12 DEF HostClose, BoundInv, Reserved
    <2>2. Types'
      BY <1>0, <1>12, <2>1 DEF HostClose, Types, ThreadInv, Slot
    <2>3. \A u \in Threads : ThreadInv(u)'
      <3>1. PICK l \in Known : owner[l] = None /\ closed' = closed \cup {l}
        BY <1>12 DEF HostClose
      <3>2. \A u \in Threads : running[u] # l
        BY <1>0, <3>1 DEF Types, OwnerInv
      <3> QED BY <1>0, <1>12, <3>1, <3>2 DEF HostClose, ThreadInv, Slot, IsBridge
    <2>4. OwnerInv'
      BY <1>0, <1>12 DEF HostClose, OwnerInv
    <2>5. GuardFirst'
      BY <1>0, <1>12 DEF HostClose, GuardFirst, IsBridge
    <2> QED BY <2>1, <2>2, <2>3, <2>4, <2>5 DEF LoopInv
  <1>13. ASSUME NEW t \in Threads, NEW m \in Modules, CallShim(t, m) PROVE LoopInv'
    <2>0. /\ pc[t] = "idle" /\ t \in users /\ WithinBound
          /\ at' = [at EXCEPT ![t] = m] /\ UNCHANGED <<kind, mode, users, glob, bound, closed, last, pend>>
          /\ \/ /\ mode[m] = PerCall /\ nloops' = nloops + 1 /\ got' = got
                /\ owner' = [owner EXCEPT ![nloops + 1] = t]
                /\ running' = [running EXCEPT ![t] = nloops + 1]
                /\ pc' = [pc EXCEPT ![t] = "body"]
             \/ /\ mode[m] = Persistent /\ IsBridge(m) /\ got' = got /\ UNCHANGED <<nloops, owner, running>>
                /\ pc' = [pc EXCEPT ![t] = "check"]
             \/ /\ mode[m] = Persistent /\ ~IsBridge(m) /\ bound[m] # None
                /\ UNCHANGED <<nloops, owner, running>> /\ got' = [got EXCEPT ![t] = bound[m]]
                /\ pc' = [pc EXCEPT ![t] = "drive"]
      BY <1>0, <1>13, CallShimEffect
    <2>1. BoundInv' /\ nloops' \in 0..MaxLoops
      BY <1>0, <2>0, BoundStep
    <2>2. Types'
      <3>1. nloops' \in {nloops, nloops + 1} /\ 1..nloops \subseteq 1..nloops'
        BY <1>0, <2>0 DEF Types
      <3>2. /\ owner' \in [Loop -> Threads \cup {None}]
            /\ running' \in [Threads -> 1..nloops' \cup {None, Host}]
        <4>1. CASE UNCHANGED <<owner, running>>
          BY <1>0, <2>0, <3>1, <4>1 DEF Types
        <4>2. CASE /\ nloops' = nloops + 1
                   /\ owner' = [owner EXCEPT ![nloops + 1] = t]
                   /\ running' = [running EXCEPT ![t] = nloops + 1]
          <5>1. nloops + 1 \in Loop /\ nloops + 1 \in 1..nloops'
            BY <1>0, <2>1, <4>2 DEF Types
          <5> QED BY <1>0, <3>1, <4>2, <5>1 DEF Types
        <4> QED BY <2>0, <4>1, <4>2
      <3>3. /\ pc' \in [Threads -> Getter \cup {"idle", "drive", "body", "host"}]
            /\ got' \in [Threads -> 1..nloops \cup {None}]
        BY <1>0, <2>0 DEF Types
      <3> QED BY <1>0, <2>0, <2>1, <3>1, <3>2, <3>3 DEF Types
    <2>3. \A u \in Threads : ThreadInv(u)'
      BY <1>0, <2>0, <2>1 DEF Types, ThreadInv, Slot, IsBridge
    <2>4. OwnerInv'
      BY <1>0, <2>0, <2>1 DEF Types, ThreadInv, OwnerInv
    <2>5. GuardFirst'
      BY <1>0, <2>0 DEF Types, GuardFirst, IsBridge
    <2> QED BY <2>1, <2>2, <2>3, <2>4, <2>5 DEF LoopInv
  <1>14. ASSUME UNCHANGED vars PROVE LoopInv'
    BY <1>0, <1>14 DEF vars, LoopInv, Types, ThreadInv, Slot, IsBridge, OwnerInv, BoundInv, Reserved,
       GuardFirst
  <1> QED BY <1>1, <1>2, <1>3, <1>4, <1>5, <1>6, <1>7, <1>8, <1>9, <1>10, <1>11, <1>12, <1>13, <1>14
       DEF Next
----------------------------------------------------------------------------
\* In a single-threaded program only what its thread t does has to be looked at.
LEMMA SerialFrame ==
  ASSUME LoopInv, LoopInv', Serial, SerialInv, NEW t \in Threads, t \in users,
         users' = users, kind' = kind, \A u \in Threads \ {t} : last'[u] = last[u],
         SerialThreadInv(t)', Driven(t)', PendInv', OpenInv', WrapperInv'
  PROVE  SerialInv'
PROOF
  <1>1. users = {t}
    BY SerialUser DEF LoopInv
  <1>2. ASSUME NEW u \in Threads, u # t PROVE SerialThreadInv(u)' /\ Driven(u)'
    <2>1. pc'[u] = "idle"
      BY <1>1, <1>2 DEF LoopInv, ThreadInv
    <2>2. SerialThreadInv(u)'
      BY <2>1 DEF SerialThreadInv, Getter
    <2>3. Driven(u)'
      BY <1>2 DEF SerialInv, Driven, IsBridge
    <2> QED BY <2>2, <2>3
  <1> QED BY <1>2 DEF SerialInv

\* Every step of a single-threaded program keeps its invariant.
LEMMA SerialInvStep ==
  ASSUME LoopInv, LoopInv', Serial, SerialInv, [Next]_vars
  PROVE  SerialInv'
PROOF
  <1> USE MaxLoopsAssumption, DistinctAssumption
  <1> USE DEF Getter, Known, Loop, Goto, fixed, loops, PerCall, Persistent, IsBridge
  <1>0. /\ Types /\ OwnerInv /\ \A t \in Threads : ThreadInv(t)
        /\ Types' /\ \A t \in Threads : ThreadInv(t)'
        /\ PendInv /\ OpenInv /\ WrapperInv
        /\ \A t \in Threads : SerialThreadInv(t) /\ Driven(t)
    BY DEF LoopInv, SerialInv
  <1>1. ASSUME NEW t \in Threads, NEW m \in Modules, NestedCall(t, m) PROVE SerialInv'
    <2>1. /\ users = {t} /\ (\A u \in Threads : u # t => pc[u] = "idle")
          /\ users' = users /\ kind' = kind /\ \A u \in Threads \ {t} : last'[u] = last[u]
      BY <1>0, <1>1, SerialUser DEF NestedCall, NestedAnswer, Types, ThreadInv
    <2>2. SerialThreadInv(t)'
      BY <1>0, <1>1, <2>1 DEF NestedCall, NestedAnswer, Types, ThreadInv, SerialThreadInv, Slot, LoopOf, Stale
    <2>3. Driven(t)'
      BY <1>0, <1>1, <2>1 DEF NestedCall, NestedAnswer, Types, ThreadInv, SerialThreadInv, Driven
    <2>4. PendInv'
      BY <1>0, <1>1 DEF NestedCall, PendInv, LoopOf
    <2>5. OpenInv'
      BY <1>0, <1>1, <2>1 DEF NestedCall, NestedAnswer, Types, ThreadInv, SerialThreadInv, Slot, Stale, OpenInv
    <2>6. WrapperInv'
      BY <1>0, <1>1 DEF NestedCall, WrapperInv
    <2> QED BY <2>1, <2>2, <2>3, <2>4, <2>5, <2>6, SerialFrame
  <1>2. ASSUME NEW t \in Threads, NEW m \in Modules, ImportWrapper(t, m) PROVE SerialInv'
    <2>1. /\ users = {t} /\ (\A u \in Threads : u # t => pc[u] = "idle")
          /\ users' = users /\ kind' = kind /\ \A u \in Threads \ {t} : last'[u] = last[u]
      BY <1>0, <1>2, SerialUser DEF ImportWrapper, Types, ThreadInv
    <2>2. SerialThreadInv(t)'
      BY <1>0, <1>2, <2>1 DEF ImportWrapper, Types, ThreadInv, SerialThreadInv, Slot, LoopOf, Stale
    <2>3. Driven(t)'
      BY <1>0, <1>2 DEF ImportWrapper, Driven
    <2>4. PendInv'
      BY <1>0, <1>2 DEF ImportWrapper, PendInv, LoopOf
    <2>5. OpenInv'
      BY <1>0, <1>2, <2>1 DEF ImportWrapper, Types, ThreadInv, SerialThreadInv, Slot, Stale, OpenInv
    <2>6. WrapperInv'
      BY <1>0, <1>2 DEF ImportWrapper, WrapperInv
    <2> QED BY <2>1, <2>2, <2>3, <2>4, <2>5, <2>6, SerialFrame
  <1>3. ASSUME NEW t \in Threads, GetterCheck(t) PROVE SerialInv'
    <2>1. /\ users = {t} /\ (\A u \in Threads : u # t => pc[u] = "idle")
          /\ users' = users /\ kind' = kind /\ \A u \in Threads \ {t} : last'[u] = last[u]
      BY <1>0, <1>3, SerialUser DEF GetterCheck, Types, ThreadInv
    <2>2. SerialThreadInv(t)'
      <3>1. /\ pc[t] = "check" /\ pc'[t] = IF Stale(glob[Slot(at[t])]) THEN "create" ELSE "return"
            /\ at' = at /\ glob' = glob /\ bound' = bound /\ closed' = closed /\ kind' = kind
        BY <1>0, <1>3 DEF GetterCheck, Types
      <3>2. SerialThreadInv(t)
        BY <1>0
      <3> QED BY <3>1, <3>2 DEF SerialThreadInv, Slot, Stale
    <2>3. Driven(t)'
      BY <1>0, <1>3 DEF GetterCheck, Driven
    <2>4. PendInv'
      BY <1>0, <1>3 DEF GetterCheck, PendInv, LoopOf
    <2>5. OpenInv'
      BY <1>0, <1>3, <2>1 DEF GetterCheck, Types, ThreadInv, SerialThreadInv, Slot, Stale, OpenInv
    <2>6. WrapperInv'
      BY <1>0, <1>3 DEF GetterCheck, WrapperInv
    <2> QED BY <2>1, <2>2, <2>3, <2>4, <2>5, <2>6, SerialFrame
  <1>4. ASSUME NEW t \in Threads, GetterCreate(t) PROVE SerialInv'
    <2>1. /\ users = {t} /\ (\A u \in Threads : u # t => pc[u] = "idle")
          /\ users' = users /\ kind' = kind /\ \A u \in Threads \ {t} : last'[u] = last[u]
      BY <1>0, <1>4, SerialUser DEF GetterCreate, NewLoop, Types, ThreadInv
    <2>2. SerialThreadInv(t)'
      BY <1>0, <1>4, <2>1 DEF GetterCreate, NewLoop, Types, ThreadInv, SerialThreadInv, Slot, LoopOf, Stale
    <2>3. Driven(t)'
      BY <1>0, <1>4 DEF GetterCreate, Driven
    <2>4. PendInv'
      BY <1>0, <1>4 DEF GetterCreate, PendInv, LoopOf
    <2>5. OpenInv'
      BY <1>0, <1>4, <2>1 DEF GetterCreate, NewLoop, Types, ThreadInv, SerialThreadInv, Slot, Stale, OpenInv
    <2>6. WrapperInv'
      BY <1>0, <1>4 DEF GetterCreate, WrapperInv
    <2> QED BY <2>1, <2>2, <2>3, <2>4, <2>5, <2>6, SerialFrame
  <1>5. ASSUME NEW t \in Threads, GetterStore(t) PROVE SerialInv'
    <2>1. /\ users = {t} /\ (\A u \in Threads : u # t => pc[u] = "idle")
          /\ users' = users /\ kind' = kind /\ \A u \in Threads \ {t} : last'[u] = last[u]
      BY <1>0, <1>5, SerialUser DEF GetterStore, Types, ThreadInv
    <2>2. SerialThreadInv(t)'
      BY <1>0, <1>5, <2>1 DEF GetterStore, Types, ThreadInv, SerialThreadInv, Slot, LoopOf, Stale
    <2>3. Driven(t)'
      BY <1>0, <1>5 DEF GetterStore, Driven
    <2>4. PendInv'
      BY <1>0, <1>5, <2>1 DEF GetterStore, Types, ThreadInv, SerialThreadInv, Slot, LoopOf, Stale, PendInv
    <2>5. OpenInv'
      <3> DEFINE s == Slot(at[t])
      <3>1. /\ s \in Modules \cup {Shared} /\ glob' = [glob EXCEPT ![s] = got[t]]
            /\ UNCHANGED <<nloops, closed>> /\ Stale(glob[s])
        BY <1>0, <1>5 DEF GetterStore, Slot, ThreadInv, SerialThreadInv
      <3> HIDE DEF s
      <3>2. ASSUME NEW l \in Known, l \notin closed PROVE \E g \in Modules \cup {Shared} : glob'[g] = l
        <4>1. (\E g \in Modules \cup {Shared} : glob[g] = l) \/ got[t] = l
          BY <1>0, <1>5, <2>1, <3>2 DEF GetterStore, OpenInv
        <4>2. glob[s] # l
          BY <1>0, <3>1, <3>2 DEF Stale, Types
        <4> QED BY <1>0, <3>1, <4>1, <4>2 DEF Types
      <3> QED BY <3>1, <3>2 DEF OpenInv
    <2>6. WrapperInv'
      BY <1>0, <1>5, <2>1 DEF GetterStore, Types, ThreadInv, SerialThreadInv, Slot, Stale, WrapperInv
    <2> QED BY <2>1, <2>2, <2>3, <2>4, <2>5, <2>6, SerialFrame
  <1>6. ASSUME NEW t \in Threads, GetterReturn(t) PROVE SerialInv'
    <2>1. /\ users = {t} /\ (\A u \in Threads : u # t => pc[u] = "idle")
          /\ users' = users /\ kind' = kind /\ \A u \in Threads \ {t} : last'[u] = last[u]
      BY <1>0, <1>6, SerialUser DEF GetterReturn, Types, ThreadInv
    <2>2. SerialThreadInv(t)'
      BY <1>0, <1>6, <2>1 DEF GetterReturn, Types, ThreadInv, SerialThreadInv, Slot, LoopOf, Stale
    <2>3. Driven(t)'
      BY <1>0, <1>6 DEF GetterReturn, Driven
    <2>4. PendInv'
      BY <1>0, <1>6, <2>1 DEF GetterReturn, Types, ThreadInv, SerialThreadInv, Slot, LoopOf, Stale, PendInv
    <2>5. OpenInv'
      <3>1. \A l \in Known : l \notin closed => \E g \in Modules \cup {Shared} : glob[g] = l
        BY <1>0, <1>6, <2>1 DEF GetterReturn, OpenInv
      <3> QED BY <1>6, <3>1 DEF GetterReturn, OpenInv
    <2>6. WrapperInv'
      BY <1>0, <1>6, <2>1 DEF GetterReturn, Types, ThreadInv, SerialThreadInv, Slot, Stale, WrapperInv
    <2> QED BY <2>1, <2>2, <2>3, <2>4, <2>5, <2>6, SerialFrame
  <1>7. ASSUME NEW t \in Threads, Drive(t) PROVE SerialInv'
    <2>1. /\ users = {t} /\ (\A u \in Threads : u # t => pc[u] = "idle")
          /\ users' = users /\ kind' = kind /\ \A u \in Threads \ {t} : last'[u] = last[u]
      BY <1>0, <1>7, SerialUser DEF Drive, RunUntilComplete, StartsOn, Ends, Types, ThreadInv
    <2>2. SerialThreadInv(t)'
      BY <1>0, <1>7, <2>1 DEF Drive, RunUntilComplete, StartsOn, Ends, Types, ThreadInv, SerialThreadInv, Slot, LoopOf, Stale
    <2>3. Driven(t)'
      <3>1. owner[got[t]] = None
        <4>1. got[t] \in Loop
          BY <1>0, <1>7 DEF Drive, Types, ThreadInv
        <4>2. ASSUME NEW u \in Threads, owner[got[t]] = u PROVE FALSE
          <5>1. running[u] = got[t] /\ running[u] \in Known
            BY <1>0, <1>7, <4>1, <4>2 DEF Drive, Types, ThreadInv, OwnerInv
          <5>2. pc[u] = "body"
            BY <1>0, <5>1 DEF ThreadInv
          <5> QED BY <1>7, <2>1, <5>2 DEF Drive
        <4> QED BY <1>0, <4>1, <4>2 DEF Types
      <3>2. IsBridge(at[t]) => got[t] \notin closed
        BY <1>0, <1>7 DEF Drive, SerialThreadInv
      <3>3. last' = last \/ (got[t] \in closed /\ Ends(t, at[t], "closed", TRUE))
        BY <1>7, <3>1 DEF Drive, RunUntilComplete
      <3> QED BY <1>0, <2>1, <3>2, <3>3 DEF Ends, Types, Driven
    <2>4. PendInv'
      BY <1>0, <1>7, <2>1 DEF Drive, RunUntilComplete, StartsOn, Ends, Types, ThreadInv, SerialThreadInv, Slot, LoopOf, Stale, PendInv
    <2>5. OpenInv'
      <3>1. \A l \in Known : l \notin closed => \E g \in Modules \cup {Shared} : glob[g] = l
        BY <1>0, <1>7, <2>1 DEF Drive, OpenInv
      <3>2. UNCHANGED <<glob, nloops, closed>>
        BY <1>7 DEF Drive, RunUntilComplete
      <3> QED BY <3>1, <3>2 DEF OpenInv
    <2>6. WrapperInv'
      BY <1>0, <1>7, <2>1 DEF Drive, RunUntilComplete, StartsOn, Ends, Types, ThreadInv, SerialThreadInv, Slot, Stale, WrapperInv
    <2> QED BY <2>1, <2>2, <2>3, <2>4, <2>5, <2>6, SerialFrame
  <1>8. ASSUME NEW t \in Threads, LeaveTask(t) PROVE SerialInv'
    <2>1. /\ users = {t} /\ (\A u \in Threads : u # t => pc[u] = "idle")
          /\ users' = users /\ kind' = kind /\ \A u \in Threads \ {t} : last'[u] = last[u]
      BY <1>0, <1>8, SerialUser DEF LeaveTask, Types, ThreadInv
    <2>2. SerialThreadInv(t)'
      BY <1>0, <1>8, <2>1 DEF LeaveTask, Types, ThreadInv, SerialThreadInv, Slot, LoopOf, Stale
    <2>3. Driven(t)'
      BY <1>0, <1>8 DEF LeaveTask, Driven
    <2>4. PendInv'
      <3>1. at[t] \in Modules /\ running[t] \in Known /\ pend' = [pend EXCEPT ![at[t]] = @ \cup {running[t]}]
        BY <1>0, <1>8 DEF LeaveTask, ThreadInv
      <3>2. UNCHANGED <<kind, mode, glob, bound, closed>>
        BY <1>8 DEF LeaveTask
      <3>3. mode[at[t]] = Persistent => running[t] = LoopOf(at[t])
        BY <1>0, <1>8 DEF LeaveTask, SerialThreadInv
      <3>4. running[t] \notin closed
        BY <1>0, <1>8 DEF LeaveTask, ThreadInv
      <3> QED BY <1>0, <3>1, <3>2, <3>3, <3>4 DEF Types, PendInv, LoopOf
    <2>5. OpenInv'
      BY <1>0, <1>8 DEF LeaveTask, OpenInv
    <2>6. WrapperInv'
      BY <1>0, <1>8 DEF LeaveTask, WrapperInv
    <2> QED BY <2>1, <2>2, <2>3, <2>4, <2>5, <2>6, SerialFrame
  <1>9. ASSUME NEW t \in Threads, Complete(t) PROVE SerialInv'
    <2>1. /\ users = {t} /\ (\A u \in Threads : u # t => pc[u] = "idle")
          /\ users' = users /\ kind' = kind /\ \A u \in Threads \ {t} : last'[u] = last[u]
      BY <1>0, <1>9, SerialUser DEF Complete, Ends, Types, ThreadInv
    <2>2. SerialThreadInv(t)'
      BY <1>0, <1>9, <2>1 DEF Complete, Ends, Types, ThreadInv, SerialThreadInv, Slot, LoopOf, Stale
    <2>3. Driven(t)'
      BY <1>0, <1>9, <2>1 DEF Complete, Ends, Types, ThreadInv, SerialThreadInv, Driven
    <2>4. PendInv'
      <3>1. at[t] \in Modules /\ running[t] \in Known /\ UNCHANGED <<kind, mode, glob, bound>>
        BY <1>0, <1>9 DEF Complete, ThreadInv
      <3>2. CASE mode[at[t]] = Persistent
        <4>1. UNCHANGED <<closed, pend>>
          BY <1>9, <3>2 DEF Complete
        <4> QED BY <1>0, <3>1, <4>1 DEF PendInv, LoopOf
      <3>3. CASE mode[at[t]] = PerCall
        <4>1. /\ closed' = closed \cup {running[t]}
              /\ pend' = [pend EXCEPT ![at[t]] = @ \ {running[t]}]
          BY <1>9, <3>3 DEF Complete
        <4>2. ASSUME NEW m \in Modules, mode[m] = Persistent
              PROVE  pend'[m] = pend[m] /\ LoopOf(m) # running[t]
          BY <1>0, <1>9, <3>1, <3>3, <4>1, <4>2 DEF Complete, Types, SerialThreadInv, LoopOf
        <4> QED BY <1>0, <3>1, <4>1, <4>2 DEF PendInv, LoopOf
      <3> QED BY <1>0, <3>1, <3>2, <3>3 DEF Types
    <2>5. OpenInv'
      <3>1. \A l \in Known : l \notin closed =>
              \/ \E g \in Modules \cup {Shared} : glob[g] = l
              \/ mode[at[t]] = PerCall /\ running[t] = l
        BY <1>0, <1>9, <2>1 DEF Complete, OpenInv
      <3>2. /\ mode[at[t]] = PerCall => running[t] \in closed'
            /\ closed \subseteq closed' /\ UNCHANGED <<glob, nloops>>
        BY <1>9 DEF Complete
      <3> QED BY <3>1, <3>2 DEF OpenInv
    <2>6. WrapperInv'
      BY <1>0, <1>9, <2>1 DEF Complete, Ends, Types, ThreadInv, SerialThreadInv, Slot, Stale, WrapperInv
    <2> QED BY <2>1, <2>2, <2>3, <2>4, <2>5, <2>6, SerialFrame
  <1>10. ASSUME NEW t \in Threads, HostEnter(t) PROVE SerialInv'
    <2>1. /\ users = {t} /\ (\A u \in Threads : u # t => pc[u] = "idle")
          /\ users' = users /\ kind' = kind /\ \A u \in Threads \ {t} : last'[u] = last[u]
      BY <1>0, <1>10, SerialUser DEF HostEnter, Types, ThreadInv
    <2>2. SerialThreadInv(t)'
      BY <1>0, <1>10, <2>1 DEF HostEnter, Types, ThreadInv, SerialThreadInv, Slot, LoopOf, Stale
    <2>3. Driven(t)'
      BY <1>0, <1>10 DEF HostEnter, Driven
    <2>4. PendInv'
      BY <1>0, <1>10 DEF HostEnter, PendInv, LoopOf
    <2>5. OpenInv'
      BY <1>0, <1>10, <2>1 DEF HostEnter, Types, ThreadInv, SerialThreadInv, Slot, Stale, OpenInv
    <2>6. WrapperInv'
      BY <1>0, <1>10 DEF HostEnter, WrapperInv
    <2> QED BY <2>1, <2>2, <2>3, <2>4, <2>5, <2>6, SerialFrame
  <1>11. ASSUME NEW t \in Threads, HostLeave(t) PROVE SerialInv'
    <2>1. /\ users = {t} /\ (\A u \in Threads : u # t => pc[u] = "idle")
          /\ users' = users /\ kind' = kind /\ \A u \in Threads \ {t} : last'[u] = last[u]
      BY <1>0, <1>11, SerialUser DEF HostLeave, Types, ThreadInv
    <2>2. SerialThreadInv(t)'
      BY <1>0, <1>11, <2>1 DEF HostLeave, Types, ThreadInv, SerialThreadInv, Slot, LoopOf, Stale
    <2>3. Driven(t)'
      BY <1>0, <1>11 DEF HostLeave, Driven
    <2>4. PendInv'
      BY <1>0, <1>11 DEF HostLeave, PendInv, LoopOf
    <2>5. OpenInv'
      BY <1>0, <1>11 DEF HostLeave, Types, OpenInv
    <2>6. WrapperInv'
      BY <1>0, <1>11 DEF HostLeave, WrapperInv
    <2> QED BY <2>1, <2>2, <2>3, <2>4, <2>5, <2>6, SerialFrame
  <1>12. ASSUME NEW t \in Threads, HostClose(t) PROVE SerialInv'
    <2>1. /\ users = {t} /\ (\A u \in Threads : u # t => pc[u] = "idle")
          /\ users' = users /\ kind' = kind /\ \A u \in Threads \ {t} : last'[u] = last[u]
      BY <1>0, <1>12, SerialUser DEF HostClose, Types, ThreadInv
    <2>2. SerialThreadInv(t)'
      BY <1>0, <1>12, <2>1 DEF HostClose, Types, ThreadInv, SerialThreadInv, Slot, LoopOf, Stale
    <2>3. Driven(t)'
      BY <1>0, <1>12 DEF HostClose, Driven
    <2>4. PendInv'
      BY <1>0, <1>12, <2>1 DEF HostClose, Types, ThreadInv, SerialThreadInv, Slot, LoopOf, Stale, PendInv
    <2>5. OpenInv'
      BY <1>0, <1>12, <2>1 DEF HostClose, Types, ThreadInv, SerialThreadInv, Slot, Stale, OpenInv
    <2>6. WrapperInv'
      BY <1>0, <1>12, <2>1 DEF HostClose, Types, ThreadInv, SerialThreadInv, Slot, Stale, WrapperInv
    <2> QED BY <2>1, <2>2, <2>3, <2>4, <2>5, <2>6, SerialFrame
  <1>13. ASSUME NEW t \in Threads, NEW m \in Modules, CallShim(t, m) PROVE SerialInv'
    <2>0. /\ pc[t] = "idle" /\ t \in users /\ WithinBound
          /\ at' = [at EXCEPT ![t] = m] /\ UNCHANGED <<kind, mode, users, glob, bound, closed, last, pend>>
          /\ \/ /\ mode[m] = PerCall /\ nloops' = nloops + 1 /\ got' = got
                /\ owner' = [owner EXCEPT ![nloops + 1] = t]
                /\ running' = [running EXCEPT ![t] = nloops + 1]
                /\ pc' = [pc EXCEPT ![t] = "body"]
             \/ /\ mode[m] = Persistent /\ IsBridge(m) /\ got' = got /\ UNCHANGED <<nloops, owner, running>>
                /\ pc' = [pc EXCEPT ![t] = "check"]
             \/ /\ mode[m] = Persistent /\ ~IsBridge(m) /\ bound[m] # None
                /\ UNCHANGED <<nloops, owner, running>> /\ got' = [got EXCEPT ![t] = bound[m]]
                /\ pc' = [pc EXCEPT ![t] = "drive"]
      BY <1>0, <1>13, CallShimEffect
    <2>1. /\ users = {t} /\ (\A u \in Threads : u # t => pc[u] = "idle")
          /\ users' = users /\ kind' = kind /\ \A u \in Threads \ {t} : last'[u] = last[u]
      BY <1>0, <2>0, SerialUser
    <2>2. pc' = [pc EXCEPT ![t] = pc'[t]] /\ at'[t] = m
      BY <1>0, <2>0 DEF Types
    <2>3. SerialThreadInv(t)'
      <3>1. CASE mode[m] = PerCall
        <4>1. running'[t] = nloops + 1 /\ pc'[t] = "body" /\ UNCHANGED <<mode, glob, bound>>
          BY <1>0, <2>0, <3>1 DEF Types
        <4>2. /\ \A g \in Modules \cup {Shared} : glob[g] # nloops + 1
              /\ \A n \in Modules : bound[n] # nloops + 1
          <5>1. nloops + 1 \in Loop
            BY <1>0, <2>0, <3>1 DEF Types
          <5>2. /\ nloops \in Nat /\ glob \in [Modules \cup {Shared} -> Known \cup {None}]
                /\ bound \in [Modules -> Known \cup {None}]
            BY <1>0 DEF Types
          <5>3. \A x \in Known \cup {None} : x # nloops + 1
            BY <5>1, <5>2
          <5> QED BY <5>2, <5>3
        <4> QED BY <2>2, <3>1, <4>1, <4>2 DEF SerialThreadInv
      <3>2. CASE pc'[t] = "check"
        BY <1>0, <2>0, <2>2, <3>2 DEF Types, SerialThreadInv
      <3>3. CASE pc'[t] = "drive"
        BY <1>0, <2>0, <2>2, <3>3 DEF Types, SerialThreadInv, LoopOf
      <3> QED BY <1>0, <2>0, <3>1, <3>2, <3>3 DEF Types
    <2>4. Driven(t)' /\ PendInv' /\ WrapperInv'
      BY <1>0, <2>0 DEF Driven, PendInv, WrapperInv, LoopOf
    <2>5. OpenInv'
      <3>1. \A l \in Known : l \notin closed => \E g \in Modules \cup {Shared} : glob[g] = l
        BY <1>0, <2>0, <2>1 DEF OpenInv
      <3>2. ASSUME NEW l \in Known', l \notin closed, \A g \in Modules \cup {Shared} : glob[g] # l
            PROVE  pc'[t] = "body" /\ mode[m] = PerCall /\ running'[t] = l
        BY <1>0, <2>0, <3>1, <3>2 DEF Types
      <3> QED BY <2>0, <2>2, <3>2 DEF OpenInv
    <2> QED BY <2>1, <2>3, <2>4, <2>5, SerialFrame, <2>0
  <1>14. ASSUME UNCHANGED vars PROVE SerialInv'
    BY <1>0, <1>14 DEF vars, SerialInv, SerialThreadInv, Driven, PendInv, OpenInv, WrapperInv, Slot,
       LoopOf, Stale
  <1> QED BY <1>1, <1>2, <1>3, <1>4, <1>5, <1>6, <1>7, <1>8, <1>9, <1>10, <1>11, <1>12, <1>13, <1>14
       DEF Next

----------------------------------------------------------------------------
LEMMA BridgeInvariant == Spec => []BridgeInv
PROOF
  <1>1. BridgeInv /\ [Next]_vars => BridgeInv'
    <2> SUFFICES ASSUME BridgeInv, [Next]_vars PROVE BridgeInv'
      OBVIOUS
    <2>1. LoopInv /\ LoopInv'
      BY LoopInvStep DEF BridgeInv
    <2>2. users' = users
      BY DEF Next, vars, fixed, CallShim, NestedCall, ImportWrapper, GetterCheck, GetterCreate,
         GetterStore, GetterReturn, Drive, LeaveTask, Complete, HostEnter, HostLeave, HostClose
    <2>3. Serial' => Serial
      BY <2>2 DEF Serial
    <2> QED BY <2>1, <2>3, SerialInvStep DEF BridgeInv
  <1> QED BY <1>1, BridgeInvInit, PTL DEF Spec

\* A bridge shim called inside a running loop raises its own error before a
\* coroutine exists, whatever the other threads do, and a single-threaded program
\* is never refused a loop by one.
THEOREM ShimsAlwaysAnswer == Spec => []ShimsAnswer
PROOF
  <1>1. BridgeInv => ShimsAnswer
    BY DEF BridgeInv, LoopInv, SerialInv, Driven, ShimsAnswer, SerialAlwaysDriven
  <1> QED BY <1>1, BridgeInvariant, PTL

\* In a single-threaded program a persistent call runs on the loop that holds
\* every task the earlier calls of its module left pending.
THEOREM AwaitablesStayObservable == Spec => []SerialObservable
PROOF
  <1>1. BridgeInv => SerialObservable
    <2> SUFFICES ASSUME BridgeInv, Serial, NEW t \in Threads, pc[t] = "body", mode[at[t]] = Persistent
                 PROVE  pend[at[t]] \subseteq {running[t]}
      BY DEF SerialObservable, AwaitablesObservable
    <2>1. at[t] \in Modules /\ running[t] = LoopOf(at[t])
      BY DEF BridgeInv, LoopInv, ThreadInv, SerialInv, SerialThreadInv
    <2> QED BY <2>1 DEF BridgeInv, SerialInv, PendInv
  <1> QED BY <1>1, BridgeInvariant, PTL

\* Loops and threads agree on who runs what, no loop of a single-threaded
\* program is lost while it is open, and its wrappers share one loop.
THEOREM LoopsStayConsistent == Spec => []LoopsConsistent
PROOF
  <1>1. BridgeInv => LoopsConsistent
    <2> SUFFICES ASSUME BridgeInv PROVE LoopsConsistent
      OBVIOUS
    <2> USE MaxLoopsAssumption, DistinctAssumption DEF Known, Loop
    <2>1. TypeOK
      <3>1. Types /\ OwnerInv /\ \A t \in Threads : ThreadInv(t)
        BY DEF BridgeInv, LoopInv
      <3>2. 1..nloops \subseteq 1..MaxLoops
        BY <3>1 DEF Types
      <3>3. /\ glob \in [Modules \cup {Shared} -> Loop \cup {None}]
            /\ bound \in [Modules -> Loop \cup {None}]
            /\ running \in [Threads -> Loop \cup {None, Host}]
        BY <3>1, <3>2 DEF Types
      <3>4. \A t \in Threads : /\ pc[t] = "drive" => got[t] \in 1..nloops
                               /\ pc[t] = "body" => running[t] \in 1..nloops
        BY <3>1 DEF Types, ThreadInv
      <3> QED BY <3>1, <3>3, <3>4 DEF TypeOK, Types, OwnerInv
    <2>2. NoStrayLoop
      BY DEF BridgeInv, LoopInv, Types, SerialInv, OpenInv, NoStrayLoop, Open, Range
    <2>3. OneWrapperLoop
      BY DEF BridgeInv, SerialInv, WrapperInv, OneWrapperLoop, Open
    <2> QED BY <2>1, <2>2, <2>3 DEF LoopsConsistent
  <1> QED BY <1>1, BridgeInvariant, PTL
=============================================================================
