------------------------------ MODULE Lockfile ------------------------------
(***************************************************************************)
(* The [[python-package]] part of mochi.lock (lockfile/) together with the *)
(* build it is made from: FromBuildResult, RenderTOML, ParseTOML and Check.*)
(* People and merges edit the file between a lock and a check.             *)
(***************************************************************************)
EXTENDS Build

CONSTANTS Stale, \* a wrapper hash of some earlier surface
          MaxOps \* bound on the operations of a behaviour

VARIABLES
  lock,    \* the tables of the lock file, or None
  lockReq, \* the request it was written for, None once somebody edited it
  checked, \* the request the last passing Check of this file was for
  built,   \* the last request built into the current work directory
  ops      \* operations so far

vars == <<buildVars, lock, lockReq, checked, built, ops>>

-----------------------------------------------------------------------------
(* Entries and manifests.                                                  *)

Key(e) == <<e.name, e.alias>>

\* ExtractCapabilities: what the accepted items say of the surface.
Capabilities(items) ==
  UNION {CASE i = "async"  -> {"async", "callable"}
           [] i = "func"   -> {"callable"}
           [] i = "record" -> {"dataclass"} : i \in items}

\* pinnedVersion: a single == clause of a registry or index spec.
PinnedVersion(t) ==
  IF t.source \in {"registry", "index"} /\ t.spec.op = "==" THEN t.spec.ver ELSE ""

Entry(t, req) ==
  [name |-> t.name, alias |-> t.alias, source |-> t.source,
   version |-> PinnedVersion(t), specifier |-> t.spec,
   sha |-> Sha256(ShimSource(t, req)), caps |-> Capabilities(t.stub.items)]

\* Manifest.Sort: by name and then alias, entries of one key keeping their
\* order.  An entry's place is the number of entries before it.
KeyLess(j, k) == j[1] < k[1] \/ (j[1] = k[1] /\ j[2] < k[2])
Before(m, i, j) == KeyLess(Key(m[i]), Key(m[j])) \/ (Key(m[i]) = Key(m[j]) /\ i < j)
Place(m, i) == Cardinality({j \in DOMAIN m : Before(m, j, i)})

Sorted(m) == [n \in DOMAIN m |-> m[CHOOSE i \in DOMAIN m : Place(m, i) + 1 = n]]

FromBuildResult(req) ==
  Sorted([i \in DOMAIN req.targets |-> Entry(req.targets[i], req)])

-----------------------------------------------------------------------------
(* The file: optional fields are written when they say something.          *)

Empty(f) ==
  CASE f = "version" -> "" [] f = "specifier" -> NoSpec [] f = "caps" -> {} [] f = "sha" -> <<>>
Optional == {"version", "specifier", "caps", "sha"}
Required == {"name", "alias", "source"}

RenderEntry(e) == [f \in Required \cup {g \in Optional : e[g] # Empty(g)} |-> e[f]]

DecodeEntry(t) ==
  [f \in Required \cup Optional |-> IF f \in DOMAIN t THEN t[f] ELSE Empty(f)]

\* decodeEntry insists on the required keys.
Parses(ts) == \A i \in DOMAIN ts : Required \subseteq DOMAIN ts[i]

RenderTOML(m) == [i \in DOMAIN Sorted(m) |-> RenderEntry(Sorted(m)[i])]
ParseTOML(ts) == Sorted([i \in DOMAIN ts |-> DecodeEntry(ts[i])])

-----------------------------------------------------------------------------
(* Comparison.                                                             *)

Keys(m) == {Key(m[i]) : i \in DOMAIN m}

\* indexByKey: the last entry of a key wins.
ByKey(m, k) == m[Max({i \in DOMAIN m : Key(m[i]) = k})]

\* Mutant: the hash is not compared.
EntryFieldDiffNoHash(a, b) == {f \in {"source", "version", "specifier", "caps"} : a[f] # b[f]}

EntryFieldDiff(a, b) == {f \in {"source", "version", "specifier", "sha", "caps"} : a[f] # b[f]}

CompareManifests(old, new) ==
  {[kind |-> "added", key |-> k] : k \in Keys(new) \ Keys(old)}
  \cup {[kind |-> "removed", key |-> k] : k \in Keys(old) \ Keys(new)}
  \cup {[kind |-> "changed", key |-> k] :
          k \in {j \in Keys(old) \cap Keys(new) : EntryFieldDiff(ByKey(old, j), ByKey(new, j)) # {}}}

Check(old, new) == CompareManifests(old, new) = {}

-----------------------------------------------------------------------------
(* `mochi pkg lock`, `mochi pkg lock --check`, and everybody else.         *)

Init ==
  /\ BuildInit
  /\ lock = None /\ lockReq = None /\ checked = None /\ built = None
  /\ ops = 0

\* mochi pkg lock: a successful Plan, written down.
WriteLock(req) ==
  /\ Plan(req)
  /\ IF PlanSucceeds(req)
     THEN /\ lock' = RenderTOML(FromBuildResult(req))
          /\ lockReq' = req /\ checked' = None
     ELSE UNCHANGED <<lock, lockReq, checked>>
  /\ UNCHANGED built

\* mochi pkg lock --check: the file against what Plan now produces.
CheckLock(req) ==
  /\ lock # None
  /\ Plan(req)
  /\ checked' = IF PlanSucceeds(req) /\ Parses(lock) /\ Check(ParseTOML(lock), FromBuildResult(req))
                THEN req ELSE None
  /\ UNCHANGED <<lock, lockReq, built>>

\* A build of the request, and what becomes of the work directory.
BuildStep ==
  /\ \/ \E req \in Requests : Build(req) \/ Plan(req)
     \/ PrepareVenv \/ WriteVenvRoot \/ Cleanup
  /\ built' = IF last'.op = "build" /\ last'.ok THEN last'.req
              ELSE IF disk' = disk THEN built ELSE None
  /\ UNCHANGED <<lock, lockReq, checked>>

\* Somebody drops a table or a key of one, or a merge brings an older copy of one back,
\* before or after it (MaxTables bounds the file).
MaxTables == 3
Outdated(t) == [f \in DOMAIN t \cup {"sha"} |-> IF f = "sha" THEN Stale ELSE t[f]]

EditLock ==
  /\ lock # None
  /\ \E i \in DOMAIN lock :
       \/ lock' = RemoveAt(lock, i)
       \/ \E f \in {"source", "sha"} :
            lock' = [lock EXCEPT ![i] = [g \in DOMAIN @ \ {f} |-> @[g]]]
       \/ /\ Len(lock) < MaxTables
          /\ \E j \in {i, i + 1} : lock' = InsertAt(lock, j, Outdated(lock[i]))
  /\ lockReq' = None /\ checked' = None
  /\ NotABuild /\ NoFault
  /\ UNCHANGED <<callerDir, workDir, tmps, disk, venv, built>>

Next ==
  /\ ops < MaxOps /\ ops' = ops + 1
  /\ \/ \E req \in Requests : WriteLock(req) \/ CheckLock(req)
     \/ BuildStep
     \/ EditLock

Spec == Init /\ [][Next]_vars

-----------------------------------------------------------------------------
(* Properties.                                                             *)

\* The state is what the actions read: a driver that knows a scratch
\* directory allocated it, a lock has tables, and the requests remembered
\* are requests.
TypeOK ==
  /\ workDir \in {None, callerDir} \cup 1..tmps /\ tmps \in 0..MaxTmp
  /\ DOMAIN disk \subseteq {callerDir, CacheDir} \cup 1..tmps
  /\ lock = None \/ lock \in Seq(Range(lock))
  /\ {lockReq, checked, built} \subseteq Requests \cup {None}
  /\ built # None => workDir \in DOMAIN disk

Unambiguous(m) == \A i, j \in DOMAIN m : Key(m[i]) = Key(m[j]) => i = j

\* Check passes exactly on the manifest it was given: a lock file without
\* duplicate tables passes for a request if and only if, parsed, it is the
\* manifest of that request, in the same order.  (Of duplicate tables only
\* the last is compared.)
CheckExact ==
  lock # None /\ Parses(lock) /\ Unambiguous(lock) =>
    \A req \in {r \in Requests : WellFormed(r) /\ Processed(r) = r.targets} :
      Check(ParseTOML(lock), FromBuildResult(req)) <=> ParseTOML(lock) = FromBuildResult(req)

\* What `mochi pkg lock --check` is for: once a request passed it, a build of
\* that request puts on disk the shims whose hashes the lock file records,
\* edited or not, whatever was built, failed or cleaned up in between.
LockVouches ==
  checked # None /\ built = checked =>
    \A i \in DOMAIN checked.targets :
      LET t == checked.targets[i]
      IN ByKey(ParseTOML(lock), Key(t)).sha = Sha256(disk[workDir][<<t.alias, t.name, "shim">>])

\* The state is well formed, Check compares manifests exactly, and a lock that
\* passes it vouches for what a build writes.
LockSound == TypeOK /\ CheckExact /\ LockVouches
=============================================================================
