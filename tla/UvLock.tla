------------------------------- MODULE UvLock -------------------------------
(***************************************************************************)
(* The lock files of the uv bridge (uv/): ParseLockfile decodes the        *)
(* uv.lock that `uv lock` left, FromLockfile turns it into a PEP 751 lock, *)
(* Render writes it as pylock.toml and ParsePyLock reads such a file.      *)
(***************************************************************************)
EXTENDS Evaluation, Toml

CONSTANTS
  UvDocs,    \* the uv.lock documents tried
  Base,      \* Base[u]: the last path segment of URL u, 0 when there is none
  HashParts  \* HashParts[s]: <<algorithm, hex>> for a string "<algo>:<hex>"

OneDotZero == 90 \* "1.0"
Bridge == 91     \* "mochi-python-bridge"
Mochi == 92      \* "mochi"

EachParsed(tables, Op(_)) == [i \in DOMAIN tables |-> Op(tables[i])]
AllOk(results) == \A i \in DOMAIN results : results[i].ok

-----------------------------------------------------------------------------
(* uv.lock.                                                                *)

ParseLockedFile(d) ==
  IF ~Required(d, "url") \/ ~Is(d, "hash", "str") \/ ~Is(d, "filename", "str") \/ ~Is(d, "size", "int") THEN Bad
  ELSE [ok |-> TRUE, url |-> d["url"].s, hash |-> StringOf(d, "hash"), filename |-> StringOf(d, "filename")]
ParseLockedDep(d) ==
  IF ~Required(d, "name") \/ ~IsStringArray(d, "extras") \/ ~Is(d, "marker", "str") THEN Bad
  ELSE [ok |-> TRUE, name |-> d["name"].s]
\* parseLockedSource: the first of the four keys that is there.
ParseLockedSource(d) ==
  LET kinds == SelectSeq(<<"registry", "git", "path", "editable">>, LAMBDA k : k \in DOMAIN d)
  IN IF kinds = <<>> THEN "" ELSE kinds[1]
ParseLockedPackage(d) ==
  LET deps == EachParsed(TablesOf(d, "dependencies"), ParseLockedDep)
      wheels == EachParsed(TablesOf(d, "wheels"), ParseLockedFile)
      sdist == IF "sdist" \in DOMAIN d THEN <<ParseLockedFile(d["sdist"].m)>> ELSE <<>>
  IN IF \/ ~Required(d, "name") \/ ~Required(d, "version") \/ ~Is(d, "source", "tbl")
        \/ ~Is(d, "dependencies", "aot") \/ ~Is(d, "wheels", "aot") \/ ~Is(d, "sdist", "tbl") THEN Bad
     ELSE IF ~AllOk(deps) \/ ~AllOk(wheels) \/ ~AllOk(sdist) THEN Bad
     ELSE [ok |-> TRUE, name |-> d["name"].s, version |-> d["version"].s,
           source |-> IF "source" \in DOMAIN d THEN ParseLockedSource(d["source"].m) ELSE "",
           deps |-> [i \in DOMAIN deps |-> deps[i].name], wheels |-> wheels, sdist |-> sdist]
LockfileOf(doc, pkgs) ==
  IF ~doc.ok THEN Bad
  ELSE IF ~Is(doc.root, "version", "int") \/ ~Is(doc.root, "requires-python", "str")
          \/ ~Is(doc.root, "package", "aot") THEN Bad
  ELSE IF ~AllOk(pkgs) THEN Bad
  ELSE [ok |-> TRUE, requires |-> StringOf(doc.root, "requires-python"), packages |-> pkgs]
DecodeLockfile(doc) == LockfileOf(doc, EachParsed(TablesOf(doc.root, "package"), ParseLockedPackage))
ParseLockfile(lines) == DecodeLockfile(ParseDocument(lines))

-----------------------------------------------------------------------------
(* pylock.toml.                                                            *)

\* SplitHash: both parts present, or nothing.
SplitHash(h) == IF h \in DOMAIN HashParts THEN HashParts[h] ELSE <<>>
HydrateLockedFile(f) ==
  [ok |-> TRUE, name |-> IF f.filename # 0 THEN f.filename ELSE Base[f.url], url |-> f.url,
   hashes |-> IF SplitHash(f.hash) = <<>> THEN NoKeys ELSE SplitHash(f.hash)[1] :> SplitHash(f.hash)[2]]
FromPackage(p) ==
  [ok |-> TRUE, name |-> p.name, version |-> p.version, marker |-> 0, requires |-> 0, deps |-> p.deps,
   wheels |-> [i \in DOMAIN p.wheels |-> HydrateLockedFile(p.wheels[i])],
   sdist |-> [i \in DOMAIN p.sdist |-> HydrateLockedFile(p.sdist[i])]]
FromLockfile(l) ==
  [ok |-> TRUE, lockVersion |-> OneDotZero, createdBy |-> Bridge, requires |-> l.requires,
   packages |-> [i \in DOMAIN l.packages |-> FromPackage(l.packages[i])]]

ParsePyLockFile(d) ==
  IF ~Required(d, "name") \/ ~Required(d, "url") \/ "hashes" \notin DOMAIN d \/ ~Is(d, "hashes", "tbl") THEN Bad
  ELSE LET h == d["hashes"].m
       IN IF DOMAIN h = {} \/ \E a \in DOMAIN h : h[a].t # "str" THEN Bad
          ELSE [ok |-> TRUE, name |-> d["name"].s, url |-> d["url"].s, hashes |-> [a \in DOMAIN h |-> h[a].s]]
ParsePyLockPackage(d) ==
  LET wheels == EachParsed(TablesOf(d, "wheels"), ParsePyLockFile)
      sdist == IF "sdist" \in DOMAIN d THEN <<ParsePyLockFile(d["sdist"].m)>> ELSE <<>>
  IN IF \/ ~Required(d, "name") \/ ~Required(d, "version") \/ ~Is(d, "marker", "str")
        \/ ~Is(d, "requires-python", "str") \/ ~IsStringArray(d, "dependencies")
        \/ ~Is(d, "wheels", "aot") \/ ~Is(d, "sdist", "tbl") THEN Bad
     ELSE IF ~AllOk(wheels) \/ ~AllOk(sdist) THEN Bad
     ELSE [ok |-> TRUE, name |-> d["name"].s, version |-> d["version"].s, marker |-> StringOf(d, "marker"),
           requires |-> StringOf(d, "requires-python"), deps |-> StringArrayOf(d, "dependencies"),
           wheels |-> wheels, sdist |-> sdist]
PyLockOf(doc, pkgs) ==
  IF ~doc.ok THEN Bad
  ELSE IF ~Is(doc.root, "lock-version", "str") \/ ~Is(doc.root, "created-by", "str")
          \/ ~Is(doc.root, "requires-python", "str") \/ ~Is(doc.root, "packages", "aot") THEN Bad
  ELSE IF ~AllOk(pkgs) THEN Bad
  ELSE [ok |-> TRUE, lockVersion |-> StringOf(doc.root, "lock-version"),
        createdBy |-> StringOf(doc.root, "created-by"),
        requires |-> StringOf(doc.root, "requires-python"), packages |-> pkgs]
DecodePyLock(doc) == PyLockOf(doc, EachParsed(TablesOf(doc.root, "packages"), ParsePyLockPackage))
ParsePyLock(lines) == DecodePyLock(ParseDocument(lines))

\* What Render writes: optional strings when not empty, everything sorted.
Optional(key, s) == IF s = 0 THEN <<>> ELSE <<Pair(key, Str(s))>>
RenderFile(f) ==
  <<Pair("name", Str(f.name)), Pair("url", Str(f.url)),
    Pair("hashes", Tbl([a \in DOMAIN f.hashes |-> Str(f.hashes[a])]))>>
SortedPackages(ps) ==
  StableSort(ps, LAMBDA p, q : p.name < q.name \/ (p.name = q.name /\ p.version < q.version))
SortedWheels(ws) == StableSort(ws, LAMBDA v, w : v.name < w.name)
SortedDeps(ds) == StableSort(ds, <)
RenderPackage(p) ==
  <<ArrayHeader(<<"packages">>), Pair("name", Str(p.name)), Pair("version", Str(p.version))>>
  \o Optional("requires-python", p.requires) \o Optional("marker", p.marker)
  \o (IF p.deps = <<>> THEN <<>>
      ELSE <<Pair("dependencies", Arr([i \in DOMAIN p.deps |-> Str(SortedDeps(p.deps)[i])]))>>)
  \o FlattenSeq([i \in DOMAIN p.wheels |->
       <<ArrayHeader(<<"packages", "wheels">>)>> \o RenderFile(SortedWheels(p.wheels)[i])])
  \o FlattenSeq([i \in DOMAIN p.sdist |-> <<Header(<<"packages", "sdist">>)>> \o RenderFile(p.sdist[i])])
Render(l) ==
  <<Pair("lock-version", Str(IF l.lockVersion = 0 THEN OneDotZero ELSE l.lockVersion)),
    Pair("created-by", Str(IF l.createdBy = 0 THEN Mochi ELSE l.createdBy))>>
  \o Optional("requires-python", l.requires)
  \o FlattenSeq([i \in DOMAIN l.packages |-> RenderPackage(SortedPackages(l.packages)[i])])

-----------------------------------------------------------------------------
ExportLock(l) == IF l.ok THEN [ok |-> TRUE, lock |-> l, text |-> Render(FromLockfile(l))] ELSE Bad
Export(lines) == ExportLock(ParseLockfile(lines))
UvInit == Called("uv", UvDocs)
UvNext == Evaluate("uv", Export)

-----------------------------------------------------------------------------
Files(p) == {p.wheels[i] : i \in DOMAIN p.wheels} \cup {p.sdist[i] : i \in DOMAIN p.sdist}

\* FromLockfile, Render and ParsePyLock: a uv.lock re-emitted as pylock.toml can
\* be read exactly when every file in it has a hash of the form <algo>:<hex>;
\* one file without it makes the whole document unreadable to ParsePyLock.
ReadableIffHashed ==
  Returned("uv") /\ out[1].ok =>
    (ParsePyLock(out[1].text).ok <=>
       \A i \in DOMAIN out[1].lock.packages :
         \A f \in Files(out[1].lock.packages[i]) : SplitHash(f.hash) # <<>>)

Ordered(l) ==
  [l EXCEPT !.packages =
     LET ps == SortedPackages(l.packages)
     IN [i \in DOMAIN ps |-> [ps[i] EXCEPT !.deps = SortedDeps(@), !.wheels = SortedWheels(@)]]]
\* Render and ParsePyLock: what is read back is what was written up to the order
\* Render promises - every wheel and sdist with its package, nothing lost - and
\* rendering it again gives the same text.
SameLock(back) ==
  back.ok => back = Ordered(FromLockfile(out[1].lock)) /\ Render(back) = out[1].text
PyLockRoundTrip == Returned("uv") /\ out[1].ok => SameLock(ParsePyLock(out[1].text))

\* The lock uv wrote survives its way through pylock.toml, or is refused there.
LockExport == ReadableIffHashed /\ PyLockRoundTrip
=============================================================================
