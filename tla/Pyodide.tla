------------------------------- MODULE Pyodide ------------------------------
(***************************************************************************)
(* WebAssembly targets (pyodide/): platform tags, the wheel selector and   *)
(* the WIT world a component imports and exports.                          *)
(***************************************************************************)
EXTENDS Wheel

CONSTANTS
  WasmPools,   \* the candidate lists tried
  Targets,     \* the install targets: [runtime, abi, min]
  Worlds       \* the WIT worlds tried

\* A tag that is not one of the families.
NoTag == [kind |-> "unknown", nums |-> <<>>]
\* The numbers between a family's prefix and the _wasm32 suffix.
TagNumbers(raw, family) ==
  LET rest == TrimSuffix(TrimPrefix(raw, <<family, "_">>), <<"_", "wasm32">>)
      parts == Split(rest, {"_"})
  IN IF HasSuffix(raw, <<"_", "wasm32">>) /\ \A i \in DOMAIN parts : AllDigits(parts[i])
     THEN [i \in DOMAIN parts |-> Number(parts[i])] ELSE <<>>
ParsePlatformTag(raw) ==
  CASE HasPrefix(raw, <<"pyodide", "_">>) ->
         LET n == TagNumbers(raw, "pyodide")
         IN IF Len(n) = 2 /\ n[1] > 0 THEN [kind |-> "pyodide", nums |-> n] ELSE NoTag
    [] HasPrefix(raw, <<"emscripten", "_">>) ->
         LET n == TagNumbers(raw, "emscripten")
         IN IF Len(n) = 3 /\ n[1] > 0 THEN [kind |-> "emscripten", nums |-> n] ELSE NoTag
    [] raw \in {<<"wasi", "_", "p2", "_", "wasm32">>, <<"wasi", "_", "p2">>} -> [kind |-> "wasi-p2", nums |-> <<>>]
    [] OTHER -> NoTag
SatisfiesRuntime(tag, runtime) ==
  tag.kind \in (IF runtime = "pyodide" THEN {"pyodide", "emscripten"} ELSE {"wasi-p2"})

\* Vintage.Less, and the emscripten comparison: lexicographic.
NumsLess(a, b) == \E i \in DOMAIN a : Upto(a, i - 1) = Upto(b, i - 1) /\ a[i] < b[i]

PlatformOf(name) == LET parts == Fields(name) IN ParsePlatformTag(parts[Len(parts)])
\* The floor applies to pyodide tags only; <<0, 0>> switches it off.
TagFits(target, tag) ==
  /\ SatisfiesRuntime(tag, target.runtime)
  /\ ~(tag.kind = "pyodide" /\ target.min # <<0, 0>> /\ NumsLess(tag.nums, target.min))
Survives(target, name) ==
  /\ FiveFields(name)
  /\ target.abi # <<>> => WheelABI(name) = target.abi
  /\ TagFits(target, PlatformOf(name))
\* The sort key: pyodide before emscripten, newer first, then the file name.
BetterTag(a, b, s, t) ==
  IF a.kind = b.kind THEN NumsLess(b.nums, a.nums) \/ (a.nums = b.nums /\ TextLess(s, t))
  ELSE a.kind = "pyodide"
Better(s, t) == BetterTag(PlatformOf(s), PlatformOf(t), s, t)
SelectWasm(target, candidates) ==
  LET pool == KeptAt(candidates, {i \in DOMAIN candidates : Survives(target, candidates[i])})
  IN [chosen |-> Upto(StableSort(pool, Better), IF pool = <<>> THEN 0 ELSE 1),
      rejected |-> {c \in Range(candidates) : ~Survives(target, c)}]

-----------------------------------------------------------------------------
(* WIT worlds.  A name is [text, kebab]; a declaration is [name, body], in  *)
(* which body stands for the fields, parameters and result, given by the    *)
(* kebab bits of their names and the records they refer to.                *)

WellNamed(d) == d.name.kebab /\ \A i \in DOMAIN d.parts : d.parts[i].kebab
Distinct(ds) == \A i, j \in DOMAIN ds : i # j => ds[i].name.text # ds[j].name.text
ValidateWorld(w) ==
  /\ w.package # "" /\ w.name.kebab
  /\ \A d \in Range(w.records) \cup Range(w.imports) \cup Range(w.exports) : WellNamed(d)
  /\ Distinct(w.records) /\ Distinct(w.imports \o w.exports)
ByName(ds) == StableSort(ds, LAMBDA c, d : Before(c.name.text, d.name.text))
\* The lines of the world block, in order.
RenderWorld(w) ==
  IF ~ValidateWorld(w) THEN Bad
  ELSE [ok |-> TRUE,
        lines |-> [i \in DOMAIN w.records |-> <<"record", ByName(w.records)[i]>>]
               \o [i \in DOMAIN w.imports |-> <<"import", ByName(w.imports)[i]>>]
               \o [i \in DOMAIN w.exports |-> <<"export", ByName(w.exports)[i]>>]]

-----------------------------------------------------------------------------
PyodideCalls ==
       [what : {"wasm"}, target : Targets, candidates : WasmPools]
  \cup [what : {"world"}, world : Worlds]
PyodideResult(call) ==
  CASE call.what = "wasm" -> SelectWasm(call.target, call.candidates)
    [] call.what = "world" -> RenderWorld(call.world)
PyodideInit == Called("pyodide", PyodideCalls)
PyodideNext == Evaluate("pyodide", PyodideResult)
PyodideOf(w) == Returned("pyodide") /\ in.what = w

(* "Two runs over the same input return the same Chosen": the wheel taken  *)
(* does not depend on the order of the index listing.                      *)
WasmPickIgnoresOrder ==
  PyodideOf("wasm") =>
    \A listing \in Reordered(in.candidates) : SelectWasm(in.target, listing) = out[1]

(* MinVintage is a hard floor and the newest survivor wins: no wheel taken *)
(* is older than the floor, none that may be taken is newer, and nothing   *)
(* is taken only when every candidate was rejected with a reason.          *)
NewestAboveFloor ==
  PyodideOf("wasm") =>
    LET key(n) == PlatformOf(n).nums
        newer(a, b) == a[1] > b[1] \/ (a[1] = b[1] /\ a[2] > b[2]) \/ (Len(a) = 3 /\ Len(b) = 3 /\ a[1] = b[1] /\ a[2] = b[2] /\ a[3] > b[3])
        kind(n) == PlatformOf(n).kind
    IN IF out[1].chosen = <<>> THEN out[1].rejected = Range(in.candidates)
       ELSE LET c == out[1].chosen[1]
            IN /\ kind(c) = "pyodide" => ~newer(in.target.min, key(c))
               /\ kind(c) # "wasi-p2" =>
                    \A d \in Range(in.candidates) \ out[1].rejected :
                      kind(d) = kind(c) => ~newer(key(d), key(c))

(* A rendered world is canonical and unambiguous: listing its declarations *)
(* in another order renders the same lines, and no two functions of it,    *)
(* imported or exported, share a name.                                     *)
WorldCanonical ==
  PyodideOf("world") /\ out[1].ok =>
    /\ RenderWorld([in.world EXCEPT !.records = Reverse(@), !.imports = Reverse(@), !.exports = Reverse(@)])
         = out[1]
    /\ \A i, j \in DOMAIN out[1].lines :
         i # j /\ "record" \notin {out[1].lines[i][1], out[1].lines[j][1]} =>
           out[1].lines[i][2].name.text # out[1].lines[j][2].name.text

(* The wheel renamed, scored, audited and shimmed, and the one taken for   *)
(* WebAssembly, is the right one.                                          *)
WheelLaws ==
  /\ PromotionChain
  /\ TagsAgree /\ ScoreMeansCompatible /\ AuditExact /\ ShimNeverSilent
  /\ WasmPickIgnoresOrder /\ NewestAboveFloor /\ WorldCanonical
=============================================================================
