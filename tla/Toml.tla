-------------------------------- MODULE Toml --------------------------------
(***************************************************************************)
(* The TOML reader (toml/).  A document is its sequence of lines:          *)
(* [[path]] and [path] headers and key = value lines; what is inside a     *)
(* value is already split into a tree.  Strings are numbers that compare   *)
(* like the texts they stand for, 0 being the empty string.                *)
(***************************************************************************)
EXTENDS Integers, Sequences, FiniteSets, SequencesExt, TLC

Str(s) == [t |-> "str", s |-> s]
Num(n) == [t |-> "int", n |-> n]
Tbl(m) == [t |-> "tbl", m |-> m]       \* map[string]any
Arr(items) == [t |-> "arr", items |-> items] \* []any, in the text or in the tree
Aot(items) == [t |-> "aot", items |-> items] \* []map[string]any, elements are maps

Header(path) == [k |-> "table", path |-> path]
ArrayHeader(path) == [k |-> "array", path |-> path]
Pair(key, val) == [k |-> "pair", key |-> key, val |-> val]

NoKeys == [x \in {} |-> 0]

\* parseArray: an array all of whose elements are tables is an array of
\* tables; an empty one is not.
ParseArray(items) ==
  IF items # <<>> /\ \A i \in DOMAIN items : items[i].t = "tbl"
  THEN Aot([i \in DOMAIN items |-> items[i].m]) ELSE Arr(items)
ParseValue(v) == IF v.t = "arr" THEN ParseArray(v.items) ELSE v

\* descendTable from the root along path: the locations it passes, created when
\* missing; the last element stands for an array of tables.  fail is the case of
\* a key that is no table.
Relocated(tbl, key, here, sub) ==
  IF ~sub.ok THEN [ok |-> FALSE]
  ELSE [ok |-> TRUE, tbl |-> (key :> IF here.t = "tbl" THEN Tbl(sub.tbl)
                                     ELSE Aot(Front(here.items) \o <<sub.tbl>>)) @@ tbl]
RECURSIVE Descend(_, _)
Descend(tbl, path) ==
  IF path = <<>> THEN [ok |-> TRUE, tbl |-> tbl]
  ELSE LET here == IF Head(path) \in DOMAIN tbl THEN tbl[Head(path)] ELSE Tbl(NoKeys)
       IN IF here.t \notin {"tbl", "aot"} THEN [ok |-> FALSE]
          ELSE Relocated(tbl, Head(path), here,
                         Descend(IF here.t = "tbl" THEN here.m ELSE Last(here.items), Tail(path)))

\* The table at path (which Descend has made), and the tree with it replaced.
RECURSIVE TableAt(_, _)
TableAt(tbl, path) ==
  IF path = <<>> THEN tbl
  ELSE TableAt(IF tbl[Head(path)].t = "tbl" THEN tbl[Head(path)].m ELSE Last(tbl[Head(path)].items),
               Tail(path))
RECURSIVE PutTable(_, _, _)
PutTable(tbl, path, new) ==
  IF path = <<>> THEN new
  ELSE LET here == tbl[Head(path)]
       IN (Head(path) :>
             IF here.t = "tbl" THEN Tbl(PutTable(here.m, Tail(path), new))
             ELSE Aot(Front(here.items) \o <<PutTable(Last(here.items), Tail(path), new)>>)) @@ tbl

\* One more empty table in parent's array under key.
WithTable(made, path, parent, old) ==
  IF old.t # "aot" THEN [ok |-> FALSE]
  ELSE [ok |-> TRUE,
        tbl |-> PutTable(made.tbl, Front(path), (Last(path) :> Aot(old.items \o <<NoKeys>>)) @@ parent)]
AppendTo(made, path) ==
  LET parent == TableAt(made.tbl, Front(path))
  IN IF ~made.ok THEN [ok |-> FALSE]
     ELSE WithTable(made, path, parent, IF Last(path) \in DOMAIN parent THEN parent[Last(path)] ELSE Aot(<<>>))
\* Mutant: the array starts afresh with every header.
AppendTableReset(root, path) ==
  LET made == Descend(root, Front(path))
  IN IF ~made.ok THEN made
     ELSE [ok |-> TRUE, tbl |-> PutTable(made.tbl, Front(path),
             (Last(path) :> Aot(<<NoKeys>>)) @@ TableAt(made.tbl, Front(path)))]
\* appendArrayOfTables: an empty table behind the ones already at path.
AppendTable(root, path) == AppendTo(Descend(root, Front(path)), path)

\* One turn of parseDocument's loop: st is [ok, root, current], current the path
\* of the table that key = value lines go to.
Opened(st, path, r) ==
  IF r.ok THEN [ok |-> TRUE, root |-> r.tbl, current |-> path] ELSE [st EXCEPT !.ok = FALSE]
ParseLine(st, line) ==
  CASE ~st.ok -> st
    [] st.ok /\ line.k = "array" -> Opened(st, line.path, AppendTable(st.root, line.path))
    [] st.ok /\ line.k = "table" -> Opened(st, line.path, Descend(st.root, line.path))
    [] st.ok /\ line.k = "pair" ->
         LET cur == TableAt(st.root, st.current)
         IN IF line.key \in DOMAIN cur THEN [st EXCEPT !.ok = FALSE]
            ELSE [st EXCEPT !.root =
                    PutTable(st.root, st.current, (line.key :> ParseValue(line.val)) @@ cur)]
ParseDocument(lines) ==
  FoldLeft(ParseLine, [ok |-> TRUE, root |-> NoKeys, current |-> <<>>], lines)

-----------------------------------------------------------------------------
(* The Decoder: a present key of another type is an error.                 *)

Is(d, key, type) == key \in DOMAIN d => d[key].t = type
Required(d, key) == key \in DOMAIN d /\ d[key].t = "str"
\* String, Int and Table answer with the zero value when the key is absent.
StringOf(d, key) == IF key \in DOMAIN d THEN d[key].s ELSE 0
IsStringArray(d, key) ==
  key \in DOMAIN d => d[key].t = "arr" /\ \A i \in DOMAIN d[key].items : d[key].items[i].t = "str"
StringArrayOf(d, key) ==
  IF key \in DOMAIN d THEN [i \in DOMAIN d[key].items |-> d[key].items[i].s] ELSE <<>>
TablesOf(d, key) == IF key \in DOMAIN d THEN d[key].items ELSE <<>>
=============================================================================
