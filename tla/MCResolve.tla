----------------------------- MODULE MCResolve ------------------------------
EXTENDS SimpleIndex, UvLock, Pyodide

-----------------------------------------------------------------------------
(* The names, files, targets and worlds the wheel packages are tried on.   *)

WheelFile(dist, interpreter, abi, platform) ==
  Hyphened(<<dist, <<"1">>, interpreter, abi, platform>>) \o <<".whl">>
Cp(v) == <<"cp">> \o v
\* Every class of tag, tags only one package reads, names of too few fields.
MCWheelNames ==
  {WheelFile(d, Cp(<<"3", "1", "3">>), abi, p) :
     d \in {<<"a">>}, p \in {<<"any">>},
     abi \in {<<"none">>, <<"abi3">>, <<"abi2026">>, Cp(<<"3", "1", "3">>), Cp(<<"3", "1", "3", "t">>)}}
  \cup {WheelFile(<<"b">>, <<"pp", "3", "1">>, <<"pp", "3">>, <<"any">>), WheelFile(<<"b">>, <<"py", "3">>, <<"none">>, <<"any">>),
        WheelFile(<<"b">>, Cp(<<"3", "1", "2">>), Cp(<<"3", "1", "2", "t">>), <<"wasm32">>),
        WheelFile(<<"b">>, Cp(<<"3", "1", "4">>), Cp(<<"3", "1", "4">>), <<"wasm32">>),
        WheelFile(<<"b">>, Cp(<<"3", "1", "4">>), Cp(<<"0", "1">>), <<"wasm32">>),
        WheelFile(<<"b">>, Cp(<<"3", "1", "4">>), <<"abi2026">>, <<"any">>),
        WheelFile(<<"b">>, Cp(<<"3", "t">>), <<"abi3">>, <<"any">>), WheelFile(<<"b">>, <<"cp">>, <<"cp", "t">>, <<"any">>),
        Hyphened(<<<<"a">>, Cp(<<"3", "2">>), <<"abi3">>, <<"any">>>>) \o <<".whl">>,
        Hyphened(<<<<"a">>, <<"1">>, Cp(<<"3", "2">>), <<>>, <<"any">>>>) \o <<".whl">>,
        Hyphened(<<<<"a">>, <<"1">>, <<"2">>, Cp(<<"3", "2">>), <<"abi3">>, <<"any">>>>) \o <<".whl">>,
        Hyphened(<<<<"a">>, <<"1">>, Cp(<<"3", "2">>), <<"abi3">>, <<"any">>>>)}

\* Index listings of at most MaxPool wheels.
MaxPool == 3
Listed(names) == {SetToSeq(S) : S \in {T \in SUBSET names : Cardinality(T) \in 1..MaxPool}}
MCPools == Listed(MCWheelNames)

Lib(n, e) == [soname |-> n, external |-> e]
FileOf(suffix, libs, d, g) == [suffix |-> suffix, libs |-> libs, declared |-> d, gilDisabled |-> g]
MCAuditFiles ==
  [f1 |-> FileOf(".so", <<Lib("libutil.so.1", TRUE), Lib("libc.so.6", TRUE), Lib("libssl.so.3", FALSE)>>, TRUE, TRUE),
   f2 |-> FileOf(".so", <<Lib("libssl.so.3", TRUE), Lib("ld-linux-x86-64.so.2", TRUE)>>, TRUE, FALSE),
   f3 |-> FileOf(".pyd", <<Lib("zlib1.dll", TRUE)>>, FALSE, FALSE),
   f4 |-> FileOf(".pyd", <<Lib("VCRUNTIME140_1.dll", TRUE), Lib("ADVAPI32.dll", TRUE)>>, TRUE, TRUE),
   f5 |-> FileOf(".dylib", <<Lib("/usr/lib/libresolv.9.dylib", TRUE)>>, FALSE, TRUE),
   f6 |-> FileOf(".py", <<>>, FALSE, FALSE), f7 |-> FileOf(".so", <<Lib("libstdc++.so.6", TRUE)>>, TRUE, TRUE)]
MCTargetABIs == [major : {3}, minor : {13, 14}, freeThreaded : BOOLEAN]

Wasm(abi, plat) == WheelFile(<<"a">>, abi, abi, plat)
C312 == Cp(<<"3", "1", "2">>)
C313 == Cp(<<"3", "1", "3">>)
Under(f, ns) == <<f>> \o FoldLeft(LAMBDA s, n : s \o <<"_", n>>, <<>>, ns) \o <<"_", "wasm32">>
MCWasmNames ==
  {Wasm(a, Under("pyodide", v)) : a \in {C312, C313}, v \in {<<"2", "1">>, <<"3", "0">>}}
  \cup {WheelFile(<<"b">>, C312, C312, Under("pyodide", <<"2", "1">>)), Wasm(C312, Under("emscripten", <<"3", "1", "2">>)),
        Wasm(C312, Under("emscripten", <<"3", "1", "4">>)), Wasm(C312, Under("pyodide", <<"0", "1">>)),
        Wasm(C312, <<"wasi", "_", "p2", "_", "wasm32">>), Wasm(C313, <<"wasi", "_", "p2">>),
        Wasm(C312, <<"pyodide", "_", "wasm32">>), Wasm(C312, <<"any">>)}
MCWasmPools == Listed(MCWasmNames)
MCTargets == [runtime : {"pyodide", "wasi-p2"}, abi : {<<>>, C312}, min : {<<0, 0>>, <<2, 2>>, <<3, 0>>}]

N(t, k) == [text |-> t, kebab |-> k]
Decl(t, k, p) == [name |-> N(t, k), parts |-> p]
MCDecls == {Decl("a", TRUE, <<>>), Decl("b", TRUE, <<N("a", TRUE)>>), Decl("b", TRUE, <<N("_", FALSE)>>),
            Decl("_", FALSE, <<>>)}
MCDeclLists == UNION {[1..n -> MCDecls] : n \in 0..2}
MCWorlds == [package : {"", "mochi:py-bridge"}, name : {N("a", TRUE)}, records : {<<>>, <<Decl("b", TRUE, <<>>), Decl("a", TRUE, <<>>)>>, <<Decl("a", TRUE, <<>>), Decl("a", TRUE, <<N("_", FALSE)>>)>>},
             imports : MCDeclLists, exports : MCDeclLists]

WheelsInit == WheelInit \/ PyodideInit
WheelsNext == WheelNext \/ PyodideNext
-----------------------------------------------------------------------------
(* Versions, imports, listings and lock files.                             *)

\* Spellings of 1, the phases of a release, epochs, local labels, and texts
\* Parse refuses.
MCVersionTexts ==
  {<<"1">>, <<"1", ".", "0">>, <<"1", ".", "0", ".", "0">>, <<"1", ".", "2">>,
   <<"2", ".", "0">>, <<"2", ".", "0", ".", "1">>,
   <<"1", "!", "1", ".", "2">>, <<"0", "!", "1">>, <<"1", "a", "1">>, <<"1", "b", "0">>,
   <<"1", ".", "0", "rc", "1">>, <<"1", ".dev", "1">>, <<"1", "a", "1", ".dev", "2">>,
   <<"1", ".post", "0">>, <<"1", ".post", "1", ".dev", "0">>, <<"1", "a", "1", ".post", "0">>,
   <<"1", "+", "a">>, <<"1", "+", "a", "-", "1">>, <<"1", "+", "a", ".", "b">>,
   <<"1", "+", "2">>, <<"1", "+", "a", "_">>,
   <<"1", ".">>, <<"v", "1">>, <<"1", ".dev", "1", ".post", "0">>, <<"1", "+">>, <<"!", "1">>, <<>>}

ClauseTexts ==
  {<<o>> \o t : o \in {"~=", "==", "===", "<", ">=", "!="},
                t \in {<<"1", ".", "0">>, <<"2", ".", "0", ".", "0">>, <<"1">>, <<"1", ".", "2", "a", "1">>}}
  \cup {<<"1">>, <<"==">>, <<"==", "1", ".">>, <<" ", "<=", " ", "1", " ">>}
MCSpecifierTexts ==
  {<<>>} \cup ClauseTexts \cup {c \o <<",">> \o d : c, d \in ClauseTexts}

\* Good and bad names, times every kind of qualifier.
NameTexts == {<<"a">>, <<"A", "_", ".", "b">>, <<"a", "-", "1">>, <<"git">>, <<"path">>,
              <<"a", "-">>, <<"_", "a">>, <<>>, <<"a", "#">>}
Qualifiers ==
  {<<>>, <<"@">>} \cup
  {<<"@">> \o q : q \in
     {<<w, "+">> \o u \o r : w \in {"git", "path", "corp"},
                             u \in {<<"https:">>, <<"b">>, <<".">>, <<>>}, r \in {<<>>, <<"#">>, <<"#", "1">>}}
     \cup {<<"+", "https:">>} \cup MCSpecifierTexts}
MCImportBodies == {n \o q : n \in NameTexts, q \in Qualifiers}

H(a, d) == <<a, d>>
\* c: the spellings under which the metadata file is announced.
E(f, hs, y, c) ==
  [filename |-> f, hashes |-> hs, yanked |-> y, core |-> "core" \in c, distInfo |-> "dist-info" \in c]
\* Digests that fit the bytes or do not, md5 only, none, broken; yanked files;
\* metadata announced under the new, the old, both spellings and not at all.
MCListings ==
  {<<E("f", <<H("SHA256", "x")>>, "no", {"core"})>>,
   <<E("f", <<H("sha256", "x"), H("blake3", "y")>>, "", {"dist-info"})>>,
   <<E("f", <<H("blake3", "x"), H("sha256", "x")>>, " broken ", {}), E("g", <<H("md5", "x")>>, "no", {})>>,
   <<E("f", <<>>, "no", {}), E("g", <<H("sha256", "y")>>, "broken", {"core", "dist-info"})>>,
   <<E("f", <<H("sha256", "")>>, "no", {})>>, <<E("", <<H("sha256", "x")>>, "no", {})>>, <<>>}

\* uv.lock documents: strings 1.. are names, versions, URLs and hashes.
MCBase == [u \in 30..33 |-> IF u = 33 THEN 0 ELSE u + 10]
MCHashParts == (50 :> <<"sha256", 60>>) @@ (51 :> <<"blake3", 61>>)
FileTbl(u, h, f) ==
  Tbl([k \in {"url"} \cup (IF h = 0 THEN {} ELSE {"hash"}) \cup (IF f = 0 THEN {} ELSE {"filename"}) |->
        CASE k = "url" -> Str(u) [] k = "hash" -> Str(h) [] k = "filename" -> Str(f)])
Deps(ds) == Pair("dependencies", Arr([i \in DOMAIN ds |-> Tbl("name" :> Str(ds[i]))]))
PackageOf(n, v, rest) ==
  <<ArrayHeader(<<"package">>), Pair("name", Str(n)), Pair("version", Str(v))>> \o rest
Registry == Pair("source", Tbl("registry" :> Str(30)))
Git == Pair("source", Tbl("git" :> Str(31)))
Wheels(ws) == Pair("wheels", Arr(ws))
PackageTexts ==
  {PackageOf(n, v, <<Registry>> \o d \o w \o s) :
     n \in {1, 2}, v \in {10, 11},
     d \in {<<>>, <<Deps(<<3, 1>>)>>, <<Deps(<<>>)>>},
     w \in {<<>>, <<Wheels(<<FileTbl(31, 50, 0), FileTbl(30, 51, 0)>>)>>, <<Wheels(<<FileTbl(33, 50, 45)>>)>>,
            <<Wheels(<<FileTbl(30, 0, 0)>>)>>},
     s \in {<<>>, <<Pair("sdist", FileTbl(32, 50, 0))>>, <<Pair("sdist", FileTbl(33, 52, 0))>>,
            <<Header(<<"package", "metadata">>), Pair("x", Num(1))>>}}
  \cup {PackageOf(2, 10, <<Git>>), <<ArrayHeader(<<"package">>), Pair("name", Str(1))>>,
        PackageOf(1, 10, <<Pair("sdist", Str(3))>>), PackageOf(1, 10, <<Pair("name", Str(2))>>)}
Top == <<Pair("version", Num(1)), Pair("requires-python", Str(7))>>
MCUvDocs ==
  {Top, <<Pair("package", Num(1))>>} \cup {Top \o p : p \in PackageTexts}
  \cup {p \o q : p \in PackageTexts, q \in {r \in PackageTexts : Len(r) \in {4, 6}}}

Init == \/ SemverInit /\ IndexIdle
        \/ ImportSpecInit /\ IndexIdle
        \/ IndexInit
        \/ UvInit /\ IndexIdle
        \/ WheelsInit /\ IndexIdle
Next == \/ (SemverNext \/ ImportSpecNext \/ UvNext \/ WheelsNext) /\ UNCHANGED indexVars
        \/ IndexNext
Spec == Init /\ [][Next]_<<evalVars, indexVars>>
=============================================================================
