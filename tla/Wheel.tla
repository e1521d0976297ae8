-------------------------------- MODULE Wheel -------------------------------
(***************************************************************************)
(* Wheel names and what may be installed: limited-API renaming and the     *)
(* library audit (abi3/), the ABI transition policy (abi2026/) and the     *)
(* free-threaded scoring (freethread/).  A file name is its sequence of    *)
(* tokens: words, decimal digits, "-", "_" and a final ".whl".             *)
(***************************************************************************)
EXTENDS Evaluation, SequencesExt, Functions

CONSTANTS
  WheelNames,  \* the file names tried
  Pools,       \* the candidate lists tried
  AuditFiles,  \* the files a wheel may hold, by path: suffix, libraries, marker
  TargetABIs   \* the interpreters installed into

Digit == [t \in {"0", "1", "2", "3", "4"} |->
            CASE t = "0" -> 0 [] t = "1" -> 1 [] t = "2" -> 2 [] t = "3" -> 3 [] t = "4" -> 4]
AllDigits(s) == s # <<>> /\ \A i \in DOMAIN s : s[i] \in DOMAIN Digit
\* strconv.Atoi on a sequence of digits.
Number(s) == FoldLeft(LAMBDA n, d : 10 * n + Digit[d], 0, s)

\* The byte order of the tokens; where two names differ, neither token begins
\* the other.
TokenOrder == <<"-", ".whl", "0", "1", "2", "3", "4", "_", "a", "abi2026", "abi3", "any", "b", "cp",
                "emscripten", "none", "p2", "pp", "py", "pyodide", "t", "wasi", "wasm32">>
Tokens == {TokenOrder[i] : i \in DOMAIN TokenOrder}
ASSUME WheelNamesAssumption == WheelNames \subseteq Seq(Tokens) /\ Pools \subseteq Seq(WheelNames)
Before(a, b) ==
  LET n == First(TokenOrder, a) m == First(TokenOrder, b) IN n < m
TextLess(s, t) ==
  \/ \E i \in DOMAIN s \cap DOMAIN t : Upto(s, i - 1) = Upto(t, i - 1) /\ Before(s[i], t[i])
  \/ Len(s) < Len(t) /\ IsPrefix(s, t)

HasPrefix(s, p) == IsPrefix(p, s)
HasSuffix(s, p) == IsSuffix(p, s)
TrimPrefix(s, p) == IF HasPrefix(s, p) THEN From(s, Len(p) + 1) ELSE s
TrimSuffix(s, p) == IF HasSuffix(s, p) THEN Upto(s, Len(s) - Len(p)) ELSE s
Hyphened(parts) == FoldLeft(LAMBDA a, p : a \o <<"-">> \o p, Head(parts), Tail(parts))
Fields(name) == Split(TrimSuffix(name, <<".whl">>), {"-"})
IsWheel(name) == HasSuffix(name, <<".whl">>)

-----------------------------------------------------------------------------
(* abi3: the tag triple and the promotion to the limited API.              *)

SplitWheelFilename(name) ==
  LET parts == Fields(name)
      tag   == From(parts, Len(parts) - 2)
  IN IF ~IsWheel(name) \/ Len(parts) < 4 \/ \E i \in DOMAIN tag : tag[i] = <<>> THEN Bad
     ELSE [ok |-> TRUE, prefix |-> Upto(parts, Len(parts) - 3),
           interpreter |-> tag[1], abi |-> tag[2], platform |-> tag[3]]
WheelName(prefix, interpreter, abi, platform) ==
  Hyphened(prefix \o <<interpreter, abi, platform>>) \o <<".whl">>

\* ToABI3 accepts cp<digits> only.
ToABI3(w) == IF HasPrefix(w.interpreter, <<"cp">>) /\ AllDigits(From(w.interpreter, 2))
             THEN [w EXCEPT !.interpreter = <<"cp", "3", "2">>, !.abi = <<"abi3">>] ELSE Bad
Renamed(w) == IF w.ok THEN [ok |-> TRUE, name |-> WheelName(w.prefix, w.interpreter, w.abi, w.platform)]
              ELSE Bad
PromoteWheelToABI3(name) ==
  LET w == SplitWheelFilename(name) IN IF w.ok THEN Renamed(ToABI3(w)) ELSE Bad

-----------------------------------------------------------------------------
(* abi3: the audit of the libraries an extension links against.            *)

Glibc17 == <<"libc.so.6", "libdl.so.2", "libm.so.6", "libpthread.so.0", "libresolv.so.2", "librt.so.1",
             "libutil.so.1">>
Darwin == <<"/usr/lib/libSystem.B.dylib", "/usr/lib/libc++.1.dylib", "/usr/lib/libobjc.A.dylib",
            "/usr/lib/libresolv.9.dylib">>
KnownProfiles ==
  [manylinux_2_17_x86_64  |-> <<"ld-linux-x86-64.so.2">> \o Glibc17,
   manylinux_2_28_x86_64  |-> <<"ld-linux-x86-64.so.2", "libc.so.6", "libdl.so.2", "libgcc_s.so.1", "libm.so.6",
                                "libpthread.so.0", "libresolv.so.2", "librt.so.1", "libstdc++.so.6",
                                "libutil.so.1">>,
   manylinux_2_34_x86_64  |-> <<"ld-linux-x86-64.so.2", "libc.so.6", "libgcc_s.so.1", "libm.so.6",
                                "libstdc++.so.6">>,
   manylinux_2_17_aarch64 |-> <<"ld-linux-aarch64.so.1">> \o Glibc17,
   manylinux_2_28_aarch64 |-> <<"ld-linux-aarch64.so.1", "libc.so.6", "libdl.so.2", "libgcc_s.so.1",
                                "libm.so.6", "libpthread.so.0", "libstdc++.so.6">>,
   musllinux_1_2_x86_64   |-> <<"ld-musl-x86_64.so.1", "libc.musl-x86_64.so.1">>,
   musllinux_1_2_aarch64  |-> <<"ld-musl-aarch64.so.1", "libc.musl-aarch64.so.1">>,
   macosx_11_0_arm64      |-> Darwin,
   macosx_10_15_x86_64    |-> Darwin,
   win_amd64              |-> <<"ADVAPI32.dll", "KERNEL32.dll", "MSVCP140.dll", "USER32.dll", "VCRUNTIME140.dll",
                                "VCRUNTIME140_1.dll", "api-ms-win-crt-runtime-l1-1-0.dll">>,
   win_arm64              |-> <<"ADVAPI32.dll", "KERNEL32.dll", "MSVCP140.dll", "USER32.dll", "VCRUNTIME140.dll",
                                "api-ms-win-crt-runtime-l1-1-0.dll">>]

\* The byte order of the library names the audit meets.
SonameOrder ==
  Darwin \o <<"ADVAPI32.dll", "KERNEL32.dll", "MSVCP140.dll", "USER32.dll", "VCRUNTIME140.dll",
    "VCRUNTIME140_1.dll", "api-ms-win-crt-runtime-l1-1-0.dll", "ld-linux-aarch64.so.1",
    "ld-linux-x86-64.so.2", "ld-musl-aarch64.so.1", "ld-musl-x86_64.so.1", "libc.musl-aarch64.so.1",
    "libc.musl-x86_64.so.1", "libc.so.6", "libdl.so.2", "libgcc_s.so.1", "libm.so.6", "libpthread.so.0",
    "libresolv.so.2", "librt.so.1", "libssl.so.3", "libstdc++.so.6", "libutil.so.1", "zlib1.dll">>
SonameLess(a, b) == First(SonameOrder, a) < First(SonameOrder, b)

\* sort.SearchStrings: bisection for the first entry not below x.
SearchStrings(a, x) ==
  LET step[b \in (1..(Len(a) + 1)) \X (1..(Len(a) + 1))] ==
        IF b[1] >= b[2] THEN b[1]
        ELSE LET h == (b[1] + b[2]) \div 2
             IN IF SonameLess(a[h], x) THEN step[<<h + 1, b[2]>>] ELSE step[<<b[1], h>>]
  IN step[<<1, Len(a) + 1>>]
\* Mutant: where the bisection ends is taken for a match.
AllowsNearest(profile, soname) == SearchStrings(KnownProfiles[profile], soname) <= Len(KnownProfiles[profile])
Allows(profile, soname) ==
  LET i == SearchStrings(KnownProfiles[profile], soname)
  IN i <= Len(KnownProfiles[profile]) /\ KnownProfiles[profile][i] = soname

\* lib.external: provided by the host, not shipped in the wheel.
AuditExtension(f, profile) ==
  LET external == SelectSeq(AuditFiles[f].libs, LAMBDA l : l.external)
      disallowed == SelectSeq(external, LAMBDA l : ~Allows(profile, l.soname))
  IN [path |-> f, ok |-> disallowed = <<>>,
      disallowed |-> StableSort(disallowed, LAMBDA a, b : SonameLess(a.soname, b.soname))]
IsExtensionFilename(f) == AuditFiles[f].suffix \in {".so", ".dylib", ".pyd"}
AuditWheel(files, profile) ==
  LET exts == SelectSeq(files, IsExtensionFilename)
      reports == [i \in DOMAIN exts |-> AuditExtension(exts[i], profile)]
  IN [reports |-> reports, ok |-> \A i \in DOMAIN reports : reports[i].ok]

\* freethread.AuditWheel: every listed path, whatever its suffix.
AuditGil(files) ==
  LET safe(f) == AuditFiles[f].declared /\ AuditFiles[f].gilDisabled
      violations == SelectSeq(files, LAMBDA f : ~safe(f))
  IN [violations |-> violations, ok |-> violations = <<>>]

-----------------------------------------------------------------------------
(* abi2026: classes, policies and the selector.                            *)

IsCPythonABI(raw) ==
  LET rest == TrimSuffix(From(raw, 2), <<"t">>) IN Len(rest) >= 2 /\ AllDigits(rest)
ClassifyABITag(raw) ==
  CASE raw = <<>> -> "unknown"
    [] raw = <<"none">> -> "pure"
    [] raw = <<"abi3">> -> "legacy-abi3"
    [] raw = <<"abi2026">> -> "abi2026"
    [] HasPrefix(raw, <<"cp">>) /\ IsCPythonABI(raw) -> "legacy-cpython"
    [] OTHER -> "unrecognised"
Classified(class) == class \notin {"unknown", "unrecognised"}

Policies == {"legacy", "abi2026", "both"}
Accepts(policy, class) ==
  class \in (CASE policy = "legacy" -> {"pure", "legacy-cpython", "legacy-abi3"}
               [] policy = "abi2026" -> {"pure", "abi2026"}
               [] OTHER -> {"pure", "legacy-cpython", "legacy-abi3", "abi2026"})
PolicyRank(policy, class) ==
  CASE ~Accepts(policy, class) -> 0
    [] class = "abi2026" -> 40
    [] class = "legacy-abi3" -> 30
    [] class = "legacy-cpython" -> 20
    [] class = "pure" -> 10

\* wheelABI and splitWheelFilename of abi2026/ and pyodide/ ask for five fields.
FiveFields(name) == IsWheel(name) /\ Len(Fields(name)) >= 5
WheelABI(name) == LET parts == Fields(name) IN parts[Len(parts) - 1]
Admitted(policy, name) ==
  /\ FiveFields(name)
  /\ Classified(ClassifyABITag(WheelABI(name)))
  /\ Accepts(policy, ClassifyABITag(WheelABI(name)))
\* Mutant: wheels of one class stay in the order the index listed them.
RankedAsListed(policy, s, t) ==
  PolicyRank(policy, ClassifyABITag(WheelABI(s))) > PolicyRank(policy, ClassifyABITag(WheelABI(t)))
RankedBefore(policy, s, t) ==
  LET r == PolicyRank(policy, ClassifyABITag(WheelABI(s)))
      q == PolicyRank(policy, ClassifyABITag(WheelABI(t)))
  IN r > q \/ (r = q /\ TextLess(s, t))
SelectWheel(policy, candidates) ==
  LET pool == KeptAt(candidates, {i \in DOMAIN candidates : Admitted(policy, candidates[i])})
      sorted == StableSort(pool, LAMBDA s, t : RankedBefore(policy, s, t))
  IN [chosen |-> Upto(sorted, IF pool = <<>> THEN 0 ELSE 1),
      rejected |-> {c \in Range(candidates) : ~Admitted(policy, c)}]

Retagged(name, from, interpreter, to) ==
  LET w == SplitWheelFilename(name)
  IN IF ~FiveFields(name) \/ WheelABI(name) # from THEN Bad
     ELSE [ok |-> TRUE, name |-> WheelName(w.prefix, interpreter, to, w.platform)]
PromoteToABI2026(name) == Retagged(name, <<"abi3">>, <<"cp", "3", "1", "4">>, <<"abi2026">>)
DowngradeToABI3(name) == Retagged(name, <<"abi2026">>, <<"cp", "3", "2">>, <<"abi3">>)

-----------------------------------------------------------------------------
(* freethread: parsed tags, compatibility and the support score.           *)

ParseABITag(raw) ==
  LET ft   == HasSuffix(From(raw, 2), <<"t">>)
      rest == TrimSuffix(From(raw, 2), <<"t">>)
  IN IF \/ ~HasPrefix(raw, <<"cp">>) \/ Len(rest) < 2 \/ ~AllDigits(rest)
        \/ Number(Upto(rest, 1)) <= 0
        \/ ft /\ ~(Number(Upto(rest, 1)) = 3 /\ Number(From(rest, 2)) >= 13)
     THEN Bad
     ELSE [ok |-> TRUE, interpreter |-> "cp", major |-> Number(Upto(rest, 1)), minor |-> Number(From(rest, 2)), freeThreaded |-> ft]
\* What the caller passes for a pure wheel.
NoABITag == [ok |-> TRUE, interpreter |-> ""]
\* A target is always a "cp".
Compatible(target, w) ==
  \/ w.interpreter = ""
  \/ /\ w.interpreter = "cp" /\ w.major = target.major /\ w.minor = target.minor
     /\ w.freeThreaded = target.freeThreaded
SameVersion(target, tag) == tag.major = target.major /\ tag.minor = target.minor
Score(target, denied, abi, pure) ==
  LET tag == ParseABITag(abi)
  IN CASE denied -> [class |-> "denied", level |-> "incompatible", err |-> FALSE]
       [] ~denied /\ pure -> [class |-> "pure", level |-> "full", err |-> FALSE]
       [] ~denied /\ ~pure /\ (~tag.ok \/ ~SameVersion(target, tag)) ->
            [class |-> "unknown", level |-> "incompatible", err |-> TRUE]
       [] OTHER ->
            [class |-> IF tag.freeThreaded THEN "free-threaded" ELSE "legacy",
             level |-> IF tag.freeThreaded \/ ~target.freeThreaded THEN "full" ELSE "untested", err |-> FALSE]

-----------------------------------------------------------------------------
\* LockShim.Validate: ident tells whether the name is a Python identifier; a
\* guarded attribute is <<module, attr>>.
ValidShim(shim) ==
  /\ shim.ident
  /\ \A i \in DOMAIN shim.guards : "" \notin Range(shim.guards[i])
  /\ IsInjective(shim.guards)
GuardLess(p, q) == Before(p[1], q[1]) \/ (p[1] = q[1] /\ Before(p[2], q[2]))
RenderLockShim(shim, strategy) ==
  IF ~ValidShim(shim) THEN Bad
  ELSE [ok |-> TRUE, strategy |-> strategy, guards |-> StableSort(shim.guards, GuardLess),
        selfCheck |-> strategy = "gil"]
\* Importing the rendered module; gil is "absent" where sys cannot tell.
ImportShim(source, interp) ==
  [lock |-> IF source.strategy = "pymutex" /\ interp.pymutex THEN "PyMutex" ELSE "Lock",
   warned |-> source.selfCheck /\ interp.gil = "off"]
Shims == [ident : BOOLEAN,
          guards : {<<>>, <<<<"b", "a">>, <<"a", "b">>>>, <<<<"a", "">>>>, <<<<"a", "b">>, <<"a", "a">>, <<"a", "b">>>>}]

-----------------------------------------------------------------------------
WheelCalls ==
       [what : {"select"}, candidates : Pools]
  \cup [what : {"rename"}, name : WheelNames]
  \cup [what : {"score"}, target : TargetABIs, denied : BOOLEAN, name : {n \in WheelNames : FiveFields(n)}]
  \cup [what : {"audit"}, files : UNION {[1..n -> DOMAIN AuditFiles] : n \in 1..2},
        profile : DOMAIN KnownProfiles]
  \cup [what : {"shim"}, shim : Shims, strategy : {"gil", "pymutex"},
        interp : [gil : {"absent", "on", "off"}, pymutex : BOOLEAN]]
PureName(name) == Upto(Reverse(Fields(name)), 2) = <<<<"any">>, <<"none">>>>
WheelResult(call) ==
  CASE call.what = "select" -> [p \in Policies |-> SelectWheel(p, call.candidates)]
    [] call.what = "rename" ->
         LET abi3 == PromoteWheelToABI3(call.name)
             next == IF abi3.ok THEN PromoteToABI2026(abi3.name) ELSE Bad
         IN [abi3 |-> abi3, abi2026 |-> next, back |-> IF next.ok THEN DowngradeToABI3(next.name) ELSE Bad]
    [] call.what = "score" -> Score(call.target, call.denied, WheelABI(call.name), PureName(call.name))
    [] call.what = "audit" -> [libs |-> AuditWheel(call.files, call.profile), gil |-> AuditGil(call.files)]
    [] call.what = "shim" ->
         LET source == RenderLockShim(call.shim, call.strategy)
         IN IF source.ok THEN [source |-> source, import |-> ImportShim(source, call.interp)] ELSE Bad

WheelInit == Called("wheel", WheelCalls)
WheelNext == Evaluate("wheel", WheelResult)
WheelSpec == WheelInit /\ [][WheelNext]_evalVars
WheelOf(w) == Returned("wheel") /\ in.what = w

\* What s looks like in another order.
Reordered(s) ==
  {[i \in DOMAIN s |-> s[pi[i]]] :
     pi \in {pi \in [DOMAIN s -> DOMAIN s] : \A i \in DOMAIN s : \E j \in DOMAIN s : pi[j] = i}}

(* The choice depends on which wheels the index offers, never on the order *)
(* in which it lists them (Selector.Select, "ties break on filename for    *)
(* determinism"), whatever the policy; and every candidate that could not  *)
(* have been chosen is explained in Reasons.                               *)
PickIgnoresOrder ==
  WheelOf("select") =>
    \A policy \in Policies, listing \in Reordered(in.candidates) : SelectWheel(policy, listing) = out[1][policy]

(* Moving a project to the transition policy can only improve its wheel:   *)
(* under "both" the selector takes the better of what the two single       *)
(* policies take, by the order abi2026 > abi3 > cpXY > pure.               *)
BestOfBoth ==
  WheelOf("select") =>
    LET value(c) == IF c = <<>> THEN 0 ELSE PolicyRank("both", ClassifyABITag(WheelABI(c[1])))
        single == {value(out[1][p].chosen) : p \in {"legacy", "abi2026"}}
    IN value(out[1]["both"].chosen) = CHOOSE v \in single : \A u \in single : u <= v

\* The wheel the abi2026 selector takes is the best one on offer.
WheelChoice == PickIgnoresOrder /\ BestOfBoth

(* A wheel promoted by abi3/ and then by abi2026/ keeps its distribution,  *)
(* version, build and platform, the transition selector prefers each       *)
(* promotion to what it replaced (unless that was an abi2026 wheel, which  *)
(* abi3/ takes down to abi3), and DowngradeToABI3 undoes the second.       *)
(* The two packages disagree about names of four fields (no version):      *)
(* abi3/ renames them, abi2026/ refuses them.                              *)
PromotionChain ==
  WheelOf("rename") /\ out[1].abi3.ok =>
    /\ out[1].abi2026.ok = FiveFields(in.name)
    /\ out[1].abi2026.ok =>
         LET names == {in.name, out[1].abi3.name, out[1].abi2026.name}
         IN /\ out[1].back = out[1].abi3
            /\ \A n \in names : SplitWheelFilename(n).prefix = SplitWheelFilename(in.name).prefix
                                /\ SplitWheelFilename(n).platform = SplitWheelFilename(in.name).platform
            /\ ClassifyABITag(WheelABI(in.name)) # "abi2026" =>
                 SelectWheel("both", SetToSeq(names)).chosen = <<out[1].abi2026.name>>

(* Two packages read the same tag: what freethread/ calls a CPython ABI is *)
(* what abi2026/ classifies as one, except cp0Y and free-threaded tags of  *)
(* a version before 3.13, which only abi2026/ lets through.                *)
TagsAgree ==
  WheelOf("score") =>
    LET abi == WheelABI(in.name)
        digits == TrimSuffix(From(abi, 2), <<"t">>)
    IN ParseABITag(abi).ok <=>
         /\ ClassifyABITag(abi) = "legacy-cpython" /\ digits[1] # "0"
         /\ HasSuffix(abi, <<"t">>) => digits[1] = "3" /\ Number(From(digits, 2)) >= 13

(* Score against Compatible: on a free-threaded interpreter a wheel scores *)
(* "full" exactly when it is pure or built for that very interpreter and   *)
(* not denied; on any interpreter, what Compatible accepts scores          *)
(* "full" and "untested" is never another version's wheel.  (On a GIL      *)
(* interpreter Score also calls a free-threaded wheel full, which          *)
(* Compatible refuses.)                                                    *)
ScoreMeansCompatible ==
  WheelOf("score") =>
    LET tag == IF PureName(in.name) THEN NoABITag ELSE ParseABITag(WheelABI(in.name))
        fits == tag.ok /\ Compatible(in.target, tag)
    IN /\ in.target.freeThreaded => ((out[1].level = "full") <=> fits /\ ~in.denied)
       /\ fits /\ ~in.denied => out[1].level = "full"
       /\ out[1].level = "untested" => tag.minor = in.target.minor /\ ~tag.freeThreaded

(* The library audit passes a wheel exactly when every host library of     *)
(* every extension in it is on the profile's list: the bisection over the  *)
(* KnownProfiles tables misses no entry.  A wheel both audits pass has     *)
(* only declared, GIL-free extensions.                                     *)
AuditExact ==
  WheelOf("audit") =>
    /\ out[1].libs.ok <=>
         \A f \in Range(in.files) : IsExtensionFilename(f) =>
           \A i \in DOMAIN AuditFiles[f].libs :
             AuditFiles[f].libs[i].external =>
               AuditFiles[f].libs[i].soname \in Range(KnownProfiles[in.profile])
    /\ out[1].gil.ok => \A f \in Range(in.files) : AuditFiles[f].gilDisabled

(* "The same shim source ships on both runtimes": a free-threaded          *)
(* interpreter that has PyMutex never runs on a plain lock unwarned, no    *)
(* other interpreter is warned, and the order in which the guarded         *)
(* attributes are given does not show in the source.                       *)
ShimNeverSilent ==
  WheelOf("shim") /\ DOMAIN out[1] # {"ok"} =>
    LET free == in.interp.gil = "off"
    IN /\ free /\ in.interp.pymutex /\ out[1].import.lock = "Lock" => out[1].import.warned
       /\ out[1].import.warned => free /\ out[1].import.lock = "Lock"
       /\ RenderLockShim([in.shim EXCEPT !.guards = Reverse(@)], in.strategy) = out[1].source
=============================================================================
