----------------------------- MODULE ImportSpec -----------------------------
(***************************************************************************)
(* The body of `import python "..."` (importspec/).  A body is a sequence  *)
(* of tokens: the characters of a distribution name ("a", "A" and digits,  *)
(* "-", "_", "."), or one of the two words "git" and "path" the grammar    *)
(* reserves behind "@"; "@", "+", "#"; a URL with its scheme ("https:"),   *)
(* any other word, and the tokens of a version specifier.                  *)
(***************************************************************************)
EXTENDS Semver

CONSTANT ImportBodies \* the bodies tried

Separators == {"-", "_", "."}
Alphanumeric == {"a", "A", "b", "1", "2", "git", "path", "corp"}

\* validateName: a letter or a digit at both ends, separators only between.
ValidName(n) ==
  /\ n # <<>>
  /\ n[1] \in Alphanumeric /\ n[Len(n)] \notin Separators
  /\ \A i \in DOMAIN n : n[i] \in Alphanumeric \cup Separators

ToLower(n) == [i \in DOMAIN n |-> IF n[i] = "A" THEN "a" ELSE n[i]]
\* Mutant: every separator becomes "-" by itself.
NormaliseNameRuns(n) == [i \in DOMAIN n |-> IF n[i] \in Separators THEN "-" ELSE ToLower(n)[i]]
\* normaliseName: lower case, a run of separators becomes one "-", none at the end.
NormaliseName(n) ==
  LET low == ToLower(n)
      kept == SelectSeq([i \in DOMAIN n |-> <<i, low[i]>>],
                        LAMBDA p : ~(p[2] \in Separators /\ p[1] > 1 /\ low[p[1] - 1] \in Separators))
      r == [i \in DOMAIN kept |-> IF kept[i][2] \in Separators THEN "-" ELSE kept[i][2]]
  IN IF r # <<>> /\ r[Len(r)] = "-" THEN Front(r) ELSE r

\* isURLLike: a scheme the code knows.
URLLike(u) == u # <<>> /\ u[1] = "https:"
\* path.Clean leaves "." or "/".
UnusablePath(p) == p \in {<<".">>, <<"/">>}

BlankSpec == [ok |-> TRUE, name |-> <<>>, rawName |-> <<>>, source |-> "registry",
              specifier |-> [ok |-> TRUE, clauses |-> <<>>],
              indexURL |-> <<>>, gitURL |-> <<>>, gitRev |-> <<>>, localPath |-> <<>>]
Named(n, source) == [BlankSpec EXCEPT !.name = NormaliseName(n), !.rawName = n, !.source = source]

WithSpecifier(n, sp) == IF ~ValidName(n) \/ ~sp.ok THEN Bad ELSE [Named(n, "registry") EXCEPT !.specifier = sp]
NewRegistry(n, ver) == WithSpecifier(n, ParseSpecifier(ver))
NewIndex(n, idx, u) ==
  IF ~ValidName(n) \/ idx = <<>> \/ ~URLLike(u) THEN Bad ELSE [Named(n, "index") EXCEPT !.indexURL = u]
NewGit(n, rest) ==
  LET hash == First(rest, "#")
      u == IF hash = 0 THEN rest ELSE Upto(rest, hash - 1)
      rev == IF hash = 0 THEN <<>> ELSE From(rest, hash + 1)
  IN IF ~ValidName(n) \/ u = <<>> \/ (hash # 0 /\ rev = <<>>) \/ ~URLLike(u) THEN Bad
     ELSE [Named(n, "git") EXCEPT !.gitURL = u, !.gitRev = rev]
NewPath(n, p) ==
  IF ~ValidName(n) \/ p = <<>> \/ UnusablePath(p) THEN Bad ELSE [Named(n, "path") EXCEPT !.localPath = p]

\* Parse: the reserved words first, then "<word>+<URL>", then a specifier.
ParseSpec(s) ==
  LET at == First(s, "@")
      n == Upto(s, at - 1)
      rest == From(s, at + 1)
      reserved(w) == Len(rest) >= 2 /\ rest[1] = w /\ rest[2] = "+"
      plus == First(rest, "+")
  IN IF s = <<>> \/ Trimmed(s) # s \/ (at # 0 /\ rest = <<>>) THEN Bad
     ELSE IF at = 0 THEN NewRegistry(s, <<>>)
     ELSE IF reserved("git") THEN NewGit(n, From(rest, 3))
     ELSE IF reserved("path") THEN NewPath(n, From(rest, 3))
     ELSE IF plus # 0 /\ URLLike(From(rest, plus + 1))
          THEN NewIndex(n, Upto(rest, plus - 1), From(rest, plus + 1))
     ELSE NewRegistry(n, rest)

\* Spec.String: an index source is written under the distribution's own name.
SpecString(s) ==
  CASE s.source = "git" -> s.rawName \o <<"@", "git", "+">> \o s.gitURL
                             \o (IF s.gitRev = <<>> THEN <<>> ELSE <<"#">> \o s.gitRev)
    [] s.source = "path" -> s.rawName \o <<"@", "path", "+">> \o s.localPath
    [] s.source = "index" -> s.rawName \o <<"@">> \o s.rawName \o <<"+">> \o s.indexURL
    [] s.source = "registry" ->
         LET ver == SpecifierString(s.specifier)
         IN IF ver = <<>> THEN s.rawName ELSE s.rawName \o <<"@">> \o ver

-----------------------------------------------------------------------------
ImportSpecInit == Called("importspec.Parse", ImportBodies)
ImportSpecNext == Evaluate("importspec.Parse", ParseSpec)

-----------------------------------------------------------------------------
\* Parse and Spec.String: what String writes for a parsed spec is read back as
\* the same spec, from whatever the body was spelled like.  The exception is an
\* index source of a distribution called "git" or "path", which String writes
\* under the name the grammar reserves.
SpecRoundTrip ==
  Returned("importspec.Parse") /\ out[1].ok =>
    LET again == ParseSpec(SpecString(out[1]))
    IN \/ again = out[1]
       \/ out[1].source = "index" /\ out[1].rawName \in {<<"git">>, <<"path">>}
=============================================================================
