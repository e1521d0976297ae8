------------------------------- MODULE Attest -------------------------------
(***************************************************************************)
(* Package attest: Verifier.Verify fetches the attestation bundle of a     *)
(* wheel the resolver chose, parses it and judges it by the Policy; the    *)
(* install goes ahead unless Verify returns an error.                      *)
(*                                                                         *)
(* A bundle is what the policy can tell apart: whether it decodes, its     *)
(* media type, payload type and statement.  Names and digests are opaque.  *)
(***************************************************************************)
EXTENDS Naturals, Sequences

CONSTANTS
  Wheels,      \* WheelTargets: records with filename and sha256
  Policies,    \* the Policy values under study
  Fetches,     \* what Fetcher.Fetch may come back with
  NoReport     \* a wheel that has not been verified

VARIABLES
  policy,      \* Verifier.Policy
  fetched,     \* what Fetch returned for each wheel
  report,      \* the reasons in each wheel's Report
  verdict      \* "pending", "accepted" (nil error) or "rejected"

attestVars == <<policy, fetched, report, verdict>>

\* A Statement that decoded has a list of Subjects, a name and a digest each.
IsStatement(st) ==
  st.decodes =>
    /\ Len(st.subjects) \in Nat
    /\ \A i \in 1 .. Len(st.subjects) :
         st.subjects[i] = [name |-> st.subjects[i].name, sha256 |-> st.subjects[i].sha256]

\* What ParseBundle accepts carries a payload that may decode to a Statement.
IsFetch(f) == f.kind = "bundle" => (f.signed => IsStatement(f.stmt))

ASSUME FetchAssumption == \A f \in Fetches : IsFetch(f)

\* ParseBundle's structural checks.
ParsesAsBundle(b) == b.kind = "bundle" /\ b.signed

\* Statement.SubjectByName: the first subject of that name.
SubjectByName(stmt, name) ==
  LET hits == {i \in 1 .. Len(stmt.subjects) : stmt.subjects[i].name = name}
  IN  IF hits = {} THEN [found |-> FALSE, sha256 |-> NoReport]
      ELSE LET i == CHOOSE i \in hits : \A j \in hits : i <= j
           IN  [found |-> TRUE, sha256 |-> stmt.subjects[i].sha256]

If(c, reason) == IF c THEN {reason} ELSE {}

\* Mutant: a missing or failing IdentityExtractor is let through.
PublisherReasonsOpen(p, b) ==
  If(p.publishers # {} /\ p.extractor = "reads" /\ b.identity \notin p.publishers,
     "publisher-rejected")

\* The identity check of Policy.Verify.
PublisherReasons(p, b) ==
  IF p.publishers = {} THEN {}
  ELSE IF p.extractor # "reads" THEN {"signature-not-verified"}
  ELSE If(b.identity \notin p.publishers, "publisher-rejected")

\* AcceptedPredicate, SLSA Provenance v1 when empty.
WantPredicate(p) == IF p.predicate = "" THEN "slsa" ELSE p.predicate

\* The checks of Policy.Verify on a statement that decoded.
StatementReasons(p, b, w) ==
  LET st == b.stmt
      sub == SubjectByName(st, w.filename)
  IN  If(st.type # "v1", "statement-type-mismatch")
      \cup If(st.predicate # WantPredicate(p), "predicate-type-mismatch")
      \cup If(~sub.found, "subject-missing")
      \cup If(sub.found /\ sub.sha256 # w.sha256, "digest-mismatch")
      \cup If(p.builders # {} /\ st.builder \notin p.builders, "builder-rejected")
      \cup PublisherReasons(p, b)

\* Mutant: an unsupported bundle type ends the verification.
PolicyReasonsEarly(p, b, w) ==
  IF p.types # {} /\ b.media \notin p.types THEN {"unsupported-bundle-type"}
  ELSE IF b.payloadType # "in-toto" THEN {"payload-type-mismatch"}
  ELSE IF ~b.stmt.decodes THEN {"parse-failure"}
  ELSE StatementReasons(p, b, w)

\* Policy.Verify on a bundle: the reasons in the Report, early returns included.
PolicyReasons(p, b, w) ==
  If(p.types # {} /\ b.media \notin p.types, "unsupported-bundle-type")
  \cup IF b.payloadType # "in-toto" THEN {"payload-type-mismatch"}
       ELSE IF ~b.stmt.decodes THEN {"parse-failure"}
       ELSE StatementReasons(p, b, w)

\* Verifier.Verify: fetch, parse, policy.
Reasons(p, f, w) ==
  CASE f.kind = "none"  -> {"missing-attestation"}
    [] f.kind = "error" -> {"parse-failure"}
    [] OTHER -> IF ParsesAsBundle(f) THEN PolicyReasons(p, f, w) ELSE {"parse-failure"}

\* Policy.gate, and Verifier.Verify's own error returns: only Required rejects.
Gate(p, reasons) == IF p.required /\ reasons # {} THEN "rejected" ELSE "accepted"

AttestInit ==
  /\ policy \in Policies
  /\ fetched = [w \in Wheels |-> NoReport]
  /\ report = [w \in Wheels |-> {}]
  /\ verdict = [w \in Wheels |-> "pending"]

\* Verifier.Verify on wheel w when Fetch returns f.
Verify(w, f) ==
  /\ verdict[w] = "pending"
  /\ fetched' = [fetched EXCEPT ![w] = f]
  /\ report' = [report EXCEPT ![w] = Reasons(policy, f, w)]
  /\ verdict' = [verdict EXCEPT ![w] = Gate(policy, Reasons(policy, f, w))]
  /\ UNCHANGED policy

AttestNext == \E w \in Wheels, f \in Fetches : Verify(w, f)

AttestSpec == AttestInit /\ [][AttestNext]_attestVars

----------------------------------------------------------------------------
(***************************************************************************)
(* Properties                                                              *)
(***************************************************************************)

Verified(w) == verdict[w] # "pending"

\* The pipeline of package attest as a single condition: bundle f vouches for
\* wheel w in the eyes of policy p.
Endorses(p, f, w) ==
  /\ f.kind = "bundle" /\ f.signed
  /\ p.types = {} \/ f.media \in p.types
  /\ f.payloadType = "in-toto" /\ f.stmt.decodes
  /\ f.stmt.type = "v1" /\ f.stmt.predicate = WantPredicate(p)
  /\ \E i \in 1 .. Len(f.stmt.subjects) :
       f.stmt.subjects[i] = [name |-> w.filename, sha256 |-> w.sha256]
  /\ p.builders = {} \/ f.stmt.builder \in p.builders
  /\ p.publishers = {} \/ (p.extractor = "reads" /\ f.identity \in p.publishers)

\* Two subjects of the statement claim the wheel's name.
Ambiguous(f, w) ==
  \E i, j \in 1 .. Len(f.stmt.subjects) :
    i # j /\ f.stmt.subjects[i].name = w.filename /\ f.stmt.subjects[j].name = w.filename

\* With Required set, a wheel is accepted only when its bundle endorses it:
\* missing, undecodable and half-configured cases all fail closed.
RequiredGate ==
  \A w \in Wheels : policy.required /\ verdict[w] = "accepted" => Endorses(policy, fetched[w], w)

\* A wheel its bundle endorses is reported clean, unless the statement lists
\* the wheel's name twice.
NoFalseAlarm ==
  \A w \in Wheels : Verified(w) /\ report[w] # {} =>
    \/ ~Endorses(policy, fetched[w], w)
    \/ Ambiguous(fetched[w], w)

\* q asks for at least what p asks for; an empty list asks for nothing.
Narrows(P, Q) == P = {} \/ (Q # {} /\ Q \subseteq P)

Stricter(p, q) ==
  /\ Narrows(p.types, q.types) /\ Narrows(p.builders, q.builders)
  /\ Narrows(p.publishers, q.publishers)
  /\ WantPredicate(p) = WantPredicate(q) /\ p.extractor = q.extractor

\* Tightening a policy never makes Policy.Verify lose a violation, so adding
\* --allowed-builder or --trusted-publisher to an empty list, or taking one of
\* several away, cannot turn a rejection into an acceptance.
Tightening ==
  \A w \in Wheels, q \in Policies :
    Verified(w) /\ Stricter(policy, q) =>
      report[w] \subseteq Reasons(q, fetched[w], w)

\* Policy.Verify is exact: what a required policy accepts is endorsed, and what
\* is endorsed is not reported.
VerdictExact == RequiredGate /\ NoFalseAlarm
=============================================================================
