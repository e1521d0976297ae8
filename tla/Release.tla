------------------------------ MODULE Release ------------------------------
(***************************************************************************)
(* The two halves of trusted publishing together: package publish builds a *)
(* statement over the files of a release and uploads them; package attest  *)
(* later verifies the wheels it finds on the registry.  The statement is   *)
(* built once per run of Publish, before any upload, and handed to the      *)
(* Uploader with each target.  UVUploader drops it; an Uploader that signs  *)
(* it and sends it makes the registry serve it next to the wheel.          *)
(***************************************************************************)
EXTENDS Publish, Attest

CONSTANTS
  DistOf,     \* the distribution (a rank in name order) of each target
  TagOf,      \* the compatibility tag in the name of each target's wheel file
  HashForm    \* how the caller writes PublishTarget.WheelSHA256: "hex" or "b64"

VARIABLES
  stmt,       \* the subjects of the statement of the running Publish
  provenance  \* the subjects served with each wheel, << >> when there are none

releaseVars == <<publishVars, attestVars, stmt, provenance>>

\* The digest of the bytes of one file, in the form the publisher was given.
Digest(t, k, form) == <<t, k, form>>

\* Mutant: the digests of sdist and wheel are swapped.
SubjectsSwapped(t) ==
  { [name |-> <<DistOf[t], "sdist">>, sha256 |-> Digest(t, "wheel", HashForm)],
    [name |-> <<DistOf[t], "py3-none-any">>, sha256 |-> Digest(t, "sdist", HashForm)] }

\* The two subjects BuildStatement adds for a target: distFilename names every
\* wheel py3-none-any, and the hash is copied as it is.
Subjects(t) ==
  { [name |-> <<DistOf[t], "sdist">>, sha256 |-> Digest(t, "sdist", HashForm)],
    [name |-> <<DistOf[t], "py3-none-any">>, sha256 |-> Digest(t, "wheel", HashForm)] }

\* Name order, in which "-" of a wheel name sorts before "." of an sdist name.
NameLE(m, n) ==
  m[1] < n[1] \/ (m[1] = n[1] /\ (m[2] = "py3-none-any" \/ n[2] = "sdist"))

\* BuildStatement: all subjects sorted by name.  sort.Slice leaves the order of
\* equal names open.
Statements ==
  LET all == UNION {Subjects(t) : t \in Targets}
      n == 2 * NTargets
  IN  { s \in [1 .. n -> all] :
          /\ \A x \in all : \E i \in 1 .. n : s[i] = x
          /\ \A i \in 1 .. n - 1 : NameLE(s[i].name, s[i + 1].name) }

\* The bundle the registry serves for a wheel.
BundleOf(t) ==
  IF provenance[t] = << >> THEN [kind |-> "none"]
  ELSE [kind |-> "bundle", signed |-> TRUE, media |-> "v03", payloadType |-> "in-toto",
        stmt |-> [decodes |-> TRUE, type |-> "v1", predicate |-> "slsa",
                  subjects |-> provenance[t], builder |-> "mochi"],
        identity |-> "release"]

\* The WheelTarget the resolver commits to: the file's own name and the
\* lower-case hex digest of its bytes.
WheelOf(t) ==
  [filename |-> <<DistOf[t], TagOf[t]>>, sha256 |-> Digest(t, "wheel", "hex")]

ReleaseInit ==
  /\ PublishInit /\ AttestInit
  /\ stmt = << >> /\ provenance = [t \in Targets |-> << >>]

\* A run of Publish starts and builds its statement.
BeginRelease == Begin /\ stmt' \in Statements /\ UNCHANGED <<attestVars, provenance>>

\* UVUploader.Upload builds its command from the paths, the registry and the
\* token alone; only an Uploader of the caller may use call.AttestationJSON.
SendsStatement(r) == EffectiveUploader(r) = "signing"

\* A wheel that becomes live is served with the statement it was sent with, if
\* any; a wheel that is sent again keeps the provenance it has.
Serve ==
  /\ provenance' = [t \in Targets |->
       IF SendsStatement(req) /\ <<req.registry, t, "wheel">> \in live' \ live
         THEN stmt ELSE provenance[t]]
  /\ UNCHANGED <<attestVars, stmt>>

PublishSteps == (Refuse \/ PublishStep) /\ Serve

\* The installer verifies the wheel of target t, if the registry serves it.
Install(t) ==
  /\ <<req.registry, t, "wheel">> \in live
  /\ Verify(WheelOf(t), BundleOf(t))
  /\ UNCHANGED <<publishVars, stmt, provenance>>

ReleaseNext == BeginRelease \/ PublishSteps \/ \E t \in Targets : Install(t)

ReleaseSpec == ReleaseInit /\ [][ReleaseNext]_releaseVars

----------------------------------------------------------------------------
\* Every wheel the registry serves is named in the statement served with it:
\* distFilename is the canonical filename the registry lists the artifact under.
WheelsAreSubjects ==
  \A t \in Targets : provenance[t] # << >> =>
    \E i \in 1 .. Len(provenance[t]) : provenance[t][i].name = WheelOf(t).filename

\* What the caller must observe, and no code checks: digests in lower-case hex,
\* pure wheels, one target per distribution.
ConformingRelease ==
  /\ HashForm = "hex"
  /\ \A t \in Targets : TagOf[t] = "py3-none-any" /\ WheelOf(t) \in Wheels
  /\ \A t, u \in Targets : DistOf[t] = DistOf[u] => t = u

\* A policy that accepts what the publisher signs.
TrustsPublisher(p) ==
  /\ p.types = {} \/ "v03" \in p.types
  /\ WantPredicate(p) = "slsa"
  /\ p.builders = {} \/ "mochi" \in p.builders
  /\ p.publishers = {} \/ (p.extractor = "reads" /\ "release" \in p.publishers)

\* What a trusting verifier has to say about the wheels of the release.
Expected == IF SendsStatement(req) THEN {} ELSE {"missing-attestation"}

\* The verifier mirrors what the uploader did with the statement.  A policy that
\* trusts the publisher finds nothing wrong with a wheel sent with its
\* statement, also one that went live in a run of Publish that then failed, or
\* that was repeated with a new statement.  A wheel UVUploader has published
\* has no attestation: a policy that requires one rejects it, whatever Publish
\* built, and any other lets it through with that one reason.
PublishedIsAccepted ==
  TrustsPublisher(policy) => \A t \in Targets : Verified(WheelOf(t)) =>
    /\ report[WheelOf(t)] = Expected
    /\ verdict[WheelOf(t)] = Gate(policy, Expected)

\* Publisher and verifier mirror each other, statements and their absence alike.
VerifierMirrorsPublisher == PublishedIsAccepted /\ WheelsAreSubjects
=============================================================================
