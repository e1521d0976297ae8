--------------------------- MODULE ReleaseProofs ---------------------------
(***************************************************************************)
(* Proofs about Publish, Attest and their composition Release, for every   *)
(* release, set of registries, wheels, policies, bundles and number of     *)
(* attempts.                                                               *)
(***************************************************************************)
EXTENDS Release, SeqFacts

----------------------------------------------------------------------------
(* Publish: success is complete, failure leaves a prefix, tokens are own.  *)

\* Both files of every target before n are live.
LiveBefore(n) ==
  \A u \in 1 .. n - 1 : {<<req.registry, u, "sdist">>, <<req.registry, u, "wheel">>} \subseteq live

\* res.Artifacts holds one entry for each target before n, in order.
ListedBefore(n) ==
  /\ artifacts \in Seq([target : Targets, skipped : BOOLEAN]) /\ Len(artifacts) = n - 1
  /\ \A i \in 1 .. n - 1 : artifacts[i] = [target |-> i, skipped |-> ~Real(req)]

\* The parts of the inductive invariant: where a run can be, what is live,
\* what the loop over the targets has done, and which token it holds.
PublishType ==
  /\ req \in PublishRequest /\ attempts \in Nat
  /\ phase \in {"idle", "oidc", "mint", "upload"} /\ result \in {"none", "ok", "error"}
  /\ at \in 1 .. NTargets + 1
  /\ live \subseteq {req.registry} \X Targets \X {"sdist", "wheel"}

LoopInv ==
  /\ phase # "idle" => at \in Targets /\ ListedBefore(at) /\ (Real(req) => LiveBefore(at))
  /\ result = "ok" => /\ phase = "idle" /\ ListedBefore(NTargets + 1)
                      /\ Real(req) => LiveBefore(NTargets + 1)

TokenInv ==
  phase = "upload" /\ ~req.dryRun => api = [registry |-> req.registry, attempt |-> attempts]

PublishInv == PublishType /\ LoopInv /\ LiveIsPrefix /\ TokenInv /\ OwnToken

----------------------------------------------------------------------------
\* What is live after both files, or only the sdist, of the current target
\* were added to a prefix is a prefix.
LEMMA UploadKeepsPrefix ==
  ASSUME PublishType, LiveIsPrefix, at \in Targets, LiveBefore(at), req' = req,
         live' \in {live, live \cup {Files(at)[1]}, live \cup {Files(at)[1], Files(at)[2]}}
  PROVE  /\ LiveIsPrefix'
         /\ live' \subseteq {req.registry} \X Targets \X {"sdist", "wheel"}
         /\ live \subseteq live'
         /\ live' = live \cup {Files(at)[1], Files(at)[2]} =>
              \A u \in 1 .. at : {<<req.registry, u, "sdist">>, <<req.registry, u, "wheel">>} \subseteq live'
PROOF
  <1> USE PublishAssumption DEF Targets, Files
  <1>1. live \subseteq live' /\ live' \subseteq live \cup {<<req.registry, at, "sdist">>, <<req.registry, at, "wheel">>}
    OBVIOUS
  <1>2. live' \subseteq {req.registry} \X Targets \X {"sdist", "wheel"}
    BY <1>1 DEF PublishType
  <1>3. ASSUME NEW t \in Targets, NEW k \in {"sdist", "wheel"}, <<req.registry, t, k>> \in live',
               NEW u \in 1 .. t - 1
        PROVE  {<<req.registry, u, "sdist">>, <<req.registry, u, "wheel">>} \subseteq live'
    <2>1. CASE <<req.registry, t, k>> \in live
      BY <2>1, <1>1, <1>3 DEF LiveIsPrefix
    <2>2. CASE t = at
      BY <2>2, <1>1, <1>3 DEF LiveBefore
    <2> QED BY <2>1, <2>2, <1>1, <1>3
  <1>4. LiveIsPrefix'
    BY <1>3 DEF LiveIsPrefix
  <1>5. live' = live \cup {Files(at)[1], Files(at)[2]} =>
          \A u \in 1 .. at : {<<req.registry, u, "sdist">>, <<req.registry, u, "wheel">>} \subseteq live'
    BY DEF LiveBefore
  <1> QED BY <1>1, <1>2, <1>4, <1>5

\* Record extends the list by the current target and ends the loop after the last.
LEMMA RecordStep ==
  ASSUME PublishType, LoopInv, phase = "upload", Record(~Real(req))
  PROVE  /\ req' = req /\ attempts' = attempts /\ api' = api
         /\ at' \in 1 .. NTargets + 1 /\ at' = at + 1 /\ ListedBefore(at)'
         /\ \/ at # NTargets /\ phase' = "upload" /\ result' = result /\ at' \in Targets
            \/ at = NTargets /\ phase' = "idle" /\ result' = "ok"
PROOF
  <1> USE PublishAssumption DEF Targets
  <1>1. at \in Targets /\ ListedBefore(at)
    BY DEF LoopInv
  <1>2. [target |-> at, skipped |-> ~Real(req)] \in [target : Targets, skipped : BOOLEAN]
    BY <1>1 DEF Real
  <1>3. artifacts' = Append(artifacts, [target |-> at, skipped |-> ~Real(req)])
        /\ at' = at + 1 /\ req' = req /\ attempts' = attempts /\ api' = api
    BY DEF Record
  <1>4. ListedBefore(at)'
    <2>1. Real(req)' = Real(req)
      BY <1>3 DEF Real, EffectiveUploader
    <2>2. /\ artifacts' \in Seq([target : Targets, skipped : BOOLEAN]) /\ Len(artifacts') = at
          /\ artifacts'[at] = [target |-> at, skipped |-> ~Real(req)]
          /\ \A i \in 1 .. at - 1 : artifacts'[i] = artifacts[i]
      BY <1>1, <1>2, <1>3 DEF ListedBefore
    <2> QED BY <1>1, <1>3, <2>1, <2>2 DEF ListedBefore
  <1> QED BY <1>1, <1>3, <1>4 DEF Record, PublishType

----------------------------------------------------------------------------
LEMMA PublishInvInit == PublishInit => PublishInv
PROOF BY PublishAssumption DEF PublishInit, PublishInv, PublishType, LoopInv, LiveIsPrefix,
         TokenInv, OwnToken, Targets

\* Every step of Publish keeps the invariant; only the two real uploads change
\* what is live.
LEMMA PublishInvStep == PublishInv /\ [PublishNext]_publishVars => PublishInv'
PROOF
  <1> SUFFICES ASSUME PublishInv, [PublishNext]_publishVars PROVE PublishInv'
    OBVIOUS
  <1> USE PublishAssumption
  <1>1. ASSUME Refuse PROVE PublishInv'
    BY <1>1 DEF Refuse, locals, PublishInv, PublishType, LoopInv, LiveIsPrefix, TokenInv, OwnToken,
       ListedBefore, LiveBefore
  <1>2. ASSUME Begin PROVE PublishInv'
    <2>1. PublishType'
      BY <1>2 DEF Begin, PublishInv, PublishType
    <2>2. LiveIsPrefix' /\ TokenInv' /\ OwnToken'
      BY <1>2 DEF Begin, PublishInv, LiveIsPrefix, TokenInv, OwnToken
    <2>3. LoopInv'
      BY <1>2 DEF Begin, PublishInv, LoopInv, ListedBefore, LiveBefore, Targets
    <2> QED BY <2>1, <2>2, <2>3 DEF PublishInv
  <1>3. ASSUME GetOIDCToken PROVE PublishInv'
    BY <1>3 DEF GetOIDCToken, PublishInv, PublishType, LoopInv, LiveIsPrefix, TokenInv, OwnToken,
       ListedBefore, LiveBefore
  <1>4. ASSUME OIDCFails PROVE PublishInv'
    BY <1>4 DEF OIDCFails, Fail, PublishInv, PublishType, LoopInv, LiveIsPrefix, TokenInv, OwnToken
  <1>5. ASSUME MintAPIToken PROVE PublishInv'
    BY <1>5 DEF MintAPIToken, PublishInv, PublishType, LoopInv, LiveIsPrefix, TokenInv, OwnToken,
       ListedBefore, LiveBefore
  <1>6. ASSUME MintFails PROVE PublishInv'
    BY <1>6 DEF MintFails, Fail, PublishInv, PublishType, LoopInv, LiveIsPrefix, TokenInv, OwnToken
  <1>7. ASSUME UploadTarget PROVE PublishInv'
    <2>1. /\ phase = "upload" /\ Real(req) /\ Record(~Real(req))
          /\ calls' = calls \cup {[attempt |-> attempts, target |-> at, token |-> api]}
          /\ live' = live \cup {Files(at)[1], Files(at)[2]}
      BY <1>7 DEF UploadTarget
    <2>2. at \in Targets /\ LiveBefore(at)
      BY <2>1 DEF PublishInv, LoopInv
    <2>3. /\ req' = req /\ attempts' = attempts /\ api' = api
          /\ at' \in 1 .. NTargets + 1 /\ at' = at + 1 /\ ListedBefore(at)'
          /\ \/ at # NTargets /\ phase' = "upload" /\ result' = result /\ at' \in Targets
             \/ at = NTargets /\ phase' = "idle" /\ result' = "ok"
      BY <2>1, RecordStep DEF PublishInv
    <2>4. /\ LiveIsPrefix'
          /\ live' \subseteq {req.registry} \X Targets \X {"sdist", "wheel"}
          /\ \A u \in 1 .. at : {<<req.registry, u, "sdist">>, <<req.registry, u, "wheel">>} \subseteq live'
      BY <2>1, <2>2, <2>3, UploadKeepsPrefix DEF PublishInv
    <2>5. PublishType'
      BY <2>3, <2>4 DEF PublishInv, PublishType
    <2>6. LoopInv'
      <3>1. LiveBefore(at)'
        BY <2>2, <2>3, <2>4 DEF LiveBefore, Targets
      <3> QED BY <2>1, <2>2, <2>3, <3>1 DEF PublishInv, LoopInv, LiveBefore, ListedBefore
    <2>7. TokenInv' /\ OwnToken'
      BY <2>1, <2>3 DEF PublishInv, TokenInv, OwnToken
    <2> QED BY <2>4, <2>5, <2>6, <2>7 DEF PublishInv
  <1>8. ASSUME UploadFails PROVE PublishInv'
    <2>1. /\ phase = "upload" /\ Real(req)
          /\ calls' = calls \cup {[attempt |-> attempts, target |-> at, token |-> api]}
          /\ live' \in {live, live \cup {Files(at)[1]}, live \cup {Files(at)[1], Files(at)[2]}}
          /\ phase' = "idle" /\ result' = "error" /\ at' = 1 /\ req' = req /\ attempts' = attempts
      BY <1>8 DEF UploadFails, Fail
    <2>2. at \in Targets /\ LiveBefore(at)
      BY <2>1 DEF PublishInv, LoopInv
    <2>3. LiveIsPrefix' /\ live' \subseteq {req.registry} \X Targets \X {"sdist", "wheel"}
      BY <2>1, <2>2, UploadKeepsPrefix DEF PublishInv
    <2>4. PublishType' /\ LoopInv'
      BY <2>1, <2>3 DEF PublishInv, PublishType, LoopInv
    <2>5. TokenInv' /\ OwnToken'
      BY <2>1 DEF PublishInv, TokenInv, OwnToken
    <2> QED BY <2>3, <2>4, <2>5 DEF PublishInv
  <1>9. ASSUME RecordUpload PROVE PublishInv'
    <2>1. phase = "upload" /\ ~Real(req) /\ Record(~Real(req)) /\ UNCHANGED <<calls, live>>
      BY <1>9 DEF RecordUpload
    <2>2. /\ req' = req /\ attempts' = attempts /\ api' = api
          /\ at' \in 1 .. NTargets + 1 /\ at' = at + 1 /\ ListedBefore(at)'
          /\ \/ at # NTargets /\ phase' = "upload" /\ result' = result /\ at' \in Targets
             \/ at = NTargets /\ phase' = "idle" /\ result' = "ok"
      BY <2>1, RecordStep DEF PublishInv
    <2>3. Real(req)' = Real(req)
      BY <2>2 DEF Real, EffectiveUploader
    <2>4. PublishType' /\ LiveIsPrefix' /\ TokenInv' /\ OwnToken'
      BY <2>1, <2>2 DEF PublishInv, PublishType, LiveIsPrefix, TokenInv, OwnToken
    <2>5. LoopInv'
      BY <2>1, <2>2, <2>3 DEF PublishInv, LoopInv, ListedBefore
    <2> QED BY <2>4, <2>5 DEF PublishInv
  <1>10. ASSUME UNCHANGED publishVars PROVE PublishInv'
    BY <1>10 DEF publishVars, PublishInv, PublishType, LoopInv, LiveIsPrefix, TokenInv, OwnToken,
       ListedBefore, LiveBefore
  <1> QED BY <1>1, <1>2, <1>3, <1>4, <1>5, <1>6, <1>7, <1>8, <1>9, <1>10 DEF PublishNext, PublishStep

----------------------------------------------------------------------------
LEMMA PublishInvariant == PublishSpec => []PublishInv
PROOF
  <1> QED BY PublishInvInit, PublishInvStep, PTL DEF PublishSpec

\* When Publish returns no error through a real uploader, every file of the
\* release, and nothing else, is on the requested registry, and the result
\* lists every target in order, however many runs failed part-way before.
THEOREM SuccessIsComplete == PublishSpec => []SuccessMeansLive
PROOF
  <1>1. PublishInv => SuccessMeansLive
    <2> SUFFICES ASSUME PublishInv, result = "ok" PROVE SuccessMeansLive
      BY DEF SuccessMeansLive, CompleteOnSuccess, ResultListsTargets
    <2> USE PublishAssumption DEF Targets
    <2>1. ListedBefore(NTargets + 1) /\ (Real(req) => LiveBefore(NTargets + 1))
      BY DEF PublishInv, LoopInv
    <2>2. ResultListsTargets
      BY <2>1 DEF ResultListsTargets, ListedBefore
    <2>3. CompleteOnSuccess
      <3> SUFFICES ASSUME Real(req)
                   PROVE  live = {req.registry} \X Targets \X {"sdist", "wheel"}
        BY DEF CompleteOnSuccess
      <3>1. ASSUME NEW t \in Targets, NEW k \in {"sdist", "wheel"}
            PROVE  <<req.registry, t, k>> \in live
        <4>1. t \in 1 .. (NTargets + 1) - 1
          OBVIOUS
        <4>2. {<<req.registry, t, "sdist">>, <<req.registry, t, "wheel">>} \subseteq live
          BY <2>1, <4>1 DEF LiveBefore
        <4> QED BY <4>2
      <3>2. live \subseteq {req.registry} \X Targets \X {"sdist", "wheel"}
        BY DEF PublishInv, PublishType
      <3>3. ASSUME NEW x \in {req.registry} \X Targets \X {"sdist", "wheel"} PROVE x \in live
        <4>1. x = <<req.registry, x[2], x[3]>> /\ x[2] \in Targets /\ x[3] \in {"sdist", "wheel"}
          OBVIOUS
        <4> QED BY <3>1, <4>1
      <3> QED BY <3>2, <3>3
    <2> QED BY <2>2, <2>3 DEF SuccessMeansLive
  <1> QED BY <1>1, PublishInvariant, PTL

\* What is live is always a prefix of the release: the loop over the targets
\* stops at the first failed upload and a later run starts again at the first.
THEOREM FailureLeavesPrefix == PublishSpec => []LiveIsPrefix
PROOF
  <1>1. PublishInv => LiveIsPrefix
    BY DEF PublishInv
  <1> QED BY <1>1, PublishInvariant, PTL

\* No upload that is not a dry run carries a token of another run, another
\* registry or no token at all, whatever provider and failures a run met.
THEOREM TokensAreOwn == PublishSpec => []OwnToken
PROOF
  <1>1. PublishInv => OwnToken
    BY DEF PublishInv
  <1> QED BY <1>1, PublishInvariant, PTL

----------------------------------------------------------------------------
(* Attest: verdicts are exact, and a stricter policy reports more.         *)

\* The state of a Verifier that is used wheel after wheel: what it reported on a
\* wheel is what Policy.Verify and the gate say of the bundle it fetched.
AttestInv ==
  /\ policy \in Policies
  /\ fetched = [w \in Wheels |-> fetched[w]]
  /\ report = [w \in Wheels |-> report[w]]
  /\ verdict = [w \in Wheels |-> verdict[w]]
  /\ \A w \in Wheels : Verified(w) =>
       /\ IsFetch(fetched[w])
       /\ report[w] = Reasons(policy, fetched[w], w)
       /\ verdict[w] = Gate(policy, report[w])

----------------------------------------------------------------------------
\* SubjectByName finds a subject of the name exactly when there is one, and
\* returns the digest of the first.
LEMMA SubjectByNameFinds ==
  ASSUME NEW st, NEW n, Len(st.subjects) \in Nat
  PROVE  LET hit(i) == i \in 1 .. Len(st.subjects) /\ st.subjects[i].name = n
         IN  /\ SubjectByName(st, n).found <=> \E i : hit(i)
             /\ SubjectByName(st, n).found =>
                  \E i : /\ hit(i) /\ SubjectByName(st, n).sha256 = st.subjects[i].sha256
                         /\ \A j : hit(j) => i <= j
PROOF
  <1> DEFINE hits == {i \in 1 .. Len(st.subjects) : st.subjects[i].name = n}
             first == CHOOSE i \in hits : \A j \in hits : i <= j
  <1>1. CASE hits = {}
    BY <1>1 DEF SubjectByName
  <1>2. CASE hits # {}
    <2>1. SubjectByName(st, n) = [found |-> TRUE, sha256 |-> st.subjects[first].sha256]
      BY <1>2 DEF SubjectByName
    <2>2. first \in hits /\ \A j \in hits : first <= j
      <3> HIDE DEF hits
      <3>1. hits \in SUBSET (1 .. Len(st.subjects))
        BY DEF hits
      <3> QED BY <1>2, <3>1, FirstIndex
    <2> HIDE DEF first
    <2> QED BY <2>1, <2>2
  <1> QED BY <1>1, <1>2

\* Policy.Verify finds nothing wrong with a bundle only if the bundle endorses
\* the wheel.
LEMMA CleanIsEndorsed ==
  ASSUME NEW p, NEW f, NEW w, IsFetch(f), Reasons(p, f, w) = {}
  PROVE  Endorses(p, f, w)
PROOF
  <1> DEFINE st == f.stmt
             sub == SubjectByName(st, w.filename)
  <1>1. f.kind = "bundle" /\ f.signed /\ PolicyReasons(p, f, w) = {}
    BY DEF Reasons, ParsesAsBundle
  <1>2. /\ p.types = {} \/ f.media \in p.types
        /\ f.payloadType = "in-toto" /\ st.decodes
        /\ StatementReasons(p, f, w) = {}
    BY <1>1 DEF PolicyReasons, If
  <1>3. /\ st.type = "v1" /\ st.predicate = WantPredicate(p)
        /\ sub.found /\ sub.sha256 = w.sha256
        /\ p.builders = {} \/ st.builder \in p.builders
        /\ PublisherReasons(p, f) = {}
    BY <1>2 DEF StatementReasons, If
  <1>4. p.publishers = {} \/ (p.extractor = "reads" /\ f.identity \in p.publishers)
    BY <1>3 DEF PublisherReasons, If
  <1>5. \E i \in 1 .. Len(st.subjects) :
          st.subjects[i] = [name |-> w.filename, sha256 |-> w.sha256]
    <2>1. /\ Len(st.subjects) \in Nat
          /\ \A i \in 1 .. Len(st.subjects) :
               st.subjects[i] = [name |-> st.subjects[i].name, sha256 |-> st.subjects[i].sha256]
      BY <1>1, <1>2 DEF IsFetch, IsStatement
    <2>2. PICK i \in 1 .. Len(st.subjects) :
            st.subjects[i].name = w.filename /\ sub.sha256 = st.subjects[i].sha256
      BY <1>3, <2>1, SubjectByNameFinds
    <2> QED BY <1>3, <2>1, <2>2
  <1> QED BY <1>1, <1>2, <1>3, <1>4, <1>5 DEF Endorses

\* Policy.Verify finds nothing wrong with a bundle that endorses the wheel and
\* names it once.
LEMMA EndorsedIsClean ==
  ASSUME NEW p, NEW f, NEW w, IsFetch(f), Endorses(p, f, w), ~Ambiguous(f, w)
  PROVE  Reasons(p, f, w) = {}
PROOF
  <1> DEFINE st == f.stmt
             sub == SubjectByName(st, w.filename)
  <1>1. Len(st.subjects) \in Nat
    BY DEF Endorses, IsFetch, IsStatement
  <1>2. PICK i \in 1 .. Len(st.subjects) :
          st.subjects[i] = [name |-> w.filename, sha256 |-> w.sha256]
    BY DEF Endorses
  <1>3. sub.found /\ sub.sha256 = w.sha256
    <2>1. sub.found
      BY <1>1, <1>2, SubjectByNameFinds
    <2>2. PICK k \in 1 .. Len(st.subjects) :
            st.subjects[k].name = w.filename /\ sub.sha256 = st.subjects[k].sha256
      BY <1>1, <2>1, SubjectByNameFinds
    <2>3. k = i
      BY <1>2, <2>2 DEF Ambiguous
    <2> QED BY <1>2, <2>1, <2>2, <2>3
  <1>4. PublisherReasons(p, f) = {}
    BY DEF PublisherReasons, If, Endorses
  <1>5. StatementReasons(p, f, w) = {}
    BY <1>3, <1>4 DEF StatementReasons, If, Endorses
  <1> QED BY <1>5 DEF Reasons, ParsesAsBundle, PolicyReasons, If, Endorses

\* A stricter policy reports at least what a laxer one reports.
LEMMA StricterReportsMore ==
  ASSUME NEW p, NEW q, NEW f, NEW w, Stricter(p, q)
  PROVE  Reasons(p, f, w) \subseteq Reasons(q, f, w)
PROOF
  <1> USE DEF If
  <1>1. PublisherReasons(p, f) \subseteq PublisherReasons(q, f)
    BY DEF PublisherReasons, Stricter, Narrows
  <1>2. StatementReasons(p, f, w) \subseteq StatementReasons(q, f, w)
    BY <1>1 DEF StatementReasons, Stricter, Narrows
  <1>3. PolicyReasons(p, f, w) \subseteq PolicyReasons(q, f, w)
    BY <1>2 DEF PolicyReasons, Stricter, Narrows
  <1> QED BY <1>3 DEF Reasons

----------------------------------------------------------------------------
LEMMA AttestInvInit == AttestInit => AttestInv
PROOF BY DEF AttestInit, AttestInv, Verified

\* A call of Verify keeps the invariant, whatever bundle of the expected shape
\* the fetcher returned.
LEMMA VerifyStep ==
  ASSUME AttestInv, NEW v \in Wheels, NEW f, IsFetch(f), Verify(v, f)
  PROVE  AttestInv'
PROOF
  <1>1. /\ policy' = policy
        /\ fetched' = [fetched EXCEPT ![v] = f]
        /\ report' = [report EXCEPT ![v] = Reasons(policy, f, v)]
        /\ verdict' = [verdict EXCEPT ![v] = Gate(policy, Reasons(policy, f, v))]
    BY DEF Verify
  <1>2. /\ fetched' = [w \in Wheels |-> fetched'[w]]
        /\ report' = [w \in Wheels |-> report'[w]]
        /\ verdict' = [w \in Wheels |-> verdict'[w]]
    BY <1>1 DEF AttestInv
  <1>3. ASSUME NEW w \in Wheels, Verified(w)'
        PROVE  /\ IsFetch(fetched'[w])
               /\ report'[w] = Reasons(policy', fetched'[w], w)
               /\ verdict'[w] = Gate(policy', report'[w])
    <2>1. CASE w = v
      BY <1>1, <2>1 DEF AttestInv
    <2>2. CASE w # v
      BY <1>1, <1>3, <2>2 DEF AttestInv, Verified
    <2> QED BY <2>1, <2>2
  <1> QED BY <1>1, <1>2, <1>3 DEF AttestInv

LEMMA AttestInvStep == AttestInv /\ [AttestNext]_attestVars => AttestInv'
PROOF
  <1> SUFFICES ASSUME AttestInv, [AttestNext]_attestVars PROVE AttestInv'
    OBVIOUS
  <1>1. ASSUME NEW w \in Wheels, NEW f \in Fetches, Verify(w, f) PROVE AttestInv'
    BY <1>1, FetchAssumption, VerifyStep
  <1>2. ASSUME UNCHANGED attestVars PROVE AttestInv'
    BY <1>2 DEF attestVars, AttestInv, Verified
  <1> QED BY <1>1, <1>2 DEF AttestNext

LEMMA AttestInvariant == AttestSpec => []AttestInv
PROOF
  <1> QED BY AttestInvInit, AttestInvStep, PTL DEF AttestSpec

\* The invariant gives both properties of the verdicts.
LEMMA AttestInvVerdicts == AttestInv => VerdictExact
PROOF
  <1> SUFFICES ASSUME AttestInv PROVE VerdictExact
    OBVIOUS
  <1>1. RequiredGate
    <2> SUFFICES ASSUME NEW w \in Wheels, policy.required, verdict[w] = "accepted"
                 PROVE  Endorses(policy, fetched[w], w)
      BY DEF RequiredGate
    <2>1. /\ IsFetch(fetched[w]) /\ report[w] = Reasons(policy, fetched[w], w)
          /\ verdict[w] = Gate(policy, report[w])
      BY DEF AttestInv, Verified
    <2>2. Reasons(policy, fetched[w], w) = {}
      BY <2>1 DEF Gate
    <2> QED BY <2>1, <2>2, CleanIsEndorsed
  <1>2. NoFalseAlarm
    <2> SUFFICES ASSUME NEW w \in Wheels, Verified(w), report[w] # {},
                        Endorses(policy, fetched[w], w), ~Ambiguous(fetched[w], w)
                 PROVE  FALSE
      BY DEF NoFalseAlarm
    <2>1. IsFetch(fetched[w]) /\ report[w] = Reasons(policy, fetched[w], w)
      BY DEF AttestInv
    <2> QED BY <2>1, EndorsedIsClean
  <1> QED BY <1>1, <1>2 DEF VerdictExact

\* A Verifier that requires attestations accepts a wheel only when its bundle
\* endorses it, and reports nothing on a wheel endorsed without ambiguity.
THEOREM VerdictsAreExact == AttestSpec => []VerdictExact
PROOF
  <1> QED BY AttestInvariant, AttestInvVerdicts, PTL

\* Making a policy stricter never loses a violation of any wheel verified.
THEOREM StrictnessIsMonotone == AttestSpec => []Tightening
PROOF
  <1>1. AttestInv => Tightening
    BY StricterReportsMore DEF AttestInv, Tightening
  <1> QED BY <1>1, AttestInvariant, PTL

----------------------------------------------------------------------------
(* Release: the composition implements Publish, and what the publisher put *)
(* on the registry the verifier accepts.                                   *)

\* A step of the composition is a step of Publish or leaves Publish alone.
LEMMA ReleaseStepIsPublishStep == [ReleaseNext]_releaseVars => [PublishNext]_publishVars
PROOF BY DEF ReleaseNext, BeginRelease, PublishSteps, Install, releaseVars, PublishNext

\* The composition implements Publish: serving provenance and verifying wheels
\* neither block nor change a run of Publish.
THEOREM ReleaseImplementsPublish == ReleaseSpec => PublishSpec
PROOF
  <1>1. ReleaseInit => PublishInit
    BY DEF ReleaseInit
  <1> QED BY <1>1, ReleaseStepIsPublishStep, PTL DEF ReleaseSpec, PublishSpec

\* In the composition, too, success means that everything is live.
THEOREM ReleaseSuccessIsComplete == ReleaseSpec => []SuccessMeansLive
PROOF BY ReleaseImplementsPublish, SuccessIsComplete

----------------------------------------------------------------------------
\* Which statement is served where: a live wheel is served with a statement of
\* some run of Publish if the uploader sends statements, and no wheel has any if
\* it does not.
ServedInv ==
  /\ phase # "idle" => stmt \in Statements
  /\ provenance \in [Targets -> {<< >>} \cup Statements]
  /\ SendsStatement(req) =>
       \A t \in Targets : <<req.registry, t, "wheel">> \in live => provenance[t] \in Statements
  /\ ~SendsStatement(req) => \A t \in Targets : provenance[t] = << >>

\* A statement lists both subjects of every target and nothing else.
LEMMA StatementShape ==
  ASSUME NEW s \in Statements
  PROVE  /\ s # << >> /\ Len(s) = 2 * NTargets /\ Len(s) \in Nat
         /\ \A i \in 1 .. Len(s) : \E t \in Targets : s[i] \in Subjects(t)
         /\ \A t \in Targets : \A x \in Subjects(t) : \E i \in 1 .. Len(s) : s[i] = x
PROOF
  <1> DEFINE all == UNION {Subjects(t) : t \in Targets}
             n == 2 * NTargets
  <1>1. n \in Nat /\ n > 0
    BY PublishAssumption
  <1>2. s \in [1 .. n -> all] /\ \A x \in all : \E i \in 1 .. n : s[i] = x
    BY DEF Statements
  <1>3. \A x : x \in all <=> \E t \in Targets : x \in Subjects(t)
    OBVIOUS
  <1> HIDE DEF n, all
  <1>4. Len(s) = n /\ s # << >>
    BY <1>1, <1>2
  <1> QED BY <1>1, <1>2, <1>3, <1>4 DEF n

\* Each subject is a name and a digest.
LEMMA StatementIsStatement ==
  ASSUME NEW s \in Statements, NEW i \in 1 .. Len(s)
  PROVE  s[i] = [name |-> s[i].name, sha256 |-> s[i].sha256]
PROOF
  <1>1. PICK t \in Targets : s[i] \in Subjects(t)
    BY StatementShape
  <1> QED BY <1>1 DEF Subjects

\* What the registry serves has a shape the verifier can meet.
LEMMA BundleIsFetch ==
  ASSUME NEW t \in Targets, provenance[t] \in {<< >>} \cup Statements
  PROVE  IsFetch(BundleOf(t))
PROOF
  <1>1. CASE provenance[t] = << >>
    BY <1>1 DEF BundleOf, IsFetch
  <1>2. CASE provenance[t] \in Statements
    <2>1. provenance[t] # << >> /\ Len(provenance[t]) \in Nat
      BY <1>2, StatementShape
    <2>2. \A i \in 1 .. Len(provenance[t]) :
            provenance[t][i] = [name |-> provenance[t][i].name, sha256 |-> provenance[t][i].sha256]
      BY <1>2, StatementIsStatement
    <2> QED BY <2>1, <2>2 DEF BundleOf, IsFetch, IsStatement
  <1> QED BY <1>1, <1>2

\* In a conforming release only one digest is listed under a wheel's name.
LEMMA NameGivesDigest ==
  ASSUME ConformingRelease, NEW s \in Statements, NEW t \in Targets,
         NEW i \in 1 .. Len(s), s[i].name = WheelOf(t).filename
  PROVE  s[i].sha256 = WheelOf(t).sha256
PROOF
  <1>1. PICK u \in Targets : s[i] \in Subjects(u)
    BY StatementShape
  <1>2. s[i].name = <<DistOf[t], "py3-none-any">>
    BY DEF ConformingRelease, WheelOf
  <1>3. DistOf[u] = DistOf[t] /\ s[i].sha256 = Digest(u, "wheel", HashForm)
    BY <1>1, <1>2 DEF Subjects
  <1> QED BY <1>3 DEF ConformingRelease, WheelOf

\* A trusting policy finds nothing wrong with a conforming wheel that is served
\* with a statement.
LEMMA ServedIsClean ==
  ASSUME ConformingRelease, NEW p, TrustsPublisher(p), NEW t \in Targets,
         provenance[t] \in Statements
  PROVE  Reasons(p, BundleOf(t), WheelOf(t)) = {}
PROOF
  <1> DEFINE b == BundleOf(t)
             w == WheelOf(t)
             s == provenance[t]
             sub == SubjectByName(b.stmt, w.filename)
  <1>1. b = [kind |-> "bundle", signed |-> TRUE, media |-> "v03", payloadType |-> "in-toto",
             stmt |-> [decodes |-> TRUE, type |-> "v1", predicate |-> "slsa",
                       subjects |-> s, builder |-> "mochi"],
             identity |-> "release"]
    BY StatementShape DEF BundleOf
  <1>2. b.stmt.subjects = s /\ Len(s) \in Nat
    BY <1>1, StatementShape
  <1>3. \E i \in 1 .. Len(s) : s[i].name = w.filename
    <2>1. [name |-> <<DistOf[t], "py3-none-any">>, sha256 |-> Digest(t, "wheel", HashForm)] \in Subjects(t)
      BY DEF Subjects
    <2>2. PICK i \in 1 .. Len(s) :
            s[i] = [name |-> <<DistOf[t], "py3-none-any">>, sha256 |-> Digest(t, "wheel", HashForm)]
      BY <2>1, StatementShape
    <2>3. s[i].name = <<DistOf[t], "py3-none-any">>
      BY <2>2
    <2>4. w.filename = <<DistOf[t], "py3-none-any">>
      BY DEF ConformingRelease, WheelOf
    <2> QED BY <2>3, <2>4
  <1>4. sub.found /\ sub.sha256 = w.sha256
    <2> HIDE DEF b, w, s
    <2>1. sub.found
      BY <1>2, <1>3, SubjectByNameFinds
    <2>2. PICK i \in 1 .. Len(s) : s[i].name = w.filename /\ sub.sha256 = s[i].sha256
      BY <1>2, <2>1, SubjectByNameFinds
    <2> USE DEF w, s
    <2> QED BY <2>1, <2>2, NameGivesDigest
  <1> HIDE DEF b, w
  <1>5. PublisherReasons(p, b) = {}
    BY <1>1 DEF PublisherReasons, If, TrustsPublisher
  <1>6. StatementReasons(p, b, w) = {}
    BY <1>1, <1>4, <1>5 DEF StatementReasons, If, TrustsPublisher
  <1>7. PolicyReasons(p, b, w) = {}
    BY <1>1, <1>6 DEF PolicyReasons, If, TrustsPublisher
  <1>8. Reasons(p, b, w) = {}
    BY <1>1, <1>7 DEF Reasons, ParsesAsBundle
  <1> QED BY <1>8 DEF b, w

\* What every trusting policy says of a live wheel.
LEMMA ServedIsExpected ==
  ASSUME ConformingRelease, ServedInv, NEW p, TrustsPublisher(p), NEW t \in Targets,
         <<req.registry, t, "wheel">> \in live
  PROVE  Reasons(p, BundleOf(t), WheelOf(t)) = Expected
PROOF
  <1>1. CASE SendsStatement(req)
    BY <1>1, ServedIsClean DEF ServedInv, Expected
  <1>2. CASE ~SendsStatement(req)
    <2>1. BundleOf(t) = [kind |-> "none"]
      BY <1>2 DEF ServedInv, BundleOf
    <2> QED BY <1>2, <2>1 DEF Reasons, Expected
  <1> QED BY <1>1, <1>2

----------------------------------------------------------------------------
LEMMA ServedInvInit == ReleaseInit => ServedInv
PROOF BY DEF ReleaseInit, PublishInit, ServedInv

\* A file that becomes live while a run of Publish is under way is served with
\* the statement of that run.
LEMMA ServedInvStep ==
  ASSUME PublishInv, ServedInv, [ReleaseNext]_releaseVars
  PROVE  ServedInv'
PROOF
  <1>1. ASSUME BeginRelease PROVE ServedInv'
    BY <1>1 DEF BeginRelease, Begin, ServedInv
  <1>2. ASSUME PublishSteps PROVE ServedInv'
    <2>1. /\ stmt' = stmt /\ req' = req
          /\ provenance' = [t \in Targets |->
               IF SendsStatement(req) /\ <<req.registry, t, "wheel">> \in live' \ live
                 THEN stmt ELSE provenance[t]]
          /\ phase = "idle" => phase' = "idle" /\ live' = live
      BY <1>2 DEF PublishSteps, Serve, Refuse, PublishStep, GetOIDCToken, OIDCFails, MintAPIToken,
         MintFails, UploadTarget, UploadFails, RecordUpload, Fail, Record, locals
    <2>2. live' # live => stmt \in Statements
      BY <2>1 DEF ServedInv
    <2>3. provenance' \in [Targets -> {<< >>} \cup Statements]
      BY <2>1, <2>2 DEF ServedInv
    <2>4. ASSUME SendsStatement(req), NEW t \in Targets, <<req.registry, t, "wheel">> \in live'
          PROVE  provenance'[t] \in Statements
      BY <2>1, <2>2, <2>4 DEF ServedInv
    <2>5. ASSUME ~SendsStatement(req), NEW t \in Targets PROVE provenance'[t] = << >>
      BY <2>1, <2>5 DEF ServedInv
    <2>6. SendsStatement(req)' = SendsStatement(req) /\ Statements' = Statements
      BY <2>1 DEF SendsStatement, EffectiveUploader
    <2>7. phase' # "idle" => stmt' \in Statements'
      BY <2>1, <2>6 DEF ServedInv
    <2> HIDE DEF ServedInv
    <2> QED BY <2>1, <2>3, <2>4, <2>5, <2>6, <2>7 DEF ServedInv
  <1>3. ASSUME NEW t \in Targets, Install(t) PROVE ServedInv'
    BY <1>3 DEF Install, publishVars, ServedInv
  <1>4. ASSUME UNCHANGED releaseVars PROVE ServedInv'
    BY <1>4 DEF releaseVars, publishVars, ServedInv
  <1> QED BY <1>1, <1>2, <1>3, <1>4 DEF ReleaseNext

\* The verdicts of the composition: each is what the policy says of the bundle
\* the registry served.
LEMMA ReleaseAttestStep ==
  ASSUME ServedInv, AttestInv, ConformingRelease, [ReleaseNext]_releaseVars
  PROVE  AttestInv'
PROOF
  <1>1. ASSUME NEW t \in Targets, Install(t) PROVE AttestInv'
    <2>1. <<req.registry, t, "wheel">> \in live /\ Verify(WheelOf(t), BundleOf(t))
      BY <1>1 DEF Install
    <2>2. IsFetch(BundleOf(t))
      BY BundleIsFetch DEF ServedInv
    <2>3. WheelOf(t) \in Wheels
      BY DEF ConformingRelease
    <2> QED BY <2>1, <2>2, <2>3, VerifyStep
  <1>2. ASSUME UNCHANGED attestVars PROVE AttestInv'
    BY <1>2 DEF attestVars, AttestInv, Verified
  <1> QED BY <1>1, <1>2 DEF ReleaseNext, BeginRelease, PublishSteps, Serve, releaseVars

\* Publish never changes its request.
LEMMA RequestIsFixed == [PublishNext]_publishVars => req' = req
PROOF BY DEF PublishNext, publishVars, Refuse, Begin, PublishStep, GetOIDCToken, OIDCFails,
         MintAPIToken, MintFails, UploadTarget, UploadFails, RecordUpload, Fail, Record

\* A trusting policy says of every wheel of the release what is expected.
LEMMA AcceptedStep ==
  ASSUME ServedInv, AttestInv, ConformingRelease, PublishedIsAccepted, [ReleaseNext]_releaseVars
  PROVE  PublishedIsAccepted'
PROOF
  <1>0. req' = req /\ Expected' = Expected
    BY ReleaseStepIsPublishStep, RequestIsFixed DEF Expected, SendsStatement, EffectiveUploader
  <1>1. ASSUME NEW t \in Targets, Install(t), TrustsPublisher(policy) PROVE PublishedIsAccepted'
    <2>1. <<req.registry, t, "wheel">> \in live /\ Verify(WheelOf(t), BundleOf(t))
      BY <1>1 DEF Install
    <2>2. Reasons(policy, BundleOf(t), WheelOf(t)) = Expected
      BY <1>1, <2>1, ServedIsExpected
    <2>3. /\ report' = [report EXCEPT ![WheelOf(t)] = Expected]
          /\ verdict' = [verdict EXCEPT ![WheelOf(t)] = Gate(policy, Expected)]
          /\ policy' = policy
      BY <2>1, <2>2 DEF Verify
    <2>4. \A u \in Targets : WheelOf(u) \in Wheels
      BY DEF ConformingRelease
    <2>5. ASSUME NEW u \in Targets, verdict'[WheelOf(u)] # "pending"
          PROVE  report'[WheelOf(u)] = Expected /\ verdict'[WheelOf(u)] = Gate(policy, Expected)
      <3>1. CASE WheelOf(u) = WheelOf(t)
        BY <2>3, <2>4, <3>1 DEF AttestInv
      <3>2. CASE WheelOf(u) # WheelOf(t)
        <4>1. verdict'[WheelOf(u)] = verdict[WheelOf(u)] /\ report'[WheelOf(u)] = report[WheelOf(u)]
          BY <2>3, <2>4, <3>2 DEF AttestInv
        <4> QED BY <1>1, <2>5, <4>1 DEF PublishedIsAccepted, Verified
      <3> QED BY <3>1, <3>2
    <2> QED BY <1>0, <2>3, <2>5 DEF PublishedIsAccepted, Verified, WheelOf, Gate
  <1>2. ASSUME UNCHANGED attestVars PROVE PublishedIsAccepted'
    BY <1>0, <1>2
       DEF attestVars, PublishedIsAccepted, TrustsPublisher, WantPredicate, Verified, WheelOf, Gate
  <1>3. ASSUME NEW t \in Targets, Install(t), ~TrustsPublisher(policy) PROVE PublishedIsAccepted'
    BY <1>3 DEF Install, Verify, PublishedIsAccepted, TrustsPublisher, WantPredicate
  <1> QED BY <1>1, <1>2, <1>3 DEF ReleaseNext, BeginRelease, PublishSteps, Serve, releaseVars

\* In a conforming release the verdict of a policy that trusts the publisher
\* follows what the Uploader did with the statement: every wheel sent with it is
\* reported clean, also one of a run that then failed or was repeated, and found
\* named in the statement served; every wheel the repository's UVUploader sent is
\* reported to have no attestation, and rejected if the policy requires one.
THEOREM VerifierAcceptsPublished ==
  ASSUME ConformingRelease
  PROVE  ReleaseSpec => []VerifierMirrorsPublisher
PROOF
  <1> DEFINE Inv == PublishInv /\ ServedInv /\ AttestInv /\ PublishedIsAccepted
  <1>1. ReleaseInit => Inv
    <2> SUFFICES ASSUME ReleaseInit PROVE Inv
      OBVIOUS
    <2>1. PublishInv /\ AttestInv /\ ServedInv
      BY PublishInvInit, AttestInvInit, ServedInvInit DEF ReleaseInit
    <2>2. \A t \in Targets : ~Verified(WheelOf(t))
      <3>1. \A w \in Wheels : verdict[w] = "pending"
        BY DEF ReleaseInit, AttestInit
      <3> QED BY <3>1 DEF ConformingRelease, Verified
    <2>3. PublishedIsAccepted
      BY <2>2 DEF PublishedIsAccepted
    <2> QED BY <2>1, <2>3
  <1>2. Inv /\ [ReleaseNext]_releaseVars => Inv'
    <2> SUFFICES ASSUME Inv, [ReleaseNext]_releaseVars PROVE Inv'
      OBVIOUS
    <2> QED BY ReleaseStepIsPublishStep, PublishInvStep, ServedInvStep, ReleaseAttestStep, AcceptedStep
  <1>3. Inv => VerifierMirrorsPublisher
    <2> SUFFICES ASSUME Inv, NEW t \in Targets, provenance[t] # << >>
                 PROVE  \E i \in 1 .. Len(provenance[t]) : provenance[t][i].name = WheelOf(t).filename
      BY DEF VerifierMirrorsPublisher, WheelsAreSubjects
    <2> DEFINE x == [name |-> <<DistOf[t], "py3-none-any">>, sha256 |-> Digest(t, "wheel", HashForm)]
    <2>1. provenance[t] \in Statements
      BY DEF ServedInv
    <2>2. x \in Subjects(t) /\ x.name = WheelOf(t).filename
      BY DEF Subjects, ConformingRelease, WheelOf
    <2> HIDE DEF x
    <2>3. \E i \in 1 .. Len(provenance[t]) : provenance[t][i] = x
      BY <2>1, <2>2, StatementShape
    <2> QED BY <2>2, <2>3
  <1> HIDE DEF Inv
  <1> QED BY <1>1, <1>2, <1>3, PTL DEF ReleaseSpec
=============================================================================
