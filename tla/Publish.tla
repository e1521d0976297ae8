------------------------------ MODULE Publish ------------------------------
(***************************************************************************)
(* Package publish: Orchestrator.Publish takes a request through           *)
(* validation, the attestation statement, the OIDC token, the registry's   *)
(* API token and one upload per target.  A caller may publish the same     *)
(* release again after an error.                                           *)
(*                                                                         *)
(* A target is the sdist and the wheel of one distribution; its paths,     *)
(* sizes and hashes only matter for being well formed.  `uv publish` sends *)
(* the two files of a target one after the other.                          *)
(***************************************************************************)
EXTENDS Naturals, Sequences

CONSTANTS
  NTargets,     \* bound: targets of the release
  Registries,   \* RegistryPyPI and RegistryTestPyPI
  None,         \* no registry: an unknown RegistryKind, a token nobody issued
  MaxAttempts   \* bound: how often the caller runs Publish

ASSUME PublishAssumption ==
  /\ NTargets \in Nat \ {0} /\ MaxAttempts \in Nat
  /\ None \notin Registries

Targets == 1 .. NTargets

\* OIDCProvider: nil, the GitHub runner's, or a StaticProvider, whose token was
\* issued for one audience.
Provider ==
  [kind : {"nil", "runner"}, aud : {None}] \cup [kind : {"static"}, aud : Registries]

\* PublishRequest; uploader "default" is a nil Uploader, "uv" a UVUploader,
\* "signing" an Uploader of the caller that signs AttestationJSON and sends it along.
PublishRequest ==
  [registry : Registries \cup {None}, wellFormed : BOOLEAN, dryRun : BOOLEAN,
   provider : Provider, uploader : {"default", "recording", "uv", "signing"}]

\* An API token, by the registry that issued it and the Publish that asked.
NoToken == [registry |-> None, attempt |-> 0]

VARIABLES
  req,        \* the request of the release
  attempts,   \* calls of Publish so far
  phase,      \* where the running Publish is
  oidc,       \* audience of the OIDC token it holds
  api,        \* the API token it holds (apiToken)
  at,         \* index of the next target to upload
  result,     \* what the last Publish returned
  artifacts,  \* targets in res.Artifacts, and whether they were skipped
  minted,     \* API tokens issued over all attempts
  calls,      \* UploadCalls that reached a real uploader
  live        \* files the registry serves: <<registry, target, kind>>

publishVars == <<req, attempts, phase, oidc, api, at, result,
                 artifacts, minted, calls, live>>

\* The fields the local variables of one Publish live in.
locals == <<oidc, api, at, artifacts>>

\* PublishRequest.Validate.
Validate(r) ==
  /\ r.registry \in Registries
  /\ r.wellFormed
  /\ r.dryRun \/ r.provider.kind # "nil"

\* The uploader Publish uses: the caller's, or one chosen by DryRun.
EffectiveUploader(r) ==
  IF r.uploader # "default" THEN r.uploader
  ELSE IF r.dryRun THEN "recording" ELSE "uv"

Real(r) == EffectiveUploader(r) # "recording"

PublishInit ==
  /\ req \in PublishRequest
  /\ attempts = 0 /\ phase = "idle" /\ result = "none"
  /\ oidc = None /\ api = NoToken
  /\ at = 1 /\ artifacts = << >> /\ minted = 0 /\ calls = {} /\ live = {}

\* Publish is called and the request does not validate.
Refuse ==
  /\ phase = "idle" /\ result # "ok" /\ attempts < MaxAttempts
  /\ ~Validate(req)
  /\ attempts' = attempts + 1 /\ result' = "error"
  /\ UNCHANGED <<req, phase, locals, minted, calls, live>>

\* Mutant: a later run believes it still holds a token.
BeginWithoutToken ==
  /\ phase = "idle" /\ result # "ok" /\ attempts < MaxAttempts
  /\ Validate(req)
  /\ attempts' = attempts + 1 /\ result' = "none"
  /\ phase' = IF req.dryRun \/ attempts > 0 THEN "upload" ELSE "oidc"
  /\ oidc' = None /\ api' = NoToken
  /\ at' = 1 /\ artifacts' = << >>
  /\ UNCHANGED <<req, minted, calls, live>>

\* Publish is called: the statement is built; a dry run goes straight to the
\* uploads with an empty token.
Begin ==
  /\ phase = "idle" /\ result # "ok" /\ attempts < MaxAttempts
  /\ Validate(req)
  /\ attempts' = attempts + 1 /\ result' = "none"
  /\ phase' = IF req.dryRun THEN "upload" ELSE "oidc"
  /\ oidc' = None /\ api' = NoToken
  /\ at' = 1 /\ artifacts' = << >>
  /\ UNCHANGED <<req, minted, calls, live>>

\* Publish returns an error and no result.
Fail ==
  /\ phase' = "idle" /\ result' = "error"
  /\ oidc' = None /\ api' = NoToken
  /\ at' = 1 /\ artifacts' = << >>
  /\ UNCHANGED <<req, attempts>>

\* OIDCProvider.Token: the runner issues a token for the registry's audience,
\* a StaticProvider returns the one it has, whatever the audience.
GetOIDCToken ==
  /\ phase = "oidc"
  /\ oidc' = IF req.provider.kind = "runner" THEN req.registry ELSE req.provider.aud
  /\ phase' = "mint"
  /\ UNCHANGED <<req, attempts, api, at, artifacts, result, minted, calls, live>>

\* No runner environment, a failed request, a bad status, an empty token.
OIDCFails ==
  /\ phase = "oidc" /\ Fail /\ UNCHANGED <<minted, calls, live>>

\* MintAPIToken at the registry's endpoint, which only accepts its audience.
MintAPIToken ==
  /\ phase = "mint" /\ oidc = req.registry
  /\ api' = [registry |-> req.registry, attempt |-> attempts]
  /\ minted' = minted + 1
  /\ phase' = "upload"
  /\ UNCHANGED <<req, attempts, oidc, at, artifacts, result, calls, live>>

\* The endpoint refuses or the answer does not decode.  A token may have been
\* issued and lost.
MintFails ==
  /\ phase = "mint" /\ Fail
  /\ minted' \in {minted, minted + 1}
  /\ UNCHANGED <<calls, live>>

\* The files of a target, in the order uv sends them.
Files(t) == <<<<req.registry, t, "sdist">>, <<req.registry, t, "wheel">>>>

\* Mutant: the loop over the targets ends one early.
RecordShort(skipped) ==
  /\ artifacts' = Append(artifacts, [target |-> at, skipped |-> skipped])
  /\ at' = at + 1
  /\ IF at + 1 >= NTargets
       THEN phase' = "idle" /\ result' = "ok"
       ELSE phase' = phase /\ result' = result
  /\ UNCHANGED <<req, attempts, oidc, api, minted>>

\* The artifact of the current target is recorded; after the last one Publish returns.
Record(skipped) ==
  /\ artifacts' = Append(artifacts, [target |-> at, skipped |-> skipped])
  /\ at' = at + 1
  /\ IF at = NTargets
       THEN phase' = "idle" /\ result' = "ok"
       ELSE phase' = phase /\ result' = result
  /\ UNCHANGED <<req, attempts, oidc, api, minted>>

\* A real Upload succeeds: both files are on the registry.  The token of a dry
\* run is empty, but uv runs with --trusted-publishing always.
UploadTarget ==
  /\ phase = "upload" /\ Real(req)
  /\ calls' = calls \cup {[attempt |-> attempts, target |-> at, token |-> api]}
  /\ live' = live \cup {Files(at)[1], Files(at)[2]}
  /\ Record(FALSE)

\* Mutant: a failed upload does not end the loop.
UploadFailsGoesOn ==
  /\ phase = "upload" /\ Real(req)
  /\ calls' = calls \cup {[attempt |-> attempts, target |-> at, token |-> api]}
  /\ live' \in {live, live \cup {Files(at)[1]}}
  /\ Record(FALSE)

\* A real Upload fails: none, one or both of the files made it.
UploadFails ==
  /\ phase = "upload" /\ Real(req)
  /\ calls' = calls \cup {[attempt |-> attempts, target |-> at, token |-> api]}
  /\ live' \in {live, live \cup {Files(at)[1]}, live \cup {Files(at)[1], Files(at)[2]}}
  /\ Fail /\ UNCHANGED minted

\* RecordingUploader.Upload.
RecordUpload ==
  /\ phase = "upload" /\ ~Real(req)
  /\ Record(TRUE)
  /\ UNCHANGED <<calls, live>>

PublishStep ==
  \/ GetOIDCToken \/ OIDCFails \/ MintAPIToken \/ MintFails
  \/ UploadTarget \/ UploadFails \/ RecordUpload

PublishNext == Refuse \/ Begin \/ PublishStep

PublishSpec == PublishInit /\ [][PublishNext]_publishVars

----------------------------------------------------------------------------
(***************************************************************************)
(* Properties                                                              *)
(***************************************************************************)

\* When Publish reports success through a real uploader, both files of every
\* target are on the requested registry and on no other.
CompleteOnSuccess ==
  result = "ok" /\ Real(req) =>
    live = {req.registry} \X Targets \X {"sdist", "wheel"}

\* Uploads stop at the first failure: over any number of attempts what is live
\* is a prefix of the release, so running Publish again can complete it.
LiveIsPrefix ==
  \A t \in Targets, k \in {"sdist", "wheel"} :
    <<req.registry, t, k>> \in live =>
      \A u \in 1 .. t - 1 : {<<req.registry, u, "sdist">>, <<req.registry, u, "wheel">>} \subseteq live

\* An upload that is not a dry run carries the token the requested registry
\* minted in the same run of Publish, never one of an earlier run.
OwnToken ==
  ~req.dryRun => \A c \in calls : c.token = [registry |-> req.registry, attempt |-> c.attempt]

\* The result lists one artifact per target, in order.
ResultListsTargets ==
  result = "ok" =>
    /\ Len(artifacts) = NTargets
    /\ \A i \in Targets : artifacts[i] = [target |-> i, skipped |-> ~Real(req)]

\* Success means that everything is live, and that the result says so.
SuccessMeansLive == CompleteOnSuccess /\ ResultListsTargets
=============================================================================
