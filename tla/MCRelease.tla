----------------------------- MODULE MCRelease -----------------------------
(***************************************************************************)
(* Two targets, published at most twice and judged by the policies that    *)
(* trust the publisher; and a wheel of somebody else, judged by every      *)
(* policy on every bundle over two file names, two digests, a builder or   *)
(* none, and two identities.                                               *)
(***************************************************************************)
EXTENDS Release

MCDist == [t \in Targets |-> t]
PureTags == [t \in Targets |-> "py3-none-any"]

MCOther == [filename |-> <<0, "py3-none-any">>, sha256 |-> "h1"]
MCWheels == {WheelOf(t) : t \in Targets} \cup {MCOther}

MCPolicies ==
  [required : BOOLEAN, types : {{}, {"v03"}}, predicate : {"", "other"},
   builders : {{}, {"mochi"}}, publishers : {{}, {"release"}, {"release", "nightly"}},
   extractor : {"nil", "fails", "reads"}]

MCSubjects == [name : {MCOther.filename, <<1, "sdist">>}, sha256 : {"h1", "h2"}]

MCStatements ==
  [decodes : {TRUE}, type : {"v1", "v0"}, predicate : {"slsa", "other"},
   subjects : {<<x>> : x \in MCSubjects} \cup {<<x, y>> : x \in MCSubjects, y \in MCSubjects},
   builder : {"mochi", ""}]
  \cup {[decodes |-> FALSE]}

MCFetches ==
  {[kind |-> "none"], [kind |-> "error"], [kind |-> "bundle", signed |-> FALSE]}
  \cup [kind : {"bundle"}, signed : {TRUE}, media : {"v03", "v01"},
        payloadType : {"in-toto", "other"}, stmt : MCStatements, identity : {"release", "nightly"}]

\* The other wheel has nothing to do with the release: it is judged beside one
\* request that is not yet published, and nothing follows.
MCNext ==
  \/ TrustsPublisher(policy) /\ ~Verified(MCOther) /\ ReleaseNext
  \/ /\ req = (CHOOSE r \in PublishRequest : TRUE) /\ attempts = 0 /\ phase = "idle"
     /\ \E f \in Fetches : Verify(MCOther, f)
     /\ UNCHANGED <<publishVars, stmt, provenance>>
MCSpec == ReleaseInit /\ [][MCNext]_releaseVars

\* The run meets the hypothesis under which the mirror is proved.
ASSUME MCConforms == ConformingRelease
=============================================================================
