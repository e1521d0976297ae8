----------------------------- MODULE SimpleIndex ----------------------------
(***************************************************************************)
(* The simple-index client (simple/): FetchProject asks an index for a     *)
(* project's files, as PEP 503 HTML or PEP 691 JSON, FetchFile downloads   *)
(* one and Verify checks it against the hashes of the listing.  The index  *)
(* is another party: it may fail, and change its files between two calls.  *)
(***************************************************************************)
EXTENDS ImportSpec

CONSTANTS
  Listings,   \* the listings an index may serve, sequences of entries
  Contents,   \* the bytes a file may have
  MaxUpdates  \* bound on the changes of the index

VARIABLES
  index,    \* what the index serves: [entries, bytes], bytes by filename
  project,  \* <<>> or <<what FetchProject returned>>
  body,     \* <<>> or <<the bytes FetchFile streamed>>
  chosen,   \* the file of the project being downloaded
  verdict,  \* "none", "accepted", "refused": what Verify said
  updates

indexVars == <<index, project, body, chosen, verdict, updates>>

-----------------------------------------------------------------------------
(* Names.                                                                  *)

\* Normalise: the regular expression [-_.]+ replaced by "-".
Normalise(n) ==
  LET low == ToLower(n)
      starts == {i \in DOMAIN n : low[i] \notin Separators \/ i = 1 \/ low[i - 1] \notin Separators}
      nth == SetToSortSeq(starts, <)
  IN [k \in DOMAIN nth |-> IF low[nth[k]] \in Separators THEN "-" ELSE low[nth[k]]]

-----------------------------------------------------------------------------
(* The two representations of a listing.  An entry of the index is          *)
(* [filename, hashes, yanked, core, distInfo]: hashes is a sequence of      *)
(* <<algorithm, digest>> with no algorithm twice, yanked "no", "" or a      *)
(* reason, and the last two say whether the index announces the metadata    *)
(* file as core-metadata and under its old spelling dist-info-metadata.     *)

\* What an index writes for an entry (PEP 503, 592, 658 and 691).
AsAnchor(e) == [href |-> e.filename, fragment |-> e.hashes, yanked |-> e.yanked,
                core |-> e.core, distInfo |-> e.distInfo]
AsObject(e) == [filename |-> e.filename, url |-> e.filename, hashes |-> e.hashes, yanked |-> e.yanked,
                core |-> e.core, distInfo |-> e.distInfo]

LowerHash(h) == IF h[1] = "SHA256" THEN <<"sha256", h[2]>> ELSE h
HashMap(hs) ==
  LET low == {LowerHash(hs[i]) : i \in DOMAIN hs}
  IN [a \in {h[1] : h \in low} |-> (CHOOSE h \in low : h[1] = a)[2]]

\* No algorithm is listed twice, in whatever case; a cut-off body has no
\* digest that an index lists.
ASSUME ListingsAssumption ==
  /\ Listings \subseteq Seq([filename : STRING, hashes : Seq(STRING \X STRING), yanked : STRING,
                             core : BOOLEAN, distInfo : BOOLEAN])
  /\ \A l \in Listings : \A i \in DOMAIN l : \A j, k \in DOMAIN l[i].hashes :
       /\ l[i].hashes[j][2] # "cut"
       /\ LowerHash(l[i].hashes[j])[1] = LowerHash(l[i].hashes[k])[1] => j = k

File(name, hashes, yanked, reason, core) ==
  [filename |-> name, hashes |-> hashes, yanked |-> yanked, reason |-> reason, core |-> core]

\* strings.TrimSpace of a reason.
TrimSpace(reason) == IF reason = " broken " THEN "broken" ELSE reason

\* parseAnchor: no file without a href or a basename; a fragment that is not
\* algorithm=digest makes the whole listing unreadable.  The reason is trimmed, and
\* either spelling announces the metadata file.
AnchorFails(a) == a.href # "" /\ \E i \in DOMAIN a.fragment : "" \in {a.fragment[i][1], a.fragment[i][2]}
ParseAnchor(a) ==
  IF a.href = "" THEN <<>>
  ELSE <<File(a.href, HashMap(a.fragment), a.yanked # "no",
              IF a.yanked = "no" THEN "" ELSE TrimSpace(a.yanked), a.core \/ a.distInfo)>>
ParseHTML(name, anchors) ==
  IF \E i \in DOMAIN anchors : AnchorFails(anchors[i]) THEN Bad
  ELSE [ok |-> TRUE, name |-> Normalise(name),
        files |-> FlattenSeq([i \in DOMAIN anchors |-> ParseAnchor(anchors[i])])]

\* One entry of ParseJSON; parseYanked reads false, true and a reason alike, and
\* the old spelling dist-info-metadata is an unknown key.
ParseObject(o) ==
  File(o.filename, HashMap(o.hashes), o.yanked # "no", IF o.yanked = "no" THEN "" ELSE o.yanked, o.core)
ParseJSON(name, objects) ==
  IF name = <<>> \/ \E i \in DOMAIN objects : "" \in {objects[i].filename, objects[i].url} THEN Bad
  ELSE [ok |-> TRUE, name |-> Normalise(name), files |-> [i \in DOMAIN objects |-> ParseObject(objects[i])]]

-----------------------------------------------------------------------------
(* Fetching.                                                               *)

Name == <<"A", "_", "b">>

IndexInit ==
  /\ subject = "simple" /\ in = <<>> /\ out = <<>>
  /\ index \in [entries : Listings, bytes : Contents]
  /\ project = <<>> /\ body = <<>> /\ chosen = 0 /\ verdict = "none" /\ updates = 0
IndexIdle ==
  index = <<>> /\ project = <<>> /\ body = <<>> /\ chosen = 0 /\ verdict = "none" /\ updates = 0

\* The index replaces the file, and with it the listing.
IndexUpdates(listing, bytes) ==
  /\ subject = "simple" /\ updates < MaxUpdates
  /\ index' = [entries |-> listing, bytes |-> bytes] /\ updates' = updates + 1
  /\ UNCHANGED <<evalVars, project, body, chosen, verdict>>

\* HTTPClient.FetchProject: the answer's content type, not the hint, selects the
\* parser.  Any status but 200, or a listing the parser refuses, is an error the
\* caller gets, with nothing changed; there is no retry.
FetchProject(format) ==
  /\ subject = "simple" /\ project = <<>>
  /\ LET p == IF format = "json"
              THEN ParseJSON(Name, [i \in DOMAIN index.entries |-> AsObject(index.entries[i])])
              ELSE ParseHTML(Name, [i \in DOMAIN index.entries |-> AsAnchor(index.entries[i])])
     IN p.ok /\ project' = <<p>>
  /\ UNCHANGED <<evalVars, index, body, chosen, verdict, updates>>

\* HTTPClient.FetchFile: streams the bytes the index has now, all or some.
FetchFile(i, whole) ==
  /\ subject = "simple" /\ project # <<>> /\ body = <<>> /\ i \in DOMAIN project[1].files
  /\ chosen' = i /\ body' = <<IF whole THEN index.bytes ELSE "cut">>
  /\ UNCHANGED <<evalVars, index, project, verdict, updates>>

SupportedHashAlgos == {"blake3", "sha256"}
\* Mutant: one matching hash is enough.
HashesMatchAny(bytes, expected) ==
  \E a \in SupportedHashAlgos \cap DOMAIN expected : expected[a] = bytes
\* Verify: some supported algorithm is listed, and all of them agree.  A digest
\* is written as the bytes it is the digest of.
HashesMatch(bytes, expected) ==
  /\ SupportedHashAlgos \cap DOMAIN expected # {}
  /\ \A a \in SupportedHashAlgos \cap DOMAIN expected : expected[a] = bytes
Verify ==
  /\ subject = "simple" /\ body # <<>> /\ verdict = "none"
  /\ verdict' = IF HashesMatch(body[1], project[1].files[chosen].hashes) THEN "accepted" ELSE "refused"
  /\ UNCHANGED <<evalVars, index, project, body, chosen, updates>>

IndexNext ==
  \/ \E l \in Listings, b \in Contents : IndexUpdates(l, b)
  \/ \E f \in {"json", "html"} : FetchProject(f)
  \/ project # <<>> /\ \E i \in DOMAIN project[1].files, w \in BOOLEAN : FetchFile(i, w)
  \/ Verify
IndexSpec == IndexInit /\ [][IndexNext]_<<evalVars, indexVars>>

-----------------------------------------------------------------------------
(* Properties.                                                             *)

\* importspec and simple normalise names with different code; the endpoint
\* FetchProject asks for is the one the import's Name stands for.
NamesAgree ==
  Returned("importspec.Parse") /\ out[1].ok =>
    /\ Normalise(out[1].rawName) = out[1].name
    /\ NormaliseName(out[1].name) = out[1].name

\* How a file that was read from an object reads in the anchor of its entry e.
SeenInHTML(f, e) == File(f.filename, f.hashes, f.yanked, TrimSpace(f.reason), f.core \/ e.distInfo)

\* ParseHTML and ParseJSON: an index may answer in either format.  Wherever both
\* can be read the client learns the same files, digests and yanks from them, and
\* the formats differ in two ways only: HTML trims a reason, and only HTML knows a
\* metadata file that is announced under the old spelling alone.
FormatsAgree ==
  subject = "simple" =>
    LET h == ParseHTML(Name, [i \in DOMAIN index.entries |-> AsAnchor(index.entries[i])])
        j == ParseJSON(Name, [i \in DOMAIN index.entries |-> AsObject(index.entries[i])])
    IN h.ok /\ j.ok =>
         /\ h.name = j.name
         /\ h.files = [i \in DOMAIN j.files |-> SeenInHTML(j.files[i], index.entries[i])]

\* The supported digests listed for an entry, in whatever case the algorithm is.
ListedDigests(e) ==
  {h[2] : h \in {h \in {LowerHash(e.hashes[k]) : k \in DOMAIN e.hashes} : h[1] \in SupportedHashAlgos}}

\* Verify: whatever the index did between the listing and the download, an
\* accepted file has every supported digest of one listing's entry of that
\* name, and at least one; a cut-off body and a file listed with md5 only are
\* never accepted.
AcceptedAsListed ==
  verdict = "accepted" =>
    /\ body[1] # "cut"
    /\ \E l \in Listings : \E i \in DOMAIN l :
         l[i].filename = project[1].files[chosen].filename /\ ListedDigests(l[i]) = {body[1]}

\* An import's text, the versions in it and its name mean the same when they are
\* written and read again, and to importspec and to simple.
ImportLaws == VersionSpelling /\ SpecRoundTrip /\ NamesAgree

\* What the client believes of a file is what the index listed, in either
\* format but for the two differences named, and what it accepts was listed.
IndexLaws == FormatsAgree /\ AcceptedAsListed
=============================================================================
