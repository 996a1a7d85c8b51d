------------------------- MODULE ReleasePublication -------------------------
(***************************************************************************)
(* Publication of one version of slv as an immutable GitHub release: the   *)
(* publish job of .github/workflows/slv-remote-build.yml with the scripts  *)
(* it runs (scripts/release/application-draft.ts and workflow.ts).  The    *)
(* job guards the tag, finds or creates the draft release, uploads what is *)
(* missing, downloads everything again, verifies it and publishes.  It can *)
(* stop at any step; it is run again with the package of the same attempt, *)
(* or the whole workflow is, which makes another package.  People who may  *)
(* write to the repository change the draft or move the tag meanwhile.     *)
(*                                                                         *)
(* Main pushes of several commits may carry the version: the commits are   *)
(* Source, and each has one workflow run.  Runs of main, and publish jobs  *)
(* of a tag, are in concurrency groups: one job at a time.                 *)
(***************************************************************************)
EXTENDS Naturals

CONSTANTS
  Source,    \* commits of main whose version is this one
  Build,     \* what building a commit again may give
  Payload,   \* names of the payload assets in the manifest
  Foreign,   \* the content of an asset no package has
  Partial,   \* an asset whose upload was interrupted: no size, no digest
  Id,        \* what GitHub numbers releases and assets with
  None

VARIABLES
  release,   \* the GitHub release of the tag, with its assets
  tag,       \* the commit the tag points to
  pkg,       \* the package (and provenance) of the last attempt of each run
  retained,  \* runs whose package artifact has not expired
  pc,        \* where the publish job is
  me,        \* the package it publishes
  snap,      \* the draft as it last saw it
  existing,  \* asset names it found in the draft
  todo,      \* of the loop it is in
  got,       \* what it downloaded
  late,      \* history: what was written since the job last checked it
  touched    \* history: somebody else wrote to this draft

job     == <<pc, me, snap, existing, todo, got>>
history == <<late, touched>>
vars    == <<release, tag, pkg, retained, job, history>>

Manifest == "release-manifest.json"
Sums     == "SHA256SUMS"
Subject  == Payload \cup {Manifest, Sums}

ASSUME NamesOK ==
  /\ Manifest \notin Payload /\ Sums \notin Payload
  /\ None \notin Source /\ None \notin Id

\* An asset name: a subject, its attestation bundle, or a name no package has
Sub(n)  == <<"subject", n>>
Bun(n)  == <<"bundle", n>>
Extra   == <<"extra", "">>
Files   == {Sub(n) : n \in Subject}
Bundles == {Bun(n) : n \in Subject}
Payloads == {Sub(n) : n \in Payload} \cup {Bun(n) : n \in Payload}
Name    == Files \cup Bundles \cup {Extra}

\* A package names its commit, its bytes and the attempt of the run that made it.
Package == [src : Source, build : Build, att : Nat]

\* The manifest holds the attempt, and a bundle attests the subjects of one;
\* the payload and its checksums are the same if the build is.
In(p, s) == IF s \in Bundles \cup {Sub(Manifest)} THEN p ELSE [p EXCEPT !.att = 0]

Bytes == Package \cup {Foreign}
Asset == [id : Id, is : Bytes \cup {Partial}]
Assets == [Name -> Asset \cup {None}]
NoAssets == [s \in Name |-> None]
NoFiles  == [s \in Name |-> None]

ASSUME ContentsOK ==
  /\ Foreign \notin Package /\ Partial \notin Bytes /\ None \notin Bytes \cup {Partial}
  /\ None \notin Asset

Absent == [state |-> "absent", id |-> None, target |-> None, asset |-> NoAssets]
NoSnap == [id |-> None, asset |-> NoAssets]

Present(assets) == {s \in Name : assets[s] # None}

\* An id is never given twice: here, not as long as the job may compare with it.
IdsOf(assets) == {assets[s].id : s \in Present(assets)}
Used  == {release.id, snap.id} \cup IdsOf(release.asset) \cup IdsOf(snap.asset)
Fresh == CHOOSE i \in Id : i \notin Used
SomeId == Id \ Used # {}   \* bound: there are enough of them
-----------------------------------------------------------------------------
(* What the scripts check.                                                 *)

\* snapshot: a draft for this commit whose every asset is uploaded
WellFormed(src) ==
  /\ release.state = "draft" /\ release.target = src
  /\ \A s \in Present(release.asset) : release.asset[s].is # Partial

Current == [id |-> release.id, asset |-> release.asset]

\* What was in the draft before is there, unchanged
Kept ==
  /\ WellFormed(me.src)
  /\ release.id = snap.id
  /\ \A s \in Present(snap.asset) : release.asset[s] = snap.asset[s]

\* A mutant of Check: additions are always allowed.
CheckKept(additions) == Kept

\* checkApplicationDraft
Check(additions) == Kept /\ (additions \/ release.asset = snap.asset)

\* completeApplicationDraft
Complete ==
  /\ Check(TRUE)
  /\ Present(release.asset) = Files \cup Bundles
  /\ \A n \in Payload : release.asset[Sub(n)].is = In(me, Sub(n))

\* A mutant of Guard: the manifest may be of another attempt.
GuardPayloads(s) ==
  /\ s \in Present(release.asset) /\ s # Extra
  /\ s \in Files \ {Sub(Manifest)} => release.asset[s].is = In(me, s)

\* The guard for one asset of the draft: the manifest must be this attempt's
\* (guardDraftManifest), payloads the same bytes, bundles go by their name.
Guard(s) ==
  /\ s \in Present(release.asset) /\ s # Extra
  /\ s \in Files => release.asset[s].is = In(me, s)

\* verifyReleaseDirectory, then gh attestation verify for every subject
Verified(files, src) ==
  /\ LET m == files[Sub(Manifest)]
     IN  /\ m \in Package /\ m.src = src
         /\ \A n \in Subject : files[Sub(n)] = In(m, Sub(n))
  /\ \A n \in Subject :
       LET b == files[Bun(n)]
       IN  /\ b \in Package /\ b.src = src
           /\ files[Sub(n)] = In(b, Sub(n))

Contents(assets) == [s \in Name |-> IF assets[s] = None THEN None ELSE assets[s].is]

\* verify-existing: what a later run for the same commit verifies
VerifyExisting(src) ==
  /\ release.state = "published"
  /\ tag = src
  /\ Verified(Contents(release.asset), src)
-----------------------------------------------------------------------------
(* Runs.  `resolve` asks for a package unless the release is published.    *)

LastAttempt(src) == IF pkg[src] = None THEN 0 ELSE pkg[src].att

\* A push, or all jobs of its run again: build, package, attest, publish
Attempt(src, b) ==
  LET p == [src |-> src, build |-> b, att |-> LastAttempt(src) + 1]
  IN  /\ pc = "idle" /\ release.state # "published"
      /\ pkg' = [pkg EXCEPT ![src] = p]
      /\ retained' = retained \cup {src}
      /\ me' = p /\ pc' = "find"
      /\ UNCHANGED <<release, tag, snap, existing, todo, got, history>>

\* The publish job of the run again, with the artifacts of its last attempt
RerunPublish(src) ==
  /\ pc = "idle" /\ src \in retained
  /\ me' = pkg[src] /\ pc' = "find"
  /\ UNCHANGED <<release, tag, pkg, retained, snap, existing, todo, got, history>>

\* Artifacts are kept for seven days.
Expire(src) ==
  /\ pc = "idle" /\ src \in retained
  /\ retained' = retained \ {src}
  /\ UNCHANGED <<release, tag, pkg, job, history>>
-----------------------------------------------------------------------------
(* The publish job.  A check that fails, or a request, ends it.            *)

Goto(l) == pc' = l
Fail ==
  /\ Goto("idle") /\ me' = None /\ snap' = NoSnap
  /\ existing' = {} /\ todo' = {} /\ got' = NoFiles
Outside == <<release, tag, pkg, retained, history>>

Find ==
  /\ pc = "find"
  /\ \/ /\ release.state = "absent"
        /\ Goto("tag") /\ snap' = NoSnap
        /\ UNCHANGED <<me, existing, todo, got>>
     \/ /\ WellFormed(me.src)
        /\ Goto("tag") /\ snap' = Current
        /\ UNCHANGED <<me, existing, todo, got>>
     \/ /\ release.state # "absent" /\ ~WellFormed(me.src)
        /\ Fail
  /\ UNCHANGED Outside

\* A mutant of TagFits: an existing tag is taken as it is.
AnyTag == TRUE

TagFits == tag \in {None, me.src}

GuardTag ==
  /\ pc = "tag"
  /\ \/ /\ TagFits
        /\ tag' = IF tag = None THEN me.src ELSE tag
        /\ late' = late \ {"tag"}
        /\ Goto(IF snap = NoSnap THEN "create" ELSE "extend")
        /\ UNCHANGED <<me, snap, existing, todo, got>>
     \/ /\ ~TagFits
        /\ Fail /\ UNCHANGED <<tag, late>>
  /\ UNCHANGED <<release, pkg, retained, touched>>

\* A mutant of NewDraft: made for the branch, not for the commit.
DraftOfBranch ==
  [state |-> "draft", id |-> Fresh, target |-> None, asset |-> NoAssets]

NewDraft == [state |-> "draft", id |-> Fresh, target |-> me.src, asset |-> NoAssets]

Create ==
  /\ pc = "create" /\ SomeId
  /\ release' = NewDraft
  /\ touched' = FALSE
  /\ Goto("require")
  /\ UNCHANGED <<tag, pkg, retained, me, snap, existing, todo, got, late>>

Require ==
  /\ pc = "require"
  /\ \/ /\ WellFormed(me.src)
        /\ Goto("extend") /\ snap' = Current
        /\ UNCHANGED <<me, existing, todo, got>>
     \/ ~WellFormed(me.src) /\ Fail
  /\ UNCHANGED Outside

\* A mutant of Missing: nothing is skipped.
AllOf(names) == names

Missing(names) == names \ existing

\* application-draft.ts extend, before the payloads and before the bundles
Extend ==
  /\ \/ /\ pc = "extend" /\ Check(TRUE)
        /\ Goto("list") /\ UNCHANGED todo
     \/ /\ pc = "attach" /\ Check(TRUE)
        /\ Goto("bundle") /\ todo' = Missing(Bundles)
  /\ snap' = Current
  /\ UNCHANGED <<me, existing, got>>
  /\ UNCHANGED Outside

ExtendRefused ==
  /\ pc \in {"extend", "attach"} /\ ~Check(TRUE)
  /\ Fail /\ UNCHANGED Outside

List ==
  /\ pc = "list"
  /\ \/ /\ release.id = snap.id
        /\ existing' = Present(release.asset) /\ todo' = Present(release.asset)
        /\ Goto("compare")
        /\ UNCHANGED <<me, snap, got>>
     \/ /\ release.id # snap.id
        /\ Fail
  /\ UNCHANGED Outside

Compare ==
  /\ pc = "compare"
  /\ \/ \E s \in todo :
          /\ Guard(s)
          /\ todo' = todo \ {s}
          /\ UNCHANGED <<pc, me, snap, existing, got>>
     \/ /\ \E s \in todo : ~Guard(s)
        /\ Fail
     \/ /\ todo = {}
        /\ Goto("payload") /\ todo' = Missing(Files)
        /\ UNCHANGED <<me, snap, existing, got>>
  /\ UNCHANGED Outside

\* The payloads in the order of the manifest, then it, then the checksums
Turn(s) ==
  /\ s \in todo
  /\ s \in {Sub(Manifest), Bun(Manifest)} => todo \cap Payloads = {}
  /\ s \in {Sub(Sums), Bun(Sums)} => todo = {s}

Upload ==
  /\ pc \in {"payload", "bundle"}
  /\ \/ \E s \in todo :
          /\ Turn(s) /\ SomeId
          /\ release.state = "draft" /\ release.asset[s] = None
          /\ release' = [release EXCEPT !.asset[s] = [id |-> Fresh, is |-> In(me, s)]]
          /\ todo' = todo \ {s}
          /\ UNCHANGED <<pc, me, snap, existing, got>>
     \/ /\ \E s \in todo :
             Turn(s) /\ (release.state # "draft" \/ release.asset[s] # None)
        /\ Fail /\ UNCHANGED release
     \/ /\ todo = {}
        /\ Goto(IF pc = "payload" THEN "attach" ELSE "complete")
        /\ UNCHANGED <<me, snap, existing, todo, got, release>>
  /\ UNCHANGED <<tag, pkg, retained, history>>

CheckComplete ==
  /\ pc = "complete"
  /\ \/ /\ Complete
        /\ Goto("download") /\ snap' = Current
        /\ UNCHANGED <<me, existing, todo, got>>
     \/ ~Complete /\ Fail
  /\ UNCHANGED Outside

\* The release is read once and its assets are downloaded by their ids.
Download ==
  /\ pc = "download"
  /\ \/ /\ release.state = "draft"
        /\ got' = Contents(release.asset)
        /\ Goto("provenance")
        /\ UNCHANGED <<me, snap, existing, todo>>
     \/ release.state # "draft" /\ Fail
  /\ UNCHANGED Outside

Provenance ==
  /\ pc = "provenance"
  /\ \/ /\ Verified(got, me.src)
        /\ Goto("verify") /\ UNCHANGED <<me, snap, existing, todo, got>>
     \/ ~Verified(got, me.src) /\ Fail
  /\ UNCHANGED Outside

Verify ==
  /\ pc = "verify"
  /\ \/ /\ Check(FALSE)
        /\ Goto("edit") /\ late' = late \ {"asset"}
        /\ UNCHANGED <<me, snap, existing, todo, got>>
     \/ ~Check(FALSE) /\ Fail /\ UNCHANGED late
  /\ UNCHANGED <<release, tag, pkg, retained, touched>>

\* Publishing makes a tag that is missing.
Publish ==
  /\ pc = "edit"
  /\ \/ /\ release.state = "draft"
        /\ release' = [release EXCEPT !.state = "published"]
        /\ tag' = IF tag = None THEN release.target ELSE tag
        /\ Goto("assert") /\ UNCHANGED <<me, snap, existing, todo, got>>
     \/ release.state # "draft" /\ Fail /\ UNCHANGED <<release, tag>>
  /\ UNCHANGED <<pkg, retained, history>>

AssertImmutable ==
  /\ pc = "assert"
  /\ Fail
  /\ UNCHANGED Outside

JobStep ==
  \/ Find \/ GuardTag \/ Create \/ Require \/ Extend \/ ExtendRefused \/ List
  \/ Compare \/ Upload \/ CheckComplete \/ Download \/ Provenance \/ Verify
  \/ Publish \/ AssertImmutable
-----------------------------------------------------------------------------
(* Faults.                                                                 *)

\* A request that fails, a policy that refuses, a runner that is lost
Stop ==
  /\ pc # "idle"
  /\ Fail /\ UNCHANGED Outside

\* An upload cut short leaves its name in the draft.
StopInUpload(s) ==
  /\ pc \in {"payload", "bundle"} /\ Turn(s) /\ SomeId
  /\ release.state = "draft" /\ release.asset[s] = None
  /\ release' = [release EXCEPT !.asset[s] = [id |-> Fresh, is |-> Partial]]
  /\ Fail /\ UNCHANGED <<tag, pkg, retained, history>>

Fault == Stop \/ \E s \in Name : StopInUpload(s)
-----------------------------------------------------------------------------
(* Others who may write.  GitHub protects a published release and its tag. *)

Changed(what) == late' = late \cup {what} /\ UNCHANGED <<pkg, retained, job>>

DeleteAsset(s) ==
  /\ release.state = "draft" /\ release.asset[s] # None
  /\ release' = [release EXCEPT !.asset[s] = None]
  /\ touched' = TRUE
  /\ Changed("asset") /\ UNCHANGED tag

PutAsset(s, c) ==
  /\ SomeId
  /\ release.state = "draft" /\ release.asset[s] = None
  /\ release' = [release EXCEPT !.asset[s] = [id |-> Fresh, is |-> c]]
  /\ touched' = TRUE
  /\ Changed("asset") /\ UNCHANGED tag

DeleteDraft ==
  /\ release.state = "draft"
  /\ release' = Absent
  /\ Changed("asset") /\ UNCHANGED <<tag, touched>>

MoveTag(t) ==
  /\ release.state # "published" /\ tag # t
  /\ tag' = t
  /\ Changed("tag") /\ UNCHANGED <<release, touched>>

\* Assets others may put there: of a run's package, or none of them
Others ==
  \/ DeleteDraft
  \/ \E s \in Name :
       \/ DeleteAsset(s)
       \/ PutAsset(s, Foreign)
       \/ \E src \in Source : pkg[src] # None /\ PutAsset(s, In(pkg[src], s))
  \/ \E t \in Source \cup {None} : MoveTag(t)
-----------------------------------------------------------------------------
Init ==
  /\ release = Absent /\ tag = None
  /\ pkg = [src \in Source |-> None] /\ retained = {}
  /\ pc = "idle" /\ me = None /\ snap = NoSnap
  /\ existing = {} /\ todo = {} /\ got = NoFiles
  /\ late = {} /\ touched = FALSE

Runs ==
  \E src \in Source :
    \/ \E b \in Build : Attempt(src, b)
    \/ RerunPublish(src)
    \/ Expire(src)

Next == Runs \/ JobStep \/ Fault \/ Others

Spec == Init /\ [][Next]_vars

\* The job goes on, and the operator runs the publish job again as long as
\* its package is there.
Fairness ==
  /\ WF_vars(JobStep)
  /\ \A src \in Source : SF_vars(RerunPublish(src))
-----------------------------------------------------------------------------
Steps == {"idle", "find", "tag", "create", "require", "extend", "list", "compare",
          "payload", "attach", "bundle", "complete", "download", "provenance",
          "verify", "edit", "assert"}

\* Types.
TypeOK ==
  /\ release \in {Absent} \cup [state : {"draft", "published"}, id : Id,
                               target : Source, asset : Assets]
  /\ tag \in Source \cup {None}
  /\ pkg \in [Source -> Package \cup {None}] /\ retained \subseteq Source
  /\ pc \in Steps /\ me \in Package \cup {None}
  /\ snap \in [id : Id \cup {None}, asset : Assets]
  /\ existing \subseteq Name /\ todo \subseteq Name
  /\ got \in [Name -> Bytes \cup {Partial, None}]
  /\ late \subseteq {"asset", "tag"} /\ touched \in BOOLEAN

\* What is published has exactly the assets of a manifest of its commit, each
\* attested for it: only a write after the last check can make it otherwise.
\* The check and the publication are two requests.
PublishedVerified ==
  release.state = "published" /\ "asset" \notin late =>
    /\ Verified(Contents(release.asset), release.target)
    /\ Present(release.asset) = Files \cup Bundles

\* Whoever verifies it later finds its tag at that commit, unless the tag was
\* moved after the guard at the beginning of the job.
PublishedAtTag ==
  release.state = "published" /\ late = {} => VerifyExisting(release.target)

\* A draft nobody else writes to never mixes the attempts of a run, nor two
\* runs: every asset in it is of one package, however often jobs of several
\* attempts stopped half-way and began again.
OneAttempt ==
  release.state = "draft" /\ ~touched =>
    \E b \in Build, a \in 1..LastAttempt(release.target) :
      LET p == [src |-> release.target, build |-> b, att |-> a]
      IN  \A s \in Present(release.asset) : release.asset[s].is \in {Partial, In(p, s)}

\* The draft, if there is one, holds nothing but what the package has.
Recoverable(src) ==
  /\ src \in retained
  /\ tag \in {None, src}
  /\ \/ release.state = "absent"
     \/ /\ WellFormed(src)
        /\ \A s \in Present(release.asset) : s # Extra /\ release.asset[s].is = In(pkg[src], s)

\* Running the failed publish job again completes the publication: a release
\* that could be completed from the package that is kept does not stay unfinished.
RetryPublishes == \A src \in Source : []<>~Recoverable(src)
=============================================================================
