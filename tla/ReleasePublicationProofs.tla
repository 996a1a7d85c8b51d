---------------------- MODULE ReleasePublicationProofs ----------------------
(***************************************************************************)
(* For every set of commits, builds and payloads, and any number of        *)
(* attempts, faults and writes of others: the types, and that what is      *)
(* published was verified and is at its tag.                               *)
(***************************************************************************)
EXTENDS ReleasePublication, TLAPS

USE DEF Goto, Outside, job, history

\* The job has its package, and what is kept is a package.
HasPackage ==
  /\ pc # "idle" => me \in Package
  /\ \A src \in retained : pkg[src] \in Package

LEMMA FreshId == ASSUME SomeId PROVE Fresh \in Id /\ Fresh \notin Used
  BY DEF SomeId, Fresh

LEMMA InType == ASSUME NEW p \in Package, NEW s PROVE In(p, s) \in Package
<1>1. [p EXCEPT !.att = 0] \in Package
  BY DEF Package
<1>2. QED
  BY <1>1 DEF In

LEMMA ContentsType ==
  ASSUME NEW a \in Assets PROVE Contents(a) \in [Name -> Bytes \cup {Partial, None}]
<1>1. ASSUME NEW s \in Name
      PROVE  (IF a[s] = None THEN None ELSE a[s].is) \in Bytes \cup {Partial, None}
  <2>1. a[s] \in Asset \cup {None}
    BY DEF Assets
  <2>2. QED
    BY <2>1 DEF Asset
<1>2. QED
  BY <1>1 DEF Contents

LEMMA Blank == NoAssets \in Assets /\ NoFiles \in [Name -> Bytes \cup {Partial, None}]
  BY DEF NoAssets, NoFiles, Assets

\* A draft is a record with an id, a commit and assets.
Draft == [state : {"draft", "published"}, id : Id, target : Source, asset : Assets]

LEMMA DraftType == ASSUME TypeOK, release.state # "absent" PROVE release \in Draft
  BY DEF TypeOK, Draft, Absent

LEMMA CurrentType == ASSUME TypeOK PROVE Current \in [id : Id \cup {None}, asset : Assets]
<1>1. CASE release = Absent
  BY <1>1, Blank DEF Absent, Current
<1>2. CASE release # Absent
  BY <1>2 DEF TypeOK, Current
<1>3. QED
  BY <1>1, <1>2

\* What a step that ends the job leaves.
LEMMA FailType ==
  ASSUME Fail
  PROVE  /\ pc' = "idle" /\ me' = None
         /\ snap' \in [id : Id \cup {None}, asset : Assets]
         /\ existing' = {} /\ todo' = {}
         /\ got' \in [Name -> Bytes \cup {Partial, None}]
  BY Blank DEF Fail, NoSnap

\* Putting an asset into the draft, or taking one out, keeps it a draft.
LEMMA PutType ==
  ASSUME TypeOK, release.state = "draft", SomeId, NEW s \in Name,
         NEW c \in Bytes \cup {Partial},
         release' = [release EXCEPT !.asset[s] = [id |-> Fresh, is |-> c]]
  PROVE  /\ release' \in Draft
         /\ release'.state = "draft" /\ release'.target = release.target
         /\ release'.id = release.id
         /\ release'.asset = [release.asset EXCEPT ![s] = [id |-> Fresh, is |-> c]]
<1>1. release \in Draft
  BY DraftType
<1>2. [id |-> Fresh, is |-> c] \in Asset
  BY FreshId DEF Asset
<1>3. [release.asset EXCEPT ![s] = [id |-> Fresh, is |-> c]] \in Assets
  BY <1>1, <1>2 DEF Draft, Assets
<1>4. QED
  BY <1>1, <1>3 DEF Draft

LEMMA TakeType ==
  ASSUME TypeOK, release.state = "draft", NEW s \in Name,
         release' = [release EXCEPT !.asset[s] = None]
  PROVE  /\ release' \in Draft
         /\ release'.state = "draft" /\ release'.target = release.target
         /\ release'.id = release.id
         /\ release'.asset = [release.asset EXCEPT ![s] = None]
<1>1. release \in Draft
  BY DraftType
<1>2. [release.asset EXCEPT ![s] = None] \in Assets
  BY <1>1 DEF Draft, Assets
<1>3. QED
  BY <1>1, <1>2 DEF Draft

\* Every step keeps the types (slv-remote-build.yml, application-draft.ts).
LEMMA TypeStep == ASSUME TypeOK, HasPackage, [Next]_vars PROVE TypeOK'
<1> USE DEF HasPackage
<1>1. ASSUME NEW src \in Source, NEW b \in Build, Attempt(src, b) PROVE TypeOK'
  <2> DEFINE p == [src |-> src, build |-> b, att |-> LastAttempt(src) + 1]
  <2>1. LastAttempt(src) \in Nat
    BY DEF TypeOK, LastAttempt, Package
  <2>2. p \in Package
    BY <2>1 DEF Package
  <2>3. me' = p /\ pkg' = [pkg EXCEPT ![src] = p] /\ pc' = "find"
        /\ retained' = retained \cup {src}
        /\ UNCHANGED <<release, tag, snap, existing, todo, got, late, touched>>
    BY <1>1 DEF Attempt
  <2>. HIDE DEF p
  <2>4. QED
    BY <2>2, <2>3 DEF TypeOK, Steps
<1>2. ASSUME NEW src \in Source, RerunPublish(src) PROVE TypeOK'
  BY <1>2 DEF RerunPublish, TypeOK, Steps
<1>3. ASSUME NEW src \in Source, Expire(src) PROVE TypeOK'
  BY <1>3 DEF Expire, TypeOK, Steps
<1>4. CASE Fail /\ UNCHANGED <<release, tag, pkg, retained, late, touched>>
  BY <1>4, FailType DEF TypeOK, Steps
<1>5. CASE Find
  BY <1>4, <1>5, CurrentType, Blank DEF Find, NoSnap, TypeOK, Steps
<1>6. CASE GuardTag
  <2>1. CASE TagFits /\ ~Fail
    <3>1. me.src \in Source
      BY <1>6 DEF GuardTag, TypeOK, Package
    <3>2. late' \subseteq {"asset", "tag"}
      BY <1>6, <2>1 DEF GuardTag, TypeOK
    <3>3. QED
      BY <1>6, <2>1, <3>1, <3>2 DEF GuardTag, TypeOK, Steps
  <2>2. CASE Fail
    <3>1. me.src \in Source
      BY <1>6 DEF GuardTag, TypeOK, Package
    <3>2. QED
      BY <1>6, <2>2, <3>1, FailType DEF GuardTag, TypeOK, Steps
  <2>3. QED
    BY <1>6, <2>1, <2>2 DEF GuardTag
<1>7. CASE Create
  <2>1. me.src \in Source
    BY <1>7 DEF Create, TypeOK, Package
  <2>2. release' \in Draft
    BY <1>7, <2>1, FreshId, Blank DEF Create, NewDraft, Draft
  <2>3. QED
    BY <1>7, <2>2 DEF Create, TypeOK, Draft, Steps
<1>8. CASE Require
  BY <1>4, <1>8, CurrentType DEF Require, TypeOK, Steps
<1>9. CASE Extend
  <2>1. todo' \subseteq Name
    BY <1>9 DEF Extend, TypeOK, Missing, Name
  <2>2. QED
    BY <1>9, <2>1, CurrentType DEF Extend, TypeOK, Steps
<1>10. CASE ExtendRefused
  BY <1>4, <1>10 DEF ExtendRefused
<1>11. CASE List
  BY <1>4, <1>11 DEF List, TypeOK, Present, Steps
<1>12. CASE Compare
  <2>1. CASE ~Fail
    <3>1. todo' \subseteq Name
      BY <1>12, <2>1 DEF Compare, TypeOK, Missing, Name
    <3>2. QED
      BY <1>12, <2>1, <3>1 DEF Compare, TypeOK, Steps
  <2>2. CASE Fail
    BY <1>4, <1>12, <2>2 DEF Compare
  <2>3. QED
    BY <2>1, <2>2
<1>13. CASE Upload
  <2>1. ASSUME NEW s \in todo, SomeId, release.state = "draft", pc # "idle",
               release' = [release EXCEPT !.asset[s] = [id |-> Fresh, is |-> In(me, s)]],
               todo' = todo \ {s}, UNCHANGED <<pc, me, snap, existing, got>>,
               UNCHANGED <<tag, pkg, retained, late, touched>>
        PROVE  TypeOK'
    <3>1. s \in Name /\ In(me, s) \in Bytes \cup {Partial}
      BY <2>1, InType DEF TypeOK, Bytes
    <3>2. release' \in Draft
      BY <2>1, <3>1, PutType
    <3>3. QED
      BY <2>1, <3>2 DEF TypeOK, Draft
  <2>2. CASE Fail /\ UNCHANGED release
    BY <1>4, <1>13, <2>2 DEF Upload
  <2>3. CASE /\ todo = {} /\ pc' \in {"attach", "complete"}
             /\ UNCHANGED <<me, snap, existing, todo, got, release>>
             /\ UNCHANGED <<tag, pkg, retained, late, touched>>
    BY <2>3 DEF TypeOK, Steps
  <2>4. QED
    BY <1>13, <2>1, <2>2, <2>3 DEF Upload
<1>14. CASE CheckComplete
  BY <1>4, <1>14, CurrentType DEF CheckComplete, TypeOK, Steps
<1>15. CASE Download
  <2>1. CASE release.state = "draft"
    <3>1. Contents(release.asset) \in [Name -> Bytes \cup {Partial, None}]
      BY <2>1, DraftType, ContentsType DEF Draft
    <3>2. QED
      BY <1>15, <2>1, <3>1 DEF Download, TypeOK, Steps
  <2>2. CASE release.state # "draft"
    BY <1>4, <1>15, <2>2 DEF Download
  <2>3. QED
    BY <2>1, <2>2
<1>16. CASE Provenance
  BY <1>4, <1>16 DEF Provenance, TypeOK, Steps
<1>17. CASE Verify
  <2>1. CASE ~Fail
    <3>1. late' \subseteq {"asset", "tag"}
      BY <1>17, <2>1 DEF Verify, TypeOK
    <3>2. QED
      BY <1>17, <2>1, <3>1 DEF Verify, TypeOK, Steps
  <2>2. CASE Fail
    BY <1>17, <2>2, FailType DEF Verify, TypeOK, Steps
  <2>3. QED
    BY <2>1, <2>2
<1>18. CASE Publish
  <2>1. CASE release.state = "draft"
    <3>1. release \in Draft
      BY <2>1, DraftType
    <3>2. release' \in Draft /\ tag' \in Source \cup {None}
      BY <1>18, <2>1, <3>1 DEF Publish, Draft, TypeOK
    <3>3. QED
      BY <1>18, <2>1, <3>2 DEF Publish, TypeOK, Draft, Steps
  <2>2. CASE release.state # "draft"
    BY <1>4, <1>18, <2>2 DEF Publish
  <2>3. QED
    BY <2>1, <2>2
<1>19. CASE AssertImmutable \/ Stop
  BY <1>4, <1>19 DEF AssertImmutable, Stop
<1>20. ASSUME NEW s \in Name, StopInUpload(s) PROVE TypeOK'
  <2>1. release' \in Draft
    BY <1>20, PutType DEF StopInUpload
  <2>2. QED
    BY <1>20, <2>1, FailType DEF StopInUpload, TypeOK, Draft, Steps
<1>21. ASSUME NEW s \in Name, DeleteAsset(s) PROVE TypeOK'
  <2>1. release' \in Draft
    BY <1>21, TakeType DEF DeleteAsset
  <2>2. late' \subseteq {"asset", "tag"}
    BY <1>21 DEF DeleteAsset, Changed, TypeOK
  <2>3. QED
    BY <1>21, <2>1, <2>2 DEF DeleteAsset, Changed, TypeOK, Draft
<1>22. ASSUME NEW s \in Name, NEW c \in Bytes, PutAsset(s, c) PROVE TypeOK'
  <2>1. release' \in Draft
    BY <1>22, PutType DEF PutAsset
  <2>2. late' \subseteq {"asset", "tag"}
    BY <1>22 DEF PutAsset, Changed, TypeOK
  <2>3. QED
    BY <1>22, <2>1, <2>2 DEF PutAsset, Changed, TypeOK, Draft
<1>23. CASE DeleteDraft
  <2>1. late' \subseteq {"asset", "tag"}
    BY <1>23 DEF DeleteDraft, Changed, TypeOK
  <2>2. QED
    BY <1>23, <2>1 DEF DeleteDraft, Changed, TypeOK
<1>24. ASSUME NEW t \in Source \cup {None}, MoveTag(t) PROVE TypeOK'
  <2>1. late' \subseteq {"asset", "tag"}
    BY <1>24 DEF MoveTag, Changed, TypeOK
  <2>2. QED
    BY <1>24, <2>1 DEF MoveTag, Changed, TypeOK
<1>25. CASE UNCHANGED vars
  BY <1>25 DEF vars, TypeOK
<1>26. CASE Others
  <2>1. ASSUME NEW s \in Name, NEW src \in Source, pkg[src] # None,
               PutAsset(s, In(pkg[src], s))
        PROVE  TypeOK'
    <3>1. In(pkg[src], s) \in Bytes
      BY <2>1, InType DEF TypeOK, Bytes
    <3>2. QED
      BY <2>1, <3>1, <1>22
  <2>2. Foreign \in Bytes
    BY DEF Bytes
  <2>3. QED
    BY <1>26, <1>21, <1>22, <1>23, <1>24, <2>1, <2>2 DEF Others
<1>27. QED
  BY <1>1, <1>2, <1>3, <1>5, <1>6, <1>7, <1>8, <1>9, <1>10, <1>11, <1>12, <1>13, <1>14,
     <1>15, <1>16, <1>17, <1>18, <1>19, <1>20, <1>25, <1>26
  DEF Next, Runs, JobStep, Fault

LEMMA InitType == Init => TypeOK /\ HasPackage
<1>1. SUFFICES ASSUME Init PROVE TypeOK /\ HasPackage
  OBVIOUS
<1>2. NoSnap \in [id : Id \cup {None}, asset : Assets]
  BY Blank DEF NoSnap
<1>3. QED
  BY <1>1, <1>2, Blank DEF Init, TypeOK, HasPackage, Steps
-----------------------------------------------------------------------------
(* What a step of the job can do, and what others can.                     *)

\* A step of the job goes on from one place to the next, or the job ends.
Onward ==
  /\ UNCHANGED me
  /\ \/ pc = "find" /\ pc' = "tag"
     \/ pc = "tag" /\ pc' \in {"create", "extend"}
     \/ pc = "create" /\ pc' = "require"
     \/ pc = "require" /\ pc' = "extend"
     \/ pc = "extend" /\ pc' = "list"
     \/ pc = "list" /\ pc' = "compare"
     \/ pc = "compare" /\ pc' \in {"compare", "payload"}
     \/ pc = "payload" /\ pc' \in {"payload", "attach"}
     \/ pc = "attach" /\ pc' = "bundle"
     \/ pc = "bundle" /\ pc' \in {"bundle", "complete"}
     \/ pc = "complete" /\ pc' = "download"
     \/ pc = "download" /\ pc' = "provenance"
     \/ pc = "provenance" /\ pc' = "verify"
     \/ pc = "verify" /\ pc' = "edit"
     \/ pc = "edit" /\ pc' = "assert"

LEMMA JobShape ==
  ASSUME JobStep \/ Fault
  PROVE  /\ UNCHANGED <<pkg, retained>>
         /\ pc # "idle"
         /\ Fail \/ Onward
<1> USE DEF Onward
<1>1. CASE Find \/ GuardTag \/ Create \/ Require
  BY <1>1 DEF Find, GuardTag, Create, Require
<1>2. CASE Extend \/ ExtendRefused \/ List \/ Compare
  BY <1>2 DEF Extend, ExtendRefused, List, Compare
<1>3. CASE Upload
  BY <1>3 DEF Upload
<1>4. CASE CheckComplete \/ Download \/ Provenance \/ Verify
  BY <1>4 DEF CheckComplete, Download, Provenance, Verify
<1>5. CASE Publish \/ AssertImmutable \/ Stop
  BY <1>5 DEF Publish, AssertImmutable, Stop
<1>6. ASSUME NEW n \in Name, StopInUpload(n)
      PROVE  UNCHANGED <<pkg, retained>> /\ pc # "idle" /\ Fail
  BY <1>6 DEF StopInUpload
<1>7. QED
  BY <1>1, <1>2, <1>3, <1>4, <1>5, <1>6 DEF JobStep, Fault

LEMMA OthersShape ==
  ASSUME Others
  PROVE  /\ UNCHANGED <<pkg, retained, pc, me, snap, existing, todo, got>>
         /\ \/ late' = late \cup {"asset"} /\ release.state = "draft" /\ UNCHANGED tag
            \/ late' = late \cup {"tag"} /\ release.state # "published" /\ UNCHANGED release
  BY DEF Others, DeleteDraft, DeleteAsset, PutAsset, MoveTag, Changed

\* Others take assets away, or add some that are new to the job.
LEMMA OthersAssets ==
  ASSUME TypeOK, Others, NEW s \in Name, snap.asset[s] # None,
         release'.asset[s] = snap.asset[s]
  PROVE  release.asset[s] = snap.asset[s]
<1>1. CASE DeleteDraft
  BY <1>1 DEF DeleteDraft, Absent, NoAssets
<1>2. ASSUME NEW n \in Name, DeleteAsset(n) PROVE release.asset[s] = snap.asset[s]
  <2>1. release'.asset = [release.asset EXCEPT ![n] = None]
    BY <1>2, TakeType DEF DeleteAsset
  <2>2. release.asset \in Assets
    BY <1>2, DraftType DEF DeleteAsset, Draft
  <2>3. QED
    BY <2>1, <2>2 DEF Assets
<1>3. ASSUME NEW n \in Name, NEW c \in Bytes, PutAsset(n, c)
      PROVE  release.asset[s] = snap.asset[s]
  <2>1. release'.asset = [release.asset EXCEPT ![n] = [id |-> Fresh, is |-> c]]
    BY <1>3, PutType DEF PutAsset
  <2>2. release.asset \in Assets
    BY <1>3, DraftType DEF PutAsset, Draft
  <2>3. snap.asset[s].id \in Used
    BY DEF Used, IdsOf, Present
  <2>4. Fresh \notin Used
    BY <1>3, FreshId DEF PutAsset
  <2>5. CASE n = s
    <3>1. release'.asset[s] = [id |-> Fresh, is |-> c]
      BY <2>1, <2>2, <2>5 DEF Assets
    <3>2. QED
      BY <2>3, <2>4, <3>1
  <2>6. CASE n # s
    BY <2>1, <2>2, <2>6 DEF Assets
  <2>7. QED
    BY <2>5, <2>6
<1>4. ASSUME NEW t \in Source \cup {None}, MoveTag(t) PROVE release.asset[s] = snap.asset[s]
  BY <1>4 DEF MoveTag
<1>5. ASSUME NEW n \in Name, NEW src \in Source, pkg[src] # None, PutAsset(n, In(pkg[src], n))
      PROVE  release.asset[s] = snap.asset[s]
  <2>1. In(pkg[src], n) \in Bytes
    BY <1>5, InType DEF TypeOK, Bytes
  <2>2. QED
    BY <1>3, <1>5, <2>1
<1>6. Foreign \in Bytes
  BY DEF Bytes
<1>7. QED
  BY <1>1, <1>2, <1>3, <1>4, <1>5, <1>6 DEF Others

LEMMA PackageStep == ASSUME TypeOK, HasPackage, [Next]_vars PROVE HasPackage'
<1>1. ASSUME NEW src \in Source, NEW b \in Build, Attempt(src, b) PROVE HasPackage'
  <2> DEFINE p == [src |-> src, build |-> b, att |-> LastAttempt(src) + 1]
  <2>1. LastAttempt(src) \in Nat
    BY DEF TypeOK, LastAttempt, Package
  <2>2. p \in Package
    BY <2>1 DEF Package
  <2>3. me' = p /\ pkg' = [pkg EXCEPT ![src] = p] /\ retained' = retained \cup {src}
    BY <1>1 DEF Attempt
  <2>. HIDE DEF p
  <2>4. QED
    BY <2>2, <2>3 DEF HasPackage, TypeOK
<1>2. ASSUME NEW src \in Source, RerunPublish(src) \/ Expire(src) PROVE HasPackage'
  BY <1>2 DEF RerunPublish, Expire, HasPackage
<1>3. CASE JobStep \/ Fault
  BY <1>3, JobShape DEF HasPackage, Onward, Fail
<1>4. CASE Others
  BY <1>4, OthersShape DEF HasPackage
<1>5. CASE UNCHANGED vars
  BY <1>5 DEF vars, HasPackage
<1>6. QED
  BY <1>1, <1>2, <1>3, <1>4, <1>5 DEF Next, Runs

\* The types hold throughout (TypeOK).
THEOREM TypeCorrect == Spec => []TypeOK
<1>1. Init => TypeOK /\ HasPackage
  BY InitType
<1>2. TypeOK /\ HasPackage /\ [Next]_vars => TypeOK' /\ HasPackage'
  BY TypeStep, PackageStep
<1>3. QED
  BY <1>1, <1>2, PTL DEF Spec
-----------------------------------------------------------------------------
(* From the last check to the publication.                                 *)

\* The job finds no published release and nobody else publishes.
Unpublished == pc \notin {"idle", "find", "assert"} => release.state # "published"

\* The snapshot it completes with has every asset of a package and no other.
Whole ==
  pc \in {"download", "provenance", "verify", "edit"} =>
    Present(snap.asset) = Files \cup Bundles

\* An asset that is still the one of the snapshot is the one it downloaded.
Downloaded ==
  pc \in {"provenance", "verify", "edit"} =>
    \A s \in Name : snap.asset[s] # None /\ release.asset[s] = snap.asset[s] =>
                     got[s] = snap.asset[s].is

Proven == pc \in {"verify", "edit"} => Verified(got, me.src)

\* What it publishes is what it checked, unless somebody wrote since.
Checked ==
  pc = "edit" /\ "asset" \notin late =>
    release.target = me.src /\ release.asset = snap.asset

Tagged == pc \notin {"idle", "find", "tag", "assert"} /\ "tag" \notin late => tag = me.src

AtTag == release.state = "published" /\ late = {} => tag = release.target

IInv ==
  /\ TypeOK /\ HasPackage
  /\ Unpublished /\ Whole /\ Downloaded /\ Proven /\ Checked /\ Tagged
  /\ PublishedVerified /\ AtTag

LEMMA InitInv == Init => IInv
<1>1. Init => /\ Unpublished /\ Whole /\ Downloaded /\ Proven /\ Checked /\ Tagged
              /\ PublishedVerified /\ AtTag
  BY DEF Init, Unpublished, Whole, Downloaded, Proven, Checked, Tagged,
         PublishedVerified, AtTag, Absent
<1>2. QED
  BY <1>1, InitType DEF IInv

\* A run that begins, and a step that changes nothing.
LEMMA RunsShape ==
  ASSUME Runs
  PROVE  /\ pc = "idle" /\ pc' \in {"idle", "find"}
         /\ UNCHANGED <<release, tag, snap, existing, todo, got, late, touched>>
  BY DEF Runs, Attempt, RerunPublish, Expire

LEMMA UnpublishedStep == ASSUME IInv, [Next]_vars PROVE Unpublished'
<1> USE DEF IInv, Unpublished
<1>1. CASE Runs
  BY <1>1, RunsShape
<1>2. CASE Others
  <2>1. CASE release'.state = "published"
    <3>1. ASSUME NEW s \in Name, DeleteAsset(s) PROVE release'.state # "published"
      BY <3>1, TakeType DEF DeleteAsset
    <3>2. ASSUME NEW s \in Name, NEW c \in Bytes, PutAsset(s, c)
          PROVE  release'.state # "published"
      BY <3>2, PutType DEF PutAsset
    <3>3. ASSUME NEW s \in Name, NEW src \in Source, pkg[src] # None,
                 PutAsset(s, In(pkg[src], s))
          PROVE  release'.state # "published"
      <4>1. In(pkg[src], s) \in Bytes
        BY <3>3, InType DEF TypeOK, Bytes
      <4>2. QED
        BY <3>2, <3>3, <4>1
    <3>4. Foreign \in Bytes
      BY DEF Bytes
    <3>5. DeleteDraft => release'.state # "published"
      BY DEF DeleteDraft, Absent
    <3>6. \E t \in Source \cup {None} : MoveTag(t)
      BY <1>2, <2>1, <3>1, <3>2, <3>3, <3>4, <3>5 DEF Others
    <3>7. QED
      BY <2>1, <3>6 DEF MoveTag
  <2>2. CASE release'.state # "published"
    BY <2>2
  <2>3. QED
    BY <2>1, <2>2
<1>3. CASE Find
  BY <1>3 DEF Find, WellFormed, Fail
<1>4. CASE Create
  BY <1>4 DEF Create, NewDraft
<1>5. CASE Upload
  <2>1. CASE UNCHANGED release
    <3>1. pc # "find"
      BY <1>5 DEF Upload
    <3>2. QED
      BY <1>5, <2>1, <3>1, JobShape DEF JobStep, Onward, Fail
  <2>2. ASSUME NEW s \in todo, SomeId, release.state = "draft", pc # "idle",
               release' = [release EXCEPT !.asset[s] = [id |-> Fresh, is |-> In(me, s)]]
        PROVE  release'.state # "published"
    BY <2>2, InType, PutType DEF TypeOK, Bytes, HasPackage
  <2>3. QED
    BY <1>5, <2>1, <2>2 DEF Upload
<1>6. CASE Publish
  BY <1>6 DEF Publish, Fail
<1>7. CASE GuardTag \/ Require \/ Extend \/ ExtendRefused \/ List \/ Compare
  <2>1. UNCHANGED release /\ pc # "find"
    BY <1>7 DEF GuardTag, Require, Extend, ExtendRefused, List, Compare
  <2>2. QED
    BY <1>7, <2>1, JobShape DEF JobStep, Onward, Fail
<1>8. CASE CheckComplete \/ Download \/ Provenance \/ Verify \/ AssertImmutable
  <2>1. UNCHANGED release /\ pc # "find"
    BY <1>8 DEF CheckComplete, Download, Provenance, Verify, AssertImmutable
  <2>2. QED
    BY <1>8, <2>1, JobShape DEF JobStep, Onward, Fail
<1>9. CASE Fault
  BY <1>9 DEF Fault, Stop, StopInUpload, Fail
<1>10. CASE UNCHANGED vars
  BY <1>10 DEF vars
<1>11. QED
  BY <1>1, <1>2, <1>3, <1>4, <1>5, <1>6, <1>7, <1>8, <1>9, <1>10 DEF Next, JobStep

LEMMA WholeStep == ASSUME IInv, [Next]_vars PROVE Whole'
<1> USE DEF IInv, Whole
<1>1. CASE Runs
  BY <1>1, RunsShape
<1>2. CASE Others
  BY <1>2, OthersShape
<1>3. CASE CheckComplete
  <2>1. CASE Complete
    <3>1. snap' = Current /\ Present(release.asset) = Files \cup Bundles
      BY <1>3, <2>1 DEF CheckComplete, Complete
    <3>2. snap'.asset = release.asset
      BY <3>1 DEF Current
    <3>3. QED
      BY <3>1, <3>2
  <2>2. CASE ~Complete
    BY <1>3, <2>2 DEF CheckComplete, Fail
  <2>3. QED
    BY <2>1, <2>2
<1>4. CASE Download \/ Provenance \/ Verify \/ Publish
  BY <1>4 DEF Download, Provenance, Verify, Publish, Fail
<1>5. CASE (JobStep \/ Fault) /\ ~(CheckComplete \/ Download \/ Provenance \/ Verify \/ Publish)
  <2>1. pc \notin {"complete", "download", "provenance", "verify", "edit"} \/ Fail
    BY <1>5 DEF JobStep, Fault, Stop, StopInUpload, Find, GuardTag, Create, Require, Extend,
                ExtendRefused, List, Compare, Upload, AssertImmutable
  <2>2. QED
    BY <1>5, <2>1, JobShape DEF Onward, Fail
<1>6. CASE UNCHANGED vars
  BY <1>6 DEF vars
<1>7. QED
  BY <1>1, <1>2, <1>3, <1>4, <1>5, <1>6 DEF Next

LEMMA DownloadedStep == ASSUME IInv, [Next]_vars PROVE Downloaded'
<1> USE DEF IInv, Downloaded
<1>1. CASE Runs
  BY <1>1, RunsShape
<1>2. CASE Others
  BY <1>2, OthersShape, OthersAssets
<1>3. CASE Download
  <2>1. CASE release.state = "draft"
    BY <1>3, <2>1 DEF Download, Contents
  <2>2. CASE release.state # "draft"
    BY <1>3, <2>2 DEF Download, Fail
  <2>3. QED
    BY <2>1, <2>2
<1>4. CASE Provenance \/ Verify \/ Publish
  BY <1>4 DEF Provenance, Verify, Publish, Fail
<1>5. CASE (JobStep \/ Fault) /\ ~(Download \/ Provenance \/ Verify \/ Publish)
  <2>1. pc \notin {"download", "provenance", "verify", "edit"} \/ Fail
    BY <1>5 DEF JobStep, Fault, Stop, StopInUpload, Find, GuardTag, Create, Require, Extend,
                ExtendRefused, List, Compare, Upload, CheckComplete, AssertImmutable
  <2>2. QED
    BY <1>5, <2>1, JobShape DEF Onward, Fail
<1>6. CASE UNCHANGED vars
  BY <1>6 DEF vars
<1>7. QED
  BY <1>1, <1>2, <1>3, <1>4, <1>5, <1>6 DEF Next

LEMMA ProvenStep == ASSUME IInv, [Next]_vars PROVE Proven'
<1> USE DEF IInv, Proven
<1>1. CASE Runs
  BY <1>1, RunsShape
<1>2. CASE Others
  BY <1>2, OthersShape
<1>3. CASE Provenance \/ Verify \/ Publish
  BY <1>3 DEF Provenance, Verify, Publish, Fail
<1>4. CASE (JobStep \/ Fault) /\ ~(Provenance \/ Verify \/ Publish)
  <2>1. pc \notin {"provenance", "verify", "edit"} \/ Fail
    BY <1>4 DEF JobStep, Fault, Stop, StopInUpload, Find, GuardTag, Create, Require, Extend,
                ExtendRefused, List, Compare, Upload, CheckComplete, Download, AssertImmutable
  <2>2. QED
    BY <1>4, <2>1, JobShape DEF Onward, Fail
<1>5. CASE UNCHANGED vars
  BY <1>5 DEF vars
<1>6. QED
  BY <1>1, <1>2, <1>3, <1>4, <1>5 DEF Next

LEMMA CheckedStep == ASSUME IInv, [Next]_vars PROVE Checked'
<1> USE DEF IInv, Checked
<1>1. CASE Runs
  BY <1>1, RunsShape
<1>2. CASE Others
  BY <1>2, OthersShape
<1>3. CASE Verify
  BY <1>3 DEF Verify, Check, Kept, WellFormed, Fail
<1>4. CASE Publish
  BY <1>4 DEF Publish, Fail
<1>5. CASE (JobStep \/ Fault) /\ ~(Verify \/ Publish)
  <2>1. pc \notin {"verify", "edit"} \/ Fail
    BY <1>5 DEF JobStep, Fault, Stop, StopInUpload, Find, GuardTag, Create, Require, Extend,
                ExtendRefused, List, Compare, Upload, CheckComplete, Download, Provenance,
                AssertImmutable
  <2>2. QED
    BY <1>5, <2>1, JobShape DEF Onward, Fail
<1>6. CASE UNCHANGED vars
  BY <1>6 DEF vars
<1>7. QED
  BY <1>1, <1>2, <1>3, <1>4, <1>5, <1>6 DEF Next

LEMMA TaggedStep == ASSUME IInv, [Next]_vars PROVE Tagged'
<1> USE DEF IInv, Tagged
<1>1. CASE Runs
  BY <1>1, RunsShape
<1>2. CASE Others
  BY <1>2, OthersShape
<1>3. CASE GuardTag
  BY <1>3 DEF GuardTag, TagFits, Fail
<1>4. CASE Publish
  BY <1>4 DEF Publish, Fail
<1>5. CASE (JobStep \/ Fault) /\ ~(GuardTag \/ Publish)
  <2>1. UNCHANGED tag /\ ("tag" \in late => "tag" \in late')
    BY <1>5 DEF JobStep, Fault, Stop, StopInUpload, Find, Create, Require, Extend,
                ExtendRefused, List, Compare, Upload, CheckComplete, Download, Provenance,
                Verify, AssertImmutable
  <2>2. pc \notin {"tag", "edit"} \/ Fail
    BY <1>5 DEF JobStep, Fault, Stop, StopInUpload, Find, Create, Require, Extend,
                ExtendRefused, List, Compare, Upload, CheckComplete, Download, Provenance,
                Verify, AssertImmutable
  <2>3. QED
    BY <1>5, <2>1, <2>2, JobShape DEF Onward, Fail
<1>6. CASE UNCHANGED vars
  BY <1>6 DEF vars
<1>7. QED
  BY <1>1, <1>2, <1>3, <1>4, <1>5, <1>6 DEF Next

\* A draft that is the verified snapshot is a verified release.
LEMMA PublishesVerified ==
  ASSUME IInv, Publish, release.state = "draft", "asset" \notin late
  PROVE  /\ Verified(Contents(release'.asset), release'.target)
         /\ Present(release'.asset) = Files \cup Bundles
<1>1. /\ release'.asset = release.asset /\ release'.target = release.target
      /\ release.asset = snap.asset /\ release.target = me.src /\ pc = "edit"
  <2>1. release' = [release EXCEPT !.state = "published"] /\ pc = "edit"
    BY DEF Publish
  <2>2. release \in Draft
    BY DraftType DEF IInv
  <2>3. QED
    BY <2>1, <2>2 DEF Draft, IInv, Checked
<1>2. Present(snap.asset) = Files \cup Bundles
  BY <1>1 DEF IInv, Whole
<1>3. \A s \in Files \cup Bundles : Contents(release'.asset)[s] = got[s]
  <2>1. SUFFICES ASSUME NEW s \in Files \cup Bundles
                 PROVE  Contents(snap.asset)[s] = got[s]
    BY <1>1
  <2>2. s \in Name /\ snap.asset[s] # None
    BY <1>2, <2>1 DEF Present
  <2>3. got[s] = snap.asset[s].is
    BY <1>1, <2>2 DEF IInv, Downloaded
  <2>4. QED
    BY <2>2, <2>3 DEF Contents
<1>4. Verified(got, me.src)
  BY <1>1 DEF IInv, Proven
<1>5. \A n \in Subject : Sub(n) \in Files \cup Bundles /\ Bun(n) \in Files \cup Bundles
  BY DEF Files, Bundles
<1>6. Manifest \in Subject
  BY DEF Subject
<1>7. Verified(Contents(release'.asset), me.src)
  BY <1>3, <1>4, <1>5, <1>6 DEF Verified
<1>8. QED
  BY <1>1, <1>2, <1>7

\* A published release stays as it is, and so does what is known of it.
LEMMA PublishedStays ==
  ASSUME IInv, release.state = "published", [Next]_vars
  PROVE  UNCHANGED <<release, tag>> /\ late' = late
<1>1. CASE Runs
  BY <1>1, RunsShape
<1>2. CASE Others
  BY <1>2 DEF Others, DeleteDraft, DeleteAsset, PutAsset, MoveTag
<1>3. CASE Find \/ AssertImmutable
  BY <1>3 DEF Find, AssertImmutable
<1>4. pc \in {"idle", "find", "assert"}
  BY DEF IInv, Unpublished
<1>5. CASE JobStep /\ ~(Find \/ AssertImmutable)
  BY <1>4, <1>5 DEF JobStep, GuardTag, Create, Require, Extend, ExtendRefused, List, Compare,
     Upload, CheckComplete, Download, Provenance, Verify, Publish
<1>6. CASE Fault
  BY <1>6 DEF Fault, Stop, StopInUpload
<1>7. CASE UNCHANGED vars
  BY <1>7 DEF vars
<1>8. QED
  BY <1>1, <1>2, <1>3, <1>5, <1>6, <1>7 DEF Next

\* Nothing but Publish makes a release published.
LEMMA OnlyPublish ==
  ASSUME IInv, [Next]_vars, release'.state = "published", release.state # "published"
  PROVE  Publish /\ release.state = "draft"
<1>1. Unpublished'
  BY UnpublishedStep
<1>2. pc' \in {"idle", "find", "assert"}
  BY <1>1 DEF Unpublished
<1>3. ~(release' = release)
  OBVIOUS
<1>4. CASE Runs
  BY <1>3, <1>4, RunsShape
<1>5. CASE Others
  <2>1. ASSUME NEW s \in Name, DeleteAsset(s) PROVE FALSE
    BY <2>1, TakeType DEF DeleteAsset, IInv
  <2>2. ASSUME NEW s \in Name, NEW c \in Bytes, PutAsset(s, c) PROVE FALSE
    BY <2>2, PutType DEF PutAsset, IInv
  <2>3. ASSUME NEW s \in Name, NEW src \in Source, pkg[src] # None, PutAsset(s, In(pkg[src], s))
        PROVE  FALSE
    <3>1. In(pkg[src], s) \in Bytes
      BY <2>3, InType DEF TypeOK, Bytes, IInv
    <3>2. QED
      BY <2>2, <2>3, <3>1
  <2>4. Foreign \in Bytes
    BY DEF Bytes
  <2>5. ~DeleteDraft /\ ~\E t \in Source \cup {None} : MoveTag(t)
    BY <1>3 DEF DeleteDraft, Absent, MoveTag
  <2>6. QED
    BY <1>5, <2>1, <2>2, <2>3, <2>4, <2>5 DEF Others
<1>6. CASE JobStep /\ ~Publish
  <2>1. ~Upload
    <3>1. ASSUME NEW s \in todo, SomeId, release.state = "draft", pc # "idle",
                 release' = [release EXCEPT !.asset[s] = [id |-> Fresh, is |-> In(me, s)]]
          PROVE  FALSE
      BY <3>1, InType, PutType DEF TypeOK, Bytes, HasPackage, IInv
    <3>2. QED
      BY <1>3, <3>1 DEF Upload
  <2>2. QED
    <3>1. ~Create
      BY DEF Create, NewDraft
    <3>2. ~(Find \/ GuardTag \/ Require \/ Extend \/ ExtendRefused \/ List \/ Compare)
      BY <1>3 DEF Find, GuardTag, Require, Extend, ExtendRefused, List, Compare
    <3>3. ~(CheckComplete \/ Download \/ Provenance \/ Verify \/ AssertImmutable)
      BY <1>3 DEF CheckComplete, Download, Provenance, Verify, AssertImmutable
    <3>4. QED
      BY <1>6, <2>1, <3>1, <3>2, <3>3 DEF JobStep
<1>7. CASE Fault
  <2>1. ASSUME NEW s \in Name, StopInUpload(s) PROVE FALSE
    BY <2>1, PutType DEF StopInUpload, IInv
  <2>2. QED
    BY <1>3, <1>7, <2>1 DEF Fault, Stop
<1>8. Publish
  BY <1>3, <1>4, <1>5, <1>6, <1>7 DEF Next, vars
<1>9. QED
  BY <1>3, <1>8 DEF Publish

LEMMA PublishedStep ==
  ASSUME IInv, [Next]_vars PROVE PublishedVerified' /\ AtTag'
<1>1. CASE release.state = "published"
  BY <1>1, PublishedStays DEF IInv, PublishedVerified, AtTag
<1>2. CASE release'.state = "published" /\ release.state # "published"
  <2>1. Publish /\ release.state = "draft" /\ late' = late
    BY <1>2, OnlyPublish DEF Publish
  <2>2. PublishedVerified'
    BY <2>1, PublishesVerified DEF PublishedVerified
  <2>3. ASSUME late = {} PROVE tag' = release'.target
    <3>1. release' = [release EXCEPT !.state = "published"] /\ pc = "edit"
          /\ tag' = IF tag = None THEN release.target ELSE tag
      BY <2>1 DEF Publish
    <3>2. release'.target = release.target
      BY <2>1, <3>1, DraftType DEF IInv, Draft
    <3>3. tag = me.src /\ release.target = me.src
      BY <2>3, <3>1 DEF IInv, Tagged, Checked
    <3>4. QED
      BY <3>1, <3>2, <3>3
  <2>4. QED
    BY <2>1, <2>2, <2>3 DEF AtTag
<1>3. CASE release'.state # "published"
  BY <1>3 DEF PublishedVerified, AtTag
<1>4. QED
  BY <1>1, <1>2, <1>3

LEMMA InvStep == ASSUME IInv, [Next]_vars PROVE IInv'
<1>1. TypeOK' /\ HasPackage'
  BY TypeStep, PackageStep DEF IInv
<1>2. QED
  BY <1>1, UnpublishedStep, WholeStep, DownloadedStep, ProvenStep, CheckedStep, TaggedStep,
     PublishedStep DEF IInv

LEMMA InvAlways == Spec => []IInv
  BY InitInv, InvStep, PTL DEF Spec

\* What is published was verified, unless somebody wrote after the last check
\* (PublishedVerified).
THEOREM PublishedIsVerified == Spec => []PublishedVerified
<1>1. IInv => PublishedVerified
  BY DEF IInv
<1>2. QED
  BY <1>1, InvAlways, PTL

\* And it is at the tag of its commit, so that verify-existing accepts it
\* (PublishedAtTag).
THEOREM PublishedIsAtTag == Spec => []PublishedAtTag
<1>1. IInv => PublishedAtTag
  BY DEF IInv, PublishedVerified, AtTag, PublishedAtTag, VerifyExisting
<1>2. QED
  BY <1>1, InvAlways, PTL
-----------------------------------------------------------------------------
(* One attempt in a draft nobody else writes to.                           *)

\* Attempts of a run are numbered from 1, and the job's is the last of its run.
Numbered ==
  /\ \A src \in Source : pkg[src] # None => pkg[src].src = src /\ pkg[src].att \in Nat \ {0}
  /\ pc # "idle" => me = pkg[me.src]

Untouched == release.state = "draft" /\ ~touched

\* The draft is of this package; it has no bundle before it has the manifest.
Fits(p) ==
  /\ p.src = release.target /\ p.att \in 1..LastAttempt(p.src)
  /\ \A s \in Present(release.asset) : release.asset[s].is \in {Partial, In(p, s)}
  /\ Bundles \cap Present(release.asset) # {} =>
       Sub(Manifest) \in Present(release.asset) /\ release.asset[Sub(Manifest)].is = p

OfOnePackage == Untouched => \E p \in Package : Fits(p)

Mine == pc \notin {"idle", "find", "assert"} /\ release.state = "draft" => release.target = me.src

Has(s) == s \in Present(release.asset) /\ release.asset[s].is = In(me, s)

Compared ==
  pc = "compare" /\ Untouched =>
    existing = Present(release.asset) /\ \A s \in existing \ todo : Guard(s)

Staged ==
  /\ pc = "payload" /\ Untouched =>
       Fits(me) /\ todo \subseteq Files /\ \A s \in Files \ todo : Has(s)
  /\ pc \in {"attach", "bundle"} /\ Untouched => Fits(me) /\ \A s \in Files : Has(s)
  /\ pc = "bundle" => todo \subseteq Bundles

OInv == Numbered /\ OfOnePackage /\ Mine /\ Compared /\ Staged

LEMMA NumberedStep == ASSUME IInv, Numbered, [Next]_vars PROVE Numbered'
<1> USE DEF IInv, Numbered, TypeOK, HasPackage
<1>1. ASSUME NEW src \in Source, NEW b \in Build, Attempt(src, b) PROVE Numbered'
  <2> DEFINE p == [src |-> src, build |-> b, att |-> LastAttempt(src) + 1]
  <2>1. LastAttempt(src) \in Nat
    BY DEF LastAttempt, Package
  <2>2. p.src = src /\ p.att \in Nat \ {0}
    BY <2>1
  <2>3. me' = p /\ pkg' = [pkg EXCEPT ![src] = p]
    BY <1>1 DEF Attempt
  <2>. HIDE DEF p
  <2>4. QED
    BY <2>2, <2>3
<1>2. ASSUME NEW src \in Source, RerunPublish(src) PROVE Numbered'
  <2>1. pkg[src] \in Package
    BY <1>2 DEF RerunPublish
  <2>2. pkg[src].src = src
    BY <2>1, NamesOK, ContentsOK DEF Bytes
  <2>3. QED
    BY <1>2, <2>2 DEF RerunPublish
<1>3. ASSUME NEW src \in Source, Expire(src) PROVE Numbered'
  BY <1>3 DEF Expire
<1>4. CASE JobStep \/ Fault
  BY <1>4, JobShape DEF Onward, Fail
<1>5. CASE Others
  BY <1>5, OthersShape
<1>6. CASE UNCHANGED vars
  BY <1>6 DEF vars
<1>7. QED
  BY <1>1, <1>2, <1>3, <1>4, <1>5, <1>6 DEF Next, Runs

\* The job's own package may be what a draft is of.
LEMMA MyAttempt ==
  ASSUME IInv, Numbered, pc # "idle"
  PROVE  me \in Package /\ me.src \in Source /\ me.att \in 1..LastAttempt(me.src)
<1>1. me \in Package
  BY DEF IInv, HasPackage
<1>2. me.src \in Source /\ pkg[me.src] = me /\ me # None
  BY <1>1, ContentsOK DEF Package, Numbered, Bytes
<1>3. me.att \in Nat \ {0}
  BY <1>2 DEF Numbered
<1>4. QED
  BY <1>1, <1>2, <1>3 DEF LastAttempt

\* A run's attempts only grow.
LEMMA AttemptsGrow ==
  ASSUME IInv, Numbered, [Next]_vars, NEW src \in Source
  PROVE  LastAttempt(src) \in Nat /\ LastAttempt(src)' \in Nat
         /\ LastAttempt(src) <= LastAttempt(src)'
<1>1. LastAttempt(src) \in Nat
  BY DEF LastAttempt, IInv, TypeOK, Package
<1>2. ASSUME NEW x \in Source, NEW b \in Build, Attempt(x, b)
      PROVE  LastAttempt(src)' \in {LastAttempt(src), LastAttempt(src) + 1}
  <2> DEFINE p == [src |-> x, build |-> b, att |-> LastAttempt(x) + 1]
  <2>1. pkg' = [pkg EXCEPT ![x] = p] /\ p.att = LastAttempt(x) + 1
    BY <1>2 DEF Attempt
  <2>2. p # None
    <3>1. LastAttempt(x) \in Nat
      BY DEF LastAttempt, IInv, TypeOK, Package
    <3>2. p \in Package
      BY <3>1 DEF Package
    <3>3. QED
      BY <3>2, ContentsOK DEF Bytes
  <2>. HIDE DEF p
  <2>3. CASE x = src
    BY <2>1, <2>2, <2>3 DEF LastAttempt, IInv, TypeOK
  <2>4. CASE x # src
    BY <2>1, <2>4 DEF LastAttempt, IInv, TypeOK
  <2>5. QED
    BY <2>3, <2>4
<1>3. CASE UNCHANGED pkg
  BY <1>1, <1>3 DEF LastAttempt
<1>4. (\E x \in Source, b \in Build : Attempt(x, b)) \/ UNCHANGED pkg
  BY JobShape, OthersShape DEF Next, Runs, RerunPublish, Expire, vars
<1>5. QED
  BY <1>1, <1>2, <1>3, <1>4

\* With the same draft, whatever fits goes on fitting.
LEMMA FitsStays ==
  ASSUME IInv, Numbered, [Next]_vars, UNCHANGED release, NEW p \in Package, Fits(p)
  PROVE  Fits(p)'
<1>1. p.src \in Source
  BY DEF Package
<1>2. p.att \in 1..LastAttempt(p.src)'
  BY <1>1, AttemptsGrow DEF Fits
<1>3. QED
  BY <1>2 DEF Fits

\* A new asset of the package fits; so does one cut short.
LEMMA PutFits ==
  ASSUME IInv, release.state = "draft", NEW p \in Package, Fits(p), SomeId,
         NEW s \in Name, release.asset[s] = None,
         NEW c \in {Partial, In(p, s)}, UNCHANGED pkg,
         s \in Bundles => Sub(Manifest) \in Present(release.asset)
                         /\ release.asset[Sub(Manifest)].is = p,
         release' = [release EXCEPT !.asset[s] = [id |-> Fresh, is |-> c]]
  PROVE  /\ Fits(p)'
         /\ Present(release'.asset) = Present(release.asset) \cup {s}
         /\ release'.asset[s].is = c
         /\ \A n \in Present(release.asset) : release'.asset[n] = release.asset[n]
<1>1. c \in Bytes \cup {Partial}
  BY InType DEF Bytes
<1>2. /\ release'.target = release.target
      /\ release'.asset = [release.asset EXCEPT ![s] = [id |-> Fresh, is |-> c]]
  BY <1>1, PutType DEF IInv
<1>3. release.asset \in Assets
  BY DraftType DEF IInv, Draft
<1>4. [id |-> Fresh, is |-> c] # None
  BY <1>1, FreshId, ContentsOK DEF Asset
<1>5. /\ release'.asset[s] = [id |-> Fresh, is |-> c]
      /\ \A n \in Name \ {s} : release'.asset[n] = release.asset[n]
  BY <1>2, <1>3 DEF Assets
<1>6. Present(release'.asset) = Present(release.asset) \cup {s}
  BY <1>4, <1>5 DEF Present
<1>7. \A n \in Present(release.asset) : n # s /\ release'.asset[n] = release.asset[n]
  BY <1>5 DEF Present
<1>8. \A n \in Present(release'.asset) : release'.asset[n].is \in {Partial, In(p, n)}
  BY <1>5, <1>6, <1>7 DEF Fits
<1>9. Bundles \cap Present(release'.asset) # {} =>
        Sub(Manifest) \in Present(release'.asset) /\ release'.asset[Sub(Manifest)].is = p
  BY <1>6, <1>7 DEF Fits
<1>10. LastAttempt(p.src)' = LastAttempt(p.src)
  BY DEF LastAttempt
<1>11. QED
  BY <1>2, <1>5, <1>6, <1>7, <1>8, <1>9, <1>10 DEF Fits

\* Others leave an untouched draft alone or it is untouched no longer.
LEMMA OthersTouch ==
  ASSUME Others, TypeOK, Untouched' PROVE UNCHANGED <<release, touched>> /\ Untouched
<1>1. CASE DeleteDraft
  BY <1>1 DEF DeleteDraft, Absent, Untouched
<1>2. CASE ~DeleteDraft
  BY <1>2 DEF Others, DeleteAsset, PutAsset, MoveTag, Untouched
<1>3. QED
  BY <1>1, <1>2

\* What the job does to the draft: it makes it, puts one asset, publishes, or nothing.
LEMMA JobDraft ==
  ASSUME JobStep \/ Fault, ~Create, ~Publish
  PROVE  /\ UNCHANGED touched
         /\ \/ UNCHANGED release
            \/ \E s \in todo : \E c \in {Partial, In(me, s)} :
                  /\ pc \in {"payload", "bundle"} /\ Turn(s) /\ SomeId
                  /\ release.state = "draft" /\ release.asset[s] = None
                  /\ release' = [release EXCEPT !.asset[s] = [id |-> Fresh, is |-> c]]
                  /\ \/ Upload /\ c = In(me, s) /\ pc' = pc /\ todo' = todo \ {s}
                     \/ Fail
<1>1. CASE Upload
  BY <1>1 DEF Upload
<1>2. ASSUME NEW s \in Name, StopInUpload(s)
      PROVE  /\ UNCHANGED touched /\ pc \in {"payload", "bundle"} /\ Turn(s) /\ SomeId
             /\ release.state = "draft" /\ release.asset[s] = None /\ s \in todo
             /\ release' = [release EXCEPT !.asset[s] = [id |-> Fresh, is |-> Partial]]
             /\ Fail
  BY <1>2 DEF StopInUpload, Turn
<1>3. CASE Stop
  BY <1>3 DEF Stop
<1>4. CASE Find \/ GuardTag \/ Require \/ Extend \/ ExtendRefused \/ List \/ Compare
  BY <1>4 DEF Find, GuardTag, Require, Extend, ExtendRefused, List, Compare
<1>5. CASE CheckComplete \/ Download \/ Provenance \/ Verify \/ AssertImmutable
  BY <1>5 DEF CheckComplete, Download, Provenance, Verify, AssertImmutable
<1>6. QED
  BY <1>1, <1>2, <1>3, <1>4, <1>5 DEF JobStep, Fault

\* The job is at work on the draft of its own commit.
LEMMA MineStep == ASSUME IInv, Mine, [Next]_vars PROVE Mine'
<1>1. CASE Runs
  <2>1. ASSUME NEW src \in Source, Expire(src) PROVE Mine'
    BY <2>1 DEF Expire, Mine
  <2>2. QED
    BY <1>1, <2>1 DEF Runs, Attempt, RerunPublish, Mine
<1>2. CASE Others
  <2>1. ASSUME NEW s \in Name, DeleteAsset(s)
        PROVE  release'.target = release.target /\ release.state = "draft"
    BY <2>1, TakeType DEF DeleteAsset, IInv
  <2>2. ASSUME NEW s \in Name, NEW c \in Bytes, PutAsset(s, c)
        PROVE  release'.target = release.target /\ release.state = "draft"
    BY <2>2, PutType DEF PutAsset, IInv
  <2>3. ASSUME NEW s \in Name, NEW src \in Source, pkg[src] # None, PutAsset(s, In(pkg[src], s))
        PROVE  release'.target = release.target /\ release.state = "draft"
    <3>1. In(pkg[src], s) \in Bytes
      BY <2>3, InType DEF TypeOK, Bytes, IInv
    <3>2. QED
      BY <2>2, <2>3, <3>1
  <2>4. Foreign \in Bytes
    BY DEF Bytes
  <2>5. ASSUME DeleteDraft PROVE release'.state = "absent"
    BY <2>5 DEF DeleteDraft, Absent
  <2>6. ASSUME NEW t \in Source \cup {None}, MoveTag(t) PROVE UNCHANGED release
    BY <2>6 DEF MoveTag
  <2>7. \/ release'.state = "absent"
        \/ release'.target = release.target /\ (release.state = "draft" \/ UNCHANGED release)
    BY <1>2, <2>1, <2>2, <2>3, <2>4, <2>5, <2>6 DEF Others
  <2>8. QED
    BY <1>2, <2>7, OthersShape DEF Mine
<1>3. CASE Create \/ Publish
  BY <1>3 DEF Create, NewDraft, Publish, Mine, Fail
<1>4. CASE (JobStep \/ Fault) /\ ~Create /\ ~Publish
  <2>1. CASE UNCHANGED release
    <3>1. CASE Fail
      BY <3>1 DEF Fail, Mine
    <3>2. CASE Onward /\ pc = "find"
      <4>1. Find
        BY <1>4, <3>2 DEF JobStep, Fault, Stop, StopInUpload, GuardTag, Create, Require, Extend,
           ExtendRefused, List, Compare, Upload, CheckComplete, Download, Provenance, Verify,
           Publish, AssertImmutable, Onward, Fail
      <4>2. release.state = "absent" \/ release.target = me.src \/ Fail
        BY <4>1 DEF Find, WellFormed
      <4>3. QED
        BY <2>1, <3>1, <3>2, <4>2 DEF Mine, Onward
    <3>3. CASE Onward /\ pc # "find"
      BY <2>1, <3>3 DEF Mine, Onward
    <3>4. QED
      BY <1>4, <3>1, <3>2, <3>3, JobShape
  <2>2. ASSUME NEW s \in todo, NEW c \in {Partial, In(me, s)},
               pc \in {"payload", "bundle"}, SomeId, release.state = "draft",
               release' = [release EXCEPT !.asset[s] = [id |-> Fresh, is |-> c]]
        PROVE  Mine'
    <3>1. pc # "idle" /\ s \in Name /\ c \in Bytes \cup {Partial}
      BY <2>2, InType DEF IInv, TypeOK, HasPackage, Bytes
    <3>2. release'.target = release.target
      BY <2>2, <3>1, PutType DEF IInv
    <3>3. QED
      BY <1>4, <2>2, <3>2, JobShape DEF Mine, Onward, Fail
  <2>3. QED
    BY <1>4, <2>1, <2>2, JobDraft
<1>5. CASE UNCHANGED vars
  BY <1>5 DEF vars, Mine
<1>6. QED
  BY <1>1, <1>2, <1>3, <1>4, <1>5 DEF Next

\* What is known to be in the draft while it is compared.
LEMMA ComparedStep == ASSUME IInv, Compared, [Next]_vars PROVE Compared'
<1>1. CASE Runs
  <2>1. ASSUME NEW src \in Source, Expire(src) PROVE Compared'
    BY <2>1 DEF Expire, Compared, Untouched, Guard
  <2>2. QED
    BY <1>1, <2>1 DEF Runs, Attempt, RerunPublish, Compared
<1>2. CASE Others
  BY <1>2, OthersTouch, OthersShape DEF Compared, Untouched, Guard, IInv
<1>3. CASE JobStep \/ Fault
  <2>1. CASE pc' # "compare"
    BY <2>1 DEF Compared
  <2>2. CASE pc' = "compare" /\ pc = "list"
    <3>1. List
      BY <1>3, <2>2 DEF JobStep, Fault, Stop, StopInUpload, Find, GuardTag, Create, Require,
         Extend, ExtendRefused, Compare, Upload, CheckComplete, Download, Provenance, Verify,
         Publish, AssertImmutable, Fail
    <3>2. QED
      BY <2>2, <3>1 DEF List, Fail, Compared
  <2>3. CASE pc' = "compare" /\ pc = "compare"
    <3>1. Compare
      BY <1>3, <2>3 DEF JobStep, Fault, Stop, StopInUpload, Find, GuardTag, Create, Require,
         Extend, ExtendRefused, List, Upload, CheckComplete, Download, Provenance, Verify,
         Publish, AssertImmutable, Fail
    <3>2. QED
      BY <2>3, <3>1 DEF Compare, Fail, Compared, Untouched, Guard
  <2>4. QED
    BY <1>3, <2>1, <2>2, <2>3, JobShape DEF Onward, Fail
<1>4. CASE UNCHANGED vars
  BY <1>4 DEF vars, Compared, Untouched, Guard
<1>5. QED
  BY <1>1, <1>2, <1>3, <1>4 DEF Next

\* The draft that has been compared is of the job's package.
LEMMA ComparedFits ==
  ASSUME IInv, Numbered, OfOnePackage, Mine, Compared, pc = "compare", todo = {}, Untouched
  PROVE  Fits(me) /\ \A s \in Files \cap existing : Has(s)
<1>1. existing = Present(release.asset) /\ \A s \in existing : Guard(s)
  BY DEF Compared
<1>2. me.src = release.target /\ me.att \in 1..LastAttempt(me.src)
  BY MyAttempt DEF Mine, Untouched
<1>3. PICK p \in Package : Fits(p)
  BY DEF OfOnePackage
<1>4. \A s \in Files \cap existing : Has(s)
  BY <1>1 DEF Guard, Has
<1>5. Bundles \cap Present(release.asset) # {} =>
        p = me /\ Sub(Manifest) \in Present(release.asset)
        /\ release.asset[Sub(Manifest)].is = me
  <2>1. SUFFICES ASSUME Bundles \cap Present(release.asset) # {}
                 PROVE  p = me /\ Sub(Manifest) \in Present(release.asset)
                        /\ release.asset[Sub(Manifest)].is = me
    OBVIOUS
  <2>2. Sub(Manifest) \in Present(release.asset) /\ release.asset[Sub(Manifest)].is = p
    BY <1>3, <2>1 DEF Fits
  <2>3. Sub(Manifest) \in Files
    BY DEF Files, Subject
  <2>4. release.asset[Sub(Manifest)].is = me
    BY <1>1, <1>4, <2>2, <2>3 DEF Has, In
  <2>5. QED
    BY <2>2, <2>4
<1>6. ASSUME NEW s \in Present(release.asset) PROVE release.asset[s].is \in {Partial, In(me, s)}
  <2>1. s \in Files \/ s \in Bundles
    BY <1>1, <1>6 DEF Guard, Present, Name
  <2>2. CASE s \in Files
    BY <1>1, <1>4, <2>2 DEF Has
  <2>3. CASE s \in Bundles
    BY <1>3, <1>5, <2>3 DEF Fits
  <2>4. QED
    BY <2>1, <2>2, <2>3
<1>7. QED
  BY <1>2, <1>4, <1>5, <1>6 DEF Fits

\* An upload of the job's own package, in its turn, keeps what is staged.
LEMMA UploadStaged ==
  ASSUME IInv, Numbered, Staged, Upload, ~Fail, Untouched', pc' \in {"payload", "bundle"}
  PROVE  Staged'
<1>1. PICK s \in todo :
        /\ SomeId /\ release.state = "draft" /\ release.asset[s] = None
        /\ release' = [release EXCEPT !.asset[s] = [id |-> Fresh, is |-> In(me, s)]]
        /\ todo' = todo \ {s} /\ pc' = pc /\ me' = me
        /\ pc \in {"payload", "bundle"}
        /\ UNCHANGED <<pkg, touched>>
  BY DEF Upload
<1>2. Untouched /\ Fits(me) /\ me \in Package
  BY <1>1, MyAttempt DEF Untouched, Staged
<1>3. s \in Name
  BY DEF IInv, TypeOK
<1>4. Files \cap Bundles = {}
  BY DEF Files, Bundles, Sub, Bun
<1>5. s \in Bundles => Has(Sub(Manifest))
  <2>1. Sub(Manifest) \in Files
    BY DEF Files, Subject
  <2>2. QED
    BY <1>1, <1>2, <1>4, <2>1 DEF Staged
<1>6. s \in Bundles => Sub(Manifest) \in Present(release.asset)
                       /\ release.asset[Sub(Manifest)].is = me
  BY <1>5 DEF Has, In
<1>7. /\ Fits(me)'
      /\ Present(release'.asset) = Present(release.asset) \cup {s}
      /\ release'.asset[s].is = In(me, s)
      /\ \A n \in Present(release.asset) : release'.asset[n] = release.asset[n]
  <2>1. /\ Fits(me)
        /\ In(me, s) \in {Partial, In(me, s)}
        /\ UNCHANGED pkg
    BY <1>1, <1>2
  <2>2. /\ \A p \in Package : p = me =>
             /\ Fits(p)'
             /\ Present(release'.asset) = Present(release.asset) \cup {s}
             /\ release'.asset[s].is = In(me, s)
             /\ \A n \in Present(release.asset) : release'.asset[n] = release.asset[n]
    BY <1>1, <1>2, <1>3, <1>6, <2>1, PutFits
  <2>3. QED
    BY <1>1, <1>2, <2>2
<1>8. Has(s)' /\ \A n \in Name : Has(n) => Has(n)'
  BY <1>1, <1>7 DEF Has
<1>9. Files \subseteq Name /\ Bundles \subseteq Name
  BY DEF Name
<1>10. CASE pc = "payload"
  BY <1>1, <1>2, <1>7, <1>8, <1>9, <1>10 DEF Staged
<1>11. CASE pc = "bundle"
  BY <1>1, <1>2, <1>7, <1>8, <1>9, <1>11 DEF Staged
<1>12. QED
  BY <1>1, <1>10, <1>11

LEMMA StagedStep == ASSUME IInv, OInv, [Next]_vars PROVE Staged'
<1>1. CASE Runs
  <2>1. ASSUME NEW src \in Source, Expire(src) PROVE Staged'
    BY <2>1 DEF Expire, OInv, Staged, Untouched, Fits, Has, LastAttempt
  <2>2. QED
    BY <1>1, <2>1 DEF Runs, Attempt, RerunPublish, Staged
<1>2. CASE Others
  <2>1. CASE Untouched'
    BY <1>2, <2>1, OthersTouch, OthersShape
    DEF IInv, OInv, Staged, Untouched, Fits, Has, LastAttempt
  <2>2. CASE ~Untouched'
    BY <1>2, <2>2, OthersShape DEF OInv, Staged
  <2>3. QED
    BY <2>1, <2>2
<1>3. CASE JobStep \/ Fault
  <2>1. CASE pc' \notin {"payload", "attach", "bundle"}
    BY <2>1 DEF Staged
  <2>2. CASE pc' = "payload" /\ pc = "compare"
    <3>1. Compare /\ ~Fail
      BY <1>3, <2>2 DEF JobStep, Fault, Stop, StopInUpload, Find, GuardTag, Create, Require,
         Extend, ExtendRefused, List, Upload, CheckComplete, Download, Provenance, Verify,
         Publish, AssertImmutable, Fail
    <3>2. /\ todo = {} /\ todo' = Missing(Files)
          /\ UNCHANGED <<release, pkg, me, existing, touched>>
      BY <2>2, <3>1 DEF Compare
    <3>3. ASSUME Untouched'
          PROVE  Fits(me)' /\ todo' \subseteq Files /\ \A s \in Files \ todo' : Has(s)'
      <4>1. Fits(me) /\ \A s \in Files \cap existing : Has(s)
        BY <2>2, <3>2, <3>3, ComparedFits DEF OInv, Untouched
      <4>2. QED
        BY <3>2, <4>1 DEF Fits, Has, LastAttempt, Missing
    <3>4. QED
      BY <2>2, <3>3 DEF Staged
  <2>3. CASE pc' = "attach" /\ pc = "payload"
    <3>1. Upload /\ ~Fail
      BY <1>3, <2>3 DEF JobStep, Fault, Stop, StopInUpload, Find, GuardTag, Create, Require,
         Extend, ExtendRefused, List, Compare, CheckComplete, Download, Provenance, Verify,
         Publish, AssertImmutable, Fail
    <3>2. todo = {} /\ UNCHANGED <<release, pkg, me, touched>>
      BY <2>3, <3>1 DEF Upload
    <3>3. QED
      BY <2>3, <3>2 DEF OInv, Staged, Untouched, Fits, Has, LastAttempt
  <2>4. CASE pc' = "bundle" /\ pc = "attach"
    <3>1. Extend
      BY <1>3, <2>4 DEF JobStep, Fault, Stop, StopInUpload, Find, GuardTag, Create, Require,
         Upload, ExtendRefused, List, Compare, CheckComplete, Download, Provenance, Verify,
         Publish, AssertImmutable, Fail
    <3>2. todo' = Missing(Bundles) /\ UNCHANGED <<release, pkg, me, touched>>
      BY <2>4, <3>1 DEF Extend
    <3>3. QED
      BY <2>4, <3>2 DEF OInv, Staged, Untouched, Fits, Has, LastAttempt, Missing
  <2>5. CASE pc' = pc /\ pc \in {"payload", "bundle"}
    <3>1. Upload /\ ~Fail
      BY <1>3, <2>5 DEF JobStep, Fault, Stop, StopInUpload, Find, GuardTag, Create, Require,
         Extend, ExtendRefused, List, Compare, CheckComplete, Download, Provenance, Verify,
         Publish, AssertImmutable, Fail
    <3>2. todo' \subseteq todo
      BY <2>5, <3>1 DEF Upload
    <3>3. CASE Untouched'
      BY <2>5, <3>1, <3>3, UploadStaged DEF OInv
    <3>4. CASE ~Untouched'
      BY <2>5, <3>2, <3>4 DEF OInv, Staged
    <3>5. QED
      BY <3>3, <3>4
  <2>6. QED
    BY <1>3, <2>1, <2>2, <2>3, <2>4, <2>5, JobShape DEF Onward, Fail
<1>4. CASE UNCHANGED vars
  BY <1>4 DEF vars, OInv, Staged, Untouched, Fits, Has, LastAttempt
<1>5. QED
  BY <1>1, <1>2, <1>3, <1>4 DEF Next

LEMMA OneStep == ASSUME IInv, OInv, [Next]_vars PROVE OfOnePackage'
<1> SUFFICES ASSUME Untouched' PROVE (\E p \in Package : Fits(p))'
  BY DEF OfOnePackage
<1>1. CASE UNCHANGED <<release, touched>>
  <2>1. PICK p \in Package : Fits(p)
    BY <1>1 DEF OInv, OfOnePackage, Untouched
  <2>2. Fits(p)'
    BY <1>1, <2>1, FitsStays DEF OInv
  <2>3. QED
    BY <2>2
<1>2. CASE Runs
  BY <1>1, <1>2, RunsShape DEF Runs, Attempt, RerunPublish, Expire
<1>3. CASE Others
  BY <1>1, <1>3, OthersTouch DEF IInv
<1>4. CASE Create
  <2>1. /\ release' = NewDraft /\ pc # "idle" /\ UNCHANGED <<pkg, me>>
    BY <1>4 DEF Create
  <2>2. Present(release'.asset) = {} /\ release'.target = me.src
    BY <2>1 DEF NewDraft, NoAssets, Present
  <2>3. me \in Package /\ me.att \in 1..LastAttempt(me.src)'
    BY <2>1, MyAttempt DEF OInv, LastAttempt
  <2>4. \E p \in Package : p = me
    BY <2>3
  <2>5. PICK p \in Package : p = me
    BY <2>4
  <2>6. Fits(p)'
    <3>1. p.src = release'.target /\ p.att \in 1..LastAttempt(p.src)'
      BY <2>1, <2>2, <2>3, <2>5
    <3>2. QED
      BY <2>2, <3>1 DEF Fits, Bundles
  <2>7. QED
    BY <2>6
<1>5. CASE Publish
  <2>1. CASE Fail
    BY <1>1, <1>5, <2>1 DEF Publish, Fail
  <2>2. QED
    BY <1>5, <2>1, DraftType DEF Publish, Untouched, IInv, Draft
<1>6. CASE (JobStep \/ Fault) /\ ~Create /\ ~Publish
  <2>1. ASSUME NEW s \in todo, NEW c \in {Partial, In(me, s)},
               pc \in {"payload", "bundle"}, SomeId, release.state = "draft",
               release.asset[s] = None, UNCHANGED <<pkg, touched>>,
               release' = [release EXCEPT !.asset[s] = [id |-> Fresh, is |-> c]]
        PROVE  (\E p \in Package : Fits(p))'
    <3>1. me \in Package /\ Fits(me) /\ s \in Name
      BY <2>1, MyAttempt DEF OInv, Staged, Untouched, IInv, TypeOK
    <3>2. s \in Bundles => Sub(Manifest) \in Present(release.asset)
                           /\ release.asset[Sub(Manifest)].is = me
      <4>1. Sub(Manifest) \in Files /\ Files \cap Bundles = {}
        BY DEF Files, Bundles, Sub, Bun, Subject
      <4>2. QED
        BY <2>1, <4>1 DEF OInv, Staged, Untouched, Has, In
    <3>3. PICK p \in Package : p = me
      BY <3>1
    <3>4. Fits(p)'
      BY <2>1, <3>1, <3>2, <3>3, PutFits
    <3>5. QED
      BY <3>4
  <2>2. QED
    BY <1>1, <1>6, <2>1, JobDraft, JobShape
<1>7. CASE UNCHANGED vars
  BY <1>1, <1>7 DEF vars
<1>8. QED
  BY <1>2, <1>3, <1>4, <1>5, <1>6, <1>7 DEF Next

LEMMA InitOne == Init => OInv
  BY DEF Init, OInv, Numbered, OfOnePackage, Untouched, Mine, Compared, Staged, Absent

\* However often jobs of several attempts stop half-way, a draft nobody else
\* writes to is of one package (OneAttempt).
THEOREM OneAttemptCorrect == Spec => []OneAttempt
<1>1. IInv /\ OInv /\ [Next]_vars => OInv'
  BY NumberedStep, OneStep, MineStep, ComparedStep, StagedStep DEF OInv
<1>2. TypeOK /\ OInv => OneAttempt
  <2>1. SUFFICES ASSUME TypeOK, OInv, Untouched PROVE OneAttempt
    BY DEF OneAttempt, Untouched
  <2>2. PICK p \in Package : Fits(p)
    BY <2>1 DEF OInv, OfOnePackage
  <2>3. /\ p = [src |-> release.target, build |-> p.build, att |-> p.att]
        /\ p.build \in Build
    BY <2>2 DEF Package, Fits
  <2>4. QED
    BY <2>2, <2>3 DEF OneAttempt, Fits
<1>3. IInv => TypeOK
  BY DEF IInv
<1>4. QED
  BY <1>1, <1>2, <1>3, InitOne, InvAlways, PTL DEF Spec
=============================================================================
