----------------------- MODULE CoursePublishingProofs -----------------------
(***************************************************************************)
(* Proofs about CoursePublishing, for any number of lessons, calls,        *)
(* indexers, events, faults and lagging nodes.  What students see follows  *)
(* from what every writer of a course knows: a call carries a proposal     *)
(* that was made from READY lessons, and an indexer applies events of      *)
(* confirmed blocks only, which stay.                                      *)
(*                                                                         *)
(* Every step is reduced to one of three effects, of a call, the chain or  *)
(* an indexer, and the invariant and the refinement are proved of these.   *)
(***************************************************************************)
EXTENDS CoursePublishing, SequenceTheorems, TLAPS

USE PublishingAssumption DEF PublishingAssumption

-----------------------------------------------------------------------------
(* The inductive invariant.                                                *)

\* The hash of a proposal is made from its own terms and from READY lessons.
Sound(proposal) ==
  proposal # NoProposal =>
    /\ proposal.hash.terms = proposal.terms
    /\ Reviewable(proposal.hash)

\* What each call carries to its write.
CallsKnow ==
  \A r \in Requests :
    /\ request[r].step = "compose" => request[r].text \in Texts
    /\ request[r].step = "approve" => request[r].proposal \in Proposals
    /\ Sound(request[r].proposal)

\* An indexer reads confirmed blocks.
SyncsKnow ==
  \A i \in Indexers :
    /\ sync[i].step # "idle" => sync[i].safe \in 1..confirmed
    /\ sync[i].step = "apply" => sync[i].next >= 1

PublishInv ==
  /\ TypeOK
  /\ CallsKnow
  /\ SyncsKnow
  /\ Sound(course.proposal)
  /\ ListingIsConfirmed

-----------------------------------------------------------------------------
(* The three effects.                                                      *)

Public == {"PUBLISHED", "ARCHIVED"}

RowsTyped ==
  /\ course \in CourseRow
  /\ lesson \in [Lessons -> Kinds]
  /\ content \in [Lessons -> [status : Asset!States, version : Versions]]
  /\ request \in [Requests -> RequestRow]
  /\ packages \subseteq Proposals

\* A call leaves the listing alone and only moves a course towards its approval.
CallEffect ==
  /\ CallUnchanged
  /\ RowsTyped' /\ CallsKnow' /\ Sound(course.proposal)'
  /\ course'.listing = course.listing
  /\ \/ course'.status = course.status
     \/ course.status = "DRAFT" /\ course'.status = "PENDING_REVIEW"
     \/ course.status = "PENDING_REVIEW" /\ course'.status \in {"DRAFT", "APPROVED"}

\* The chain grows above what is confirmed.
ChainEffect ==
  /\ Chain!ChainTypeOK'
  /\ confirmed' >= confirmed
  /\ \A n \in 1..confirmed : logs'[n] = logs[n]
  /\ ChainStep

\* An indexer publishes what a confirmed event and the proposal say, projects
\* the contract's status, or leaves the course as it is.
IndexerEffect ==
  /\ SyncUnchanged
  /\ sync' \in [Indexers -> SyncRow] /\ checkpoint' \in Blocks /\ faults' \in 0..MaxFaults
  /\ SyncsKnow'
  /\ \/ UNCHANGED course
     \/ \E n \in 1..confirmed : Publishable(logs[n]) /\ Publish(logs[n])
     \/ /\ course.status \in Public
        /\ \E status \in Public : Writes(status, course.text, course.proposal)

-----------------------------------------------------------------------------
(* Calls.                                                                  *)

\* The request of a call that goes on is typed and knows what it has to.
LEMMA GoesOn ==
  ASSUME TypeOK, CallsKnow, NEW r \in Requests,
         NEW step \in {"idle", "update", "lesson", "media", "compose", "submit", "reject",
                       "inspect", "approve"},
         NEW l \in Lessons \union {None}, NEW v \in Versions, NEW text \in Texts \union {None},
         NEW p \in Proposals \union {NoProposal},
         Goes(r, step, l, v, text, p),
         step = "compose" => text \in Texts,
         step = "approve" => p \in Proposals,
         Sound(p)
  PROVE  request' \in [Requests -> RequestRow] /\ CallsKnow'
<1> DEFINE row == [step |-> step, lesson |-> l, version |-> v, text |-> text, proposal |-> p]
<1>1. row \in RequestRow
  BY DEF RequestRow
<1>2. request' = [request EXCEPT ![r] = row]
  BY DEF Goes
<1>3. request \in [Requests -> RequestRow]
  BY DEF TypeOK
<1>4. /\ request' \in [Requests -> RequestRow]
      /\ request'[r] = row
      /\ \A q \in Requests \ {r} : request'[q] = request[q]
  <2> HIDE DEF row
  <2> QED BY <1>1, <1>2, <1>3
<1>5. CallsKnow'
  <2> SUFFICES ASSUME NEW q \in Requests
               PROVE  /\ request'[q].step = "compose" => request'[q].text \in Texts
                      /\ request'[q].step = "approve" => request'[q].proposal \in Proposals
                      /\ Sound(request'[q].proposal)
    BY DEF CallsKnow, Sound, Reviewable
  <2>1. CASE q = r
    BY <1>4, <2>1
  <2>2. CASE q # r
    BY <1>4, <2>2 DEF CallsKnow
  <2> QED BY <2>1, <2>2
<1> QED BY <1>4, <1>5

\* So is one that ends.
LEMMA GoesHome ==
  ASSUME TypeOK, CallsKnow, NEW r \in Requests, Ends(r)
  PROVE  request' \in [Requests -> RequestRow] /\ CallsKnow'
<1>1. Goes(r, "idle", None, 0, None, NoProposal)
  BY DEF Ends, Goes, NoRequest
<1> QED BY <1>1, GoesOn DEF Sound, Versions

\* A call that only reads changes no row.
LEMMA ReadsHasEffect ==
  ASSUME PublishInv, Reads, request' \in [Requests -> RequestRow], CallsKnow'
  PROVE  CallEffect
<1>1. UNCHANGED <<course, lesson, content, packages>> /\ CallUnchanged
  BY DEF Reads, courseRows
<1> QED BY <1>1 DEF PublishInv, TypeOK, CallEffect, RowsTyped, Sound, Reviewable

\* A write of the course row by a call.
LEMMA WritesRow ==
  ASSUME PublishInv, NEW status, NEW text \in Texts, NEW p \in Proposals \union {NoProposal},
         Writes(status, text, p), Sound(p),
         status \in {"DRAFT", "PENDING_REVIEW", "APPROVED", "PUBLISHED", "ARCHIVED"}
  PROVE  /\ course' \in CourseRow /\ Sound(course.proposal)'
         /\ course'.listing = course.listing /\ course'.status = status
<1>1. course' = [status |-> status, text |-> text, proposal |-> p, listing |-> course.listing]
  BY DEF Writes
<1>2. course.listing \in Proposals \union {NoProposal}
  BY DEF PublishInv, TypeOK, CourseRow
<1>3. course' \in CourseRow
  BY <1>1, <1>2 DEF CourseRow
<1>4. course'.proposal = p
  BY <1>1
<1>5. Sound(course.proposal)'
  BY <1>4 DEF Sound, Reviewable
<1> QED BY <1>1, <1>3, <1>5

\* What is composed from READY lessons is a sound proposal.
LEMMA ComposedIsSound ==
  ASSUME PublishInv, LessonsReady, NEW text \in Texts, NEW terms \in Terms
  PROVE  LET p == [terms |-> terms, hash |-> SubmissionHash(text, terms)]
         IN  p \in Proposals /\ Sound(p)
<1> DEFINE hash == SubmissionHash(text, terms)
           p == [terms |-> terms, hash |-> hash]
<1>1. /\ lesson \in [Lessons -> Kinds]
      /\ content \in [Lessons -> [status : Asset!States, version : Versions]]
  BY DEF PublishInv, TypeOK
<1>2. \A l \in Lessons : FileOf(l) \in Files
  BY <1>1 DEF FileOf, Files
<1>3. /\ hash.text = text /\ hash.terms = terms
      /\ hash.lessons = [l \in Lessons |-> [kind |-> lesson[l], file |-> FileOf(l)]]
  BY DEF SubmissionHash
<1>4. hash.lessons \in HashedLessons
  BY <1>1, <1>2, <1>3 DEF HashedLessons
<1>5. hash \in Hashes
  <2>1. hash = [text |-> text, terms |-> terms, lessons |-> hash.lessons]
    BY DEF SubmissionHash
  <2> HIDE DEF hash
  <2> QED BY <1>4, <2>1 DEF Hashes
<1>6. \A l \in Lessons : hash.lessons[l].kind = lesson[l] /\ hash.lessons[l].file = FileOf(l)
  <2> SUFFICES ASSUME NEW l \in Lessons
               PROVE  hash.lessons[l].kind = lesson[l] /\ hash.lessons[l].file = FileOf(l)
    OBVIOUS
  <2>1. hash.lessons[l] = [kind |-> lesson[l], file |-> FileOf(l)]
    BY <1>3
  <2> HIDE DEF hash
  <2> QED BY <2>1
<1>7. \A l \in Lessons : lesson[l] = "required" => FileOf(l) # None
  BY <1>1 DEF LessonsReady, RequiredLessons, FileOf, Versions
<1>8. Reviewable(hash)
  <2> HIDE DEF hash
  <2> QED BY <1>6, <1>7 DEF Reviewable, LessonsReady, RequiredLessons
<1>9. p \in Proposals /\ Sound(p)
  <2> HIDE DEF hash
  <2> QED BY <1>3, <1>5, <1>8 DEF Proposals, Sound
<1> QED BY <1>9

\* Every step of a call has the effect of a call.
LEMMA CallHasEffect ==
  ASSUME PublishInv, NEW r \in Requests, RequestStep(r)
  PROVE  CallEffect
<1> DEFINE q == request[r]
<1>1. /\ TypeOK /\ CallsKnow
      /\ q \in RequestRow /\ Sound(q.proposal)
      /\ course \in CourseRow /\ lesson \in [Lessons -> Kinds] /\ packages \subseteq Proposals
      /\ content \in [Lessons -> [status : Asset!States, version : Versions]]
  BY DEF PublishInv, TypeOK, CallsKnow
<1>2. /\ q.proposal \in Proposals \union {NoProposal} /\ q.text \in Texts \union {None}
      /\ course.text \in Texts /\ course.proposal \in Proposals \union {NoProposal}
      /\ course.status \in {"DRAFT", "PENDING_REVIEW", "APPROVED", "PUBLISHED", "ARCHIVED"}
      /\ 0 \in Versions /\ Sound(NoProposal) /\ Sound(course.proposal)
  BY <1>1 DEF RequestRow, CourseRow, Versions, Sound, PublishInv
<1> HIDE DEF q
<1>3. ASSUME Ends(r) PROVE request' \in [Requests -> RequestRow] /\ CallsKnow'
  BY <1>1, <1>3, GoesHome
<1>4. CASE Drop(r)
  BY <1>3, <1>4, ReadsHasEffect DEF Drop
<1>5. CASE BeginUpdate(r)
  BY <1>1, <1>2, <1>5, GoesOn, ReadsHasEffect DEF BeginUpdate
<1>6. CASE UpdateCourse(r)
  <2>1. PICK text \in Texts : Writes(course.status, text, NoProposal)
    BY <1>6 DEF UpdateCourse
  <2>2. course' \in CourseRow /\ Sound(course.proposal)' /\ course'.listing = course.listing
        /\ course'.status = course.status
    BY <1>2, <2>1, WritesRow
  <2> QED BY <1>1, <1>3, <1>6, <2>2 DEF UpdateCourse, CallEffect, RowsTyped
<1>7. CASE AddLesson(r)
  <2>1. lesson' \in [Lessons -> Kinds]
    BY <1>1, <1>7 DEF AddLesson, Kinds
  <2> QED BY <1>1, <1>2, <1>3, <1>7, <2>1
      DEF AddLesson, CallEffect, RowsTyped, Sound, Reviewable
<1>8. CASE ChangeMedia(r)
  <2> DEFINE l == q.lesson
  <2>1. content' \in [Lessons -> [status : Asset!States, version : Versions]]
    <3>1. PICK status, version : status \in Asset!States /\ Asset!Becomes(l, status, version)
      BY <1>8 DEF ChangeMedia, q, Asset!Create, Asset!Replace, Asset!Reject, Asset!Queue,
         Asset!States
    <3>2. content' = [content EXCEPT ![l] = [status |-> status, version |-> version]]
      BY <3>1 DEF Asset!Becomes
    <3>3. \A k \in Lessons : content'[k].version \in Versions
      BY <1>8 DEF ChangeMedia, WithinVersions
    <3> HIDE DEF l
    <3>4. \A k \in Lessons : content'[k] = content[k] \/ content'[k] = [status |-> status, version |-> version]
      BY <1>1, <3>2
    <3>5. \A k \in Lessons : content'[k] \in [status : Asset!States, version : Versions]
      BY <1>1, <3>1, <3>3, <3>4
    <3> QED BY <1>1, <3>2, <3>5
  <2> QED BY <1>1, <1>2, <1>3, <1>8, <2>1
      DEF ChangeMedia, CallEffect, RowsTyped, courseRows, Sound, Reviewable
<1>9. CASE \E l \in Lessons : BeginAddLesson(r, l) \/ BeginMedia(r, l)
  <2>1. PICK l \in Lessons, step \in {"lesson", "media"}, v \in Versions :
          Goes(r, step, l, v, None, NoProposal) /\ Reads
    BY <1>1, <1>2, <1>9 DEF BeginAddLesson, BeginMedia
  <2>2. CASE step = "lesson"
    BY <1>1, <1>2, <2>1, <2>2, GoesOn, ReadsHasEffect
  <2>3. CASE step = "media"
    BY <1>1, <1>2, <2>1, <2>3, GoesOn, ReadsHasEffect
  <2> QED BY <2>2, <2>3
<1>10. CASE BeginSubmit(r)
  BY <1>1, <1>2, <1>10, GoesOn, ReadsHasEffect DEF BeginSubmit
<1>11. CASE Compose(r)
  <2>1. q.step = "compose" /\ LessonsReady /\ Reads
    BY <1>11 DEF Compose, q
  <2>2. q.text \in Texts
    BY <1>1, <2>1 DEF CallsKnow, q
  <2>3. PICK terms \in Terms :
          Goes(r, "submit", None, 0, None,
               [terms |-> terms, hash |-> SubmissionHash(q.text, terms)])
    BY <1>11 DEF Compose, q
  <2>4. LET p == [terms |-> terms, hash |-> SubmissionHash(q.text, terms)]
        IN  p \in Proposals /\ Sound(p)
    BY <2>1, <2>2, ComposedIsSound
  <2> QED BY <1>1, <1>2, <2>1, <2>3, <2>4, GoesOn, ReadsHasEffect
<1>12. CASE SubmitCourse(r)
  <2>1. Writes("PENDING_REVIEW", course.text, q.proposal) /\ course.status = "DRAFT"
    BY <1>12 DEF SubmitCourse, InState, q
  <2>2. course' \in CourseRow /\ Sound(course.proposal)' /\ course'.listing = course.listing
        /\ course'.status = "PENDING_REVIEW"
    BY <1>1, <1>2, <2>1, WritesRow
  <2> QED BY <1>1, <1>3, <1>12, <2>1, <2>2 DEF SubmitCourse, CallEffect, RowsTyped
<1>13. CASE BeginReview(r)
  <2>1. PICK step \in {"inspect", "reject"}, p \in {course.proposal, NoProposal} :
          Goes(r, step, None, 0, None, p) /\ Reads
    BY <1>13 DEF BeginReview
  <2>2. Sound(p) /\ p \in Proposals \union {NoProposal}
    BY <1>2
  <2>3. CASE step = "inspect"
    BY <1>1, <1>2, <2>1, <2>2, <2>3, GoesOn, ReadsHasEffect
  <2>4. CASE step = "reject"
    BY <1>1, <1>2, <2>1, <2>2, <2>4, GoesOn, ReadsHasEffect
  <2> QED BY <2>3, <2>4
<1>14. CASE Inspect(r)
  <2>1. q.proposal \in Proposals /\ Goes(r, "approve", None, 0, None, q.proposal) /\ Reads
    BY <1>2, <1>14 DEF Inspect, q
  <2> QED BY <1>1, <1>2, <2>1, GoesOn, ReadsHasEffect
<1>15. CASE ApproveCourse(r)
  <2>1. /\ Writes("APPROVED", course.text, course.proposal) /\ course.status = "PENDING_REVIEW"
        /\ q.step = "approve" /\ packages' = packages \union {q.proposal}
    BY <1>15 DEF ApproveCourse, InState, q
  <2>2. packages' \subseteq Proposals
    BY <1>1, <2>1 DEF CallsKnow, q
  <2>3. course' \in CourseRow /\ Sound(course.proposal)' /\ course'.listing = course.listing
        /\ course'.status = "APPROVED"
    BY <1>2, <2>1, WritesRow
  <2> QED BY <1>1, <1>3, <1>15, <2>1, <2>2, <2>3 DEF ApproveCourse, CallEffect, RowsTyped
<1>16. CASE RejectCourse(r)
  <2>1. Writes("DRAFT", course.text, course.proposal) /\ course.status = "PENDING_REVIEW"
    BY <1>16 DEF RejectCourse, InState
  <2>2. course' \in CourseRow /\ Sound(course.proposal)' /\ course'.listing = course.listing
        /\ course'.status = "DRAFT"
    BY <1>2, <2>1, WritesRow
  <2> QED BY <1>1, <1>3, <1>16, <2>1, <2>2 DEF RejectCourse, CallEffect, RowsTyped
<1> QED
  BY <1>4, <1>5, <1>6, <1>7, <1>8, <1>9, <1>10, <1>11, <1>12, <1>13, <1>14, <1>15, <1>16
  DEF RequestStep

\* So has the recovery of a package.
LEMMA RecoveryHasEffect ==
  ASSUME PublishInv, RecoverPackage
  PROVE  CallEffect
<1>1. course.proposal \in Proposals
  BY DEF PublishInv, TypeOK, CourseRow, RecoverPackage
<1>2. RowsTyped'
  BY <1>1 DEF PublishInv, TypeOK, RowsTyped, RecoverPackage, courseRows
<1>3. CallsKnow' /\ Sound(course.proposal)'
  BY DEF PublishInv, CallsKnow, Sound, Reviewable, RecoverPackage, courseRows
<1> QED BY <1>2, <1>3 DEF CallEffect, RecoverPackage, courseRows

\* And the end of the processing of an asset, which only changes its status.
LEMMA ProcessingHasEffect ==
  ASSUME PublishInv, NEW l \in Lessons, ProcessMedia(l)
  PROVE  CallEffect
<1>1. content \in [Lessons -> [status : Asset!States, version : Versions]]
  BY DEF PublishInv, TypeOK
<1>2. PICK status \in {"READY", "FAILED"} :
        content' = [content EXCEPT ![l] = [status |-> status, version |-> content[l].version]]
  BY DEF ProcessMedia, Asset!Finish, Asset!Becomes
<1>3. content' \in [Lessons -> [status : Asset!States, version : Versions]]
  BY <1>1, <1>2 DEF Asset!States
<1>4. RowsTyped'
  BY <1>3 DEF PublishInv, TypeOK, RowsTyped, ProcessMedia, courseRows
<1>5. CallsKnow' /\ Sound(course.proposal)'
  BY DEF PublishInv, CallsKnow, Sound, Reviewable, ProcessMedia, courseRows
<1> QED BY <1>4, <1>5 DEF CallEffect, ProcessMedia, courseRows

-----------------------------------------------------------------------------
(* The chain.                                                              *)

\* A new event keeps the blocks there are.
LEMMA EmitGrows ==
  ASSUME TypeOK, NEW event \in Chain!Event, Chain!Emit(event)
  PROVE  /\ Chain!ChainTypeOK' /\ confirmed' = confirmed
         /\ \A n \in 1..confirmed : logs'[n] = logs[n]
<1>1. logs \in Seq(Chain!Event) /\ Len(logs) <= MaxLogs /\ confirmed \in 0..Len(logs)
  BY DEF TypeOK, Chain!ChainTypeOK
<1>2. logs' = Append(logs, event) /\ confirmed' = confirmed /\ Len(logs) < MaxLogs
  BY DEF Chain!Emit
<1>3. /\ logs' \in Seq(Chain!Event) /\ Len(logs') = Len(logs) + 1
      /\ \A n \in 1..Len(logs) : logs'[n] = logs[n]
  BY <1>1, <1>2
<1>4. Len(logs) \in Nat
  BY <1>1
<1> QED BY <1>1, <1>2, <1>3, <1>4 DEF Chain!ChainTypeOK

LEMMA ChainHasEffect ==
  ASSUME PublishInv, Configure \/ SetStatus \/ ConfirmBlock \/ LoseBlock
  PROVE  ChainEffect
<1>1. TypeOK /\ packages \subseteq Proposals
  BY DEF PublishInv, TypeOK
<1>2. logs \in Seq(Chain!Event) /\ Len(logs) <= MaxLogs /\ confirmed \in 0..Len(logs)
      /\ Len(logs) \in Nat
  BY <1>1 DEF TypeOK, Chain!ChainTypeOK
<1>3. ASSUME NEW event \in Chain!Event, Chain!Emit(event), ChainStep PROVE ChainEffect
  BY <1>1, <1>2, <1>3, EmitGrows DEF ChainEffect
<1>4. CASE Configure
  <2>1. PICK p \in packages : \E id \in {"own", Foreign}, terms \in {p.terms, Altered} :
          Chain!ConfigureCourse(id, terms, p.hash)
    BY <1>4 DEF Configure
  <2>2. p.terms \in Terms /\ p.hash \in Hashes
    BY <1>1 DEF Proposals
  <2>3. \A id \in {"own", Foreign}, terms \in {p.terms, Altered} :
          [kind |-> "configured", id |-> id, terms |-> terms, hash |-> p.hash] \in Chain!Event
    BY <2>2 DEF Chain!Event
  <2> QED BY <1>3, <1>4, <2>1, <2>3 DEF Configure, Chain!ConfigureCourse
<1>5. CASE SetStatus
  <2>1. PICK id \in {"own", Foreign}, status \in {"published", "delisted"} :
          Chain!SetCourseStatus(id, status)
    BY <1>5 DEF SetStatus
  <2>2. [kind |-> status, id |-> id, terms |-> None, hash |-> None] \in Chain!Event
    BY DEF Chain!Event
  <2> QED BY <1>3, <1>5, <2>1, <2>2 DEF SetStatus, Chain!SetCourseStatus
<1>6. CASE ConfirmBlock
  BY <1>2, <1>6 DEF ConfirmBlock, Chain!Confirm, Chain!ChainTypeOK, ChainEffect
<1>7. CASE LoseBlock
  <2>1. confirmed < Len(logs) /\ logs' = SubSeq(logs, 1, Len(logs) - 1) /\ confirmed' = confirmed
    BY <1>7 DEF LoseBlock, Chain!Reorganise
  <2>2. /\ logs' \in Seq(Chain!Event) /\ Len(logs') = Len(logs) - 1
        /\ \A n \in 1..(Len(logs) - 1) : logs'[n] = logs[n]
    <3> DEFINE last == Len(logs) - 1
    <3>1. last \in Int /\ last >= 0 /\ \A k \in 1..last : logs[k] \in Chain!Event
      BY <1>2, <2>1
    <3>2. /\ SubSeq(logs, 1, last) \in Seq(Chain!Event)
          /\ Len(SubSeq(logs, 1, last)) = IF 1 <= last THEN last - 1 + 1 ELSE 0
          /\ \A k \in 1..(last - 1 + 1) : SubSeq(logs, 1, last)[k] = logs[1 + k - 1]
      <4> HIDE DEF last
      <4> QED BY <3>1, SubSeqProperties
    <3>3. logs' = SubSeq(logs, 1, last) /\ last = Len(logs) - 1
      BY <2>1
    <3> HIDE DEF last
    <3>4. last - 1 + 1 = last /\ \A k \in 1..last : 1 + k - 1 = k
      BY <3>1
    <3>5. Len(logs') = last
      BY <3>1, <3>2, <3>3
    <3>6. ASSUME NEW k \in 1..last PROVE logs'[k] = logs[k]
      BY <3>2, <3>3, <3>4, <3>6
    <3> QED BY <3>2, <3>3, <3>5, <3>6
  <2> QED BY <1>2, <1>7, <2>1, <2>2 DEF LoseBlock, Chain!ChainTypeOK, ChainEffect
<1> QED BY <1>4, <1>5, <1>6, <1>7

-----------------------------------------------------------------------------
(* Indexers.                                                               *)

\* The row of a sync that goes on.
LEMMA SyncGoesOn ==
  ASSUME PublishInv, NEW i \in Indexers, NEW row \in SyncRow,
         sync' = [sync EXCEPT ![i] = row], UNCHANGED confirmed,
         row.step # "idle" => row.safe \in 1..confirmed,
         row.step = "apply" => row.next >= 1
  PROVE  sync' \in [Indexers -> SyncRow] /\ SyncsKnow'
<1>1. sync \in [Indexers -> SyncRow]
  BY DEF PublishInv, TypeOK
<1>2. sync'[i] = row /\ \A j \in Indexers \ {i} : sync'[j] = sync[j]
  BY <1>1
<1> QED BY <1>1, <1>2 DEF PublishInv, SyncsKnow

LEMMA IndexerHasEffect ==
  ASSUME PublishInv, NEW i \in Indexers, SyncStep(i) \/ FailSync(i)
  PROVE  IndexerEffect
<1>1. /\ sync[i] \in SyncRow /\ checkpoint \in Blocks /\ faults \in 0..MaxFaults
      /\ confirmed \in Nat /\ confirmed <= MaxLogs
  BY DEF PublishInv, TypeOK, Chain!ChainTypeOK
<1>2. /\ sync[i].step # "idle" => sync[i].safe \in 1..confirmed
      /\ sync[i].step = "apply" => sync[i].next >= 1
  BY DEF PublishInv, SyncsKnow
<1>3. /\ sync[i].step \in {"idle", "load", "apply"}
      /\ sync[i].safe \in 0..(MaxLogs + 1) /\ sync[i].next \in 0..(MaxLogs + 1)
  BY <1>1 DEF SyncRow, Blocks
<1>4. NoSync \in SyncRow /\ NoSync.step = "idle"
  BY DEF NoSync, SyncRow, Blocks
<1>5. ASSUME Faulty PROVE faults' \in 0..MaxFaults
  BY <1>1, <1>5 DEF Faulty
<1>6. SyncUnchanged
  BY DEF SyncStep, ReadHead, LoadCheckpoint, ApplyEvent, SaveCheckpoint, FailSync
<1>7. UNCHANGED confirmed
  BY <1>6 DEF SyncUnchanged, chainRows
<1>8. CASE ReadHead(i)
  <2>1. PICK safe \in 1..confirmed :
          /\ Syncs(i, "load", safe, 0)
          /\ UNCHANGED faults \/ Faulty
    BY <1>8 DEF ReadHead
  <2>2. [step |-> "load", safe |-> safe, next |-> 0] \in SyncRow
    BY <1>1 DEF SyncRow, Blocks
  <2>3. sync' \in [Indexers -> SyncRow] /\ SyncsKnow'
    BY <1>7, <2>1, <2>2, SyncGoesOn DEF Syncs
  <2> QED BY <1>1, <1>5, <1>6, <1>8, <2>1, <2>3 DEF ReadHead, IndexerEffect
<1>9. CASE LoadCheckpoint(i)
  <2> DEFINE first == FirstBlock(sync[i].safe)
  <2>1. sync[i].step = "load" /\ Syncs(i, "apply", sync[i].safe, first)
    BY <1>9 DEF LoadCheckpoint
  <2>2. first \in 1..(MaxLogs + 1)
    BY <1>1, <1>2, <2>1 DEF FirstBlock, Blocks
  <2> HIDE DEF first
  <2>3. [step |-> "apply", safe |-> sync[i].safe, next |-> first] \in SyncRow
    BY <1>3, <2>2 DEF SyncRow, Blocks
  <2>4. sync[i].safe \in 1..confirmed /\ first >= 1
    BY <1>2, <2>1, <2>2
  <2>5. sync' \in [Indexers -> SyncRow] /\ SyncsKnow'
    <3> DEFINE row == [step |-> "apply", safe |-> sync[i].safe, next |-> first]
    <3>1. row \in SyncRow /\ row.safe \in 1..confirmed /\ row.next >= 1
          /\ sync' = [sync EXCEPT ![i] = row]
      BY <2>1, <2>3, <2>4 DEF Syncs
    <3> HIDE DEF row
    <3> QED BY <1>7, <3>1, SyncGoesOn
  <2> QED BY <1>1, <1>6, <1>9, <2>5 DEF LoadCheckpoint, IndexerEffect
<1>10. CASE ApplyEvent(i)
  <2> DEFINE n == sync[i].next
  <2>1. sync[i].step = "apply" /\ n <= sync[i].safe /\ Syncs(i, "apply", sync[i].safe, n + 1)
    BY <1>10 DEF ApplyEvent
  <2>2. n \in 1..confirmed
    BY <1>1, <1>2, <1>3, <2>1
  <2>3. [step |-> "apply", safe |-> sync[i].safe, next |-> n + 1] \in SyncRow
    BY <1>1, <1>2, <1>3, <2>1, <2>2 DEF SyncRow, Blocks
  <2>4. sync' \in [Indexers -> SyncRow] /\ SyncsKnow'
    <3> DEFINE row == [step |-> "apply", safe |-> sync[i].safe, next |-> n + 1]
    <3>1. row \in SyncRow /\ row.safe \in 1..confirmed /\ row.next >= 1
          /\ sync' = [sync EXCEPT ![i] = row]
      BY <1>2, <2>1, <2>2, <2>3 DEF Syncs
    <3> HIDE DEF row
    <3> QED BY <1>7, <3>1, SyncGoesOn
  <2>5. \/ UNCHANGED course
        \/ Publishable(logs[n]) /\ Publish(logs[n])
        \/ /\ course.status \in Public
           /\ \E status \in Public : Writes(status, course.text, course.proposal)
    BY <1>10 DEF ApplyEvent, Projectable, ProjectedStatus, Public
  <2> QED BY <1>1, <1>6, <1>10, <2>2, <2>4, <2>5 DEF ApplyEvent, IndexerEffect
<1>11. CASE SaveCheckpoint(i)
  <2>1. checkpoint' = sync[i].safe + 1 /\ sync[i].step = "apply"
    BY <1>11 DEF SaveCheckpoint, Synced
  <2>2. checkpoint' \in Blocks
    BY <1>1, <1>2, <2>1 DEF Blocks
  <2>3. sync' \in [Indexers -> SyncRow] /\ SyncsKnow'
    BY <1>4, <1>7, <1>11, SyncGoesOn DEF SaveCheckpoint
  <2> QED BY <1>1, <1>6, <1>11, <2>2, <2>3 DEF SaveCheckpoint, IndexerEffect
<1>12. CASE FailSync(i)
  <2>1. sync' \in [Indexers -> SyncRow] /\ SyncsKnow'
    BY <1>4, <1>7, <1>12, SyncGoesOn DEF FailSync
  <2> QED BY <1>1, <1>5, <1>6, <1>12, <2>1 DEF FailSync, IndexerEffect
<1> QED BY <1>8, <1>9, <1>10, <1>11, <1>12 DEF SyncStep

-----------------------------------------------------------------------------
(* The invariant.                                                          *)

LEMMA EveryStepHasEffect ==
  PublishInv /\ Next => CallEffect \/ ChainEffect \/ IndexerEffect
BY CallHasEffect, RecoveryHasEffect, ProcessingHasEffect, ChainHasEffect, IndexerHasEffect
DEF Next

LEMMA InitialInv == Init => PublishInv
<1> SUFFICES ASSUME Init PROVE PublishInv
  OBVIOUS
<1>1. course \in CourseRow /\ course.status = "DRAFT" /\ course.proposal = NoProposal
  BY DEF Init, CourseRow
<1>2. NoRequest \in RequestRow /\ NoSync \in SyncRow
  BY DEF NoRequest, RequestRow, Versions, NoSync, SyncRow, Blocks
<1>3. /\ request \in [Requests -> RequestRow] /\ sync \in [Indexers -> SyncRow]
      /\ \A r \in Requests : request[r] = NoRequest
      /\ \A i \in Indexers : sync[i] = NoSync
  BY <1>2 DEF Init
<1>4. lesson \in [Lessons -> Kinds]
  BY DEF Init, Kinds
<1>5. content \in [Lessons -> [status : Asset!States, version : Versions]]
  BY DEF Init, Asset!Init, Asset!States, Versions
<1>6. Chain!ChainTypeOK /\ packages \subseteq Proposals /\ checkpoint \in Blocks
      /\ faults \in 0..MaxFaults
  BY DEF Init, Chain!ChainInit, Chain!ChainTypeOK, Blocks
<1>7. CallsKnow /\ SyncsKnow
  BY <1>3 DEF CallsKnow, SyncsKnow, NoRequest, NoSync, Sound
<1> QED BY <1>1, <1>3, <1>4, <1>5, <1>6, <1>7
    DEF PublishInv, TypeOK, Sound, ListingIsConfirmed

\* An event that publishes is the proposal.
LEMMA PublishesProposal ==
  ASSUME PublishInv, NEW n \in 1..confirmed, Publishable(logs[n])
  PROVE  /\ course.proposal \in Proposals
         /\ logs[n] = [kind |-> "configured", id |-> "own", terms |-> course.proposal.terms,
                       hash |-> course.proposal.hash]
         /\ course.proposal = [terms |-> logs[n].terms, hash |-> logs[n].hash]
<1>1. logs[n] \in Chain!Event
  BY DEF PublishInv, TypeOK, Chain!ChainTypeOK
<1>2. /\ logs[n].kind = "configured" /\ logs[n].id = "own"
      /\ logs[n].hash = course.proposal.hash /\ logs[n].terms = course.proposal.terms
  BY DEF Publishable, Matches
<1>3. logs[n] \in [kind : {"configured"}, id : {"own", Foreign},
                   terms : Terms \union {Altered}, hash : Hashes]
  BY <1>1, <1>2 DEF Chain!Event
<1>4. course.proposal \in Proposals \union {NoProposal}
  BY DEF PublishInv, TypeOK, CourseRow
<1>5. course.proposal \in Proposals
  BY <1>2, <1>3, <1>4 DEF NoProposal
<1> QED BY <1>2, <1>3, <1>5 DEF Proposals

LEMMA CallKeeps == ASSUME PublishInv, CallEffect PROVE PublishInv'
<1>1. UNCHANGED <<logs, confirmed, sync, checkpoint, faults>>
  BY DEF CallEffect, CallUnchanged, chainRows
<1>2. TypeOK'
  BY <1>1 DEF PublishInv, TypeOK, CallEffect, RowsTyped, Chain!ChainTypeOK
<1>3. SyncsKnow'
  BY <1>1 DEF PublishInv, SyncsKnow
<1>4. course'.status \in {"PUBLISHED", "ARCHIVED"} => course'.status = course.status
  BY DEF CallEffect
<1>5. ListingIsConfirmed'
  BY <1>1, <1>4 DEF PublishInv, ListingIsConfirmed, CallEffect, Reviewable
<1> QED BY <1>2, <1>3, <1>5 DEF PublishInv, CallEffect

LEMMA ChainKeeps == ASSUME PublishInv, ChainEffect PROVE PublishInv'
<1>1. UNCHANGED <<course, lesson, content, request, packages, sync, checkpoint, faults>>
  BY DEF ChainEffect, ChainStep, courseRows
<1>2. confirmed \in Nat /\ confirmed' \in Nat /\ confirmed <= confirmed'
  BY DEF ChainEffect, PublishInv, TypeOK, Chain!ChainTypeOK
<1>3. TypeOK'
  BY <1>1 DEF PublishInv, TypeOK, ChainEffect
<1>4. CallsKnow' /\ Sound(course.proposal)'
  BY <1>1 DEF PublishInv, CallsKnow, Sound, Reviewable
<1>5. SyncsKnow'
  <2> SUFFICES ASSUME NEW i \in Indexers
               PROVE  /\ sync[i].step # "idle" => sync[i].safe \in 1..confirmed'
                      /\ sync[i].step = "apply" => sync[i].next >= 1
    BY <1>1 DEF SyncsKnow
  <2>1. 1..confirmed \subseteq 1..confirmed'
    BY <1>2
  <2> QED BY <2>1 DEF PublishInv, SyncsKnow
<1>6. ListingIsConfirmed'
  <2> SUFFICES ASSUME course.status \in {"PUBLISHED", "ARCHIVED"}
               PROVE  /\ \E n \in 1..confirmed' :
                           logs'[n] = [kind |-> "configured", id |-> "own",
                                       terms |-> course.listing.terms,
                                       hash |-> course.listing.hash]
                      /\ course.listing.hash.terms = course.listing.terms
                      /\ Reviewable(course.listing.hash)
    BY <1>1 DEF ListingIsConfirmed, Reviewable
  <2>1. PICK n \in 1..confirmed :
          logs[n] = [kind |-> "configured", id |-> "own", terms |-> course.listing.terms,
                     hash |-> course.listing.hash]
    BY DEF PublishInv, ListingIsConfirmed
  <2>2. n \in 1..confirmed' /\ logs'[n] = logs[n]
    BY <1>2 DEF ChainEffect
  <2> QED BY <2>1, <2>2 DEF PublishInv, ListingIsConfirmed
<1> QED BY <1>3, <1>4, <1>5, <1>6 DEF PublishInv

LEMMA IndexerKeeps == ASSUME PublishInv, IndexerEffect PROVE PublishInv'
<1>1. UNCHANGED <<lesson, content, request, packages, logs, confirmed>>
  BY DEF IndexerEffect, SyncUnchanged, chainRows
<1>2. /\ course \in CourseRow /\ Sound(course.proposal) /\ ListingIsConfirmed
      /\ course.text \in Texts
      /\ course.proposal \in Proposals \union {NoProposal}
      /\ course.listing \in Proposals \union {NoProposal}
  BY DEF PublishInv, TypeOK, CourseRow
<1>3. CallsKnow'
  BY <1>1 DEF PublishInv, CallsKnow, Sound, Reviewable
<1>4. course' \in CourseRow /\ Sound(course.proposal)' /\ ListingIsConfirmed'
  <2>1. CASE UNCHANGED course
    BY <1>1, <1>2, <2>1 DEF Sound, ListingIsConfirmed, Reviewable
  <2>2. CASE \E n \in 1..confirmed : Publishable(logs[n]) /\ Publish(logs[n])
    <3>1. PICK n \in 1..confirmed : Publishable(logs[n]) /\ Publish(logs[n])
      BY <2>2
    <3>2. /\ course.proposal \in Proposals
          /\ logs[n] = [kind |-> "configured", id |-> "own", terms |-> course.proposal.terms,
                        hash |-> course.proposal.hash]
          /\ course.proposal = [terms |-> logs[n].terms, hash |-> logs[n].hash]
      BY <3>1, PublishesProposal
    <3>3. course' = [status |-> "PUBLISHED", text |-> course.text,
                     proposal |-> course.proposal, listing |-> course.proposal]
      BY <3>1, <3>2 DEF Publish
    <3>4. course' \in CourseRow
      BY <1>2, <3>2, <3>3 DEF CourseRow
    <3>5. course'.proposal = course.proposal /\ course'.listing = course.proposal
      BY <3>3
    <3>6. course.proposal # NoProposal
      BY <3>2 DEF Proposals, NoProposal
    <3>7. Sound(course.proposal)' /\ ListingIsConfirmed'
      BY <1>1, <1>2, <3>2, <3>5, <3>6 DEF Sound, ListingIsConfirmed, Reviewable
    <3> QED BY <3>4, <3>7
  <2>3. CASE /\ course.status \in Public
             /\ \E status \in Public : Writes(status, course.text, course.proposal)
    <3>1. PICK status \in Public :
            course' = [status |-> status, text |-> course.text,
                       proposal |-> course.proposal, listing |-> course.listing]
      BY <2>3 DEF Writes
    <3>2. course' \in CourseRow
      BY <1>2, <3>1 DEF CourseRow, Public
    <3>3. course'.proposal = course.proposal /\ course'.listing = course.listing
      BY <3>1
    <3>4. Sound(course.proposal)' /\ ListingIsConfirmed'
      BY <1>1, <1>2, <2>3, <3>3 DEF Sound, ListingIsConfirmed, Reviewable, Public
    <3> QED BY <3>2, <3>4
  <2> QED BY <2>1, <2>2, <2>3 DEF IndexerEffect
<1>5. TypeOK'
  BY <1>1, <1>4 DEF PublishInv, TypeOK, IndexerEffect, Chain!ChainTypeOK
<1> QED BY <1>3, <1>4, <1>5 DEF PublishInv, IndexerEffect

LEMMA InvariantStep == PublishInv /\ [Next]_vars => PublishInv'
<1> SUFFICES ASSUME PublishInv, [Next]_vars PROVE PublishInv'
  OBVIOUS
<1>1. CASE Next
  BY <1>1, EveryStepHasEffect, CallKeeps, ChainKeeps, IndexerKeeps
<1>2. CASE UNCHANGED vars
  <2>1. UNCHANGED <<course, lesson, content, request, packages, logs, confirmed, sync,
                    checkpoint, faults>>
    BY <1>2 DEF vars, courseRows, chainRows
  <2> QED BY <2>1 DEF PublishInv, TypeOK, CallsKnow, SyncsKnow, Sound, ListingIsConfirmed,
      Reviewable, Chain!ChainTypeOK
<1> QED BY <1>1, <1>2

-----------------------------------------------------------------------------
(* What a sync leaves behind.                                              *)

IsOwn(n) == logs[n].id = "own"
IsConfigured(n) == IsOwn(n) /\ logs[n].kind = "configured"

\* Only a configured course has a status on the chain.
StatusIsOfConfigured ==
  \A n \in 1..Len(logs) : IsOwn(n) => \E k \in 1..n : IsConfigured(k)

\* The first block that a sync applies when it reads the checkpoint as it is and
\* a node that is not behind.
Overlap ==
  IF checkpoint > Depth /\ checkpoint - Depth > 1 THEN checkpoint - Depth ELSE 1

\* A node that is one block behind makes a sync begin one block lower.
SyncsBeginLow ==
  /\ checkpoint <= confirmed + 1
  /\ \A i \in Indexers :
       /\ sync[i].step # "idle" => sync[i].safe + 2 >= checkpoint
       /\ sync[i].step = "apply" => sync[i].next + 1 >= Overlap /\ sync[i].next <= sync[i].safe + 1

\* The course has the status that the last event up to block m gives it.
AgreesAt(m) ==
  \E k \in 1..m :
    /\ IsOwn(k) /\ \A j \in 1..m : IsOwn(j) => j <= k
    /\ course.status = IF logs[k].kind = "delisted" THEN "ARCHIVED" ELSE "PUBLISHED"

\* Nothing that follows block m is skipped by this sync or the next one.
NothingSkipped(m) ==
  /\ m + 1 >= Overlap
  /\ \A i \in Indexers : sync[i].step = "apply" => m + 1 >= sync[i].next

ConfirmedOnce == \A m, n \in 1..confirmed : IsConfigured(m) /\ IsConfigured(n) => m = n

StatusIsOfBlock ==
  ConfirmedOnce /\ course.status \in Public =>
    \E m \in 1..confirmed : AgreesAt(m) /\ NothingSkipped(m)

SyncInv == StatusIsOfConfigured /\ SyncsBeginLow /\ StatusIsOfBlock

LEMMA SyncTypes ==
  ASSUME PublishInv
  PROVE  /\ Len(logs) \in Nat /\ confirmed \in 0..Len(logs) /\ checkpoint \in Nat
         /\ Depth \in Nat \ {0}
         /\ \A n \in 1..Len(logs) : logs[n] \in Chain!Event
         /\ \A i \in Indexers : /\ sync[i].safe \in Nat /\ sync[i].next \in Nat
                                /\ sync[i].step \in {"idle", "load", "apply"}
                                /\ sync[i].step # "idle" => sync[i].safe \in 1..confirmed
                                /\ sync[i].step = "apply" => sync[i].next >= 1
<1>1. /\ logs \in Seq(Chain!Event) /\ confirmed \in 0..Len(logs)
      /\ checkpoint \in Blocks /\ sync \in [Indexers -> SyncRow] /\ SyncsKnow
  BY DEF PublishInv, TypeOK, Chain!ChainTypeOK
<1>2. Len(logs) \in Nat /\ \A n \in 1..Len(logs) : logs[n] \in Chain!Event
  BY <1>1
<1>3. \A i \in Indexers : /\ sync[i].safe \in Nat /\ sync[i].next \in Nat
                          /\ sync[i].step \in {"idle", "load", "apply"}
  BY <1>1 DEF SyncRow, Blocks
<1> QED BY <1>1, <1>2, <1>3 DEF SyncsKnow, Blocks

LEMMA OverlapType ==
  ASSUME PublishInv PROVE Overlap \in Nat \ {0} /\ (Overlap = 1 \/ Overlap + Depth = checkpoint)
BY SyncTypes DEF Overlap

\* What is said of a block reads the log up to it and the status.
LEMMA AgreementStays ==
  ASSUME NEW m \in Nat, AgreesAt(m), course'.status = course.status,
         \A n \in 1..m : logs'[n] = logs[n]
  PROVE  AgreesAt(m)'
BY DEF AgreesAt, IsOwn

\* Steps of calls and of the chain keep the confirmed blocks, the status of a
\* public course and the syncs.
LEMMA OthersKeepSync ==
  ASSUME PublishInv, SyncInv, StatusIsOfConfigured', confirmed' \in Nat,
         confirmed' >= confirmed, \A n \in 1..confirmed : logs'[n] = logs[n],
         course'.status \in Public => course'.status = course.status,
         UNCHANGED <<sync, checkpoint>>
  PROVE  SyncInv'
<1>1. confirmed \in Nat /\ \A n \in 1..confirmed : n \in 1..confirmed'
  BY SyncTypes
<1>2. Overlap' = Overlap
  BY DEF Overlap
<1>3. SyncsBeginLow'
  BY <1>1, <1>2, SyncTypes DEF SyncInv, SyncsBeginLow
<1>4. StatusIsOfBlock'
  <2> SUFFICES ASSUME ConfirmedOnce', course'.status \in Public
               PROVE  \E m \in 1..confirmed' : AgreesAt(m)' /\ NothingSkipped(m)'
    BY DEF StatusIsOfBlock
  <2>1. ConfirmedOnce
    BY <1>1 DEF ConfirmedOnce, IsConfigured, IsOwn
  <2>2. PICK m \in 1..confirmed : AgreesAt(m) /\ NothingSkipped(m)
    BY <2>1 DEF SyncInv, StatusIsOfBlock
  <2>3. m \in Nat /\ \A n \in 1..m : logs'[n] = logs[n]
    BY <1>1
  <2>4. AgreesAt(m)'
    BY <2>2, <2>3, AgreementStays
  <2>5. NothingSkipped(m)'
    BY <1>2, <2>2 DEF NothingSkipped
  <2> QED BY <1>1, <2>4, <2>5
<1> QED BY <1>3, <1>4 DEF SyncInv

LEMMA CallKeepsSync ==
  ASSUME PublishInv, SyncInv, CallEffect
  PROVE  SyncInv'
<1>1. UNCHANGED <<logs, confirmed, sync, checkpoint>>
  BY DEF CallEffect, CallUnchanged, chainRows
<1>2. StatusIsOfConfigured'
  BY <1>1 DEF SyncInv, StatusIsOfConfigured, IsConfigured, IsOwn
<1>3. course'.status \in Public => course'.status = course.status
  BY DEF CallEffect, Public
<1> QED BY <1>1, <1>2, <1>3, SyncTypes, OthersKeepSync

\* The contract gives no status to a course that is not configured.
LEMMA EmitKeepsConfigured ==
  ASSUME PublishInv, SyncInv, NEW event \in Chain!Event, Chain!Emit(event),
         event.id = "own" => event.kind = "configured" \/ Chain!StatusAt("own", Len(logs)) # "unknown"
  PROVE  StatusIsOfConfigured'
<1>1. /\ logs \in Seq(Chain!Event) /\ Len(logs) \in Nat /\ logs' = Append(logs, event)
  BY DEF PublishInv, TypeOK, Chain!ChainTypeOK, Chain!Emit
<1>2. /\ Len(logs') = Len(logs) + 1 /\ logs'[Len(logs) + 1] = event
      /\ \A n \in 1..Len(logs) : logs'[n] = logs[n]
  BY <1>1
<1> SUFFICES ASSUME NEW n \in 1..(Len(logs) + 1), logs'[n].id = "own"
             PROVE  \E k \in 1..n : logs'[k].id = "own" /\ logs'[k].kind = "configured"
  BY <1>2 DEF StatusIsOfConfigured, IsConfigured, IsOwn
<1>3. ASSUME NEW q \in 1..Len(logs), q <= n, IsOwn(q)
      PROVE  \E k \in 1..n : logs'[k].id = "own" /\ logs'[k].kind = "configured"
  <2>1. PICK k \in 1..q : IsConfigured(k)
    BY <1>3 DEF SyncInv, StatusIsOfConfigured
  <2>2. k \in 1..n /\ k \in 1..Len(logs)
    BY <1>1, <1>3
  <2> QED BY <1>2, <2>1, <2>2 DEF IsConfigured, IsOwn
<1>4. CASE n \in 1..Len(logs)
  BY <1>1, <1>2, <1>3, <1>4 DEF IsOwn
<1>5. CASE n = Len(logs) + 1 /\ event.kind = "configured"
  BY <1>1, <1>2, <1>5
<1>6. CASE n = Len(logs) + 1 /\ Chain!StatusAt("own", Len(logs)) # "unknown"
  <2>1. Chain!LastOf("own", Len(logs)) # 0
    BY <1>6 DEF Chain!StatusAt
  <2>2. {k \in 1..Len(logs) : logs[k].id = "own"} # {}
    BY <2>1 DEF Chain!LastOf
  <2>3. PICK q \in 1..Len(logs) : IsOwn(q)
    BY <2>2 DEF IsOwn
  <2>4. q <= n
    BY <1>1, <1>6
  <2> QED BY <1>3, <2>3, <2>4
<1> QED BY <1>1, <1>2, <1>4, <1>5, <1>6

LEMMA ChainKeepsSync ==
  ASSUME PublishInv, SyncInv, Configure \/ SetStatus \/ ConfirmBlock \/ LoseBlock
  PROVE  SyncInv'
<1>1. ChainEffect
  BY ChainHasEffect
<1>2. /\ UNCHANGED <<course, sync, checkpoint>> /\ confirmed' \in Nat /\ confirmed' >= confirmed
      /\ \A n \in 1..confirmed : logs'[n] = logs[n]
  BY <1>1 DEF ChainEffect, ChainStep, courseRows, Chain!ChainTypeOK
<1>3. CASE Configure
  <2>1. PICK p \in packages : \E id \in {"own", Foreign}, terms \in {p.terms, Altered} :
          Chain!ConfigureCourse(id, terms, p.hash)
    BY <1>3 DEF Configure
  <2>2. p.terms \in Terms /\ p.hash \in Hashes
    BY DEF PublishInv, TypeOK, Proposals
  <2>3. PICK id \in {"own", Foreign}, terms \in {p.terms, Altered} :
          Chain!Emit([kind |-> "configured", id |-> id, terms |-> terms, hash |-> p.hash])
    BY <2>1 DEF Chain!ConfigureCourse
  <2>4. [kind |-> "configured", id |-> id, terms |-> terms, hash |-> p.hash] \in Chain!Event
    BY <2>2 DEF Chain!Event
  <2>5. StatusIsOfConfigured'
    BY <2>3, <2>4, EmitKeepsConfigured
  <2> QED BY <1>2, <2>5, OthersKeepSync
<1>4. CASE SetStatus
  <2>1. PICK id \in {"own", Foreign}, status \in {"published", "delisted"} :
          Chain!SetCourseStatus(id, status)
    BY <1>4 DEF SetStatus
  <2>2. [kind |-> status, id |-> id, terms |-> None, hash |-> None] \in Chain!Event
    BY DEF Chain!Event
  <2>3. StatusIsOfConfigured'
    BY <2>1, <2>2, EmitKeepsConfigured DEF Chain!SetCourseStatus
  <2> QED BY <1>2, <2>3, OthersKeepSync
<1>5. CASE ConfirmBlock
  <2>1. UNCHANGED logs
    BY <1>5 DEF ConfirmBlock, Chain!Confirm
  <2>2. StatusIsOfConfigured'
    BY <2>1 DEF SyncInv, StatusIsOfConfigured, IsConfigured, IsOwn
  <2> QED BY <1>2, <2>2, OthersKeepSync
<1>6. CASE LoseBlock
  <2>1. /\ logs \in Seq(Chain!Event) /\ Len(logs) \in Nat /\ Len(logs) > 0
        /\ logs' = SubSeq(logs, 1, Len(logs) - 1)
    BY <1>6, SyncTypes DEF LoseBlock, Chain!Reorganise, PublishInv, TypeOK, Chain!ChainTypeOK
  <2>2. PICK last \in Nat : last = Len(logs) - 1
    BY <2>1
  <2>3. \A k \in 1..last : logs[k] \in Chain!Event
    BY <2>1, <2>2
  <2>4. /\ Len(logs') = last /\ \A n \in 1..last : logs'[n] = logs[n]
    <3>1. /\ Len(SubSeq(logs, 1, last)) = IF 1 <= last THEN last - 1 + 1 ELSE 0
          /\ \A k \in 1..(last - 1 + 1) : SubSeq(logs, 1, last)[k] = logs[1 + k - 1]
      BY <2>3, SubSeqProperties
    <3>2. last - 1 + 1 = last /\ \A k \in 1..last : 1 + k - 1 = k
      OBVIOUS
    <3>3. logs' = SubSeq(logs, 1, last)
      BY <2>1, <2>2
    <3>4. Len(logs') = last
      BY <3>1, <3>3
    <3>5. ASSUME NEW k \in 1..last PROVE logs'[k] = logs[k]
      BY <3>1, <3>2, <3>3
    <3> QED BY <3>4, <3>5
  <2>5. \A n \in 1..last : n \in 1..Len(logs) /\ \A k \in 1..n : k \in 1..last
    BY <2>1, <2>2
  <2>6. StatusIsOfConfigured'
    BY <2>4, <2>5 DEF SyncInv, StatusIsOfConfigured, IsConfigured, IsOwn
  <2> QED BY <1>2, <2>6, OthersKeepSync
<1> QED BY <1>3, <1>4, <1>5, <1>6

\* An applied event is the last so far; a skipped one changes nothing, unless it
\* belongs to the course and would be its second configuration.
LEMMA ApplyReaches ==
  ASSUME PublishInv, SyncInv, NEW i \in Indexers, ApplyEvent(i), ConfirmedOnce,
         course'.status \in Public
  PROVE  \E m \in 1..confirmed :
           AgreesAt(m)' /\ m >= sync[i].next /\ m + 1 >= Overlap
<1>1. PICK n \in Nat : n = sync[i].next
  BY SyncTypes
<1>2. /\ sync[i].step = "apply" /\ n <= sync[i].safe /\ UNCHANGED logs
      /\ \/ Publishable(logs[n]) /\ Publish(logs[n])
         \/ Projectable(logs[n]) /\ Writes(ProjectedStatus(logs[n]), course.text, course.proposal)
         \/ ~Publishable(logs[n]) /\ ~Projectable(logs[n]) /\ UNCHANGED course
  BY <1>1 DEF ApplyEvent, SyncUnchanged, chainRows
<1>3. n \in 1..confirmed /\ n + 1 >= Overlap /\ confirmed \in Nat /\ n \in 1..Len(logs)
  BY <1>1, <1>2, SyncTypes DEF SyncInv, SyncsBeginLow
<1>4. logs[n] \in Chain!Event
  BY <1>3, SyncTypes
<1>5. ASSUME IsOwn(n),
             course'.status = IF logs[n].kind = "delisted" THEN "ARCHIVED" ELSE "PUBLISHED"
      PROVE  AgreesAt(n)'
  BY <1>2, <1>3, <1>5 DEF AgreesAt, IsOwn
<1>6. CASE Publishable(logs[n]) /\ Publish(logs[n])
  <2>1. IsOwn(n) /\ logs[n].kind = "configured" /\ course'.status = "PUBLISHED"
    BY <1>6 DEF Publishable, Matches, Publish, IsOwn
  <2> QED BY <1>1, <1>3, <1>5, <2>1
<1>7. CASE Projectable(logs[n]) /\ Writes(ProjectedStatus(logs[n]), course.text, course.proposal)
  <2>1. IsOwn(n) /\ logs[n].kind # "configured" /\ course'.status = ProjectedStatus(logs[n])
    BY <1>7 DEF Projectable, Writes, IsOwn
  <2>2. logs[n].kind \in {"published", "delisted"}
    BY <1>4, <2>1 DEF Chain!Event
  <2> QED BY <1>1, <1>3, <1>5, <2>1, <2>2 DEF ProjectedStatus
<1>8. CASE ~Publishable(logs[n]) /\ ~Projectable(logs[n]) /\ UNCHANGED course
  <2>1. PICK m \in 1..confirmed : AgreesAt(m) /\ NothingSkipped(m)
    BY <1>8 DEF SyncInv, StatusIsOfBlock
  <2>2. m + 1 >= Overlap /\ m + 1 >= n /\ m \in Nat
    BY <1>1, <1>2, <2>1 DEF NothingSkipped
  <2>3. ASSUME NEW p \in Nat, AgreesAt(p) PROVE AgreesAt(p)'
    BY <1>2, <1>8, <2>3, AgreementStays
  <2>4. CASE m >= n
    BY <1>1, <2>1, <2>2, <2>3, <2>4
  <2>5. CASE m + 1 = n
    <3>1. PICK k \in 1..m : /\ IsOwn(k) /\ \A j \in 1..m : IsOwn(j) => j <= k
                            /\ course.status =
                                 IF logs[k].kind = "delisted" THEN "ARCHIVED" ELSE "PUBLISHED"
      BY <2>1 DEF AgreesAt
    <3>2. ~IsOwn(n)
      <4> SUFFICES ASSUME IsOwn(n) PROVE FALSE
        OBVIOUS
      <4>1. IsConfigured(n)
        BY <1>8 DEF Projectable, IsConfigured, IsOwn, Public
      <4>2. k \in 1..Len(logs)
        BY <1>3, <2>2, <2>5
      <4>3. PICK q \in 1..k : IsConfigured(q)
        BY <3>1, <4>2 DEF SyncInv, StatusIsOfConfigured
      <4>4. q \in 1..confirmed /\ q # n
        BY <1>3, <2>2, <2>5
      <4> QED BY <1>3, <4>1, <4>3, <4>4 DEF ConfirmedOnce
    <3>3. k \in 1..n /\ \A j \in 1..n : j \in 1..m \/ j = n
      BY <1>3, <2>2, <2>5
    <3>4. AgreesAt(n)
      BY <3>1, <3>2, <3>3 DEF AgreesAt
    <3> QED BY <1>1, <1>3, <2>3, <3>4
  <2> QED BY <1>3, <2>2, <2>4, <2>5
<1> QED BY <1>2, <1>6, <1>7, <1>8

LEMMA IndexerKeepsSync ==
  ASSUME PublishInv, SyncInv, OneIndexer, ShortLag, NEW i \in Indexers, SyncStep(i) \/ FailSync(i)
  PROVE  SyncInv'
<1>1. Indexers = {i}
  BY DEF OneIndexer
<1>2. UNCHANGED <<logs, confirmed>>
  BY DEF SyncStep, ReadHead, LoadCheckpoint, ApplyEvent, SaveCheckpoint, FailSync, SyncUnchanged,
     chainRows
<1>3. StatusIsOfConfigured'
  BY <1>2 DEF SyncInv, StatusIsOfConfigured, IsConfigured, IsOwn
<1>4. ConfirmedOnce' = ConfirmedOnce
  BY <1>2 DEF ConfirmedOnce, IsConfigured, IsOwn
<1>5. sync \in [Indexers -> SyncRow]
  BY DEF PublishInv, TypeOK
<1>6. /\ confirmed \in Nat /\ checkpoint \in Nat /\ Depth \in Nat \ {0} /\ MaxLag \in Nat
      /\ MaxLag <= 1 /\ Overlap \in Nat \ {0} /\ (Overlap = 1 \/ Overlap + Depth = checkpoint)
      /\ sync[i].safe \in Nat /\ sync[i].next \in Nat
      /\ checkpoint <= confirmed + 1
  BY SyncTypes, OverlapType DEF ShortLag, SyncInv, SyncsBeginLow
<1>7. ASSUME NEW row, sync' = [sync EXCEPT ![i] = row], UNCHANGED checkpoint,
             row.step # "idle" => row.safe + 2 >= checkpoint,
             row.step = "apply" => row.next + 1 >= Overlap /\ row.next <= row.safe + 1
      PROVE  SyncsBeginLow' /\ sync'[i] = row /\ Overlap' = Overlap
  <2>1. sync'[i] = row
    BY <1>5, <1>7
  <2>2. Overlap' = Overlap
    BY <1>7 DEF Overlap
  <2> QED BY <1>1, <1>2, <1>6, <1>7, <2>1, <2>2 DEF SyncsBeginLow
<1>8. ASSUME UNCHANGED course, Overlap' <= Overlap \/ Overlap' <= sync[i].safe,
             Overlap' <= Overlap \/ Synced(i),
             sync'[i].step = "apply" => sync'[i].next \in Nat /\ sync'[i].next <= Overlap,
             Overlap' \in Nat
      PROVE  StatusIsOfBlock'
  <2> SUFFICES ASSUME ConfirmedOnce, course.status \in Public
               PROVE  \E m \in 1..confirmed : AgreesAt(m)' /\ NothingSkipped(m)'
    BY <1>2, <1>4, <1>8 DEF StatusIsOfBlock
  <2>1. PICK m \in 1..confirmed : AgreesAt(m) /\ NothingSkipped(m)
    BY DEF SyncInv, StatusIsOfBlock
  <2>2. m \in Nat /\ m + 1 >= Overlap /\ (sync[i].step = "apply" => m + 1 >= sync[i].next)
    BY <2>1 DEF NothingSkipped
  <2>3. m + 1 >= Overlap'
    BY <1>6, <1>8, <2>2 DEF Synced
  <2>4. sync'[i].step = "apply" => m + 1 >= sync'[i].next
    <3> SUFFICES ASSUME sync'[i].step = "apply" PROVE m + 1 >= sync'[i].next
      OBVIOUS
    <3>1. PICK next : next = sync'[i].next
      OBVIOUS
    <3> QED BY <1>6, <1>8, <2>2, <3>1
  <2>5. NothingSkipped(m)'
    BY <1>1, <2>3, <2>4 DEF NothingSkipped
  <2>6. AgreesAt(m)'
    BY <1>2, <1>8, <2>1, <2>2, AgreementStays
  <2> QED BY <2>1, <2>5, <2>6
<1>9. CASE ReadHead(i)
  <2>1. PICK safe \in 1..confirmed :
          /\ Syncs(i, "load", safe, 0) /\ UNCHANGED <<course, checkpoint>>
          /\ safe = confirmed \/ confirmed - safe <= MaxLag
    BY <1>9 DEF ReadHead
  <2>2. PICK row : row = [step |-> "load", safe |-> safe, next |-> 0]
    OBVIOUS
  <2>3. sync' = [sync EXCEPT ![i] = row] /\ row.step = "load" /\ row.safe = safe
    BY <2>1, <2>2 DEF Syncs
  <2>4. safe + 2 >= checkpoint
    BY <1>6, <2>1
  <2>5. SyncsBeginLow' /\ sync'[i] = row /\ Overlap' = Overlap
    BY <1>7, <2>1, <2>3, <2>4
  <2>6. StatusIsOfBlock'
    BY <1>6, <1>8, <2>1, <2>3, <2>5
  <2> QED BY <1>3, <2>5, <2>6 DEF SyncInv
<1>10. CASE LoadCheckpoint(i)
  <2>1. PICK first : first = FirstBlock(sync[i].safe)
    OBVIOUS
  <2>2. PICK row : row = [step |-> "apply", safe |-> sync[i].safe, next |-> first]
    OBVIOUS
  <2>3. /\ sync[i].step = "load" /\ UNCHANGED <<course, checkpoint>>
        /\ sync' = [sync EXCEPT ![i] = row]
        /\ row.step = "apply" /\ row.safe = sync[i].safe /\ row.next = first
    BY <1>10, <2>1, <2>2 DEF LoadCheckpoint, Syncs
  <2>4. sync[i].safe + 2 >= checkpoint /\ sync[i].safe >= 1
    BY <2>3, SyncTypes DEF SyncInv, SyncsBeginLow
  <2>5. first \in Nat /\ first + 1 >= Overlap /\ first <= Overlap /\ first <= sync[i].safe + 1
    BY <1>6, <2>1, <2>4 DEF FirstBlock, Overlap
  <2>6. SyncsBeginLow' /\ sync'[i] = row /\ Overlap' = Overlap
    BY <1>7, <2>3, <2>4, <2>5
  <2>7. StatusIsOfBlock'
    BY <1>6, <1>8, <2>3, <2>5, <2>6
  <2> QED BY <1>3, <2>6, <2>7 DEF SyncInv
<1>11. CASE ApplyEvent(i)
  <2>1. PICK n \in Nat : n = sync[i].next
    BY <1>6
  <2>2. PICK row : row = [step |-> "apply", safe |-> sync[i].safe, next |-> n + 1]
    OBVIOUS
  <2>3. /\ sync[i].step = "apply" /\ n <= sync[i].safe /\ UNCHANGED checkpoint
        /\ sync' = [sync EXCEPT ![i] = row]
        /\ row.step = "apply" /\ row.safe = sync[i].safe /\ row.next = n + 1
    BY <1>11, <2>1, <2>2 DEF ApplyEvent, Syncs
  <2>4. sync[i].safe + 2 >= checkpoint /\ n + 1 >= Overlap
    BY <2>1, <2>3 DEF SyncInv, SyncsBeginLow
  <2>5. SyncsBeginLow' /\ sync'[i] = row /\ Overlap' = Overlap
    <3>1. (n + 1) + 1 >= Overlap /\ n + 1 <= sync[i].safe + 1
      BY <1>6, <2>3, <2>4
    <3>2. row.next + 1 >= Overlap /\ row.next <= row.safe + 1 /\ row.safe + 2 >= checkpoint
      BY <2>3, <2>4, <3>1
    <3> QED BY <1>7, <2>3, <3>2
  <2>6. StatusIsOfBlock'
    <3> SUFFICES ASSUME ConfirmedOnce, course'.status \in Public
                 PROVE  \E m \in 1..confirmed : AgreesAt(m)' /\ NothingSkipped(m)'
      BY <1>2, <1>4 DEF StatusIsOfBlock
    <3>1. PICK m \in 1..confirmed : AgreesAt(m)' /\ m >= n /\ m + 1 >= Overlap
      BY <1>11, <2>1, ApplyReaches
    <3>2. m + 1 >= n + 1
      BY <2>1, <3>1
    <3>3. NothingSkipped(m)'
      BY <1>1, <2>3, <2>5, <3>1, <3>2 DEF NothingSkipped
    <3> QED BY <3>1, <3>3
  <2> QED BY <1>3, <2>5, <2>6 DEF SyncInv
<1>12. CASE SaveCheckpoint(i)
  <2>1. /\ Synced(i) /\ sync[i].step = "apply" /\ checkpoint' = sync[i].safe + 1
        /\ sync' = [sync EXCEPT ![i] = NoSync] /\ UNCHANGED course
    BY <1>12 DEF SaveCheckpoint, Synced
  <2>2. sync[i].safe \in 1..confirmed
    BY <2>1, SyncTypes
  <2>3. sync'[i] = NoSync /\ NoSync.step = "idle"
    BY <1>5, <2>1 DEF NoSync
  <2>4. Overlap' \in Nat /\ Overlap' <= sync[i].safe
    BY <1>6, <2>1, <2>2 DEF Overlap
  <2>5. SyncsBeginLow'
    BY <1>1, <1>2, <1>6, <2>1, <2>2, <2>3 DEF SyncsBeginLow
  <2>6. StatusIsOfBlock'
    BY <1>8, <2>1, <2>3, <2>4
  <2> QED BY <1>3, <2>5, <2>6 DEF SyncInv
<1>13. CASE FailSync(i)
  <2>1. UNCHANGED <<course, checkpoint>> /\ sync' = [sync EXCEPT ![i] = NoSync]
        /\ NoSync.step = "idle"
    BY <1>13 DEF FailSync, NoSync
  <2>2. SyncsBeginLow' /\ sync'[i] = NoSync /\ Overlap' = Overlap
    BY <1>7, <2>1
  <2>3. StatusIsOfBlock'
    BY <1>6, <1>8, <2>1, <2>2
  <2> QED BY <1>3, <2>2, <2>3 DEF SyncInv
<1> QED BY <1>9, <1>10, <1>11, <1>12, <1>13 DEF SyncStep

LEMMA SyncStepKeeps ==
  ASSUME OneIndexer, ShortLag
  PROVE  PublishInv /\ SyncInv /\ [Next]_vars => SyncInv'
<1> SUFFICES ASSUME PublishInv, SyncInv, [Next]_vars PROVE SyncInv'
  OBVIOUS
<1>1. CASE UNCHANGED vars
  <2>1. UNCHANGED <<course, logs, confirmed, sync, checkpoint>>
    BY <1>1 DEF vars, courseRows, chainRows
  <2>2. StatusIsOfConfigured'
    BY <2>1 DEF SyncInv, StatusIsOfConfigured, IsConfigured, IsOwn
  <2> QED BY <2>1, <2>2, SyncTypes, OthersKeepSync
<1>2. CASE Next
  BY <1>2, CallHasEffect, RecoveryHasEffect, ProcessingHasEffect, CallKeepsSync, ChainKeepsSync,
     IndexerKeepsSync DEF Next
<1> QED BY <1>1, <1>2

LEMMA SyncInitially == Init => SyncInv
<1> SUFFICES ASSUME Init PROVE SyncInv
  OBVIOUS
<1>1. /\ logs = <<>> /\ confirmed = 0 /\ checkpoint = 0 /\ course.status = "DRAFT"
      /\ \A i \in Indexers : sync[i].step = "idle"
  BY DEF Init, Chain!ChainInit, NoSync
<1>2. StatusIsOfConfigured
  BY <1>1 DEF StatusIsOfConfigured
<1> QED BY <1>1, <1>2 DEF SyncInv, SyncsBeginLow, StatusIsOfBlock, Public

\* The status of the last event of a course is the contract's.
LEMMA AgreementMeans ==
  ASSUME NEW m \in Nat, AgreesAt(m)
  PROVE  /\ course.status = "PUBLISHED" => Chain!StatusAt("own", m) = "published"
         /\ course.status = "ARCHIVED" => Chain!StatusAt("own", m) = "delisted"
<1>1. PICK k \in 1..m :
        /\ IsOwn(k) /\ \A j \in 1..m : IsOwn(j) => j <= k
        /\ course.status = IF logs[k].kind = "delisted" THEN "ARCHIVED" ELSE "PUBLISHED"
  BY DEF AgreesAt
<1> DEFINE blocks == {j \in 1..m : logs[j].id = "own"}
<1>2. k \in blocks /\ \A j \in blocks : j <= k
  BY <1>1 DEF IsOwn
<1>3. Chain!LastOf("own", m) = CHOOSE q \in blocks : \A j \in blocks : j <= q
  BY <1>2 DEF Chain!LastOf
<1>4. ASSUME NEW q \in blocks, \A j \in blocks : j <= q PROVE q = k
  BY <1>2, <1>4
<1> HIDE DEF blocks
<1>5. Chain!LastOf("own", m) = k
  BY <1>2, <1>3, <1>4
<1>6. k # 0
  OBVIOUS
<1> QED BY <1>1, <1>5, <1>6 DEF Chain!StatusAt

-----------------------------------------------------------------------------
(* What holds of every behaviour.                                          *)

\* Every writer of a course knows what its write needs: a submission and an
\* approval carry a proposal that was made from READY lessons, and a sync
\* applies confirmed events (courses.service.ts:125-211, catalog.go:60-108).
THEOREM PublishInvariant == Spec => []PublishInv
<1> QED BY InitialInv, InvariantStep, PTL DEF Spec

\* Rows, calls, syncs and the log are well formed: asset versions and the
\* checkpoint stay within their bounds (schema.prisma, Course and
\* ChainCheckpoint; CourseCatalog.sol).
THEOREM TypeCorrect == Spec => []TypeOK
<1>1. PublishInv => TypeOK
  BY DEF PublishInv
<1> QED BY <1>1, PublishInvariant, PTL

\* A public course is listed as a confirmed event says and as its teacher
\* proposed it, with READY required lessons (courses.service.ts:125-184,
\* postgres.go:344-373, purchase_index.sql:66-81).
THEOREM ListingAlwaysConfirmed == Spec => []ListingIsConfirmed
<1>1. PublishInv => ListingIsConfirmed
  BY DEF PublishInv
<1> QED BY <1>1, PublishInvariant, PTL

\* One indexer that reads nodes at most a block behind leaves a course with the
\* status of the contract, though every sync applies old events again and failed
\* ones stop half way (catalog.go:60-108).
THEOREM SyncedAlwaysAgrees ==
  ASSUME OneIndexer, ShortLag PROVE Spec => []SyncedAgrees
<1>1. PublishInv /\ SyncInv => SyncedAgrees
  <2> SUFFICES ASSUME PublishInv, SyncInv, NEW i \in Indexers,
                      Synced(i), sync[i].safe = confirmed, ConfiguredOnce,
                      course.status \in Public
               PROVE  /\ course.status = "PUBLISHED" => Chain!StatusAt("own", confirmed) = "published"
                      /\ course.status = "ARCHIVED" => Chain!StatusAt("own", confirmed) = "delisted"
    BY DEF SyncedAgrees, Public
  <2>1. ConfirmedOnce
    BY SyncTypes DEF ConfiguredOnce, ConfirmedOnce, IsConfigured, IsOwn
  <2>2. PICK m \in 1..confirmed : AgreesAt(m) /\ NothingSkipped(m)
    BY <2>1 DEF SyncInv, StatusIsOfBlock
  <2>3. m = confirmed /\ m \in Nat
    BY <2>2, SyncTypes DEF NothingSkipped, Synced
  <2> QED BY <2>2, <2>3, AgreementMeans
<1>2. PublishInv /\ SyncInv /\ [Next]_vars => SyncInv'
  BY SyncStepKeeps
<1> QED BY <1>1, <1>2, SyncInitially, PublishInvariant, PTL DEF Spec

\* Each effect is a step of the promised life of a course, or none.
LEMMA EffectRefines ==
  ASSUME PublishInv, CallEffect \/ ChainEffect \/ IndexerEffect
  PROVE  Lifecycle!Next
         \/ UNCHANGED <<course.status,
                        IF course.listing = NoProposal THEN None ELSE course.listing>>
<1>1. CASE CallEffect
  <2>1. course'.listing = course.listing
    BY <1>1 DEF CallEffect
  <2> QED BY <1>1, <2>1 DEF CallEffect, Lifecycle!Next, Lifecycle!Submit, Lifecycle!Reject,
      Lifecycle!Approve
<1>2. CASE ChainEffect
  BY <1>2 DEF ChainEffect, ChainStep, courseRows
<1>3. CASE IndexerEffect
  <2>1. CASE UNCHANGED course
    BY <2>1
  <2>2. CASE \E n \in 1..confirmed : Publishable(logs[n]) /\ Publish(logs[n])
    <3>1. PICK n \in 1..confirmed : Publishable(logs[n]) /\ Publish(logs[n])
      BY <2>2
    <3>2. /\ course.proposal \in Proposals
          /\ course.proposal = [terms |-> logs[n].terms, hash |-> logs[n].hash]
      BY <3>1, PublishesProposal
    <3>3. course'.status = "PUBLISHED" /\ course'.listing = course.proposal
      BY <3>1, <3>2 DEF Publish
    <3>4. course.proposal # NoProposal
      BY <3>2 DEF Proposals, NoProposal
    <3>5. course.status = "APPROVED"
      BY <3>1 DEF Publishable
    <3> QED BY <3>2, <3>3, <3>4, <3>5 DEF Lifecycle!Next, Lifecycle!Publish
  <2>3. CASE /\ course.status \in Public
             /\ \E status \in Public : Writes(status, course.text, course.proposal)
    <3>1. course'.listing = course.listing /\ course'.status \in Public
      BY <2>3 DEF Writes
    <3> QED BY <2>3, <3>1 DEF Public, Lifecycle!Next, Lifecycle!Delist, Lifecycle!Relist
  <2> QED BY <1>3, <2>1, <2>2, <2>3 DEF IndexerEffect
<1> QED BY <1>1, <1>2, <1>3

\* A course lives as CourseLifecycle promises: no late call takes it back, and
\* its listing is written once (courses.service.ts:167-184, 200-211).
THEOREM Refinement == Spec => ImplementsLifecycle
<1>1. Init => Lifecycle!Init
  BY DEF Init, Lifecycle!Init
<1>2. PublishInv /\ [Next]_vars
      => [Lifecycle!Next]_<<course.status,
                            IF course.listing = NoProposal THEN None ELSE course.listing>>
  <2> SUFFICES ASSUME PublishInv, [Next]_vars
               PROVE  Lifecycle!Next
                      \/ UNCHANGED <<course.status,
                                     IF course.listing = NoProposal THEN None
                                     ELSE course.listing>>
    OBVIOUS
  <2>1. CASE Next
    BY <2>1, EveryStepHasEffect, EffectRefines
  <2>2. CASE UNCHANGED vars
    BY <2>2 DEF vars, courseRows
  <2> QED BY <2>1, <2>2
<1> QED BY <1>1, <1>2, PublishInvariant, PTL DEF Spec, ImplementsLifecycle, Lifecycle!Spec
=============================================================================
