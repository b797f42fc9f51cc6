-------------------------- MODULE CoursePublishing --------------------------
(***************************************************************************)
(* From a draft to a published course: the course service of the API       *)
(* (courses.service.ts), the administrator who signs the package of an     *)
(* approved course, the catalog contract, and the catalog indexer          *)
(* (catalog.go) that publishes what it finds confirmed there.              *)
(*                                                                         *)
(* One course: its id is part of every hash and determines its id on the   *)
(* chain, so that another course never meets its rows.  A call of the API  *)
(* is several statements without a transaction, the last of which writes.  *)
(* The content of lessons changes as AssetLifecycle promises.              *)
(***************************************************************************)
EXTENDS Naturals, Sequences

CONSTANTS
  Lessons,                    \* positions of lessons
  Requests,                   \* API calls in progress
  Indexers,                   \* worker processes
  Texts,                      \* title and description
  Terms,                      \* price and payout wallet
  Altered,                    \* terms that no teacher proposed
  Foreign,                    \* the id of another course on the chain
  None,
  Depth,                      \* INDEXER_REORG_DEPTH
  MaxLag,                     \* how far a node may be behind in confirmed blocks
  MaxVersion,                 \* bound of the versions of an asset
  MaxLogs,                    \* bound of the length of the log
  MaxFaults                   \* bound of failed syncs and lagging answers

ASSUME PublishingAssumption ==
  /\ None \notin Terms \union Lessons \union {Altered} \union 0..MaxVersion
  /\ Altered \notin Terms
  /\ Foreign # "own"
  /\ Depth \in Nat \ {0} /\ MaxLag \in Nat /\ MaxVersion \in Nat
  /\ MaxLogs \in Nat /\ MaxFaults \in Nat

VARIABLES
  course,                     \* the Course row
  lesson,                     \* the Lesson rows
  content,                    \* status and version of their assets
  request,                    \* what each API call is doing
  packages,                   \* publication packages handed out
  logs, confirmed,            \* the catalog's events
  sync,                       \* what each indexer is doing
  checkpoint,                 \* ChainCheckpoint.nextBlock, 0 without a row
  faults

Versions == 0..MaxVersion
Kinds == {"none", "required", "optional"}

\* Of a lesson the hash sees its kind and the facts of a READY asset.
Files == Versions \union {None}
HashedLessons == [Lessons -> [kind : Kinds, file : Files]]
Hashes == [text : Texts, terms : Terms, lessons : HashedLessons]
Proposals == [terms : Terms, hash : Hashes]
NoProposal == [terms |-> None, hash |-> None]

Chain == INSTANCE CatalogChain WITH
  ChainIds <- {"own", Foreign}, Terms <- Terms \union {Altered}
Asset == INSTANCE AssetLifecycle

courseRows == <<course, lesson>>
chainRows == <<logs, confirmed>>
vars == <<courseRows, content, request, packages, chainRows, sync, checkpoint, faults>>

\* requestedPriceYD, requestedPayoutWallet and submissionHash are the proposal
\* (the certificate URI, set and cleared with them, is not told apart); the
\* facts taken from the chain are the listing.
CourseRow ==
  [status : {"DRAFT", "PENDING_REVIEW", "APPROVED", "PUBLISHED", "ARCHIVED"},
   text : Texts, proposal : Proposals \union {NoProposal},
   listing : Proposals \union {NoProposal}]

RequestRow ==
  [step : {"idle", "update", "lesson", "media", "compose", "submit", "reject",
           "inspect", "approve"},
   lesson : Lessons \union {None}, version : Versions, text : Texts \union {None},
   proposal : Proposals \union {NoProposal}]

Blocks == 0..(MaxLogs + 1)

SyncRow ==
  [step : {"idle", "load", "apply"}, safe : Blocks, next : Blocks]

NoRequest ==
  [step |-> "idle", lesson |-> None, version |-> 0, text |-> None, proposal |-> NoProposal]
NoSync == [step |-> "idle", safe |-> 0, next |-> 0]

TypeOK ==
  /\ course \in CourseRow
  /\ lesson \in [Lessons -> Kinds]
  /\ content \in [Lessons -> [status : Asset!States, version : Versions]]
  /\ request \in [Requests -> RequestRow]
  /\ packages \subseteq Proposals
  /\ Chain!ChainTypeOK
  /\ sync \in [Indexers -> SyncRow]
  /\ checkpoint \in Blocks
  /\ faults \in 0..MaxFaults

\* A course as create leaves it.
Init ==
  /\ course \in [status : {"DRAFT"}, text : Texts, proposal : {NoProposal},
                 listing : {NoProposal}]
  /\ lesson = [l \in Lessons |-> "none"]
  /\ Asset!Init
  /\ request = [r \in Requests |-> NoRequest]
  /\ packages = {}
  /\ Chain!ChainInit
  /\ sync = [i \in Indexers |-> NoSync]
  /\ checkpoint = 0
  /\ faults = 0

-----------------------------------------------------------------------------
(* Calls of the teacher and of the administrator.                          *)

CallUnchanged == UNCHANGED <<chainRows, sync, checkpoint, faults>>

\* Call r has read what it needs and goes on to a step.
Goes(r, step, l, version, text, proposal) ==
  request' = [request EXCEPT ![r] =
    [step |-> step, lesson |-> l, version |-> version, text |-> text,
     proposal |-> proposal]]

Ends(r) == request' = [request EXCEPT ![r] = NoRequest]

Reads == UNCHANGED <<courseRows, content, packages>> /\ CallUnchanged

\* A call ends without an effect: its condition fails, or a statement does.
Drop(r) == request[r].step # "idle" /\ Ends(r) /\ Reads

Begins(r, status) == request[r].step = "idle" /\ course.status = status

\* The columns of the row that a write of the API changes.
Writes(status, text, proposal) ==
  course' = [status |-> status, text |-> text, proposal |-> proposal,
             listing |-> course.listing]

BeginUpdate(r) == Begins(r, "DRAFT") /\ Goes(r, "update", None, 0, None, NoProposal) /\ Reads

\* The update names the course by its id alone.
UpdateCourse(r) ==
  /\ request[r].step = "update"
  /\ \E text \in Texts : Writes(course.status, text, NoProposal)
  /\ Ends(r)
  /\ UNCHANGED <<lesson, content, packages>> /\ CallUnchanged

\* At a position that is taken it could only fail.
BeginAddLesson(r, l) ==
  /\ Begins(r, "DRAFT")
  /\ lesson[l] = "none"
  /\ Goes(r, "lesson", l, 0, None, NoProposal)
  /\ Reads

\* Positions are unique.
AddLesson(r) ==
  LET l == request[r].lesson IN
  /\ request[r].step = "lesson"
  /\ lesson[l] = "none"
  /\ \E kind \in Kinds \ {"none"} : lesson' = [lesson EXCEPT ![l] = kind]
  /\ Ends(r)
  /\ UNCHANGED <<course, content, packages>> /\ CallUnchanged

\* The media service looks at the course when it reads the asset.
BeginMedia(r, l) ==
  /\ Begins(r, "DRAFT")
  /\ lesson[l] # "none" /\ content[l].status # "PROCESSING"
  /\ Goes(r, "media", l, content[l].version, None, NoProposal)
  /\ Reads

WithinVersions == \A l \in Lessons : content'[l].version \in Versions

ChangeMedia(r) ==
  LET l == request[r].lesson IN
  /\ request[r].step = "media"
  /\ content[l].version = request[r].version
  /\ Asset!Create(l) \/ Asset!Replace(l) \/ Asset!Reject(l) \/ Asset!Queue(l)
  /\ WithinVersions
  /\ Ends(r)
  /\ UNCHANGED <<courseRows, packages>> /\ CallUnchanged

RequiredLessons == {l \in Lessons : lesson[l] = "required"}

\* Every required lesson, and there is one, has a READY asset.
LessonsReady ==
  /\ RequiredLessons # {}
  /\ \A l \in RequiredLessons : content[l].status = "READY"

FileOf(l) ==
  IF lesson[l] # "none" /\ content[l].status = "READY" THEN content[l].version ELSE None

\* buildSubmissionHash: two hashes are equal only when their contents are.
SubmissionHash(text, terms) ==
  [text |-> text, terms |-> terms,
   lessons |-> [l \in Lessons |-> [kind |-> lesson[l], file |-> FileOf(l)]]]

BeginSubmit(r) ==
  Begins(r, "DRAFT") /\ Goes(r, "compose", None, 0, course.text, NoProposal) /\ Reads

\* The lessons and their assets are read by queries of their own.
Compose(r) ==
  /\ request[r].step = "compose"
  /\ LessonsReady
  /\ \E terms \in Terms :
       Goes(r, "submit", None, 0, None,
            [terms |-> terms, hash |-> SubmissionHash(request[r].text, terms)])
  /\ Reads

\* Fault: the course may have left DRAFT.
InAnyState(status) == TRUE

InState(status) == course.status = status

SubmitCourse(r) ==
  /\ request[r].step = "submit"
  /\ InState("DRAFT")
  /\ Writes("PENDING_REVIEW", course.text, request[r].proposal)
  /\ Ends(r)
  /\ UNCHANGED <<lesson, content, packages>> /\ CallUnchanged

BeginReview(r) ==
  /\ Begins(r, "PENDING_REVIEW")
  /\ \/ Goes(r, "inspect", None, 0, None, course.proposal)
     \/ Goes(r, "reject", None, 0, None, NoProposal)
  /\ Reads

\* The required lessons are READY and the package is complete.
Inspect(r) ==
  /\ request[r].step = "inspect"
  /\ LessonsReady
  /\ request[r].proposal # NoProposal
  /\ Goes(r, "approve", None, 0, None, request[r].proposal)
  /\ Reads

\* The package is the one read at the beginning.
ApproveCourse(r) ==
  /\ request[r].step = "approve"
  /\ InState("PENDING_REVIEW")
  /\ Writes("APPROVED", course.text, course.proposal)
  /\ packages' = packages \union {request[r].proposal}
  /\ Ends(r)
  /\ UNCHANGED <<lesson, content>> /\ CallUnchanged

RejectCourse(r) ==
  /\ request[r].step = "reject"
  /\ InState("PENDING_REVIEW")
  /\ Writes("DRAFT", course.text, course.proposal)
  /\ Ends(r)
  /\ UNCHANGED <<lesson, content, packages>> /\ CallUnchanged

RecoverPackage ==
  /\ course.status = "APPROVED"
  /\ course.proposal # NoProposal
  /\ packages' = packages \union {course.proposal}
  /\ UNCHANGED <<courseRows, content, request>> /\ CallUnchanged

RequestStep(r) ==
  \/ BeginUpdate(r) \/ UpdateCourse(r) \/ AddLesson(r) \/ ChangeMedia(r)
  \/ \E l \in Lessons : BeginAddLesson(r, l) \/ BeginMedia(r, l)
  \/ BeginSubmit(r) \/ Compose(r) \/ SubmitCourse(r)
  \/ BeginReview(r) \/ Inspect(r) \/ ApproveCourse(r) \/ RejectCourse(r)
  \/ Drop(r)

\* The media worker ends the processing of an uploaded asset, whatever the
\* course is.  Version 0 in process is a video without an upload, and has no job.
ProcessMedia(l) ==
  /\ content[l].version > 0
  /\ Asset!Finish(l)
  /\ UNCHANGED <<courseRows, request, packages>> /\ CallUnchanged

-----------------------------------------------------------------------------
(* The administrator's wallet and the chain.                               *)

ChainStep == UNCHANGED <<courseRows, content, request, packages, sync, checkpoint, faults>>

\* A package is signed as it is or, by mistake, with other terms or for another
\* course.
Configure ==
  /\ \E p \in packages :
       \/ \E terms \in {p.terms, Altered} : Chain!ConfigureCourse("own", terms, p.hash)
       \/ Chain!ConfigureCourse(Foreign, p.terms, p.hash)
  /\ ChainStep

SetStatus ==
  /\ \E id \in {"own", Foreign}, status \in {"published", "delisted"} :
       Chain!SetCourseStatus(id, status)
  /\ ChainStep

ConfirmBlock == Chain!Confirm /\ ChainStep

LoseBlock == Chain!Reorganise /\ ChainStep

-----------------------------------------------------------------------------
(* The catalog indexer.                                                    *)

SyncUnchanged == UNCHANGED <<lesson, content, request, packages, chainRows>>

Faulty == faults < MaxFaults /\ faults' = faults + 1

Syncs(i, step, safe, next) ==
  sync' = [sync EXCEPT ![i] = [step |-> step, safe |-> safe, next |-> next]]

\* A node may be behind, within what is confirmed.
ReadHead(i) ==
  /\ sync[i].step = "idle"
  /\ \E safe \in 1..confirmed :
       /\ Syncs(i, "load", safe, 0)
       /\ \/ safe = confirmed /\ UNCHANGED faults
          \/ safe < confirmed /\ confirmed - safe <= MaxLag /\ Faulty
  /\ UNCHANGED <<course, checkpoint>> /\ SyncUnchanged

\* Fault: the overlap is subtracted from a checkpoint that may be smaller.
FirstBelowZero(safe) == checkpoint - Depth

\* Fault: the first block of the sync is skipped.
FirstSkipped(safe) == checkpoint + 1

\* The first block of a sync up to a safe block.
FirstBlock(safe) ==
  LET from == IF checkpoint > 1 THEN checkpoint ELSE 1
      next == IF from > safe + 1 THEN safe + 1 ELSE from
  IN  IF next > Depth /\ next - Depth > 1 THEN next - Depth ELSE 1

\* The events are read at once or later: those of confirmed blocks stay.
LoadCheckpoint(i) ==
  /\ sync[i].step = "load"
  /\ Syncs(i, "apply", sync[i].safe, FirstBlock(sync[i].safe))
  /\ UNCHANGED <<course, checkpoint, faults>> /\ SyncUnchanged

\* Fault: the price and the payout wallet are not compared.
MatchesHash(event) ==
  /\ event.kind = "configured" /\ event.id = "own"
  /\ event.hash = course.proposal.hash

\* The event is what the row proposes.
Matches(event) ==
  /\ event.kind = "configured" /\ event.id = "own"
  /\ event.hash = course.proposal.hash /\ event.terms = course.proposal.terms

\* Two statements: the first only looks for a course that the second, with all
\* conditions, would update.
Publishable(event) == course.status = "APPROVED" /\ Matches(event)

Publish(event) ==
  course' = [status |-> "PUBLISHED", text |-> course.text, proposal |-> course.proposal,
             listing |-> [terms |-> event.terms, hash |-> event.hash]]

\* Fault: an archived course is not listed again.
OnlyPublished(event) ==
  course.status = "PUBLISHED" /\ event.kind # "configured" /\ event.id = "own"

Projectable(event) ==
  /\ course.status \in {"PUBLISHED", "ARCHIVED"}
  /\ event.kind # "configured" /\ event.id = "own"

ProjectedStatus(event) == IF event.kind = "published" THEN "PUBLISHED" ELSE "ARCHIVED"

\* An event that finds no row to update is skipped.
ApplyEvent(i) ==
  LET event == logs[sync[i].next] IN
  /\ sync[i].step = "apply"
  /\ sync[i].next <= sync[i].safe
  /\ \/ Publishable(event) /\ Publish(event)
     \/ Projectable(event) /\ Writes(ProjectedStatus(event), course.text, course.proposal)
     \/ ~Publishable(event) /\ ~Projectable(event) /\ UNCHANGED course
  /\ Syncs(i, "apply", sync[i].safe, sync[i].next + 1)
  /\ UNCHANGED <<checkpoint, faults>> /\ SyncUnchanged

Synced(i) == sync[i].step = "apply" /\ sync[i].next > sync[i].safe

\* The upsert compares nothing: a slower sync puts the checkpoint back.
SaveCheckpoint(i) ==
  /\ Synced(i)
  /\ checkpoint' = sync[i].safe + 1
  /\ sync' = [sync EXCEPT ![i] = NoSync]
  /\ UNCHANGED <<course, faults>> /\ SyncUnchanged

\* A call of the node or the database fails, or the process dies.
FailSync(i) ==
  /\ sync[i].step # "idle"
  /\ Faulty
  /\ sync' = [sync EXCEPT ![i] = NoSync]
  /\ UNCHANGED <<course, checkpoint>> /\ SyncUnchanged

SyncStep(i) == ReadHead(i) \/ LoadCheckpoint(i) \/ ApplyEvent(i) \/ SaveCheckpoint(i)

Next ==
  \/ \E r \in Requests : RequestStep(r)
  \/ RecoverPackage
  \/ \E l \in Lessons : ProcessMedia(l)
  \/ Configure \/ SetStatus \/ ConfirmBlock \/ LoseBlock
  \/ \E i \in Indexers : SyncStep(i) \/ FailSync(i)

Spec == Init /\ [][Next]_vars

\* The worker's loop syncs for ever.  Nothing makes people act or blocks come.
FairSpec == Spec /\ \A i \in Indexers : WF_vars(SyncStep(i))

-----------------------------------------------------------------------------
(* Properties.                                                             *)

\* What students can buy is what was proposed, with its content: a confirmed
\* event of this course has the price, the wallet and the hash of the listing,
\* and that hash was made from this price and wallet and from lessons whose
\* required ones, at least one, were READY - whatever events, calls and
\* reviews came in between (courses.service.ts:125-184, postgres.go:344-373,
\* purchase_index.sql:66-81).
Reviewable(hash) ==
  /\ \E l \in Lessons : hash.lessons[l].kind = "required"
  /\ \A l \in Lessons : hash.lessons[l].kind = "required" => hash.lessons[l].file # None

ListingIsConfirmed ==
  course.status \in {"PUBLISHED", "ARCHIVED"} =>
    /\ \E n \in 1..confirmed :
         logs[n] = [kind |-> "configured", id |-> "own", terms |-> course.listing.terms,
                    hash |-> course.listing.hash]
    /\ course.listing.hash.terms = course.listing.terms
    /\ Reviewable(course.listing.hash)

\* The states of a course are those of CourseLifecycle: no late call of the
\* teacher or the administrator takes a course back, and the listing is
\* written once (courses.service.ts:167-184, 200-211).
Lifecycle ==
  INSTANCE CourseLifecycle WITH
    status <- course.status,
    listing <- IF course.listing = NoProposal THEN None ELSE course.listing,
    Listings <- Proposals
ImplementsLifecycle == Lifecycle!Spec

\* A sync up to the last confirmed block leaves the course with the status
\* that the contract has there, although every sync applies old events again,
\* a failed one stops half way and a node behind the others takes the status
\* back: one indexer, and nodes at most one block behind (catalog.go:79-108).
\* A sync that reads a node two blocks behind begins two blocks lower, and when
\* it fails there the next sync begins above the event that would correct it,
\* however deep the overlap.  A course that was configured again is left out:
\* its new configuration is skipped.
OneIndexer == \E i \in Indexers : Indexers = {i}
ShortLag == MaxLag <= 1

ConfiguredOnce ==
  \A m, n \in 1..Len(logs) :
    /\ logs[m].id = "own" /\ logs[m].kind = "configured"
    /\ logs[n].id = "own" /\ logs[n].kind = "configured"
    => m = n

SyncedAgrees ==
  \A i \in Indexers :
    Synced(i) /\ sync[i].safe = confirmed /\ ConfiguredOnce =>
      /\ course.status = "PUBLISHED" => Chain!StatusAt("own", confirmed) = "published"
      /\ course.status = "ARCHIVED" => Chain!StatusAt("own", confirmed) = "delisted"

\* A course does not stay APPROVED once the event for its proposal is
\* confirmed, whatever syncs fail before (catalog.go:60-109).
ConfirmedIsPublished ==
  \A n \in 1..MaxLogs : []<>~(n <= confirmed /\ Publishable(logs[n]))

\* An approved course stays what the submission hash says: "metadataHash binds
\* that data" (CourseCatalog.sol:9), and the package is rebuilt "from immutable
\* reviewed proposal fields" (design.md:132 of local-course-publication).
ApprovedIsKept ==
  course.status \in {"APPROVED", "PUBLISHED"} =>
    course.proposal.hash = SubmissionHash(course.text, course.proposal.terms)
=============================================================================
