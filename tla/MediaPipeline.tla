--------------------------- MODULE MediaPipeline ---------------------------
(***************************************************************************)
(* From an upload to a READY asset: the media service of the API           *)
(* (media.service.ts), the media worker (media-worker/), and the object    *)
(* store and the teacher's browser between them.                           *)
(*                                                                         *)
(* A call of the API reads the asset, may ask the object store, and then   *)
(* writes under the condition that the asset still has the version it      *)
(* read.  A worker leases a job, reads the uploaded file, writes the ready *)
(* file and only then records the result, if the lease is still its own.   *)
(* A call requires a DRAFT course when it reads the asset, not when it     *)
(* writes; a course can become DRAFT again, so that a call may always      *)
(* begin.                                                                  *)
(***************************************************************************)
EXTENDS Naturals

CONSTANTS
  AssetLessons,               \* of the courses of one teacher
  MediaCalls,                 \* API calls in progress
  Workers,                    \* media worker processes
  Contents,                   \* files that pass the inspection
  Nobody,                     \* no lesson, no worker
  MaxAttempts,                \* DEFAULT_MAX_ATTEMPTS
  MaxAssetVersion,            \* bound of the versions of an asset
  MaxMediaFaults              \* bound of crashes, slow and failed calls

ASSUME MediaAssumption ==
  /\ Nobody \notin AssetLessons \union Workers
  /\ MaxAttempts \in Nat \ {0}
  /\ MaxAssetVersion \in Nat
  /\ MaxMediaFaults \in Nat
  /\ Contents \intersect {"none", "wrong", "corrupt"} = {}

VARIABLES
  asset,                      \* LessonAsset rows
  job,                        \* MediaProcessJob rows
  source,                     \* the objects uploaded, by lesson and key
  ready,                      \* the objects published, by lesson and version
  open,                       \* upload URLs that have not expired
  mediaCall,                  \* what each API call is doing
  worker,                     \* what each worker is doing
  mediaFaults

rows == <<asset, job>>
objects == <<source, ready>>
mediaVars == <<rows, objects, open, mediaCall, worker, mediaFaults>>

AssetVersions == 0..MaxAssetVersion
Keys == AssetLessons \X AssetVersions
Attempts == 0..(MaxAttempts + MaxMediaFaults)

\* "wrong" has another size or type than declared; "corrupt" does not pass
\* the inspection of the worker.
UploadFiles == {"none", "wrong", "corrupt"} \union Contents
Failures == {"none", "upload", "other"}

NoFacts == [key |-> 0, file |-> "none"]
Facts == [key : AssetVersions, file : UploadFiles]

\* An upload key is named by the version under which it was created.
AssetRow ==
  [status : {"NONE", "UPLOADING", "PROCESSING", "READY", "FAILED"},
   version : AssetVersions, key : AssetVersions, facts : Facts, failure : Failures]

JobRow ==
  [status : {"NONE", "PENDING", "PROCESSING", "DELIVERED", "FAILED"},
   attempts : Attempts, owner : Workers \union {Nobody}, over : BOOLEAN]

MediaCallRow ==
  [step : {"idle", "create", "legacy", "replace", "head", "reject", "enqueue",
           "recheck", "requeue"},
   lesson : AssetLessons \union {Nobody}, version : AssetVersions, key : AssetVersions,
   failure : Failures]

WorkerRow ==
  [step : {"idle", "download", "publish", "complete", "fail"},
   lesson : AssetLessons \union {Nobody}, version : AssetVersions, key : AssetVersions,
   attempts : Attempts, file : UploadFiles, retryable : BOOLEAN]

NoAsset ==
  [status |-> "NONE", version |-> 0, key |-> 0, facts |-> NoFacts, failure |-> "none"]
NoJob == [status |-> "NONE", attempts |-> 0, owner |-> Nobody, over |-> FALSE]
NoMediaCall ==
  [step |-> "idle", lesson |-> Nobody, version |-> 0, key |-> 0, failure |-> "none"]
NoWork ==
  [step |-> "idle", lesson |-> Nobody, version |-> 0, key |-> 0, attempts |-> 0,
   file |-> "none", retryable |-> FALSE]

MediaTypeOK ==
  /\ asset \in [AssetLessons -> AssetRow]
  /\ job \in [AssetLessons -> JobRow]
  /\ source \in [Keys -> UploadFiles]
  /\ ready \in [Keys -> UploadFiles]
  /\ open \subseteq Keys
  /\ mediaCall \in [MediaCalls -> MediaCallRow]
  /\ worker \in [Workers -> WorkerRow]
  /\ mediaFaults \in 0..MaxMediaFaults

MediaInit ==
  /\ asset = [l \in AssetLessons |-> NoAsset]
  /\ job = [l \in AssetLessons |-> NoJob]
  /\ source = [k \in Keys |-> "none"]
  /\ ready = [k \in Keys |-> "none"]
  /\ open = {}
  /\ mediaCall = [r \in MediaCalls |-> NoMediaCall]
  /\ worker = [w \in Workers |-> NoWork]
  /\ mediaFaults = 0

-----------------------------------------------------------------------------
(* Calls of the API.                                                       *)

MediaCallUnchanged == UNCHANGED <<source, ready, worker, mediaFaults>>

\* Call r goes on at a step, with what it has read of the asset.
MediaCallGoes(r, step, l, failure) ==
  mediaCall' = [mediaCall EXCEPT ![r] =
    [step |-> step, lesson |-> l, version |-> asset[l].version,
     key |-> asset[l].key, failure |-> failure]]

GoesOn(r, step, failure) ==
  mediaCall' = [mediaCall EXCEPT ![r] =
    [step |-> step, lesson |-> mediaCall[r].lesson, version |-> mediaCall[r].version,
     key |-> mediaCall[r].key, failure |-> failure]]

MediaCallEnds(r) == mediaCall' = [mediaCall EXCEPT ![r] = NoMediaCall]

\* A call ends without an effect: it lost the comparison of its write, a
\* statement or the object store failed, or the process died.
DropCall(r) ==
  /\ mediaCall[r].step # "idle"
  /\ MediaCallEnds(r)
  /\ UNCHANGED <<rows, open>> /\ MediaCallUnchanged

UploadOpen(l) == asset[l].status = "UPLOADING" /\ <<l, asset[l].key>> \in open

BeginUpload(r, l) ==
  /\ mediaCall[r].step = "idle"
  /\ asset[l].status # "PROCESSING"
  /\ ~UploadOpen(l)
  /\ \/ asset[l].status = "NONE" /\ MediaCallGoes(r, "create", l, "none")
     \/ asset[l].status # "NONE" /\ MediaCallGoes(r, "replace", l, "none")
  /\ UNCHANGED <<rows, open>> /\ MediaCallUnchanged

\* With an asset there already, its creation could only fail.
BeginAddVideo(r, l) ==
  /\ mediaCall[r].step = "idle"
  /\ asset[l].status = "NONE"
  /\ MediaCallGoes(r, "legacy", l, "none")
  /\ UNCHANGED <<rows, open>> /\ MediaCallUnchanged

\* The asset of a new upload session.
Upload(version) ==
  [status |-> "UPLOADING", version |-> version, key |-> version,
   facts |-> NoFacts, failure |-> "none"]

CreateAsset(r) ==
  LET l == mediaCall[r].lesson IN
  /\ mediaCall[r].step = "create"
  /\ asset[l].status = "NONE"
  /\ asset' = [asset EXCEPT ![l] = Upload(0)]
  /\ open' = open \union {<<l, 0>>}
  /\ MediaCallEnds(r)
  /\ UNCHANGED job /\ MediaCallUnchanged

\* A video registered without an upload: nothing will ever process it.
LegacyAsset ==
  [status |-> "PROCESSING", version |-> 0, key |-> 0, facts |-> NoFacts,
   failure |-> "none"]

AddVideo(r) ==
  LET l == mediaCall[r].lesson IN
  /\ mediaCall[r].step = "legacy"
  /\ asset[l].status = "NONE"
  /\ asset' = [asset EXCEPT ![l] = LegacyAsset]
  /\ MediaCallEnds(r)
  /\ UNCHANGED <<job, open>> /\ MediaCallUnchanged

\* Fault: the write is not conditional.
AnyVersion(r) == TRUE

\* The asset has the version that call r read.
Unchanged(r) == asset[mediaCall[r].lesson].version = mediaCall[r].version

\* Fault: the job of the old version is left.
KeepingJob(l) == job

WithoutJob(l) == [job EXCEPT ![l] = NoJob]

ReplaceAsset(r) ==
  LET l == mediaCall[r].lesson
      v == asset[l].version + 1 IN
  /\ mediaCall[r].step = "replace"
  /\ Unchanged(r)
  /\ v \in AssetVersions
  /\ job' = WithoutJob(l)
  /\ asset' = [asset EXCEPT ![l] = Upload(v)]
  /\ open' = open \union {<<l, v>>}
  /\ MediaCallEnds(r)
  /\ MediaCallUnchanged

BeginFinalize(r, l) ==
  /\ mediaCall[r].step = "idle"
  /\ asset[l].status = "UPLOADING"
  /\ \/ UploadOpen(l) /\ MediaCallGoes(r, "head", l, "none")
     \/ ~UploadOpen(l) /\ MediaCallGoes(r, "reject", l, "upload")
  /\ UNCHANGED <<rows, open>> /\ MediaCallUnchanged

\* uploadHeadFailure, of the object a call asks the store for.
HeadFailure(r) ==
  LET file == source[<<mediaCall[r].lesson, mediaCall[r].key>>] IN
  CASE file = "none" -> "upload"
    [] file = "wrong" -> "other"
    [] OTHER -> "none"

CheckUpload(r) ==
  /\ mediaCall[r].step = "head"
  /\ \/ HeadFailure(r) = "none" /\ GoesOn(r, "enqueue", "none")
     \/ HeadFailure(r) # "none" /\ GoesOn(r, "reject", HeadFailure(r))
  /\ UNCHANGED <<rows, open>> /\ MediaCallUnchanged

\* A state written by the teacher's calls increases the version.
Moves(l, status, failure) ==
  /\ asset[l].version + 1 \in AssetVersions
  /\ asset' = [asset EXCEPT ![l] =
       [status |-> status, version |-> asset[l].version + 1, key |-> asset[l].key,
        facts |-> asset[l].facts, failure |-> failure]]

RejectUpload(r) ==
  LET l == mediaCall[r].lesson IN
  /\ mediaCall[r].step = "reject"
  /\ asset[l].status = "UPLOADING" /\ Unchanged(r)
  /\ Moves(l, "FAILED", mediaCall[r].failure)
  /\ MediaCallEnds(r)
  /\ UNCHANGED <<job, open>> /\ MediaCallUnchanged

\* The upsert of the job: created, or back to the state of a new one.
QueuedJob(l) ==
  [job EXCEPT ![l] =
    [status |-> "PENDING", attempts |-> 0, owner |-> Nobody, over |-> FALSE]]

Enqueue(r) ==
  LET l == mediaCall[r].lesson IN
  /\ mediaCall[r].step = "enqueue"
  /\ asset[l].status = "UPLOADING" /\ Unchanged(r)
  /\ Moves(l, "PROCESSING", "none")
  /\ job' = QueuedJob(l)
  /\ MediaCallEnds(r)
  /\ UNCHANGED open /\ MediaCallUnchanged

BeginRetry(r, l) ==
  /\ mediaCall[r].step = "idle"
  /\ asset[l].status = "FAILED"
  /\ asset[l].failure # "upload"
  /\ MediaCallGoes(r, "recheck", l, "none")
  /\ UNCHANGED <<rows, open>> /\ MediaCallUnchanged

Recheck(r) ==
  /\ mediaCall[r].step = "recheck"
  /\ HeadFailure(r) = "none"
  /\ GoesOn(r, "requeue", "none")
  /\ UNCHANGED <<rows, open>> /\ MediaCallUnchanged

Requeue(r) ==
  LET l == mediaCall[r].lesson IN
  /\ mediaCall[r].step = "requeue"
  /\ asset[l].status = "FAILED" /\ Unchanged(r)
  /\ Moves(l, "PROCESSING", "none")
  /\ job' = QueuedJob(l)
  /\ MediaCallEnds(r)
  /\ UNCHANGED open /\ MediaCallUnchanged

-----------------------------------------------------------------------------
(* The browser and the clock.                                              *)

Put(k, file) ==
  /\ k \in open
  /\ source' = [source EXCEPT ![k] = file]
  /\ UNCHANGED <<rows, ready, open, mediaCall, worker, mediaFaults>>

ExpireUpload(k) ==
  /\ k \in open
  /\ open' = open \ {k}
  /\ UNCHANGED <<rows, objects, mediaCall, worker, mediaFaults>>

-----------------------------------------------------------------------------
(* The media worker.                                                       *)

WorkUnchanged == UNCHANGED <<source, open, mediaCall>>

Stops(w) == worker' = [worker EXCEPT ![w] = NoWork]

WorksOn(w, step, file, retryable) ==
  worker' = [worker EXCEPT ![w] =
    [step |-> step, lesson |-> worker[w].lesson, version |-> worker[w].version,
     key |-> worker[w].key, attempts |-> worker[w].attempts, file |-> file,
     retryable |-> retryable]]

GivesUp(w, retryable) == WorksOn(w, "fail", "none", retryable)

\* Fault: the jobs of dead workers are not looked for.
ClaimablePending(l) == job[l].status = "PENDING"

Claimable(l) ==
  \/ job[l].status = "PENDING"
  \/ job[l].status = "PROCESSING" /\ job[l].over

\* One statement, with FOR UPDATE SKIP LOCKED.
Claim(w, l) ==
  /\ worker[w].step = "idle"
  /\ asset[l].status = "PROCESSING"
  /\ Claimable(l)
  /\ job' = [job EXCEPT ![l] =
       [status |-> "PROCESSING", attempts |-> job[l].attempts + 1, owner |-> w,
        over |-> FALSE]]
  /\ worker' = [worker EXCEPT ![w] =
       [step |-> "download", lesson |-> l, version |-> asset[l].version,
        key |-> asset[l].key, attempts |-> job[l].attempts + 1, file |-> "none",
        retryable |-> FALSE]]
  /\ UNCHANGED <<asset, ready, mediaFaults>> /\ WorkUnchanged

\* Download, inspection and transcoding.  A missing file or one of another
\* size is never tried again, a corrupt document neither, a corrupt video is;
\* any file may meet a failing store or tool.
Download(w) ==
  LET file == source[<<worker[w].lesson, worker[w].key>>] IN
  /\ worker[w].step = "download"
  /\ \/ file \in Contents /\ WorksOn(w, "publish", file, FALSE)
     \/ file \notin Contents /\ GivesUp(w, FALSE)
     \/ GivesUp(w, TRUE)
  /\ UNCHANGED <<rows, ready, mediaFaults>> /\ WorkUnchanged

\* The key of the ready object is that of the version: it may be there.
PublishReady(w) ==
  /\ worker[w].step = "publish"
  /\ \/ /\ ready' = [ready EXCEPT ![<<worker[w].lesson, worker[w].version>>] = worker[w].file]
        /\ WorksOn(w, "complete", worker[w].file, FALSE)
     \/ UNCHANGED ready /\ GivesUp(w, TRUE)
  /\ UNCHANGED <<rows, mediaFaults>> /\ WorkUnchanged

\* Fault: the lease of any worker will do.
HoldsAny(w) == job[worker[w].lesson].status = "PROCESSING"

HoldsLease(w) ==
  LET l == worker[w].lesson IN
  job[l].status = "PROCESSING" /\ job[l].owner = w

SameVersion(w) ==
  LET l == worker[w].lesson IN
  asset[l].status = "PROCESSING" /\ asset[l].version = worker[w].version

\* Fault: the rows are updated by their ids alone.
MayCompleteAny(w) == worker[w].step # "idle"

MayComplete(w) == HoldsLease(w) /\ SameVersion(w)

Completed(w) ==
  LET l == worker[w].lesson IN
  /\ asset' = [asset EXCEPT ![l] =
       [status |-> "READY", version |-> asset[l].version, key |-> asset[l].key,
        facts |-> [key |-> worker[w].key, file |-> worker[w].file],
        failure |-> "none"]]
  /\ job' = [job EXCEPT ![l] =
       [status |-> "DELIVERED", attempts |-> job[l].attempts, owner |-> Nobody,
        over |-> FALSE]]

Complete(w) ==
  /\ worker[w].step = "complete"
  /\ MayComplete(w)
  /\ Completed(w)
  /\ Stops(w)
  /\ UNCHANGED <<ready, mediaFaults>> /\ WorkUnchanged

\* MEDIA_JOB_LEASE_LOST: the worker goes on to record a failure.
LeaseLost(w) ==
  /\ worker[w].step = "complete"
  /\ ~MayComplete(w)
  /\ GivesUp(w, TRUE)
  /\ UNCHANGED <<rows, ready, mediaFaults>> /\ WorkUnchanged

\* failureDisposition
Terminal(w) == ~worker[w].retryable \/ worker[w].attempts >= MaxAttempts

Fail(w) ==
  LET l == worker[w].lesson IN
  /\ worker[w].step = "fail"
  /\ MayComplete(w)
  /\ job' = [job EXCEPT ![l] =
       [status |-> IF Terminal(w) THEN "FAILED" ELSE "PENDING",
        attempts |-> job[l].attempts, owner |-> Nobody, over |-> FALSE]]
  /\ asset' = [asset EXCEPT ![l] =
       [status |-> IF Terminal(w) THEN "FAILED" ELSE "PROCESSING",
        version |-> asset[l].version, key |-> asset[l].key,
        facts |-> asset[l].facts, failure |-> "other"]]
  /\ Stops(w)
  /\ UNCHANGED <<ready, mediaFaults>> /\ WorkUnchanged

\* Both updates are rolled back, and the error ends the process.
FailRefused(w) ==
  /\ worker[w].step = "fail"
  /\ ~MayComplete(w)
  /\ Stops(w)
  /\ UNCHANGED <<rows, ready, mediaFaults>> /\ WorkUnchanged

WorkerStep(w) ==
  \/ \E l \in AssetLessons : Claim(w, l)
  \/ Download(w) \/ PublishReady(w) \/ Complete(w) \/ LeaseLost(w)
  \/ Fail(w) \/ FailRefused(w)

MediaFault == mediaFaults < MaxMediaFaults /\ mediaFaults' = mediaFaults + 1

\* The process dies, also because a statement failed; another takes its place.
Crash(w) ==
  /\ worker[w].step # "idle"
  /\ MediaFault
  /\ Stops(w)
  /\ UNCHANGED <<rows, ready>> /\ WorkUnchanged

\* The result is committed but the answer of the database is lost.
CompleteUnheard(w) ==
  /\ worker[w].step = "complete"
  /\ MayComplete(w)
  /\ MediaFault
  /\ Completed(w)
  /\ GivesUp(w, TRUE)
  /\ UNCHANGED ready /\ WorkUnchanged

\* A worker that is still busy with lesson l.
Busy(l) == \E w \in Workers : job[l].owner = w /\ worker[w].lesson = l

LeaseEnds(l) ==
  /\ job[l].status = "PROCESSING" /\ ~job[l].over
  /\ job' = [job EXCEPT ![l] =
       [status |-> "PROCESSING", attempts |-> job[l].attempts,
        owner |-> job[l].owner, over |-> TRUE]]
  /\ UNCHANGED <<asset, ready, worker>> /\ WorkUnchanged

LeaseRunsOut(l) == ~Busy(l) /\ LeaseEnds(l) /\ UNCHANGED mediaFaults

\* Processing takes longer than the lease, which nobody renews.
LeaseOutlived(l) == Busy(l) /\ LeaseEnds(l) /\ MediaFault

MediaCallStep(r) ==
  \/ \E l \in AssetLessons : BeginUpload(r, l) \/ BeginAddVideo(r, l)
                        \/ BeginFinalize(r, l) \/ BeginRetry(r, l)
  \/ CreateAsset(r) \/ AddVideo(r) \/ ReplaceAsset(r)
  \/ CheckUpload(r) \/ RejectUpload(r) \/ Enqueue(r)
  \/ Recheck(r) \/ Requeue(r) \/ DropCall(r)

MediaNext ==
  \/ \E r \in MediaCalls : MediaCallStep(r)
  \/ \E k \in Keys : ExpireUpload(k) \/ \E file \in UploadFiles \ {"none"} : Put(k, file)
  \/ \E w \in Workers : WorkerStep(w) \/ Crash(w) \/ CompleteUnheard(w)
  \/ \E l \in AssetLessons : LeaseRunsOut(l) \/ LeaseOutlived(l)

MediaSpec == MediaInit /\ [][MediaNext]_mediaVars

\* A worker polls as long as it lives and is started again when it died; time
\* passes.  Nothing makes a teacher act.
MediaFairSpec ==
  /\ MediaSpec
  /\ \A w \in Workers : WF_mediaVars(WorkerStep(w))
  /\ \A l \in AssetLessons : WF_mediaVars(LeaseRunsOut(l))

-----------------------------------------------------------------------------
(* Properties.                                                             *)

Agree(row, task) ==
  /\ row.status \in {"NONE", "UPLOADING"} => task = NoJob
  /\ row.status = "PROCESSING" =>
       \/ task.status \in {"PENDING", "PROCESSING"}
       \/ row = LegacyAsset /\ task = NoJob
  /\ row.status = "READY" => task.status = "DELIVERED"
  /\ row.status = "FAILED" => task.status \in {"NONE", "FAILED"}

\* The job of a lesson is where its asset is: claimable or claimed exactly
\* while the asset is PROCESSING, delivered exactly when it is READY.  The two
\* rows are written by the API and by workers, under different conditions
\* (media.service.ts:146-167, 253-262; job-store.ts:75-128).  Videos added
\* without an upload are the exception: they have no job.
RowsAgree == \A l \in AssetLessons : Agree(asset[l], job[l])

\* A worker that still owns the lease of its lesson works for the version and
\* the file that the asset has, and knows how often it was tried: the version
\* cannot move under a lease, so MEDIA_ASSET_VERSION_CHANGED
\* (job-store.ts:126) is never raised, and the limit of attempts is compared
\* with the right number (job-store.ts:105).
HolderIsCurrent ==
  \A w \in Workers :
    LET l == worker[w].lesson IN
    worker[w].step # "idle" /\ HoldsLease(w) =>
      /\ asset[l].status = "PROCESSING"
      /\ asset[l].version = worker[w].version
      /\ asset[l].key = worker[w].key
      /\ job[l].attempts = worker[w].attempts

\* A job is tried again beyond the limit only for a worker that died or was
\* slower than its lease, once for each (job-store.ts:42, 131-137).
AttemptsBounded == \A l \in AssetLessons : job[l].attempts <= MaxAttempts + mediaFaults

\* The facts of a READY asset were taken from the file of its own upload, and
\* that file passed the inspection: not from the file of a session that it
\* replaced, whichever workers and calls were late (job-store.ts:75-102).
ReadyIsInspected ==
  \A l \in AssetLessons :
    asset[l].status = "READY" =>
      asset[l].facts.key = asset[l].key /\ asset[l].facts.file \in Contents

\* The pipeline implements the life cycle of AssetLifecycle: nothing but an
\* upload or a retry leaves FAILED, nothing interrupts PROCESSING, and every
\* write by the teacher gets a version of its own.
Promised == [l \in AssetLessons |-> [status |-> asset[l].status, version |-> asset[l].version]]
AssetCycle == INSTANCE AssetLifecycle WITH Lessons <- AssetLessons, content <- Promised
ImplementsAssetLifecycle == AssetCycle!Spec

\* A job is given up at the limit also when its workers died: a lease that ran
\* out is claimed again until the limit, then the job is FAILED (design.md:82 of
\* the content feature).
AttemptLimit == \A l \in AssetLessons : job[l].attempts <= MaxAttempts

\* Once workers stop dying and outliving their leases, no job stays in progress,
\* however often it was claimed before (job-store.ts:40-43, 131-137).  That they
\* stop is MaxMediaFaults: the limit of attempts does not make them, see
\* AttemptLimit.
InProgress(l) == job[l].status \in {"PENDING", "PROCESSING"}
EveryJobSettles == \A l \in AssetLessons : []<>~InProgress(l)

\* The bytes a student gets are those whose hash and duration were recorded
\* when the asset became READY (design.md:59 of the content feature).
ReadyBytesAreRecorded ==
  \A l \in AssetLessons :
    asset[l].status = "READY" => ready[<<l, asset[l].version>>] = asset[l].facts.file
=============================================================================
