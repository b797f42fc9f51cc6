------------------------ MODULE MediaPipelineProofs ------------------------
(***************************************************************************)
(* Proofs about MediaPipeline, for any number of lessons, calls, workers,  *)
(* versions, attempts and faults.  The argument is that of a lease: while  *)
(* a job is leased its asset is PROCESSING, no call of the API writes an   *)
(* asset that is PROCESSING, and so the version, the key and the number of *)
(* attempts that the holder remembers are those of the rows.               *)
(*                                                                         *)
(* Every step is reduced to one of six effects on the rows and the         *)
(* workers; the invariant and the refinement are proved of the effects.    *)
(***************************************************************************)
EXTENDS MediaPipeline, TLAPS

USE MediaAssumption DEF MediaAssumption

-----------------------------------------------------------------------------
(* The inductive invariant.                                                *)

\* A call that will replace an upload has seen an asset that is not being
\* processed; as long as the version is the same, it still is not.
RequestsKnow ==
  \A r \in MediaCalls :
    mediaCall[r].step # "idle" =>
      /\ mediaCall[r].lesson \in AssetLessons
      /\ mediaCall[r].version <= asset[mediaCall[r].lesson].version
      /\ mediaCall[r].step = "replace" /\ Unchanged(r) =>
           asset[mediaCall[r].lesson].status \notin {"NONE", "PROCESSING"}

\* A busy worker has a lesson, and what it publishes passed the inspection.
WorkersKnow ==
  \A w \in Workers :
    /\ worker[w].step # "idle" => worker[w].lesson \in AssetLessons
    /\ worker[w].step = "idle" => worker[w] = NoWork
    /\ worker[w].step \in {"publish", "complete"} => worker[w].file \in Contents

\* Nothing is known of an asset that was never created.
NewIsBlank == \A l \in AssetLessons : asset[l].status = "NONE" => asset[l] = NoAsset

\* A lease is somebody's.
LeasesOwned ==
  \A l \in AssetLessons : job[l].status = "PROCESSING" => job[l].owner \in Workers

\* The attempts beyond the limit are paid for by faults: a job that waits has
\* one left, and one whose worker was lost or late has a fault in reserve.
AttemptsPaid ==
  \A l \in AssetLessons :
    /\ job[l].status = "PENDING" => job[l].attempts < MaxAttempts
    /\ job[l].status = "PROCESSING" /\ (job[l].over \/ ~Busy(l)) =>
         job[l].attempts < MaxAttempts + mediaFaults
    /\ job[l].attempts <= MaxAttempts + mediaFaults

MediaInv ==
  /\ MediaTypeOK
  /\ RowsAgree
  /\ HolderIsCurrent
  /\ ReadyIsInspected
  /\ AttemptsPaid
  /\ RequestsKnow
  /\ WorkersKnow
  /\ NewIsBlank
  /\ LeasesOwned

-----------------------------------------------------------------------------
(* The effects.                                                            *)

\* The states and versions between which a call of the API takes an asset.
ApiTakes(old, row) ==
  \/ /\ old.status = "NONE" /\ row.status \in {"UPLOADING", "PROCESSING"}
     /\ row.version = 0
  \/ /\ \/ /\ old.status \in {"UPLOADING", "READY", "FAILED"}
           /\ row.status = "UPLOADING"
        \/ old.status = "UPLOADING" /\ row.status = "FAILED"
        \/ old.status \in {"UPLOADING", "FAILED"} /\ row.status = "PROCESSING"
     /\ row.version = old.version + 1

\* A call writes the rows of a lesson that is not being processed.
ApiWrites(l, row, task) ==
  /\ ApiTakes(asset[l], row)
  /\ row \in AssetRow /\ task \in JobRow
  /\ Agree(row, task)
  /\ task.status # "PROCESSING" /\ task.attempts <= job[l].attempts
  /\ task.status = "PENDING" => task.attempts = 0
  /\ asset' = [asset EXCEPT ![l] = row]
  /\ job' = [job EXCEPT ![l] = task]
  /\ UNCHANGED <<worker, mediaFaults>>

\* A worker goes on, or stops when it holds no lease or at the cost of a fault.
WorkerMoves(w, row) ==
  /\ worker[w].step # "idle"
  /\ row \in WorkerRow
  /\ \/ /\ row.step # "idle"
        /\ row.lesson = worker[w].lesson /\ row.version = worker[w].version
        /\ row.key = worker[w].key /\ row.attempts = worker[w].attempts
        /\ row.step \in {"publish", "complete"} => row.file \in Contents
        /\ mediaFaults' = mediaFaults
     \/ row = NoWork /\ mediaFaults' = mediaFaults /\ ~HoldsLease(w)
     \/ row = NoWork /\ mediaFaults' = mediaFaults + 1 /\ mediaFaults < MaxMediaFaults
  /\ worker' = [worker EXCEPT ![w] = row]
  /\ UNCHANGED rows

\* The holder of a lease ends the job: it is delivered, failed or waits.
Settles(w, row, task, work) ==
  LET l == worker[w].lesson IN
  /\ worker[w].step # "idle"
  /\ MayComplete(w)
  /\ row \in AssetRow /\ task \in JobRow /\ work \in WorkerRow
  /\ Agree(row, task)
  /\ row.version = asset[l].version /\ row.key = asset[l].key
  /\ row.status \in {"PROCESSING", "READY", "FAILED"}
  /\ row.status = "READY" => row.facts.key = row.key /\ row.facts.file \in Contents
  /\ task.status # "PROCESSING" /\ task.attempts = job[l].attempts
  /\ task.status = "PENDING" => task.attempts < MaxAttempts
  /\ \/ work = NoWork /\ mediaFaults' = mediaFaults
     \/ /\ work.step = "fail" /\ work.lesson = l
        /\ mediaFaults' = mediaFaults + 1 /\ mediaFaults < MaxMediaFaults
  /\ asset' = [asset EXCEPT ![l] = row]
  /\ job' = [job EXCEPT ![l] = task]
  /\ worker' = [worker EXCEPT ![w] = work]

\* A lease ends without its holder, or under it, which is a fault.
Expires(l) ==
  /\ job[l].status = "PROCESSING"
  /\ \/ ~job[l].over /\ ~Busy(l) /\ mediaFaults' = mediaFaults
     \/ mediaFaults' = mediaFaults + 1 /\ mediaFaults < MaxMediaFaults
  /\ job' = [job EXCEPT ![l] =
       [status |-> "PROCESSING", attempts |-> job[l].attempts,
        owner |-> job[l].owner, over |-> TRUE]]
  /\ UNCHANGED <<asset, worker>>

\* Nothing of this changes.
Elsewhere == UNCHANGED <<rows, worker, mediaFaults>>

Effect ==
  \/ \E l \in AssetLessons, row \in AssetRow, task \in JobRow : ApiWrites(l, row, task)
  \/ \E w \in Workers, row \in WorkerRow : WorkerMoves(w, row)
  \/ \E w \in Workers, l \in AssetLessons : Claim(w, l)
  \/ \E w \in Workers, row \in AssetRow, task \in JobRow, work \in WorkerRow :
       Settles(w, row, task, work)
  \/ \E l \in AssetLessons : Expires(l)
  \/ Elsewhere

\* A call begins or goes on, with what it knows, or ends.
CallMoves(r, row) ==
  /\ row \in MediaCallRow
  /\ row.step # "idle" =>
       /\ asset' = asset
       /\ row.lesson \in AssetLessons
       /\ row.version <= asset[row.lesson].version
       /\ row.step = "replace" => asset[row.lesson].status \notin {"NONE", "PROCESSING"}
  /\ mediaCall' = [mediaCall EXCEPT ![r] = row]

CallEffect ==
  \/ UNCHANGED mediaCall
  \/ \E r \in MediaCalls, row \in MediaCallRow : CallMoves(r, row)

ObjectsTyped ==
  /\ source \in [Keys -> UploadFiles]
  /\ ready \in [Keys -> UploadFiles]
  /\ open \subseteq Keys

StepEffect == Effect /\ CallEffect /\ ObjectsTyped'

-----------------------------------------------------------------------------
(* Every step has an effect.                                               *)

LEMMA InitialInv == ASSUME MediaInit PROVE MediaInv
<1>1. /\ NoAsset \in AssetRow /\ NoJob \in JobRow
      /\ NoMediaCall \in MediaCallRow /\ NoWork \in WorkerRow
  BY DEF NoAsset, NoJob, NoMediaCall, NoWork, NoFacts, AssetRow, JobRow, MediaCallRow,
     WorkerRow, Facts, UploadFiles, Failures, AssetVersions, Attempts
<1>2. MediaTypeOK
  BY <1>1 DEF MediaInit, MediaTypeOK, UploadFiles
<1>3. /\ \A l \in AssetLessons : asset[l] = NoAsset /\ job[l] = NoJob
      /\ \A l \in AssetLessons : asset[l].status = "NONE"
      /\ \A l \in AssetLessons : job[l].status = "NONE" /\ job[l].attempts = 0
      /\ \A r \in MediaCalls : mediaCall[r].step = "idle"
      /\ \A w \in Workers : worker[w] = NoWork /\ worker[w].step = "idle"
      /\ mediaFaults = 0
  BY DEF MediaInit, NoAsset, NoJob, NoMediaCall, NoWork
<1>4. RowsAgree /\ HolderIsCurrent /\ ReadyIsInspected
  BY <1>3 DEF RowsAgree, Agree, HolderIsCurrent, ReadyIsInspected
<1>5. AttemptsPaid
  <2>1. MaxAttempts \in Nat /\ 0 < MaxAttempts
    OBVIOUS
  <2>2. SUFFICES ASSUME NEW l \in AssetLessons
                 PROVE  /\ job[l].status \notin {"PENDING", "PROCESSING"}
                        /\ job[l].attempts <= MaxAttempts + mediaFaults
    BY DEF AttemptsPaid
  <2>3. job[l].attempts = 0 /\ mediaFaults = 0
    BY <1>3
  <2>4. job[l].attempts <= MaxAttempts + mediaFaults
    BY <2>1, <2>3
  <2> QED BY <1>3, <2>4
<1>6. RequestsKnow /\ WorkersKnow /\ NewIsBlank /\ LeasesOwned
  BY <1>3 DEF RequestsKnow, WorkersKnow, NewIsBlank, LeasesOwned
<1> QED BY <1>2, <1>4, <1>5, <1>6 DEF MediaInv

\* Beginning a call only fills its own record.
LEMMA CallsBegin ==
  ASSUME MediaInv, NEW r \in MediaCalls, NEW l \in AssetLessons,
         BeginUpload(r, l) \/ BeginAddVideo(r, l) \/ BeginFinalize(r, l) \/ BeginRetry(r, l)
  PROVE  StepEffect
<1> DEFINE Row(step, failure) ==
      [step |-> step, lesson |-> l, version |-> asset[l].version,
       key |-> asset[l].key, failure |-> failure]
<1>1. PICK step \in {"create", "legacy", "replace", "head", "reject", "recheck"},
           failure \in Failures :
        /\ mediaCall' = [mediaCall EXCEPT ![r] = Row(step, failure)]
        /\ step = "replace" => asset[l].status \notin {"NONE", "PROCESSING"}
  BY DEF BeginUpload, BeginAddVideo, BeginFinalize, BeginRetry, MediaCallGoes, Failures
<1>2. /\ UNCHANGED <<asset, job, open, source, ready, worker, mediaFaults>>
      /\ asset[l] \in AssetRow
      /\ ObjectsTyped
  BY DEF BeginUpload, BeginAddVideo, BeginFinalize, BeginRetry, MediaCallUnchanged, rows,
     MediaInv, MediaTypeOK, ObjectsTyped
<1>3. Row(step, failure) \in MediaCallRow
  BY <1>2 DEF AssetRow, MediaCallRow
<1>4. CallMoves(r, Row(step, failure))
  BY <1>1, <1>2, <1>3 DEF CallMoves, AssetRow, AssetVersions
<1>5. ObjectsTyped'
  BY <1>2 DEF ObjectsTyped
<1>6. CallEffect
  BY <1>3, <1>4 DEF CallEffect
<1> QED BY <1>2, <1>5, <1>6 DEF StepEffect, Effect, Elsewhere, rows

\* A call that has asked the object store goes on, and one that fails ends.
LEMMA CallsGoOn ==
  ASSUME MediaInv, NEW r \in MediaCalls, CheckUpload(r) \/ Recheck(r) \/ DropCall(r)
  PROVE  StepEffect
<1> DEFINE Row(step, failure) ==
      [step |-> step, lesson |-> mediaCall[r].lesson, version |-> mediaCall[r].version,
       key |-> mediaCall[r].key, failure |-> failure]
<1>1. /\ UNCHANGED <<asset, job, open, source, ready, worker, mediaFaults>>
      /\ mediaCall[r] \in MediaCallRow
      /\ mediaCall[r].step # "idle"
      /\ ObjectsTyped
      /\ mediaCall[r].lesson \in AssetLessons
      /\ mediaCall[r].version <= asset[mediaCall[r].lesson].version
  BY DEF CheckUpload, Recheck, DropCall, MediaCallUnchanged, rows, MediaInv, MediaTypeOK, ObjectsTyped,
     RequestsKnow
<1>2. \/ mediaCall' = [mediaCall EXCEPT ![r] = NoMediaCall]
      \/ \E step \in {"enqueue", "reject", "requeue"}, failure \in Failures :
           mediaCall' = [mediaCall EXCEPT ![r] = Row(step, failure)]
  BY DEF CheckUpload, Recheck, DropCall, GoesOn, MediaCallEnds, HeadFailure, Failures
<1>3. NoMediaCall \in MediaCallRow
  BY DEF NoMediaCall, MediaCallRow, AssetVersions, Failures
<1>4. ASSUME NEW step \in {"enqueue", "reject", "requeue"}, NEW failure \in Failures,
             mediaCall' = [mediaCall EXCEPT ![r] = Row(step, failure)]
      PROVE  Row(step, failure) \in MediaCallRow /\ CallMoves(r, Row(step, failure))
  BY <1>1, <1>4 DEF CallMoves, MediaCallRow
<1>5. ASSUME mediaCall' = [mediaCall EXCEPT ![r] = NoMediaCall]
      PROVE  CallMoves(r, NoMediaCall)
  BY <1>3, <1>5 DEF CallMoves, NoMediaCall
<1>6. CallEffect
  <2> HIDE DEF Row
  <2> QED BY <1>2, <1>3, <1>4, <1>5 DEF CallEffect
<1>7. ObjectsTyped'
  BY <1>1 DEF ObjectsTyped
<1> QED BY <1>1, <1>6, <1>7 DEF StepEffect, Effect, Elsewhere, rows

\* The rows of the lesson of a call.
LEMMA CallRows ==
  ASSUME MediaInv, NEW r \in MediaCalls, mediaCall[r].step # "idle"
  PROVE  /\ mediaCall[r] \in MediaCallRow
         /\ mediaCall[r].lesson \in AssetLessons
         /\ asset[mediaCall[r].lesson] \in AssetRow
         /\ job[mediaCall[r].lesson] \in JobRow
         /\ Agree(asset[mediaCall[r].lesson], job[mediaCall[r].lesson])
         /\ ObjectsTyped
  BY DEF MediaInv, MediaTypeOK, RowsAgree, RequestsKnow, ObjectsTyped

\* What is left to show of a call that writes: the rows that it writes.
LEMMA CallWrites ==
  ASSUME MediaInv, NEW r \in MediaCalls, mediaCall[r].step # "idle",
         NEW l \in AssetLessons, NEW row \in AssetRow, NEW task \in JobRow,
         ApiWrites(l, row, task), MediaCallEnds(r), MediaCallUnchanged,
         open' \subseteq Keys
  PROVE  StepEffect
<1>1. NoMediaCall \in MediaCallRow
  BY DEF NoMediaCall, MediaCallRow, AssetVersions, Failures
<1>2. CallEffect
  BY <1>1 DEF CallEffect, CallMoves, MediaCallEnds, NoMediaCall
<1>3. ObjectsTyped'
  BY DEF ObjectsTyped, MediaInv, MediaTypeOK, MediaCallUnchanged
<1> QED BY <1>2, <1>3 DEF StepEffect, Effect

\* The rows a call may write.
LEMMA NewRows ==
  /\ \A v \in AssetVersions : Upload(v) \in AssetRow
  /\ LegacyAsset \in AssetRow /\ NoJob \in JobRow
  /\ [status |-> "PENDING", attempts |-> 0, owner |-> Nobody, over |-> FALSE] \in JobRow
  BY DEF Upload, LegacyAsset, NoJob, NoFacts, AssetRow, JobRow, Facts, UploadFiles, Failures,
     AssetVersions, Attempts

LEMMA CreateAssetEffect ==
  ASSUME MediaInv, NEW r \in MediaCalls, CreateAsset(r) PROVE StepEffect
<1> DEFINE l == mediaCall[r].lesson
<1>1. /\ l \in AssetLessons /\ asset[l].status = "NONE" /\ job[l] = NoJob
      /\ job \in [AssetLessons -> JobRow] /\ open \subseteq Keys /\ mediaCall[r].step # "idle"
      /\ 0 \in AssetVersions
  BY CallRows DEF CreateAsset, MediaInv, MediaTypeOK, Agree, ObjectsTyped, AssetVersions
<1>2. ApiWrites(l, Upload(0), NoJob)
  BY <1>1, NewRows DEF CreateAsset, MediaCallUnchanged, ApiWrites, ApiTakes, Upload, Agree, NoJob
<1>3. open' \subseteq Keys
  BY <1>1 DEF CreateAsset, Keys
<1> QED BY <1>1, <1>2, <1>3, NewRows, CallWrites DEF CreateAsset

LEMMA AddVideoEffect ==
  ASSUME MediaInv, NEW r \in MediaCalls, AddVideo(r) PROVE StepEffect
<1> DEFINE l == mediaCall[r].lesson
<1>1. /\ l \in AssetLessons /\ asset[l].status = "NONE" /\ job[l] = NoJob
      /\ job \in [AssetLessons -> JobRow] /\ open \subseteq Keys /\ mediaCall[r].step # "idle"
  BY CallRows DEF AddVideo, MediaInv, MediaTypeOK, Agree, ObjectsTyped
<1>2. ApiWrites(l, LegacyAsset, NoJob)
  BY <1>1, NewRows DEF AddVideo, MediaCallUnchanged, ApiWrites, ApiTakes, LegacyAsset, Agree, NoJob
<1> QED BY <1>1, <1>2, NewRows, CallWrites DEF AddVideo

LEMMA ReplaceAssetEffect ==
  ASSUME MediaInv, NEW r \in MediaCalls, ReplaceAsset(r) PROVE StepEffect
<1> DEFINE l == mediaCall[r].lesson
           v == asset[l].version + 1
<1>1. /\ l \in AssetLessons /\ asset[l] \in AssetRow /\ job[l] \in JobRow
      /\ open \subseteq Keys /\ mediaCall[r].step = "replace" /\ v \in AssetVersions
      /\ asset[l].status \notin {"NONE", "PROCESSING"}
  BY CallRows DEF ReplaceAsset, MediaInv, RequestsKnow, ObjectsTyped
<1>2. ApiTakes(asset[l], Upload(v))
  BY <1>1 DEF ApiTakes, AssetRow, Upload
<1>3. ApiWrites(l, Upload(v), NoJob)
  BY <1>1, <1>2, NewRows
  DEF ReplaceAsset, MediaCallUnchanged, ApiWrites, Upload, Agree, NoJob, WithoutJob, JobRow, Attempts
<1>4. open' \subseteq Keys
  BY <1>1 DEF ReplaceAsset, Keys
<1> QED BY <1>1, <1>3, <1>4, NewRows, CallWrites DEF ReplaceAsset

\* A state written by a call is that of a row.
LEMMA MovedRow ==
  ASSUME NEW l \in AssetLessons, asset[l] \in AssetRow,
         NEW status \in {"FAILED", "PROCESSING"}, NEW failure \in Failures,
         Moves(l, status, failure)
  PROVE  \E row \in AssetRow :
           /\ row.status = status /\ row.version = asset[l].version + 1
           /\ asset' = [asset EXCEPT ![l] = row]
<1> DEFINE row == [status |-> status, version |-> asset[l].version + 1,
                   key |-> asset[l].key, facts |-> asset[l].facts, failure |-> failure]
<1>1. row \in AssetRow
  BY DEF Moves, AssetRow
<1> QED BY <1>1 DEF Moves

LEMMA RejectUploadEffect ==
  ASSUME MediaInv, NEW r \in MediaCalls, RejectUpload(r) PROVE StepEffect
<1> DEFINE l == mediaCall[r].lesson
<1>1. /\ l \in AssetLessons /\ asset[l] \in AssetRow /\ job[l] = NoJob
      /\ asset[l].status = "UPLOADING" /\ job \in [AssetLessons -> JobRow]
      /\ open \subseteq Keys /\ mediaCall[r].step # "idle"
      /\ mediaCall[r].failure \in Failures
  BY CallRows DEF RejectUpload, MediaInv, MediaTypeOK, Agree, ObjectsTyped, MediaCallRow
<1>2. PICK row \in AssetRow :
        /\ row.status = "FAILED" /\ row.version = asset[l].version + 1
        /\ asset' = [asset EXCEPT ![l] = row]
  BY <1>1, MovedRow DEF RejectUpload
<1>3. ApiWrites(l, row, NoJob)
  BY <1>1, <1>2, NewRows DEF RejectUpload, MediaCallUnchanged, ApiWrites, ApiTakes, Agree, NoJob
<1> QED BY <1>1, <1>2, <1>3, NewRows, CallWrites DEF RejectUpload

LEMMA EnqueueEffect ==
  ASSUME MediaInv, NEW r \in MediaCalls, Enqueue(r) \/ Requeue(r) PROVE StepEffect
<1> DEFINE l == mediaCall[r].lesson
           task == [status |-> "PENDING", attempts |-> 0, owner |-> Nobody, over |-> FALSE]
<1>1. /\ l \in AssetLessons /\ asset[l] \in AssetRow /\ job[l] \in JobRow
      /\ asset[l].status \in {"UPLOADING", "FAILED"}
      /\ open \subseteq Keys /\ mediaCall[r].step # "idle"
  BY CallRows DEF Enqueue, Requeue, ObjectsTyped
<1>2. PICK row \in AssetRow :
        /\ row.status = "PROCESSING" /\ row.version = asset[l].version + 1
        /\ asset' = [asset EXCEPT ![l] = row]
  BY <1>1, MovedRow DEF Enqueue, Requeue, Failures
<1>3. ApiWrites(l, row, task)
  BY <1>1, <1>2, NewRows
  DEF Enqueue, Requeue, MediaCallUnchanged, ApiWrites, ApiTakes, Agree, QueuedJob, JobRow, Attempts
<1> QED BY <1>1, <1>2, <1>3, NewRows, CallWrites DEF Enqueue, Requeue

LEMMA CallEffects ==
  ASSUME MediaInv, NEW r \in MediaCalls, MediaCallStep(r) PROVE StepEffect
BY CallsBegin, CallsGoOn, CreateAssetEffect, AddVideoEffect, ReplaceAssetEffect,
   RejectUploadEffect, EnqueueEffect DEF MediaCallStep

\* Uploads and their ends touch the object store alone.
LEMMA UploadEffects ==
  ASSUME MediaInv, NEW k \in Keys, ExpireUpload(k) \/ \E file \in UploadFiles : Put(k, file)
  PROVE  StepEffect
<1>1. ObjectsTyped'
  BY DEF MediaInv, MediaTypeOK, ObjectsTyped, ExpireUpload, Put, objects
<1> QED BY <1>1
  DEF StepEffect, Effect, CallEffect, Elsewhere, ExpireUpload, Put, rows, objects

\* What is known of a busy worker.
LEMMA WorkRows ==
  ASSUME MediaInv, NEW w \in Workers, worker[w].step # "idle"
  PROVE  /\ worker[w] \in WorkerRow
         /\ worker[w].lesson \in AssetLessons
         /\ asset[worker[w].lesson] \in AssetRow
         /\ job[worker[w].lesson] \in JobRow
         /\ job[worker[w].lesson].attempts <= MaxAttempts + mediaFaults
         /\ HoldsLease(w) => MayComplete(w)
         /\ HoldsLease(w) => asset[worker[w].lesson].key = worker[w].key
         /\ HoldsLease(w) => job[worker[w].lesson].attempts = worker[w].attempts
         /\ <<worker[w].lesson, worker[w].version>> \in Keys
         /\ mediaFaults \in 0..MaxMediaFaults
         /\ ObjectsTyped
<1>1. /\ worker[w] \in WorkerRow /\ worker[w].lesson \in AssetLessons
      /\ ObjectsTyped /\ mediaFaults \in 0..MaxMediaFaults
  BY DEF MediaInv, MediaTypeOK, WorkersKnow, ObjectsTyped
<1>2. /\ asset[worker[w].lesson] \in AssetRow
      /\ job[worker[w].lesson] \in JobRow
      /\ job[worker[w].lesson].attempts <= MaxAttempts + mediaFaults
  BY <1>1 DEF MediaInv, MediaTypeOK, AttemptsPaid
<1>3. HoldsLease(w) =>
        /\ MayComplete(w)
        /\ asset[worker[w].lesson].key = worker[w].key
        /\ job[worker[w].lesson].attempts = worker[w].attempts
  BY DEF MediaInv, HolderIsCurrent, MayComplete, SameVersion
<1>4. <<worker[w].lesson, worker[w].version>> \in Keys
  BY <1>1 DEF Keys, WorkerRow
<1> QED BY <1>1, <1>2, <1>3, <1>4

\* A worker that is idle has no work, which is well typed.
LEMMA IdleRow == NoWork \in WorkerRow /\ NoWork.step = "idle"
  BY DEF NoWork, WorkerRow, UploadFiles, AssetVersions, Attempts

\* A worker that goes on with its work, or gives up.
LEMMA WorkGoesOn ==
  ASSUME MediaInv, NEW w \in Workers, worker[w].step # "idle",
         NEW step \in {"publish", "complete", "fail"}, NEW file \in UploadFiles,
         NEW retryable \in BOOLEAN, WorksOn(w, step, file, retryable),
         step # "fail" => file \in Contents
  PROVE  \E row \in WorkerRow :
           /\ worker' = [worker EXCEPT ![w] = row]
           /\ row.step = step /\ row.lesson = worker[w].lesson
           /\ UNCHANGED <<rows, mediaFaults>> => WorkerMoves(w, row)
<1> DEFINE row == [step |-> step, lesson |-> worker[w].lesson,
                   version |-> worker[w].version, key |-> worker[w].key,
                   attempts |-> worker[w].attempts, file |-> file,
                   retryable |-> retryable]
<1>1. row \in WorkerRow
  BY WorkRows DEF WorkerRow
<1>2. worker' = [worker EXCEPT ![w] = row]
  BY DEF WorksOn
<1>3. UNCHANGED <<rows, mediaFaults>> => WorkerMoves(w, row)
  BY <1>1, <1>2 DEF WorkerMoves
<1> QED BY <1>1, <1>2, <1>3

LEMMA DownloadEffect ==
  ASSUME MediaInv, NEW w \in Workers, Download(w) \/ PublishReady(w) \/ LeaseLost(w)
  PROVE  StepEffect
<1>1. /\ worker[w].step # "idle" /\ ObjectsTyped
      /\ <<worker[w].lesson, worker[w].version>> \in Keys
      /\ worker[w].step = "publish" => worker[w].file \in Contents
      /\ UNCHANGED <<rows, mediaFaults, source, open, mediaCall>>
  BY WorkRows DEF Download, PublishReady, LeaseLost, WorkUnchanged, MediaInv, WorkersKnow
<1>2. \E step \in {"publish", "complete", "fail"}, file \in UploadFiles, retryable \in BOOLEAN :
        /\ WorksOn(w, step, file, retryable)
        /\ step # "fail" => file \in Contents
  BY <1>1 DEF Download, PublishReady, LeaseLost, GivesUp, UploadFiles
<1>3. \E row \in WorkerRow : WorkerMoves(w, row)
  BY <1>1, <1>2, WorkGoesOn
<1>4. ObjectsTyped'
  BY <1>1 DEF Download, PublishReady, LeaseLost, ObjectsTyped, UploadFiles
<1> QED BY <1>1, <1>3, <1>4 DEF StepEffect, Effect, CallEffect

\* The update of the rows is refused, or the process died.
LEMMA StopEffect ==
  ASSUME MediaInv, NEW w \in Workers, FailRefused(w) \/ Crash(w) PROVE StepEffect
<1>1. /\ worker[w].step # "idle" /\ ObjectsTyped
      /\ HoldsLease(w) => MayComplete(w)
      /\ UNCHANGED <<rows, ready, source, open, mediaCall>>
  BY WorkRows DEF FailRefused, Crash, WorkUnchanged
<1>2. WorkerMoves(w, NoWork)
  BY <1>1, IdleRow DEF FailRefused, Crash, Stops, MediaFault, WorkerMoves
<1>3. ObjectsTyped'
  BY <1>1 DEF ObjectsTyped
<1> QED BY <1>1, <1>2, <1>3, IdleRow DEF StepEffect, Effect, CallEffect

\* The rows that end a job with success.
LEMMA CompletedEffect ==
  ASSUME MediaInv, NEW w \in Workers, worker[w].step = "complete", MayComplete(w),
         Completed(w), NEW work \in WorkerRow, worker' = [worker EXCEPT ![w] = work],
         \/ work = NoWork /\ mediaFaults' = mediaFaults
         \/ /\ work.step = "fail" /\ work.lesson = worker[w].lesson
            /\ mediaFaults' = mediaFaults + 1 /\ mediaFaults < MaxMediaFaults
  PROVE  \E row \in AssetRow, task \in JobRow : Settles(w, row, task, work)
<1> DEFINE l == worker[w].lesson
           row == [status |-> "READY", version |-> asset[l].version,
                   key |-> asset[l].key,
                   facts |-> [key |-> worker[w].key, file |-> worker[w].file],
                   failure |-> "none"]
           task == [status |-> "DELIVERED", attempts |-> job[l].attempts,
                    owner |-> Nobody, over |-> FALSE]
<1>1. /\ worker[w] \in WorkerRow /\ asset[l] \in AssetRow /\ job[l] \in JobRow
      /\ asset[l].key = worker[w].key /\ worker[w].file \in Contents
  BY WorkRows DEF MayComplete, MediaInv, WorkersKnow
<1>2. row \in AssetRow /\ task \in JobRow
  BY <1>1 DEF AssetRow, JobRow, WorkerRow, Facts, Failures
<1>3. /\ Agree(row, task)
      /\ row.version = asset[l].version /\ row.key = asset[l].key
      /\ row.status = "READY" /\ row.facts.key = row.key /\ row.facts.file \in Contents
      /\ task.status = "DELIVERED" /\ task.attempts = job[l].attempts
  BY <1>1 DEF Agree
<1>4. asset' = [asset EXCEPT ![l] = row] /\ job' = [job EXCEPT ![l] = task]
  BY DEF Completed
<1> HIDE DEF row, task
<1>5. Settles(w, row, task, work)
  BY <1>2, <1>3, <1>4 DEF Settles
<1> QED BY <1>2, <1>5

LEMMA CompleteEffect ==
  ASSUME MediaInv, NEW w \in Workers, Complete(w) PROVE StepEffect
<1>1. \E row \in AssetRow, task \in JobRow : Settles(w, row, task, NoWork)
  BY IdleRow, CompletedEffect DEF Complete, Stops
<1>2. ObjectsTyped' /\ UNCHANGED mediaCall
  BY DEF Complete, WorkUnchanged, ObjectsTyped, MediaInv, MediaTypeOK
<1> QED BY <1>1, <1>2, IdleRow DEF StepEffect, Effect, CallEffect

LEMMA CompleteUnheardEffect ==
  ASSUME MediaInv, NEW w \in Workers, CompleteUnheard(w) PROVE StepEffect
<1>1. PICK work \in WorkerRow :
        /\ worker' = [worker EXCEPT ![w] = work]
        /\ work.step = "fail" /\ work.lesson = worker[w].lesson
  BY WorkGoesOn DEF CompleteUnheard, GivesUp, UploadFiles
<1>2. \E row \in AssetRow, task \in JobRow : Settles(w, row, task, work)
  BY <1>1, CompletedEffect DEF CompleteUnheard, MediaFault
<1>3. ObjectsTyped' /\ UNCHANGED mediaCall
  BY DEF CompleteUnheard, WorkUnchanged, ObjectsTyped, MediaInv, MediaTypeOK
<1> QED BY <1>2, <1>3 DEF StepEffect, Effect, CallEffect

LEMMA FailEffect ==
  ASSUME MediaInv, NEW w \in Workers, Fail(w) PROVE StepEffect
<1> DEFINE l == worker[w].lesson
           row == [status |-> IF Terminal(w) THEN "FAILED" ELSE "PROCESSING",
                   version |-> asset[l].version, key |-> asset[l].key,
                   facts |-> asset[l].facts, failure |-> "other"]
           task == [status |-> IF Terminal(w) THEN "FAILED" ELSE "PENDING",
                    attempts |-> job[l].attempts, owner |-> Nobody, over |-> FALSE]
<1>1. /\ worker[w] \in WorkerRow /\ asset[l] \in AssetRow /\ job[l] \in JobRow
      /\ MayComplete(w) /\ job[l].attempts = worker[w].attempts
      /\ worker[w].step # "idle"
  BY WorkRows DEF Fail, MayComplete
<1>2. ~Terminal(w) => job[l].attempts < MaxAttempts
  BY <1>1 DEF Terminal, WorkerRow, Attempts
<1>3. row \in AssetRow /\ task \in JobRow
  BY <1>1 DEF AssetRow, JobRow, Failures
<1>4. /\ Agree(row, task)
      /\ row.version = asset[l].version /\ row.key = asset[l].key
      /\ row.status \in {"PROCESSING", "FAILED"}
      /\ task.status \in {"PENDING", "FAILED"} /\ task.attempts = job[l].attempts
      /\ task.status = "PENDING" => ~Terminal(w)
  BY DEF Agree
<1>5. /\ asset' = [asset EXCEPT ![l] = row] /\ job' = [job EXCEPT ![l] = task]
      /\ worker' = [worker EXCEPT ![w] = NoWork] /\ mediaFaults' = mediaFaults
  BY DEF Fail, Stops
<1>6. ObjectsTyped' /\ UNCHANGED mediaCall
  BY DEF Fail, WorkUnchanged, ObjectsTyped, MediaInv, MediaTypeOK
<1> HIDE DEF row, task
<1>7. Settles(w, row, task, NoWork)
  BY <1>1, <1>2, <1>3, <1>4, <1>5, IdleRow DEF Settles
<1> QED BY <1>3, <1>6, <1>7, IdleRow DEF StepEffect, Effect, CallEffect

LEMMA LeaseEffects ==
  ASSUME MediaInv, NEW l \in AssetLessons, LeaseRunsOut(l) \/ LeaseOutlived(l)
  PROVE  StepEffect
<1>1. ObjectsTyped' /\ UNCHANGED mediaCall
  BY DEF LeaseRunsOut, LeaseOutlived, LeaseEnds, WorkUnchanged, ObjectsTyped, MediaInv, MediaTypeOK
<1>2. Expires(l)
  BY DEF LeaseRunsOut, LeaseOutlived, LeaseEnds, MediaFault, Expires
<1> QED BY <1>1, <1>2 DEF StepEffect, Effect, CallEffect

LEMMA ClaimEffect ==
  ASSUME MediaInv, NEW w \in Workers, NEW l \in AssetLessons, Claim(w, l) PROVE StepEffect
<1>1. ObjectsTyped' /\ UNCHANGED mediaCall
  BY DEF Claim, WorkUnchanged, ObjectsTyped, MediaInv, MediaTypeOK
<1> QED BY <1>1 DEF StepEffect, Effect, CallEffect

\* Every step is one of the effects.
LEMMA EveryStepHasEffect ==
  ASSUME MediaInv, [MediaNext]_mediaVars PROVE StepEffect
<1>1. ASSUME UNCHANGED mediaVars PROVE StepEffect
  <2>1. ObjectsTyped'
    BY <1>1 DEF mediaVars, objects, ObjectsTyped, MediaInv, MediaTypeOK
  <2> QED BY <1>1, <2>1 DEF mediaVars, rows, StepEffect, Effect, Elsewhere, CallEffect
<1>2. ASSUME NEW w \in Workers, WorkerStep(w) \/ Crash(w) \/ CompleteUnheard(w)
      PROVE  StepEffect
  BY <1>2, ClaimEffect, DownloadEffect, StopEffect, CompleteEffect, CompleteUnheardEffect,
     FailEffect DEF WorkerStep
<1> QED BY <1>1, <1>2, CallEffects, UploadEffects, LeaseEffects DEF MediaNext

-----------------------------------------------------------------------------
(* The effects keep the invariant.                                         *)

\* The part of the invariant about rows and workers.
RowsTyped ==
  /\ asset \in [AssetLessons -> AssetRow]
  /\ job \in [AssetLessons -> JobRow]
  /\ worker \in [Workers -> WorkerRow]
  /\ mediaFaults \in 0..MaxMediaFaults

RowsInv ==
  /\ RowsTyped
  /\ RowsAgree
  /\ HolderIsCurrent
  /\ ReadyIsInspected
  /\ AttemptsPaid
  /\ WorkersKnow
  /\ NewIsBlank
  /\ LeasesOwned

\* Versions only grow, and a state of rest is left with its version.
Forward ==
  \A l \in AssetLessons :
    /\ asset[l].version <= asset'[l].version
    /\ asset'[l].version = asset[l].version
         /\ asset[l].status \notin {"NONE", "PROCESSING"} =>
         asset'[l].status \notin {"NONE", "PROCESSING"}

\* The rows of a lesson, in the words that the proofs use.
LEMMA RowFacts ==
  ASSUME RowsInv, NEW l \in AssetLessons
  PROVE  /\ asset[l] \in AssetRow /\ job[l] \in JobRow
         /\ asset[l].version \in Nat /\ job[l].attempts \in Nat
         /\ mediaFaults \in Nat
         /\ job[l].attempts <= MaxAttempts + mediaFaults
         /\ Agree(asset[l], job[l])
         /\ job[l].status = "PROCESSING" => asset[l].status = "PROCESSING"
<1>1. asset[l] \in AssetRow /\ job[l] \in JobRow /\ mediaFaults \in Nat
  BY DEF RowsInv, RowsTyped
<1>2. asset[l].version \in Nat /\ job[l].attempts \in Nat
  BY <1>1 DEF AssetRow, JobRow, AssetVersions, Attempts
<1>3. job[l].attempts <= MaxAttempts + mediaFaults /\ Agree(asset[l], job[l])
  BY DEF RowsInv, AttemptsPaid, RowsAgree
<1>4. job[l].status = "PROCESSING" => asset[l].status = "PROCESSING"
  BY <1>1, <1>3 DEF Agree, NoJob, AssetRow
<1> QED BY <1>1, <1>2, <1>3, <1>4

LEMMA ApiWritesKeeps ==
  ASSUME RowsInv, NEW l \in AssetLessons, NEW row \in AssetRow, NEW task \in JobRow,
         ApiWrites(l, row, task)
  PROVE  RowsInv' /\ Forward
<1>1. RowsTyped'
  BY DEF RowsInv, RowsTyped, ApiWrites
<1>2. /\ \A k \in AssetLessons : asset'[k] = IF k = l THEN row ELSE asset[k]
      /\ \A k \in AssetLessons : job'[k] = IF k = l THEN task ELSE job[k]
      /\ worker' = worker /\ mediaFaults' = mediaFaults
  BY DEF RowsInv, RowsTyped, ApiWrites
<1>3. /\ row.status \notin {"NONE", "READY"} /\ task.status # "PROCESSING"
      /\ Agree(row, task)
      /\ task.attempts <= job[l].attempts /\ (task.status = "PENDING" => task.attempts = 0)
  BY DEF ApiWrites, ApiTakes
<1>4. RowsAgree' /\ ReadyIsInspected' /\ NewIsBlank' /\ LeasesOwned'
  BY <1>2, <1>3 DEF RowsInv, RowsAgree, ReadyIsInspected, NewIsBlank, LeasesOwned
<1>5. HolderIsCurrent'
  BY <1>2, <1>3 DEF RowsInv, HolderIsCurrent, HoldsLease, WorkersKnow
<1>6. AttemptsPaid'
  <2>1. task.attempts \in Nat /\ job[l].attempts \in Nat /\ mediaFaults \in Nat
    BY RowFacts DEF JobRow, Attempts
  <2>2. task.attempts <= MaxAttempts + mediaFaults /\ 0 < MaxAttempts
    BY <1>3, <2>1, RowFacts
  <2> QED BY <1>2, <1>3, <2>2 DEF RowsInv, AttemptsPaid, Busy
<1>7. WorkersKnow'
  BY <1>2 DEF RowsInv, WorkersKnow
<1>8. Forward
  <2>1. /\ row.version > asset[l].version \/ asset[l].status = "NONE"
        /\ asset[l].version <= row.version
    BY RowFacts DEF ApiWrites, ApiTakes, RowsInv, NewIsBlank, NoAsset
  <2>2. \A k \in AssetLessons : asset[k].version \in Nat
    BY RowFacts
  <2>3. row.version \in Nat
    BY DEF AssetRow, AssetVersions
  <2> QED BY <1>2, <2>1, <2>2, <2>3 DEF Forward
<1> QED BY <1>1, <1>4, <1>5, <1>6, <1>7, <1>8 DEF RowsInv

LEMMA WorkerMovesKeeps ==
  ASSUME RowsInv, NEW w \in Workers, NEW row \in WorkerRow, WorkerMoves(w, row)
  PROVE  RowsInv' /\ Forward
<1>1. /\ \A v \in Workers : worker'[v] = IF v = w THEN row ELSE worker[v]
      /\ asset' = asset /\ job' = job
      /\ mediaFaults \in Nat /\ (mediaFaults' = mediaFaults \/ mediaFaults' = mediaFaults + 1)
  BY DEF RowsInv, RowsTyped, WorkerMoves, rows
<1>2. RowsTyped'
  BY DEF RowsInv, RowsTyped, WorkerMoves, rows
<1>3. RowsAgree' /\ ReadyIsInspected' /\ NewIsBlank' /\ LeasesOwned'
  BY <1>1 DEF RowsInv, RowsAgree, ReadyIsInspected, NewIsBlank, LeasesOwned
<1>4. /\ worker[w].lesson \in AssetLessons
      /\ row = NoWork \/ /\ row.step # "idle"
                         /\ row.lesson = worker[w].lesson
                         /\ row.version = worker[w].version
                         /\ row.key = worker[w].key
                         /\ row.attempts = worker[w].attempts
                         /\ row.step \in {"publish", "complete"} => row.file \in Contents
  BY DEF WorkerMoves, RowsInv, WorkersKnow
<1>5. HolderIsCurrent'
  BY <1>1, <1>4, IdleRow DEF RowsInv, HolderIsCurrent, HoldsLease, WorkerMoves
<1>6. WorkersKnow'
  BY <1>1, <1>4, IdleRow DEF RowsInv, WorkersKnow
<1>7. ASSUME NEW l \in AssetLessons
      PROVE  /\ job'[l].status = "PENDING" => job'[l].attempts < MaxAttempts
             /\ job'[l].status = "PROCESSING" /\ (job'[l].over \/ ~Busy(l)') =>
                  job'[l].attempts < MaxAttempts + mediaFaults'
             /\ job'[l].attempts <= MaxAttempts + mediaFaults'
  <2>1. job[l].attempts \in Nat /\ job[l].attempts <= MaxAttempts + mediaFaults
    BY RowFacts
  <2>2. job[l].status = "PENDING" => job[l].attempts < MaxAttempts
    BY DEF RowsInv, AttemptsPaid
  <2>3. CASE mediaFaults' = mediaFaults + 1
    BY <1>1, <2>1, <2>2, <2>3
  <2>4. CASE mediaFaults' = mediaFaults
    <3>1. Busy(l) /\ job[l].status = "PROCESSING" => Busy(l)'
      <4>1. row = NoWork => ~HoldsLease(w)
        BY <2>4, <1>1, IdleRow DEF WorkerMoves
      <4> QED BY <1>1, <1>4, <4>1 DEF Busy, HoldsLease
    <3> QED BY <1>1, <2>1, <2>2, <2>4, <3>1 DEF RowsInv, AttemptsPaid
  <2> QED BY <1>1, <2>3, <2>4
<1>8. AttemptsPaid'
  BY <1>7 DEF AttemptsPaid
<1>9. Forward
  <2>1. \A k \in AssetLessons : asset[k].version \in Nat
    BY RowFacts
  <2> QED BY <1>1, <2>1 DEF Forward
<1> QED BY <1>2, <1>3, <1>5, <1>6, <1>8, <1>9 DEF RowsInv

LEMMA ClaimKeeps ==
  ASSUME RowsInv, NEW w \in Workers, NEW l \in AssetLessons, Claim(w, l)
  PROVE  RowsInv' /\ Forward
<1> DEFINE task == [status |-> "PROCESSING", attempts |-> job[l].attempts + 1,
                    owner |-> w, over |-> FALSE]
           row == [step |-> "download", lesson |-> l, version |-> asset[l].version,
                   key |-> asset[l].key, attempts |-> job[l].attempts + 1,
                   file |-> "none", retryable |-> FALSE]
<1>1. /\ asset' = asset /\ mediaFaults' = mediaFaults
      /\ job' = [job EXCEPT ![l] = task]
      /\ worker' = [worker EXCEPT ![w] = row]
      /\ asset[l].status = "PROCESSING" /\ worker[w].step = "idle"
  BY DEF Claim
<1>2. /\ job[l].attempts < MaxAttempts + mediaFaults
      /\ job[l].attempts \in Nat /\ mediaFaults \in 0..MaxMediaFaults
      /\ asset[l] \in AssetRow
  BY RowFacts DEF Claim, Claimable, RowsInv, AttemptsPaid, RowsTyped
<1>3. task \in JobRow /\ row \in WorkerRow
  BY <1>2 DEF JobRow, WorkerRow, AssetRow, Attempts, UploadFiles
<1>4. /\ task.status = "PROCESSING" /\ ~task.over /\ task.owner = w
      /\ task.attempts = job[l].attempts + 1
      /\ row.step = "download" /\ row.lesson = l /\ row.version = asset[l].version
      /\ row.key = asset[l].key /\ row.attempts = task.attempts
  OBVIOUS
<1> HIDE DEF task, row
<1>5. /\ \A k \in AssetLessons : job'[k] = IF k = l THEN task ELSE job[k]
      /\ \A v \in Workers : worker'[v] = IF v = w THEN row ELSE worker[v]
  BY <1>1 DEF RowsInv, RowsTyped
<1>6. RowsTyped'
  BY <1>1, <1>3 DEF RowsInv, RowsTyped
<1>7. RowsAgree' /\ ReadyIsInspected' /\ NewIsBlank' /\ LeasesOwned'
  BY <1>1, <1>4, <1>5
  DEF RowsInv, RowsAgree, Agree, ReadyIsInspected, NewIsBlank, LeasesOwned
<1>8. WorkersKnow'
  BY <1>4, <1>5 DEF RowsInv, WorkersKnow
<1>9. HolderIsCurrent'
  BY <1>1, <1>4, <1>5 DEF RowsInv, HolderIsCurrent, HoldsLease, WorkersKnow
<1>10. AttemptsPaid'
  <2>1. Busy(l)'
    BY <1>4, <1>5 DEF Busy
  <2>2. \A k \in AssetLessons : k # l /\ Busy(k) => Busy(k)'
    BY <1>1, <1>4, <1>5, IdleRow DEF Busy, RowsInv, WorkersKnow, NoWork
  <2>3. task.attempts <= MaxAttempts + mediaFaults /\ task.attempts \in Nat
    BY <1>2, <1>4
  <2> QED BY <1>1, <1>4, <1>5, <2>1, <2>2, <2>3 DEF RowsInv, AttemptsPaid
<1>11. Forward
  <2>1. \A k \in AssetLessons : asset[k].version \in Nat
    BY RowFacts
  <2> QED BY <1>1, <2>1 DEF Forward
<1> QED BY <1>6, <1>7, <1>8, <1>9, <1>10, <1>11 DEF RowsInv

LEMMA SettlesKeeps ==
  ASSUME RowsInv, NEW w \in Workers, NEW row \in AssetRow, NEW task \in JobRow,
         NEW work \in WorkerRow, Settles(w, row, task, work)
  PROVE  RowsInv' /\ Forward
<1> DEFINE l == worker[w].lesson
<1>1. /\ l \in AssetLessons
      /\ asset[l].status = "PROCESSING" /\ job[l].status = "PROCESSING"
      /\ row.status \in {"PROCESSING", "READY", "FAILED"}
      /\ row.version = asset[l].version /\ row.key = asset[l].key
      /\ row.status = "READY" => row.facts.key = row.key /\ row.facts.file \in Contents
      /\ Agree(row, task) /\ task.status # "PROCESSING"
      /\ task.attempts = job[l].attempts
      /\ task.status = "PENDING" => task.attempts < MaxAttempts
      /\ work = NoWork \/ (work.step = "fail" /\ work.lesson = l)
  BY DEF Settles, MayComplete, HoldsLease, SameVersion, RowsInv, WorkersKnow
<1>2. RowsTyped'
  <2>1. /\ mediaFaults \in 0..MaxMediaFaults
        /\ \/ mediaFaults' = mediaFaults
           \/ mediaFaults' = mediaFaults + 1 /\ mediaFaults < MaxMediaFaults
        /\ asset \in [AssetLessons -> AssetRow] /\ job \in [AssetLessons -> JobRow]
        /\ worker \in [Workers -> WorkerRow]
    BY DEF RowsInv, RowsTyped, Settles
  <2>2. mediaFaults' \in 0..MaxMediaFaults
    BY <2>1
  <2>3. /\ asset' \in [AssetLessons -> AssetRow] /\ job' \in [AssetLessons -> JobRow]
        /\ worker' \in [Workers -> WorkerRow]
    BY <2>1 DEF Settles
  <2> QED BY <2>2, <2>3 DEF RowsTyped
<1> HIDE DEF l
<1>3. /\ \A k \in AssetLessons : asset'[k] = IF k = l THEN row ELSE asset[k]
      /\ \A k \in AssetLessons : job'[k] = IF k = l THEN task ELSE job[k]
      /\ \A v \in Workers : worker'[v] = IF v = w THEN work ELSE worker[v]
      /\ mediaFaults \in Nat /\ (mediaFaults' = mediaFaults \/ mediaFaults' = mediaFaults + 1)
  BY DEF RowsInv, RowsTyped, Settles, l
<1>4. RowsAgree' /\ ReadyIsInspected' /\ NewIsBlank' /\ LeasesOwned'
  BY <1>1, <1>3 DEF RowsInv, RowsAgree, ReadyIsInspected, NewIsBlank, LeasesOwned
<1>5. WorkersKnow'
  BY <1>1, <1>3, IdleRow DEF RowsInv, WorkersKnow
<1>6. HolderIsCurrent'
  BY <1>1, <1>3, IdleRow DEF RowsInv, HolderIsCurrent, HoldsLease, WorkersKnow
<1>7. AttemptsPaid'
  <2>1. \A k \in AssetLessons : k # l /\ Busy(k) => Busy(k)'
    BY <1>1, <1>3 DEF Busy, l
  <2>2. \A k \in AssetLessons :
          /\ job[k].attempts \in Nat /\ job[k].attempts <= MaxAttempts + mediaFaults
          /\ job[k].status = "PENDING" => job[k].attempts < MaxAttempts
          /\ job[k].status = "PROCESSING" /\ (job[k].over \/ ~Busy(k)) =>
               job[k].attempts < MaxAttempts + mediaFaults
    BY RowFacts DEF RowsInv, AttemptsPaid
  <2>3. SUFFICES ASSUME NEW k \in AssetLessons
                 PROVE  /\ job'[k].status = "PENDING" => job'[k].attempts < MaxAttempts
                        /\ job'[k].status = "PROCESSING" /\ (job'[k].over \/ ~Busy(k)') =>
                             job'[k].attempts < MaxAttempts + mediaFaults'
                        /\ job'[k].attempts <= MaxAttempts + mediaFaults'
    BY DEF AttemptsPaid
  <2>4. CASE k = l
    BY <1>1, <1>3, <2>2, <2>4
  <2>5. CASE k # l
    BY <1>3, <2>1, <2>2, <2>5
  <2> QED BY <2>4, <2>5
<1>8. Forward
  <2>1. \A k \in AssetLessons : asset[k].version \in Nat
    BY RowFacts
  <2> QED BY <1>1, <1>3, <2>1 DEF Forward
<1> QED BY <1>2, <1>4, <1>5, <1>6, <1>7, <1>8 DEF RowsInv

LEMMA ExpiresKeeps ==
  ASSUME RowsInv, NEW l \in AssetLessons, Expires(l)
  PROVE  RowsInv' /\ Forward
<1> DEFINE task == [status |-> "PROCESSING", attempts |-> job[l].attempts,
                    owner |-> job[l].owner, over |-> TRUE]
<1>1. task \in JobRow
  BY RowFacts DEF JobRow
<1>2. /\ job' = [job EXCEPT ![l] = task] /\ job[l].status = "PROCESSING"
      /\ asset' = asset /\ worker' = worker
      /\ task.status = "PROCESSING" /\ task.attempts = job[l].attempts
      /\ task.owner = job[l].owner /\ task.over
  BY DEF Expires
<1> HIDE DEF task
<1>3. /\ mediaFaults \in 0..MaxMediaFaults
      /\ \/ ~Busy(l) /\ mediaFaults' = mediaFaults
         \/ mediaFaults' = mediaFaults + 1 /\ mediaFaults < MaxMediaFaults
      /\ job \in [AssetLessons -> JobRow] /\ asset \in [AssetLessons -> AssetRow]
      /\ worker \in [Workers -> WorkerRow]
  BY DEF Expires, RowsInv, RowsTyped
<1>4. mediaFaults' \in 0..MaxMediaFaults /\ (mediaFaults' = mediaFaults => ~Busy(l))
  BY <1>3
<1>5. RowsTyped'
  BY <1>1, <1>2, <1>3, <1>4 DEF RowsTyped
<1>6. /\ \A k \in AssetLessons : job'[k] = IF k = l THEN task ELSE job[k]
      /\ mediaFaults \in Nat /\ (mediaFaults' = mediaFaults \/ mediaFaults' = mediaFaults + 1)
      /\ mediaFaults' = mediaFaults => ~Busy(l)
  BY <1>2, <1>3, <1>4
<1>7. RowsAgree' /\ ReadyIsInspected' /\ NewIsBlank' /\ LeasesOwned' /\ WorkersKnow'
  BY <1>2, <1>6, RowFacts
  DEF RowsInv, RowsAgree, Agree, ReadyIsInspected, NewIsBlank, LeasesOwned, WorkersKnow
<1>8. HolderIsCurrent'
  BY <1>2, <1>6 DEF RowsInv, HolderIsCurrent, HoldsLease, WorkersKnow
<1>9. AttemptsPaid'
  <2>1. \A k \in AssetLessons : Busy(k) => Busy(k)'
    BY <1>2, <1>6 DEF Busy
  <2>2. \A k \in AssetLessons :
          /\ job[k].attempts \in Nat /\ job[k].attempts <= MaxAttempts + mediaFaults
          /\ job[k].status = "PENDING" => job[k].attempts < MaxAttempts
          /\ job[k].status = "PROCESSING" /\ (job[k].over \/ ~Busy(k)) =>
               job[k].attempts < MaxAttempts + mediaFaults
    BY RowFacts DEF RowsInv, AttemptsPaid
  <2>3. task.attempts < MaxAttempts + mediaFaults'
    BY <1>2, <1>6, <2>2
  <2> QED BY <1>2, <1>6, <2>1, <2>2, <2>3 DEF AttemptsPaid
<1>10. Forward
  <2>1. \A k \in AssetLessons : asset[k].version \in Nat
    BY RowFacts
  <2> QED BY <1>2, <2>1 DEF Forward
<1> QED BY <1>5, <1>7, <1>8, <1>9, <1>10 DEF RowsInv

LEMMA ElsewhereKeeps ==
  ASSUME RowsInv, Elsewhere PROVE RowsInv' /\ Forward
<1>1. /\ asset' = asset /\ job' = job /\ worker' = worker /\ mediaFaults' = mediaFaults
      /\ \A l \in AssetLessons : asset[l].version \in Nat
  BY RowFacts DEF Elsewhere, rows
<1>2. RowsTyped' /\ RowsAgree' /\ ReadyIsInspected' /\ NewIsBlank' /\ LeasesOwned'
  BY <1>1 DEF RowsInv, RowsTyped, RowsAgree, ReadyIsInspected, NewIsBlank, LeasesOwned
<1>3. HolderIsCurrent' /\ WorkersKnow'
  BY <1>1 DEF RowsInv, HolderIsCurrent, HoldsLease, WorkersKnow
<1>4. AttemptsPaid'
  BY <1>1 DEF RowsInv, AttemptsPaid, Busy
<1>5. Forward
  BY <1>1 DEF Forward
<1> QED BY <1>2, <1>3, <1>4, <1>5 DEF RowsInv

LEMMA EffectKeeps ==
  ASSUME RowsInv, Effect PROVE RowsInv' /\ Forward
BY ApiWritesKeeps, WorkerMovesKeeps, ClaimKeeps, SettlesKeeps, ExpiresKeeps, ElsewhereKeeps
   DEF Effect

\* What a call knows stays true: its version is not the current one any more,
\* or the asset has not left its state of rest.
LEMMA CallsKeepKnowing ==
  ASSUME RowsInv, RowsInv', Forward, RequestsKnow, CallEffect,
         mediaCall \in [MediaCalls -> MediaCallRow]
  PROVE  RequestsKnow' /\ (mediaCall \in [MediaCalls -> MediaCallRow])'
<1>1. /\ \A l \in AssetLessons : asset[l].version \in Nat
      /\ \A l \in AssetLessons : asset'[l].version \in Nat
      /\ \A r \in MediaCalls : mediaCall[r].version \in Nat
  BY DEF RowsInv, RowsTyped, AssetRow, AssetVersions, MediaCallRow
<1>2. ASSUME NEW r \in MediaCalls, mediaCall[r].step # "idle", mediaCall'[r] = mediaCall[r]
      PROVE  /\ mediaCall'[r].lesson \in AssetLessons
             /\ mediaCall'[r].version <= asset'[mediaCall'[r].lesson].version
             /\ mediaCall'[r].step = "replace"
                  /\ asset'[mediaCall'[r].lesson].version = mediaCall'[r].version =>
                  asset'[mediaCall'[r].lesson].status \notin {"NONE", "PROCESSING"}
  <2> DEFINE l == mediaCall[r].lesson
  <2>1. /\ l \in AssetLessons /\ mediaCall[r].version <= asset[l].version
        /\ mediaCall[r].step = "replace" /\ asset[l].version = mediaCall[r].version =>
             asset[l].status \notin {"NONE", "PROCESSING"}
    BY <1>2 DEF RequestsKnow, Unchanged
  <2>2. /\ asset[l].version <= asset'[l].version
        /\ asset'[l].version = asset[l].version
             /\ asset[l].status \notin {"NONE", "PROCESSING"} =>
             asset'[l].status \notin {"NONE", "PROCESSING"}
    BY <2>1 DEF Forward
  <2>3. /\ asset[l].version \in Nat /\ asset'[l].version \in Nat
        /\ mediaCall[r].version \in Nat
    BY <1>1, <2>1
  <2> HIDE DEF l
  <2>4. /\ mediaCall[r].version <= asset'[l].version
        /\ mediaCall[r].step = "replace" /\ asset'[l].version = mediaCall[r].version =>
             asset'[l].status \notin {"NONE", "PROCESSING"}
    BY <2>1, <2>2, <2>3
  <2> QED BY <1>2, <2>1, <2>4 DEF l
<1>3. CASE UNCHANGED mediaCall
  BY <1>2, <1>3 DEF RequestsKnow, Unchanged
<1>4. ASSUME NEW r \in MediaCalls, NEW row \in MediaCallRow, CallMoves(r, row)
      PROVE  RequestsKnow' /\ (mediaCall \in [MediaCalls -> MediaCallRow])'
  <2>1. \A q \in MediaCalls : mediaCall'[q] = IF q = r THEN row ELSE mediaCall[q]
    BY <1>4 DEF CallMoves
  <2>2. row.step # "idle" =>
          /\ row.lesson \in AssetLessons
          /\ row.version <= asset'[row.lesson].version
          /\ row.step = "replace" => asset'[row.lesson].status \notin {"NONE", "PROCESSING"}
    BY <1>4 DEF CallMoves
  <2>3. RequestsKnow'
    BY <1>2, <2>1, <2>2 DEF RequestsKnow, Unchanged
  <2> QED BY <1>4, <2>3 DEF CallMoves
<1> QED BY <1>3, <1>4 DEF CallEffect

-----------------------------------------------------------------------------
(* The theorems.                                                           *)

LEMMA InvariantStep == MediaInv /\ [MediaNext]_mediaVars => MediaInv'
<1> SUFFICES ASSUME MediaInv, [MediaNext]_mediaVars PROVE MediaInv'
  OBVIOUS
<1>1. RowsInv /\ RequestsKnow /\ mediaCall \in [MediaCalls -> MediaCallRow]
  BY DEF MediaInv, MediaTypeOK, RowsInv, RowsTyped
<1>2. Effect /\ CallEffect /\ ObjectsTyped'
  BY EveryStepHasEffect DEF StepEffect
<1>3. RowsInv' /\ Forward
  BY <1>1, <1>2, EffectKeeps
<1>4. RequestsKnow' /\ (mediaCall \in [MediaCalls -> MediaCallRow])'
  BY <1>1, <1>2, <1>3, CallsKeepKnowing
<1> QED BY <1>2, <1>3, <1>4 DEF MediaInv, MediaTypeOK, RowsInv, RowsTyped, ObjectsTyped

\* The inductive invariant: rows that agree, holders that are current, and
\* what calls and workers know, of which every other theorem is a consequence.
THEOREM MediaInvariant == MediaSpec => []MediaInv
<1>1. MediaInit => MediaInv
  BY InitialInv
<1> QED BY <1>1, InvariantStep, PTL DEF MediaSpec

\* Rows, objects, calls and workers are well formed: the versions and the
\* attempts stay within their bounds (schema.prisma, LessonAsset and
\* MediaProcessJob).
THEOREM TypeCorrect == MediaSpec => []MediaTypeOK
<1>1. MediaInv => MediaTypeOK
  BY DEF MediaInv
<1> QED BY <1>1, MediaInvariant, PTL

\* The job of a lesson is where its asset is (media.service.ts:146-167,
\* 253-262; job-store.ts:75-128).
THEOREM RowsAlwaysAgree == MediaSpec => []RowsAgree
<1>1. MediaInv => RowsAgree
  BY DEF MediaInv
<1> QED BY <1>1, MediaInvariant, PTL

\* Whoever holds the lease of a job works for the version, the file and the
\* attempt that the rows have (job-store.ts:75-128).
THEOREM HoldersAlwaysCurrent == MediaSpec => []HolderIsCurrent
<1>1. MediaInv => HolderIsCurrent
  BY DEF MediaInv
<1> QED BY <1>1, MediaInvariant, PTL

\* An attempt beyond the limit needs a worker that died or was late
\* (job-store.ts:42, 131-137).
THEOREM AttemptsAlwaysBounded == MediaSpec => []AttemptsBounded
<1>1. MediaInv => AttemptsBounded
  BY DEF MediaInv, AttemptsPaid, AttemptsBounded
<1> QED BY <1>1, MediaInvariant, PTL

\* A READY asset carries the facts of its own upload, which passed the
\* inspection (job-store.ts:75-102).
THEOREM ReadyAlwaysInspected == MediaSpec => []ReadyIsInspected
<1>1. MediaInv => ReadyIsInspected
  BY DEF MediaInv
<1> QED BY <1>1, MediaInvariant, PTL

\* One lesson of the promised contents changes, with its rows.
LEMMA PromisedChanges ==
  ASSUME NEW l \in AssetLessons, NEW row, asset \in [AssetLessons -> AssetRow],
         asset' = [asset EXCEPT ![l] = row]
  PROVE  AssetCycle!Becomes(l, row.status, row.version)
BY DEF Promised, AssetCycle!Becomes

LEMMA EffectRefines ==
  ASSUME RowsInv, Effect PROVE AssetCycle!Next \/ UNCHANGED Promised
<1>1. asset \in [AssetLessons -> AssetRow]
  BY DEF RowsInv, RowsTyped
<1>2. \A l \in AssetLessons :
        Promised[l].status = asset[l].status /\ Promised[l].version = asset[l].version
  BY DEF Promised
<1>3. ASSUME NEW l \in AssetLessons, NEW row \in AssetRow, NEW task \in JobRow,
             ApiWrites(l, row, task)
      PROVE  AssetCycle!Next
  <2>1. AssetCycle!Becomes(l, row.status, row.version)
    BY <1>1, <1>3, PromisedChanges DEF ApiWrites
  <2>2. \/ AssetCycle!Create(l) \/ AssetCycle!Replace(l)
        \/ AssetCycle!Reject(l) \/ AssetCycle!Queue(l)
    BY <1>2, <1>3, <2>1 DEF ApiWrites, ApiTakes, AssetCycle!Create, AssetCycle!Replace,
       AssetCycle!Reject, AssetCycle!Queue
  <2> QED BY <2>2 DEF AssetCycle!Next
<1>4. ASSUME NEW w \in Workers, NEW row \in AssetRow, NEW task \in JobRow,
             NEW work \in WorkerRow, Settles(w, row, task, work)
      PROVE  AssetCycle!Next \/ UNCHANGED Promised
  <2> DEFINE l == worker[w].lesson
  <2>1. /\ l \in AssetLessons /\ asset[l].status = "PROCESSING"
        /\ row.status \in {"PROCESSING", "READY", "FAILED"}
        /\ row.version = asset[l].version
        /\ asset' = [asset EXCEPT ![l] = row]
    BY <1>4 DEF Settles, MayComplete, SameVersion, RowsInv, WorkersKnow
  <2> HIDE DEF l
  <2>2. AssetCycle!Becomes(l, row.status, row.version)
    BY <1>1, <2>1, PromisedChanges
  <2>3. CASE row.status = "PROCESSING"
    BY <1>1, <2>1, <2>3 DEF Promised
  <2>4. CASE row.status # "PROCESSING"
    <3>1. AssetCycle!Finish(l)
      BY <1>2, <2>1, <2>2, <2>4 DEF AssetCycle!Finish
    <3> QED BY <2>1, <3>1 DEF AssetCycle!Next
  <2> QED BY <2>3, <2>4
<1>5. ASSUME UNCHANGED asset PROVE UNCHANGED Promised
  BY <1>5 DEF Promised
<1> QED BY <1>3, <1>4, <1>5
  DEF Effect, WorkerMoves, Claim, Expires, Elsewhere, rows

\* The pipeline implements the life cycle: nothing interrupts PROCESSING,
\* only an upload or a retry leaves FAILED, and the teacher's writes are
\* counted (media.service.ts:92-110, 146-167, 228-262).
THEOREM Refinement == MediaSpec => ImplementsAssetLifecycle
<1>1. MediaInit => AssetCycle!Init
  BY DEF MediaInit, AssetCycle!Init, Promised, NoAsset
<1>2. MediaInv /\ [MediaNext]_mediaVars => [AssetCycle!Next]_Promised
  <2> SUFFICES ASSUME MediaInv, [MediaNext]_mediaVars PROVE [AssetCycle!Next]_Promised
    OBVIOUS
  <2>1. RowsInv
    BY DEF MediaInv, MediaTypeOK, RowsInv, RowsTyped
  <2> QED BY <2>1, EveryStepHasEffect, EffectRefines DEF StepEffect
<1> QED BY <1>1, <1>2, MediaInvariant, PTL DEF MediaSpec, ImplementsAssetLifecycle, AssetCycle!Spec
=============================================================================
