--------------------------- MODULE AssetLifecycle ---------------------------
(***************************************************************************)
(* What the media pipeline promises about the content of a lesson: the     *)
(* states of its LessonAsset row and the version that every change by the  *)
(* teacher increases.  Processing ends READY or FAILED; only an upload or  *)
(* a retry leaves FAILED; nothing interrupts PROCESSING.                   *)
(***************************************************************************)
EXTENDS Naturals

CONSTANT Lessons

VARIABLE content              \* status and version of the asset of a lesson

States == {"NONE", "UPLOADING", "PROCESSING", "READY", "FAILED"}

Init == content = [l \in Lessons |-> [status |-> "NONE", version |-> 0]]

Becomes(l, status, version) ==
  content' = [content EXCEPT ![l] = [status |-> status, version |-> version]]

\* The first upload session, or a video registered without an upload.
Create(l) ==
  /\ content[l].status = "NONE"
  /\ \E s \in {"UPLOADING", "PROCESSING"} : Becomes(l, s, 0)

\* A new upload session replaces what was there, never what is in process.
Replace(l) ==
  /\ content[l].status \in {"UPLOADING", "READY", "FAILED"}
  /\ Becomes(l, "UPLOADING", content[l].version + 1)

Reject(l) ==
  /\ content[l].status = "UPLOADING"
  /\ Becomes(l, "FAILED", content[l].version + 1)

\* The upload is complete, or a failed one is retried.
Queue(l) ==
  /\ content[l].status \in {"UPLOADING", "FAILED"}
  /\ Becomes(l, "PROCESSING", content[l].version + 1)

Finish(l) ==
  /\ content[l].status = "PROCESSING"
  /\ \E s \in {"READY", "FAILED"} : Becomes(l, s, content[l].version)

Next == \E l \in Lessons : Create(l) \/ Replace(l) \/ Reject(l) \/ Queue(l) \/ Finish(l)

Spec == Init /\ [][Next]_content
=============================================================================
