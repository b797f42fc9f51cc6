-------------------------- MODULE MCCourseContent --------------------------
(***************************************************************************)
(* The teacher's side: the pipeline of uploaded files and the publication  *)
(* of their course.  They meet in the status and the version of an asset,  *)
(* which CoursePublishing takes as AssetLifecycle promises them and        *)
(* MediaPipeline is shown to keep here; part selects the one that moves.   *)
(***************************************************************************)
EXTENDS MediaPipeline, CoursePublishing

VARIABLE part

contentVars == <<part, mediaVars, vars>>

ContentInit ==
  /\ part \in {"media", "publishing"}
  /\ MediaInit /\ Init

ContentNext ==
  \/ part = "media" /\ MediaNext /\ UNCHANGED <<part, vars>>
  \/ part = "publishing" /\ Next /\ UNCHANGED <<part, mediaVars>>

\* The fairness of both, each for the part that moves.
ContentFairness ==
  /\ \A w \in Workers : WF_mediaVars(part = "media" /\ WorkerStep(w))
  /\ \A l \in AssetLessons : WF_mediaVars(part = "media" /\ LeaseRunsOut(l))
  /\ \A i \in Indexers : WF_vars(part = "publishing" /\ SyncStep(i))

ContentSpec == ContentInit /\ [][ContentNext]_contentVars /\ ContentFairness
=============================================================================
