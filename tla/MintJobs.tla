------------------------------ MODULE MintJobs ------------------------------
(***************************************************************************)
(* The names the outbox and the chain share.                               *)
(***************************************************************************)

CONSTANTS
  Jobs,                       \* one per CourseCompletion, i.e. per (student, course)
  Txs,                        \* transaction hashes
  Null                        \* SQL NULL, and the empty hash a Go job carries for it

ASSUME MintJobsAssumption ==
  /\ Null \notin Jobs
  /\ Null \notin Txs
=============================================================================
