---------------------------- MODULE CatalogChain ----------------------------
(***************************************************************************)
(* The CourseCatalog contract and its event log, as the catalog indexer    *)
(* reads it.  Every event is in a block of its own; a block without one    *)
(* makes no difference to the indexer but a later safe block.              *)
(***************************************************************************)
EXTENDS Naturals, Sequences

CONSTANTS
  ChainIds,                   \* course ids on the chain
  Terms,                      \* price, payout wallet and certificate URI
  Hashes,                     \* metadata hashes
  None,
  MaxLogs                     \* bound of the length of the log

VARIABLES
  logs,                       \* the events, one for each block
  confirmed                   \* blocks with enough confirmations

Event ==
  [kind : {"configured"}, id : ChainIds, terms : Terms, hash : Hashes]
    \union [kind : {"published", "delisted"}, id : ChainIds, terms : {None}, hash : {None}]

ChainTypeOK ==
  /\ logs \in Seq(Event)
  /\ Len(logs) <= MaxLogs
  /\ confirmed \in 0..Len(logs)

ChainInit == logs = <<>> /\ confirmed = 0

\* The last event of a course up to block n, 0 when there is none.
LastOf(id, n) ==
  LET blocks == {k \in 1..n : logs[k].id = id}
  IN  IF blocks = {} THEN 0 ELSE CHOOSE k \in blocks : \A j \in blocks : j <= k

\* CourseStatus
StatusAt(id, n) ==
  IF LastOf(id, n) = 0 THEN "unknown"
  ELSE IF logs[LastOf(id, n)].kind = "delisted" THEN "delisted" ELSE "published"

Emit(event) ==
  /\ Len(logs) < MaxLogs
  /\ logs' = Append(logs, event)
  /\ UNCHANGED confirmed

\* Creates, changes or lists again; whatever was there.
ConfigureCourse(id, terms, hash) ==
  Emit([kind |-> "configured", id |-> id, terms |-> terms, hash |-> hash])

SetCourseStatus(id, status) ==
  /\ StatusAt(id, Len(logs)) \notin {"unknown", status}
  /\ Emit([kind |-> status, id |-> id, terms |-> None, hash |-> None])

Confirm ==
  /\ confirmed < Len(logs)
  /\ confirmed' = confirmed + 1
  /\ UNCHANGED logs

\* A reorganisation above the confirmed blocks loses the last one.
Reorganise ==
  /\ confirmed < Len(logs)
  /\ logs' = SubSeq(logs, 1, Len(logs) - 1)
  /\ UNCHANGED confirmed
=============================================================================
