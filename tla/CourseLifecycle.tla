-------------------------- MODULE CourseLifecycle --------------------------
(***************************************************************************)
(* What the platform promises about the publication of a course: the order *)
(* of its states, which students see, and the listing, the facts of the    *)
(* chain that are written when it is published and never again.            *)
(***************************************************************************)
CONSTANTS
  Listings,                   \* price, payout wallet and hash on the chain
  None                        \* not listed

VARIABLES status, listing

Init == status = "DRAFT" /\ listing = None

Submit == status = "DRAFT" /\ status' = "PENDING_REVIEW" /\ UNCHANGED listing

Reject == status = "PENDING_REVIEW" /\ status' = "DRAFT" /\ UNCHANGED listing

Approve == status = "PENDING_REVIEW" /\ status' = "APPROVED" /\ UNCHANGED listing

Publish == status = "APPROVED" /\ status' = "PUBLISHED" /\ listing' \in Listings

\* By the status that the chain reports.
Delist == status = "PUBLISHED" /\ status' = "ARCHIVED" /\ UNCHANGED listing

Relist == status = "ARCHIVED" /\ status' = "PUBLISHED" /\ UNCHANGED listing

Next == Submit \/ Reject \/ Approve \/ Publish \/ Delist \/ Relist

Spec == Init /\ [][Next]_<<status, listing>>
=============================================================================
