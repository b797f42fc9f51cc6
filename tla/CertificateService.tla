------------------------- MODULE CertificateService -------------------------
(***************************************************************************)
(* What certificate delivery promises, without saying how.                 *)
(*                                                                         *)
(* Every completed course (one CourseCompletion row) asks for one          *)
(* certificate.  The chain certifies a completion for good; the platform   *)
(* reports a completion MINTED only once it is certified, may go back and  *)
(* forth between PENDING and MINTING while it tries, and never leaves      *)
(* MINTED or FAILED.                                                       *)
(***************************************************************************)

CONSTANT Jobs                 \* completions that asked for a certificate

VARIABLES
  status,                     \* CourseCompletion.status, per completion
  certified                   \* completions whose certificate is final on chain

vars == <<status, certified>>

CertificateStatus == {"PENDING", "MINTING", "MINTED", "FAILED"}

Open(j) == status[j] \in {"PENDING", "MINTING"}

Init ==
  /\ status = [j \in Jobs |-> "PENDING"]
  /\ certified = {}

\* The chain certifies j, whatever the platform knows of it.
Certify(j) ==
  /\ j \notin certified
  /\ certified' = certified \union {j}
  /\ UNCHANGED status

Become(j, s) ==
  /\ status' = [status EXCEPT ![j] = s]
  /\ UNCHANGED certified

Broadcast(j) == status[j] = "PENDING" /\ Become(j, "MINTING")

GiveBack(j) == status[j] = "MINTING" /\ Become(j, "PENDING")

Deliver(j) == Open(j) /\ j \in certified /\ Become(j, "MINTED")

Abandon(j) == Open(j) /\ Become(j, "FAILED")

Next ==
  \E j \in Jobs :
    Certify(j) \/ Broadcast(j) \/ GiveBack(j) \/ Deliver(j) \/ Abandon(j)

Spec == Init /\ [][Next]_vars
=============================================================================
