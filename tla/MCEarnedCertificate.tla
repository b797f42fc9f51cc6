------------------------ MODULE MCEarnedCertificate ------------------------
(***************************************************************************)
(* From a played lesson to a minted certificate: the sessions that earn    *)
(* the completion of a course, and the workers that deliver its            *)
(* certificate.  The first inserts the two rows that the second begins     *)
(* with and neither looks back; part selects the one that moves.           *)
(***************************************************************************)
EXTENDS MCLearningSessions, MCCertificateDelivery

VARIABLE part

earnedVars == <<part, vars, deliveryVars>>

EarnedInit ==
  /\ DeliveryInit
  /\ \/ part = "learning" /\ PlaybackInit
     \/ part = "delivery" /\ Init

EarnedNext ==
  \/ part = "learning" /\ Next /\ UNCHANGED <<part, deliveryVars>>
  \/ part = "delivery" /\ DeliveryNext /\ UNCHANGED <<part, vars>>

EarnedSpec == EarnedInit /\ [][EarnedNext]_earnedVars

EarnedBound == PlaybackBound /\ SentInOrder

\* Requests are interchangeable, and so are workers: an instance gives both the same
\* values, so that one permutation is of both.
EarnedSymmetry == MCSymmetry
=============================================================================
