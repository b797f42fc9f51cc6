----------------------- MODULE MCCertificateDelivery -----------------------
(* Instances of CertificateDelivery.                                       *)
EXTENDS CertificateDelivery

\* Transaction hashes are interchangeable: they are numbered as they are sent.
SentInOrder ==
  \A s, t \in Txs : s < t /\ txStatus[t] # "unsent" => txStatus[s] # "unsent"
=============================================================================
