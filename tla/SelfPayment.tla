----------------------------- MODULE SelfPayment -----------------------------
(***************************************************************************)
(* The gateway's test for a payer whose own calls must not score, against  *)
(* the registry's, on a record just read.                                  *)
(***************************************************************************)
EXTENDS Registry

\* Mutant of IsSelfPayment: the payee to come counts too.
IsSelfPaymentPending(payer, record) ==
  payer \in {record.owner, record.paymentTarget, record.pendingPaymentTarget, record.attestor}

\* isSelfPayment, of the middleware.
IsSelfPayment(payer, record) ==
  payer \in {record.owner, record.paymentTarget, record.attestor}

\* A call the gateway leaves unscored is one recordAttestation would refuse as
\* SelfPayment: no seller loses a point to the gateway's own caution.
SkippedOnlyIfRefused ==
  \A id \in ServiceId, payer \in Account :
    Registered(id) /\ IsSelfPayment(payer, GetService(id))
      => payer \in Interested(PromoteAttestor(services[id]))

=============================================================================
