------------------------------- MODULE Grace --------------------------------
(***************************************************************************)
(* The grace of recordAttestation over time.  A history variable notes when *)
(* each settlement was made, if at that moment it paid the live payee of a *)
(* registered service at least its live price.                             *)
(***************************************************************************)
EXTENDS Registry

VARIABLE fairAt  \* by settlement key, the time of a fair settlement; -1 = none

graceVars == <<vars, fairAt>>

\* What a buyer does who follows the quote of this instant.
FollowsQuote(id, payTo, amount) ==
  /\ Registered(id)
  /\ payTo = EffectivePaymentTarget(services[id])
  /\ amount >= EffectiveNativePrice(services[id])

GracePay(payer, id, nonce, payTo, amount) ==
  /\ Pay(payer, id, nonce, payTo, amount)
  /\ fairAt' = IF FollowsQuote(id, payTo, amount)
                 THEN [fairAt EXCEPT ![<<id, nonce, payer, payTo>>] = now]
                 ELSE fairAt

GraceInit == Init /\ fairAt = [key \in SettlementKey |-> -1]

GraceNext ==
  \/ \E payer, payTo \in Account, id \in ServiceId, nonce \in Nonce, amount \in Amount :
       GracePay(payer, id, nonce, payTo, amount)
  \/ TermsNext /\ UNCHANGED <<settled, scoreVars, fairAt>>
  \/ /\ \E sender, payer \in Account, id \in ServiceId, nonce \in Nonce, success \in BOOLEAN :
          RecordAttestation(sender, id, nonce, payer, success)
     /\ UNCHANGED fairAt

GraceSpec == GraceInit /\ [][GraceNext]_graceVars

-----------------------------------------------------------------------------

\* The payer also settled this invoice with the payee live now, for less than
\* the floor: the first lookup finds that and the second is never made.
MaskedByDust(id, nonce, payer) ==
  settled[<<id, nonce, payer, EffectivePaymentTarget(services[id])>>]
    \in 1 .. FloorWei(services[id]) - 1

\* A buyer who paid the live payee at least the live price can still be scored
\* a whole TERMS_CHANGE_DELAY_MS later, whatever the owner has queued before or
\* after the payment: a rotation or a reprice, or both, may mature within that
\* time, never two of a kind (the displaced payee and price of
\* _requireBackingSettlement).  Its own dust to the new payee, or a stake it has
\* since acquired, is the buyer's exception.
FairSettlementStaysAttestable ==
  \A id \in ServiceId, nonce \in Nonce, payer, payTo \in Account :
    LET at == fairAt[<<id, nonce, payer, payTo>>]
        s == PromoteAttestor(services[id])
    IN  at # -1 /\ now <= at + TermsDelay
          => \/ BackingSettlement(s, id, nonce, payer)
             \/ payer \in Interested(s)
             \/ MaskedByDust(id, nonce, payer)

=============================================================================
